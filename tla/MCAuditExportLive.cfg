CONSTANTS
  o2 = o1
  o1 = o1
  c1 = c1
  Orgs = {o1}
  Writers = {"w1", "w2"}
  Bodies = {"a"}
  Nobody = Nobody
  LegacyOrgs <- MCLegacyOrgs
  MaxTx = 2
  Configs = {c1}
  OrgOf <- MCOrgOf
  Ticks = {"t1"}
  BatchSize = 1
  MaxBatches = 2
SPECIFICATION ExportFairSpec
PROPERTIES
  EverythingDelivered
  EveryAppendEnds
