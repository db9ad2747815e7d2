CONSTANTS
  o1 = o1
  c1 = c1
  Orgs = {o1, o2}
  o2 = o2
  Writers = {"w1", "w2"}
  Bodies = {"a"}
  Nobody = Nobody
  LegacyOrgs <- MCLegacyOrgs
  MaxTx = 3
  Configs = {c1}
  OrgOf <- MCOrgOf
  Ticks = {"t1", "t2"}
  BatchSize = 1
  MaxBatches = 2
SPECIFICATION ExportSpec
INVARIANTS
  ChainIntact
  GapFree
  ConfirmedNeverReshipped
PROPERTIES
  IdsCommitInOrder
  ImplementsDurableFeed
