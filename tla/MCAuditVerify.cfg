CONSTANTS
  o1 = o1
  Orgs = {o1}
  Writers = {"w1", "w2"}
  Bodies = {"a", "b"}
  Nobody = Nobody
  LegacyOrgs <- MCLegacyOrgs
  MaxTx = 3
  VerifiedOrg = o1
  batchSize = 2
SPECIFICATION VerifySpec
INVARIANTS
  NoFalseAlarm
  ChangeReported
