SPECIFICATION Spec
INVARIANT OneRowPerTest
CONSTANTS
  Tasks = {p1}
  NoTask = none
  Clients = {c1}
  Script <- OneBatch
  Sockets = {k1}
  StaleAge = 1
  IdleAge = 1
  Uploads = TRUE
  Deletes = FALSE
  Watches = TRUE
  MaxStarts = 1
  MaxAborts = 0
  MaxBeats = 0
  MaxRetries = 0
  MaxFailures = 0
CHECK_DEADLOCK FALSE
