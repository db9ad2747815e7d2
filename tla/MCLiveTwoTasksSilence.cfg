SPECIFICATION Spec
INVARIANT NoFalseAbort
CONSTANTS
  Tasks = {p1, p2}
  NoTask = none
  Clients = {c1}
  Script <- OneBatch
  Sockets = {k1}
  StaleAge = 2
  IdleAge = 3
  Uploads = FALSE
  Deletes = FALSE
  Watches = TRUE
  MaxStarts = 1
  MaxAborts = 0
  MaxBeats = 1
  MaxRetries = 0
  MaxFailures = 0
CHECK_DEADLOCK FALSE
