SPECIFICATION FairSpec
INVARIANT NoFalseAbort
PROPERTY EventuallyTerminal
CONSTANTS
  Tasks = {p1}
  NoTask = none
  Clients = {c1}
  Script <- OnlyTheEnd
  Sockets = {k1}
  StaleAge = 2
  IdleAge = 2
  Uploads = TRUE
  Deletes = TRUE
  Watches = FALSE
  MaxStarts = 1
  MaxAborts = 0
  MaxBeats = 1
  MaxRetries = 0
  MaxFailures = 1
CHECK_DEADLOCK FALSE
