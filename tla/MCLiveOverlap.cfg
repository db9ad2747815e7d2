SPECIFICATION Spec
INVARIANT HistoryAsSent
CONSTANTS
  Tasks = {p1}
  NoTask = none
  Clients = {c1}
  Script <- TwoBatches
  Sockets = {k1, k2}
  StaleAge = 1
  IdleAge = 1
  Uploads = FALSE
  Deletes = FALSE
  Watches = TRUE
  MaxStarts = 1
  MaxAborts = 0
  MaxBeats = 0
  MaxRetries = 0
  MaxFailures = 0
CHECK_DEADLOCK FALSE
