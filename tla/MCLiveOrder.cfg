SPECIFICATION Spec
SYMMETRY SocketSymmetry
INVARIANTS HistoryInOrder OneRowPerTest AbortedOnce RefetchAfterAbort
CONSTANTS
  Tasks = {p1}
  NoTask = none
  Clients = {c1}
  Script <- StartThenResult
  Sockets = {k1, k2}
  StaleAge = 1
  IdleAge = 1
  Uploads = FALSE
  Deletes = FALSE
  Watches = TRUE
  MaxStarts = 1
  MaxAborts = 1
  MaxBeats = 0
  MaxRetries = 1
  MaxFailures = 0
CHECK_DEADLOCK FALSE
