SPECIFICATION FairClientSpec
INVARIANTS NothingForgotten OrderWithoutOverlap
PROPERTY EverythingArrives
CONSTANTS
  MaxQueue = 2
  MaxEvents = 4
  MaxFlights = 2
  MaxFailedPosts = 2
  MayArriveLate = TRUE
CHECK_DEADLOCK FALSE
