CONSTANTS
  s1 = s1
  s2 = s2
  s3 = s3
  f1 = f1
  f2 = f2
  Shards = {s1, s2, s3}
  Files = {f1, f2}
  Tests = {"t1", "t2"}
  FileOf <- MCFileOf
  Report <- MCReport
  EndOf <- MCEndOf
  Events <- MCEvents
  MaxUploads = 2
SPECIFICATION Spec
INVARIANTS
  CountersAgree
  ReportKept
  FailureShows
CHECK_DEADLOCK FALSE
