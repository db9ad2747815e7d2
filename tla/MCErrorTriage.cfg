SPECIFICATION TriageSpec
INVARIANTS OneTicket SameTicket CountedOncePerFix InStepUndisturbed
PROPERTIES HumanStateKept ComebackVisible
CONSTANTS
  Callers = {s1, s2}
  NoCaller = none
  MaxOrphans = 1
  MaxCalls = 2
  Uploads = {u1, u2}
  NoUpload = nobody
  Sweeps = {w1}
  Window = 1
  Webhook = TRUE
  LinkKey = "error"
  PatchTo = {"open", "known", "fixed", "regressed"}
  MaxUploads = 2
  MaxPatches = 2
  MaxEdits = 1
  MaxLost = 1
SYMMETRY Symmetry
CHECK_DEADLOCK FALSE
