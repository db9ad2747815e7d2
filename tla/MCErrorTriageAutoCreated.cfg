SPECIFICATION TriageSpec
INVARIANT InStepUndisturbed
CONSTANTS
  Callers = {s1, s2}
  NoCaller = none
  MaxOrphans = 0
  MaxCalls = 2
  Uploads = {u1, u2}
  NoUpload = nobody
  Sweeps = {w1}
  Window = 1
  Webhook = TRUE
  LinkKey = "test"
  PatchTo = {"open", "known", "fixed", "regressed"}
  MaxUploads = 2
  MaxPatches = 1
  MaxEdits = 0
  MaxLost = 0
SYMMETRY Symmetry
CHECK_DEADLOCK FALSE
