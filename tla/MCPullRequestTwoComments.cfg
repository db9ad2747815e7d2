SPECIFICATION Spec
INVARIANT OneComment
CONSTANTS
  Tests = {t1}
  Sweepers = {s1}
  Uploads = {u1, u2}
  NoUpload = none
  Annotates = TRUE
