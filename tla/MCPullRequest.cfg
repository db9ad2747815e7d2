SPECIFICATION Spec
INVARIANTS SoftenedRightly SurfacesOfTheLast QuarantineStands
CONSTANTS
  Tests = {t1, t2}
  Sweepers = {s1}
  Uploads = {u1, u2}
  NoUpload = none
  Annotates = TRUE
VIEW WhatCounts
SYMMETRY Interchangeable
