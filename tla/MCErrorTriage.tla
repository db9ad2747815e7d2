--------------------------- MODULE MCErrorTriage ---------------------------
(* Small instances of ErrorTriage; their constants are plain values.  The   *)
(* callers, and the upload handlers, are interchangeable.                   *)
EXTENDS ErrorTriage, TLC

Symmetry == Permutations(Callers) \cup Permutations(Uploads)
=============================================================================
