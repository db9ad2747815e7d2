------------------------- MODULE MCReleaseSessions --------------------------
(* Small instance of ReleaseSessions: requests and tests are               *)
(* interchangeable.                                                        *)
EXTENDS ReleaseSessions, TLC

Interchangeable == Permutations(Requests) \cup Permutations(Tests)

\* Bound: a behaviour is followed until both kinds of hole have occurred.  No guard
\* reads them, and the two properties that except a kind of hole then claim nothing.
OneKindOfHole == Cardinality(holes) < 2
=============================================================================
