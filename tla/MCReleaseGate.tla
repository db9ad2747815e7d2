--------------------------- MODULE MCReleaseGate ----------------------------
(* Small instance of ReleaseGate: requests are interchangeable.            *)
EXTENDS ReleaseGate, TLC

Interchangeable == Permutations(Requests)

\* No guard reads the signature or which rules a request found unmet, and no
\* invariant of this run does: states that differ only in them have the same steps
\* and are visited once.  What a step does to the signature is checked on every step.
Decides(r) == [f \in DOMAIN r \ {"unmet"} |-> r[f]]
WhatDecides == <<status, items, signals, [q \in Requests |-> Decides(req[q])], seen>>
=============================================================================
