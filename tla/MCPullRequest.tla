--------------------------- MODULE MCPullRequest ----------------------------
\* A small instance of PullRequest for TLC.
EXTENDS PullRequest, TLC

Interchangeable == Permutations(Uploads) \cup Permutations(Tests)

\* States are told apart by what the properties still depend on: once posts overlapped
\* or a call failed, SurfacesOfTheLast claims nothing for ever, and neither the pull
\* request nor how far an upload is whose status is posted decides anything else.
Remaining(u) == IF post[u].pc \in {"check", "find", "comment", "done"} THEN [pc |-> "posted"] ELSE post[u]

WhatCounts ==
  <<quarantine, removed, IF clean THEN <<surfaces, last, post>> ELSE [u \in Uploads |-> Remaining(u)]>>
=============================================================================
