---------------------------- MODULE PullRequest -----------------------------
(***************************************************************************)
(* What the uploads of one suite at one commit leave on the pull request   *)
(* (git-providers/index.ts, postPRComment): a commit status, a check run   *)
(* and a comment, while the quarantine (module Quarantine) changes.  POST  *)
(* /runs evaluates the auto-quarantine first, POST /runs/upload does not;  *)
(* both then post without waiting, so that the posts of two uploads may    *)
(* interleave.                                                             *)
(*                                                                         *)
(* Abstractions: a status or a check run is who posted it and its state; a *)
(* comment is the upload it shows.  The trend and the list of tests that   *)
(* flipped are wording.                                                    *)
(***************************************************************************)
EXTENDS Quarantine, Sequences

CONSTANTS Uploads,      \* uploads of the suite at the commit
          NoUpload,
          Annotates     \* the provider has postChecksAnnotations (only GitHub has)

ASSUME AnnotatesAssumption == Annotates \in BOOLEAN

VARIABLES post,         \* per upload: where its post is and its local variables
          status,       \* commit status of context flakey/<suite>
          check,        \* latest check run of that name
          pr,           \* the provider knows a pull request of the commit
          comments,     \* its comments with the marker
          removed,      \* ghost: rows removed since the upload was committed
          clean,        \* ghost: no post overlapped another, no call failed
          last          \* ghost: the upload that began to post last

surfaces == <<status, check, pr, comments>>
vars == <<quarantine, post, surfaces, removed, clean, last>>

Nothing == [by |-> NoUpload, state |-> "none"]
At(u, pc) == post[u].pc = pc
Goto(u, pc) == post' = [post EXCEPT ![u].pc = pc]
Posting == {"status", "check", "find", "comment"}

-----------------------------------------------------------------------------
(* From the commit of the ingest transaction to the post.                  *)

\* The counts of a report and its list of failed tests need not agree; the list is
\* read only where the count is not 0.
Commit(u, via, titles, failed) ==
  /\ At(u, "idle")
  /\ post' = [post EXCEPT ![u] =
       [pc |-> IF via = "json" THEN "evaluate" ELSE "lookup",
        titles |-> IF failed THEN titles ELSE {},
        failed |-> failed, todo |-> {}, flaky |-> FALSE]]
  /\ UNCHANGED <<quarantine, surfaces>>

\* The policy and the flaky tests over its window are read; no policy is none.
EvaluateAutoQuarantine(u, flaky) ==
  /\ At(u, "evaluate")
  /\ post' = [post EXCEPT ![u] = [@ EXCEPT !.pc = "insert", !.todo = flaky,
                                             !.flaky = post[u].titles # {} /\ post[u].titles \subseteq flaky]]
  /\ UNCHANGED <<quarantine, surfaces>>

Quarantines(u, t) ==
  /\ At(u, "insert") /\ t \in post[u].todo
  /\ InsertAuto(t)
  /\ post' = [post EXCEPT ![u].todo = @ \ {t}]
  /\ UNCHANGED surfaces

\* Mutant of Evaluated: the evaluation is not awaited.
EvaluatedNotAwaited(u) ==
  /\ At(u, "insert")
  /\ Goto(u, "lookup")
  /\ UNCHANGED <<quarantine, surfaces>>

Evaluated(u) ==
  /\ At(u, "insert") /\ post[u].todo = {}
  /\ Goto(u, "lookup")
  /\ UNCHANGED <<quarantine, surfaces>>

\* A query fails: the evaluation gives up what is left of it.
EvaluationFails(u) ==
  /\ At(u, "evaluate") \/ At(u, "insert")
  /\ post' = [post EXCEPT ![u] = [@ EXCEPT !.pc = "lookup", !.todo = {}, !.flaky = FALSE]]
  /\ UNCHANGED <<quarantine, surfaces>>

-----------------------------------------------------------------------------
(* postPRComment.                                                          *)

\* At least one failed title, and none outside the quarantine.
ComputeAllFailuresQuarantined(titles) == titles # {} /\ titles \subseteq Quarantined

\* The lookup happens when the run has failures; when it fails, nothing is softened.
Lookup(u, looked) ==
  /\ At(u, "lookup")
  /\ post' = [post EXCEPT ![u] =
       [pc |-> "status", titles |-> @.titles, failed |-> @.failed, flaky |-> @.flaky /\ looked,
        soft |-> looked /\ @.failed /\ ComputeAllFailuresQuarantined(@.titles)]]
  /\ UNCHANGED <<quarantine, surfaces>>

\* What the rest of the post needs of the run.
Verdict(u, pc) == post' = [post EXCEPT ![u] = [pc |-> pc, failed |-> @.failed, soft |-> @.soft]]

Red(u) == post[u].failed /\ ~post[u].soft

CommitStatus(u) == [by |-> u, state |-> IF Red(u) THEN "failure" ELSE "success"]

CheckRun(u) ==
  [by |-> u, state |-> CASE post[u].soft -> "neutral" [] Red(u) -> "failure" [] OTHER -> "success"]

PostCommitStatus(u) ==
  /\ At(u, "status")
  /\ status' = CommitStatus(u)
  /\ Verdict(u, "check")
  /\ UNCHANGED <<quarantine, check, pr, comments>>

PostChecksAnnotations(u) ==
  /\ At(u, "check")
  /\ check' = IF Annotates THEN CheckRun(u) ELSE check
  /\ Goto(u, "find")
  /\ UNCHANGED <<quarantine, status, pr, comments>>

\* Both of them log a failed call and go on; a call that timed out may have been
\* carried out all the same.
PostFails(u) ==
  \/ /\ At(u, "status") /\ Verdict(u, "check")
     /\ status' \in {status, CommitStatus(u)}
     /\ UNCHANGED <<quarantine, check, pr, comments>>
  \/ /\ Annotates /\ At(u, "check") /\ Goto(u, "find")
     /\ check' \in {check, CheckRun(u)}
     /\ UNCHANGED <<quarantine, status, pr, comments>>

FindNoPR(u) ==
  /\ At(u, "find") /\ ~pr
  /\ Goto(u, "done")
  /\ UNCHANGED <<quarantine, surfaces>>

Finds(u, i) ==
  post' = [post EXCEPT ![u] = [pc |-> "comment", failed |-> @.failed, soft |-> @.soft, found |-> i]]

\* Mutant of FindExistingComment: it looks for a marker that is not in the body.
FindWithoutMarker(u, i) ==
  /\ At(u, "find") /\ pr
  /\ i = 0
  /\ Finds(u, i)
  /\ UNCHANGED <<quarantine, surfaces>>

\* Which of several comments is first depends on the provider.
FindExistingComment(u, i) ==
  /\ At(u, "find") /\ pr
  /\ IF comments = <<>> THEN i = 0 ELSE i \in DOMAIN comments
  /\ Finds(u, i)
  /\ UNCHANGED <<quarantine, surfaces>>

\* An answer that is not ok counts as no comment; a timeout ends the post.
FindFails(u) ==
  /\ At(u, "find") /\ pr
  /\ Finds(u, 0) \/ Verdict(u, "done")
  /\ UNCHANGED <<quarantine, surfaces>>

Written(u) == IF post[u].found = 0 THEN Append(comments, u) ELSE [comments EXCEPT ![post[u].found] = u]

WriteComment(u) ==
  /\ At(u, "comment")
  /\ comments' = Written(u)
  /\ Verdict(u, "done")
  /\ UNCHANGED <<quarantine, status, check, pr>>

WriteFails(u) ==
  /\ At(u, "comment")
  /\ comments' \in {comments, Written(u)}
  /\ Verdict(u, "done")
  /\ UNCHANGED <<quarantine, status, check, pr>>

OpenPR ==
  /\ ~pr /\ pr' = TRUE
  /\ UNCHANGED <<quarantine, post, status, check, comments>>

-----------------------------------------------------------------------------
Fails(u) == PostFails(u) \/ FindFails(u) \/ WriteFails(u)

Works(u) ==
  \/ \E via \in {"json", "multipart"}, titles \in SUBSET Tests, failed \in BOOLEAN :
        Commit(u, via, titles, failed)
  \/ \E flaky \in SUBSET Tests : EvaluateAutoQuarantine(u, flaky)
  \/ \E t \in Tests : Quarantines(u, t)
  \/ Evaluated(u) \/ EvaluationFails(u)
  \/ \E looked \in BOOLEAN : Lookup(u, looked)
  \/ PostCommitStatus(u) \/ PostChecksAnnotations(u)
  \/ FindNoPR(u) \/ (\E i \in 0..Len(comments) : FindExistingComment(u, i)) \/ WriteComment(u)

Around == (People \/ \E s \in Sweepers : Sweep(s)) /\ UNCHANGED <<post, surfaces>>

\* The ghosts, updated beside every step.
Overlap == \E u, v \in Uploads : u # v /\ post'[u].pc \in Posting /\ post'[v].pc \in Posting

Begins(u) == At(u, "lookup") /\ post'[u].pc = "status"

Watch(ok) ==
  /\ removed' = [u \in Uploads |-> IF post'[u].pc \in {"idle", "check", "find", "comment", "done"} THEN {}
                                   ELSE removed[u] \cup {t \in Quarantined \cap post'[u].titles : row'[t] = NoRow}]
  /\ clean' = (clean /\ ok /\ ~Overlap)
  /\ last' \in IF \E u \in Uploads : Begins(u) THEN {u \in Uploads : Begins(u)} ELSE {last}

Next ==
  \/ (Around \/ OpenPR \/ \E u \in Uploads : Works(u)) /\ Watch(TRUE)
  \/ (\E u \in Uploads : Fails(u)) /\ Watch(FALSE)

Init ==
  /\ QuarantineInit
  /\ post = [u \in Uploads |-> [pc |-> "idle"]]
  /\ status = Nothing /\ check = Nothing /\ pr = FALSE /\ comments = <<>>
  /\ removed = [u \in Uploads |-> {}] /\ clean = TRUE /\ last = NoUpload

Spec == Init /\ [][Next]_vars

-----------------------------------------------------------------------------
(* Properties.                                                             *)

\* A red run is let through only when it names failed tests and each of them was
\* quarantined at some moment since the upload; and the tests that the upload's own
\* evaluation found flaky never make the run red, unless a row was removed since
\* (git-providers/index.ts:52-68; routes/runs.ts:168-171).
SoftenedRightly ==
  \A u \in Uploads : At(u, "status") =>
    /\ post[u].soft => post[u].titles # {} /\ post[u].titles \subseteq Quarantined \cup removed[u]
    /\ post[u].flaky /\ removed[u] = {} => ~Red(u)

\* Posts that do not overlap and whose calls succeed leave one status, one check run
\* and at most one comment, all of the last upload, whichever of the two endpoints
\* took it (routes/runs.ts:185-188; git-providers/index.ts:212-219).
SurfacesOfTheLast ==
  clean /\ last # NoUpload /\ At(last, "done") =>
    /\ status = CommitStatus(last)
    /\ Annotates => check.by = last /\ (check.state = "failure" <=> Red(last))
    /\ comments \in {<<>>, <<last>>}

\* What the comment at routes/runs.ts:185-186 says: several uploads of one run update
\* the comment in place.
OneComment == Len(comments) <= 1
=============================================================================
