-------------------------- MODULE ReleaseSessions ---------------------------
(***************************************************************************)
(* Manual test sessions of one release (routes/releases.ts): creation with *)
(* its seeded result rows, completion by hand or by the last result,       *)
(* reopening, deferrals as known issues, and the rule                      *)
(* manual_regression_executed, which reads the latest session; and the     *)
(* deletion of a manual test (routes/manual-tests.ts), which takes its     *)
(* links and result rows with it.  Every statement of a handler commits on *)
(* its own (tenantQuery), so a request is a chain of steps and requests    *)
(* interleave between statements.                                          *)
(*                                                                         *)
(* Abstractions: result skipped counts as passed and blocked as failed (no *)
(* guard tells them apart).  Session ids are their numbers.                *)
(***************************************************************************)
EXTENDS Naturals, Sequences, FiniteSets

CONSTANTS Requests,     \* slots for requests in flight
          Tests,        \* the manual tests the organisation begins with
          MaxSessions   \* bound: sessions created

ASSUME SessionsAssumption == MaxSessions \in Nat

VARIABLES tests,      \* manual_tests
          linked,     \* release_manual_tests
          sessions,   \* release_test_sessions with their result rows
          req,        \* requests in flight and their local variables
          holes       \* ghost: known gaps of the rule that have occurred

vars == <<tests, linked, sessions, req, holes>>

Results == {"absent", "not_run", "passed", "failed"}
Deferrals == {"no", "yes", "raced"}
Pcs == {"idle", "scope", "failures", "number", "insert", "seed", "reopen", "reset", "record",
        "left", "complete", "accept"}

Idle == [pc |-> "idle"]
Done(q) == req' = [req EXCEPT ![q] = Idle]
Goto(q, r) == req' = [req EXCEPT ![q] = r]
At(q, pc) == req[q].pc = pc

-----------------------------------------------------------------------------
(* What the rule reads.                                                    *)

Latest == Len(sessions)
Active == {s \in DOMAIN sessions : sessions[s].status = "in_progress"}
Result(s, t) == sessions[s].rows[t].result
Deferred(s, t) == sessions[s].rows[t].deferral # "no"
Rows(s) == {t \in Tests : Result(s, t) # "absent"}
NotRun(s) == {t \in Tests : Result(s, t) = "not_run"}

\* A failed result that is deferred does not block; not_run always does.
Clean(s, t) == Result(s, t) = "passed" \/ (Result(s, t) = "failed" /\ Deferred(s, t))

\* Rows of tests that are no longer linked do not count; no row at all is unmet.
RowsClean(s) == Rows(s) \cap linked # {} /\ \A t \in Rows(s) \cap linked : Clean(s, t)

\* The rule of a release that has sessions.
ManualMet == sessions # <<>> /\ Latest \notin Active /\ RowsClean(Latest)

-----------------------------------------------------------------------------
(* POST /:id/sessions.                                                     *)

CreateCheck(q) ==
  /\ At(q, "idle") /\ Active = {}
  /\ Goto(q, [pc |-> "scope"])
  /\ UNCHANGED <<linked, sessions, holes>>

\* Without tests in scope the request ends.
Scoped(q, scope) == Goto(q, IF scope = {} THEN Idle ELSE [pc |-> "number", scope |-> scope])

\* failures_only: the latest session, which may be under way when another creation
\* came in between.
CreateLatest(q) ==
  /\ At(q, "scope") /\ sessions # <<>>
  /\ Goto(q, [pc |-> "failures", s |-> Latest])
  /\ UNCHANGED <<linked, sessions, holes>>

\* Its unresolved failures, read once it is known.
CreateFailures(q) ==
  /\ At(q, "failures")
  /\ LET s == req[q].s IN
       /\ Scoped(q, {t \in Tests : Result(s, t) = "failed" /\ ~Deferred(s, t)})
       /\ holes' = holes \cup (IF s \in Active THEN {"gap"} ELSE {})
  /\ UNCHANGED <<linked, sessions>>

\* full, or failures_only in a release without sessions: the linked tests.
CreateLinked(q) ==
  /\ At(q, "scope")
  /\ Scoped(q, linked)
  /\ UNCHANGED <<linked, sessions, holes>>

CreateNumber(q) ==
  /\ At(q, "number")
  /\ Goto(q, [pc |-> "insert", scope |-> req[q].scope, s |-> Latest + 1])
  /\ UNCHANGED <<linked, sessions, holes>>

\* Mutant of Insertable: without migration 031 the first check decides.
InsertableNoIndex(s) == s = Latest + 1

\* Both unique indexes: one number per release, one session in progress.
Insertable(s) == s = Latest + 1 /\ Active = {}

NoRow == [result |-> "absent", deferral |-> "no"]

NewSession == [status |-> "in_progress",
               rows |-> [t \in Tests |-> NoRow]]

CreateInsert(q) ==
  /\ At(q, "insert")
  /\ \/ /\ Insertable(req[q].s) /\ Latest < MaxSessions
        /\ sessions' = Append(sessions, NewSession)
        /\ Goto(q, [req[q] EXCEPT !.pc = "seed"])
     \/ ~Insertable(req[q].s) /\ Done(q) /\ UNCHANGED sessions
  /\ UNCHANGED <<linked, holes>>

\* One INSERT per test, ON CONFLICT DO NOTHING.  A test deleted since ends the
\* request: the foreign key refuses its row, and the rest is not seeded.
CreateSeed(q) ==
  /\ At(q, "seed")
  /\ \E t \in req[q].scope :
       \/ /\ t \in tests
          /\ sessions' = [sessions EXCEPT ![req[q].s].rows[t].result =
                                                       IF @ = "absent" THEN "not_run" ELSE @]
          /\ Goto(q, IF req[q].scope = {t} THEN Idle
                     ELSE [req[q] EXCEPT !.scope = @ \ {t}])
          /\ UNCHANGED holes
       \/ /\ t \notin tests
          /\ Done(q)
          /\ holes' = holes \cup {"gap"}
          /\ UNCHANGED sessions
  /\ UNCHANGED linked

Seeding(s) == \E q \in Requests : At(q, "seed") /\ req[q].s = s

-----------------------------------------------------------------------------
(* PATCH of a session: completed by hand, or reopened.                     *)

\* By hand a session may be completed with tests that have not been executed.
PatchCompleted(s) ==
  /\ sessions' = [sessions EXCEPT ![s].status = "completed"]
  /\ holes' = holes \cup (IF NotRun(s) # {} \/ Seeding(s) THEN {"gap"} ELSE {})
  /\ UNCHANGED <<linked, req>>

ReopenCheck(q, s) ==
  /\ At(q, "idle") /\ Active \subseteq {s}
  /\ Goto(q, [pc |-> "reopen", s |-> s])
  /\ UNCHANGED <<linked, sessions, holes>>

\* The index, not the SELECT before, keeps a second session from opening.
Reopenable(s) == Active \subseteq {s}

ReopenUpdate(q) ==
  /\ At(q, "reopen")
  /\ \/ /\ Reopenable(req[q].s)
        /\ sessions' = [sessions EXCEPT ![req[q].s].status = "in_progress"]
        /\ holes' = holes \cup {"gap"}
        /\ Goto(q, [req[q] EXCEPT !.pc = "reset"])
     \/ ~Reopenable(req[q].s) /\ Done(q) /\ UNCHANGED <<sessions, holes>>
  /\ UNCHANGED linked

Reset(row) == IF row.result = "absent" THEN row ELSE [result |-> "not_run", deferral |-> "no"]

ReopenReset(q) ==
  /\ At(q, "reset")
  /\ sessions' = [sessions EXCEPT ![req[q].s].rows = [t \in Tests |-> Reset(@[t])]]
  /\ Done(q)
  /\ UNCHANGED <<linked, holes>>

-----------------------------------------------------------------------------
(* POST .../results/:testId: the row, the count, the completion.           *)

RecordCheck(q, s) ==
  /\ At(q, "idle") /\ sessions[s].status = "in_progress"
  /\ Goto(q, [pc |-> "record", s |-> s])
  /\ UNCHANGED <<linked, sessions, holes>>

\* Mutant of Recorded: a re-record keeps the deferral.
RecordedKeeping(row, result) == [row EXCEPT !.result = result]

\* A fresh observation drops any deferral of the one before.
Recorded(row, result) == [result |-> result, deferral |-> "no"]

\* The test and the result of the request matter only here.
RecordRow(q, t, result) ==
  /\ At(q, "record")
  /\ LET s == req[q].s IN
       IF Result(s, t) = "absent" THEN Done(q) /\ UNCHANGED <<linked, sessions, holes>>
       ELSE /\ sessions' = [sessions EXCEPT ![s].rows[t] = Recorded(@, result)]
            /\ holes' = holes \cup (IF s \in Active THEN {} ELSE {"gap"})
            /\ Goto(q, [pc |-> "left", s |-> s])
            /\ UNCHANGED linked

\* Mutant of RecordCount: the row just recorded is still counted as not run.
RecordCountOneLeft(q) ==
  /\ At(q, "left")
  /\ Goto(q, IF Cardinality(NotRun(req[q].s)) <= 1 THEN [req[q] EXCEPT !.pc = "complete"] ELSE Idle)
  /\ UNCHANGED <<linked, sessions, holes>>

\* Mutant of RecordCount: a session with failures does not complete itself.
RecordCountFailures(q) ==
  /\ At(q, "left")
  /\ Goto(q, IF \A t \in Rows(req[q].s) : Result(req[q].s, t) = "passed"
             THEN [req[q] EXCEPT !.pc = "complete"] ELSE Idle)
  /\ UNCHANGED <<linked, sessions, holes>>

\* The creator may still be seeding the session.
RecordCount(q) ==
  /\ At(q, "left")
  /\ Goto(q, IF NotRun(req[q].s) = {} THEN [req[q] EXCEPT !.pc = "complete"] ELSE Idle)
  /\ holes' = holes \cup (IF NotRun(req[q].s) = {} /\ Seeding(req[q].s) THEN {"gap"} ELSE {})
  /\ UNCHANGED <<linked, sessions>>

\* Unconditional too.
RecordComplete(q) ==
  /\ At(q, "complete")
  /\ sessions' = [sessions EXCEPT ![req[q].s].status = "completed"]
  /\ Done(q)
  /\ UNCHANGED <<linked, holes>>

-----------------------------------------------------------------------------
(* Known issues: POST .../accept, POST .../file-bug with mark_known_issue, *)
(* DELETE .../accept; and the links.                                       *)

AcceptCheck(q, s, t) ==
  /\ At(q, "idle") /\ Result(s, t) = "failed"
  /\ Goto(q, [pc |-> "accept", s |-> s, t |-> t])
  /\ UNCHANGED <<linked, sessions, holes>>

\* Of a row that is still there whatever its result; "raced" remembers that the
\* result read is not.
AcceptWrite(q) ==
  /\ At(q, "accept")
  /\ LET s == req[q].s
         t == req[q].t
     IN  IF Result(s, t) = "absent" THEN UNCHANGED sessions
         ELSE sessions' = [sessions EXCEPT ![s].rows[t].deferral =
                             IF Result(s, t) = "failed" THEN "yes" ELSE "raced"]
  /\ Done(q)
  /\ UNCHANGED <<linked, holes>>

\* A creation has read its scope and not yet inserted its session.
ScopeHeld == \E q \in Requests : req[q].pc \in {"number", "insert"}

\* Revoking counts as a gap in an older session: the rule does not look there.
Unaccept(s, t) ==
  /\ Deferred(s, t)
  /\ sessions' = [sessions EXCEPT ![s].rows[t].deferral = "no"]
  /\ holes' = holes \cup (IF s = Latest /\ ~ScopeHeld THEN {} ELSE {"gap"})
  /\ UNCHANGED <<linked, req>>

\* A session under way does not get the rows of tests linked later.
LinkTest(t) ==
  /\ t \in tests \ linked /\ linked' = linked \cup {t}
  /\ holes' = holes \cup (IF sessions = <<>> /\ ~ScopeHeld THEN {} ELSE {"gap"})
  /\ UNCHANGED <<sessions, req>>

UnlinkTest(t) ==
  /\ t \in linked /\ linked' = linked \ {t}
  /\ UNCHANGED <<sessions, holes, req>>

\* The rows of one session without that of a deleted test.
Without(rows, t) == [rows EXCEPT ![t] = NoRow]

\* DELETE /manual-tests/:id: the foreign keys cascade into links and rows.  No
\* session is looked at: one whose last open test it was is left in progress.
DeleteTest(t) ==
  /\ t \in tests /\ tests' = tests \ {t}
  /\ linked' = linked \ {t}
  /\ sessions' = [s \in DOMAIN sessions |-> [sessions[s] EXCEPT !.rows = Without(@, t)]]
  /\ holes' = holes \cup (IF \E s \in Active : NotRun(s) = {t} THEN {"stuck"} ELSE {})
  /\ UNCHANGED req

\* A statement fails or the process ends: the request stops where it is.
RequestDies(q) ==
  /\ ~At(q, "idle") /\ Done(q)
  /\ holes' = holes \cup (CASE At(q, "seed") -> {"gap"}
                            [] req[q].pc \in {"left", "complete", "reset"} -> {"stuck"}
                            [] OTHER -> {})
  /\ UNCHANGED <<linked, sessions>>

-----------------------------------------------------------------------------
Request(q) ==
  \/ CreateCheck(q) \/ CreateLatest(q) \/ CreateFailures(q) \/ CreateLinked(q)
  \/ CreateNumber(q) \/ CreateInsert(q) \/ CreateSeed(q)
  \/ \E s \in DOMAIN sessions : ReopenCheck(q, s)
  \/ ReopenUpdate(q) \/ ReopenReset(q)
  \/ \E s \in DOMAIN sessions : RecordCheck(q, s) \/ \E t \in Tests : AcceptCheck(q, s, t)
  \/ \E t \in Tests, result \in {"passed", "failed"} : RecordRow(q, t, result)
  \/ RecordCount(q) \/ RecordComplete(q) \/ AcceptWrite(q)
  \/ RequestDies(q)

Init ==
  /\ tests = Tests
  /\ linked = {} /\ sessions = <<>> /\ holes = {}
  /\ req = [q \in Requests |-> Idle]

ReleaseStep ==
  \/ \E q \in Requests : Request(q)
  \/ \E s \in DOMAIN sessions : PatchCompleted(s) \/ \E t \in Tests : Unaccept(s, t)
  \/ \E t \in Tests : LinkTest(t) \/ UnlinkTest(t)

Next ==
  \/ ReleaseStep /\ UNCHANGED tests
  \/ \E t \in Tests : DeleteTest(t)

Spec == Init /\ [][Next]_vars

-----------------------------------------------------------------------------
(* Properties.                                                             *)

Row == [result : Results, deferral : Deferrals]

\* Types of the database rows, the requests and the ghosts.
TypeOK ==
  /\ linked \subseteq tests /\ tests \subseteq Tests
  /\ sessions \in Seq([status : {"in_progress", "completed"}, rows : [Tests -> Row]])
  /\ holes \subseteq {"gap", "stuck"}
  /\ \A q \in Requests : req[q].pc \in Pcs

\* However creations and reopenings race, one session is in progress at most
\* (releases.ts:1185, 1388; migration 031).
OneActiveSession == Cardinality(Active) <= 1

\* A deferral that did not race a new result sits on a failure: neither a new
\* result nor a reopened session inherits it (releases.ts:1511, 1421).
DeferralsFit ==
  \A s \in DOMAIN sessions, t \in Tests :
    sessions[s].rows[t].deferral = "yes" => Result(s, t) = "failed"

\* A session in progress whose tests are all executed is about to be completed or
\* reset: concurrent results never both leave it to the other, and one that is still
\* being seeded is no exception (releases.ts:1537).  Unless that request died, or
\* the last open test of a session was deleted.
CompletesItself ==
  \A s \in Active :
    Rows(s) # {} /\ NotRun(s) = {} =>
      \/ \E q \in Requests : req[q].pc \in {"left", "complete", "reset"} /\ req[q].s = s
      \/ "stuck" \in holes

\* Unless one of the gaps marked above occurred, a met manual rule means that
\* every linked test passed, or failed and was deferred, in some session: retries
\* of the failures alone lose nothing (releases.ts:1196, 1248).
RuleCoversLinkedTests ==
  ManualMet /\ "gap" \notin holes /\ (\A s \in DOMAIN sessions : ~Seeding(s)) =>
    \A t \in linked : \E s \in DOMAIN sessions : Clean(s, t)
=============================================================================
