----------------------- MODULE ReleaseSessionsProofs -----------------------
(***************************************************************************)
(* What ReleaseSessions promises, proved for any number of requests, tests *)
(* and sessions.                                                           *)
(***************************************************************************)
EXTENDS ReleaseSessions, FiniteSetTheorems, SequenceTheorems, TLAPS

Session == [status : {"in_progress", "completed"}, rows : [Tests -> Row]]

\* Where a request is decides which variables it has.
RequestType ==
  [pc : {"idle", "scope"}]
    \cup [pc : {"number"}, scope : SUBSET Tests]
    \cup [pc : {"insert", "seed"}, scope : SUBSET Tests, s : Nat]
    \cup [pc : {"failures", "reopen", "reset", "record", "left", "complete"}, s : Nat]
    \cup [pc : {"accept"}, s : Nat, t : Tests]

\* A request that works on a session works on one that exists.
Bound(q) ==
  req[q].pc \in {"failures", "seed", "reopen", "reset", "record", "left", "complete", "accept"} =>
    req[q].s \in DOMAIN sessions

SessionTypes ==
  /\ linked \subseteq Tests
  /\ sessions \in Seq(Session)
  /\ req \in [Requests -> RequestType]
  /\ \A q \in Requests : Bound(q)

OneActive == \A a, b \in Active : a = b

\* A deferral belongs to a row.
DeferralsOnRows ==
  \A s \in DOMAIN sessions, t \in Tests : Deferred(s, t) => Result(s, t) # "absent"

SessionsInv ==
  /\ SessionTypes
  /\ OneActive
  /\ DeferralsFit
  /\ DeferralsOnRows
  /\ CompletesItself

-----------------------------------------------------------------------------
(* As long as no gap has occurred.                                         *)

Past == DOMAIN sessions \ Active

\* The session in progress is the latest, and none is being reset.
LatestIsActive == Active \subseteq {Latest} /\ \A q \in Requests : ~At(q, "reset")

\* A session that is over, or about to be, has been executed in full.
PastExecuted ==
  /\ \A s \in Past : NotRun(s) = {} /\ ~Seeding(s)
  /\ \A q \in Requests : At(q, "complete") => NotRun(req[q].s) = {} /\ ~Seeding(req[q].s)

\* A creation leaves out of its scope only tests that are clean for good.
ScopeCovers ==
  \A q \in Requests : At(q, "number") \/ At(q, "insert") =>
    \A t \in linked : t \in req[q].scope \/ \E s \in Past : Clean(s, t)

\* A test has a row in s, or is on its way there, or is clean in an older session.
Tracked(s, t) ==
  \/ \E x \in DOMAIN sessions : x < s /\ Clean(x, t)
  \/ t \in Rows(s)
  \/ \E q \in Requests : At(q, "seed") /\ req[q].s = s /\ t \in req[q].scope
AllTracked == \A s \in DOMAIN sessions, t \in linked : Tracked(s, t)

GaplessInv ==
  "gap" \notin holes => LatestIsActive /\ PastExecuted /\ ScopeCovers /\ AllTracked

-----------------------------------------------------------------------------
(* Changes of one session.                                                 *)

\* Everything but the session s stays.
OnlySession(s) ==
  /\ sessions' \in Seq(Session) /\ DOMAIN sessions' = DOMAIN sessions /\ Latest' = Latest
  /\ \A x \in DOMAIN sessions \ {s} : sessions'[x] = sessions[x]

\* Only the status of s changes, or only its row of test t.
StatusSet(s, v) ==
  /\ OnlySession(s)
  /\ sessions'[s].status = v /\ sessions'[s].rows = sessions[s].rows
RowSet(s, t, row) ==
  /\ OnlySession(s)
  /\ sessions'[s].status = sessions[s].status
  /\ sessions'[s].rows[t] = row
  /\ \A u \in Tests \ {t} : sessions'[s].rows[u] = sessions[s].rows[u]

\* A session replaced by another one leaves a sequence of sessions.
LEMMA Replaced ==
  ASSUME sessions \in Seq(Session), NEW s \in DOMAIN sessions, NEW new \in Session,
         sessions' = [sessions EXCEPT ![s] = new]
  PROVE  OnlySession(s) /\ sessions'[s] = new
BY DEF OnlySession, Latest

\* An UPDATE of the status.
LEMMA StatusUpdate ==
  ASSUME sessions \in Seq(Session), NEW s \in DOMAIN sessions,
         NEW v \in {"in_progress", "completed"},
         sessions' = [sessions EXCEPT ![s].status = v]
  PROVE  StatusSet(s, v)
<1>1. sessions[s] \in Session
  OBVIOUS
<1>2. PICK new : new = [sessions[s] EXCEPT !.status = v]
  OBVIOUS
<1>3. new \in Session /\ new.status = v /\ new.rows = sessions[s].rows
  BY <1>1, <1>2 DEF Session
<1>4. sessions' = [sessions EXCEPT ![s] = new]
  BY <1>2
<1>. QED BY <1>3, <1>4, Replaced DEF StatusSet

\* An UPDATE of a row.
LEMMA RowUpdate ==
  ASSUME sessions \in Seq(Session), NEW s \in DOMAIN sessions, NEW t \in Tests, NEW row \in Row,
         sessions' = [sessions EXCEPT ![s].rows[t] = row]
  PROVE  RowSet(s, t, row)
<1>1. sessions[s] \in Session
  OBVIOUS
<1>2. PICK new : new = [sessions[s] EXCEPT !.rows[t] = row]
  OBVIOUS
<1>3. /\ new \in Session /\ new.status = sessions[s].status
      /\ new.rows = [sessions[s].rows EXCEPT ![t] = row]
  BY <1>1, <1>2 DEF Session
<1>4. sessions' = [sessions EXCEPT ![s] = new]
  BY <1>2
<1>5. new.rows[t] = row /\ \A u \in Tests \ {t} : new.rows[u] = sessions[s].rows[u]
  BY <1>1, <1>3 DEF Session
<1>. QED BY <1>3, <1>4, <1>5, Replaced DEF RowSet

-----------------------------------------------------------------------------
(* Steps that leave the sessions alone.                                    *)

Inv == SessionsInv /\ GaplessInv
Finishing(r) == r.pc \in {"left", "complete", "reset"}

\* What a request in flight knows.
LEMMA InFlight ==
  ASSUME SessionTypes, NEW q \in Requests
  PROVE  /\ req[q] \in RequestType
         /\ req[q].pc \in {"number", "insert", "seed"} => req[q].scope \subseteq Tests
         /\ At(q, "insert") => req[q].s \in Nat
         /\ At(q, "accept") => req[q].t \in Tests
         /\ req[q].pc \in {"failures", "seed", "reopen", "reset", "record", "left", "complete", "accept"} =>
              req[q].s \in DOMAIN sessions
BY DEF SessionTypes, RequestType, Bound, At

\* A request moves on to r.
LEMMA Moved ==
  ASSUME SessionTypes, NEW q \in Requests, NEW r \in RequestType, Goto(q, r)
  PROVE  /\ req' \in [Requests -> RequestType]
         /\ req'[q] = r
         /\ \A v \in Requests \ {q} : req'[v] = req[v]
BY DEF SessionTypes, Goto

\* A request that moves on without touching a session: it may give up the completion
\* of a session only when tests are left, and may read as scope only what is covered.
LEMMA QuietStep ==
  ASSUME Inv, UNCHANGED <<linked, sessions>>, holes \subseteq holes',
         NEW q \in Requests, NEW r \in RequestType, Goto(q, r),
         r.pc # "seed",
         r.pc \in {"failures", "reopen", "reset", "record", "left", "complete", "accept"} =>
           r.s \in DOMAIN sessions,
         Finishing(req[q]) => \/ Finishing(r) /\ r.s = req[q].s
                              \/ NotRun(req[q].s) # {}
                              \/ "stuck" \in holes',
         "gap" \notin holes' =>
           /\ r.pc # "reset" /\ ~At(q, "seed")
           /\ r.pc = "complete" => NotRun(r.s) = {} /\ ~Seeding(r.s)
           /\ r.pc \in {"number", "insert"} =>
                \A t \in linked : t \in r.scope \/ \E s \in Past : Clean(s, t)
  PROVE  Inv'
<1>. USE DEF Inv, SessionsInv
<1>1. /\ req' \in [Requests -> RequestType]
      /\ req'[q] = r
      /\ \A v \in Requests \ {q} : req'[v] = req[v]
  BY Moved
<1>2. SessionTypes'
  BY <1>1 DEF SessionTypes, Bound
<1>3. OneActive' /\ DeferralsFit'
  BY DEF OneActive, Active, DeferralsFit, Result
<1>4. DeferralsOnRows'
  BY DEF DeferralsOnRows, Result, Deferred
<1>5. CompletesItself'
  <2>. SUFFICES ASSUME NEW s \in Active, Rows(s) # {}, NotRun(s) = {}, "stuck" \notin holes'
       PROVE  \E v \in Requests : Finishing(req'[v]) /\ req'[v].s = s
    BY DEF CompletesItself, Active, Rows, NotRun, Result, Finishing
  <2>1. PICK v \in Requests : Finishing(req[v]) /\ req[v].s = s
    BY DEF CompletesItself, Finishing
  <2>. QED BY <1>1, <2>1
<1>6. ASSUME "gap" \notin holes'
      PROVE  (LatestIsActive /\ PastExecuted /\ ScopeCovers /\ AllTracked)'
  <2>1. LatestIsActive /\ PastExecuted /\ ScopeCovers /\ AllTracked
    BY <1>6 DEF GaplessInv
  <2>2. \A v \in Requests : At(v, "seed")' = At(v, "seed") /\ (At(v, "seed") => req'[v] = req[v])
    BY <1>1, <1>6 DEF At
  <2>3. \A s : Seeding(s)' = Seeding(s)
    BY <2>2 DEF Seeding
  <2>4. LatestIsActive'
    BY <1>1, <1>6, <2>1 DEF LatestIsActive, Active, Latest, At
  <2>5. PastExecuted'
    BY <1>1, <1>6, <2>1, <2>3 DEF PastExecuted, Past, Active, NotRun, Result, At
  <2>6. ScopeCovers'
    BY <1>1, <1>6, <2>1 DEF ScopeCovers, Past, Active, Clean, Result, Deferred, At
  <2>7. AllTracked'
    BY <1>1, <2>1, <2>2 DEF AllTracked, Tracked, Clean, Result, Deferred, Rows
  <2>. QED BY <2>4, <2>5, <2>6, <2>7
<1>. QED BY <1>2, <1>3, <1>4, <1>5, <1>6 DEF GaplessInv

\* A creation begins.
LEMMA CreateCheckStep ==
  ASSUME Inv, NEW q \in Requests, CreateCheck(q)
  PROVE  Inv'
<1>1. [pc |-> "scope"] \in RequestType
  BY DEF RequestType
<1>. QED BY <1>1, QuietStep DEF CreateCheck, At, Finishing

\* A creation reads which session is the latest.
LEMMA CreateLatestStep ==
  ASSUME Inv, NEW q \in Requests, CreateLatest(q)
  PROVE  Inv'
<1>1. Latest \in DOMAIN sessions /\ Latest \in Nat
  BY DEF CreateLatest, Inv, SessionsInv, SessionTypes, Latest
<1>2. [pc |-> "failures", s |-> Latest] \in RequestType
  BY <1>1 DEF RequestType
<1>. QED BY <1>1, <1>2, QuietStep DEF CreateLatest, At, Finishing

\* A request with the scope it has read.
LEMMA ScopedStep ==
  ASSUME Inv, NEW q \in Requests, NEW scope \in SUBSET Tests, Scoped(q, scope),
         req[q].pc \in {"scope", "failures"}, UNCHANGED <<linked, sessions>>, holes \subseteq holes',
         "gap" \notin holes' => \A t \in linked : t \in scope \/ \E s \in Past : Clean(s, t)
  PROVE  Inv'
<1>1. PICK r : r = IF scope = {} THEN Idle ELSE [pc |-> "number", scope |-> scope]
  OBVIOUS
<1>2. r \in RequestType /\ r.pc \in {"idle", "number"} /\ (r.pc = "number" => r.scope = scope)
  BY <1>1 DEF Idle, RequestType
<1>3. Goto(q, r)
  BY <1>1 DEF Scoped
<1>. QED BY <1>2, <1>3, QuietStep DEF At, Finishing

\* A creation reads the failures of the session that was the latest: a linked test
\* that is not among them is clean there, or has no row and is clean in an older one.
LEMMA CreateFailuresStep ==
  ASSUME Inv, NEW q \in Requests, CreateFailures(q)
  PROVE  Inv'
<1>1. PICK s : s = req[q].s
  OBVIOUS
<1>2. PICK scope \in SUBSET Tests :
        scope = {t \in Tests : Result(s, t) = "failed" /\ ~Deferred(s, t)}
  OBVIOUS
<1>3. /\ At(q, "failures") /\ Scoped(q, scope) /\ UNCHANGED <<linked, sessions>>
      /\ holes \subseteq holes' /\ ("gap" \notin holes' => s \notin Active)
  BY <1>1, <1>2 DEF CreateFailures
<1>4. s \in DOMAIN sessions
  BY <1>1, <1>3, InFlight DEF At, Inv, SessionsInv
<1>5. ASSUME "gap" \notin holes', NEW t \in linked, t \notin scope
      PROVE  \E x \in Past : Clean(x, t)
  <2>1. s \in Past /\ LatestIsActive /\ PastExecuted /\ Tracked(s, t) /\ t \in Tests
    BY <1>3, <1>4, <1>5 DEF Past, Inv, GaplessInv, SessionsInv, SessionTypes, AllTracked
  <2>2. sessions[s].rows[t] \in Row
    <3>1. sessions[s] \in Session
      BY <1>4 DEF Inv, SessionsInv, SessionTypes
    <3>. QED BY <2>1, <3>1 DEF Session
  <2>3. Result(s, t) # "not_run" /\ ~Seeding(s)
    BY <2>1 DEF PastExecuted, NotRun
  <2>4. CASE Result(s, t) = "absent"
    <3>1. PICK x \in DOMAIN sessions : x < s /\ Clean(x, t)
      BY <2>1, <2>3, <2>4 DEF Tracked, Rows, Seeding
    <3>2. x \in Past
      BY <1>4, <2>1, <3>1 DEF Past, LatestIsActive, Latest, Inv, SessionsInv, SessionTypes
    <3>. QED BY <3>1, <3>2
  <2>5. CASE Result(s, t) \in {"passed", "failed"}
    BY <1>2, <1>5, <2>1, <2>5 DEF Clean
  <2>. QED BY <2>2, <2>3, <2>4, <2>5 DEF Row, Results, Result
<1>. QED BY <1>3, <1>5, ScopedStep DEF At

\* A creation reads the linked tests, all of them.
LEMMA CreateLinkedStep ==
  ASSUME Inv, NEW q \in Requests, CreateLinked(q)
  PROVE  Inv'
<1>1. linked \in SUBSET Tests
  BY DEF Inv, SessionsInv, SessionTypes
<1>. QED BY <1>1, ScopedStep DEF CreateLinked, At

\* The number of the next session.
LEMMA CreateNumberStep ==
  ASSUME Inv, NEW q \in Requests, CreateNumber(q)
  PROVE  Inv'
<1>1. PICK r : r = [pc |-> "insert", scope |-> req[q].scope, s |-> Latest + 1]
  OBVIOUS
<1>2. r \in RequestType /\ r.pc = "insert" /\ r.scope = req[q].scope
  BY <1>1, InFlight DEF CreateNumber, RequestType, Inv, SessionsInv, SessionTypes, At, Latest
<1>3. Goto(q, r) /\ At(q, "number") /\ UNCHANGED <<linked, sessions, holes>>
  BY <1>1 DEF CreateNumber
<1>4. "gap" \notin holes => \A t \in linked : t \in r.scope \/ \E s \in Past : Clean(s, t)
  BY <1>2, <1>3 DEF Inv, GaplessInv, ScopeCovers
<1>. QED BY <1>2, <1>3, <1>4, QuietStep DEF At, Finishing

\* A request for a session that is there, or for a row of it that failed.
LEMMA CheckStep ==
  ASSUME Inv, NEW q \in Requests, NEW s \in DOMAIN sessions,
         \/ ReopenCheck(q, s) \/ RecordCheck(q, s) \/ \E t \in Tests : AcceptCheck(q, s, t)
  PROVE  Inv'
<1>1. s \in Nat
  BY DEF Inv, SessionsInv, SessionTypes
<1>2. [pc |-> "reopen", s |-> s] \in RequestType /\ [pc |-> "record", s |-> s] \in RequestType
  BY <1>1 DEF RequestType
<1>3. CASE ReopenCheck(q, s) \/ RecordCheck(q, s)
  BY <1>2, <1>3, QuietStep DEF ReopenCheck, RecordCheck, At, Finishing
<1>4. ASSUME NEW t \in Tests, AcceptCheck(q, s, t)
      PROVE  Inv'
  <2>1. [pc |-> "accept", s |-> s, t |-> t] \in RequestType
    BY <1>1 DEF RequestType
  <2>. QED BY <1>4, <2>1, QuietStep DEF AcceptCheck, At, Finishing
<1>. QED BY <1>3, <1>4

\* A request gives up: before it changed anything, or because it died.
LEMMA GiveUpStep ==
  ASSUME Inv, NEW q \in Requests, Done(q), UNCHANGED <<linked, sessions>>, holes \subseteq holes',
         Finishing(req[q]) => "stuck" \in holes',
         At(q, "seed") => "gap" \in holes'
  PROVE  Inv'
<1>1. Idle \in RequestType /\ Idle.pc = "idle" /\ Goto(q, Idle)
  BY DEF RequestType, Idle, Done, Goto
<1>. QED BY <1>1, QuietStep DEF Finishing

\* The count after a result hands the session over to its completion, or leaves it
\* because tests have not been run.
LEMMA RecordCountStep ==
  ASSUME Inv, NEW q \in Requests, RecordCount(q)
  PROVE  Inv'
<1>1. PICK r : r = IF NotRun(req[q].s) = {} THEN [req[q] EXCEPT !.pc = "complete"] ELSE Idle
  OBVIOUS
<1>2. Goto(q, r) /\ At(q, "left") /\ UNCHANGED <<linked, sessions>> /\ holes \subseteq holes'
  BY <1>1 DEF RecordCount
<1>3. req[q] \in [pc : {"failures", "reopen", "reset", "record", "left", "complete"}, s : Nat]
  BY <1>2 DEF Inv, SessionsInv, SessionTypes, RequestType, At
<1>4. /\ r \in RequestType
      /\ \/ NotRun(req[q].s) = {} /\ r.pc = "complete" /\ r.s = req[q].s
         \/ NotRun(req[q].s) # {} /\ r.pc = "idle"
  BY <1>1, <1>3 DEF RequestType, Idle
<1>5. req[q].s \in DOMAIN sessions
  BY <1>2, InFlight DEF At, Inv, SessionsInv
<1>6. "gap" \notin holes' /\ r.pc = "complete" => ~Seeding(r.s)
  BY <1>4 DEF RecordCount
<1>. QED BY <1>2, <1>4, <1>5, <1>6, QuietStep DEF At, Finishing

\* Linking and unlinking change no session: a link without a gap precedes them all.
LEMMA LinkStep ==
  ASSUME Inv, NEW t \in Tests, LinkTest(t) \/ UnlinkTest(t)
  PROVE  Inv'
<1>1. /\ UNCHANGED <<sessions, req>> /\ linked' \subseteq Tests /\ holes \subseteq holes'
      /\ "gap" \notin holes' =>
           \/ linked' \subseteq linked
           \/ sessions = <<>> /\ \A q \in Requests : ~At(q, "number") /\ ~At(q, "insert")
  <2>1. linked \subseteq Tests
    BY DEF Inv, SessionsInv, SessionTypes
  <2>2. CASE LinkTest(t)
    BY <2>1, <2>2 DEF LinkTest, ScopeHeld, At
  <2>3. CASE UnlinkTest(t)
    BY <2>1, <2>3 DEF UnlinkTest
  <2>. QED BY <2>2, <2>3
<1>2. SessionsInv'
  BY <1>1 DEF Inv, SessionsInv, SessionTypes, Bound, OneActive, Active, DeferralsFit, DeferralsOnRows, Result,
              Deferred, CompletesItself, Rows, NotRun
<1>3. ASSUME "gap" \notin holes'
      PROVE  (LatestIsActive /\ PastExecuted /\ ScopeCovers /\ AllTracked)'
  <2>1. LatestIsActive /\ PastExecuted /\ ScopeCovers /\ AllTracked
    BY <1>1, <1>3 DEF Inv, GaplessInv
  <2>2. (LatestIsActive /\ PastExecuted)'
    BY <1>1, <2>1 DEF LatestIsActive, PastExecuted, Past, Active, Latest, NotRun, Result, Seeding, At
  <2>3. ScopeCovers'
    BY <1>1, <1>3, <2>1 DEF ScopeCovers, Past, Active, Clean, Result, Deferred, At
  <2>4. AllTracked'
    BY <1>1, <1>3, <2>1 DEF AllTracked, Tracked, Clean, Result, Deferred, Rows, At
  <2>. QED BY <2>2, <2>3, <2>4
<1>. QED BY <1>2, <1>3 DEF Inv, GaplessInv

-----------------------------------------------------------------------------
(* Steps that set the status of a session.                                 *)

\* They leave every result and every deferral, and the other sessions' status.
LEMMA StatusEffects ==
  ASSUME NEW s \in DOMAIN sessions, NEW v, StatusSet(s, v)
  PROVE  /\ \A x \in DOMAIN sessions : sessions'[x].rows = sessions[x].rows
         /\ \A x \in DOMAIN sessions : NotRun(x)' = NotRun(x) /\ Rows(x)' = Rows(x)
         /\ \A x \in DOMAIN sessions, t \in Tests : Clean(x, t)' <=> Clean(x, t)
         /\ v = "in_progress" => Active' = Active \cup {s}
         /\ v # "in_progress" => Active' = Active \ {s}
<1>1. \A x \in DOMAIN sessions : sessions'[x].rows = sessions[x].rows
  BY DEF StatusSet, OnlySession
<1>2. v = "in_progress" => Active' = Active \cup {s}
  BY DEF StatusSet, OnlySession, Active
<1>3. v # "in_progress" => Active' = Active \ {s}
  BY DEF StatusSet, OnlySession, Active
<1>. QED BY <1>1, <1>2, <1>3 DEF NotRun, Rows, Clean, Result, Deferred

\* A session is completed: without a gap it has been executed in full, and only the
\* request that completes it ends.
LEMMA CompletedStep ==
  ASSUME Inv, UNCHANGED linked, holes \subseteq holes', NEW s \in DOMAIN sessions,
         StatusSet(s, "completed"),
         req' \in [Requests -> RequestType],
         \A v \in Requests : \/ req'[v] = req[v]
                             \/ req'[v].pc = "idle" /\ At(v, "complete") /\ req[v].s = s,
         "gap" \notin holes' => NotRun(s) = {} /\ ~Seeding(s)
  PROVE  Inv'
<1>. USE DEF Inv, SessionsInv
<1>2. /\ sessions' \in Seq(Session) /\ DOMAIN sessions' = DOMAIN sessions /\ Latest' = Latest
      /\ Active' = Active \ {s}
      /\ \A x \in DOMAIN sessions : sessions'[x].rows = sessions[x].rows
      /\ \A x \in DOMAIN sessions : NotRun(x)' = NotRun(x) /\ Rows(x)' = Rows(x)
      /\ \A x \in DOMAIN sessions, t \in Tests : Clean(x, t)' <=> Clean(x, t)
  BY StatusEffects DEF StatusSet, OnlySession
<1>3. SessionTypes'
  BY <1>2 DEF SessionTypes, Bound
<1>4. OneActive' /\ DeferralsFit'
  BY <1>2 DEF OneActive, DeferralsFit, Result
<1>5. DeferralsOnRows'
  BY <1>2 DEF DeferralsOnRows, Result, Deferred
<1>6. CompletesItself'
  <2>. SUFFICES ASSUME NEW x \in Active \ {s}, Rows(x) # {}, NotRun(x) = {}, "stuck" \notin holes'
       PROVE  \E v \in Requests : Finishing(req'[v]) /\ req'[v].s = x
    BY <1>2 DEF CompletesItself, Finishing, Active
  <2>1. PICK v \in Requests : Finishing(req[v]) /\ req[v].s = x
    BY DEF CompletesItself, Finishing
  <2>. QED BY <2>1
<1>7. ASSUME "gap" \notin holes'
      PROVE  (LatestIsActive /\ PastExecuted /\ ScopeCovers /\ AllTracked)'
  <2>1. LatestIsActive /\ PastExecuted /\ ScopeCovers /\ AllTracked /\ NotRun(s) = {} /\ ~Seeding(s)
    BY <1>7 DEF GaplessInv
  <2>2. \A v \in Requests : At(v, "seed")' = At(v, "seed") /\ (At(v, "seed") => req'[v] = req[v])
    BY DEF At
  <2>3. \A x : Seeding(x)' = Seeding(x)
    BY <2>2 DEF Seeding
  <2>4. Past' = Past \cup {s}
    BY <1>2 DEF Past
  <2>5. LatestIsActive'
    BY <1>2, <2>1 DEF LatestIsActive, At
  <2>6. PastExecuted'
    <3>1. \A q \in Requests : At(q, "complete")' => At(q, "complete") /\ req'[q] = req[q]
      BY DEF At
    <3>2. \A q \in Requests : At(q, "complete") => req[q].s \in DOMAIN sessions
      BY DEF SessionTypes, Bound, At
    <3>3. \A x \in Past : x \in DOMAIN sessions
      BY DEF Past
    <3>. QED BY <1>2, <2>1, <2>3, <2>4, <3>1, <3>2, <3>3 DEF PastExecuted
  <2>7. ScopeCovers'
    <3>1. \A q \in Requests : At(q, "number")' \/ At(q, "insert")' =>
            (At(q, "number") \/ At(q, "insert")) /\ req'[q] = req[q]
      BY DEF At
    <3>2. \A x \in Past, t \in linked : Clean(x, t)' <=> Clean(x, t)
      BY <1>2 DEF Past, SessionTypes
    <3>. QED BY <2>1, <2>4, <3>1, <3>2 DEF ScopeCovers
  <2>8. AllTracked'
    <3>. SUFFICES ASSUME NEW x \in DOMAIN sessions, NEW t \in linked
         PROVE  Tracked(x, t)'
      BY <1>2 DEF AllTracked
    <3>1. Tracked(x, t) /\ t \in Tests
      BY <2>1 DEF AllTracked, SessionTypes
    <3>. QED BY <1>2, <2>2, <3>1 DEF Tracked
  <2>. QED BY <2>5, <2>6, <2>7, <2>8
<1>. QED BY <1>3, <1>4, <1>5, <1>6, <1>7 DEF GaplessInv

\* Completed by hand, or by the last result.
LEMMA CompleteStep ==
  ASSUME Inv,
         \/ \E s \in DOMAIN sessions : PatchCompleted(s)
         \/ \E q \in Requests : RecordComplete(q)
  PROVE  Inv'
<1>1. ASSUME NEW s \in DOMAIN sessions, PatchCompleted(s)
      PROVE  Inv'
  <2>1. req' \in [Requests -> RequestType] /\ \A v \in Requests : req'[v] = req[v]
    BY <1>1 DEF PatchCompleted, Inv, SessionsInv, SessionTypes
  <2>2. UNCHANGED linked /\ StatusSet(s, "completed")
    BY <1>1, StatusUpdate DEF PatchCompleted, Inv, SessionsInv, SessionTypes
  <2>3. holes \subseteq holes' /\ ("gap" \notin holes' => NotRun(s) = {} /\ ~Seeding(s))
    BY <1>1 DEF PatchCompleted
  <2>. QED BY <2>1, <2>2, <2>3, CompletedStep
<1>2. ASSUME NEW q \in Requests, RecordComplete(q)
      PROVE  Inv'
  <2>1. Idle \in RequestType /\ Idle.pc = "idle" /\ Goto(q, Idle) /\ SessionTypes /\ At(q, "complete")
    BY <1>2 DEF RequestType, Idle, RecordComplete, Done, Goto, Inv, SessionsInv
  <2>2. /\ req' \in [Requests -> RequestType]
        /\ req'[q].pc = "idle"
        /\ \A v \in Requests \ {q} : req'[v] = req[v]
    BY <2>1, Moved
  <2>3. req[q].s \in DOMAIN sessions
    BY <2>1, InFlight DEF At
  <2>4. "gap" \notin holes' => NotRun(req[q].s) = {} /\ ~Seeding(req[q].s)
    BY <1>2, <2>1 DEF RecordComplete, Inv, GaplessInv, PastExecuted
  <2>5. UNCHANGED <<linked, holes>> /\ StatusSet(req[q].s, "completed")
    BY <1>2, <2>3, StatusUpdate DEF RecordComplete, Inv, SessionsInv, SessionTypes
  <2>6. \A v \in Requests : \/ req'[v] = req[v]
                            \/ req'[v].pc = "idle" /\ At(v, "complete") /\ req[v].s = req[q].s
    BY <2>1, <2>2
  <2>. QED BY <2>2, <2>3, <2>4, <2>5, <2>6, CompletedStep
<1>. QED BY <1>1, <1>2

\* A session is reopened: no other one is in progress, and the reset is to come.
LEMMA ReopenUpdateStep ==
  ASSUME Inv, NEW q \in Requests, ReopenUpdate(q)
  PROVE  Inv'
<1>1. CASE ~Reopenable(req[q].s)
  BY <1>1, GiveUpStep DEF ReopenUpdate, At, Finishing
<1>2. CASE Reopenable(req[q].s)
  <2>. USE DEF Inv, SessionsInv
  <2>1. PICK s : s = req[q].s
    OBVIOUS
  <2>2. PICK r : r = [req[q] EXCEPT !.pc = "reset"]
    OBVIOUS
  <2>3. /\ At(q, "reopen") /\ Active \subseteq {s} /\ Goto(q, r) /\ linked' = linked
        /\ sessions' = [sessions EXCEPT ![s].status = "in_progress"]
        /\ holes \subseteq holes' /\ "gap" \in holes'
    BY <1>2, <2>1, <2>2 DEF ReopenUpdate, Reopenable
  <2>4. s \in DOMAIN sessions
    BY <2>1, <2>3, InFlight DEF At
  <2>5. r \in RequestType /\ r.pc = "reset" /\ r.s = s
    <3>1. req[q] \in [pc : {"failures", "reopen", "reset", "record", "left", "complete"}, s : Nat]
      BY <2>3 DEF SessionTypes, RequestType, At
    <3>. QED BY <2>1, <2>2, <3>1 DEF RequestType
  <2>6. /\ req' \in [Requests -> RequestType] /\ req'[q] = r
        /\ \A v \in Requests \ {q} : req'[v] = req[v]
    BY <2>3, <2>5, Moved
  <2>7. /\ sessions' \in Seq(Session) /\ DOMAIN sessions' = DOMAIN sessions
        /\ Active' = Active \cup {s}
        /\ \A x \in DOMAIN sessions : sessions'[x].rows = sessions[x].rows
    BY <2>3, <2>4, StatusUpdate, StatusEffects DEF StatusSet, OnlySession, SessionTypes
  <2>8. SessionTypes'
    BY <2>3, <2>4, <2>5, <2>6, <2>7 DEF SessionTypes, Bound
  <2>9. OneActive' /\ DeferralsFit'
    BY <2>3, <2>7 DEF OneActive, DeferralsFit, Result
  <2>10. DeferralsOnRows'
    BY <2>7 DEF DeferralsOnRows, Result, Deferred
  <2>11. CompletesItself'
    BY <2>3, <2>5, <2>6, <2>7 DEF CompletesItself
  <2>. QED BY <2>3, <2>8, <2>9, <2>10, <2>11 DEF GaplessInv
<1>. QED BY <1>1, <1>2

-----------------------------------------------------------------------------
(* Steps that write a row.                                                 *)

\* The other rows, and the status of every session, stay.
LEMMA RowEffects ==
  ASSUME NEW s \in DOMAIN sessions, NEW t \in Tests, NEW row, RowSet(s, t, row)
  PROVE  /\ Active' = Active /\ Past' = Past
         /\ \A x \in DOMAIN sessions, u \in Tests :
              x # s \/ u # t => sessions'[x].rows[u] = sessions[x].rows[u]
         /\ Result(s, t)' = row.result
         /\ \A x \in DOMAIN sessions \ {s} : NotRun(x)' = NotRun(x) /\ Rows(x)' = Rows(x)
         /\ NotRun(s)' \ {t} = NotRun(s) \ {t}
         /\ row.result # "absent" => Rows(s)' = Rows(s) \cup {t}
<1>1. Active' = Active
  BY DEF RowSet, OnlySession, Active
<1>2. \A x \in DOMAIN sessions, u \in Tests :
        x # s \/ u # t => sessions'[x].rows[u] = sessions[x].rows[u]
  BY DEF RowSet, OnlySession
<1>3. Result(s, t)' = row.result
  BY DEF RowSet, Result
<1>4. Past' = Past
  BY <1>1 DEF Past, RowSet, OnlySession
<1>. QED BY <1>1, <1>2, <1>3, <1>4 DEF NotRun, Rows, Result

\* What a request may do while the row of test t in session s is written.
Follows(s, t, v) ==
  \/ req'[v] = req[v]
  \/ /\ At(v, "seed") /\ req[v].s = s
     /\ \/ req'[v].pc = "idle" /\ req[v].scope = {t}
        \/ req'[v].pc = "seed" /\ req'[v].s = s /\ req'[v].scope = req[v].scope \ {t}
  \/ req[v].pc \in {"record", "accept"} /\ req'[v].pc = "idle"
  \/ At(v, "record") /\ req'[v].pc = "left" /\ req'[v].s = s

\* A row is there after it is written, it is deferred only as a failure, and a session
\* it completes has a request that will see so.  Without a gap it does not become
\* unexecuted in a session that is over, and ceases to be clean only in the latest one.
LEMMA RowStep ==
  ASSUME Inv, UNCHANGED linked, holes \subseteq holes',
         NEW s \in DOMAIN sessions, NEW t \in Tests, NEW row \in Row, RowSet(s, t, row),
         row.result # "absent", row.deferral = "yes" => row.result = "failed",
         req' \in [Requests -> RequestType], \A v \in Requests : Follows(s, t, v),
         \/ row.result = Result(s, t) \/ row.result = "not_run"
         \/ \E v \in Requests : req'[v].pc = "left" /\ req'[v].s = s,
         "gap" \notin holes' =>
           /\ row.result = "not_run" => Result(s, t) = "not_run" \/ Seeding(s)
           /\ Clean(s, t) => \/ Clean(s, t)'
                             \/ /\ s = Latest
                                /\ \/ s \in Active
                                   \/ \A q \in Requests : ~At(q, "number") /\ ~At(q, "insert")
  PROVE  Inv'
<1>. USE DEF Inv, SessionsInv
<1>1. /\ sessions' \in Seq(Session) /\ DOMAIN sessions' = DOMAIN sessions /\ Latest' = Latest
      /\ Active' = Active /\ Past' = Past
      /\ sessions'[s].rows[t] = row /\ Result(s, t)' = row.result
      /\ \A x \in DOMAIN sessions, u \in Tests :
           x # s \/ u # t => sessions'[x].rows[u] = sessions[x].rows[u]
      /\ \A x \in DOMAIN sessions \ {s} : NotRun(x)' = NotRun(x) /\ Rows(x)' = Rows(x)
      /\ NotRun(s)' \ {t} = NotRun(s) \ {t}
      /\ Rows(s)' = Rows(s) \cup {t}
  BY RowEffects DEF RowSet, OnlySession
<1>2. \A v \in Requests : Bound(v)'
  BY <1>1 DEF SessionTypes, Bound, Follows, At
<1>3. SessionTypes'
  BY <1>1, <1>2 DEF SessionTypes
<1>4. OneActive'
  BY <1>1 DEF OneActive
<1>5. DeferralsFit'
  BY <1>1 DEF DeferralsFit, Result
<1>6. DeferralsOnRows'
  BY <1>1 DEF DeferralsOnRows, Result, Deferred
<1>7. CompletesItself'
  <2>. SUFFICES ASSUME NEW x \in Active, (Rows(x) # {})', (NotRun(x) = {})', "stuck" \notin holes'
       PROVE  \E v \in Requests : Finishing(req'[v]) /\ req'[v].s = x
    BY <1>1 DEF CompletesItself, Finishing
  <2>1. x \in DOMAIN sessions
    BY DEF Active
  <2>2. CASE x = s /\ row.result # Result(s, t)
    <3>1. row.result # "not_run"
      BY <1>1, <2>2 DEF NotRun
    <3>2. PICK v \in Requests : req'[v].pc = "left" /\ req'[v].s = s
      BY <2>2, <3>1
    <3>. QED BY <2>2, <3>2 DEF Finishing
  <2>3. CASE x # s \/ row.result = Result(s, t)
    <3>1. Rows(x) # {} /\ NotRun(x) = {}
      BY <1>1, <2>1, <2>3 DEF Rows, NotRun
    <3>2. PICK v \in Requests : Finishing(req[v]) /\ req[v].s = x
      BY <3>1 DEF CompletesItself, Finishing
    <3>3. req'[v] = req[v]
      BY <3>2 DEF Follows, Finishing, At
    <3>. QED BY <3>2, <3>3
  <2>. QED BY <2>2, <2>3
<1>8. ASSUME "gap" \notin holes'
      PROVE  (LatestIsActive /\ PastExecuted /\ ScopeCovers /\ AllTracked)'
  <2>1. LatestIsActive /\ PastExecuted /\ ScopeCovers /\ AllTracked
    BY <1>8 DEF GaplessInv
  <2>2. \A x : Seeding(x)' => Seeding(x)
    BY DEF Seeding, Follows, At
  <2>3. LatestIsActive'
    BY <1>1, <2>1 DEF LatestIsActive, Follows, At
  <2>4. \A x \in DOMAIN sessions : NotRun(x) = {} /\ ~Seeding(x) => NotRun(x)' = {} /\ ~Seeding(x)'
    <3>1. NotRun(s) = {} /\ ~Seeding(s) => row.result # "not_run"
      BY <1>8 DEF NotRun
    <3>2. t \in NotRun(s)' => row.result = "not_run"
      BY <1>1 DEF NotRun
    <3>. QED BY <1>1, <2>2, <3>1, <3>2
  <2>5. PastExecuted'
    <3>1. \A v \in Requests : At(v, "complete")' => At(v, "complete") /\ req'[v] = req[v]
      BY DEF Follows, At
    <3>2. \A v \in Requests : At(v, "complete") => req[v].s \in DOMAIN sessions
      BY InFlight DEF At
    <3>. QED BY <1>1, <2>1, <2>4, <3>1, <3>2 DEF PastExecuted, Past
  <2>6. \A x \in DOMAIN sessions, u \in Tests :
          Clean(x, u) => Clean(x, u)' \/ (x = s /\ u = t /\ ~Clean(s, t)')
    BY <1>1 DEF Clean, Result, Deferred
  <2>7. ScopeCovers'
    <3>. SUFFICES ASSUME NEW v \in Requests, At(v, "number")' \/ At(v, "insert")', NEW u \in linked
         PROVE  u \in req'[v].scope \/ \E x \in Past : Clean(x, u)'
      BY <1>1 DEF ScopeCovers
    <3>1. (At(v, "number") \/ At(v, "insert")) /\ req'[v] = req[v]
      BY DEF Follows, At
    <3>2. u \in req[v].scope \/ \E x \in Past : Clean(x, u)
      BY <2>1, <3>1 DEF ScopeCovers
    <3>3. ASSUME NEW x \in Past, Clean(x, u)
          PROVE  Clean(x, u)'
      BY <1>8, <2>6, <3>1, <3>3 DEF Past, SessionTypes
    <3>. QED BY <3>1, <3>2, <3>3
  <2>8. AllTracked'
    <3>. SUFFICES ASSUME NEW y \in DOMAIN sessions, NEW u \in linked
         PROVE  Tracked(y, u)'
      BY <1>1 DEF AllTracked
    <3>1. Tracked(y, u) /\ u \in Tests
      BY <2>1 DEF AllTracked, SessionTypes
    <3>2. Rows(y) \subseteq Rows(y)'
      BY <1>1
    <3>3. CASE u \in Rows(y)
      BY <3>2, <3>3 DEF Tracked
    <3>4. ASSUME NEW x \in DOMAIN sessions, x < y, Clean(x, u)
          PROVE  Tracked(y, u)'
      <4>1. x # Latest
        BY <3>4 DEF SessionTypes, Latest
      <4>2. Clean(x, u)'
        BY <1>8, <2>6, <3>1, <3>4, <4>1
      <4>. QED BY <1>1, <3>4, <4>2 DEF Tracked
    <3>5. ASSUME NEW v \in Requests, At(v, "seed"), req[v].s = y, u \in req[v].scope
          PROVE  Tracked(y, u)'
      <4>1. CASE s = y /\ u = t
        BY <1>1, <4>1 DEF Tracked
      <4>2. CASE ~(s = y /\ u = t)
        <5>1. At(v, "seed")' /\ req'[v].s = y /\ u \in req'[v].scope
          BY <3>5, <4>2 DEF Follows, At
        <5>. QED BY <5>1 DEF Tracked
      <4>. QED BY <4>1, <4>2
    <3>. QED BY <3>1, <3>3, <3>4, <3>5 DEF Tracked
  <2>. QED BY <2>3, <2>5, <2>7, <2>8
<1>. QED BY <1>3, <1>4, <1>5, <1>6, <1>7, <1>8 DEF GaplessInv

\* A row that exists is a row.
LEMMA RowType ==
  ASSUME SessionTypes, NEW s \in DOMAIN sessions, NEW t \in Tests
  PROVE  sessions[s].rows[t] \in Row
<1>1. sessions[s] \in Session
  BY DEF SessionTypes
<1>. QED BY <1>1 DEF Session

\* Seeding adds a row that has not been executed, or leaves the one there is, or stops
\* at a test that was deleted.
LEMMA CreateSeedStep ==
  ASSUME Inv, NEW q \in Requests, CreateSeed(q)
  PROVE  Inv'
<1>. USE DEF Inv, SessionsInv
<1>1. CASE Done(q) /\ UNCHANGED sessions /\ "gap" \in holes'
  BY <1>1, GiveUpStep DEF CreateSeed, At, Finishing
<1>2. CASE ~(Done(q) /\ UNCHANGED sessions /\ "gap" \in holes')
  <2>1. PICK s : s = req[q].s
    OBVIOUS
  <2>2. PICK t \in req[q].scope :
          /\ sessions' = [sessions EXCEPT ![s].rows[t].result = IF @ = "absent" THEN "not_run" ELSE @]
          /\ Goto(q, IF req[q].scope = {t} THEN Idle ELSE [req[q] EXCEPT !.scope = @ \ {t}])
          /\ UNCHANGED holes
    BY <1>2, <2>1 DEF CreateSeed
  <2>3. At(q, "seed") /\ UNCHANGED <<linked, holes>>
    BY <2>2 DEF CreateSeed
  <2>4. s \in DOMAIN sessions /\ t \in Tests /\ req[q].scope \subseteq Tests
    BY <2>1, <2>2, <2>3, InFlight DEF At
  <2>5. sessions[s].rows[t] \in Row
    BY <2>4, RowType
  <2>6. PICK row : row = [sessions[s].rows[t] EXCEPT !.result = IF @ = "absent" THEN "not_run" ELSE @]
    OBVIOUS
  <2>7. /\ row \in Row /\ row.deferral = sessions[s].rows[t].deferral
        /\ row.result = IF Result(s, t) = "absent" THEN "not_run" ELSE Result(s, t)
    BY <2>5, <2>6 DEF Row, Results, Result
  <2>8. sessions' = [sessions EXCEPT ![s].rows[t] = row]
    BY <2>2, <2>6
  <2>9. RowSet(s, t, row)
    BY <2>4, <2>7, <2>8, RowUpdate DEF SessionTypes
  <2>10. row.deferral = "yes" => row.result = "failed"
    BY <2>4, <2>7 DEF DeferralsFit
  <2>11. PICK r : r = IF req[q].scope = {t} THEN Idle ELSE [req[q] EXCEPT !.scope = @ \ {t}]
    OBVIOUS
  <2>12. /\ r \in RequestType
         /\ \/ r.pc = "idle" /\ req[q].scope = {t}
            \/ r.pc = "seed" /\ r.s = s /\ r.scope = req[q].scope \ {t}
    <3>1. req[q] \in [pc : {"insert", "seed"}, scope : SUBSET Tests, s : Nat]
      BY <2>3 DEF SessionTypes, RequestType, At
    <3>2. CASE req[q].scope = {t}
      BY <2>11, <3>2 DEF RequestType, Idle
    <3>3. CASE req[q].scope # {t}
      <4>1. r = [req[q] EXCEPT !.scope = @ \ {t}]
        BY <2>11, <3>3
      <4>2. r.pc = "seed" /\ r.s = s /\ r.scope = req[q].scope \ {t}
        BY <2>1, <2>3, <3>1, <4>1 DEF At
      <4>3. r \in [pc : {"insert", "seed"}, scope : SUBSET Tests, s : Nat]
        BY <3>1, <4>1
      <4>. QED BY <4>2, <4>3 DEF RequestType
    <3>. QED BY <3>2, <3>3
  <2>13. /\ req' \in [Requests -> RequestType] /\ req'[q] = r
         /\ \A v \in Requests \ {q} : req'[v] = req[v]
    BY <2>2, <2>11, <2>12, Moved
  <2>14. \A v \in Requests : Follows(s, t, v)
    BY <2>1, <2>3, <2>12, <2>13 DEF Follows
  <2>15. Seeding(s)
    BY <2>1, <2>3 DEF Seeding
  <2>16. Clean(s, t) => Clean(s, t)'
    BY <2>7, <2>9 DEF Clean, Result, Deferred, RowSet
  <2>17. /\ row.result # "absent"
         /\ row.result = Result(s, t) \/ row.result = "not_run"
    BY <2>7
  <2>. QED BY <2>3, <2>4, <2>7, <2>9, <2>10, <2>13, <2>14, <2>15, <2>16, <2>17, RowStep
<1>. QED BY <1>1, <1>2

\* A result is recorded; the count that follows will see it.
LEMMA RecordRowStep ==
  ASSUME Inv, NEW q \in Requests, NEW t \in Tests, NEW result \in {"passed", "failed"},
         RecordRow(q, t, result)
  PROVE  Inv'
<1>. USE DEF Inv, SessionsInv
<1>1. CASE Result(req[q].s, t) = "absent"
  BY <1>1, GiveUpStep DEF RecordRow, At, Finishing
<1>2. CASE Result(req[q].s, t) # "absent"
  <2>1. PICK s : s = req[q].s
    OBVIOUS
  <2>2. PICK row : row = [result |-> result, deferral |-> "no"]
    OBVIOUS
  <2>3. /\ At(q, "record") /\ UNCHANGED linked /\ Goto(q, [pc |-> "left", s |-> s])
        /\ sessions' = [sessions EXCEPT ![s].rows[t] = row]
        /\ holes \subseteq holes' /\ ("gap" \notin holes' => s \in Active)
    BY <1>2, <2>1, <2>2 DEF RecordRow, Recorded
  <2>4. s \in DOMAIN sessions /\ s \in Nat
    BY <2>1, <2>3, InFlight DEF At, SessionTypes
  <2>5. row \in Row /\ row.result = result /\ row.deferral = "no"
    BY <2>2 DEF Row, Results, Deferrals
  <2>6. RowSet(s, t, row)
    BY <2>3, <2>4, <2>5, RowUpdate DEF SessionTypes
  <2>7. [pc |-> "left", s |-> s] \in RequestType
    BY <2>4 DEF RequestType
  <2>8. /\ req' \in [Requests -> RequestType] /\ req'[q] = [pc |-> "left", s |-> s]
        /\ \A v \in Requests \ {q} : req'[v] = req[v]
    BY <2>3, <2>7, Moved
  <2>9. \A v \in Requests : Follows(s, t, v)
    BY <2>3, <2>8 DEF Follows
  <2>10. \E v \in Requests : req'[v].pc = "left" /\ req'[v].s = s
    BY <2>8
  <2>11. "gap" \notin holes' => s = Latest /\ s \in Active
    BY <2>3 DEF GaplessInv, LatestIsActive
  <2>12. row.result # "absent" /\ row.result # "not_run" /\ row.deferral # "yes"
    BY <2>5
  <2>. QED BY <2>3, <2>4, <2>5, <2>6, <2>8, <2>9, <2>10, <2>11, <2>12, RowStep
<1>. QED BY <1>1, <1>2

\* Accepting a known issue leaves the result, and a clean row clean; a row that was
\* deleted stays away.
LEMMA AcceptWriteStep ==
  ASSUME Inv, NEW q \in Requests, AcceptWrite(q)
  PROVE  Inv'
<1>. USE DEF Inv, SessionsInv
<1>1. CASE Result(req[q].s, req[q].t) = "absent"
  BY <1>1, GiveUpStep DEF AcceptWrite, At, Finishing
<1>2. CASE Result(req[q].s, req[q].t) # "absent"
  <2>1. PICK s : s = req[q].s
    OBVIOUS
  <2>2. PICK t : t = req[q].t
    OBVIOUS
  <2>3. PICK d : d = IF Result(s, t) = "failed" THEN "yes" ELSE "raced"
    OBVIOUS
  <2>4. /\ At(q, "accept") /\ UNCHANGED <<linked, holes>> /\ Done(q)
        /\ sessions' = [sessions EXCEPT ![s].rows[t].deferral = d]
    BY <1>2, <2>1, <2>2, <2>3 DEF AcceptWrite
  <2>5. s \in DOMAIN sessions /\ t \in Tests
    BY <2>1, <2>2, <2>4, InFlight DEF At
  <2>6. sessions[s].rows[t] \in Row
    BY <2>5, RowType
  <2>7. PICK row : row = [sessions[s].rows[t] EXCEPT !.deferral = d]
    OBVIOUS
  <2>8. row \in Row /\ row.deferral = d /\ row.result = Result(s, t)
    BY <2>3, <2>6, <2>7 DEF Row, Deferrals, Result
  <2>9. sessions' = [sessions EXCEPT ![s].rows[t] = row]
    BY <2>4, <2>7
  <2>10. RowSet(s, t, row)
    BY <2>5, <2>8, <2>9, RowUpdate DEF SessionTypes
  <2>11. row.result # "absent"
    BY <1>2, <2>1, <2>2, <2>8
  <2>12. Idle \in RequestType /\ Idle.pc = "idle" /\ Goto(q, Idle)
    BY <2>4 DEF RequestType, Idle, Done, Goto
  <2>13. /\ req' \in [Requests -> RequestType] /\ req'[q].pc = "idle"
         /\ \A v \in Requests \ {q} : req'[v] = req[v]
    BY <2>12, Moved
  <2>14. \A v \in Requests : Follows(s, t, v)
    BY <2>4, <2>13 DEF Follows, At
  <2>15. Clean(s, t) => Clean(s, t)'
    BY <2>3, <2>8, <2>10 DEF Clean, Result, Deferred, RowSet
  <2>16. row.deferral = "yes" => row.result = "failed"
    BY <2>3, <2>8
  <2>17. row.result = "not_run" => Result(s, t) = "not_run"
    BY <2>8
  <2>. QED BY <2>4, <2>5, <2>8, <2>10, <2>11, <2>13, <2>14, <2>15, <2>16, <2>17, RowStep
<1>. QED BY <1>1, <1>2

\* A deferral is revoked: without a gap, in the latest session, and no creation holds
\* a scope that left the test out.
LEMMA UnacceptStep ==
  ASSUME Inv, NEW s \in DOMAIN sessions, NEW t \in Tests, Unaccept(s, t)
  PROVE  Inv'
<1>. USE DEF Inv, SessionsInv
<1>1. /\ Deferred(s, t) /\ UNCHANGED <<linked, req>> /\ holes \subseteq holes'
      /\ sessions' = [sessions EXCEPT ![s].rows[t].deferral = "no"]
      /\ "gap" \notin holes' => s = Latest /\ \A q \in Requests : ~At(q, "number") /\ ~At(q, "insert")
  BY DEF Unaccept, ScopeHeld, At
<1>2. sessions[s].rows[t] \in Row
  BY RowType
<1>3. PICK row : row = [sessions[s].rows[t] EXCEPT !.deferral = "no"]
  OBVIOUS
<1>4. row \in Row /\ row.deferral = "no" /\ row.result = Result(s, t)
  BY <1>2, <1>3 DEF Row, Deferrals, Result
<1>5. sessions' = [sessions EXCEPT ![s].rows[t] = row]
  BY <1>1, <1>3
<1>6. RowSet(s, t, row)
  BY <1>4, <1>5, RowUpdate DEF SessionTypes
<1>7. row.result # "absent" /\ row.deferral # "yes"
  BY <1>1, <1>4 DEF DeferralsOnRows
<1>8. req' \in [Requests -> RequestType] /\ \A v \in Requests : Follows(s, t, v)
  BY <1>1 DEF SessionTypes, Follows
<1>9. row.result = "not_run" => Result(s, t) = "not_run"
  BY <1>4
<1>. QED BY <1>1, <1>4, <1>6, <1>7, <1>8, <1>9, RowStep

-----------------------------------------------------------------------------
(* Steps that change a session as a whole.                                 *)

\* A reopened session is reset: that is a gap, and every row there is unexecuted.
LEMMA ReopenResetStep ==
  ASSUME Inv, NEW q \in Requests, ReopenReset(q)
  PROVE  Inv'
<1>. USE DEF Inv, SessionsInv
<1>1. PICK s : s = req[q].s
  OBVIOUS
<1>2. /\ At(q, "reset") /\ UNCHANGED <<linked, holes>> /\ Done(q)
      /\ sessions' = [sessions EXCEPT ![s].rows = [t \in Tests |-> Reset(@[t])]]
  BY <1>1 DEF ReopenReset
<1>3. s \in DOMAIN sessions /\ sessions[s] \in Session
  BY <1>1, <1>2, InFlight DEF At, SessionTypes
<1>4. PICK new : new = [sessions[s] EXCEPT !.rows = [t \in Tests |-> Reset(@[t])]]
  OBVIOUS
<1>5. /\ new.status = sessions[s].status
      /\ \A t \in Tests : new.rows[t] = Reset(sessions[s].rows[t])
  BY <1>3, <1>4 DEF Session
<1>6. \A t \in Tests : Reset(sessions[s].rows[t]) \in Row
  BY <1>3, RowType DEF Reset, Row, Results, Deferrals
<1>7. new \in Session
  BY <1>3, <1>4, <1>6 DEF Session
<1>8. sessions' = [sessions EXCEPT ![s] = new]
  BY <1>2, <1>4
<1>9. /\ sessions' \in Seq(Session) /\ DOMAIN sessions' = DOMAIN sessions
      /\ sessions'[s] = new
      /\ \A x \in DOMAIN sessions \ {s} : sessions'[x] = sessions[x]
  BY <1>3, <1>7, <1>8, Replaced DEF OnlySession, SessionTypes
<1>10. Idle \in RequestType /\ Idle.pc = "idle" /\ Goto(q, Idle)
  BY <1>2 DEF RequestType, Idle, Done, Goto
<1>11. /\ req' \in [Requests -> RequestType] /\ req'[q].pc = "idle"
       /\ \A v \in Requests \ {q} : req'[v] = req[v]
  BY <1>10, Moved
<1>12. SessionTypes'
  BY <1>2, <1>9, <1>11 DEF SessionTypes, Bound
<1>13. Active' = Active
  BY <1>5, <1>9 DEF Active
<1>14. \A t \in Tests :
         /\ Result(s, t)' = IF Result(s, t) = "absent" THEN "absent" ELSE "not_run"
         /\ Deferred(s, t)' => Result(s, t) = "absent" /\ Deferred(s, t)
         /\ sessions'[s].rows[t].deferral = "yes" => sessions[s].rows[t].deferral = "yes"
  BY <1>5, <1>9 DEF Reset, Result, Deferred
<1>15. OneActive'
  BY <1>13 DEF OneActive
<1>16. DeferralsFit'
  BY <1>3, <1>9, <1>14 DEF DeferralsFit, DeferralsOnRows, Result, Deferred
<1>17. DeferralsOnRows'
  BY <1>9, <1>14 DEF DeferralsOnRows, Result, Deferred
<1>18. CompletesItself'
  <2>. SUFFICES ASSUME NEW x \in Active, (Rows(x) # {})', (NotRun(x) = {})', "stuck" \notin holes
       PROVE  \E v \in Requests : Finishing(req'[v]) /\ req'[v].s = x
    BY <1>2, <1>13 DEF CompletesItself, Finishing
  <2>1. x # s
    BY <1>14 DEF Rows, NotRun
  <2>2. Rows(x) # {} /\ NotRun(x) = {}
    BY <1>9, <2>1 DEF Active, Rows, NotRun, Result
  <2>3. PICK v \in Requests : Finishing(req[v]) /\ req[v].s = x
    BY <2>2 DEF CompletesItself, Finishing
  <2>. QED BY <1>1, <1>11, <2>1, <2>3
<1>19. "gap" \in holes
  BY <1>2 DEF GaplessInv, LatestIsActive
<1>. QED BY <1>2, <1>12, <1>15, <1>16, <1>17, <1>18, <1>19 DEF GaplessInv

\* A new session is the only one in progress.  Without a gap, what its scope leaves out
\* is clean in a session before, and the rest is going to be seeded.
LEMMA CreateInsertStep ==
  ASSUME Inv, NEW q \in Requests, CreateInsert(q)
  PROVE  Inv'
<1>1. CASE ~Insertable(req[q].s)
  BY <1>1, GiveUpStep DEF CreateInsert, At, Finishing
<1>2. CASE Insertable(req[q].s)
  <2>. USE DEF Inv, SessionsInv
  <2>1. PICK s : s = req[q].s
    OBVIOUS
  <2>2. PICK r : r = [req[q] EXCEPT !.pc = "seed"]
    OBVIOUS
  <2>3. /\ At(q, "insert") /\ Active = {} /\ s = Latest + 1 /\ UNCHANGED <<linked, holes>>
        /\ sessions' = Append(sessions, NewSession) /\ Goto(q, r)
    BY <1>2, <2>1, <2>2 DEF CreateInsert, Insertable
  <2>4. r \in RequestType /\ r.pc = "seed" /\ r.s = s /\ r.scope = req[q].scope
    <3>1. req[q] \in [pc : {"insert", "seed"}, scope : SUBSET Tests, s : Nat]
      BY <2>3 DEF SessionTypes, RequestType, At
    <3>2. r \in [pc : {"insert", "seed"}, scope : SUBSET Tests, s : Nat] /\ r.pc = "seed"
      BY <2>2, <3>1
    <3>3. r.s = s /\ r.scope = req[q].scope
      BY <2>1, <2>2, <3>1
    <3>. QED BY <3>2, <3>3 DEF RequestType
  <2>5. /\ req' \in [Requests -> RequestType] /\ req'[q] = r
        /\ \A v \in Requests \ {q} : req'[v] = req[v]
    BY <2>3, <2>4, Moved
  <2>6. /\ NewSession \in Session /\ NewSession.status = "in_progress"
        /\ \A t \in Tests : NewSession.rows[t] = [result |-> "absent", deferral |-> "no"]
    BY DEF NewSession, NoRow, Session, Row, Results, Deferrals
  <2>7. /\ sessions' \in Seq(Session) /\ s \notin DOMAIN sessions
        /\ DOMAIN sessions' = DOMAIN sessions \cup {s} /\ Latest' = s
        /\ sessions'[s] = NewSession
        /\ \A x \in DOMAIN sessions : sessions'[x] = sessions[x]
    BY <2>3, <2>6 DEF SessionTypes, Latest
  <2>8. Active' = {s} /\ Past' = DOMAIN sessions /\ Past = DOMAIN sessions
    <3>1. Active' = {s}
      BY <2>3, <2>6, <2>7 DEF Active
    <3>. QED BY <2>3, <2>7, <3>1 DEF Past
  <2>9. \A x \in DOMAIN sessions, t \in Tests :
          Result(x, t)' = Result(x, t) /\ (Clean(x, t)' <=> Clean(x, t))
    BY <2>7 DEF Result, Clean, Deferred
  <2>10. \A t \in Tests : Result(s, t)' = "absent" /\ ~Deferred(s, t)'
    BY <2>6, <2>7 DEF Result, Deferred
  <2>11. SessionTypes'
    BY <2>3, <2>4, <2>5, <2>7 DEF SessionTypes, Bound
  <2>12. OneActive'
    BY <2>8 DEF OneActive
  <2>13. DeferralsFit'
    BY <2>7, <2>10 DEF DeferralsFit, Result, Deferred
  <2>14. DeferralsOnRows'
    BY <2>7, <2>10 DEF DeferralsOnRows, Result, Deferred
  <2>15. CompletesItself'
    BY <2>8, <2>10 DEF CompletesItself, Rows
  <2>16. ASSUME "gap" \notin holes
         PROVE  (LatestIsActive /\ PastExecuted /\ ScopeCovers /\ AllTracked)'
    <3>1. LatestIsActive /\ PastExecuted /\ ScopeCovers /\ AllTracked
      BY <2>16 DEF GaplessInv
    <3>2. LatestIsActive'
      BY <2>4, <2>5, <2>7, <2>8, <3>1 DEF LatestIsActive, At
    <3>3. \A x \in DOMAIN sessions : NotRun(x)' = NotRun(x) /\ (Seeding(x)' => Seeding(x))
      BY <2>4, <2>5, <2>7, <2>9 DEF NotRun, Seeding, At
    <3>4. PastExecuted'
      <4>1. \A v \in Requests : At(v, "complete")' => At(v, "complete") /\ req'[v] = req[v]
        BY <2>4, <2>5 DEF At
      <4>2. \A v \in Requests : At(v, "complete") => req[v].s \in DOMAIN sessions
        BY InFlight DEF At
      <4>. QED BY <2>8, <3>1, <3>3, <4>1, <4>2 DEF PastExecuted
    <3>5. \A x \in Past, t \in linked : Clean(x, t)' <=> Clean(x, t)
      BY <2>8, <2>9 DEF SessionTypes
    <3>6. ScopeCovers'
      <4>1. \A v \in Requests : At(v, "number")' \/ At(v, "insert")' =>
              (At(v, "number") \/ At(v, "insert")) /\ req'[v] = req[v]
        BY <2>4, <2>5 DEF At
      <4>. QED BY <2>3, <2>8, <3>1, <3>5, <4>1 DEF ScopeCovers
    <3>7. AllTracked'
      <4>. SUFFICES ASSUME NEW y \in DOMAIN sessions \cup {s}, NEW t \in linked
           PROVE  Tracked(y, t)'
        BY <2>3, <2>7 DEF AllTracked
      <4>1. CASE y = s /\ t \in req[q].scope
        BY <2>4, <2>5, <4>1 DEF Tracked, At
      <4>2. ASSUME y = s, NEW x \in Past, Clean(x, t)
            PROVE  Tracked(y, t)'
        <5>1. x \in DOMAIN sessions /\ x < s
          BY <2>3 DEF Past, SessionTypes, Latest
        <5>. QED BY <2>7, <3>5, <4>2, <5>1 DEF Tracked
      <4>3. CASE y \in DOMAIN sessions
        <5>1. Tracked(y, t) /\ t \in Tests
          BY <3>1, <4>3 DEF AllTracked, SessionTypes
        <5>2. ASSUME NEW x \in DOMAIN sessions, x < y, Clean(x, t)
              PROVE  Tracked(y, t)'
          BY <2>7, <2>9, <5>1, <5>2 DEF Tracked
        <5>3. t \in Rows(y) => t \in Rows(y)'
          BY <2>9, <4>3 DEF Rows
        <5>4. ASSUME NEW v \in Requests, At(v, "seed"), req[v].s = y, t \in req[v].scope
              PROVE  Tracked(y, t)'
          <6>1. req'[v] = req[v]
            BY <2>3, <2>5, <5>4 DEF At
          <6>. QED BY <5>4, <6>1 DEF Tracked, At
        <5>. QED BY <5>1, <5>2, <5>3, <5>4 DEF Tracked
      <4>4. t \in req[q].scope \/ \E x \in Past : Clean(x, t)
        BY <2>3, <3>1 DEF ScopeCovers
      <4>. QED BY <4>1, <4>2, <4>3, <4>4
    <3>. QED BY <3>2, <3>4, <3>6, <3>7
  <2>. QED BY <2>3, <2>11, <2>12, <2>13, <2>14, <2>15, <2>16 DEF GaplessInv
<1>. QED BY <1>1, <1>2

\* A deleted test loses its links and rows: what is known of the other tests stays,
\* and a session is fully executed by it only when it was the last one open.
LEMMA DeleteTestStep ==
  ASSUME Inv, NEW t \in Tests, DeleteTest(t)
  PROVE  Inv'
<1>. USE DEF Inv, SessionsInv
<1>1. /\ linked' = linked \ {t} /\ req' = req /\ holes \subseteq holes'
      /\ "gap" \notin holes' => "gap" \notin holes
      /\ "stuck" \notin holes' => "stuck" \notin holes /\ \A s \in Active : NotRun(s) # {t}
      /\ sessions' = [s \in DOMAIN sessions |-> [sessions[s] EXCEPT !.rows = Without(@, t)]]
  BY DEF DeleteTest
<1>2. NoRow \in Row /\ NoRow.result = "absent" /\ NoRow.deferral = "no"
  BY DEF NoRow, Row, Results, Deferrals
<1>3. ASSUME NEW s \in DOMAIN sessions
      PROVE  /\ sessions'[s] \in Session /\ sessions'[s].status = sessions[s].status
             /\ sessions'[s].rows[t] = NoRow
             /\ \A u \in Tests \ {t} : sessions'[s].rows[u] = sessions[s].rows[u]
  <2>1. PICK new : new = [sessions[s] EXCEPT !.rows = Without(@, t)]
    OBVIOUS
  <2>2. sessions'[s] = new /\ sessions[s] \in Session
    BY <1>1, <2>1 DEF SessionTypes
  <2>3. /\ new.status = sessions[s].status
        /\ new.rows = [sessions[s].rows EXCEPT ![t] = NoRow]
    BY <2>1, <2>2 DEF Session, Without
  <2>4. new.rows \in [Tests -> Row] /\ new \in Session
    BY <1>2, <2>1, <2>2, <2>3 DEF Session
  <2>. QED BY <2>2, <2>3, <2>4 DEF Session
<1>4. DOMAIN sessions' = DOMAIN sessions /\ sessions' \in Seq(Session) /\ Latest' = Latest
  <2>1. Len(sessions) \in Nat /\ DOMAIN sessions = 1 .. Len(sessions)
    BY DEF SessionTypes
  <2>2. sessions' \in [1 .. Len(sessions) -> Session]
    BY <1>1, <1>3, <2>1
  <2>. QED BY <2>1, <2>2 DEF Latest
<1>5. Active' = Active /\ Past' = Past
  <2>1. Active' = Active
    BY <1>3, <1>4 DEF Active
  <2>. QED BY <1>4, <2>1 DEF Past
<1>6. ASSUME NEW s \in DOMAIN sessions
      PROVE  /\ Rows(s)' = Rows(s) \ {t} /\ NotRun(s)' = NotRun(s) \ {t}
             /\ \A u \in Tests \ {t} : Clean(s, u)' <=> Clean(s, u)
             /\ ~Deferred(s, t)'
  BY <1>2, <1>3 DEF Rows, NotRun, Clean, Result, Deferred
<1>7. SessionTypes'
  BY <1>1, <1>4 DEF SessionTypes, Bound
<1>8. OneActive'
  BY <1>5 DEF OneActive
<1>9. DeferralsFit'
  BY <1>2, <1>3, <1>4 DEF DeferralsFit, Result
<1>10. DeferralsOnRows'
  BY <1>2, <1>3, <1>4 DEF DeferralsOnRows, Result, Deferred
<1>11. CompletesItself'
  <2>. SUFFICES ASSUME NEW s \in Active, Rows(s)' # {}, NotRun(s)' = {}, "stuck" \notin holes'
       PROVE  \E v \in Requests : Finishing(req[v]) /\ req[v].s = s
    BY <1>1, <1>5 DEF CompletesItself, Finishing
  <2>1. Rows(s) # {} /\ NotRun(s) = {} /\ "stuck" \notin holes
    BY <1>1, <1>6 DEF Active
  <2>. QED BY <2>1 DEF CompletesItself, Finishing
<1>12. ASSUME "gap" \notin holes'
       PROVE  (LatestIsActive /\ PastExecuted /\ ScopeCovers /\ AllTracked)'
  <2>1. LatestIsActive /\ PastExecuted /\ ScopeCovers /\ AllTracked
    BY <1>1, <1>12 DEF GaplessInv
  <2>2. LatestIsActive'
    BY <1>1, <1>4, <1>5, <2>1 DEF LatestIsActive, At
  <2>3. PastExecuted'
    <3>1. \A q \in Requests : At(q, "complete") => req[q].s \in DOMAIN sessions
      BY InFlight DEF At
    <3>2. \A s \in DOMAIN sessions : NotRun(s) = {} => NotRun(s)' = {}
      BY <1>6
    <3>. QED BY <1>1, <1>5, <2>1, <3>1, <3>2 DEF PastExecuted, Past, Seeding, At
  <2>4. \A u \in linked' : u \in linked /\ u \in Tests \ {t}
    BY <1>1 DEF SessionTypes
  <2>5. ScopeCovers'
    <3>. SUFFICES ASSUME NEW v \in Requests, At(v, "number") \/ At(v, "insert"), NEW u \in linked'
         PROVE  u \in req[v].scope \/ \E x \in Past : Clean(x, u)'
      BY <1>1, <1>5 DEF ScopeCovers, At
    <3>1. u \in req[v].scope \/ \E x \in Past : Clean(x, u)
      BY <2>1, <2>4 DEF ScopeCovers
    <3>. QED BY <1>6, <2>4, <3>1 DEF Past
  <2>6. AllTracked'
    <3>. SUFFICES ASSUME NEW s \in DOMAIN sessions, NEW u \in linked'
         PROVE  Tracked(s, u)'
      BY <1>4 DEF AllTracked
    <3>1. Tracked(s, u)
      BY <2>1, <2>4 DEF AllTracked
    <3>. QED BY <1>1, <1>4, <1>6, <2>4, <3>1 DEF Tracked, At
  <2>. QED BY <2>2, <2>3, <2>5, <2>6
<1>. QED BY <1>7, <1>8, <1>9, <1>10, <1>11, <1>12 DEF GaplessInv

-----------------------------------------------------------------------------
(* The theorems.                                                           *)

\* The first state has no sessions and no requests.
LEMMA InvInit == Init => Inv
<1>. SUFFICES ASSUME Init PROVE Inv
  OBVIOUS
<1>. USE DEF Init, Idle
<1>1. SessionTypes
  BY DEF SessionTypes, RequestType, Bound
<1>2. Active = {} /\ Past = {} /\ DOMAIN sessions = {} /\ \A q \in Requests : req[q].pc = "idle"
  BY DEF Active, Past
<1>3. OneActive /\ DeferralsFit /\ DeferralsOnRows /\ CompletesItself
  BY <1>2 DEF OneActive, DeferralsFit, DeferralsOnRows, CompletesItself, At
<1>4. LatestIsActive /\ PastExecuted /\ ScopeCovers /\ AllTracked
  BY <1>2 DEF LatestIsActive, PastExecuted, ScopeCovers, AllTracked, At
<1>. QED BY <1>1, <1>3, <1>4 DEF Inv, SessionsInv, GaplessInv

\* Every step keeps the invariant.
LEMMA InvStep == Inv /\ [Next]_vars => Inv'
<1>. SUFFICES ASSUME Inv, [Next]_vars PROVE Inv'
  OBVIOUS
<1>1. CASE UNCHANGED vars
  BY <1>1 DEF vars, Inv, SessionsInv, SessionTypes, Bound, OneActive, DeferralsFit, DeferralsOnRows, CompletesItself,
              GaplessInv, LatestIsActive, PastExecuted, ScopeCovers, AllTracked, Tracked, Past, Active, Latest,
              Result, Deferred, Rows, NotRun, Clean, Seeding, At
<1>2. ASSUME NEW q \in Requests, RequestDies(q)
      PROVE  Inv'
  BY <1>2, GiveUpStep DEF RequestDies, At, Finishing
<1>3. ASSUME NEW q \in Requests, Request(q)
      PROVE  Inv'
  BY <1>2, <1>3, CreateCheckStep, CreateLatestStep, CreateFailuresStep, CreateLinkedStep, CreateNumberStep, CreateInsertStep, CreateSeedStep,
     CheckStep, ReopenUpdateStep, ReopenResetStep, RecordRowStep, RecordCountStep, CompleteStep,
     AcceptWriteStep DEF Request
<1>. QED BY <1>1, <1>3, CompleteStep, UnacceptStep, LinkStep, DeleteTestStep DEF Next, ReleaseStep

\* One session of a release is in progress at most, however requests interleave.
THEOREM OneSessionInProgress == Spec => []OneActiveSession
<1>1. Inv => OneActiveSession
  <2>. SUFFICES ASSUME OneActive PROVE Cardinality(Active) <= 1
    BY DEF Inv, SessionsInv, OneActiveSession
  <2>1. CASE Active = {}
    BY <2>1, FS_EmptySet
  <2>2. CASE Active # {}
    <3>1. PICK s : Active = {s}
      BY <2>2 DEF OneActive
    <3>. QED BY <3>1, FS_Singleton
  <2>. QED BY <2>1, <2>2
<1>. QED BY <1>1, InvInit, InvStep, PTL DEF Spec

\* A deferral sits on the failure it was made for, unless a result raced it.
THEOREM DeferralsStayWithFailures == Spec => []DeferralsFit
<1>1. Inv => DeferralsFit
  BY DEF Inv, SessionsInv
<1>. QED BY <1>1, InvInit, InvStep, PTL DEF Spec

\* A session whose tests are all executed is in the hands of a request that completes
\* or resets it, unless such a request died or the last open test was deleted.
THEOREM ExecutedSessionsComplete == Spec => []CompletesItself
<1>1. Inv => CompletesItself
  BY DEF Inv, SessionsInv
<1>. QED BY <1>1, InvInit, InvStep, PTL DEF Spec

\* Without a gap the manual rule, read from the latest session alone, speaks for every
\* linked test.
THEOREM RuleSpeaksForAll == Spec => []RuleCoversLinkedTests
<1>1. Inv => RuleCoversLinkedTests
  <2>. SUFFICES ASSUME Inv, ManualMet, "gap" \notin holes, \A s \in DOMAIN sessions : ~Seeding(s),
                       NEW t \in linked
       PROVE  \E s \in DOMAIN sessions : Clean(s, t)
    BY DEF RuleCoversLinkedTests
  <2>1. Tracked(Latest, t) /\ Latest \in DOMAIN sessions
    BY DEF Inv, SessionsInv, SessionTypes, GaplessInv, AllTracked, ManualMet, Latest
  <2>2. t \in Rows(Latest) => Clean(Latest, t)
    BY DEF ManualMet, RowsClean
  <2>. QED BY <2>1, <2>2 DEF Tracked, Seeding
<1>. QED BY <1>1, InvInit, InvStep, PTL DEF Spec
=============================================================================
