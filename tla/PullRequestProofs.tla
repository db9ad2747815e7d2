------------------------- MODULE PullRequestProofs -------------------------
(***************************************************************************)
(* What Quarantine and PullRequest promise, proved for any number of       *)
(* tests, sweeps and uploads.                                              *)
(***************************************************************************)
EXTENDS PullRequest, TLAPS

\* Where a post is decides which variables it still has.
Ingested == [pc : {"evaluate", "insert", "lookup"}, titles : SUBSET Tests, failed : BOOLEAN,
             todo : SUBSET Tests, flaky : BOOLEAN]
LookedUp == [pc : {"status"}, titles : SUBSET Tests, failed : BOOLEAN, flaky : BOOLEAN,
             soft : BOOLEAN]
Posted == [pc : {"check", "find", "done"}, failed : BOOLEAN, soft : BOOLEAN]
Found == [pc : {"comment"}, failed : BOOLEAN, soft : BOOLEAN, found : Nat]
Post == [pc : {"idle"}] \cup Ingested \cup LookedUp \cup Posted \cup Found

\* The tests are quarantined, or were since the upload.
Covered(u, titles) == titles \subseteq Quarantined \cup removed[u]

\* The flaky tests of the upload are quarantined or still to be.
FlakyCovered(u) ==
  post[u].pc \in {"insert", "lookup"} =>
    /\ post[u].pc = "lookup" => post[u].todo = {}
    /\ post[u].flaky => post[u].titles # {} /\ Covered(u, post[u].titles \ post[u].todo)

\* What SoftenedRightly says of one upload.
Softened(u) ==
  post[u].pc = "status" =>
    /\ post[u].soft => post[u].titles # {} /\ Covered(u, post[u].titles)
    /\ post[u].flaky /\ removed[u] = {} => ~Red(u)

UploadInv(u) ==
  /\ post[u] \in Post
  /\ FlakyCovered(u)
 
  /\ Softened(u)

PostInv ==
  /\ post \in [Uploads -> Post]
  /\ \A u \in Uploads : UploadInv(u)

-----------------------------------------------------------------------------
(* The quarantine.                                                         *)

\* What was promised is a row that has not expired.
Standing == \A t \in Tests : promised[t] => row[t] \in {"never", "future"}

QuarantineInv == QuarantineTypeOK /\ Standing

\* The row of a test goes, which no sweep notices but in its dead ids.
LEMMA RemoveEffect ==
  ASSUME row \in [Tests -> Expiries \cup {NoRow}], NEW t \in Tests, NEW others,
         NEW swept \in [Sweepers -> [todo : SUBSET Tests, gone : SUBSET Tests, lifted : SUBSET Tests]],
         Remove(t, swept, others)
  PROVE  /\ row' \in [Tests -> Expiries \cup {NoRow}]
         /\ \A u \in Tests \ {t} : row'[u] = row[u]
         /\ sweep' \in [Sweepers -> [todo : SUBSET Tests, gone : SUBSET Tests, lifted : SUBSET Tests]]
<1>1. row' \in [Tests -> Expiries \cup {NoRow}] /\ \A u \in Tests \ {t} : row'[u] = row[u]
  BY DEF Remove
<1>2. ASSUME NEW s \in Sweepers
      PROVE  sweep'[s] \in [todo : SUBSET Tests, gone : SUBSET Tests, lifted : SUBSET Tests]
  <2>1. sweep'[s] = IF s \in others THEN [swept[s] EXCEPT !.gone = @ \cup ({t} \cap swept[s].todo)]
                    ELSE swept[s]
    BY DEF Remove
  <2>2. swept[s] \in [todo : SUBSET Tests, gone : SUBSET Tests, lifted : SUBSET Tests]
    OBVIOUS
  <2>. QED BY <2>1, <2>2
<1>3. sweep' \in [Sweepers -> [todo : SUBSET Tests, gone : SUBSET Tests, lifted : SUBSET Tests]]
  BY <1>2 DEF Remove
<1>. QED BY <1>1, <1>3

\* Requests, the clock and the auto-quarantine promise what they write.
LEMMA PeopleStep ==
  ASSUME QuarantineInv, People \/ \E t \in Tests : InsertAuto(t)
  PROVE  QuarantineInv'
<1>1. ASSUME NEW t \in Tests, Delete(t)
      PROVE  QuarantineInv'
  <2>1. /\ row' \in [Tests -> Expiries \cup {NoRow}]
        /\ \A u \in Tests \ {t} : row'[u] = row[u]
        /\ sweep' \in [Sweepers -> [todo : SUBSET Tests, gone : SUBSET Tests, lifted : SUBSET Tests]]
    BY <1>1, RemoveEffect DEF QuarantineInv, QuarantineTypeOK, Delete
  <2>2. promised' \in [Tests -> BOOLEAN] /\ ~promised'[t] /\ \A u \in Tests \ {t} : promised'[u] = promised[u]
    BY <1>1 DEF QuarantineInv, QuarantineTypeOK, Delete, Promise
  <2>. QED BY <2>1, <2>2 DEF QuarantineInv, QuarantineTypeOK, Standing
<1>2. ASSUME NEW t \in Tests, NEW e \in {"never", "future"}, Add(t, e)
      PROVE  QuarantineInv'
  BY <1>2 DEF QuarantineInv, QuarantineTypeOK, Standing, Add, Promise, Expiries
<1>3. ASSUME NEW t \in Tests, Expire(t)
      PROVE  QuarantineInv'
  BY <1>3 DEF QuarantineInv, QuarantineTypeOK, Standing, Expire, Promise, Expiries
<1>4. ASSUME NEW t \in Tests, InsertAuto(t)
      PROVE  QuarantineInv'
  <2>1. /\ row' \in [Tests -> Expiries \cup {NoRow}] /\ sweep' = sweep
        /\ row'[t] = IF row[t] = NoRow THEN "never" ELSE row[t]
        /\ \A u \in Tests \ {t} : row'[u] = row[u]
    BY <1>4 DEF QuarantineInv, QuarantineTypeOK, InsertAuto, Expiries
  <2>2. /\ promised' \in [Tests -> BOOLEAN]
        /\ promised'[t] => promised[t] \/ row[t] = NoRow
        /\ \A u \in Tests \ {t} : promised'[u] = promised[u]
    <3>1. promised[t] \in BOOLEAN /\ (promised[t] \/ row[t] = NoRow) \in BOOLEAN
      BY DEF QuarantineInv, QuarantineTypeOK
    <3>2. promised' = [promised EXCEPT ![t] = promised[t] \/ row[t] = NoRow]
      BY <1>4 DEF InsertAuto, Promise
    <3>. QED BY <3>1, <3>2 DEF QuarantineInv, QuarantineTypeOK
  <2>3. promised'[t] => row'[t] \in {"never", "future"}
    BY <2>1, <2>2 DEF QuarantineInv, Standing, NoRow
  <2>. QED BY <2>1, <2>2, <2>3 DEF QuarantineInv, QuarantineTypeOK, Standing
<1>. QED BY <1>1, <1>2, <1>3, <1>4 DEF People

\* A sweep lifts no row that was promised: what it lifts has expired.
LEMMA SweepStep ==
  ASSUME QuarantineInv, NEW s \in Sweepers, Sweep(s)
  PROVE  QuarantineInv'
<1>1. ASSUME NEW found \in SUBSET Tests, SelectExpired(s, found)
      PROVE  QuarantineInv'
  BY <1>1 DEF QuarantineInv, QuarantineTypeOK, Standing, SelectExpired
<1>2. ASSUME NEW t \in Tests, Lift(s, t)
      PROVE  QuarantineInv'
  <2>. DEFINE swept == [sweep EXCEPT ![s].todo = @ \ {t}, ![s].lifted = {t}]
  <2>1. swept \in [Sweepers -> [todo : SUBSET Tests, gone : SUBSET Tests, lifted : SUBSET Tests]]
    BY DEF QuarantineInv, QuarantineTypeOK
  <2>2. Remove(t, swept, Sweepers \ {s}) /\ promised' = promised
    BY <1>2 DEF Lift
  <2>3. ~promised[t]
    BY <1>2 DEF QuarantineInv, Standing, Lift, Liftable, Expired
  <2>. HIDE DEF swept
  <2>4. /\ row' \in [Tests -> Expiries \cup {NoRow}]
        /\ \A u \in Tests \ {t} : row'[u] = row[u]
        /\ sweep' \in [Sweepers -> [todo : SUBSET Tests, gone : SUBSET Tests, lifted : SUBSET Tests]]
    BY <2>1, <2>2, RemoveEffect DEF QuarantineInv, QuarantineTypeOK
  <2>. QED BY <2>2, <2>3, <2>4 DEF QuarantineInv, QuarantineTypeOK, Standing
<1>3. ASSUME NEW t \in Tests, Lost(s, t)
      PROVE  QuarantineInv'
  BY <1>3 DEF QuarantineInv, QuarantineTypeOK, Standing, Lost
<1>4. ASSUME Audit(s) \/ SweepFails(s)
      PROVE  QuarantineInv'
  BY <1>4 DEF QuarantineInv, QuarantineTypeOK, Standing, Audit, SweepFails, Idle
<1>. QED BY <1>1, <1>2, <1>3, <1>4 DEF Sweep

\* Any step of the composition keeps both.
LEMMA QuarantineStep ==
  ASSUME QuarantineInv, [Next]_vars
  PROVE  QuarantineInv'
<1>1. CASE UNCHANGED quarantine
  BY <1>1 DEF QuarantineInv, QuarantineTypeOK, Standing, quarantine
<1>2. CASE People \/ \E t \in Tests : InsertAuto(t)
  BY <1>2, PeopleStep
<1>3. CASE \E s \in Sweepers : Sweep(s)
  BY <1>3, SweepStep
<1>. QED
  <2>1. UNCHANGED vars => UNCHANGED quarantine
    BY DEF vars
  <2>2. ASSUME NEW u \in Uploads, Works(u)
        PROVE  UNCHANGED quarantine \/ \E t \in Tests : InsertAuto(t)
    BY <2>2 DEF Works, Commit, EvaluateAutoQuarantine, Quarantines, Evaluated, EvaluationFails, Lookup,
                PostCommitStatus, PostChecksAnnotations, FindNoPR, FindExistingComment, WriteComment
  <2>3. ASSUME NEW u \in Uploads, Fails(u)
        PROVE  UNCHANGED quarantine
    BY <2>3 DEF Fails, PostFails, FindFails, WriteFails
  <2>4. OpenPR => UNCHANGED quarantine
    BY DEF OpenPR
  <2>. QED BY <1>1, <1>2, <1>3, <2>1, <2>2, <2>3, <2>4 DEF Next, Around

\* Nothing is promised before the first row.
LEMMA QuarantineStart == Init => QuarantineInv
BY DEF Init, QuarantineInit, QuarantineInv, QuarantineTypeOK, Standing, Idle

\* The rows and the sweeps keep their types.
THEOREM QuarantineTypeCorrect == Spec => []QuarantineTypeOK
<1>1. QuarantineInv => QuarantineTypeOK
  BY DEF QuarantineInv
<1>. QED BY <1>1, QuarantineStart, QuarantineStep, PTL DEF Spec

\* A test that was quarantined for good or up to a moment still to come stays in
\* quarantine, whatever any number of sweeps still hold of an earlier one.
THEOREM QuarantineStandsUntilItEnds == Spec => []QuarantineStands
<1>1. QuarantineInv => QuarantineStands
  BY DEF QuarantineInv, Standing, QuarantineStands, Quarantined, NoRow
<1>. QED BY <1>1, QuarantineStart, QuarantineStep, PTL DEF Spec

-----------------------------------------------------------------------------
(* The posts.                                                              *)

\* A test stays covered: if its row goes, the ghost remembers it.
LEMMA CoverStays ==
  ASSUME NEW u \in Uploads, NEW ok, Watch(ok), post'[u].pc \in {"insert", "lookup", "status"}
  PROVE  /\ \A titles \in SUBSET post'[u].titles : Covered(u, titles) =>
              titles \subseteq Quarantined' \cup removed'[u]
         /\ removed'[u] = {} => removed[u] = {}
<1>1. removed'[u] = removed[u] \cup {t \in Quarantined \cap post'[u].titles : row'[t] = NoRow}
  BY DEF Watch
<1>. QED BY <1>1 DEF Covered, Quarantined

\* An upload whose own variables stay keeps its invariant.
LEMMA OthersStay ==
  ASSUME NEW u \in Uploads, UploadInv(u), post'[u] = post[u], NEW ok, Watch(ok)
  PROVE  UploadInv(u)'
<1>1. /\ (post[u] \in Post)'
      /\ post[u].pc \in {"evaluate", "insert", "lookup"} =>
           post[u].titles \in SUBSET Tests /\ post[u].todo \in SUBSET Tests
  BY DEF UploadInv, Post, Ingested, LookedUp, Posted, Found
<1>2. FlakyCovered(u)'
  BY <1>1, CoverStays DEF UploadInv, FlakyCovered, Covered
<1>3. Softened(u)'
  BY <1>1, CoverStays DEF UploadInv, Softened, Red, Covered
<1>. QED BY <1>1, <1>2, <1>3 DEF UploadInv

\* Steps before the lookup, except Quarantines, and steps that change no post.
LEMMA IngestStep ==
  ASSUME PostInv, NEW u \in Uploads, NEW ok, Watch(ok),
         \/ \E via \in {"json", "multipart"}, titles \in SUBSET Tests, failed \in BOOLEAN :
              Commit(u, via, titles, failed)
         \/ \E flaky \in SUBSET Tests : EvaluateAutoQuarantine(u, flaky)
         \/ EvaluationFails(u)
  PROVE  UploadInv(u)' /\ \A v \in Uploads \ {u} : post'[v] = post[v]
<1>1. ASSUME NEW via \in {"json", "multipart"}, NEW titles \in SUBSET Tests, NEW failed \in BOOLEAN,
             Commit(u, via, titles, failed)
      PROVE  UploadInv(u)' /\ \A v \in Uploads \ {u} : post'[v] = post[v]
  <2>1. /\ post'[u] = [pc |-> IF via = "json" THEN "evaluate" ELSE "lookup",
                       titles |-> IF failed THEN titles ELSE {},
                       failed |-> failed, todo |-> {}, flaky |-> FALSE]
        /\ \A v \in Uploads \ {u} : post'[v] = post[v]
    BY <1>1 DEF PostInv, Commit
  <2>. QED BY <2>1 DEF UploadInv, FlakyCovered, Softened, Red, Post, Ingested
<1>2. ASSUME NEW flaky \in SUBSET Tests, EvaluateAutoQuarantine(u, flaky)
      PROVE  UploadInv(u)' /\ \A v \in Uploads \ {u} : post'[v] = post[v]
  <2>1. /\ post[u] \in Ingested
        /\ post'[u] = [post[u] EXCEPT !.pc = "insert", !.todo = flaky,
                         !.flaky = post[u].titles # {} /\ post[u].titles \subseteq flaky]
        /\ \A v \in Uploads \ {u} : post'[v] = post[v]
    BY <1>2 DEF PostInv, UploadInv, EvaluateAutoQuarantine, At, Post, Ingested, LookedUp, Posted, Found
  <2>2. /\ post'[u] \in Ingested /\ post'[u].pc = "insert" /\ post'[u].todo = flaky
        /\ post'[u].titles = post[u].titles /\ post'[u].failed = post[u].failed
        /\ post'[u].flaky = (post[u].titles # {} /\ post[u].titles \subseteq flaky)
    BY <2>1 DEF Ingested
  <2>4. post[u].pc = "evaluate"
    BY <1>2 DEF EvaluateAutoQuarantine, At
  <2>5. post'[u].flaky => (post'[u].titles \ post'[u].todo) = {}
    BY <2>2
  <2>. QED BY <2>1, <2>2, <2>4, <2>5 DEF UploadInv, FlakyCovered, Covered, Softened, Red, Post
<1>3. ASSUME EvaluationFails(u)
      PROVE  UploadInv(u)' /\ \A v \in Uploads \ {u} : post'[v] = post[v]
  <2>1. /\ post[u] \in Ingested
        /\ post'[u] = [post[u] EXCEPT !.pc = "lookup", !.todo = {}, !.flaky = FALSE]
        /\ \A v \in Uploads \ {u} : post'[v] = post[v]
    BY <1>3 DEF PostInv, UploadInv, EvaluationFails, At, Post, Ingested, LookedUp, Posted, Found
  <2>2. /\ post'[u] \in Ingested /\ post'[u].pc = "lookup" /\ post'[u].todo = {} /\ ~post'[u].flaky
        /\ post'[u].titles = post[u].titles /\ post'[u].failed = post[u].failed
    BY <2>1 DEF Ingested
  <2>3. post[u].pc \in {"evaluate", "insert"}
    BY <1>3 DEF PostInv, UploadInv, EvaluationFails, At
  <2>. QED BY <2>1, <2>2, <2>3 DEF UploadInv, FlakyCovered, Softened, Red, Post
<1>. QED BY <1>1, <1>2, <1>3

\* A test leaves the list as its row is inserted; the list ends empty.
LEMMA InsertStep ==
  ASSUME PostInv, QuarantineTypeOK, NEW u \in Uploads, NEW ok, Watch(ok),
         (\E t \in Tests : Quarantines(u, t)) \/ Evaluated(u)
  PROVE  UploadInv(u)' /\ \A v \in Uploads \ {u} : post'[v] = post[v]
<1>1. post[u] \in Ingested /\ post[u].pc = "insert" /\ FlakyCovered(u)
  BY DEF PostInv, UploadInv, Quarantines, Evaluated, At, Post, Ingested, LookedUp, Posted, Found
<1>2. ASSUME NEW t \in Tests, Quarantines(u, t)
      PROVE  UploadInv(u)' /\ \A v \in Uploads \ {u} : post'[v] = post[v]
  <2>1. /\ post'[u] = [post[u] EXCEPT !.todo = @ \ {t}]
        /\ \A v \in Uploads \ {u} : post'[v] = post[v]
    BY <1>2 DEF PostInv, Quarantines
  <2>2. /\ post'[u] \in Ingested /\ post'[u].pc = "insert" /\ post'[u].todo = post[u].todo \ {t}
        /\ post'[u].titles = post[u].titles /\ post'[u].failed = post[u].failed
        /\ post'[u].flaky = post[u].flaky
    BY <1>1, <2>1 DEF Ingested
  <2>3. t \in Quarantined'
    BY <1>2 DEF QuarantineTypeOK, Quarantines, InsertAuto, Quarantined, Expiries, NoRow
  <2>4. post'[u].flaky => Covered(u, post[u].titles \ post[u].todo)
    BY <1>1, <2>2 DEF FlakyCovered
  <2>5. post'[u].flaky => (post[u].titles \ post[u].todo) \subseteq Quarantined' \cup removed'[u]
    BY <2>2, <2>4, CoverStays
  <2>6. post'[u].flaky => (post'[u].titles \ post'[u].todo) \subseteq Quarantined' \cup removed'[u]
    BY <2>2, <2>3, <2>5
  <2>7. FlakyCovered(u)'
    BY <1>1, <2>2, <2>6 DEF FlakyCovered, Covered
  <2>. QED BY <1>1, <2>1, <2>2, <2>7 DEF UploadInv, Softened, Red, Post
<1>3. ASSUME Evaluated(u)
      PROVE  UploadInv(u)' /\ \A v \in Uploads \ {u} : post'[v] = post[v]
  <2>1. /\ post'[u] = [post[u] EXCEPT !.pc = "lookup"] /\ post[u].todo = {}
        /\ \A v \in Uploads \ {u} : post'[v] = post[v]
    BY <1>3 DEF PostInv, Evaluated, Goto
  <2>2. /\ post'[u] \in Ingested /\ post'[u].pc = "lookup" /\ post'[u].todo = post[u].todo
        /\ post'[u].titles = post[u].titles /\ post'[u].failed = post[u].failed
        /\ post'[u].flaky = post[u].flaky
    BY <1>1, <2>1 DEF Ingested
  <2>3. post'[u].flaky => Covered(u, post[u].titles \ post[u].todo)
    BY <1>1, <2>2 DEF FlakyCovered
  <2>4. post'[u].flaky => (post'[u].titles \ post'[u].todo) \subseteq Quarantined' \cup removed'[u]
    BY <2>2, <2>3, CoverStays
  <2>5. FlakyCovered(u)'
    BY <1>1, <2>1, <2>2, <2>4 DEF FlakyCovered, Covered
  <2>. QED BY <1>1, <2>1, <2>2, <2>5 DEF UploadInv, Softened, Red, Post
<1>. QED BY <1>2, <1>3

\* The lookup softens what is quarantined when it reads, and of that what its own
\* evaluation found flaky and nobody removed.
LEMMA LookupStep ==
  ASSUME PostInv, NEW u \in Uploads, NEW ok, Watch(ok), NEW looked \in BOOLEAN, Lookup(u, looked)
  PROVE  UploadInv(u)' /\ \A v \in Uploads \ {u} : post'[v] = post[v]
<1>1. post[u] \in Ingested /\ post[u].pc = "lookup" /\ FlakyCovered(u)
  BY DEF PostInv, UploadInv, Lookup, At, Post, Ingested, LookedUp, Posted, Found
<1>2. /\ post'[u] = [pc |-> "status", titles |-> post[u].titles, failed |-> post[u].failed,
                     flaky |-> post[u].flaky /\ looked,
                     soft |-> looked /\ post[u].failed /\ ComputeAllFailuresQuarantined(post[u].titles)]
      /\ UNCHANGED quarantine
      /\ \A v \in Uploads \ {u} : post'[v] = post[v]
  BY DEF PostInv, Lookup
<1>3. /\ post'[u].pc = "status" /\ post'[u].titles = post[u].titles
      /\ post'[u].flaky = (post[u].flaky /\ looked)
      /\ post'[u].soft = (looked /\ post[u].failed /\ ComputeAllFailuresQuarantined(post[u].titles))
  BY <1>2
<1>4. post'[u] \in LookedUp
  BY <1>1, <1>2 DEF Ingested, LookedUp, ComputeAllFailuresQuarantined
<1>5. Quarantined' = Quarantined
  BY <1>2 DEF quarantine, Quarantined
<1>6. post'[u].soft => post'[u].titles # {} /\ post'[u].titles \subseteq Quarantined' \cup removed'[u]
  BY <1>3, <1>5 DEF ComputeAllFailuresQuarantined
<1>7. ASSUME post'[u].flaky, removed'[u] = {}
      PROVE  ~Red(u)'
  <2>1. post[u].flaky /\ looked /\ removed[u] = {}
    BY <1>3, <1>7, CoverStays
  <2>2. post[u].titles # {} /\ post[u].titles \subseteq Quarantined
    BY <1>1, <2>1 DEF FlakyCovered, Covered
  <2>3. post'[u].failed = post[u].failed
    BY <1>2
  <2>. QED BY <1>3, <2>1, <2>2, <2>3 DEF ComputeAllFailuresQuarantined, Red
<1>. QED BY <1>2, <1>3, <1>4, <1>6, <1>7 DEF UploadInv, FlakyCovered, Softened, Red, Covered, Post

\* Behind the status the invariant says no more than the types.
LEMMA SurfaceStep ==
  ASSUME PostInv, NEW u \in Uploads,
         \/ PostCommitStatus(u) \/ PostChecksAnnotations(u) \/ PostFails(u)
         \/ FindNoPR(u) \/ (\E i \in 0..Len(comments) : FindExistingComment(u, i)) \/ FindFails(u)
         \/ WriteComment(u) \/ WriteFails(u)
  PROVE  UploadInv(u)' /\ \A v \in Uploads \ {u} : post'[v] = post[v]
<1>1. post[u] \in LookedUp \cup Posted \cup Found
  BY DEF PostInv, UploadInv, PostCommitStatus, PostChecksAnnotations, PostFails, FindNoPR, FindExistingComment,
         FindFails, WriteComment, WriteFails, At, Post, Ingested
<1>2. post[u].failed \in BOOLEAN /\ post[u].soft \in BOOLEAN
  BY <1>1 DEF LookedUp, Posted, Found
<1>3. ASSUME NEW pc \in {"check", "done"}, Verdict(u, pc)
      PROVE  post'[u] \in Posted /\ \A v \in Uploads \ {u} : post'[v] = post[v]
  BY <1>2, <1>3 DEF PostInv, Verdict, Posted
<1>4. ASSUME NEW pc \in {"find", "done"}, Goto(u, pc), At(u, "check") \/ At(u, "find")
      PROVE  post'[u] \in Posted /\ \A v \in Uploads \ {u} : post'[v] = post[v]
  <2>1. post[u] \in Posted
    BY <1>1, <1>4 DEF At, LookedUp, Posted, Found
  <2>. QED BY <1>4, <2>1 DEF PostInv, Goto, Posted
<1>5. ASSUME NEW i \in 0..Len(comments), Finds(u, i)
      PROVE  post'[u] \in Found /\ \A v \in Uploads \ {u} : post'[v] = post[v]
  <2>1. i \in Nat
    OBVIOUS
  <2>. QED BY <1>2, <1>5, <2>1 DEF PostInv, Finds, Found
<1>6. post'[u] \in Posted \cup Found /\ \A v \in Uploads \ {u} : post'[v] = post[v]
  <2>1. CASE PostCommitStatus(u) \/ WriteComment(u) \/ WriteFails(u)
    BY <1>3, <2>1 DEF PostCommitStatus, WriteComment, WriteFails
  <2>2. CASE PostChecksAnnotations(u) \/ FindNoPR(u)
    BY <1>4, <2>2 DEF PostChecksAnnotations, FindNoPR
  <2>3. CASE PostFails(u)
    BY <1>3, <1>4, <2>3 DEF PostFails
  <2>4. CASE \E i \in 0..Len(comments) : FindExistingComment(u, i)
    BY <1>5, <2>4 DEF FindExistingComment
  <2>5. CASE FindFails(u)
    <3>1. ASSUME Finds(u, 0)
          PROVE  post'[u] \in Found /\ \A v \in Uploads \ {u} : post'[v] = post[v]
      BY <1>2, <3>1 DEF PostInv, Finds, Found
    <3>. QED BY <1>3, <2>5, <3>1 DEF FindFails
  <2>. QED BY <2>1, <2>2, <2>3, <2>4, <2>5
<1>. QED BY <1>6 DEF UploadInv, FlakyCovered, Softened, Red, Post, Posted, Found

\* The step of one upload leaves the variables of the others alone.
LEMMA OneUpload ==
  ASSUME PostInv, NEW u \in Uploads, NEW ok, Watch(ok), UploadInv(u)',
         \A v \in Uploads \ {u} : post'[v] = post[v],
         DOMAIN post' = Uploads, post' = [v \in DOMAIN post' |-> post'[v]]
  PROVE  PostInv'
<1>1. \A v \in Uploads : UploadInv(v)'
  BY OthersStay DEF PostInv
<1>. QED BY <1>1 DEF PostInv, UploadInv

\* Every step of an upload assigns its variables and no other's.
LEMMA PostFunction ==
  ASSUME PostInv, NEW u \in Uploads, Works(u) \/ Fails(u)
  PROVE  DOMAIN post' = Uploads /\ post' = [v \in DOMAIN post' |-> post'[v]]
BY DEF PostInv, Works, Fails, Commit, EvaluateAutoQuarantine, Quarantines, Evaluated, EvaluationFails, Lookup,
       PostCommitStatus, PostChecksAnnotations, FindNoPR, FindExistingComment, WriteComment,
       PostFails, FindFails, WriteFails, Goto, Verdict, Finds

\* Every step keeps the invariant of the posts.
LEMMA PostStep ==
  ASSUME PostInv, QuarantineTypeOK, [Next]_vars
  PROVE  PostInv'
<1>1. CASE UNCHANGED vars
  BY <1>1 DEF vars, quarantine, PostInv, UploadInv, FlakyCovered, Softened, Red, Covered, Quarantined
<1>2. ASSUME NEW u \in Uploads, Works(u), Watch(TRUE)
      PROVE  PostInv'
  <2>1. UploadInv(u)' /\ \A v \in Uploads \ {u} : post'[v] = post[v]
    BY <1>2, IngestStep, InsertStep, LookupStep, SurfaceStep DEF Works
  <2>. QED BY <1>2, <2>1, OneUpload, PostFunction
<1>3. ASSUME NEW u \in Uploads, Fails(u), Watch(FALSE)
      PROVE  PostInv'
  <2>1. UploadInv(u)' /\ \A v \in Uploads \ {u} : post'[v] = post[v]
    BY <1>3, SurfaceStep DEF Fails
  <2>. QED BY <1>3, <2>1, OneUpload, PostFunction
<1>4. CASE (Around \/ OpenPR) /\ Watch(TRUE)
  <2>1. post' = post
    BY <1>4 DEF Around, OpenPR
  <2>2. \A u \in Uploads : UploadInv(u)'
    BY <1>4, <2>1, OthersStay DEF PostInv
  <2>. QED BY <2>1, <2>2 DEF PostInv
<1>. QED BY <1>1, <1>2, <1>3, <1>4 DEF Next

\* A red run is let through only on failures that were quarantined, and the upload's
\* own evaluation is in time for its post.
THEOREM SoftensRightly == Spec => []SoftenedRightly
<1>1. Init => PostInv
  BY DEF Init, PostInv, UploadInv, FlakyCovered, Softened, Red, Post
<1>2. PostInv => SoftenedRightly
  BY DEF PostInv, UploadInv, Softened, Covered, SoftenedRightly, At
<1>. QED BY <1>1, <1>2, PostStep, QuarantineTypeCorrect, PTL DEF Spec

-----------------------------------------------------------------------------
(* What the posts leave.                                                   *)

\* The comment that a post has found is the only one, or there is none.
CommentFound(u) ==
  /\ pr
  /\ \/ post[u].found = 0 /\ comments = <<>>
     \/ post[u].found = 1 /\ \E v \in Uploads : comments = <<v>>

\* As far as its post has come, an upload shows on every surface.
Shown(u) ==
  /\ post[u].pc \in {"check", "find", "comment", "done"} =>
       status = [by |-> u, state |-> IF Red(u) THEN "failure" ELSE "success"]
  /\ post[u].pc \in {"find", "comment", "done"} =>
       (Annotates => check.by = u /\ (check.state = "failure" <=> Red(u)))
  /\ post[u].pc = "comment" => CommentFound(u)
  /\ post[u].pc = "done" => comments \in {<<>>, <<u>>}

\* As long as posts neither overlap nor fail, the one that began last is the only
\* one that is under way.
SurfaceInv ==
  /\ last \in Uploads \cup {NoUpload}
  /\ clean =>
       /\ \A u \in Uploads : post[u].pc \in Posting => u = last
       /\ pr \/ comments = <<>>
       /\ comments = <<>> \/ \E v \in Uploads : comments = <<v>>
       /\ last \in Uploads => Shown(last)

\* What the ghosts say after a step.
LEMMA Watched ==
  ASSUME last \in Uploads \cup {NoUpload}, NEW ok, Watch(ok)
  PROVE  /\ last' \in Uploads \cup {NoUpload}
         /\ (\A u \in Uploads : ~Begins(u)) => last' = last
         /\ \A u \in Uploads : Begins(u) /\ (\A v \in Uploads : Begins(v) => v = u) => last' = u
         /\ clean' => /\ clean /\ ok
                      /\ \A u, v \in Uploads :
                           post'[u].pc \in Posting /\ post'[v].pc \in Posting => u = v
<1>1. last' \in IF \E u \in Uploads : Begins(u) THEN {u \in Uploads : Begins(u)} ELSE {last}
  BY DEF Watch
<1>2. clean' => clean /\ ok /\ ~Overlap
  BY DEF Watch
<1>. QED BY <1>1, <1>2 DEF Overlap

\* An upload that is not posting has nothing to show.
LEMMA NotPosting ==
  ASSUME NEW u, post[u].pc \in {"idle", "evaluate", "insert", "lookup", "status"}
  PROVE  Shown(u)
BY DEF Shown

\* What a post shows depends on its own variables and on the surfaces.
LEMMA ShownStays ==
  ASSUME NEW u, Shown(u), UNCHANGED <<status, check, pr, comments>>, post'[u] = post[u]
  PROVE  Shown(u)'
BY DEF Shown, CommentFound, Red

\* One comment is created or replaced, never a second one.
LEMMA OneCommentWritten ==
  ASSUME NEW u \in Uploads, CommentFound(u), WriteComment(u)
  PROVE  comments' = <<u>>
<1>1. CASE post[u].found = 0 /\ comments = <<>>
  BY <1>1 DEF WriteComment, Written
<1>2. CASE post[u].found = 1 /\ \E v \in Uploads : comments = <<v>>
  BY <1>2 DEF WriteComment, Written
<1>. QED BY <1>1, <1>2 DEF CommentFound

\* Before it posts an upload touches no surface, and the lookup begins the post.
LEMMA BeforeThePost ==
  ASSUME PostInv, SurfaceInv, NEW u \in Uploads, Watch(TRUE),
         \/ \E via \in {"json", "multipart"}, titles \in SUBSET Tests, failed \in BOOLEAN :
              Commit(u, via, titles, failed)
         \/ \E flaky \in SUBSET Tests : EvaluateAutoQuarantine(u, flaky)
         \/ \E t \in Tests : Quarantines(u, t)
         \/ Evaluated(u) \/ EvaluationFails(u)
         \/ \E looked \in BOOLEAN : Lookup(u, looked)
  PROVE  SurfaceInv'
<1>1. UNCHANGED surfaces /\ \A v \in Uploads \ {u} : post'[v] = post[v]
  BY DEF PostInv, Commit, EvaluateAutoQuarantine, Quarantines, Evaluated, EvaluationFails, Lookup, Goto
<1>2. UNCHANGED <<status, check, pr, comments>>
  BY <1>1 DEF surfaces
<1>3. \/ post[u].pc # "lookup" /\ post'[u].pc \in {"evaluate", "insert", "lookup"}
      \/ post[u].pc = "lookup" /\ post'[u].pc = "status"
  <2>1. ASSUME NEW pc, Goto(u, pc), post[u].pc = "insert" PROVE post'[u].pc = pc
    <3>1. post[u] \in Ingested
      BY <2>1 DEF PostInv, UploadInv, Post, Ingested, LookedUp, Posted, Found
    <3>. QED BY <2>1, <3>1 DEF PostInv, Goto, Ingested
  <2>2. ASSUME NEW via \in {"json", "multipart"}, NEW titles, NEW failed, Commit(u, via, titles, failed)
        PROVE  post[u].pc = "idle" /\ post'[u].pc \in {"evaluate", "lookup"}
    BY <2>2 DEF PostInv, Commit, At
  <2>3. ASSUME post[u].pc \in {"evaluate", "insert"} PROVE post[u] \in Ingested
    BY <2>3 DEF PostInv, UploadInv, Post, Ingested, LookedUp, Posted, Found
  <2>4. ASSUME NEW flaky, EvaluateAutoQuarantine(u, flaky)
        PROVE  post[u].pc = "evaluate" /\ post'[u].pc = "insert"
    BY <2>3, <2>4 DEF PostInv, EvaluateAutoQuarantine, At, Ingested
  <2>5. ASSUME NEW t, Quarantines(u, t) PROVE post[u].pc = "insert" /\ post'[u].pc = "insert"
    BY <2>3, <2>5 DEF PostInv, Quarantines, At, Ingested
  <2>6. ASSUME EvaluationFails(u)
        PROVE  post[u].pc \in {"evaluate", "insert"} /\ post'[u].pc = "lookup"
    BY <2>3, <2>6 DEF PostInv, EvaluationFails, At, Ingested
  <2>7. ASSUME NEW looked, Lookup(u, looked) PROVE post[u].pc = "lookup" /\ post'[u].pc = "status"
    BY <2>7 DEF PostInv, Lookup, At
  <2>8. Evaluated(u) => post[u].pc = "insert" /\ post'[u].pc = "lookup"
    BY <2>1 DEF Evaluated, At
  <2>. QED BY <2>2, <2>4, <2>5, <2>6, <2>7, <2>8
<1>4. \A v \in Uploads : Begins(v) <=> v = u /\ post'[u].pc = "status"
  BY <1>1, <1>3 DEF Begins, At
<1>5. last \in Uploads \cup {NoUpload}
  BY DEF SurfaceInv
<1>6. CASE post'[u].pc = "status"
  <2>1. last' = u
    BY <1>4, <1>5, <1>6, Watched
  <2>2. Shown(u)'
    BY <1>6 DEF Shown
  <2>3. clean' => \A v \in Uploads : post'[v].pc \in Posting => v = u
    BY <1>5, <1>6, Watched DEF Posting
  <2>4. clean' => clean
    BY <1>5, Watched
  <2>. QED BY <1>2, <2>1, <2>2, <2>3, <2>4 DEF SurfaceInv
<1>7. CASE post'[u].pc # "status"
  <2>1. last' = last /\ (clean' => clean)
    BY <1>4, <1>5, <1>7, Watched
  <2>2. ASSUME clean, last \in Uploads PROVE Shown(last)'
    <3>1. PICK v \in Uploads : v = last
      BY <2>2
    <3>2. CASE v = u
      <4>1. Shown(v)'
        BY <1>3, <1>7, <3>2 DEF Shown
      <4>. QED BY <2>1, <3>1, <4>1
    <3>3. CASE v # u
      <4>1. Shown(v)'
        BY <1>1, <1>2, <2>2, <3>1, <3>3, ShownStays DEF SurfaceInv
      <4>. QED BY <2>1, <3>1, <4>1
    <3>. QED BY <3>2, <3>3
  <2>3. ASSUME clean, NEW v \in Uploads, post'[v].pc \in Posting PROVE v = last
    BY <1>1, <1>3, <1>7, <2>3 DEF SurfaceInv, Posting
  <2>. QED BY <1>2, <1>5, <2>1, <2>2, <2>3 DEF SurfaceInv
<1>. QED BY <1>6, <1>7

\* A post goes on: its outcome stays, and its place says what it has left.
LEMMA PostGoesOn ==
  ASSUME PostInv, NEW u \in Uploads, NEW pc \in {"check", "find", "done"},
         \/ Verdict(u, pc) /\ post[u].pc \in {"status", "comment"}
         \/ Goto(u, pc) /\ post[u].pc \in {"check", "find"}
  PROVE  /\ post'[u].pc = pc /\ (Red(u)' <=> Red(u))
         /\ \A v \in Uploads \ {u} : post'[v] = post[v]
<1>1. CASE Verdict(u, pc)
  <2>1. post' = [post EXCEPT ![u] = [pc |-> pc, failed |-> post[u].failed, soft |-> post[u].soft]]
    BY <1>1 DEF Verdict
  <2>. QED BY <2>1 DEF PostInv, Red
<1>2. CASE Goto(u, pc) /\ post[u].pc \in {"check", "find"}
  <2>1. post[u] \in Posted
    BY <1>2 DEF PostInv, UploadInv, Post, Ingested, LookedUp, Posted, Found
  <2>. QED BY <1>2, <2>1 DEF PostInv, Goto, Posted, Red
<1>. QED BY <1>1, <1>2

\* What the one upload that is posting leaves on the surfaces.
LEMMA PostShows ==
  ASSUME PostInv, NEW u \in Uploads, Shown(u), pr \/ comments = <<>>,
         comments = <<>> \/ \E v \in Uploads : comments = <<v>>,
         \/ PostCommitStatus(u) \/ PostChecksAnnotations(u) \/ FindNoPR(u)
         \/ (\E i \in 0..Len(comments) : FindExistingComment(u, i)) \/ WriteComment(u)
  PROVE  /\ Shown(u)' /\ post[u].pc \in Posting
         /\ pr' = pr /\ (pr \/ comments' = <<>>)
         /\ comments' = <<>> \/ \E v \in Uploads : comments' = <<v>>
         /\ \A v \in Uploads \ {u} : post'[v] = post[v]
<1>1. CASE PostCommitStatus(u)
  <2>1. /\ post[u].pc = "status" /\ post'[u].pc = "check" /\ (Red(u)' <=> Red(u))
        /\ \A v \in Uploads \ {u} : post'[v] = post[v]
    BY <1>1, PostGoesOn DEF PostCommitStatus, At
  <2>2. status' = [by |-> u, state |-> IF Red(u)' THEN "failure" ELSE "success"]
    BY <1>1, <2>1 DEF PostCommitStatus, CommitStatus
  <2>3. Shown(u)'
    BY <2>1, <2>2 DEF Shown
  <2>. QED BY <1>1, <2>1, <2>3 DEF PostCommitStatus, Posting
<1>2. CASE PostChecksAnnotations(u)
  <2>1. /\ post[u].pc = "check" /\ post'[u].pc = "find" /\ (Red(u)' <=> Red(u))
        /\ \A v \in Uploads \ {u} : post'[v] = post[v]
    BY <1>2, PostGoesOn DEF PostChecksAnnotations, At
  <2>2. ASSUME Annotates PROVE check'.by = u /\ (check'.state = "failure" <=> Red(u))
    <3>1. check' = [by |-> u, state |-> CASE post[u].soft -> "neutral" [] Red(u) -> "failure" [] OTHER -> "success"]
      BY <1>2, <2>2 DEF PostChecksAnnotations, CheckRun
    <3>2. CASE post[u].soft
      <4>1. ~Red(u)
        BY <3>2 DEF Red
      <4>2. check' = [by |-> u, state |-> "neutral"]
        BY <3>1, <3>2, <4>1
      <4>. QED BY <4>1, <4>2
    <3>3. CASE ~post[u].soft
      <4>1. check' = [by |-> u, state |-> IF Red(u) THEN "failure" ELSE "success"]
        BY <3>1, <3>3
      <4>. QED BY <4>1
    <3>. QED BY <3>2, <3>3
  <2>3. status' = [by |-> u, state |-> IF Red(u)' THEN "failure" ELSE "success"]
    BY <1>2, <2>1 DEF PostChecksAnnotations, Shown
  <2>4. Shown(u)'
    BY <2>1, <2>2, <2>3 DEF Shown
  <2>. QED BY <1>2, <2>1, <2>4 DEF PostChecksAnnotations, Posting
<1>3. CASE FindNoPR(u)
  <2>1. /\ post[u].pc = "find" /\ post'[u].pc = "done" /\ (Red(u)' <=> Red(u)) /\ comments = <<>>
        /\ \A v \in Uploads \ {u} : post'[v] = post[v]
        /\ UNCHANGED <<status, check, pr, comments>>
    BY <1>3, PostGoesOn DEF FindNoPR, At, surfaces
  <2>2. Shown(u)'
    BY <2>1 DEF Shown
  <2>. QED BY <2>1, <2>2 DEF Posting
<1>4. ASSUME NEW i \in 0..Len(comments), FindExistingComment(u, i)
      PROVE  /\ Shown(u)' /\ post[u].pc \in Posting
             /\ UNCHANGED <<pr, comments>>
             /\ \A v \in Uploads \ {u} : post'[v] = post[v]
  <2>1. /\ post'[u] = [pc |-> "comment", failed |-> post[u].failed, soft |-> post[u].soft, found |-> i]
        /\ post[u].pc = "find" /\ pr
        /\ \A v \in Uploads \ {u} : post'[v] = post[v]
        /\ UNCHANGED <<status, check, pr, comments>>
    BY <1>4 DEF PostInv, FindExistingComment, Finds, At, surfaces
  <2>2. post'[u].pc = "comment" /\ post'[u].found = i /\ (Red(u)' <=> Red(u))
    BY <2>1 DEF Red
  <2>3. \/ i = 0 /\ comments = <<>>
        \/ i = 1 /\ \E v \in Uploads : comments = <<v>>
    BY <1>4 DEF FindExistingComment
  <2>4. CommentFound(u)'
    BY <2>1, <2>2, <2>3 DEF CommentFound
  <2>5. Shown(u)'
    BY <2>1, <2>2, <2>4 DEF Shown
  <2>. QED BY <2>1, <2>5 DEF Posting
<1>5. CASE WriteComment(u)
  <2>1. /\ post[u].pc = "comment" /\ post'[u].pc = "done" /\ (Red(u)' <=> Red(u))
        /\ \A v \in Uploads \ {u} : post'[v] = post[v]
        /\ UNCHANGED <<status, check, pr>>
    BY <1>5, PostGoesOn DEF WriteComment, At
  <2>2. CommentFound(u) /\ comments' = <<u>>
    BY <1>5, <2>1, OneCommentWritten DEF Shown
  <2>3. Shown(u)'
    BY <2>1, <2>2 DEF Shown
  <2>. QED BY <2>1, <2>2, <2>3 DEF Posting, CommentFound
<1>. QED BY <1>1, <1>2, <1>3, <1>4, <1>5

\* Every step keeps what is said of the surfaces.
LEMMA SurfacesStay ==
  ASSUME PostInv, SurfaceInv, [Next]_vars
  PROVE  SurfaceInv'
<1>0. last \in Uploads \cup {NoUpload}
  BY DEF SurfaceInv
<1>1. CASE UNCHANGED vars
  BY <1>1 DEF vars, surfaces, SurfaceInv, Shown, CommentFound, Red
<1>2. CASE (Around \/ OpenPR) /\ Watch(TRUE)
  <2>1. post' = post /\ UNCHANGED <<status, check, comments>> /\ (pr => pr')
    BY <1>2 DEF Around, OpenPR, surfaces
  <2>2. \A u \in Uploads : ~Begins(u)
    BY <2>1 DEF Begins, At
  <2>3. last' = last /\ (clean' => clean) /\ last' \in Uploads \cup {NoUpload}
    BY <1>0, <1>2, <2>2, Watched
  <2>4. ASSUME NEW u \in Uploads, Shown(u) PROVE Shown(u)'
    BY <2>1, <2>4 DEF Shown, CommentFound, Red
  <2>5. last \in Uploads /\ Shown(last) => Shown(last)'
    <3>1. ASSUME NEW u \in Uploads, u = last, Shown(u) PROVE Shown(last)'
      BY <2>3, <2>4, <3>1
    <3>. QED BY <3>1
  <2>. QED BY <2>1, <2>3, <2>5 DEF SurfaceInv
<1>3. ASSUME NEW u \in Uploads, Fails(u), Watch(FALSE)
      PROVE  SurfaceInv'
  BY <1>0, <1>3, Watched DEF SurfaceInv
<1>4. ASSUME NEW u \in Uploads, Works(u), Watch(TRUE)
      PROVE  SurfaceInv'
  <2>1. CASE ~( \/ PostCommitStatus(u) \/ PostChecksAnnotations(u) \/ FindNoPR(u)
                \/ (\E i \in 0..Len(comments) : FindExistingComment(u, i)) \/ WriteComment(u) )
    BY <1>4, <2>1, BeforeThePost DEF Works
  <2>2. CASE \/ PostCommitStatus(u) \/ PostChecksAnnotations(u) \/ FindNoPR(u)
             \/ (\E i \in 0..Len(comments) : FindExistingComment(u, i)) \/ WriteComment(u)
    <3>1. post[u].pc \in Posting /\ post[u].pc # "lookup"
      BY <2>2 DEF PostCommitStatus, PostChecksAnnotations, FindNoPR, FindExistingComment, WriteComment, At,
                  Posting
    <3>2. \A v \in Uploads \ {u} : post'[v] = post[v]
      BY <2>2 DEF PostInv, PostCommitStatus, PostChecksAnnotations, FindNoPR, FindExistingComment, WriteComment,
                  Verdict, Goto, Finds
    <3>3. \A v \in Uploads : ~Begins(v)
      BY <3>1, <3>2 DEF Begins, At
    <3>4. last' = last /\ (clean' => clean)
      BY <1>0, <1>4, <3>3, Watched
    <3>5. ASSUME clean PROVE SurfaceInv'
      <4>1. u = last /\ Shown(u)
        BY <3>1, <3>5 DEF SurfaceInv
      <4>2. /\ Shown(u)' /\ pr' = pr /\ (pr \/ comments' = <<>>)
            /\ comments' = <<>> \/ \E v \in Uploads : comments' = <<v>>
        BY <2>2, <3>5, <4>1, PostShows DEF SurfaceInv
      <4>3. Shown(last)'
        BY <3>4, <4>1, <4>2
      <4>4. \A v \in Uploads : post'[v].pc \in Posting => v = last
        BY <3>2, <3>5, <4>1 DEF SurfaceInv
      <4>. QED BY <1>0, <3>4, <4>2, <4>3, <4>4 DEF SurfaceInv
    <3>. QED BY <1>0, <3>4, <3>5 DEF SurfaceInv
  <2>. QED BY <2>1, <2>2
<1>. QED BY <1>1, <1>2, <1>3, <1>4 DEF Next

\* Posts that do not overlap and whose calls succeed leave one status, one check run
\* and at most one comment, all of the last upload, however many uploads there were.
THEOREM LastUploadShown == Spec => []SurfacesOfTheLast
<1>1. Init => PostInv /\ SurfaceInv
  BY DEF Init, PostInv, UploadInv, FlakyCovered, Softened, Red, Post, SurfaceInv, Shown, Posting
<1>2. SurfaceInv => SurfacesOfTheLast
  BY DEF SurfaceInv, Shown, SurfacesOfTheLast, CommitStatus, At
<1>. QED BY <1>1, <1>2, PostStep, SurfacesStay, QuarantineTypeCorrect, PTL DEF Spec
=============================================================================
