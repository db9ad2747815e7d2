---------------------------- MODULE LiveIngest ----------------------------
(***************************************************************************)
(* Live ingest of one run: the routes and timers of                        *)
(* backend/src/routes/live.ts and the in-memory bus of live-events.ts, in  *)
(* any number of server tasks over one database.                           *)
(*                                                                         *)
(* Reporters POST batches of events, the next without waiting for the one  *)
(* before.  A POST is acknowledged before it is processed: its events wait *)
(* on the run's promise chain, and an abort waits there too.  Every        *)
(* database statement is an action, so is every synchronous stretch of a   *)
(* handler.  The bus of a task is a record of what live-events.ts holds    *)
(* for the run.                                                            *)
(*                                                                         *)
(* The run has one spec file; error texts, durations, screenshots and the  *)
(* aggregate columns of runs and specs are left out.  Time is an age that  *)
(* TimePasses advances: a run is stale at StaleAge, and at IdleAge the     *)
(* emitter timer of live-events.ts fires.                                  *)
(***************************************************************************)
EXTENDS Integers, Sequences, SequencesExt, FiniteSets

CONSTANTS
  Tasks,       \* server processes
  NoTask,      \* no process
  Clients,     \* reporters (shards) of the run
  Script,      \* Script[c]: the batches client c sends, in order
  Sockets,     \* bound: POSTs a reporter may have under way at once
  StaleAge,    \* STALE_INACTIVITY_MS, in steps of TimePasses
  IdleAge,     \* the 30 minutes of resetTimeout
  Uploads,     \* whether the end-of-run upload happens
  Deletes,     \* whether the run may be deleted
  Watches,     \* whether a dashboard may open the run's stream
  MaxStarts, MaxAborts, MaxBeats, MaxRetries,   \* bounds
  MaxFailures  \* bound: crashes and failed statements together

ASSUME TaskAssumption == NoTask \notin Tasks
ASSUME AgeAssumption == StaleAge \in Nat \ {0} /\ IdleAge \in Nat \ {0}
ASSUME BoundAssumption ==
  MaxStarts \in Nat /\ MaxAborts \in Nat /\ MaxBeats \in Nat /\ MaxRetries \in Nat /\ MaxFailures \in Nat

\* A batch has events (an empty one is a heartbeat), an event has its sender and
\* its place in the script.
ASSUME ScriptAssumption ==
  /\ NoTask \notin Clients
  /\ DOMAIN Script = Clients
  /\ \A c \in Clients :
       /\ Script[c] \in Seq(Seq([type : STRING, test : STRING, by : {c}, n : Nat]) \ {<<>>})
       /\ \A i, j \in DOMAIN Script[c] : \A k \in DOMAIN Script[c][i], m \in DOMAIN Script[c][j] :
            i < j \/ (i = j /\ k < m) => Script[c][i][k].n < Script[c][j][m].n

VARIABLES
  run,       \* the row of runs, and two facts about its past
  rows,      \* rows[t][s]: number of rows of test t with status s in tests
  history,   \* live_events of the run in id order
  sse,       \* the events some bus has emitted
  bus,       \* bus[p]: what task p's LiveEventBus knows of the run
  chain,     \* chain[p]: runEventChain, and the chain forgetLiveRun let go of
  post,      \* post[c]: the reporter's next batch and its POSTs under way
  server,    \* server[p]: handlers of task p stopped at an await
  used       \* how much of each bound has been used

vars == <<run, rows, history, sse, bus, chain, post, server, used>>

-----------------------------------------------------------------------------
Statuses == {"pending", "passed", "failed", "skipped"}

TestTypes == {"test.passed", "test.failed", "test.skipped"}

\* The events of client c, each with the place it has in the script.
ClientEvents(c) == UNION {Range(Script[c][i]) : i \in DOMAIN Script[c]}

Started == [type |-> "run.started", test |-> "-", by |-> NoTask, n |-> 0]
Aborted == [type |-> "run.aborted", test |-> "-", by |-> NoTask, n |-> 0]

Events == (UNION {ClientEvents(c) : c \in Clients}) \cup {Started, Aborted}

Tests == {e.test : e \in {d \in Events : d.type \in TestTypes \cup {"test.started"}}}

StatusOf(e) == CASE e.type = "test.passed" -> "passed"
                 [] e.type = "test.failed" -> "failed"
                 [] e.type = "test.skipped" -> "skipped"

Job == [kind : {"events"}, by : {"post"}, evs : Seq(Events), pc : {"write", "insert", "persist", "emit"}]
       \cup [kind : {"abort"}, by : {"request", "sweep", "reconcile"}, evs : {<<Aborted>>},
             pc : {"check", "transition", "persist", "emit"}]

Lanes == {"map", "orphan"}

Gone == -1     \* runMeta has no entry for the run

IdleBus == [meta |-> Gone, emitter |-> FALSE, active |-> FALSE, idle |-> 0, cleanups |-> 0]

RunRecord == [row : {"none", "live", "deleted"}, finished : BOOLEAN, age : 0 .. StaleAge,
              silent : BOOLEAN, late : BOOLEAN]

BusRecord == [meta : Gone .. StaleAge, emitter : BOOLEAN, active : BOOLEAN,
              idle : 0 .. IdleAge, cleanups : Nat]

\* A POST: the number of its batch, 0 for a heartbeat, and the task that has taken it.
Request == [batch : Nat, at : Tasks \cup {NoTask}]

NoRequest == [batch |-> 0, at |-> NoTask]

PostRecord == [next : Nat, overlapped : BOOLEAN, req : [Sockets -> Request]]

ServerRecord == [starting : BOOLEAN, unsaved : Nat, listed : BOOLEAN, forgetting : BOOLEAN]

UsedRecord == [starts : 0 .. MaxStarts, aborts : 0 .. MaxAborts, beats : 0 .. MaxBeats,
               retries : 0 .. MaxRetries, crashes : 0 .. MaxFailures, faults : 0 .. MaxFailures]

TypeOK ==
  /\ run \in RunRecord
  /\ rows \in [Tests -> [Statuses -> Nat]]
  /\ history \in Seq(Events)
  /\ sse \subseteq Events
  /\ bus \in [Tasks -> BusRecord]
  /\ chain \in [Tasks -> [Lanes -> Seq(Job)]]
  /\ post \in [Clients -> PostRecord]
  /\ server \in [Tasks -> ServerRecord]
  /\ used \in UsedRecord

IdleServer == [starting |-> FALSE, unsaved |-> 0, listed |-> FALSE, forgetting |-> FALSE]

Init ==
  /\ run = [row |-> "none", finished |-> FALSE, age |-> 0, silent |-> FALSE, late |-> FALSE]
  /\ rows = [t \in Tests |-> [s \in Statuses |-> 0]]
  /\ history = <<>>
  /\ sse = {}
  /\ bus = [p \in Tasks |-> IdleBus]
  /\ chain = [p \in Tasks |-> [l \in Lanes |-> <<>>]]
  /\ post = [c \in Clients |-> [next |-> 1, overlapped |-> FALSE, req |-> [k \in Sockets |-> NoRequest]]]
  /\ server = [p \in Tasks |-> IdleServer]
  /\ used = [starts |-> 0, aborts |-> 0, beats |-> 0, retries |-> 0, crashes |-> 0, faults |-> 0]

Live == run.row = "live"

IsAborted == Aborted \in Range(history)

Terminal == run.finished \/ IsAborted

Failures == used.crashes + used.faults

-----------------------------------------------------------------------------
(* The bus *)

\* registerRun
Registered(b) == [b EXCEPT !.meta = 0]

\* Mutant of Touched: touch is not called for heartbeats and batches.
Untouched(b) == b

Touched(b) == IF b.meta = Gone THEN b ELSE [b EXCEPT !.meta = 0]

\* getEmitter: create the emitter if need be, and restart its timer.
WithEmitter(b) == [b EXCEPT !.emitter = TRUE, !.idle = 0]

\* emit: an emitter created here, or run.started, makes the run active; the end
\* of the run makes it inactive and schedules the cleanup in 5 seconds.
Emitted(b, type) ==
  LET ends    == type \in {"run.finished", "run.aborted"}
      created == IF b.emitter THEN b ELSE WithEmitter(b)
  IN  [Touched(created) EXCEPT
         !.active = ~ ends /\ (@ \/ type = "run.started" \/ ~ b.emitter),
         !.cleanups = IF ends THEN @ + 1 ELSE @]

\* The timer set by emit at the end of the run: everything but the active set.
Cleanup(p) ==
  /\ bus[p].cleanups > 0
  /\ bus' = [bus EXCEPT ![p] = [IdleBus EXCEPT !.active = bus[p].active,
                                               !.cleanups = bus[p].cleanups - 1]]
  /\ UNCHANGED <<run, rows, history, sse, chain, post, server, used>>

\* The timer of resetTimeout, armed as long as there is an emitter.
IdleTimeout(p) ==
  /\ bus[p].emitter
  /\ bus[p].idle = IdleAge
  /\ bus' = [bus EXCEPT ![p] = [IdleBus EXCEPT !.cleanups = bus[p].cleanups]]
  /\ UNCHANGED <<run, rows, history, sse, chain, post, server, used>>

\* GET /live/:runId/stream opens the run's emitter.
Watch(p) ==
  /\ Watches /\ Live
  /\ WithEmitter(bus[p]) # bus[p]
  /\ bus' = [bus EXCEPT ![p] = WithEmitter(@)]
  /\ UNCHANGED <<run, rows, history, sse, chain, post, server, used>>

-----------------------------------------------------------------------------
(* The per-run chain *)

\* enqueueOnRun: append to the chain the map holds.
Enqueue(p, job) == [chain EXCEPT ![p]["map"] = Append(@, job)]

EventsJob(batch) == [kind |-> "events", by |-> "post", evs |-> batch, pc |-> "write"]

AbortJob(by) == [kind |-> "abort", by |-> by, evs |-> <<Aborted>>, pc |-> "check"]

\* Mutant of EnqueueAbort: abortRun runs at once, beside the chain.
AbortAtOnce(p, by) == [chain EXCEPT ![p]["orphan"] = Append(@, AbortJob(by))]

EnqueueAbort(p, by) == Enqueue(p, AbortJob(by))

Queued(p, by) == \E l \in Lanes : \E i \in DOMAIN chain[p][l] : chain[p][l][i].by = by

\* Mutant of Turn: the work of a POST does not wait for the one before.
AnyTurn(i) == TRUE

\* A chain runs its jobs one after the other.
Turn(i) == i = 1

\* The i-th job of lane l of task p is at step pc.
At(p, l, i, kind, pc) ==
  /\ i \in DOMAIN chain[p][l]
  /\ Turn(i)
  /\ chain[p][l][i].kind = kind /\ chain[p][l][i].pc = pc

GoTo(p, l, i, pc) == chain' = [chain EXCEPT ![p][l][i].pc = pc]

EndJob(p, l, i) == chain' = [chain EXCEPT ![p][l] = RemoveAt(@, i)]

\* What the job has left to do once its first event is done.
RestOf(job) == [job EXCEPT !.evs = Tail(@), !.pc = "write"]

\* On to the next event of the batch, or to the end of the job.
NextEvent(p, l, i) ==
  IF Len(chain[p][l][i].evs) = 1 THEN EndJob(p, l, i)
  ELSE chain' = [chain EXCEPT ![p][l][i] = RestOf(@)]

Count(t) == rows[t]["pending"] + rows[t]["passed"] + rows[t]["failed"] + rows[t]["skipped"]

\* The hasRun check in the loop: a run the bus has forgotten ends the job.
JobForgotten(p, l, i) ==
  /\ At(p, l, i, "events", "write")
  /\ bus[p].meta = Gone
  /\ EndJob(p, l, i)
  /\ UNCHANGED <<run, rows, history, sse, bus, post, server, used>>

\* upsertPendingTest, or the UPDATE of insertLiveTestResult: a new result goes
\* over every row of the test.  Other events write nothing modelled here.
WriteEvent(p, l, i) ==
  /\ At(p, l, i, "events", "write")
  /\ bus[p].meta # Gone
  /\ LET e == Head(chain[p][l][i].evs)
     IN  /\ rows' =
              IF ~ Live THEN rows
              ELSE IF e.type = "test.started" /\ Count(e.test) = 0
              THEN [rows EXCEPT ![e.test]["pending"] = 1]
              ELSE IF e.type \in TestTypes
              THEN [rows EXCEPT ![e.test] = [s \in Statuses |->
                                  IF s = StatusOf(e) THEN Count(e.test) ELSE 0]]
              ELSE rows
         /\ GoTo(p, l, i, IF e.type \in TestTypes /\ Live /\ Count(e.test) = 0
                          THEN "insert" ELSE "persist")
  /\ UNCHANGED <<run, history, sse, bus, post, server, used>>

\* The UPDATE has found no row: INSERT one.
InsertResult(p, l, i) ==
  /\ At(p, l, i, "events", "insert")
  /\ LET e == Head(chain[p][l][i].evs)
     IN  rows' = IF Live THEN [rows EXCEPT ![e.test][StatusOf(e)] = @ + 1] ELSE rows
  /\ GoTo(p, l, i, "persist")
  /\ UNCHANGED <<run, history, sse, bus, post, server, used>>

\* persistEventAwaited; after the run is deleted the foreign key refuses the row.
Persist(p, l, i) ==
  /\ \E kind \in {"events", "abort"} : At(p, l, i, kind, "persist")
  /\ history' = IF Live THEN Append(history, Head(chain[p][l][i].evs)) ELSE history
  /\ GoTo(p, l, i, "emit")
  /\ UNCHANGED <<run, rows, sse, bus, post, server, used>>

Emit(p, l, i) ==
  /\ \E kind \in {"events", "abort"} : At(p, l, i, kind, "emit")
  /\ LET e == Head(chain[p][l][i].evs)
     IN  /\ sse' = sse \cup {e}
         /\ bus' = [bus EXCEPT ![p] = Emitted(@, e.type)]
  /\ NextEvent(p, l, i)
  /\ UNCHANGED <<run, rows, history, post, server, used>>

\* Mutant of MayAbort: the guard abortRun had before, on this task's bus.
MayAbortIfTracked(p) == Live /\ ~ Terminal /\ bus[p].meta # Gone

\* Mutant of MayAbort: an earlier run.aborted is not looked for.
MayAbortAgain(p) == Live /\ ~ run.finished

\* The state query of abortRun: the run is there, not finished, not aborted.
MayAbort(p) == Live /\ ~ Terminal

AbortCheck(p, l, i) ==
  /\ At(p, l, i, "abort", "check")
  /\ IF MayAbort(p) THEN GoTo(p, l, i, "transition") ELSE EndJob(p, l, i)
  /\ UNCHANGED <<run, rows, history, sse, bus, post, server, used>>

\* transitionPendingTestsAfterAbort
Transition(p, l, i) ==
  /\ At(p, l, i, "abort", "transition")
  /\ rows' = [t \in Tests |-> [rows[t] EXCEPT !["pending"] = 0,
                                              !["skipped"] = @ + rows[t]["pending"]]]
  /\ GoTo(p, l, i, "persist")
  /\ UNCHANGED <<run, history, sse, bus, post, server, used>>

\* A statement fails: the helpers log and go on, a failed state query ends the
\* abort through the chain's catch.
Fault(p, l, i) ==
  /\ Failures < MaxFailures
  /\ used' = [used EXCEPT !.faults = @ + 1]
  /\ \/ /\ \/ At(p, l, i, "events", "write") /\ bus[p].meta # Gone
           \/ At(p, l, i, "events", "insert")
           \/ At(p, l, i, "abort", "transition")
        /\ GoTo(p, l, i, "persist")
     \/ /\ \E kind \in {"events", "abort"} : At(p, l, i, kind, "persist")
        /\ GoTo(p, l, i, "emit")
     \/ /\ At(p, l, i, "abort", "check")
        /\ EndJob(p, l, i)
  /\ UNCHANGED <<run, rows, history, sse, bus, post, server>>

JobStep(p) ==
  \E l \in Lanes : \E i \in DOMAIN chain[p][l] :
    \/ JobForgotten(p, l, i) \/ WriteEvent(p, l, i) \/ InsertResult(p, l, i)
    \/ Persist(p, l, i) \/ Emit(p, l, i) \/ AbortCheck(p, l, i) \/ Transition(p, l, i)

-----------------------------------------------------------------------------
(* Starting the run *)

\* POST /live/start: create the row, or attach to the one that is there.
StartUpsert(p) ==
  /\ run.row # "deleted"
  /\ used.starts < MaxStarts
  /\ ~ server[p].starting
  /\ run' = [run EXCEPT !.row = "live"]
  /\ server' = [server EXCEPT ![p].starting = TRUE]
  /\ used' = [used EXCEPT !.starts = @ + 1]
  /\ UNCHANGED <<rows, history, sse, bus, chain, post>>

\* The stretch after the upsert: register, emit, and persist without waiting.
StartRegister(p) ==
  /\ server[p].starting
  /\ bus' = [bus EXCEPT ![p] = Emitted(Registered(@), "run.started")]
  /\ sse' = sse \cup {Started}
  /\ server' = [server EXCEPT ![p].starting = FALSE, ![p].unsaved = @ + 1]
  /\ UNCHANGED <<run, rows, history, chain, post, used>>

\* persistEvent for run.started, at a time of its own.
PersistStart(p) ==
  /\ server[p].unsaved > 0
  /\ history' = IF Live THEN Append(history, Started) ELSE history
  /\ server' = [server EXCEPT ![p].unsaved = @ - 1]
  /\ UNCHANGED <<run, rows, sse, bus, chain, post, used>>

-----------------------------------------------------------------------------
(* POST /live/:runId/events *)

Free(c, k) == post[c].req[k] = NoRequest

\* flush: the next batch goes out, whether or not the POST of another has come
\* back; post[c].overlapped remembers that one had not.
PostSend(c, k) ==
  /\ run.row # "none"
  /\ Free(c, k)
  /\ post[c].next \in DOMAIN Script[c]
  /\ post' = [post EXCEPT ![c].req[k].batch = post[c].next,
                          ![c].next = @ + 1,
                          ![c].overlapped = @ \/ \E j \in Sockets : post[c].req[j].batch > 0]
  /\ UNCHANGED <<run, rows, history, sse, bus, chain, server, used>>

\* FLUSH_TIMEOUT_MS is over and the batch is sent again, while its first POST may
\* still be on its way or stopped in its handler.
PostResend(c, k, j) ==
  /\ used.retries < MaxRetries
  /\ post[c].req[k].batch > 0
  /\ Free(c, j)
  /\ post' = [post EXCEPT ![c].req[j].batch = post[c].req[k].batch]
  /\ used' = [used EXCEPT !.retries = @ + 1]
  /\ UNCHANGED <<run, rows, history, sse, bus, chain, server>>

\* The ownership UPDATE, which bumps last_event_at, of a batch that was sent or of
\* a heartbeat.  Nothing orders the UPDATEs of two POSTs.
PostArrive(c, k, p) ==
  /\ Live
  /\ post[c].req[k].at = NoTask
  /\ Free(c, k) => used.beats < MaxBeats
  /\ run' = [run EXCEPT !.age = 0]
  /\ post' = [post EXCEPT ![c].req[k].at = p]
  /\ used' = [used EXCEPT !.beats = IF Free(c, k) THEN @ + 1 ELSE @]
  /\ UNCHANGED <<rows, history, sse, bus, chain, server>>

AbortUnderWay == IsAborted \/ \E p \in Tasks, by \in {"request", "sweep", "reconcile"} : Queued(p, by)

\* What the reporter does about a POST that came to an end: after an answer it is
\* done with it, without one it sends the batch again (a heartbeat is forgotten).
Ended(r, answered) == IF answered THEN NoRequest ELSE [r EXCEPT !.at = NoTask]

\* The rest of the handler: register if unknown, touch, answer, enqueue.  The
\* answer may get lost.
PostSync(c, k, answered) ==
  /\ post[c].req[k].at # NoTask
  /\ answered \/ used.retries < MaxRetries
  /\ LET p     == post[c].req[k].at
         batch == post[c].req[k].batch
         known == IF bus[p].meta = Gone THEN Registered(bus[p]) ELSE bus[p]
     IN  /\ bus' = [bus EXCEPT ![p] = Touched(known)]
         /\ chain' = IF batch = 0 THEN chain ELSE Enqueue(p, EventsJob(Script[c][batch]))
         /\ run' = [run EXCEPT !.late = @ \/ (batch > 0 /\ AbortUnderWay)]
         /\ post' = [post EXCEPT ![c].req[k] = Ended(@, answered)]
  /\ used' = [used EXCEPT !.retries = IF answered THEN @ ELSE @ + 1]
  /\ UNCHANGED <<rows, history, sse, server>>

-----------------------------------------------------------------------------
(* Who aborts *)

\* POST /live/:runId/abort
RequestAbort(p) ==
  /\ Live
  /\ used.aborts < MaxAborts
  /\ chain' = EnqueueAbort(p, "request")
  /\ used' = [used EXCEPT !.aborts = @ + 1]
  /\ UNCHANGED <<run, rows, history, sse, bus, post, server>>

\* staleCheckTimer: getStaleRuns reads the bus of this task only.  (The timer
\* would queue a second abort behind one of its own; the model spares it that.)
Sweep(p) ==
  /\ bus[p].active /\ bus[p].meta >= StaleAge
  /\ ~ Queued(p, "sweep")
  /\ chain' = EnqueueAbort(p, "sweep")
  /\ UNCHANGED <<run, rows, history, sse, bus, post, server, used>>

\* reconcileStaleLiveRuns: the query, then the abort of what it returned.
ReconcileSelect(p) ==
  /\ Live /\ ~ Terminal /\ run.age = StaleAge
  /\ ~ server[p].listed /\ ~ Queued(p, "reconcile")
  /\ server' = [server EXCEPT ![p].listed = TRUE]
  /\ UNCHANGED <<run, rows, history, sse, bus, chain, post, used>>

ReconcileAbort(p) ==
  /\ server[p].listed
  /\ server' = [server EXCEPT ![p].listed = FALSE]
  /\ chain' = EnqueueAbort(p, "reconcile")
  /\ UNCHANGED <<run, rows, history, sse, bus, post, used>>

-----------------------------------------------------------------------------
(* The end-of-run upload, deletion, crashes, time *)

\* POST /runs/upload with the run's ci_run_id, one transaction: the report decides
\* finished_at and leaves one row per test, whatever the live events left.
Upload ==
  /\ Uploads
  /\ run.row # "deleted" /\ ~ run.finished
  /\ run' = [run EXCEPT !.row = "live", !.finished = TRUE]
  /\ rows' = [t \in Tests |-> [s \in Statuses |-> IF s = "passed" THEN 1 ELSE 0]]
  /\ UNCHANGED <<history, sse, bus, chain, post, server, used>>

\* DELETE /runs/:id: the row and what cascades from it, then forgetLiveRun.
DeleteRow(p) ==
  /\ Deletes /\ Live
  /\ run' = [run EXCEPT !.row = "deleted"]
  /\ rows' = [t \in Tests |-> [s \in Statuses |-> 0]]
  /\ history' = <<>>
  /\ server' = [server EXCEPT ![p].forgetting = TRUE]
  /\ UNCHANGED <<sse, bus, chain, post, used>>

\* unregister, and the chain leaves the map though its jobs run on.
Forget(p) ==
  /\ server[p].forgetting
  /\ server' = [server EXCEPT ![p].forgetting = FALSE]
  /\ bus' = [bus EXCEPT ![p] = [IdleBus EXCEPT !.cleanups = bus[p].cleanups]]
  /\ chain' = [chain EXCEPT ![p] = [map |-> <<>>, orphan |-> chain[p]["orphan"] \o chain[p]["map"]]]
  /\ UNCHANGED <<run, rows, history, sse, post, used>>

\* The process goes away and comes back empty; the POSTs it had taken fail.
Crash(p) ==
  /\ Failures < MaxFailures
  /\ used' = [used EXCEPT !.crashes = @ + 1]
  /\ bus' = [bus EXCEPT ![p] = IdleBus]
  /\ chain' = [chain EXCEPT ![p] = [l \in Lanes |-> <<>>]]
  /\ server' = [server EXCEPT ![p] = IdleServer]
  /\ post' = [c \in Clients |-> [post[c] EXCEPT !.req = [k \in Sockets |->
                                   IF @[k].at = p THEN Ended(@[k], FALSE) ELSE @[k]]]]
  /\ UNCHANGED <<run, rows, history, sse>>

Older(age, most) == IF age < most THEN age + 1 ELSE most

OlderBus(b) == [b EXCEPT !.meta = IF @ = Gone THEN Gone ELSE Older(@, StaleAge),
                         !.idle = IF b.emitter THEN Older(@, IdleAge) ELSE @]

\* A step of time is minutes: the short stretches of a handler between two of
\* its statements are over before it.
TimePasses ==
  /\ \A c \in Clients, k \in Sockets : post[c].req[k].at = NoTask
  /\ \A p \in Tasks : ~ server[p].starting
  /\ run' = IF Live THEN [run EXCEPT !.age = Older(@, StaleAge),
                                     !.silent = @ \/ Older(run.age, StaleAge) = StaleAge]
            ELSE run
  /\ bus' = [p \in Tasks |-> OlderBus(bus[p])]
  /\ <<run, bus>>' # <<run, bus>>
  /\ UNCHANGED <<rows, history, sse, chain, post, server, used>>

-----------------------------------------------------------------------------
TaskStep(p) ==
  \/ JobStep(p) \/ StartRegister(p) \/ PersistStart(p)
  \/ Sweep(p) \/ ReconcileSelect(p) \/ ReconcileAbort(p) \/ Forget(p)
  \/ Cleanup(p) \/ IdleTimeout(p)

Next ==
  \/ \E p \in Tasks :
       \/ TaskStep(p) \/ StartUpsert(p) \/ RequestAbort(p) \/ Watch(p)
       \/ DeleteRow(p) \/ Crash(p) \/ (\E l \in Lanes : \E i \in DOMAIN chain[p][l] : Fault(p, l, i))
  \/ \E c \in Clients, k \in Sockets :
       \/ PostSend(c, k)
       \/ \E j \in Sockets : PostResend(c, k, j)
       \/ \E p \in Tasks : PostArrive(c, k, p)
       \/ \E answered \in BOOLEAN : PostSync(c, k, answered)
  \/ Upload
  \/ TimePasses

Spec == Init /\ [][Next]_vars

\* A process that is up keeps working and its timers fire: the chain, the
\* reconciler and its abort.  The in-memory sweeper and the reporters may stop.
Fairness ==
  /\ \A p \in Tasks : WF_vars(JobStep(p)) /\ WF_vars(StartRegister(p))
                      /\ WF_vars(ReconcileSelect(p)) /\ WF_vars(ReconcileAbort(p))
  /\ \A c \in Clients, k \in Sockets : WF_vars(PostSync(c, k, TRUE))
  /\ WF_vars(TimePasses)

FairSpec == Spec /\ Fairness

-----------------------------------------------------------------------------
(* Properties *)

First(seq, e) == CHOOSE i \in DOMAIN seq : seq[i] = e /\ \A j \in 1 .. i - 1 : seq[j] # e

\* /live/:id/history replays the events of a reporter that never had two batches
\* under way in the order they were sent, even when a batch is sent again after a
\* timeout or a lost answer (live.ts:310-324).
HistoryInOrder ==
  used.faults = 0 =>
    \A c \in Clients : \A d, e \in ClientEvents(c) \cap Range(history) :
      d.n < e.n /\ ~ post[c].overlapped => First(history, d) < First(history, e)

\* The same of a reporter that flushes while a POST is under way, as if within-run
\* processing matched a batch-then-await behaviour of LiveClient (live.ts:320).
HistoryAsSent ==
  used.faults = 0 =>
    \A c \in Clients : \A d, e \in ClientEvents(c) \cap Range(history) :
      d.n < e.n => First(history, d) < First(history, e)

\* However often a test's events are delivered, and with a pending row before
\* or not, the test has at most one row (the comments on enqueueOnRun and on
\* the UPDATE of insertLiveTestResult).
OneRowPerTest == \A t \in Tests : Count(t) <= 1

\* The request, the sweeper and the reconciler never abort one run twice.
AbortedOnce == Cardinality({i \in DOMAIN history : history[i] = Aborted}) <= 1

\* Whoever sees run.aborted on the stream and refetches finds the run aborted
\* and no test pending, as long as no batch arrives after the abort was queued.
RefetchAfterAbort ==
  Aborted \in sse /\ Live /\ used.faults = 0 /\ ~ run.late =>
    IsAborted /\ \A t \in Tests : rows[t]["pending"] = 0

\* A run nobody asked to abort is aborted only after its reporters were silent
\* for the whole window: heartbeats keep a quiet run alive.
NoFalseAbort == IsAborted /\ used.aborts = 0 => run.silent

\* No run stays live for ever: a run whose process, reporter or upload was lost
\* is aborted in the end (what reconcileStaleLiveRuns is for).
EventuallyTerminal == Live ~> Terminal \/ ~ Live

=============================================================================
