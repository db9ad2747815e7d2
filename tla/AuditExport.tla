---------------------------- MODULE AuditExport ----------------------------
(***************************************************************************)
(* The audit-log export of backend/src/audit-export.ts and the destination *)
(* routes of backend/src/routes/audit.ts, on top of the appends of         *)
(* AuditLog: a periodic tick, in every instance, ships the rows past each  *)
(* destination's cursor and moves the cursor after a confirmed delivery.   *)
(*                                                                         *)
(* Every database statement and every delivery is an action.  A delivery   *)
(* that the exporter counts as failed may still have reached the receiver. *)
(* A Tick is one run of flushAuditExports: timers do not wait for the run  *)
(* before, so ticks of one instance may overlap like those of two.         *)
(* The destination's address, token and format are left out; so is the     *)
(* audit entry a route logs about itself, which is one more append.        *)
(***************************************************************************)
EXTENDS AuditLog

CONSTANTS
  Configs,     \* rows audit_export_config may ever hold
  OrgOf,       \* OrgOf[c]: the organisation destination c is created in
  Ticks,       \* runs of flushAuditExports, possibly of several instances
  BatchSize,   \* BATCH_SIZE
  MaxBatches   \* MAX_BATCHES_PER_TICK

ASSUME OrgOfAssumption == OrgOf \in [Configs -> Orgs]
ASSUME TicksAssumption == Nobody \notin Ticks
ASSUME BatchAssumption == BatchSize \in Nat \ {0} /\ MaxBatches \in Nat \ {0}

VARIABLES
  config,      \* audit_export_config, and for each row the cursor it began at
  received,    \* received[c]: ids the receiver of c has been sent
  exportLock,  \* holder of the single-flight advisory lock
  tick         \* where each tick is and its local variables

exportVars == <<config, received, exportLock, tick>>

allVars == <<vars, exportVars>>

Config == [state : {"absent", "creating", "live", "deleted"}, enabled : BOOLEAN,
           failing : BOOLEAN, start : Nat, cursor : Nat]

Tick == [pc : {"idle", "next", "read", "deliver", "advance"},
         orgs : SUBSET Orgs,                           \* not visited yet
         todo : SUBSET [id : Configs, cursor : Nat],   \* listed, not flushed yet
         cfg : Configs \cup {Nobody}, cursor : Nat,    \* in flushConfig
         batch : SUBSET Nat, last : Nat, count : Nat]

IdleTick == [pc |-> "idle", orgs |-> {}, todo |-> {}, cfg |-> Nobody, cursor |-> 0,
             batch |-> {}, last |-> 0, count |-> 0]

ExportTypeOK ==
  /\ config \in [Configs -> Config]
  /\ received \in [Configs -> SUBSET Nat]
  /\ exportLock \in Ticks \cup {Nobody}
  /\ tick \in [Ticks -> Tick]

ExportInit ==
  /\ Init
  /\ config = [c \in Configs |-> [state |-> "absent", enabled |-> FALSE, failing |-> FALSE,
                                  start |-> 0, cursor |-> 0]]
  /\ received = [c \in Configs |-> {}]
  /\ exportLock = Nobody
  /\ tick = [t \in Ticks |-> IdleTick]

\* The ids of the committed rows of organisation o.
IdsOf(o) == {r.id : r \in {q \in audit_log : q.org = o}}

-----------------------------------------------------------------------------
(* The destination routes *)

\* POST /audit/export reads the starting cursor in a transaction of its own:
\* COALESCE(MAX(id), 0), or 0 when from_beginning is set.
CreateRead(c) ==
  /\ config[c].state = "absent"
  /\ \E s \in IdsOf(OrgOf[c]) \cup {0} :
       /\ s = 0 \/ \A i \in IdsOf(OrgOf[c]) : i <= s
       /\ config' = [config EXCEPT ![c].state = "creating", ![c].start = s]
  /\ UNCHANGED <<received, exportLock, tick>>

CreateInsert(c) ==
  /\ config[c].state = "creating"
  /\ \E e \in BOOLEAN :
       config' = [config EXCEPT ![c].state = "live", ![c].enabled = e,
                                ![c].cursor = config[c].start]
  /\ UNCHANGED <<received, exportLock, tick>>

\* PATCH /audit/export/:id never touches the cursor.
SetEnabled(c) ==
  /\ config[c].state = "live"
  /\ config' = [config EXCEPT ![c].enabled = ~ @]
  /\ UNCHANGED <<received, exportLock, tick>>

DeleteConfig(c) ==
  /\ config[c].state = "live"
  /\ config' = [config EXCEPT ![c].state = "deleted"]
  /\ UNCHANGED <<received, exportLock, tick>>

-----------------------------------------------------------------------------
(* flushAuditExports *)

\* Mutant of StartTick: the answer of pg_try_advisory_xact_lock is ignored.
StartTickUnlocked(t) ==
  /\ tick[t].pc = "idle"
  /\ exportLock' = t
  /\ tick' = [tick EXCEPT ![t] = [IdleTick EXCEPT !.pc = "next", !.orgs = Orgs]]
  /\ UNCHANGED <<config, received>>

\* pg_try_advisory_xact_lock: a tick that does not get the lock does nothing.
StartTick(t) ==
  /\ tick[t].pc = "idle"
  /\ exportLock = Nobody
  /\ exportLock' = t
  /\ tick' = [tick EXCEPT ![t] = [IdleTick EXCEPT !.pc = "next", !.orgs = Orgs]]
  /\ UNCHANGED <<config, received>>

\* SELECT the enabled destinations of the next organisation.
ListConfigs(t) ==
  /\ tick[t].pc = "next" /\ tick[t].todo = {}
  /\ \E o \in tick[t].orgs :
       tick' = [tick EXCEPT ![t].orgs = @ \ {o},
                            ![t].todo = {[id |-> c, cursor |-> config[c].cursor] :
                              c \in {d \in Configs : /\ config[d].state = "live"
                                                     /\ config[d].enabled
                                                     /\ OrgOf[d] = o}}]
  /\ UNCHANGED <<config, received, exportLock>>

\* That SELECT fails: the organisation is skipped for this tick.
ListFails(t) ==
  /\ tick[t].pc = "next" /\ tick[t].todo = {}
  /\ \E o \in tick[t].orgs : tick' = [tick EXCEPT ![t].orgs = @ \ {o}]
  /\ UNCHANGED <<config, received, exportLock>>

\* flushConfig starts from the cursor the listing has read.
NextConfig(t) ==
  /\ tick[t].pc = "next"
  /\ \E k \in tick[t].todo :
       tick' = [tick EXCEPT ![t].pc = "read", ![t].todo = @ \ {k}, ![t].cfg = k.id,
                            ![t].cursor = k.cursor, ![t].count = 0]
  /\ UNCHANGED <<config, received, exportLock>>

\* The rest of the loop body of flushAuditExports for the tick's destination.
DoneConfig(t) ==
  [tick[t] EXCEPT !.pc = "next", !.cfg = Nobody, !.cursor = 0, !.batch = {}, !.last = 0,
                  !.count = 0]

\* The transaction that held the lock ends, by COMMIT, ROLLBACK or a crash.
LeaveTick(t) ==
  /\ tick' = [tick EXCEPT ![t] = IdleTick]
  /\ exportLock' = IF exportLock = t THEN Nobody ELSE exportLock
  /\ UNCHANGED <<config, received>>

EndTick(t) ==
  /\ tick[t].pc = "next" /\ tick[t].todo = {} /\ tick[t].orgs = {}
  /\ LeaveTick(t)

\* The process dies anywhere in the tick.
Crash(t) ==
  /\ tick[t].pc # "idle"
  /\ LeaveTick(t)

-----------------------------------------------------------------------------
(* flushConfig *)

\* Mutant of IsBatch: ORDER BY id DESC.
IsLastBatch(B, S) ==
  /\ B \subseteq S /\ B # {}
  /\ \A i \in B, j \in S : j > i => j \in B
  /\ Cardinality(B) = BatchSize \/ (Cardinality(B) < BatchSize /\ B = S)

\* B is what SELECT ... ORDER BY id ASC LIMIT BATCH_SIZE returns of the ids S.
IsBatch(B, S) ==
  /\ B \subseteq S /\ B # {}
  /\ \A i \in B, j \in S : j < i => j \in B
  /\ Cardinality(B) = BatchSize \/ (Cardinality(B) < BatchSize /\ B = S)

Pending(t) == {i \in IdsOf(OrgOf[tick[t].cfg]) : i > tick[t].cursor}

ReadBatch(t) ==
  /\ tick[t].pc = "read"
  /\ \E B \in SUBSET Pending(t) : \E l \in B :
       /\ IsBatch(B, Pending(t))
       /\ \A i \in B : i <= l
       /\ tick' = [tick EXCEPT ![t].pc = "deliver", ![t].batch = B, ![t].last = l]
  /\ UNCHANGED <<config, received, exportLock>>

\* Nothing is pending, or the read fails: flushConfig returns.
ReadStops(t) ==
  /\ tick[t].pc = "read"
  /\ tick' = [tick EXCEPT ![t] = DoneConfig(t)]
  /\ UNCHANGED <<config, received, exportLock>>

Deliver(t) ==
  /\ tick[t].pc = "deliver"
  /\ received' = [received EXCEPT ![tick[t].cfg] = @ \cup tick[t].batch]
  /\ tick' = [tick EXCEPT ![t].pc = "advance"]
  /\ UNCHANGED <<config, exportLock>>

\* Mutant of DeliverFails: a failed batch is not retried but skipped.
DeliverFailsSkips(t) ==
  /\ tick[t].pc = "deliver"
  /\ config' = [config EXCEPT ![tick[t].cfg].cursor = tick[t].last]
  /\ tick' = [tick EXCEPT ![t] = DoneConfig(t)]
  /\ UNCHANGED <<received, exportLock>>

\* An error or a timeout, before or after the receiver has taken the batch; the
\* failure is recorded in the row, if the row is there and that write succeeds.
DeliverFails(t) ==
  /\ tick[t].pc = "deliver"
  /\ \E taken \in {{}, tick[t].batch} :
       received' = [received EXCEPT ![tick[t].cfg] = @ \cup taken]
  /\ \E recorded \in BOOLEAN :
       config' = IF recorded /\ config[tick[t].cfg].state = "live"
                 THEN [config EXCEPT ![tick[t].cfg].failing = TRUE]
                 ELSE config
  /\ tick' = [tick EXCEPT ![t] = DoneConfig(t)]
  /\ UNCHANGED exportLock

\* The delivery is confirmed: persist the cursor (no row matches if the
\* destination was deleted meanwhile) and go on while there may be more.
Advance(t) ==
  /\ tick[t].pc = "advance"
  /\ config' = IF config[tick[t].cfg].state = "live"
               THEN [config EXCEPT ![tick[t].cfg].cursor = tick[t].last,
                                   ![tick[t].cfg].failing = FALSE]
               ELSE config
  /\ tick' = IF Cardinality(tick[t].batch) < BatchSize \/ tick[t].count + 1 = MaxBatches
             THEN [tick EXCEPT ![t] = DoneConfig(t)]
             ELSE [tick EXCEPT ![t].pc = "read", ![t].cursor = tick[t].last,
                               ![t].batch = {}, ![t].last = 0, ![t].count = @ + 1]
  /\ UNCHANGED <<received, exportLock>>

\* Delivered, but the cursor could not be written: re-sent by a later tick.
AdvanceFails(t) ==
  /\ tick[t].pc = "advance"
  /\ tick' = [tick EXCEPT ![t] = DoneConfig(t)]
  /\ UNCHANGED <<config, received, exportLock>>

-----------------------------------------------------------------------------
Route(c) == CreateRead(c) \/ CreateInsert(c) \/ SetEnabled(c) \/ DeleteConfig(c)

TickStep(t) ==
  \/ StartTick(t) \/ ListConfigs(t) \/ ListFails(t) \/ NextConfig(t) \/ EndTick(t) \/ Crash(t)
  \/ ReadBatch(t) \/ ReadStops(t) \/ Deliver(t) \/ DeliverFails(t) \/ Advance(t)
  \/ AdvanceFails(t)

ExportNext ==
  \/ Next /\ UNCHANGED exportVars
  \/ (\E c \in Configs : Route(c)) /\ UNCHANGED vars
  \/ (\E t \in Ticks : TickStep(t)) /\ UNCHANGED vars

ExportSpec == ExportInit /\ [][ExportNext]_allVars

\* An append that has begun keeps running; requests need not arrive and need not
\* fail.  The timer starts a tick every minute, a tick keeps running, and an outage
\* is not permanent: listing, reading, delivering and recording, tried for ever,
\* succeed for ever.
ExportFairSpec ==
  /\ ExportSpec
  /\ \A w \in Writers : WF_allVars(Progress(w) /\ UNCHANGED exportVars)
  /\ \A t \in Ticks :
       /\ WF_allVars(EndTick(t) /\ UNCHANGED vars)
       /\ SF_allVars(StartTick(t) /\ UNCHANGED vars)
       /\ SF_allVars(ListConfigs(t) /\ UNCHANGED vars)
       /\ SF_allVars(NextConfig(t) /\ UNCHANGED vars)
       /\ SF_allVars(ReadBatch(t) /\ UNCHANGED vars)
       /\ SF_allVars(Deliver(t) /\ UNCHANGED vars)
       /\ SF_allVars(Advance(t) /\ UNCHANGED vars)

-----------------------------------------------------------------------------
(* What the export promises *)

\* "GAP-FREE cursor": every committed row between the start and the cursor of a
\* destination has been sent to it, although rows of other organisations use
\* the same id sequence, appends race with the export and deliveries fail.
GapFree ==
  \A c \in Configs : config[c].state \in {"live", "deleted"} =>
    \A i \in IdsOf(OrgOf[c]) :
      config[c].start < i /\ i <= config[c].cursor => i \in received[c]

\* "Overlapping ticks / multiple instances don't double-ship": no tick is about to
\* send a row that the persisted cursor of its destination has passed.
ConfirmedNeverReshipped ==
  \A t \in Ticks : tick[t].pc = "deliver" =>
    \A i \in tick[t].batch : config[tick[t].cfg].cursor < i

\* "A receiver outage just stalls the cursor; nothing is dropped": every row
\* committed past the start is sent, unless the destination is switched off.
EverythingDelivered ==
  \A c \in Configs : \A i \in 1 .. MaxTx + Len(LegacyOrgs) :
    (config[c].state = "live" /\ config[c].enabled /\ i \in IdsOf(OrgOf[c]) /\ config[c].start < i)
      ~> (i \in received[c] \/ ~ config[c].enabled \/ config[c].state = "deleted")

-----------------------------------------------------------------------------
(* Refinement *)

Opened(c) == config[c].state \in {"live", "deleted"}

Feed(c) == INSTANCE DurableFeed WITH
  published <- IdsOf(OrgOf[c]),
  got <- received[c],
  opened <- Opened(c),
  start <- IF Opened(c) THEN config[c].start ELSE 0,
  position <- config[c].cursor

\* Seen from its receiver, every destination is a durable feed: Feed(c)!FeedSpec
\* for every c, with the quantifier inside the box for TLC.
ImplementsDurableFeed ==
  /\ \A c \in Configs : Feed(c)!FeedInit
  /\ [][\A c \in Configs : Feed(c)!FeedNext \/ UNCHANGED Feed(c)!feedVars]_allVars

=============================================================================
