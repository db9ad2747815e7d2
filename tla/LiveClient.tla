---------------------------- MODULE LiveClient ----------------------------
(***************************************************************************)
(* The reporters' side of live ingest: class LiveClient of                 *)
(* packages/flakey-live-reporter/src/index.ts.  Events are queued, a timer *)
(* flushes the queue as one POST, a POST that fails puts its batch back.   *)
(*                                                                         *)
(* Events are numbered in the order they are sent.  The backend appears as *)
(* the sequence of events whose POSTs have reached it; the order it works  *)
(* in is that of LiveIngest's chain.  A POST the client has given up may   *)
(* still reach the backend.                                                *)
(***************************************************************************)
EXTENDS Naturals, Sequences, SequencesExt, FiniteSets

CONSTANTS
  MaxQueue,       \* MAX_QUEUE
  MaxEvents,      \* events the reporter sends
  MaxFlights,     \* POSTs in flight at once
  MaxFailedPosts, \* POSTs that fail
  MayArriveLate   \* whether a POST that was given up may still arrive

ASSUME QueueAssumption ==
  /\ MaxQueue \in Nat \ {0} /\ MaxFlights \in Nat \ {0}
  /\ MaxEvents \in Nat /\ MaxFailedPosts \in Nat

VARIABLES
  sent,       \* number of events handed to send
  queue,      \* the client's queue
  timer,      \* flushTimer is set
  stopped,    \* stop has been called
  flights,    \* the POSTs in flight
  received,   \* the events of the POSTs that reached the backend
  dropped,    \* events the client has given up
  overlapped, \* a flush went out while the POST of another was in flight
  failures, flushes   \* counters

clientVars == <<sent, queue, timer, stopped, flights, received, dropped, overlapped, failures, flushes>>

Numbers == 1 .. MaxEvents

Flight == [n : Nat, events : Seq(Numbers), pc : {"sent", "arrived", "abandoned"}]

ClientTypeOK ==
  /\ sent \in 0 .. MaxEvents /\ failures \in 0 .. MaxFailedPosts /\ flushes \in Nat
  /\ queue \in Seq(Numbers) /\ received \in Seq(Numbers)
  /\ timer \in BOOLEAN /\ stopped \in BOOLEAN /\ overlapped \in BOOLEAN
  /\ flights \subseteq Flight
  /\ dropped \subseteq Numbers

ClientInit ==
  /\ sent = 0 /\ queue = <<>> /\ timer = FALSE /\ stopped = FALSE /\ flights = {}
  /\ received = <<>> /\ dropped = {} /\ overlapped = FALSE /\ failures = 0 /\ flushes = 0

-----------------------------------------------------------------------------
\* send: push, and start the timer if there is none.
Send ==
  /\ sent < MaxEvents
  /\ sent' = sent + 1
  /\ queue' = Append(queue, sent + 1)
  /\ timer' = TRUE
  /\ UNCHANGED <<stopped, flights, received, dropped, overlapped, failures, flushes>>

\* The POSTs the client waits for.
Unanswered == {f \in flights : f.pc # "abandoned"}

\* flush, from the timer, a heartbeat or the end of a spec: the whole queue goes
\* out as one POST, whether or not the one before has been answered.
Flush ==
  /\ queue # <<>>
  /\ Cardinality(Unanswered) < MaxFlights
  /\ overlapped' = (overlapped \/ Unanswered # {})
  /\ timer' = FALSE
  /\ flights' = flights \cup {[n |-> flushes, events |-> queue, pc |-> "sent"]}
  /\ flushes' = flushes + 1
  /\ queue' = <<>>
  /\ UNCHANGED <<sent, stopped, received, dropped, failures>>

\* What remains of a flight once it has reached the backend.
Delivered(f) == IF f.pc = "abandoned" THEN {} ELSE {[f EXCEPT !.pc = "arrived"]}

Arrive(f) ==
  /\ f.pc \in {"sent", "abandoned"}
  /\ received' = received \o f.events
  /\ flights' = (flights \ {f}) \cup Delivered(f)
  /\ UNCHANGED <<sent, queue, timer, stopped, dropped, overlapped, failures, flushes>>

\* res.ok
Answer(f) ==
  /\ f.pc = "arrived"
  /\ flights' = flights \ {f}
  /\ UNCHANGED <<sent, queue, timer, stopped, received, dropped, overlapped, failures, flushes>>

\* Mutant of Requeued: the failed batch goes behind what arrived meanwhile.
RequeuedBehind(events) == queue \o events

\* Mutant of Requeued: the failed batch is not kept.
RequeuedNothing(events) == queue

\* queue.unshift(...events)
Requeued(events) == events \o queue

\* Mutant of Kept: splice takes the newest.
KeptOldest(q) == SubSeq(q, 1, IF Len(q) > MaxQueue THEN MaxQueue ELSE Len(q))

\* What MAX_QUEUE leaves of a queue: its last elements.
Kept(q) == IF Len(q) > MaxQueue THEN SubSeq(q, Len(q) - MaxQueue + 1, Len(q)) ELSE q

\* Mutant of Rearmed: no retry is scheduled.
RearmedNever == timer

\* A retry is scheduled, even if stop has cleared the timer before.
Rearmed == TRUE

\* A network error, a timeout or an error status, before or after the POST has
\* reached the backend.
Fail(f) ==
  /\ f.pc \in {"sent", "arrived"} /\ failures < MaxFailedPosts
  /\ failures' = failures + 1
  /\ queue' = Kept(Requeued(f.events))
  /\ dropped' = dropped \cup (Range(Requeued(f.events)) \ Range(Kept(Requeued(f.events))))
  /\ timer' = Rearmed
  /\ \/ flights' = flights \ {f}
     \/ /\ MayArriveLate /\ f.pc = "sent"
        /\ flights' = (flights \ {f}) \cup {[f EXCEPT !.pc = "abandoned"]}
  /\ UNCHANGED <<sent, stopped, received, overlapped, flushes>>

Lose(f) ==
  /\ f.pc = "abandoned"
  /\ flights' = flights \ {f}
  /\ UNCHANGED <<sent, queue, timer, stopped, received, dropped, overlapped, failures, flushes>>

\* stop: no timer is left, and what is queued stays there.
Stop ==
  /\ ~ stopped
  /\ stopped' = TRUE /\ timer' = FALSE
  /\ UNCHANGED <<sent, queue, flights, received, dropped, overlapped, failures, flushes>>

ClientNext ==
  \/ Send \/ Flush \/ Stop
  \/ \E f \in flights : Arrive(f) \/ Answer(f) \/ Fail(f) \/ Lose(f)

ClientSpec == ClientInit /\ [][ClientNext]_clientVars

\* The timer fires and a POST gets somewhere, as long as the process is up.
FairClientSpec ==
  /\ ClientSpec
  /\ WF_clientVars(timer /\ Flush)
  /\ WF_clientVars(\E f \in flights : Arrive(f) \/ Answer(f) \/ Lose(f))

-----------------------------------------------------------------------------
(* Properties *)

InFlight == UNION {Range(f.events) : f \in flights}

\* An event is never simply gone: whatever fails, it is queued, under way, at the
\* backend, or dropped because the queue was full.
NothingForgotten ==
  1 .. sent \subseteq Range(queue) \cup InFlight \cup Range(received) \cup dropped

\* "Oldest events are dropped first": whatever is still queued is newer than
\* what was dropped, and the queue is in chronological order.
QueueInOrder ==
  /\ \A i, j \in DOMAIN queue : i < j => queue[i] < queue[j]
  /\ \A d \in dropped \ Range(received), i \in DOMAIN queue : d < queue[i]

\* That holds as long as no flush overtakes another.
OrderWithoutOverlap == ~ overlapped => QueueInOrder

\* Every event reaches the backend in the end, if failures end, unless it was
\* dropped or the client was stopped.
EverythingArrives ==
  \A i \in Numbers : (i <= sent) ~> (i \in Range(received) \cup dropped \/ stopped)

=============================================================================
