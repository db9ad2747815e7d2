----------------------------- MODULE LiveProofs -----------------------------
(***************************************************************************)
(* What live ingest promises on either side of the connection: the         *)
(* reporter's queue, for any number of events, POSTs in flight and         *)
(* failures and any cap; and the server, for any script, age, bound and    *)
(* number of reporters.  The types of the server hold in any number of     *)
(* processes, its promises in one: what fails in two, and how, is said at  *)
(* OneTask.                                                                *)
(***************************************************************************)
EXTENDS LiveIngest, LiveClient, SequenceTheorems, FiniteSetTheorems, WellFoundedInduction, TLAPS

-----------------------------------------------------------------------------
(* The reporter's queue: its invariant *)

\* Everything in A was sent before everything in B.
Ahead(A, B) == \A a \in A, b \in B : a < b

\* The events of q are in the order they were sent.
Chronological(q) == \A i, j \in DOMAIN q : i < j => q[i] < q[j]

\* The events of the POSTs the client waits for.
Awaited == UNION {Range(f.events) : f \in Unanswered}

\* An event is accounted for without the POSTs that were given up: their batch
\* is back in the queue, or dropped.
Accounted == 1 .. sent \subseteq Range(queue) \cup Awaited \cup Range(received) \cup dropped

\* A POST that has arrived has been received.
ArrivedReceived == \A f \in flights : f.pc = "arrived" => Range(f.events) \subseteq Range(received)

\* Nothing is anywhere that was not sent.
OnlySent ==
  /\ Range(queue) \subseteq 1 .. sent /\ dropped \subseteq 1 .. sent
  /\ \A f \in flights : Range(f.events) \subseteq 1 .. sent

\* As long as no flush has overtaken another: one POST under way, everything in
\* order, the batch under way before the queue, what is lost before both.
InTurn ==
  ~ overlapped =>
    /\ \A f, g \in Unanswered : f = g
    /\ Chronological(queue)
    /\ Ahead(dropped \ Range(received), Range(queue))
    /\ \A f \in Unanswered :
         /\ Chronological(f.events)
         /\ Ahead(Range(f.events), Range(queue))
         /\ Ahead(dropped \ Range(received), Range(f.events))

ClientInv == ClientTypeOK /\ Accounted /\ ArrivedReceived /\ OnlySent /\ InTurn

-----------------------------------------------------------------------------
(* Queues *)

\* The events of two queues put together.
LEMMA RangeOfConcat ==
  ASSUME NEW S, NEW p \in Seq(S), NEW q \in Seq(S)
  PROVE  p \o q \in Seq(S) /\ Range(p \o q) = Range(p) \cup Range(q)
<1>1. p \o q \in Seq(S) /\ Len(p \o q) = Len(p) + Len(q)
  OBVIOUS
<1>2. Range(p \o q) \subseteq Range(p) \cup Range(q)
  <2> SUFFICES ASSUME NEW i \in 1 .. Len(p \o q) PROVE (p \o q)[i] \in Range(p) \cup Range(q)
    BY <1>1 DEF Range
  <2>1. CASE i <= Len(p)
    BY <2>1, <1>1 DEF Range
  <2>2. CASE i > Len(p)
    BY <2>2, <1>1 DEF Range
  <2> QED BY <2>1, <2>2, <1>1
<1>3. Range(p) \subseteq Range(p \o q)
  <2> SUFFICES ASSUME NEW i \in 1 .. Len(p) PROVE p[i] \in Range(p \o q)
    BY DEF Range
  <2> QED BY <1>1 DEF Range
<1>4. Range(q) \subseteq Range(p \o q)
  <2> SUFFICES ASSUME NEW i \in 1 .. Len(q) PROVE q[i] \in Range(p \o q)
    BY DEF Range
  <2>1. Len(p) + i \in 1 .. Len(p \o q) /\ (p \o q)[Len(p) + i] = q[i]
    BY <1>1
  <2> QED BY <2>1, <1>1 DEF Range
<1> QED BY <1>1, <1>2, <1>3, <1>4

\* A queue with one event behind it.
LEMMA RangeOfAppend ==
  ASSUME NEW S, NEW q \in Seq(S), NEW e \in S
  PROVE  Append(q, e) \in Seq(S) /\ Range(Append(q, e)) = Range(q) \cup {e}
<1>1. /\ Append(q, e) \in Seq(S) /\ Len(Append(q, e)) = Len(q) + 1
      /\ Append(q, e)[Len(q) + 1] = e
      /\ \A i \in 1 .. Len(q) : Append(q, e)[i] = q[i]
  OBVIOUS
<1> QED BY <1>1 DEF Range

\* Two chronological queues, the first ahead of the second, are one.
LEMMA ChronologicalConcat ==
  ASSUME NEW p \in Seq(Numbers), NEW q \in Seq(Numbers),
         Chronological(p), Chronological(q), Ahead(Range(p), Range(q))
  PROVE  Chronological(p \o q)
<1>1. \A i \in 1 .. Len(p) : p[i] \in Range(p) /\ (p \o q)[i] = p[i]
  BY DEF Range
<1>2. \A i \in 1 .. Len(p) + Len(q) : i > Len(p) =>
        /\ (p \o q)[i] = q[i - Len(p)] /\ i - Len(p) \in 1 .. Len(q) /\ q[i - Len(p)] \in Range(q)
  BY DEF Range
<1>3. DOMAIN p = 1 .. Len(p) /\ DOMAIN q = 1 .. Len(q) /\ DOMAIN (p \o q) = 1 .. Len(p) + Len(q)
  OBVIOUS
<1> SUFFICES ASSUME NEW i \in 1 .. Len(p) + Len(q), NEW j \in 1 .. Len(p) + Len(q), i < j
             PROVE  (p \o q)[i] < (p \o q)[j]
  BY <1>3 DEF Chronological
<1>4. CASE j <= Len(p)
  BY <1>4, <1>1, <1>3 DEF Chronological
<1>5. CASE i > Len(p)
  <2>1. i - Len(p) < j - Len(p) /\ j > Len(p)
    BY <1>5
  <2> QED BY <2>1, <1>5, <1>2, <1>3 DEF Chronological
<1>6. CASE i <= Len(p) /\ j > Len(p)
  BY <1>6, <1>1, <1>2 DEF Ahead
<1> QED BY <1>4, <1>5, <1>6

\* A chronological queue with a later event behind it is chronological.
LEMMA ChronologicalAppend ==
  ASSUME NEW q \in Seq(Numbers), NEW e \in Numbers, Chronological(q), Ahead(Range(q), {e})
  PROVE  Chronological(Append(q, e))
<1>1. /\ Len(Append(q, e)) = Len(q) + 1 /\ DOMAIN Append(q, e) = 1 .. Len(q) + 1
      /\ Append(q, e)[Len(q) + 1] = e
      /\ \A i \in 1 .. Len(q) : Append(q, e)[i] = q[i] /\ q[i] \in Range(q)
      /\ DOMAIN q = 1 .. Len(q)
  BY DEF Range
<1> QED BY <1>1 DEF Chronological, Ahead

\* MAX_QUEUE leaves a part of the queue, the part behind.
LEMMA KeptIsTail ==
  ASSUME NEW q \in Seq(Numbers)
  PROVE  /\ Kept(q) \in Seq(Numbers)
         /\ Range(Kept(q)) \subseteq Range(q)
         /\ Chronological(q) => /\ Chronological(Kept(q))
                                /\ Ahead(Range(q) \ Range(Kept(q)), Range(Kept(q)))
<1>1. CASE Len(q) <= MaxQueue
  <2>1. Kept(q) = q
    BY <1>1, QueueAssumption DEF Kept
  <2> QED BY <2>1 DEF Ahead
<1>2. CASE Len(q) > MaxQueue
  <2>0. PICK m \in Nat : m = Len(q) - MaxQueue
    BY <1>2, QueueAssumption
  <2>1. PICK k : k = Kept(q)
    OBVIOUS
  <2>2. k = SubSeq(q, m + 1, Len(q)) /\ m > 0 /\ m < Len(q)
    BY <2>1, <2>0, <1>2, QueueAssumption DEF Kept
  <2>3. k \in Seq(Numbers) /\ Len(k) = Len(q) - m /\ \A i \in 1 .. Len(k) : k[i] = q[m + i]
    BY <2>2
  <2>4. \A i \in 1 .. Len(k) : m + i \in 1 .. Len(q)
    BY <2>3
  <2>5. Range(k) \subseteq Range(q)
    <3>1. DOMAIN k = 1 .. Len(k) /\ DOMAIN q = 1 .. Len(q)
      BY <2>3
    <3> QED BY <3>1, <2>3, <2>4 DEF Range
  <2>c. ASSUME Chronological(q), NEW a \in 1 .. Len(q), NEW b \in 1 .. Len(q), a < b
        PROVE  q[a] < q[b]
    BY <2>c DEF Chronological
  <2>6. ASSUME Chronological(q) PROVE Chronological(k)
    <3> SUFFICES ASSUME NEW i \in 1 .. Len(k), NEW j \in 1 .. Len(k), i < j PROVE k[i] < k[j]
      BY <2>3 DEF Chronological
    <3>1. m + i < m + j /\ m + i \in 1 .. Len(q) /\ m + j \in 1 .. Len(q)
      BY <2>3, <2>4
    <3>2. q[m + i] < q[m + j]
      BY <3>1, <2>6, <2>c
    <3> QED BY <3>2, <2>3
  <2>7. ASSUME Chronological(q) PROVE Ahead(Range(q) \ Range(k), Range(k))
    <3> SUFFICES ASSUME NEW i \in 1 .. Len(q), q[i] \notin Range(k), NEW j \in 1 .. Len(k)
                 PROVE  q[i] < k[j]
      <4>1. DOMAIN k = 1 .. Len(k) /\ DOMAIN q = 1 .. Len(q)
        BY <2>3
      <4> QED BY <4>1 DEF Ahead, Range
    <3>1. i <= m
      <4> SUFFICES ASSUME i > m PROVE FALSE
        OBVIOUS
      <4>1. i - m \in 1 .. Len(k) /\ k[i - m] = q[i]
        BY <2>3
      <4> QED BY <4>1, <2>3 DEF Range
    <3>2. m + j \in 1 .. Len(q) /\ i < m + j
      BY <3>1, <2>4
    <3>3. q[i] < q[m + j]
      BY <3>2, <2>7, <2>c
    <3> QED BY <3>3, <2>3
  <2> QED BY <2>1, <2>3, <2>5, <2>6, <2>7
<1> QED BY <1>1, <1>2, QueueAssumption

-----------------------------------------------------------------------------
(* The reporter's queue: its steps *)

\* The client starts with nothing.
LEMMA ClientStart == ClientInit => ClientInv
<1> SUFFICES ASSUME ClientInit PROVE ClientInv
  OBVIOUS
<1> USE DEF ClientInit
<1>0. <<>> \in Seq(Numbers) /\ 0 \in 0 .. MaxEvents /\ 0 \in 0 .. MaxFailedPosts /\ 0 \in Nat
  BY QueueAssumption
<1>1. ClientTypeOK
  BY <1>0 DEF ClientTypeOK
<1>2. Accounted /\ ArrivedReceived
  BY DEF Accounted, ArrivedReceived
<1>3. OnlySent
  BY DEF OnlySent, Range
<1>4. InTurn
  BY DEF InTurn, Unanswered, Chronological, Ahead
<1> QED BY <1>1, <1>2, <1>3, <1>4 DEF ClientInv

\* send: the new event goes behind all others.
LEMMA SendStep ==
  ASSUME ClientInv, Send
  PROVE  ClientInv'
<1> USE DEF ClientInv
<1>1. PICK e \in Numbers : e = sent + 1
  BY QueueAssumption DEF Send, ClientTypeOK, Numbers
<1>2. sent \in Nat /\ sent' = e /\ e \in 1 .. sent' /\ 1 .. sent' = 1 .. sent \cup {e}
  BY <1>1 DEF Send, ClientTypeOK
<1>3. /\ queue' = Append(queue, e) /\ queue' \in Seq(Numbers)
      /\ Range(queue') = Range(queue) \cup {e}
  BY <1>1, RangeOfAppend DEF Send, ClientTypeOK
<1>4. UNCHANGED <<stopped, flights, received, dropped, overlapped, failures, flushes>> /\ timer' = TRUE
  BY DEF Send
<1>5. ClientTypeOK'
  BY <1>1, <1>3, <1>4, QueueAssumption DEF ClientTypeOK, Numbers, Send
<1>6. Accounted'
  BY <1>2, <1>3, <1>4 DEF Accounted, Awaited, Unanswered
<1>7. ArrivedReceived'
  BY <1>4 DEF ArrivedReceived
<1>8. OnlySent'
  BY <1>2, <1>3, <1>4 DEF OnlySent
<1>9. InTurn'
  <2>1. \A A \in SUBSET (1 .. sent) : Ahead(A, {e})
    BY <1>1, <1>2 DEF Ahead
  <2>2. Chronological(queue) => Chronological(queue')
    BY <2>1, <1>3, ChronologicalAppend DEF OnlySent, ClientTypeOK
  <2>3. Unanswered' = Unanswered
    BY <1>4 DEF Unanswered
  <2>4. \A A \in SUBSET (1 .. sent) : Ahead(A, Range(queue)) => Ahead(A, Range(queue'))
    BY <2>1, <1>3 DEF Ahead
  <2>5. dropped \ Range(received) \in SUBSET (1 .. sent)
    BY DEF OnlySent
  <2>6. \A f \in Unanswered : Range(f.events) \in SUBSET (1 .. sent)
    BY DEF OnlySent, Unanswered
  <2> QED BY <2>2, <2>3, <2>4, <2>5, <2>6, <1>4 DEF InTurn
<1> QED BY <1>5, <1>6, <1>7, <1>8, <1>9

\* flush: the queue becomes the batch of a POST.
LEMMA FlushStep ==
  ASSUME ClientInv, Flush
  PROVE  ClientInv'
<1> USE DEF ClientInv
<1>1. PICK f : f = [n |-> flushes, events |-> queue, pc |-> "sent"]
  OBVIOUS
<1>2. f \in Flight /\ f.events = queue /\ f.pc = "sent"
  BY <1>1 DEF ClientTypeOK, Flight
<1>3. /\ flights' = flights \cup {f} /\ queue' = <<>> /\ Range(queue') = {}
      /\ UNCHANGED <<sent, stopped, received, dropped, failures>>
  BY <1>1 DEF Flush, Range
<1>4. Unanswered' = Unanswered \cup {f}
  BY <1>2, <1>3 DEF Unanswered
<1>5. ClientTypeOK'
  <2>1. overlapped' \in BOOLEAN
    BY DEF Flush
  <2>2. queue' \in Seq(Numbers) /\ flushes' \in Nat /\ timer' \in BOOLEAN
    <3>1. timer' \in BOOLEAN
      BY DEF Flush
    <3>2. <<>> \in Seq(Numbers)
      OBVIOUS
    <3>3. flushes' \in Nat
      BY DEF ClientTypeOK, Flush
    <3>4. queue' \in Seq(Numbers)
      BY <3>2, <1>3
    <3> QED BY <3>1, <3>3, <3>4
  <2>3. flights' \subseteq Flight
    BY <1>2, <1>3 DEF ClientTypeOK
  <2> QED BY <2>1, <2>2, <2>3, <1>3 DEF ClientTypeOK
<1>6. Accounted'
  BY <1>2, <1>3, <1>4 DEF Accounted, Awaited
<1>7. ArrivedReceived'
  BY <1>2, <1>3 DEF ArrivedReceived
<1>8. OnlySent'
  BY <1>2, <1>3 DEF OnlySent
<1>9. InTurn'
  <2> SUFFICES ASSUME ~ overlapped' PROVE InTurn'
    BY DEF InTurn
  <2>1. ~ overlapped /\ Unanswered = {}
    BY DEF Flush
  <2>2. Unanswered' = {f}
    BY <2>1, <1>4
  <2>3. Chronological(queue)' /\ \A A : Ahead(A, Range(queue'))
    BY <1>3 DEF Chronological, Ahead
  <2>4. Chronological(f.events) /\ Ahead(dropped \ Range(received), Range(f.events))
    BY <2>1, <1>2 DEF InTurn
  <2>5. dropped' = dropped /\ received' = received
    BY <1>3
  <2> QED BY <2>2, <2>3, <2>4, <2>5 DEF InTurn
<1> QED BY <1>5, <1>6, <1>7, <1>8, <1>9

\* A POST reaches the backend, in time or late.
LEMMA ArriveStep ==
  ASSUME ClientInv, NEW f \in flights, Arrive(f)
  PROVE  ClientInv'
<1> USE DEF ClientInv
<1>1. f \in Flight /\ f.events \in Seq(Numbers) /\ f.pc \in {"sent", "abandoned"}
  BY DEF ClientTypeOK, Flight, Arrive
<1>2. PICK g : g = [f EXCEPT !.pc = "arrived"]
  OBVIOUS
<1>3. g \in Flight /\ g.events = f.events /\ g.pc = "arrived"
  BY <1>1, <1>2 DEF Flight
<1>4. /\ received' = received \o f.events /\ received' \in Seq(Numbers)
      /\ Range(received') = Range(received) \cup Range(f.events)
  BY <1>1, RangeOfConcat DEF Arrive, ClientTypeOK
<1>5. flights' = (flights \ {f}) \cup (IF f.pc = "abandoned" THEN {} ELSE {g})
  BY <1>2 DEF Arrive, Delivered
<1>6. UNCHANGED <<sent, queue, timer, stopped, dropped, overlapped, failures, flushes>>
  BY DEF Arrive
<1>7. Unanswered' = IF f.pc = "abandoned" THEN Unanswered ELSE (Unanswered \ {f}) \cup {g}
  BY <1>1, <1>3, <1>5 DEF Unanswered
<1>8. Awaited' = Awaited
  BY <1>1, <1>3, <1>7 DEF Awaited, Unanswered
<1>9. ClientTypeOK'
  BY <1>3, <1>4, <1>5, <1>6 DEF ClientTypeOK
<1>10. Accounted'
  BY <1>4, <1>6, <1>8 DEF Accounted
<1>11. ArrivedReceived'
  BY <1>3, <1>4, <1>5 DEF ArrivedReceived
<1>12. OnlySent'
  BY <1>3, <1>5, <1>6 DEF OnlySent
<1>13. InTurn'
  <2> SUFFICES ASSUME ~ overlapped' PROVE InTurn'
    BY DEF InTurn
  <2>1. ~ overlapped
    BY <1>6
  <2>2. \A A : Ahead(dropped \ Range(received), A) => Ahead(dropped' \ Range(received'), A)
    BY <1>4, <1>6 DEF Ahead
  <2>3. \A h \in Unanswered' : \E k \in Unanswered : k.events = h.events
    BY <1>1, <1>3, <1>7 DEF Unanswered
  <2>4. \A h, k \in Unanswered' : h = k
    BY <2>1, <1>1, <1>7 DEF InTurn, Unanswered
  <2> QED BY <2>1, <2>2, <2>3, <2>4, <1>6 DEF InTurn
<1> QED BY <1>9, <1>10, <1>11, <1>12, <1>13

\* The answer of a POST, or the loss of one that was given up.
LEMMA EndStep ==
  ASSUME ClientInv, NEW f \in flights, Answer(f) \/ Lose(f)
  PROVE  ClientInv'
<1> USE DEF ClientInv
<1>1. /\ flights' = flights \ {f}
      /\ UNCHANGED <<sent, queue, timer, stopped, received, dropped, overlapped, failures, flushes>>
  BY DEF Answer, Lose
<1>2. f.pc = "arrived" \/ f.pc = "abandoned"
  BY DEF Answer, Lose
<1>3. Unanswered' = Unanswered \ {f}
  BY <1>1 DEF Unanswered
<1>4. ClientTypeOK' /\ ArrivedReceived' /\ OnlySent'
  BY <1>1 DEF ClientTypeOK, ArrivedReceived, OnlySent
<1>5. Accounted'
  <2>1. Awaited \subseteq Awaited' \cup Range(received)
    BY <1>1, <1>2, <1>3 DEF Awaited, Unanswered, ArrivedReceived
  <2> QED BY <2>1, <1>1 DEF Accounted
<1>6. InTurn'
  BY <1>1, <1>3 DEF InTurn
<1> QED BY <1>4, <1>5, <1>6

\* A POST fails: its batch goes in front of the queue, the cap drops the oldest.
LEMMA FailStep ==
  ASSUME ClientInv, NEW f \in flights, Fail(f)
  PROVE  ClientInv'
<1> USE DEF ClientInv
<1>1. f \in Flight /\ f.events \in Seq(Numbers) /\ f.pc \in {"sent", "arrived"} /\ f \in Unanswered
  BY DEF ClientTypeOK, Flight, Fail, Unanswered
<1>2. PICK g : g = [f EXCEPT !.pc = "abandoned"]
  OBVIOUS
<1>3. g \in Flight /\ g.events = f.events /\ g.pc = "abandoned"
  BY <1>1, <1>2 DEF Flight
<1>4. PICK q : q = f.events \o queue
  OBVIOUS
<1>5. q \in Seq(Numbers) /\ Range(q) = Range(f.events) \cup Range(queue)
  BY <1>1, <1>4, RangeOfConcat DEF ClientTypeOK
<1>6. /\ queue' = Kept(q) /\ dropped' = dropped \cup (Range(q) \ Range(Kept(q)))
      /\ UNCHANGED <<sent, stopped, received, overlapped, flushes>>
      /\ failures' = failures + 1 /\ failures < MaxFailedPosts /\ timer' = TRUE
  BY <1>4 DEF Fail, Requeued, Rearmed
<1>7. queue' \in Seq(Numbers) /\ Range(queue') \subseteq Range(q)
  BY <1>5, <1>6, KeptIsTail
<1>8. flights' = flights \ {f} \/ flights' = (flights \ {f}) \cup {g}
  BY <1>2 DEF Fail
<1>9. Unanswered' = Unanswered \ {f}
  BY <1>3, <1>8 DEF Unanswered
<1>10. ClientTypeOK'
  <2>1. dropped' \subseteq Numbers
    BY <1>5, <1>6 DEF ClientTypeOK, Range
  <2>2. failures' \in 0 .. MaxFailedPosts
    BY <1>6, QueueAssumption DEF ClientTypeOK
  <2> QED BY <2>1, <2>2, <1>3, <1>6, <1>7, <1>8 DEF ClientTypeOK
<1>11. Accounted'
  <2>1. Awaited \subseteq Awaited' \cup Range(q)
    BY <1>5, <1>9 DEF Awaited
  <2>2. Range(queue) \cup Range(q) \subseteq Range(queue') \cup dropped'
    BY <1>5, <1>6
  <2> QED BY <2>1, <2>2, <1>6 DEF Accounted
<1>12. ArrivedReceived'
  BY <1>3, <1>6, <1>8 DEF ArrivedReceived
<1>13. OnlySent'
  BY <1>3, <1>5, <1>6, <1>7, <1>8 DEF OnlySent
<1>14. InTurn'
  <2> SUFFICES ASSUME ~ overlapped' PROVE InTurn'
    BY DEF InTurn
  <2>1. ~ overlapped
    BY <1>6
  <2>2. Unanswered' = {}
    BY <2>1, <1>1, <1>9 DEF InTurn
  <2>3. Chronological(q)
    BY <2>1, <1>1, <1>4, ChronologicalConcat DEF InTurn, ClientTypeOK
  <2>4. Chronological(queue') /\ Ahead(Range(q) \ Range(queue'), Range(queue'))
    BY <2>3, <1>5, <1>6, KeptIsTail
  <2>5. Ahead(dropped \ Range(received), Range(queue'))
    BY <2>1, <1>1, <1>5, <1>7 DEF InTurn, Ahead
  <2>6. Ahead(dropped' \ Range(received'), Range(queue'))
    BY <2>4, <2>5, <1>6 DEF Ahead
  <2> QED BY <2>2, <2>4, <2>6 DEF InTurn
<1> QED BY <1>10, <1>11, <1>12, <1>13, <1>14

\* stop touches nothing but the timer.
LEMMA StopStep ==
  ASSUME ClientInv, Stop
  PROVE  ClientInv'
BY DEF ClientInv, Stop, ClientTypeOK, Accounted, Awaited, Unanswered, ArrivedReceived, OnlySent, InTurn

\* Every step of the client keeps the invariant.
LEMMA ClientStep == ClientInv /\ [ClientNext]_clientVars => ClientInv'
<1> SUFFICES ASSUME ClientInv, [ClientNext]_clientVars PROVE ClientInv'
  OBVIOUS
<1>1. CASE Send
  BY <1>1, SendStep
<1>2. CASE Flush
  BY <1>2, FlushStep
<1>3. CASE Stop
  BY <1>3, StopStep
<1>4. ASSUME NEW f \in flights, Arrive(f) PROVE ClientInv'
  BY <1>4, ArriveStep
<1>5. ASSUME NEW f \in flights, Answer(f) \/ Lose(f) PROVE ClientInv'
  BY <1>5, EndStep
<1>6. ASSUME NEW f \in flights, Fail(f) PROVE ClientInv'
  BY <1>6, FailStep
<1>7. CASE UNCHANGED clientVars
  BY <1>7 DEF clientVars, ClientInv, ClientTypeOK, Accounted, Awaited, Unanswered, ArrivedReceived,
              OnlySent, InTurn
<1> QED BY <1>1, <1>2, <1>3, <1>4, <1>5, <1>6, <1>7 DEF ClientNext

\* The invariant of the client holds for any number of events, POSTs in flight and
\* failures, and any cap.
THEOREM ClientInvariant == ClientSpec => []ClientInv
BY ClientStart, ClientStep, PTL DEF ClientSpec

\* Every variable of the client keeps its type.
THEOREM ClientTypeCorrect == ClientSpec => []ClientTypeOK
<1>1. ClientInv => ClientTypeOK
  BY DEF ClientInv
<1> QED BY <1>1, ClientInvariant, PTL

\* Whatever fails, an event is queued, under way, at the backend, or dropped
\* because the queue was full.
THEOREM NothingForgottenEver == ClientSpec => []NothingForgotten
<1>1. ClientInv => NothingForgotten
  BY DEF ClientInv, Accounted, Awaited, Unanswered, NothingForgotten, InFlight
<1> QED BY <1>1, ClientInvariant, PTL

\* As long as no flush overtakes another the queue is in the order of sending, and
\* what the cap dropped is older than what it kept.
THEOREM OldestGoFirst == ClientSpec => []OrderWithoutOverlap
<1>1. ClientInv => OrderWithoutOverlap
  <2> SUFFICES ASSUME ClientInv, ~ overlapped PROVE QueueInOrder
    BY DEF OrderWithoutOverlap
  <2>1. Chronological(queue) /\ Ahead(dropped \ Range(received), Range(queue))
    BY DEF ClientInv, InTurn
  <2>2. \A i \in DOMAIN queue : queue[i] \in Range(queue)
    BY DEF Range
  <2> QED BY <2>1, <2>2 DEF QueueInOrder, Chronological, Ahead
<1> QED BY <1>1, ClientInvariant, PTL

-----------------------------------------------------------------------------
(* Events and batches *)

\* A batch of the script, as it is assumed.
LEMMA TypedBatch ==
  ASSUME NEW c \in Clients, NEW i \in DOMAIN Script[c]
  PROVE  /\ Script[c][i] \in Seq([type : STRING, test : STRING, by : {c}, n : Nat]) \ {<<>>}
         /\ \A k \in DOMAIN Script[c][i] : Script[c][i][k] \in [type : STRING, test : STRING, by : {c}, n : Nat]
<1>1. PICK S : S = [type : STRING, test : STRING, by : {c}, n : Nat]
  OBVIOUS
<1>2. Script[c] \in Seq(Seq(S) \ {<<>>})
  BY <1>1, ScriptAssumption
<1>3. Script[c][i] \in Seq(S) \ {<<>>}
  BY <1>2
<1>4. \A k \in DOMAIN Script[c][i] : Script[c][i][k] \in S
  BY <1>3
<1> QED BY <1>1, <1>3, <1>4

\* A batch of the script is a sequence of events of its sender, and not empty.
LEMMA Batches ==
  ASSUME NEW c \in Clients, NEW i \in DOMAIN Script[c]
  PROVE  /\ Script[c][i] \in Seq(Events) /\ Script[c][i] # <<>>
         /\ Range(Script[c][i]) \subseteq ClientEvents(c)
<1>1. Script[c][i] \in Seq([type : STRING, test : STRING, by : {c}, n : Nat]) \ {<<>>}
  BY TypedBatch
<1>2. Range(Script[c][i]) \subseteq ClientEvents(c)
  BY DEF ClientEvents, Range
<1>3. ClientEvents(c) \subseteq Events
  BY DEF Events
<1>4. \A k \in 1 .. Len(Script[c][i]) : Script[c][i][k] \in Events
  BY <1>1, <1>2, <1>3 DEF Range
<1>5. Script[c][i] \in Seq(Events)
  BY <1>1, <1>4
<1> QED BY <1>1, <1>2, <1>5

\* An event of a reporter is labelled with its sender, so it is none of the
\* backend's own.
LEMMA SenderOf ==
  ASSUME NEW c \in Clients, NEW e \in ClientEvents(c)
  PROVE  e.by = c /\ e.n \in Nat /\ e # Started /\ e # Aborted
<1>1. PICK i \in DOMAIN Script[c] : e \in Range(Script[c][i])
  BY DEF ClientEvents, Range
<1>2. \A k \in DOMAIN Script[c][i] : Script[c][i][k] \in [type : STRING, test : STRING, by : {c}, n : Nat]
  BY TypedBatch
<1>3. e \in [type : STRING, test : STRING, by : {c}, n : Nat]
  BY <1>1, <1>2 DEF Range
<1>4. e.by = c /\ e.n \in Nat
  BY <1>3
<1>5. Started.by = NoTask /\ Aborted.by = NoTask
  BY DEF Started, Aborted
<1> QED BY <1>4, <1>5, ScriptAssumption

\* The backend's own events.
LEMMA OwnEvents ==
  /\ Started \in Events /\ Aborted \in Events
  /\ Started.type = "run.started" /\ Aborted.type = "run.aborted" /\ Started # Aborted
<1>1. Started.type = "run.started" /\ Aborted.type = "run.aborted"
  BY DEF Started, Aborted
<1> QED BY <1>1 DEF Events

-----------------------------------------------------------------------------
(* The bus *)

\* What touching, registering and watching do to the bus of a task.
LEMMA BusFields ==
  ASSUME NEW b \in BusRecord
  PROVE  /\ Registered(b) \in BusRecord /\ Registered(b).meta = 0 /\ Registered(b).active = b.active
         /\ WithEmitter(b) \in BusRecord /\ WithEmitter(b).meta = b.meta /\ WithEmitter(b).active = b.active
         /\ Touched(b) \in BusRecord /\ Touched(b).active = b.active
         /\ Touched(b).meta = IF b.meta = Gone THEN Gone ELSE 0
<1>1. Gone = -1 /\ 0 \in Gone .. StaleAge /\ 0 \in 0 .. IdleAge
  BY AgeAssumption DEF Gone
<1>2. Registered(b) \in BusRecord /\ Registered(b).meta = 0 /\ Registered(b).active = b.active
  BY <1>1 DEF Registered, BusRecord
<1>3. WithEmitter(b) \in BusRecord /\ WithEmitter(b).meta = b.meta /\ WithEmitter(b).active = b.active
  BY <1>1 DEF WithEmitter, BusRecord
<1>4. CASE b.meta = Gone
  BY <1>2, <1>3, <1>4 DEF Touched
<1>5. CASE b.meta # Gone
  <2>1. Touched(b) = [b EXCEPT !.meta = 0]
    BY <1>5 DEF Touched
  <2>2. Touched(b) \in BusRecord /\ Touched(b).meta = 0 /\ Touched(b).active = b.active
    BY <2>1, <1>1 DEF BusRecord
  <2> QED BY <2>2, <1>2, <1>3, <1>5
<1> QED BY <1>4, <1>5

\* An emission touches a run that is known, and forgets none.
LEMMA EmittedFields ==
  ASSUME NEW b \in BusRecord, NEW type
  PROVE  /\ Emitted(b, type) \in BusRecord
         /\ Emitted(b, type).meta = IF b.meta = Gone THEN Gone ELSE 0
<1>1. PICK ends \in BOOLEAN : ends <=> type \in {"run.finished", "run.aborted"}
  OBVIOUS
<1>2. PICK m : m = IF b.emitter THEN b ELSE WithEmitter(b)
  OBVIOUS
<1>3. m \in BusRecord /\ m.meta = b.meta
  BY <1>2, BusFields
<1>4. PICK u : u = Touched(m)
  OBVIOUS
<1>5. u \in BusRecord /\ u.meta = IF b.meta = Gone THEN Gone ELSE 0
  BY <1>3, <1>4, BusFields
<1>6. PICK a \in BOOLEAN : a <=> (~ (type \in {"run.finished", "run.aborted"})
                                  /\ (u.active \/ type = "run.started" \/ ~ b.emitter))
  OBVIOUS
<1>7. PICK k \in Nat : k = IF type \in {"run.finished", "run.aborted"} THEN u.cleanups + 1 ELSE u.cleanups
  BY <1>5 DEF BusRecord
<1>8. Emitted(b, type) = [u EXCEPT !.active = ~ (type \in {"run.finished", "run.aborted"})
                                             /\ (@ \/ type = "run.started" \/ ~ b.emitter),
                                   !.cleanups = k]
  BY <1>2, <1>4, <1>7 DEF Emitted
<1>9. (~ (type \in {"run.finished", "run.aborted"}) /\ (u.active \/ type = "run.started" \/ ~ b.emitter)) \in BOOLEAN
  OBVIOUS
<1>10. Emitted(b, type) \in BusRecord
  BY <1>5, <1>8, <1>9 DEF BusRecord
<1>11. Emitted(b, type).meta = u.meta
  BY <1>5, <1>8 DEF BusRecord
<1> QED BY <1>5, <1>10, <1>11

-----------------------------------------------------------------------------
(* The chain *)

\* The job at the head of lane l of p becomes j.
Puts(p, l, j) == chain' = [chain EXCEPT ![p][l][1] = j]

\* The job at the head of lane l of p ends.
Drops(p, l) == chain' = [chain EXCEPT ![p][l] = Tail(@)]

\* A chain of jobs is what it is elsewhere, and here its head has changed.
LEMMA PutsEffect ==
  ASSUME TypeOK, NEW p \in Tasks, NEW l \in Lanes, chain[p][l] # <<>>, NEW j \in Job, Puts(p, l, j)
  PROVE  /\ chain' \in [Tasks -> [Lanes -> Seq(Job)]]
         /\ \A q \in Tasks, m \in Lanes : q # p \/ m # l => chain'[q][m] = chain[q][m]
         /\ Len(chain'[p][l]) = Len(chain[p][l]) /\ DOMAIN chain'[p][l] = DOMAIN chain[p][l]
         /\ chain'[p][l][1] = j
         /\ \A i \in DOMAIN chain[p][l] : i # 1 => chain'[p][l][i] = chain[p][l][i]
         /\ Range(chain'[p][l]) \subseteq Range(chain[p][l]) \cup {j}
         /\ \A q \in Tasks, m \in Lanes : Range(chain'[q][m]) \subseteq Range(chain[q][m]) \cup {j}
<1>1. PICK s : s = chain[p][l]
  OBVIOUS
<1>2. s \in Seq(Job) /\ s # <<>>
  BY <1>1 DEF TypeOK
<1>3. PICK r : r = [s EXCEPT ![1] = j]
  OBVIOUS
<1>4. r \in Seq(Job) /\ Len(r) = Len(s) /\ r[1] = j /\ \A i \in DOMAIN s : i # 1 => r[i] = s[i]
  BY <1>2, <1>3
<1>5. DOMAIN r = DOMAIN s
  BY <1>3
<1>6. chain' = [chain EXCEPT ![p][l] = r]
  BY <1>1, <1>3 DEF Puts
<1>7. chain[p] \in [Lanes -> Seq(Job)] /\ chain \in [Tasks -> [Lanes -> Seq(Job)]]
  BY DEF TypeOK
<1>8. chain' \in [Tasks -> [Lanes -> Seq(Job)]] /\ chain'[p][l] = r
  BY <1>4, <1>6, <1>7
<1>9. \A q \in Tasks, m \in Lanes : q # p \/ m # l => chain'[q][m] = chain[q][m]
  BY <1>6, <1>7
<1>10. Range(r) \subseteq Range(s) \cup {j}
  BY <1>4, <1>5 DEF Range
<1>11. \A q \in Tasks, m \in Lanes : Range(chain'[q][m]) \subseteq Range(chain[q][m]) \cup {j}
  BY <1>1, <1>8, <1>9, <1>10
<1> QED BY <1>1, <1>4, <1>5, <1>8, <1>9, <1>10, <1>11

\* A chain of jobs is what it is elsewhere, and here it goes on behind its head.
LEMMA DropsEffect ==
  ASSUME TypeOK, NEW p \in Tasks, NEW l \in Lanes, chain[p][l] # <<>>, Drops(p, l)
  PROVE  /\ chain' \in [Tasks -> [Lanes -> Seq(Job)]]
         /\ \A q \in Tasks, m \in Lanes : q # p \/ m # l => chain'[q][m] = chain[q][m]
         /\ \A i \in DOMAIN chain'[p][l] : /\ i + 1 \in DOMAIN chain[p][l] /\ i + 1 > 1
                                           /\ chain'[p][l][i] = chain[p][l][i + 1]
         /\ \A q \in Tasks, m \in Lanes : Range(chain'[q][m]) \subseteq Range(chain[q][m])
<1>1. PICK s : s = chain[p][l]
  OBVIOUS
<1>2. s \in Seq(Job) /\ s # <<>>
  BY <1>1 DEF TypeOK
<1>3. PICK r : r = Tail(s)
  OBVIOUS
<1>4. r \in Seq(Job) /\ \A i \in DOMAIN r : i + 1 \in DOMAIN s /\ i + 1 > 1 /\ r[i] = s[i + 1]
  BY <1>2, <1>3
<1>6. chain' = [chain EXCEPT ![p][l] = r]
  BY <1>1, <1>3 DEF Drops
<1>7. chain[p] \in [Lanes -> Seq(Job)] /\ chain \in [Tasks -> [Lanes -> Seq(Job)]]
  BY DEF TypeOK
<1>8. chain' \in [Tasks -> [Lanes -> Seq(Job)]] /\ chain'[p][l] = r
  BY <1>4, <1>6, <1>7
<1>9. \A q \in Tasks, m \in Lanes : q # p \/ m # l => chain'[q][m] = chain[q][m]
  BY <1>6, <1>7
<1>10. Range(r) \subseteq Range(s)
  BY <1>4 DEF Range
<1>11. \A q \in Tasks, m \in Lanes : Range(chain'[q][m]) \subseteq Range(chain[q][m])
  BY <1>1, <1>8, <1>9, <1>10
<1> QED BY <1>1, <1>4, <1>8, <1>9, <1>11

\* A job is enqueued behind the others of the map.
LEMMA EnqueueEffect ==
  ASSUME TypeOK, NEW p \in Tasks, NEW j \in Job, chain' = Enqueue(p, j)
  PROVE  /\ chain' \in [Tasks -> [Lanes -> Seq(Job)]]
         /\ \A q \in Tasks, m \in Lanes : q # p \/ m # "map" => chain'[q][m] = chain[q][m]
         /\ Len(chain'[p]["map"]) = Len(chain[p]["map"]) + 1
         /\ DOMAIN chain'[p]["map"] = 1 .. Len(chain[p]["map"]) + 1
         /\ DOMAIN chain[p]["map"] = 1 .. Len(chain[p]["map"])
         /\ chain'[p]["map"][Len(chain[p]["map"]) + 1] = j
         /\ \A i \in DOMAIN chain[p]["map"] : chain'[p]["map"][i] = chain[p]["map"][i]
         /\ \A q \in Tasks, m \in Lanes : Range(chain'[q][m]) \subseteq Range(chain[q][m]) \cup {j}
<1>1. PICK s : s = chain[p]["map"]
  OBVIOUS
<1>2. s \in Seq(Job)
  BY <1>1 DEF TypeOK, Lanes
<1>3. PICK r : r = Append(s, j)
  OBVIOUS
<1>4. /\ r \in Seq(Job) /\ Len(r) = Len(s) + 1 /\ r[Len(s) + 1] = j /\ DOMAIN r = 1 .. Len(s) + 1
      /\ DOMAIN s = 1 .. Len(s) /\ \A i \in DOMAIN s : r[i] = s[i]
  BY <1>2, <1>3
<1>6. chain' = [chain EXCEPT ![p]["map"] = r]
  BY <1>1, <1>3 DEF Enqueue
<1>7. chain[p] \in [Lanes -> Seq(Job)] /\ chain \in [Tasks -> [Lanes -> Seq(Job)]] /\ "map" \in Lanes
  BY DEF TypeOK, Lanes
<1>8. chain' \in [Tasks -> [Lanes -> Seq(Job)]] /\ chain'[p]["map"] = r
  BY <1>4, <1>6, <1>7
<1>9. \A q \in Tasks, m \in Lanes : q # p \/ m # "map" => chain'[q][m] = chain[q][m]
  BY <1>6, <1>7
<1>10. Range(r) \subseteq Range(s) \cup {j}
  <2> SUFFICES ASSUME NEW k \in 1 .. Len(s) + 1 PROVE r[k] \in Range(s) \cup {j}
    BY <1>4 DEF Range
  <2>1. CASE k \in DOMAIN s
    BY <2>1, <1>4 DEF Range
  <2>2. CASE k = Len(s) + 1
    BY <2>2, <1>4
  <2> QED BY <2>1, <2>2, <1>2
<1>11. \A q \in Tasks, m \in Lanes : Range(chain'[q][m]) \subseteq Range(chain[q][m]) \cup {j}
  BY <1>1, <1>8, <1>9, <1>10
<1> QED BY <1>1, <1>4, <1>8, <1>9, <1>11

\* What is enqueued are jobs.
LEMMA NewJobs ==
  /\ \A c \in Clients, i \in Nat : i \in DOMAIN Script[c] => EventsJob(Script[c][i]) \in Job
  /\ \A by \in {"request", "sweep", "reconcile"} : AbortJob(by) \in Job
BY Batches DEF EventsJob, AbortJob, Job

\* A chain works at its head; a job that goes to a step is at the head and stays
\* the same otherwise, and a job that ends makes way for the next.
LEMMA ChainSteps ==
  ASSUME TypeOK, NEW p \in Tasks, NEW l \in Lanes, NEW i, NEW kind, NEW pc, At(p, l, i, kind, pc)
  PROVE  /\ i = 1 /\ chain[p][l] # <<>> /\ 1 \in DOMAIN chain[p][l]
         /\ chain[p][l][1] \in Job /\ chain[p][l][1].kind = kind /\ chain[p][l][1].pc = pc
         /\ \A to : GoTo(p, l, i, to) => Puts(p, l, [chain[p][l][1] EXCEPT !.pc = to])
         /\ EndJob(p, l, i) => Drops(p, l)
<1>1. i = 1 /\ chain[p][l][i].kind = kind /\ chain[p][l][i].pc = pc /\ i \in DOMAIN chain[p][l]
  BY DEF At, Turn
<1>2. PICK s : s = chain[p][l]
  OBVIOUS
<1>3. s \in Seq(Job)
  BY <1>2 DEF TypeOK
<1>4. s # <<>> /\ s[1] \in Job
  BY <1>1, <1>2, <1>3
<1>5. \A to : GoTo(p, l, i, to) => Puts(p, l, [chain[p][l][1] EXCEPT !.pc = to])
  BY <1>1 DEF GoTo, Puts
<1>6. RemoveAt(s, 1) = Tail(s)
  BY <1>3, <1>4 DEF RemoveAt
<1>7. EndJob(p, l, i) => Drops(p, l)
  BY <1>1, <1>2, <1>6 DEF EndJob, Drops, TypeOK
<1> QED BY <1>1, <1>2, <1>4, <1>5, <1>7

\* A job that goes to another of its steps is the same job otherwise.
LEMMA JobFields ==
  ASSUME NEW j \in Job
  PROVE  /\ j.kind \in {"events", "abort"} /\ j.evs \in Seq(Events)
         /\ j.kind = "abort" => j.evs = <<Aborted>>
         /\ \A pc : /\ [j EXCEPT !.pc = pc].kind = j.kind /\ [j EXCEPT !.pc = pc].evs = j.evs
                    /\ [j EXCEPT !.pc = pc].by = j.by /\ [j EXCEPT !.pc = pc].pc = pc
         /\ \A pc \in {"write", "insert", "persist", "emit"} : j.kind = "events" => [j EXCEPT !.pc = pc] \in Job
         /\ \A pc \in {"check", "transition", "persist", "emit"} : j.kind = "abort" => [j EXCEPT !.pc = pc] \in Job
<1>1. <<Aborted>> \in Seq(Events)
  BY OwnEvents
<1> QED BY <1>1 DEF Job

\* The job left for the rest of a batch.
LEMMA RestOfJob ==
  ASSUME NEW j \in Job, j.kind = "events", j.evs # <<>>, Len(j.evs) # 1, NEW r,
         r = RestOf(j)
  PROVE  /\ r \in Job /\ r.kind = "events" /\ r.by = j.by /\ r.pc = "write" /\ r.evs = Tail(j.evs)
         /\ r.evs # <<>> /\ r.evs \in Seq(Events)
         /\ \A k \in DOMAIN r.evs : k + 1 \in DOMAIN j.evs /\ r.evs[k] = j.evs[k + 1]
         /\ \A k \in DOMAIN j.evs : k = 1 \/ (k - 1 \in DOMAIN r.evs /\ r.evs[k - 1] = j.evs[k])
<1>1. j.evs \in Seq(Events)
  BY JobFields
<1>0. Len(j.evs) \in Nat /\ Len(j.evs) > 1
  <2>1. PICK v \in Seq(Events) : v = j.evs
    BY <1>1
  <2>2. v # <<>> /\ Len(v) # 1
    BY <2>1
  <2>3. Len(v) \in Nat /\ Len(v) # 0
    BY <2>2, EmptySeq
  <2>4. \A m \in Nat : m # 0 /\ m # 1 => m > 1
    OBVIOUS
  <2>5. Len(v) > 1
    BY <2>2, <2>3, <2>4
  <2> QED BY <2>1, <2>3, <2>5
<1>2. PICK s : s = Tail(j.evs)
  OBVIOUS
<1>3. /\ s \in Seq(Events) /\ Len(s) = Len(j.evs) - 1 /\ Len(s) > 0
      /\ \A k \in 1 .. Len(s) : s[k] = j.evs[k + 1]
  BY <1>0, <1>1, <1>2
<1>4. r \in Job /\ r.kind = "events" /\ r.by = j.by /\ r.pc = "write" /\ r.evs = s
  BY <1>2, <1>3 DEF Job, RestOf
<1>5. DOMAIN s = 1 .. Len(s) /\ DOMAIN j.evs = 1 .. Len(j.evs) /\ s # <<>>
  BY <1>1, <1>3
<1> QED BY <1>1, <1>2, <1>3, <1>4, <1>5

-----------------------------------------------------------------------------
(* The types *)

\* Every job has something to do.
NoEmptyJob == \A p \in Tasks, l \in Lanes : \A j \in Range(chain[p][l]) : j.evs # <<>>

\* A batch of the script that was sent, the latest as long as no two POSTs overlap.
InHand(c, b) ==
  /\ b \in DOMAIN Script[c] /\ b < post[c].next
  /\ ~ post[c].overlapped => b + 1 = post[c].next

\* A POST that is not a heartbeat carries such a batch.
BatchInHand ==
  \A c \in Clients, k \in Sockets : post[c].req[k].batch > 0 => InHand(c, post[c].req[k].batch)

\* The end of a step of a batch or of an abort.
LEMMA NextEventSteps ==
  ASSUME TypeOK, NoEmptyJob, NEW p \in Tasks, NEW l \in Lanes, NEW i, NEW kind,
         At(p, l, i, kind, "emit"), NextEvent(p, l, i)
  PROVE  \/ Drops(p, l)
         \/ /\ kind = "events" /\ Len(chain[p][l][1].evs) # 1
            /\ Puts(p, l, RestOf(chain[p][l][1]))
<1>1. /\ i = 1 /\ chain[p][l] # <<>> /\ chain[p][l][1] \in Job /\ chain[p][l][1].kind = kind
      /\ EndJob(p, l, i) => Drops(p, l)
  BY ChainSteps
<1>2. CASE EndJob(p, l, i)
  BY <1>1, <1>2
<1>3. CASE /\ Len(chain[p][l][1].evs) # 1
           /\ chain' = [chain EXCEPT ![p][l][i] = RestOf(@)]
  <2>1. chain[p][l][1].kind # "abort"
    <3>1. Len(<<Aborted>>) = 1
      OBVIOUS
    <3> QED BY <3>1, <1>1, <1>3, JobFields
  <2>2. kind = "events"
    BY <2>1, <1>1, JobFields
  <2>3. Puts(p, l, RestOf(chain[p][l][1]))
    BY <1>1, <1>3 DEF Puts
  <2> QED BY <1>3, <2>2, <2>3
<1> QED BY <1>1, <1>2, <1>3 DEF NextEvent

\* The steps of the chain of p, and the failures of its statements.
Working(p, l, i) ==
  \/ JobForgotten(p, l, i) \/ WriteEvent(p, l, i) \/ InsertResult(p, l, i)
  \/ Persist(p, l, i) \/ Emit(p, l, i) \/ AbortCheck(p, l, i) \/ Transition(p, l, i)
  \/ Fault(p, l, i)

\* A chain works at its head, and the job there goes on with events it has, or ends.
LEMMA WorkingAtHead ==
  ASSUME TypeOK, NoEmptyJob, NEW p \in Tasks, NEW l \in Lanes, NEW i \in DOMAIN chain[p][l], Working(p, l, i)
  PROVE  /\ i = 1 /\ chain[p][l] # <<>> /\ chain[p][l][1] \in Job /\ 1 \in DOMAIN chain[p][l]
         /\ \/ Drops(p, l)
            \/ \E j \in Job : /\ Puts(p, l, j) /\ j.kind = chain[p][l][1].kind /\ j.by = chain[p][l][1].by
                              /\ j.evs # <<>> /\ Range(j.evs) \subseteq Range(chain[p][l][1].evs)
<1>0. \E kind, pc : At(p, l, i, kind, pc)
  BY DEF Working, JobForgotten, WriteEvent, InsertResult, Persist, Emit, AbortCheck, Transition, Fault
<1>1. i = 1 /\ chain[p][l] # <<>> /\ chain[p][l][1] \in Job /\ 1 \in DOMAIN chain[p][l]
  BY <1>0, ChainSteps
<1>2. PICK h \in Job : h = chain[p][l][1]
  BY <1>1
<1>3. h.evs # <<>> /\ h.evs \in Seq(Events)
  <2>1. chain[p][l][1].evs # <<>>
    BY <1>1 DEF NoEmptyJob, Range
  <2>2. h.evs \in Seq(Events)
    BY JobFields
  <2> QED BY <2>1, <2>2, <1>2
<1>4. ASSUME NEW pc \in {"write", "insert", "persist", "emit"}, h.kind = "events",
             NEW from, At(p, l, i, "events", from), GoTo(p, l, i, pc)
      PROVE  \E j \in Job : /\ Puts(p, l, j) /\ j.kind = h.kind /\ j.by = h.by
                            /\ j.evs # <<>> /\ Range(j.evs) \subseteq Range(h.evs)
  <2>1. Puts(p, l, [h EXCEPT !.pc = pc])
    BY <1>2, <1>4, ChainSteps
  <2>2. PICK j : j = [h EXCEPT !.pc = pc]
    OBVIOUS
  <2>3. j \in Job
    BY <2>2, <1>4, JobFields
  <2>4. j.kind = h.kind /\ j.by = h.by /\ j.evs = h.evs
    BY <2>2, JobFields
  <2> QED BY <2>1, <2>2, <2>3, <2>4, <1>3
<1>5. ASSUME NEW pc \in {"check", "transition", "persist", "emit"}, h.kind = "abort",
             NEW from, At(p, l, i, "abort", from), GoTo(p, l, i, pc)
      PROVE  \E j \in Job : /\ Puts(p, l, j) /\ j.kind = h.kind /\ j.by = h.by
                            /\ j.evs # <<>> /\ Range(j.evs) \subseteq Range(h.evs)
  <2>1. Puts(p, l, [h EXCEPT !.pc = pc])
    BY <1>2, <1>5, ChainSteps
  <2>2. PICK j : j = [h EXCEPT !.pc = pc]
    OBVIOUS
  <2>3. j \in Job
    BY <2>2, <1>5, JobFields
  <2>4. j.kind = h.kind /\ j.by = h.by /\ j.evs = h.evs
    BY <2>2, JobFields
  <2> QED BY <2>1, <2>2, <2>3, <2>4, <1>3
<1>6. \A kind, pc : At(p, l, i, kind, pc) => h.kind = kind /\ (EndJob(p, l, i) => Drops(p, l))
  BY <1>2, ChainSteps
<1>7. CASE JobForgotten(p, l, i)
  BY <1>7, <1>1, <1>6 DEF JobForgotten
<1>8. CASE WriteEvent(p, l, i)
  <2>1. At(p, l, i, "events", "write") /\ (GoTo(p, l, i, "insert") \/ GoTo(p, l, i, "persist"))
    BY <1>8 DEF WriteEvent
  <2> QED BY <2>1, <1>1, <1>2, <1>4, <1>6
<1>9. CASE InsertResult(p, l, i)
  <2>1. At(p, l, i, "events", "insert") /\ GoTo(p, l, i, "persist")
    BY <1>9 DEF InsertResult
  <2> QED BY <2>1, <1>1, <1>2, <1>4, <1>6
<1>10. CASE Persist(p, l, i)
  <2>1. PICK kind \in {"events", "abort"} : At(p, l, i, kind, "persist") /\ GoTo(p, l, i, "emit")
    BY <1>10 DEF Persist
  <2> QED BY <2>1, <1>1, <1>2, <1>4, <1>5, <1>6
<1>11. CASE Emit(p, l, i)
  <2>1. PICK kind \in {"events", "abort"} : At(p, l, i, kind, "emit") /\ NextEvent(p, l, i)
    BY <1>11 DEF Emit
  <2>2. CASE Drops(p, l)
    BY <2>2, <1>1
  <2>3. CASE kind = "events" /\ Len(h.evs) # 1 /\ Puts(p, l, RestOf(h))
    <3>0. h.kind = "events"
      BY <2>1, <2>3, <1>6
    <3>1. PICK r : r = RestOf(h)
      OBVIOUS
    <3>2. /\ r \in Job /\ r.kind = h.kind /\ r.by = h.by /\ r.evs # <<>>
          /\ \A k \in DOMAIN r.evs : k + 1 \in DOMAIN h.evs /\ r.evs[k] = h.evs[k + 1]
      BY <3>0, <3>1, <2>3, <1>3, RestOfJob
    <3>3. Range(r.evs) \subseteq Range(h.evs)
      BY <3>2 DEF Range
    <3> QED BY <3>1, <3>2, <3>3, <2>3, <1>1, <1>2
  <2> QED BY <2>1, <2>2, <2>3, <1>2, NextEventSteps
<1>12. CASE AbortCheck(p, l, i)
  <2>1. At(p, l, i, "abort", "check") /\ (GoTo(p, l, i, "transition") \/ EndJob(p, l, i))
    BY <1>12 DEF AbortCheck
  <2> QED BY <2>1, <1>1, <1>2, <1>5, <1>6
<1>13. CASE Transition(p, l, i)
  <2>1. At(p, l, i, "abort", "transition") /\ GoTo(p, l, i, "persist")
    BY <1>13 DEF Transition
  <2> QED BY <2>1, <1>1, <1>2, <1>5, <1>6
<1>14. CASE Fault(p, l, i)
  <2>1. \/ \E pc \in {"write", "insert"} : At(p, l, i, "events", pc) /\ GoTo(p, l, i, "persist")
        \/ At(p, l, i, "abort", "transition") /\ GoTo(p, l, i, "persist")
        \/ At(p, l, i, "events", "persist") /\ GoTo(p, l, i, "emit")
        \/ At(p, l, i, "abort", "persist") /\ GoTo(p, l, i, "emit")
        \/ At(p, l, i, "abort", "check") /\ EndJob(p, l, i)
    BY <1>14 DEF Fault
  <2> QED BY <2>1, <1>1, <1>2, <1>4, <1>5, <1>6
<1> QED BY <1>7, <1>8, <1>9, <1>10, <1>11, <1>12, <1>13, <1>14 DEF Working

\* The event a job is at.
LEMMA HeadEvent ==
  ASSUME NEW j \in Job, j.evs # <<>>
  PROVE  /\ Head(j.evs) \in Events /\ Head(j.evs) = j.evs[1] /\ 1 \in DOMAIN j.evs
         /\ Head(j.evs) \in Range(j.evs)
         /\ j.kind = "abort" => Head(j.evs) = Aborted
<1>1. PICK v \in Seq(Events) : v = j.evs
  BY JobFields
<1>2. v # <<>>
  BY <1>1
<1>3. Head(v) \in Events /\ Head(v) = v[1] /\ 1 \in DOMAIN v
  BY <1>2
<1>4. Head(v) \in Range(v)
  BY <1>3 DEF Range
<1>5. Head(<<Aborted>>) = Aborted
  OBVIOUS
<1> QED BY <1>1, <1>3, <1>4, <1>5, JobFields

\* The rows of a test are counted by its result; a result is one of the statuses.
LEMMA RowTypes ==
  ASSUME rows \in [Tests -> [Statuses -> Nat]]
  PROVE  /\ \A t \in Tests : Count(t) \in Nat
         /\ \A e \in Events : e.type \in TestTypes => e.test \in Tests /\ StatusOf(e) \in Statuses
         /\ \A e \in Events : e.type = "test.started" => e.test \in Tests
<1>1. \A t \in Tests : Count(t) \in Nat
  BY DEF Count, Statuses
<1>2. \A e \in Events : e.type \in TestTypes \cup {"test.started"} => e.test \in Tests
  BY DEF Tests
<1>3. \A e \in Events : e.type \in TestTypes => StatusOf(e) \in Statuses
  BY DEF StatusOf, TestTypes, Statuses
<1> QED BY <1>1, <1>2, <1>3

\* The run starts typed.
LEMMA TypesInit == Init => TypeOK /\ NoEmptyJob
<1> SUFFICES ASSUME Init PROVE TypeOK /\ NoEmptyJob
  OBVIOUS
<1> USE DEF Init
<1>1. run \in RunRecord
  BY AgeAssumption DEF RunRecord
<1>2. rows \in [Tests -> [Statuses -> Nat]] /\ <<>> \in Seq(Events) /\ <<>> \in Seq(Job)
  OBVIOUS
<1>3. bus \in [Tasks -> BusRecord]
  BY AgeAssumption DEF IdleBus, BusRecord, Gone
<1>4. chain \in [Tasks -> [Lanes -> Seq(Job)]] /\ NoEmptyJob
  <2>1. \A p \in Tasks, l \in Lanes : chain[p][l] = <<>>
    OBVIOUS
  <2>2. Range(<<>>) = {}
    BY DEF Range
  <2> QED BY <2>1, <2>2, <1>2 DEF NoEmptyJob
<1>5. post \in [Clients -> PostRecord]
  BY DEF PostRecord, Request, NoRequest
<1>6. server \in [Tasks -> ServerRecord]
  BY DEF IdleServer, ServerRecord
<1>7. used \in UsedRecord
  BY BoundAssumption DEF UsedRecord
<1> QED BY <1>1, <1>2, <1>3, <1>4, <1>5, <1>6, <1>7 DEF TypeOK

\* A counter below its bound may be counted up.
LEMMA UsedTypes ==
  ASSUME used \in UsedRecord
  PROVE  /\ used.starts < MaxStarts => [used EXCEPT !.starts = @ + 1] \in UsedRecord
         /\ used.aborts < MaxAborts => [used EXCEPT !.aborts = @ + 1] \in UsedRecord
         /\ used.beats < MaxBeats => [used EXCEPT !.beats = @ + 1] \in UsedRecord
         /\ used.retries < MaxRetries => [used EXCEPT !.retries = @ + 1] \in UsedRecord
         /\ Failures < MaxFailures => /\ [used EXCEPT !.crashes = @ + 1] \in UsedRecord
                                      /\ [used EXCEPT !.faults = @ + 1] \in UsedRecord
<1>1. \A m \in Nat : \A n \in 0 .. m : n < m => n + 1 \in 0 .. m
  OBVIOUS
<1>2. /\ used.starts \in 0 .. MaxStarts /\ used.aborts \in 0 .. MaxAborts /\ used.beats \in 0 .. MaxBeats
      /\ used.retries \in 0 .. MaxRetries /\ used.crashes \in 0 .. MaxFailures
      /\ used.faults \in 0 .. MaxFailures
  BY DEF UsedRecord
<1>3. Failures < MaxFailures => used.crashes < MaxFailures /\ used.faults < MaxFailures
  BY <1>2, BoundAssumption DEF Failures
<1>4. used.starts < MaxStarts => [used EXCEPT !.starts = @ + 1] \in UsedRecord
  <2>1. used.starts < MaxStarts => used.starts + 1 \in 0 .. MaxStarts
    BY <1>1, <1>2, BoundAssumption
  <2> QED BY <2>1 DEF UsedRecord
<1>5. used.aborts < MaxAborts => [used EXCEPT !.aborts = @ + 1] \in UsedRecord
  <2>1. used.aborts < MaxAborts => used.aborts + 1 \in 0 .. MaxAborts
    BY <1>1, <1>2, BoundAssumption
  <2> QED BY <2>1 DEF UsedRecord
<1>6. used.beats < MaxBeats => [used EXCEPT !.beats = @ + 1] \in UsedRecord
  <2>1. used.beats < MaxBeats => used.beats + 1 \in 0 .. MaxBeats
    BY <1>1, <1>2, BoundAssumption
  <2> QED BY <2>1 DEF UsedRecord
<1>7. used.retries < MaxRetries => [used EXCEPT !.retries = @ + 1] \in UsedRecord
  <2>1. used.retries < MaxRetries => used.retries + 1 \in 0 .. MaxRetries
    BY <1>1, <1>2, BoundAssumption
  <2> QED BY <2>1 DEF UsedRecord
<1>8. Failures < MaxFailures => /\ [used EXCEPT !.crashes = @ + 1] \in UsedRecord
                               /\ [used EXCEPT !.faults = @ + 1] \in UsedRecord
  <2>1. Failures < MaxFailures => /\ used.crashes + 1 \in 0 .. MaxFailures
                                 /\ used.faults + 1 \in 0 .. MaxFailures
    BY <1>1, <1>2, <1>3, BoundAssumption
  <2> QED BY <2>1 DEF UsedRecord
<1> QED BY <1>4, <1>5, <1>6, <1>7, <1>8

\* The row of the run after an update of it.
LEMMA RunTypes ==
  ASSUME run \in RunRecord
  PROVE  /\ [run EXCEPT !.row = "live"] \in RunRecord
         /\ [run EXCEPT !.row = "deleted"] \in RunRecord
         /\ [run EXCEPT !.row = "live", !.finished = TRUE] \in RunRecord
         /\ \A a \in 0 .. StaleAge : [run EXCEPT !.age = a] \in RunRecord
         /\ \A b \in BOOLEAN : [run EXCEPT !.late = b] \in RunRecord
         /\ \A a \in 0 .. StaleAge, b \in BOOLEAN : [run EXCEPT !.age = a, !.silent = b] \in RunRecord
BY DEF RunRecord

\* The steps of the chain keep the types.
LEMMA WorkingTypes ==
  ASSUME TypeOK, NoEmptyJob, NEW p \in Tasks, NEW l \in Lanes, NEW i \in DOMAIN chain[p][l], Working(p, l, i)
  PROVE  TypeOK' /\ NoEmptyJob'
<1>1. /\ i = 1 /\ chain[p][l] # <<>> /\ chain[p][l][1] \in Job /\ 1 \in DOMAIN chain[p][l]
      /\ \/ Drops(p, l)
         \/ \E j \in Job : Puts(p, l, j) /\ j.evs # <<>>
  BY WorkingAtHead
<1>2. chain' \in [Tasks -> [Lanes -> Seq(Job)]] /\ NoEmptyJob'
  <2>1. CASE Drops(p, l)
    <3>1. /\ chain' \in [Tasks -> [Lanes -> Seq(Job)]]
          /\ \A q \in Tasks, m \in Lanes : Range(chain'[q][m]) \subseteq Range(chain[q][m])
      BY <2>1, <1>1, DropsEffect
    <3> QED BY <3>1 DEF NoEmptyJob
  <2>2. ASSUME NEW j \in Job, Puts(p, l, j), j.evs # <<>>
        PROVE  chain' \in [Tasks -> [Lanes -> Seq(Job)]] /\ NoEmptyJob'
    <3>1. /\ chain' \in [Tasks -> [Lanes -> Seq(Job)]]
          /\ \A q \in Tasks, m \in Lanes : Range(chain'[q][m]) \subseteq Range(chain[q][m]) \cup {j}
      BY <2>2, <1>1, PutsEffect
    <3> QED BY <3>1, <2>2 DEF NoEmptyJob
  <2> QED BY <2>1, <2>2, <1>1
<1>3. PICK h \in Job : h = chain[p][l][1]
  BY <1>1
<1>4. PICK e \in Events : e = Head(h.evs) /\ e = Head(chain[p][l][i].evs)
  <2>1. chain[p][l][1].evs # <<>>
    BY <1>1 DEF NoEmptyJob, Range
  <2> QED BY <2>1, <1>1, <1>3, HeadEvent
<1>5. rows \in [Tests -> [Statuses -> Nat]]
  BY DEF TypeOK
<1>6. CASE WriteEvent(p, l, i)
  <2>1. rows' \in [Tests -> [Statuses -> Nat]]
    <3>1. \/ rows' = rows
          \/ /\ e.type = "test.started"
             /\ rows' = [rows EXCEPT ![e.test]["pending"] = 1]
          \/ /\ e.type \in TestTypes
             /\ rows' = [rows EXCEPT ![e.test] = [s \in Statuses |->
                                  IF s = StatusOf(e) THEN Count(e.test) ELSE 0]]
      BY <1>4, <1>6 DEF WriteEvent
    <3> QED BY <3>1, <1>5, RowTypes
  <2> QED BY <2>1, <1>2, <1>6 DEF WriteEvent, TypeOK
<1>7. CASE InsertResult(p, l, i)
  <2>1. e.type \in TestTypes \/ e.type \notin TestTypes
    OBVIOUS
  <2>2. rows' = rows \/ rows' = [rows EXCEPT ![e.test][StatusOf(e)] = @ + 1]
    BY <1>4, <1>7 DEF InsertResult
  <2>3. rows' \in [Tests -> [Statuses -> Nat]]
    BY <2>2, <1>5
  <2> QED BY <2>3, <1>2, <1>7 DEF InsertResult, TypeOK
<1>8. CASE Persist(p, l, i)
  <2>1. history' = history \/ history' = Append(history, e)
    BY <1>4, <1>8 DEF Persist
  <2>2. history' \in Seq(Events)
    <3>1. history \in Seq(Events)
      BY DEF TypeOK
    <3> QED BY <2>1, <3>1
  <2> QED BY <2>2, <1>2, <1>8 DEF Persist, TypeOK
<1>9. CASE Emit(p, l, i)
  <2>1. sse' = sse \cup {e} /\ bus' = [bus EXCEPT ![p] = Emitted(bus[p], e.type)]
    BY <1>4, <1>9 DEF Emit
  <2>2. bus' \in [Tasks -> BusRecord]
    BY <2>1, EmittedFields DEF TypeOK
  <2>3. sse' \subseteq Events
    BY <2>1 DEF TypeOK
  <2> QED BY <2>2, <2>3, <1>2, <1>9 DEF Emit, TypeOK
<1>10. CASE JobForgotten(p, l, i) \/ AbortCheck(p, l, i)
  BY <1>10, <1>2 DEF JobForgotten, AbortCheck, TypeOK
<1>11. CASE Transition(p, l, i)
  <2>1. rows' = [t \in Tests |-> [rows[t] EXCEPT !["pending"] = 0, !["skipped"] = @ + rows[t]["pending"]]]
    BY <1>11 DEF Transition
  <2>2. rows' \in [Tests -> [Statuses -> Nat]]
    BY <2>1, <1>5 DEF Statuses
  <2> QED BY <2>2, <1>2, <1>11 DEF Transition, TypeOK
<1>12. CASE Fault(p, l, i)
  <2>1. used' = [used EXCEPT !.faults = @ + 1] /\ Failures < MaxFailures
    BY <1>12 DEF Fault
  <2>2. used' \in UsedRecord
    BY <2>1, UsedTypes DEF TypeOK
  <2> QED BY <2>2, <1>2, <1>12 DEF Fault, TypeOK
<1> QED BY <1>6, <1>7, <1>8, <1>9, <1>10, <1>11, <1>12 DEF Working

\* What a bus that a step of time, a cleanup or a forgetting leaves is.
LEMMA BusTypes ==
  ASSUME NEW b \in BusRecord
  PROVE  /\ OlderBus(b) \in BusRecord
         /\ OlderBus(b).meta = IF b.meta = Gone THEN Gone ELSE IF b.meta < StaleAge THEN b.meta + 1 ELSE StaleAge
         /\ OlderBus(b).active = b.active
         /\ \A n \in Nat : [IdleBus EXCEPT !.cleanups = n] \in BusRecord /\ [IdleBus EXCEPT !.cleanups = n].meta = Gone
         /\ \A a \in BOOLEAN, n \in Nat : /\ [IdleBus EXCEPT !.active = a, !.cleanups = n] \in BusRecord
                                          /\ [IdleBus EXCEPT !.active = a, !.cleanups = n].meta = Gone
<1>0. IdleBus \in BusRecord /\ IdleBus.meta = Gone
  <2>1. Gone \in Gone .. StaleAge /\ 0 \in 0 .. IdleAge
    BY AgeAssumption DEF Gone
  <2> QED BY <2>1 DEF IdleBus, BusRecord
<1>1. ASSUME NEW n \in Nat
      PROVE  [IdleBus EXCEPT !.cleanups = n] \in BusRecord /\ [IdleBus EXCEPT !.cleanups = n].meta = Gone
  BY <1>0 DEF BusRecord
<1>2. ASSUME NEW a \in BOOLEAN, NEW n \in Nat
      PROVE  /\ [IdleBus EXCEPT !.active = a, !.cleanups = n] \in BusRecord
             /\ [IdleBus EXCEPT !.active = a, !.cleanups = n].meta = Gone
  BY <1>0 DEF BusRecord
<1>3. PICK m : m = IF b.meta = Gone THEN Gone ELSE Older(b.meta, StaleAge)
  OBVIOUS
<1>4. b.meta \in Gone .. StaleAge /\ b.idle \in 0 .. IdleAge
  BY DEF BusRecord
<1>5. /\ m \in Gone .. StaleAge
      /\ m = IF b.meta = Gone THEN Gone ELSE IF b.meta < StaleAge THEN b.meta + 1 ELSE StaleAge
  BY <1>3, <1>4, AgeAssumption DEF Gone, Older
<1>6. PICK i \in 0 .. IdleAge : i = IF b.emitter THEN Older(b.idle, IdleAge) ELSE b.idle
  BY <1>4, AgeAssumption DEF Older
<1>7. OlderBus(b) = [b EXCEPT !.meta = m, !.idle = i]
  BY <1>3, <1>6 DEF OlderBus
<1>8. /\ OlderBus(b) \in BusRecord /\ OlderBus(b).meta = m /\ OlderBus(b).active = b.active
  BY <1>5, <1>7 DEF BusRecord
<1> QED BY <1>1, <1>2, <1>5, <1>8

\* One POST of a reporter becomes r; those of the others stay.
Becomes(c, k, r) ==
  /\ post'[c].req[k] = r
  /\ \A j \in Sockets : j # k => post'[c].req[j] = post[c].req[j]
  /\ \A d \in Clients : d # c => post'[d] = post[d]

\* A reporter only goes on in its script, and does not undo an overlap.
GoesOn(c) ==
  /\ post'[c].next = post[c].next \/ post'[c].next = post[c].next + 1
  /\ post[c].overlapped => post'[c].overlapped

\* A POST of a reporter that changes, in a record that does.
LEMMA PostChange ==
  ASSUME post \in [Clients -> PostRecord], NEW c \in Clients, NEW k \in Sockets,
         NEW n \in Nat, NEW o \in BOOLEAN, NEW r \in Request,
         post' = [post EXCEPT ![c] = [next |-> n, overlapped |-> o, req |-> [post[c].req EXCEPT ![k] = r]]]
  PROVE  /\ post' \in [Clients -> PostRecord] /\ Becomes(c, k, r)
         /\ post'[c].next = n /\ post'[c].overlapped = o
<1>1. PICK f : f = [post[c].req EXCEPT ![k] = r]
  OBVIOUS
<1>2. /\ f \in [Sockets -> Request] /\ f[k] = r /\ \A j \in Sockets : j # k => f[j] = post[c].req[j]
  BY <1>1 DEF PostRecord
<1>3. PICK v : v = [next |-> n, overlapped |-> o, req |-> f]
  OBVIOUS
<1>4. v \in PostRecord /\ v.next = n /\ v.overlapped = o /\ v.req = f
  BY <1>2, <1>3 DEF PostRecord
<1>5. post' = [post EXCEPT ![c] = v]
  BY <1>1, <1>3
<1>6. post'[c] = v /\ \A d \in Clients : d # c => post'[d] = post[d]
  BY <1>5
<1>7. post' \in [Clients -> PostRecord]
  BY <1>4, <1>5
<1> QED BY <1>2, <1>4, <1>6, <1>7 DEF Becomes

\* What each step of a POST does to the reporter's record.
LEMMA PostSteps ==
  ASSUME TypeOK, NEW c \in Clients, NEW k \in Sockets
  PROVE  /\ PostSend(c, k) =>
              /\ post' \in [Clients -> PostRecord]
              /\ Becomes(c, k, [batch |-> post[c].next, at |-> NoTask])
              /\ post'[c].next = post[c].next + 1
              /\ post'[c].overlapped <=> post[c].overlapped \/ \E j \in Sockets : post[c].req[j].batch > 0
         /\ \A j \in Sockets : PostResend(c, k, j) =>
              /\ post' \in [Clients -> PostRecord]
              /\ Becomes(c, j, [batch |-> post[c].req[k].batch, at |-> NoTask])
              /\ post'[c].next = post[c].next /\ post'[c].overlapped = post[c].overlapped
         /\ \A p \in Tasks : PostArrive(c, k, p) =>
              /\ post' \in [Clients -> PostRecord]
              /\ Becomes(c, k, [batch |-> post[c].req[k].batch, at |-> p])
              /\ post'[c].next = post[c].next /\ post'[c].overlapped = post[c].overlapped
         /\ \A answered \in BOOLEAN : PostSync(c, k, answered) =>
              /\ post' \in [Clients -> PostRecord]
              /\ Becomes(c, k, IF answered THEN NoRequest ELSE [batch |-> post[c].req[k].batch, at |-> NoTask])
              /\ post'[c].next = post[c].next /\ post'[c].overlapped = post[c].overlapped
<1>t. /\ post \in [Clients -> PostRecord] /\ post[c].req \in [Sockets -> Request]
      /\ post[c].next \in Nat /\ post[c].overlapped \in BOOLEAN
      /\ \A j \in Sockets : post[c].req[j] \in Request /\ post[c].req[j].batch \in Nat
  BY DEF TypeOK, PostRecord, Request
<1>f. \A j \in Sockets : Free(c, j) => post[c].req[j] = [batch |-> 0, at |-> NoTask]
  BY DEF Free, NoRequest
<1>1. ASSUME PostSend(c, k)
      PROVE  /\ post' \in [Clients -> PostRecord]
             /\ Becomes(c, k, [batch |-> post[c].next, at |-> NoTask])
             /\ post'[c].next = post[c].next + 1
             /\ post'[c].overlapped <=> post[c].overlapped \/ \E j \in Sockets : post[c].req[j].batch > 0
  <2>1. PICK o \in BOOLEAN : o = (post[c].overlapped \/ \E j \in Sockets : post[c].req[j].batch > 0)
    OBVIOUS
  <2>2. PICK r \in Request : r = [batch |-> post[c].next, at |-> NoTask]
    BY <1>t DEF Request
  <2>3. r = [post[c].req[k] EXCEPT !.batch = post[c].next]
    BY <2>2, <1>1, <1>f DEF PostSend
  <2>4. post' = [post EXCEPT ![c].req[k].batch = post[c].next, ![c].next = @ + 1, ![c].overlapped = o]
    BY <2>1, <1>1 DEF PostSend
  <2>5. post' = [post EXCEPT ![c] = [next |-> post[c].next + 1, overlapped |-> o,
                                     req |-> [post[c].req EXCEPT ![k] = r]]]
    BY <2>3, <2>4, <1>t DEF PostRecord
  <2>6. post[c].next + 1 \in Nat
    BY <1>t
  <2>7. /\ post' \in [Clients -> PostRecord] /\ Becomes(c, k, r)
        /\ post'[c].next = post[c].next + 1 /\ post'[c].overlapped = o
    BY <2>5, <2>6, <1>t, PostChange
  <2> QED BY <2>1, <2>2, <2>7
<1>2. ASSUME NEW j \in Sockets, NEW r \in Request, post' = [post EXCEPT ![c].req[j] = r]
      PROVE  /\ post' \in [Clients -> PostRecord] /\ Becomes(c, j, r)
             /\ post'[c].next = post[c].next /\ post'[c].overlapped = post[c].overlapped
  <2>1. PICK f : f = [post[c].req EXCEPT ![j] = r]
    OBVIOUS
  <2>2. post' = [post EXCEPT ![c] = [post[c] EXCEPT !.req = f]]
    BY <2>1, <1>2
  <2>3. [post[c] EXCEPT !.req = f] = [next |-> post[c].next, overlapped |-> post[c].overlapped, req |-> f]
    BY <1>t DEF PostRecord
  <2>4. post' = [post EXCEPT ![c] = [next |-> post[c].next, overlapped |-> post[c].overlapped,
                                     req |-> [post[c].req EXCEPT ![j] = r]]]
    BY <2>1, <2>2, <2>3
  <2> QED BY <2>4, <1>t, PostChange
<1>3. ASSUME NEW j \in Sockets, PostResend(c, k, j)
      PROVE  /\ post' \in [Clients -> PostRecord]
             /\ Becomes(c, j, [batch |-> post[c].req[k].batch, at |-> NoTask])
             /\ post'[c].next = post[c].next /\ post'[c].overlapped = post[c].overlapped
  <2>1. PICK r \in Request : r = [batch |-> post[c].req[k].batch, at |-> NoTask]
    BY <1>t DEF Request
  <2>2. r = [post[c].req[j] EXCEPT !.batch = post[c].req[k].batch]
    BY <2>1, <1>3, <1>f DEF PostResend
  <2>3. post' = [post EXCEPT ![c].req[j].batch = post[c].req[k].batch]
    BY <1>3 DEF PostResend
  <2>4. post' = [post EXCEPT ![c].req[j] = r]
    BY <2>2, <2>3, <1>t
  <2> QED BY <2>1, <2>4, <1>2
<1>4. ASSUME NEW p \in Tasks, PostArrive(c, k, p)
      PROVE  /\ post' \in [Clients -> PostRecord]
             /\ Becomes(c, k, [batch |-> post[c].req[k].batch, at |-> p])
             /\ post'[c].next = post[c].next /\ post'[c].overlapped = post[c].overlapped
  <2>1. PICK r \in Request : r = [batch |-> post[c].req[k].batch, at |-> p]
    BY <1>t DEF Request
  <2>2. r = [post[c].req[k] EXCEPT !.at = p]
    BY <2>1, <1>t DEF Request
  <2>3. post' = [post EXCEPT ![c].req[k].at = p]
    BY <1>4 DEF PostArrive
  <2>4. post' = [post EXCEPT ![c].req[k] = r]
    BY <2>2, <2>3, <1>t
  <2> QED BY <2>1, <2>4, <1>2
<1>5. ASSUME NEW answered \in BOOLEAN, PostSync(c, k, answered)
      PROVE  /\ post' \in [Clients -> PostRecord]
             /\ Becomes(c, k, IF answered THEN NoRequest ELSE [batch |-> post[c].req[k].batch, at |-> NoTask])
             /\ post'[c].next = post[c].next /\ post'[c].overlapped = post[c].overlapped
  <2>1. PICK r : r = Ended(post[c].req[k], answered)
    OBVIOUS
  <2>2. r = IF answered THEN NoRequest ELSE [batch |-> post[c].req[k].batch, at |-> NoTask]
    BY <2>1, <1>t DEF Ended, Request
  <2>3. r \in Request
    BY <2>2, <1>t DEF Request, NoRequest
  <2>4. post' = [post EXCEPT ![c].req[k] = r]
    BY <2>1, <1>5 DEF PostSync
  <2> QED BY <2>2, <2>3, <2>4, <1>2
<1> QED BY <1>1, <1>3, <1>4, <1>5

\* A crash takes the POSTs away from the task and leaves their batches to the reporters.
LEMMA PostCrash ==
  ASSUME TypeOK, NEW p \in Tasks, Crash(p)
  PROVE  /\ post' \in [Clients -> PostRecord]
         /\ \A c \in Clients :
              /\ post'[c].next = post[c].next /\ post'[c].overlapped = post[c].overlapped
              /\ \A k \in Sockets : /\ post'[c].req[k].batch = post[c].req[k].batch
                                     /\ post'[c].req[k].at \in {post[c].req[k].at, NoTask}
<1>t. /\ post \in [Clients -> PostRecord]
      /\ \A c \in Clients : /\ post[c] \in PostRecord
                             /\ \A j \in Sockets : post[c].req[j] \in Request
  BY DEF TypeOK, PostRecord
<1>1. \A c \in Clients : post'[c] = [post[c] EXCEPT !.req = [k \in Sockets |->
              IF post[c].req[k].at = p THEN Ended(post[c].req[k], FALSE) ELSE post[c].req[k]]]
  BY DEF Crash
<1>2. DOMAIN post' = Clients /\ post' = [c \in Clients |-> post'[c]]
  BY DEF Crash
<1>3. ASSUME NEW c \in Clients
      PROVE  /\ post'[c] \in PostRecord
             /\ post'[c].next = post[c].next /\ post'[c].overlapped = post[c].overlapped
             /\ \A k \in Sockets : /\ post'[c].req[k].batch = post[c].req[k].batch
                                    /\ post'[c].req[k].at \in {post[c].req[k].at, NoTask}
  <2>1. PICK f : f = [k \in Sockets |->
              IF post[c].req[k].at = p THEN Ended(post[c].req[k], FALSE) ELSE post[c].req[k]]
    OBVIOUS
  <2>2. \A k \in Sockets : /\ f[k] \in Request /\ f[k].batch = post[c].req[k].batch
                           /\ f[k].at \in {post[c].req[k].at, NoTask}
    BY <2>1, <1>t DEF Ended, Request
  <2>3. f \in [Sockets -> Request]
    BY <2>1, <2>2
  <2>4. post'[c] = [post[c] EXCEPT !.req = f]
    BY <2>1, <1>1
  <2>5. post'[c] \in PostRecord /\ post'[c].next = post[c].next
        /\ post'[c].overlapped = post[c].overlapped /\ post'[c].req = f
    BY <2>3, <2>4, <1>t DEF PostRecord
  <2> QED BY <2>2, <2>5
<1>4. post' \in [Clients -> PostRecord]
  BY <1>2, <1>3
<1> QED BY <1>3, <1>4

\* What the handlers and timers of the other steps leave keeps its type.
LEMMA OtherTypes ==
  ASSUME TypeOK, NoEmptyJob, BatchInHand, Next,
         ~ \E p \in Tasks, l \in Lanes : \E i \in DOMAIN chain[p][l] : Working(p, l, i)
  PROVE  TypeOK' /\ NoEmptyJob'
<1>t. /\ run \in RunRecord /\ rows \in [Tests -> [Statuses -> Nat]] /\ history \in Seq(Events)
      /\ sse \subseteq Events /\ bus \in [Tasks -> BusRecord] /\ chain \in [Tasks -> [Lanes -> Seq(Job)]]
      /\ post \in [Clients -> PostRecord] /\ server \in [Tasks -> ServerRecord] /\ used \in UsedRecord
  BY DEF TypeOK
<1>e. ASSUME NEW p \in Tasks, NEW j \in Job, j.evs # <<>>, chain' = Enqueue(p, j)
      PROVE  chain' \in [Tasks -> [Lanes -> Seq(Job)]] /\ NoEmptyJob'
  <2>1. /\ chain' \in [Tasks -> [Lanes -> Seq(Job)]]
        /\ \A q \in Tasks, m \in Lanes : Range(chain'[q][m]) \subseteq Range(chain[q][m]) \cup {j}
    BY <1>e, EnqueueEffect
  <2> QED BY <2>1, <1>e DEF NoEmptyJob
<1>a. \A by \in {"request", "sweep", "reconcile"} : AbortJob(by) \in Job /\ AbortJob(by).evs # <<>>
  BY NewJobs DEF AbortJob
<1>u. UNCHANGED chain => NoEmptyJob'
  BY DEF NoEmptyJob
<1>1. ASSUME NEW p \in Tasks, Cleanup(p) \/ IdleTimeout(p) \/ Watch(p) PROVE TypeOK' /\ NoEmptyJob'
  <2>1. bus[p] \in BusRecord /\ bus[p].cleanups \in Nat /\ bus[p].active \in BOOLEAN
    BY <1>t DEF BusRecord
  <2>2. Cleanup(p) => bus' \in [Tasks -> BusRecord]
    <3> SUFFICES ASSUME Cleanup(p) PROVE bus' \in [Tasks -> BusRecord]
      OBVIOUS
    <3>1. PICK n \in Nat : n = bus[p].cleanups - 1
      BY <2>1 DEF Cleanup
    <3>2. bus' = [bus EXCEPT ![p] = [IdleBus EXCEPT !.active = bus[p].active, !.cleanups = n]]
      BY <3>1 DEF Cleanup
    <3> QED BY <3>2, <2>1, <1>t, BusTypes
  <2>3. IdleTimeout(p) => bus' \in [Tasks -> BusRecord]
    <3>1. [IdleBus EXCEPT !.cleanups = bus[p].cleanups] \in BusRecord
      BY <2>1, BusTypes
    <3> QED BY <3>1, <1>t DEF IdleTimeout
  <2>4. Watch(p) => bus' \in [Tasks -> BusRecord]
    BY <2>1, <1>t, BusFields DEF Watch
  <2>5. bus' \in [Tasks -> BusRecord]
    BY <2>2, <2>3, <2>4, <1>1
  <2>6. UNCHANGED <<run, rows, history, sse, chain, post, server, used>>
    BY <1>1 DEF Cleanup, IdleTimeout, Watch
  <2> QED BY <2>5, <2>6, <1>t, <1>u DEF TypeOK
<1>2. ASSUME NEW p \in Tasks, StartUpsert(p) PROVE TypeOK' /\ NoEmptyJob'
  <2>1. run' \in RunRecord
    BY <1>2, <1>t DEF StartUpsert, RunRecord
  <2>2. server' \in [Tasks -> ServerRecord]
    BY <1>2, <1>t DEF StartUpsert, ServerRecord
  <2>3. used' \in UsedRecord
    BY <1>2, <1>t, UsedTypes DEF StartUpsert
  <2>4. UNCHANGED <<rows, history, sse, bus, chain, post>>
    BY <1>2 DEF StartUpsert
  <2> QED BY <2>1, <2>2, <2>3, <2>4, <1>t, <1>u DEF TypeOK
<1>3. ASSUME NEW p \in Tasks, StartRegister(p) PROVE TypeOK' /\ NoEmptyJob'
  <2>1. bus' \in [Tasks -> BusRecord]
    BY <1>3, <1>t, BusFields, EmittedFields DEF StartRegister
  <2>2. server' \in [Tasks -> ServerRecord]
    BY <1>3, <1>t DEF StartRegister, ServerRecord
  <2>3. sse' \subseteq Events
    BY <1>3, <1>t, OwnEvents DEF StartRegister
  <2>4. UNCHANGED <<run, rows, history, chain, post, used>>
    BY <1>3 DEF StartRegister
  <2> QED BY <2>1, <2>2, <2>3, <2>4, <1>t, <1>u DEF TypeOK
<1>4. ASSUME NEW p \in Tasks, PersistStart(p) PROVE TypeOK' /\ NoEmptyJob'
  <2>1. history' \in Seq(Events)
    <3>1. history' = history \/ history' = Append(history, Started)
      BY <1>4 DEF PersistStart
    <3>2. history \in Seq(Events) /\ Started \in Events
      BY <1>t, OwnEvents
    <3> QED BY <3>1, <3>2
  <2>2. server' \in [Tasks -> ServerRecord]
    <3>1. server[p] \in ServerRecord /\ server[p].unsaved - 1 \in Nat
      BY <1>4, <1>t DEF PersistStart, ServerRecord
    <3> QED BY <3>1, <1>4, <1>t DEF PersistStart, ServerRecord
  <2>3. UNCHANGED <<run, rows, sse, bus, chain, post, used>>
    BY <1>4 DEF PersistStart
  <2> QED BY <2>1, <2>2, <2>3, <1>t, <1>u DEF TypeOK
<1>s. ASSUME NEW c \in Clients, NEW k \in Sockets,
             PostSend(c, k) \/ \E j \in Sockets : PostResend(c, k, j)
      PROVE  TypeOK' /\ NoEmptyJob'
  <2>1. post' \in [Clients -> PostRecord]
    BY <1>s, PostSteps
  <2>2. used' \in UsedRecord
    BY <1>s, <1>t, UsedTypes DEF PostSend, PostResend
  <2>3. UNCHANGED <<run, rows, history, sse, bus, chain, server>>
    BY <1>s DEF PostSend, PostResend
  <2> QED BY <2>1, <2>2, <2>3, <1>t, <1>u DEF TypeOK
<1>5. ASSUME NEW c \in Clients, NEW k \in Sockets, NEW p \in Tasks, PostArrive(c, k, p)
      PROVE  TypeOK' /\ NoEmptyJob'
  <2>1. run' \in RunRecord
    <3>1. 0 \in 0 .. StaleAge
      BY AgeAssumption
    <3> QED BY <3>1, <1>5, <1>t, RunTypes DEF PostArrive
  <2>2. post' \in [Clients -> PostRecord]
    BY <1>5, PostSteps
  <2>3. used' \in UsedRecord
    <3>1. CASE Free(c, k)
      BY <3>1, <1>5, <1>t, UsedTypes DEF PostArrive
    <3>2. CASE ~ Free(c, k)
      <4>1. used' = [used EXCEPT !.beats = used.beats]
        BY <3>2, <1>5 DEF PostArrive
      <4> QED BY <4>1, <1>t DEF UsedRecord
    <3> QED BY <3>1, <3>2
  <2>4. UNCHANGED <<rows, history, sse, bus, chain, server>>
    BY <1>5 DEF PostArrive
  <2> QED BY <2>1, <2>2, <2>3, <2>4, <1>t, <1>u DEF TypeOK
<1>6. ASSUME NEW c \in Clients, NEW k \in Sockets, NEW answered \in BOOLEAN, PostSync(c, k, answered)
      PROVE  TypeOK' /\ NoEmptyJob'
  <2>1. PICK p : p = post[c].req[k].at
    OBVIOUS
  <2>2. p \in Tasks /\ post[c].req[k].batch \in Nat
    BY <2>1, <1>6, <1>t DEF PostSync, PostRecord, Request
  <2>3. bus' \in [Tasks -> BusRecord]
    <3>1. PICK b : b = IF bus[p].meta = Gone THEN Registered(bus[p]) ELSE bus[p]
      OBVIOUS
    <3>2. b \in BusRecord
      BY <3>1, <2>2, <1>t, BusFields
    <3>3. bus' = [bus EXCEPT ![p] = Touched(b)]
      BY <2>1, <3>1, <1>6 DEF PostSync
    <3> QED BY <3>2, <3>3, <2>2, <1>t, BusFields
  <2>4. chain' \in [Tasks -> [Lanes -> Seq(Job)]] /\ NoEmptyJob'
    <3>1. CASE post[c].req[k].batch = 0
      <4>1. UNCHANGED chain
        BY <3>1, <1>6 DEF PostSync
      <4> QED BY <4>1, <1>t, <1>u
    <3>2. CASE post[c].req[k].batch # 0
      <4>1. PICK n \in Nat : n = post[c].req[k].batch
        BY <2>2
      <4>2. n \in DOMAIN Script[c]
        <5>1. n > 0
          BY <3>2, <4>1
        <5> QED BY <4>1, <5>1 DEF BatchInHand, InHand
      <4>3. PICK j : j = EventsJob(Script[c][n])
        OBVIOUS
      <4>4. j \in Job /\ j.evs # <<>>
        BY <4>2, <4>3, NewJobs, Batches DEF EventsJob
      <4>5. chain' = Enqueue(p, j)
        BY <3>2, <4>1, <4>3, <2>1, <1>6 DEF PostSync
      <4> QED BY <4>4, <4>5, <2>2, <1>e
    <3> QED BY <3>1, <3>2
  <2>5. run' \in RunRecord
    <3>2. (run.late \/ (post[c].req[k].batch > 0 /\ AbortUnderWay)) \in BOOLEAN
      OBVIOUS
    <3>3. run' = [run EXCEPT !.late = run.late \/ (post[c].req[k].batch > 0 /\ AbortUnderWay)]
      BY <1>6 DEF PostSync
    <3> QED BY <3>2, <3>3, <1>t, RunTypes
  <2>6. post' \in [Clients -> PostRecord]
    BY <1>6, PostSteps
  <2>7. used' \in UsedRecord
    <3>1. CASE answered
      <4>1. used' = [used EXCEPT !.retries = used.retries]
        BY <3>1, <1>6 DEF PostSync
      <4> QED BY <4>1, <1>t DEF UsedRecord
    <3>2. CASE ~ answered
      BY <3>2, <1>6, <1>t, UsedTypes DEF PostSync
    <3> QED BY <3>1, <3>2
  <2>8. UNCHANGED <<rows, history, sse, server>>
    BY <1>6 DEF PostSync
  <2> QED BY <2>3, <2>4, <2>5, <2>6, <2>7, <2>8, <1>t DEF TypeOK
<1>7. ASSUME NEW p \in Tasks, RequestAbort(p) \/ Sweep(p) PROVE TypeOK' /\ NoEmptyJob'
  <2>1. chain' \in [Tasks -> [Lanes -> Seq(Job)]] /\ NoEmptyJob'
    BY <1>7, <1>a, <1>e DEF RequestAbort, Sweep, EnqueueAbort
  <2>2. used' \in UsedRecord
    BY <1>7, <1>t, UsedTypes DEF RequestAbort, Sweep
  <2>3. UNCHANGED <<run, rows, history, sse, bus, post, server>>
    BY <1>7 DEF RequestAbort, Sweep
  <2> QED BY <2>1, <2>2, <2>3, <1>t DEF TypeOK
<1>8. ASSUME NEW p \in Tasks, ReconcileSelect(p) PROVE TypeOK' /\ NoEmptyJob'
  <2>1. server' \in [Tasks -> ServerRecord]
    BY <1>8, <1>t DEF ReconcileSelect, ServerRecord
  <2>2. UNCHANGED <<run, rows, history, sse, bus, chain, post, used>>
    BY <1>8 DEF ReconcileSelect
  <2> QED BY <2>1, <2>2, <1>t, <1>u DEF TypeOK
<1>9. ASSUME NEW p \in Tasks, ReconcileAbort(p) PROVE TypeOK' /\ NoEmptyJob'
  <2>1. chain' \in [Tasks -> [Lanes -> Seq(Job)]] /\ NoEmptyJob'
    BY <1>9, <1>a, <1>e DEF ReconcileAbort, EnqueueAbort
  <2>2. server' \in [Tasks -> ServerRecord]
    BY <1>9, <1>t DEF ReconcileAbort, ServerRecord
  <2>3. UNCHANGED <<run, rows, history, sse, bus, post, used>>
    BY <1>9 DEF ReconcileAbort
  <2> QED BY <2>1, <2>2, <2>3, <1>t DEF TypeOK
<1>10. ASSUME Upload PROVE TypeOK' /\ NoEmptyJob'
  <2>1. rows' \in [Tests -> [Statuses -> Nat]]
    BY <1>10 DEF Upload
  <2>2. run' \in RunRecord
    BY <1>10, <1>t, RunTypes DEF Upload
  <2>3. UNCHANGED <<history, sse, bus, chain, post, server, used>>
    BY <1>10 DEF Upload
  <2> QED BY <2>1, <2>2, <2>3, <1>t, <1>u DEF TypeOK
<1>11. ASSUME NEW p \in Tasks, DeleteRow(p) PROVE TypeOK' /\ NoEmptyJob'
  <2>1. rows' \in [Tests -> [Statuses -> Nat]]
    BY <1>11 DEF DeleteRow
  <2>2. run' \in RunRecord
    BY <1>11, <1>t, RunTypes DEF DeleteRow
  <2>3. history' = <<>> /\ <<>> \in Seq(Events)
    BY <1>11 DEF DeleteRow
  <2>4. server' \in [Tasks -> ServerRecord]
    BY <1>11, <1>t DEF DeleteRow, ServerRecord
  <2>5. UNCHANGED <<sse, bus, chain, post, used>>
    BY <1>11 DEF DeleteRow
  <2> QED BY <2>1, <2>2, <2>3, <2>4, <2>5, <1>t, <1>u DEF TypeOK
<1>12. ASSUME NEW p \in Tasks, Forget(p) PROVE TypeOK' /\ NoEmptyJob'
  <2>1. PICK m, o : m = chain[p]["map"] /\ o = chain[p]["orphan"]
    OBVIOUS
  <2>2. m \in Seq(Job) /\ o \in Seq(Job) /\ "map" \in Lanes /\ "orphan" \in Lanes
    BY <2>1, <1>t DEF Lanes
  <2>3. o \o m \in Seq(Job) /\ Range(o \o m) = Range(o) \cup Range(m)
    BY <2>2, RangeOfConcat
  <2>4. chain' = [chain EXCEPT ![p] = [map |-> <<>>, orphan |-> o \o m]]
    BY <1>12, <2>1 DEF Forget
  <2>5. PICK r : r = [map |-> <<>>, orphan |-> o \o m]
    OBVIOUS
  <2>6. r \in [Lanes -> Seq(Job)] /\ r["map"] = <<>> /\ r["orphan"] = o \o m
    <3>1. PICK s \in Seq(Job) : s = o \o m
      BY <2>3
    <3>2. <<>> \in Seq(Job)
      OBVIOUS
    <3>3. PICK n \in Seq(Job) : n = <<>>
      BY <3>2
    <3>4. r = [map |-> n, orphan |-> s]
      BY <3>1, <3>3, <2>5
    <3>5. r["map"] = n /\ r["orphan"] = s
      BY <3>4
    <3>6. r \in [Lanes -> Seq(Job)]
      BY <3>4 DEF Lanes
    <3> QED BY <3>1, <3>3, <3>5, <3>6
  <2>7. chain' \in [Tasks -> [Lanes -> Seq(Job)]]
    BY <2>4, <2>5, <2>6, <1>t
  <2>8. NoEmptyJob'
    <3> SUFFICES ASSUME NEW q \in Tasks, NEW l \in Lanes, NEW j \in Range(chain'[q][l]) PROVE j.evs # <<>>
      BY DEF NoEmptyJob
    <3>1. CASE q # p
      BY <3>1, <2>4, <1>t DEF NoEmptyJob
    <3>2. CASE q = p
      <4>1. chain'[p] = r /\ Range(<<>>) = {}
        BY <2>4, <2>5, <1>t DEF Range
      <4>2. l = "orphan"
        BY <3>2, <4>1, <2>6 DEF Lanes
      <4>3. j \in Range(m) \cup Range(o)
        BY <3>2, <4>1, <4>2, <2>3, <2>6
      <4> QED BY <4>3, <2>1, <2>2 DEF NoEmptyJob
    <3> QED BY <3>1, <3>2
  <2>9. server' \in [Tasks -> ServerRecord]
    BY <1>12, <1>t DEF Forget, ServerRecord
  <2>10. bus' \in [Tasks -> BusRecord]
    <3>1. bus[p].cleanups \in Nat
      BY <1>t DEF BusRecord
    <3>2. [IdleBus EXCEPT !.cleanups = bus[p].cleanups] \in BusRecord
      BY <3>1, <1>t, BusTypes
    <3> QED BY <3>2, <1>12, <1>t DEF Forget
  <2>11. UNCHANGED <<run, rows, history, sse, post, used>>
    BY <1>12 DEF Forget
  <2> QED BY <2>7, <2>8, <2>9, <2>10, <2>11, <1>t DEF TypeOK
<1>13. ASSUME NEW p \in Tasks, Crash(p) PROVE TypeOK' /\ NoEmptyJob'
  <2>1. used' \in UsedRecord
    BY <1>13, <1>t, UsedTypes DEF Crash
  <2>2. bus' \in [Tasks -> BusRecord]
    <3>1. bus' = [bus EXCEPT ![p] = IdleBus]
      BY <1>13 DEF Crash
    <3>2. Gone \in Gone .. StaleAge /\ 0 \in 0 .. IdleAge
      BY AgeAssumption DEF Gone
    <3>3. IdleBus \in BusRecord
      BY <3>2 DEF IdleBus, BusRecord
    <3> QED BY <3>1, <3>3, <1>t
  <2>3. chain' \in [Tasks -> [Lanes -> Seq(Job)]]
    <3>1. [l \in Lanes |-> <<>>] \in [Lanes -> Seq(Job)]
      OBVIOUS
    <3> QED BY <3>1, <1>13, <1>t DEF Crash
  <2>4. NoEmptyJob'
    <3> SUFFICES ASSUME NEW q \in Tasks, NEW l \in Lanes, NEW j \in Range(chain'[q][l]) PROVE j.evs # <<>>
      BY DEF NoEmptyJob
    <3>1. Range(<<>>) = {}
      BY DEF Range
    <3>2. chain'[q][l] = chain[q][l] \/ chain'[q][l] = <<>>
      BY <1>13, <1>t DEF Crash
    <3> QED BY <3>1, <3>2 DEF NoEmptyJob
  <2>5. server' \in [Tasks -> ServerRecord]
    BY <1>13, <1>t DEF Crash, IdleServer, ServerRecord
  <2>6. post' \in [Clients -> PostRecord]
    BY <1>13, PostCrash
  <2>7. UNCHANGED <<run, rows, history, sse>>
    BY <1>13 DEF Crash
  <2> QED BY <2>1, <2>2, <2>3, <2>4, <2>5, <2>6, <2>7, <1>t DEF TypeOK
<1>14. ASSUME TimePasses PROVE TypeOK' /\ NoEmptyJob'
  <2>1. bus' \in [Tasks -> BusRecord]
    BY <1>14, <1>t, BusTypes DEF TimePasses
  <2>2. run' \in RunRecord
    <3>1. PICK a : a = Older(run.age, StaleAge)
      OBVIOUS
    <3>2. a \in 0 .. StaleAge
      BY <3>1, <1>t, AgeAssumption DEF Older, RunRecord
    <3>3. (run.silent \/ a = StaleAge) \in BOOLEAN
      OBVIOUS
    <3>4. run' = run \/ run' = [run EXCEPT !.age = a, !.silent = (run.silent \/ a = StaleAge)]
      BY <3>1, <1>14 DEF TimePasses
    <3> QED BY <3>2, <3>3, <3>4, <1>t, RunTypes
  <2>3. UNCHANGED <<rows, history, sse, chain, post, server, used>>
    BY <1>14 DEF TimePasses
  <2> QED BY <2>1, <2>2, <2>3, <1>t, <1>u DEF TypeOK
<1>15. ASSUME NEW p \in Tasks, NEW l \in Lanes, NEW i \in DOMAIN chain[p][l], Working(p, l, i)
       PROVE  FALSE
  BY <1>15
<1> QED BY <1>1, <1>2, <1>3, <1>4, <1>s, <1>5, <1>6, <1>7, <1>8, <1>9, <1>10, <1>11, <1>12, <1>13, <1>14, <1>15
     DEF Next, TaskStep, JobStep, Working

\* The batch of a POST stays what it was, also for those it overlaps with.
LEMMA BatchStaysInHand ==
  ASSUME TypeOK, BatchInHand, [Next]_vars
  PROVE  BatchInHand' /\ \A c \in Clients : GoesOn(c)
<1>t. /\ post \in [Clients -> PostRecord]
      /\ \A c \in Clients : /\ post[c].next \in Nat
                             /\ \A k \in Sockets : post[c].req[k].batch \in Nat
  BY DEF TypeOK, PostRecord, Request
\* A reporter whose place in the script does not change and whose POSTs keep their batches.
<1>k. ASSUME \A c \in Clients :
               /\ post'[c].next = post[c].next /\ post'[c].overlapped = post[c].overlapped
               /\ \A k \in Sockets : \/ post'[c].req[k].batch = 0
                                     \/ \E j \in Sockets : post'[c].req[k].batch = post[c].req[j].batch
      PROVE  BatchInHand' /\ \A c \in Clients : GoesOn(c)
  <2>1. \A c \in Clients, k \in Sockets :
          post'[c].req[k].batch > 0 => \E j \in Sockets : post'[c].req[k].batch = post[c].req[j].batch
    <3>1. ~ (0 > 0)
      OBVIOUS
    <3> QED BY <3>1, <1>k
  <2>2. \A c \in Clients, k \in Sockets : post'[c].req[k].batch > 0 => InHand(c, post'[c].req[k].batch)
    BY <2>1 DEF BatchInHand
  <2>3. BatchInHand'
    BY <2>2, <1>k DEF BatchInHand, InHand
  <2> QED BY <2>3, <1>k DEF GoesOn
\* One POST of a reporter keeps its batch, gets that of another, or ends.
<1>b. ASSUME NEW c \in Clients, NEW k \in Sockets, NEW r, Becomes(c, k, r),
             r.batch = 0 \/ \E j \in Sockets : r.batch = post[c].req[j].batch,
             post'[c].next = post[c].next, post'[c].overlapped = post[c].overlapped
      PROVE  BatchInHand' /\ \A d \in Clients : GoesOn(d)
  <2>1. \A d \in Clients : post'[d].next = post[d].next /\ post'[d].overlapped = post[d].overlapped
    BY <1>b DEF Becomes
  <2>2. \A d \in Clients, i \in Sockets :
          post'[d].req[i].batch = 0 \/ \E j \in Sockets : post'[d].req[i].batch = post[d].req[j].batch
    BY <1>b DEF Becomes
  <2> QED BY <2>1, <2>2, <1>k
<1>1. ASSUME NEW c \in Clients, NEW k \in Sockets, PostSend(c, k)
      PROVE  BatchInHand' /\ \A d \in Clients : GoesOn(d)
  <2>1. /\ Becomes(c, k, [batch |-> post[c].next, at |-> NoTask])
        /\ post'[c].next = post[c].next + 1
        /\ post'[c].overlapped <=> post[c].overlapped \/ \E j \in Sockets : post[c].req[j].batch > 0
        /\ post[c].next \in DOMAIN Script[c]
    BY <1>1, PostSteps DEF PostSend
  <2>2. \A d \in Clients : d # c => post'[d] = post[d]
    BY <2>1 DEF Becomes
  <2>3. post'[c].req[k].batch = post[c].next
    BY <2>1 DEF Becomes
  <2>4. \A j \in Sockets : j # k => post'[c].req[j] = post[c].req[j]
    BY <2>1 DEF Becomes
  <2>5. ASSUME NEW j \in Sockets, post'[c].req[j].batch > 0
        PROVE  InHand(c, post[c].req[j].batch)'
    <3>1. CASE j = k
      BY <3>1, <2>1, <2>3, <1>t DEF InHand
    <3>2. CASE j # k
      <4>1. post'[c].req[j].batch = post[c].req[j].batch /\ post'[c].overlapped
        BY <3>2, <2>1, <2>4, <2>5
      <4>2. InHand(c, post[c].req[j].batch)
        BY <4>1, <2>5 DEF BatchInHand
      <4>3. post[c].req[j].batch \in Nat /\ post[c].next \in Nat
        BY <1>t
      <4>4. post[c].req[j].batch < post[c].next + 1
        BY <4>2, <4>3 DEF InHand
      <4> QED BY <4>1, <4>2, <4>4, <2>1 DEF InHand
    <3> QED BY <3>1, <3>2
  <2>6. ASSUME NEW d \in Clients, d # c, NEW j \in Sockets, post'[d].req[j].batch > 0
        PROVE  InHand(d, post[d].req[j].batch)'
    BY <2>2, <2>6 DEF BatchInHand, InHand
  <2>7. BatchInHand'
    BY <2>5, <2>6 DEF BatchInHand
  <2>8. \A d \in Clients : GoesOn(d)
    BY <2>1, <2>2 DEF GoesOn
  <2> QED BY <2>7, <2>8
<1>2. ASSUME NEW c \in Clients, NEW k \in Sockets, NEW j \in Sockets, PostResend(c, k, j)
      PROVE  BatchInHand' /\ \A d \in Clients : GoesOn(d)
  <2>1. PICK r : r = [batch |-> post[c].req[k].batch, at |-> NoTask]
    OBVIOUS
  <2>2. Becomes(c, j, r) /\ post'[c].next = post[c].next /\ post'[c].overlapped = post[c].overlapped
    BY <1>2, <2>1, PostSteps
  <2>3. r.batch = post[c].req[k].batch
    BY <2>1
  <2> QED BY <2>2, <2>3, <1>b
<1>3. ASSUME NEW c \in Clients, NEW k \in Sockets, NEW p \in Tasks, PostArrive(c, k, p)
      PROVE  BatchInHand' /\ \A d \in Clients : GoesOn(d)
  <2>1. PICK r : r = [batch |-> post[c].req[k].batch, at |-> p]
    OBVIOUS
  <2>2. Becomes(c, k, r) /\ post'[c].next = post[c].next /\ post'[c].overlapped = post[c].overlapped
    BY <1>3, <2>1, PostSteps
  <2>3. r.batch = post[c].req[k].batch
    BY <2>1
  <2> QED BY <2>2, <2>3, <1>b
<1>4. ASSUME NEW c \in Clients, NEW k \in Sockets, NEW answered \in BOOLEAN, PostSync(c, k, answered)
      PROVE  BatchInHand' /\ \A d \in Clients : GoesOn(d)
  <2>1. PICK r : r = IF answered THEN NoRequest ELSE [batch |-> post[c].req[k].batch, at |-> NoTask]
    OBVIOUS
  <2>2. Becomes(c, k, r) /\ post'[c].next = post[c].next /\ post'[c].overlapped = post[c].overlapped
    BY <1>4, <2>1, PostSteps
  <2>3. r.batch = 0 \/ r.batch = post[c].req[k].batch
    BY <2>1 DEF NoRequest
  <2> QED BY <2>2, <2>3, <1>b
<1>5. ASSUME NEW p \in Tasks, Crash(p) PROVE BatchInHand' /\ \A c \in Clients : GoesOn(c)
  BY <1>5, <1>k, PostCrash
<1>6. CASE UNCHANGED post
  BY <1>6, <1>k
<1>7. ASSUME NEW p \in Tasks, NEW l \in Lanes, NEW i, Working(p, l, i) PROVE UNCHANGED post
  BY <1>7 DEF Working, JobForgotten, WriteEvent, InsertResult, Persist, Emit, AbortCheck, Transition, Fault
<1>8. ASSUME NEW p \in Tasks,
             \/ Cleanup(p) \/ IdleTimeout(p) \/ Watch(p) \/ StartUpsert(p) \/ StartRegister(p)
             \/ PersistStart(p) \/ RequestAbort(p) \/ Sweep(p) \/ ReconcileSelect(p)
             \/ ReconcileAbort(p) \/ DeleteRow(p) \/ Forget(p)
      PROVE  UNCHANGED post
  BY <1>8 DEF Cleanup, IdleTimeout, Watch, StartUpsert, StartRegister, PersistStart, RequestAbort, Sweep,
              ReconcileSelect, ReconcileAbort, DeleteRow, Forget
<1>9. Upload \/ TimePasses \/ UNCHANGED vars => UNCHANGED post
  BY DEF Upload, TimePasses, vars
<1> HIDE DEF BatchInHand, GoesOn
<1> QED BY <1>1, <1>2, <1>3, <1>4, <1>5, <1>6, <1>7, <1>8, <1>9 DEF Next, TaskStep, JobStep, Working

\* The types of the variables, that no job is empty, and that no batch gets lost
\* between the two halves of its handler.
LiveTypes == TypeOK /\ NoEmptyJob /\ BatchInHand

\* Every step of live ingest keeps the types.
LEMMA LiveTypesStep == LiveTypes /\ [Next]_vars => LiveTypes'
<1> SUFFICES ASSUME LiveTypes, [Next]_vars PROVE LiveTypes'
  OBVIOUS
<1>1. BatchInHand'
  BY BatchStaysInHand DEF LiveTypes
<1>2. CASE UNCHANGED vars
  BY <1>2, <1>1 DEF vars, LiveTypes, TypeOK, NoEmptyJob
<1>3. CASE Next
  BY <1>1, <1>3, OtherTypes, WorkingTypes DEF LiveTypes
<1> QED BY <1>2, <1>3

\* For any tasks, reporters, scripts and bounds every variable of live ingest keeps
\* its type.
THEOREM LiveTypeCorrect == Spec => []TypeOK
<1>1. Init => LiveTypes
  <2>1. Init => BatchInHand
    BY DEF Init, BatchInHand, NoRequest
  <2> QED BY <2>1, TypesInit DEF LiveTypes
<1>2. LiveTypes => TypeOK
  BY DEF LiveTypes
<1> QED BY <1>1, <1>2, LiveTypesStep, PTL DEF Spec

-----------------------------------------------------------------------------
(* The line of jobs, and the life of the run *)

\* The job has not begun.
Waiting(j) == j.pc = IF j.kind = "events" THEN "write" ELSE "check"

\* Only the head of the chain is at work.
InLine == \A p \in Tasks : \A i \in DOMAIN chain[p]["map"] : i > 1 => Waiting(chain[p]["map"][i])

\* A POST has the events of one reporter.
OneSender ==
  \A p \in Tasks, l \in Lanes : \A j \in Range(chain[p][l]) :
    j.kind = "events" => \E c \in Clients : Range(j.evs) \subseteq ClientEvents(c)

\* A chain leaves the map when the run has been deleted.
Orphaned == run.row # "deleted" => \A p \in Tasks : chain[p]["orphan"] = <<>> /\ ~ server[p].forgetting

\* A run that is not there has neither history nor tests.
NothingLeft == ~ Live => history = <<>> /\ \A t \in Tests, s \in Statuses : rows[t][s] = 0

\* Before the run there is nothing.
Unborn ==
  run.row = "none" =>
    /\ run.age = 0
    /\ \A p \in Tasks : /\ \A l \in Lanes : chain[p][l] = <<>>
                        /\ bus[p].meta = Gone /\ ~ bus[p].active
                        /\ ~ server[p].starting /\ ~ server[p].listed
    /\ \A c \in Clients, k \in Sockets : post[c].req[k].at = NoTask

LifeInv == LiveTypes /\ InLine /\ OneSender /\ Orphaned /\ NothingLeft /\ Unborn

\* At the beginning there is nothing.
LEMMA LifeInit == Init => LifeInv
<1> SUFFICES ASSUME Init PROVE LifeInv
  OBVIOUS
<1>1. LiveTypes
  <2>1. BatchInHand
    BY DEF Init, BatchInHand, NoRequest
  <2> QED BY <2>1, TypesInit DEF LiveTypes
<1>2. \A p \in Tasks, l \in Lanes : chain[p][l] = <<>>
  BY DEF Init
<1>3. Range(<<>>) = {} /\ "map" \in Lanes /\ "orphan" \in Lanes
  BY DEF Range, Lanes
<1>4. InLine
  BY <1>2, <1>3 DEF InLine
<1>5. OneSender
  BY <1>2, <1>3 DEF OneSender
<1>6. Orphaned
  BY <1>2, <1>3 DEF Orphaned, Init, IdleServer
<1>7. NothingLeft
  BY DEF NothingLeft, Init
<1>8. Unborn
  BY <1>2 DEF Unborn, Init, IdleBus, IdleServer, NoRequest
<1> QED BY <1>1, <1>4, <1>5, <1>6, <1>7, <1>8 DEF LifeInv

\* The steps of the chain keep the line.
LEMMA WorkingLife ==
  ASSUME LifeInv, NEW p \in Tasks, NEW l \in Lanes, NEW i \in DOMAIN chain[p][l], Working(p, l, i)
  PROVE  InLine' /\ OneSender' /\ Orphaned' /\ NothingLeft' /\ Unborn'
<1>0. TypeOK /\ NoEmptyJob /\ "map" \in Lanes /\ "orphan" \in Lanes
  BY DEF LifeInv, LiveTypes, Lanes
<1>1. /\ i = 1 /\ chain[p][l] # <<>> /\ chain[p][l][1] \in Job /\ 1 \in DOMAIN chain[p][l]
      /\ \/ Drops(p, l)
         \/ \E j \in Job : /\ Puts(p, l, j) /\ j.kind = chain[p][l][1].kind /\ j.by = chain[p][l][1].by
                           /\ j.evs # <<>> /\ Range(j.evs) \subseteq Range(chain[p][l][1].evs)
  BY <1>0, WorkingAtHead
<1>2. UNCHANGED <<run, post, server>>
  BY DEF Working, JobForgotten, WriteEvent, InsertResult, Persist, Emit, AbortCheck, Transition, Fault
<1>3. chain[p][l][1] \in Range(chain[p][l])
  BY <1>1 DEF Range
<1>4. ASSUME Drops(p, l) PROVE InLine' /\ OneSender' /\ Orphaned'
  <2>1. /\ \A q \in Tasks, m \in Lanes : q # p \/ m # l => chain'[q][m] = chain[q][m]
        /\ \A k \in DOMAIN chain'[p][l] : /\ k + 1 \in DOMAIN chain[p][l] /\ k + 1 > 1
                                          /\ chain'[p][l][k] = chain[p][l][k + 1]
        /\ \A q \in Tasks, m \in Lanes : Range(chain'[q][m]) \subseteq Range(chain[q][m])
    BY <1>0, <1>1, <1>4, DropsEffect
  <2>2. InLine'
    <3> SUFFICES ASSUME NEW q \in Tasks, NEW k \in DOMAIN chain'[q]["map"], k > 1
                 PROVE  Waiting(chain'[q]["map"][k])
      BY DEF InLine, Waiting
    <3>1. CASE q = p /\ l = "map"
      <4>1. k + 1 \in DOMAIN chain[q]["map"] /\ k + 1 > 1 /\ chain'[q]["map"][k] = chain[q]["map"][k + 1]
        BY <3>1, <2>1
      <4> QED BY <4>1 DEF LifeInv, InLine
    <3>2. CASE ~ (q = p /\ l = "map")
      BY <3>2, <2>1, <1>0 DEF LifeInv, InLine
    <3> QED BY <3>1, <3>2
  <2>3. OneSender'
    BY <2>1 DEF LifeInv, OneSender
  <2>4. Orphaned'
    BY <2>1, <1>0, <1>1, <1>2 DEF LifeInv, Orphaned
  <2> QED BY <2>2, <2>3, <2>4
<1>5. ASSUME NEW j \in Job, Puts(p, l, j), j.kind = chain[p][l][1].kind,
             Range(j.evs) \subseteq Range(chain[p][l][1].evs)
      PROVE  InLine' /\ OneSender' /\ Orphaned'
  <2>1. /\ \A q \in Tasks, m \in Lanes : q # p \/ m # l => chain'[q][m] = chain[q][m]
        /\ DOMAIN chain'[p][l] = DOMAIN chain[p][l]
        /\ \A k \in DOMAIN chain[p][l] : k # 1 => chain'[p][l][k] = chain[p][l][k]
        /\ \A q \in Tasks, m \in Lanes : Range(chain'[q][m]) \subseteq Range(chain[q][m]) \cup {j}
    BY <1>0, <1>1, <1>5, PutsEffect
  <2>2. InLine'
    <3> SUFFICES ASSUME NEW q \in Tasks, NEW k \in DOMAIN chain'[q]["map"], k > 1
                 PROVE  Waiting(chain'[q]["map"][k])
      BY DEF InLine, Waiting
    <3>0. k # 1
      BY DEF InLine
    <3>1. CASE q = p /\ l = "map"
      BY <3>0, <3>1, <2>1 DEF LifeInv, InLine
    <3>2. CASE ~ (q = p /\ l = "map")
      BY <3>2, <2>1, <1>0 DEF LifeInv, InLine
    <3> QED BY <3>1, <3>2
  <2>3. OneSender'
    <3>1. j.kind = "events" => \E c \in Clients : Range(j.evs) \subseteq ClientEvents(c)
      <4>1. chain[p][l][1].kind = "events" =>
              \E c \in Clients : Range(chain[p][l][1].evs) \subseteq ClientEvents(c)
        BY <1>3 DEF LifeInv, OneSender
      <4> QED BY <4>1, <1>5
    <3> QED BY <3>1, <2>1 DEF LifeInv, OneSender
  <2>4. Orphaned'
    BY <2>1, <1>0, <1>1, <1>2 DEF LifeInv, Orphaned
  <2> QED BY <2>2, <2>3, <2>4
<1>6. Unborn'
  BY <1>1, <1>2 DEF LifeInv, Unborn
<1>7. NothingLeft'
  <2> SUFFICES ASSUME ~ Live PROVE history' = <<>> /\ \A t \in Tests, s \in Statuses : rows'[t][s] = 0
    BY <1>2 DEF NothingLeft, Live
  <2>1. history = <<>> /\ \A t \in Tests, s \in Statuses : rows[t][s] = 0
    BY DEF LifeInv, NothingLeft
  <2>2. history' = history
    BY DEF Working, JobForgotten, WriteEvent, InsertResult, Persist, Emit, AbortCheck, Transition, Fault
  <2>3. rows' = rows \/ Transition(p, l, i)
    BY DEF Working, JobForgotten, WriteEvent, InsertResult, Persist, Emit, AbortCheck, Fault
  <2>4. CASE Transition(p, l, i)
    <3>1. \A t \in Tests : rows'[t] = [rows[t] EXCEPT !["pending"] = 0, !["skipped"] = @ + rows[t]["pending"]]
      BY <2>4 DEF Transition
    <3>2. rows \in [Tests -> [Statuses -> Nat]] /\ "pending" \in Statuses /\ "skipped" \in Statuses
      BY <1>0 DEF TypeOK, Statuses
    <3>3. \A t \in Tests, s \in Statuses : rows'[t][s] = 0
      <4> SUFFICES ASSUME NEW t \in Tests, NEW s \in Statuses PROVE rows'[t][s] = 0
        OBVIOUS
      <4>1. PICK r \in [Statuses -> Nat] : r = rows[t]
        BY <3>2
      <4>2. r["pending"] = 0 /\ r["skipped"] = 0 /\ r[s] = 0
        BY <2>1, <3>2, <4>1
      <4>3. PICK z : z = r["skipped"] + r["pending"]
        OBVIOUS
      <4>a. z = 0
        BY <4>2, <4>3
      <4>b. rows'[t] = [r EXCEPT !["pending"] = 0, !["skipped"] = r["skipped"] + r["pending"]]
        BY <3>1, <4>1
      <4>4. z = 0 /\ rows'[t] = [r EXCEPT !["pending"] = 0, !["skipped"] = z]
        BY <4>a, <4>b, <4>3
      <4> QED BY <4>2, <4>4
    <3> QED BY <3>3, <2>1, <2>2
  <2> QED BY <2>1, <2>2, <2>3, <2>4
<1> QED BY <1>1, <1>4, <1>5, <1>6, <1>7

\* A handler that enqueues a job leaves the line in order.
LEMMA EnqueueLife ==
  ASSUME LifeInv, NEW p \in Tasks, NEW j \in Job, chain' = Enqueue(p, j), Waiting(j),
         j.kind = "events" => \E c \in Clients : Range(j.evs) \subseteq ClientEvents(c)
  PROVE  /\ InLine' /\ OneSender'
         /\ \A q \in Tasks : chain'[q]["orphan"] = chain[q]["orphan"]
<1>0. TypeOK /\ "map" \in Lanes /\ "orphan" \in Lanes /\ "map" # "orphan"
  BY DEF LifeInv, LiveTypes, Lanes
<1>1. /\ \A q \in Tasks, m \in Lanes : q # p \/ m # "map" => chain'[q][m] = chain[q][m]
      /\ DOMAIN chain'[p]["map"] = 1 .. Len(chain[p]["map"]) + 1
      /\ DOMAIN chain[p]["map"] = 1 .. Len(chain[p]["map"])
      /\ chain'[p]["map"][Len(chain[p]["map"]) + 1] = j
      /\ \A i \in DOMAIN chain[p]["map"] : chain'[p]["map"][i] = chain[p]["map"][i]
      /\ \A q \in Tasks, m \in Lanes : Range(chain'[q][m]) \subseteq Range(chain[q][m]) \cup {j}
  BY <1>0, EnqueueEffect
<1>2. InLine'
  <2> SUFFICES ASSUME NEW q \in Tasks, NEW k \in DOMAIN chain'[q]["map"], k > 1
               PROVE  Waiting(chain'[q]["map"][k])
    BY DEF InLine, Waiting
  <2>1. CASE q # p
    BY <2>1, <1>0, <1>1 DEF LifeInv, InLine
  <2>2. CASE q = p /\ k \in DOMAIN chain[p]["map"]
    BY <2>2, <1>1 DEF LifeInv, InLine
  <2>3. CASE q = p /\ k \notin DOMAIN chain[p]["map"]
    <3>1. chain[p]["map"] \in Seq(Job)
      BY <1>0 DEF TypeOK
    <3>2. Len(chain[p]["map"]) \in Nat
      BY <3>1
    <3>3. k = Len(chain[p]["map"]) + 1
      BY <2>3, <3>2, <1>1
    <3> QED BY <2>3, <3>3, <1>1
  <2> QED BY <2>1, <2>2, <2>3
<1>3. OneSender'
  <2> SUFFICES ASSUME NEW q \in Tasks, NEW l \in Lanes, NEW job \in Range(chain'[q][l]), job.kind = "events"
               PROVE  \E c \in Clients : Range(job.evs) \subseteq ClientEvents(c)
    BY DEF OneSender
  <2>1. CASE job \in Range(chain[q][l])
    BY <2>1 DEF LifeInv, OneSender
  <2> QED BY <2>1, <1>1
<1>4. \A q \in Tasks : chain'[q]["orphan"] = chain[q]["orphan"]
  BY <1>0, <1>1
<1> QED BY <1>2, <1>3, <1>4

\* The other steps keep the line and the life of the run.
LEMMA OtherLife ==
  ASSUME LifeInv, Next,
         ~ \E p \in Tasks, l \in Lanes : \E i \in DOMAIN chain[p][l] : Working(p, l, i)
  PROVE  InLine' /\ OneSender' /\ Orphaned' /\ NothingLeft' /\ Unborn'
<1>t. /\ run \in RunRecord /\ rows \in [Tests -> [Statuses -> Nat]]
      /\ bus \in [Tasks -> BusRecord] /\ chain \in [Tasks -> [Lanes -> Seq(Job)]]
      /\ post \in [Clients -> PostRecord] /\ server \in [Tasks -> ServerRecord]
      /\ "map" \in Lanes /\ "orphan" \in Lanes
  BY DEF LifeInv, LiveTypes, TypeOK, Lanes
<1>i. InLine /\ OneSender /\ Orphaned /\ NothingLeft /\ Unborn /\ BatchInHand
  BY DEF LifeInv, LiveTypes
<1>c. UNCHANGED chain => InLine' /\ OneSender'
  BY <1>i DEF InLine, OneSender, Waiting
<1>a. \A by \in {"request", "sweep", "reconcile"} :
        AbortJob(by) \in Job /\ Waiting(AbortJob(by)) /\ AbortJob(by).kind # "events"
  BY NewJobs DEF AbortJob, Waiting
<1>r. UNCHANGED <<run, rows, history>> => NothingLeft'
  BY <1>i DEF NothingLeft, Live
<1>1. ASSUME NEW p \in Tasks, Cleanup(p) \/ IdleTimeout(p) \/ Watch(p)
      PROVE  InLine' /\ OneSender' /\ Orphaned' /\ NothingLeft' /\ Unborn'
  <2>1. UNCHANGED <<run, rows, history, sse, chain, post, server, used>>
    BY <1>1 DEF Cleanup, IdleTimeout, Watch
  <2>2. Orphaned'
    BY <2>1, <1>i DEF Orphaned
  <2>3. Unborn'
    <3> SUFFICES ASSUME run.row = "none", NEW q \in Tasks
                 PROVE  bus'[q].meta = Gone /\ ~ bus'[q].active
      BY <2>1, <1>i DEF Unborn
    <3>1. ~ Watch(p)
      BY DEF Watch, Live
    <3>2. bus[q].meta = Gone /\ ~ bus[q].active
      BY <1>i DEF Unborn
    <3>3. CASE q = p
      <4>1. IdleBus.meta = Gone /\ IdleBus.active = FALSE
        BY DEF IdleBus
      <4>2. CASE Cleanup(p)
        <5>1. bus'[p] = [IdleBus EXCEPT !.active = bus[p].active, !.cleanups = bus[p].cleanups - 1]
          BY <4>2, <1>t DEF Cleanup
        <5>2. bus'[p].meta = Gone /\ bus'[p].active = bus[p].active
          BY <5>1 DEF IdleBus
        <5> QED BY <5>2, <3>2, <3>3
      <4>3. CASE IdleTimeout(p)
        <5>1. bus'[p] = [IdleBus EXCEPT !.cleanups = bus[p].cleanups]
          BY <4>3, <1>t DEF IdleTimeout
        <5>2. bus'[p].meta = Gone /\ bus'[p].active = FALSE
          BY <5>1 DEF IdleBus
        <5> QED BY <5>2, <3>3
      <4> QED BY <4>2, <4>3, <1>1, <3>1
    <3>4. CASE q # p
      BY <3>1, <3>2, <3>4, <1>1, <1>t DEF Cleanup, IdleTimeout
    <3> QED BY <3>3, <3>4
  <2> QED BY <2>1, <2>2, <2>3, <1>c, <1>r
<1>2. ASSUME NEW p \in Tasks, StartUpsert(p)
      PROVE  InLine' /\ OneSender' /\ Orphaned' /\ NothingLeft' /\ Unborn'
  <2>1. /\ run.row # "deleted" /\ run'.row = "live"
        /\ UNCHANGED <<rows, history, sse, bus, chain, post>>
        /\ \A q \in Tasks : server'[q].forgetting = server[q].forgetting
    BY <1>2, <1>t DEF StartUpsert, RunRecord, ServerRecord
  <2>2. Orphaned'
    BY <2>1, <1>i DEF Orphaned
  <2> QED BY <2>1, <2>2, <1>c DEF NothingLeft, Unborn, Live
<1>3. ASSUME NEW p \in Tasks, StartRegister(p)
      PROVE  InLine' /\ OneSender' /\ Orphaned' /\ NothingLeft' /\ Unborn'
  <2>1. /\ UNCHANGED <<run, rows, history, chain, post, used>> /\ server[p].starting
        /\ \A q \in Tasks : server'[q].forgetting = server[q].forgetting
    BY <1>3, <1>t DEF StartRegister, ServerRecord
  <2>2. run.row # "none"
    BY <2>1, <1>i DEF Unborn
  <2>3. Orphaned'
    BY <2>1, <1>i DEF Orphaned
  <2> QED BY <2>1, <2>2, <2>3, <1>c, <1>r DEF Unborn
<1>4. ASSUME NEW p \in Tasks, PersistStart(p)
      PROVE  InLine' /\ OneSender' /\ Orphaned' /\ NothingLeft' /\ Unborn'
  <2>1. /\ UNCHANGED <<run, rows, sse, bus, chain, post, used>>
        /\ \A q \in Tasks : /\ server'[q].forgetting = server[q].forgetting
                            /\ server'[q].starting = server[q].starting
                            /\ server'[q].listed = server[q].listed
        /\ ~ Live => UNCHANGED history
    BY <1>4, <1>t DEF PersistStart, ServerRecord
  <2>2. Orphaned'
    BY <2>1, <1>i DEF Orphaned
  <2>3. Unborn'
    BY <2>1, <1>i DEF Unborn
  <2>4. NothingLeft'
    BY <2>1, <1>i DEF NothingLeft, Live
  <2> QED BY <2>1, <2>2, <2>3, <2>4, <1>c
<1>s. ASSUME NEW c \in Clients, NEW k \in Sockets,
             PostSend(c, k) \/ \E j \in Sockets : PostResend(c, k, j)
      PROVE  InLine' /\ OneSender' /\ Orphaned' /\ NothingLeft' /\ Unborn'
  <2>1. UNCHANGED <<run, rows, history, sse, bus, chain, server>>
    BY <1>s DEF PostSend, PostResend
  <2>2. \A d \in Clients, j \in Sockets : post'[d].req[j].at \in {post[d].req[j].at, NoTask}
    <3>1. \E j \in Sockets, b \in Nat : Becomes(c, j, [batch |-> b, at |-> NoTask])
      <4>1. post[c].next \in Nat /\ post[c].req[k].batch \in Nat
        BY <1>t DEF PostRecord, Request
      <4> QED BY <4>1, <1>s, PostSteps DEF LifeInv, LiveTypes
    <3> QED BY <3>1 DEF Becomes
  <2>3. Orphaned' /\ Unborn'
    BY <2>1, <2>2, <1>i DEF Orphaned, Unborn
  <2> QED BY <2>1, <2>3, <1>c, <1>r
<1>5. ASSUME NEW c \in Clients, NEW k \in Sockets, NEW p \in Tasks, PostArrive(c, k, p)
      PROVE  InLine' /\ OneSender' /\ Orphaned' /\ NothingLeft' /\ Unborn'
  <2>1. run.row = "live" /\ run'.row = "live" /\ UNCHANGED <<rows, history, sse, bus, chain, server>>
    BY <1>5, <1>t DEF PostArrive, RunRecord, Live
  <2>2. Orphaned'
    BY <2>1, <1>i DEF Orphaned
  <2> QED BY <2>1, <2>2, <1>c DEF NothingLeft, Unborn, Live
<1>6. ASSUME NEW c \in Clients, NEW k \in Sockets, NEW answered \in BOOLEAN, PostSync(c, k, answered)
      PROVE  InLine' /\ OneSender' /\ Orphaned' /\ NothingLeft' /\ Unborn'
  <2>1. /\ post[c].req[k].at # NoTask /\ UNCHANGED <<rows, history, sse, server>>
        /\ run' = [run EXCEPT !.late = @ \/ (post[c].req[k].batch > 0 /\ AbortUnderWay)]
    BY <1>6 DEF PostSync
  <2>2. run'.row = run.row
    BY <2>1, <1>t DEF RunRecord
  <2>3. run.row # "none"
    BY <2>1, <1>i DEF Unborn
  <2>4. InLine' /\ OneSender' /\ \A q \in Tasks : chain'[q]["orphan"] = chain[q]["orphan"]
    <3>1. CASE post[c].req[k].batch = 0
      <4>1. UNCHANGED chain
        BY <3>1, <1>6 DEF PostSync
      <4> QED BY <4>1, <1>c
    <3>2. CASE post[c].req[k].batch # 0
      <4>1. PICK p, n : p = post[c].req[k].at /\ n = post[c].req[k].batch
        OBVIOUS
      <4>2. p \in Tasks /\ n \in Nat
        BY <4>1, <2>1, <1>t DEF PostRecord, Request
      <4>6. n \in DOMAIN Script[c]
        <5>1. n > 0
          BY <3>2, <4>1, <4>2
        <5> QED BY <4>1, <5>1, <1>i DEF BatchInHand, InHand
      <4>3. PICK j : j = EventsJob(Script[c][n])
        OBVIOUS
      <4>4. j \in Job /\ Waiting(j) /\ Range(j.evs) \subseteq ClientEvents(c)
        BY <4>2, <4>3, <4>6, NewJobs, Batches DEF EventsJob, Waiting
      <4>5. chain' = Enqueue(p, j)
        BY <3>2, <4>1, <4>3, <1>6 DEF PostSync
      <4> QED BY <4>2, <4>4, <4>5, EnqueueLife
    <3> QED BY <3>1, <3>2
  <2>5. Orphaned'
    BY <2>1, <2>2, <2>4, <1>i DEF Orphaned
  <2>6. NothingLeft'
    BY <2>1, <2>2, <1>i DEF NothingLeft, Live
  <2> QED BY <2>2, <2>3, <2>4, <2>5, <2>6 DEF Unborn
<1>7. ASSUME NEW p \in Tasks, RequestAbort(p) \/ Sweep(p) \/ ReconcileAbort(p)
      PROVE  InLine' /\ OneSender' /\ Orphaned' /\ NothingLeft' /\ Unborn'
  <2>1. \E by \in {"request", "sweep", "reconcile"} : chain' = Enqueue(p, AbortJob(by))
    BY <1>7 DEF RequestAbort, Sweep, ReconcileAbort, EnqueueAbort
  <2>2. InLine' /\ OneSender' /\ \A q \in Tasks : chain'[q]["orphan"] = chain[q]["orphan"]
    BY <2>1, <1>a, EnqueueLife
  <2>3. UNCHANGED <<run, rows, history>>
    BY <1>7 DEF RequestAbort, Sweep, ReconcileAbort
  <2>4. run.row # "none"
    BY <1>7, <1>i DEF Unborn, RequestAbort, Sweep, ReconcileAbort, Live
  <2>5. \A q \in Tasks : server'[q].forgetting = server[q].forgetting
    BY <1>7, <1>t DEF RequestAbort, Sweep, ReconcileAbort, ServerRecord
  <2>6. Orphaned'
    BY <2>2, <2>3, <2>5, <1>i DEF Orphaned
  <2> QED BY <2>2, <2>3, <2>4, <2>6, <1>r DEF Unborn
<1>8. ASSUME NEW p \in Tasks, ReconcileSelect(p)
      PROVE  InLine' /\ OneSender' /\ Orphaned' /\ NothingLeft' /\ Unborn'
  <2>1. run.row = "live" /\ UNCHANGED <<run, rows, history, sse, bus, chain, post, used>>
    BY <1>8 DEF ReconcileSelect, Live
  <2>2. \A q \in Tasks : server'[q].forgetting = server[q].forgetting
    BY <1>8, <1>t DEF ReconcileSelect, ServerRecord
  <2>3. Orphaned'
    BY <2>1, <2>2, <1>i DEF Orphaned
  <2> QED BY <2>1, <2>3, <1>c, <1>r DEF Unborn
<1>9. ASSUME Upload PROVE InLine' /\ OneSender' /\ Orphaned' /\ NothingLeft' /\ Unborn'
  <2>1. run.row # "deleted" /\ run'.row = "live" /\ UNCHANGED <<history, sse, bus, chain, post, server, used>>
    BY <1>9, <1>t DEF Upload, RunRecord
  <2>2. Orphaned'
    BY <2>1, <1>i DEF Orphaned
  <2> QED BY <2>1, <2>2, <1>c DEF NothingLeft, Unborn, Live
<1>10. ASSUME NEW p \in Tasks, DeleteRow(p)
       PROVE  InLine' /\ OneSender' /\ Orphaned' /\ NothingLeft' /\ Unborn'
  <2>1. run'.row = "deleted" /\ UNCHANGED <<sse, bus, chain, post, used>> /\ history' = <<>>
    BY <1>10, <1>t DEF DeleteRow, RunRecord
  <2>2. \A t \in Tests, s \in Statuses : rows'[t][s] = 0
    BY <1>10 DEF DeleteRow
  <2> QED BY <2>1, <2>2, <1>c DEF Orphaned, NothingLeft, Unborn
<1>11. ASSUME NEW p \in Tasks, Forget(p)
       PROVE  InLine' /\ OneSender' /\ Orphaned' /\ NothingLeft' /\ Unborn'
  <2>1. run.row = "deleted" /\ UNCHANGED <<run, rows, history, sse, post, used>>
    BY <1>11, <1>i DEF Forget, Orphaned
  <2>2. PICK m, o : m = chain[p]["map"] /\ o = chain[p]["orphan"]
    OBVIOUS
  <2>3. m \in Seq(Job) /\ o \in Seq(Job)
    BY <2>2, <1>t
  <2>4. PICK s : s = o \o m
    OBVIOUS
  <2>5. s \in Seq(Job) /\ Range(s) = Range(o) \cup Range(m)
    BY <2>3, <2>4, RangeOfConcat
  <2>6. chain' = [chain EXCEPT ![p] = [map |-> <<>>, orphan |-> s]]
    BY <1>11, <2>2, <2>4 DEF Forget
  <2>7. /\ chain'[p]["map"] = <<>> /\ chain'[p]["orphan"] = s
        /\ \A q \in Tasks : q # p => chain'[q] = chain[q]
    BY <2>6, <1>t
  <2>8. InLine'
    <3>1. DOMAIN <<>> = {}
      OBVIOUS
    <3> SUFFICES ASSUME NEW q \in Tasks, NEW k \in DOMAIN chain'[q]["map"], k > 1
                 PROVE  Waiting(chain'[q]["map"][k])
      BY DEF InLine, Waiting
    <3>2. q # p
      BY <3>1, <2>7
    <3> QED BY <3>2, <2>7, <1>i DEF InLine
  <2>9. OneSender'
    <3> SUFFICES ASSUME NEW q \in Tasks, NEW l \in Lanes, NEW j \in Range(chain'[q][l]), j.kind = "events"
                 PROVE  \E c \in Clients : Range(j.evs) \subseteq ClientEvents(c)
      BY DEF OneSender
    <3>1. CASE q # p
      BY <3>1, <2>7, <1>i DEF OneSender
    <3>2. CASE q = p
      <4>1. Range(<<>>) = {} /\ (l = "map" \/ l = "orphan")
        BY DEF Range, Lanes
      <4>2. j \in Range(o) \cup Range(m)
        BY <3>2, <4>1, <2>5, <2>7
      <4> QED BY <4>2, <2>2, <1>i, <1>t DEF OneSender
    <3> QED BY <3>1, <3>2
  <2> QED BY <2>1, <2>8, <2>9, <1>r DEF Orphaned, Unborn
<1>12. ASSUME NEW p \in Tasks, Crash(p)
       PROVE  InLine' /\ OneSender' /\ Orphaned' /\ NothingLeft' /\ Unborn'
  <2>1. UNCHANGED <<run, rows, history, sse>>
    BY <1>12 DEF Crash
  <2>2. \A q \in Tasks, l \in Lanes : chain'[q][l] = chain[q][l] \/ chain'[q][l] = <<>>
    BY <1>12, <1>t DEF Crash
  <2>3. InLine'
    <3>1. DOMAIN <<>> = {}
      OBVIOUS
    <3> SUFFICES ASSUME NEW q \in Tasks, NEW k \in DOMAIN chain'[q]["map"], k > 1
                 PROVE  Waiting(chain'[q]["map"][k])
      BY DEF InLine, Waiting
    <3>3. chain'[q]["map"] = chain[q]["map"]
      BY <2>2, <3>1, <1>t
    <3> QED BY <3>3, <1>i DEF InLine
  <2>4. OneSender'
    <3>1. Range(<<>>) = {}
      BY DEF Range
    <3>2. \A q \in Tasks, l \in Lanes : Range(chain'[q][l]) \subseteq Range(chain[q][l])
      BY <2>2, <3>1
    <3> QED BY <3>2, <1>i DEF OneSender
  <2>5. \A q \in Tasks : server'[q] = server[q] \/ server'[q] = IdleServer
    BY <1>12, <1>t DEF Crash
  <2>6. IdleServer.starting = FALSE /\ IdleServer.listed = FALSE /\ IdleServer.forgetting = FALSE
    BY DEF IdleServer
  <2>7. Orphaned'
    BY <2>1, <2>2, <2>5, <2>6, <1>i, <1>t DEF Orphaned
  <2>8. Unborn'
    <3>1. \A q \in Tasks : bus'[q] = bus[q] \/ bus'[q] = IdleBus
      BY <1>12, <1>t DEF Crash
    <3>2. IdleBus.meta = Gone /\ IdleBus.active = FALSE
      BY DEF IdleBus
    <3>4. \A d \in Clients, k \in Sockets : post'[d].req[k].at \in {post[d].req[k].at, NoTask}
      BY <1>12, PostCrash DEF LifeInv, LiveTypes
    <3> QED BY <2>1, <2>2, <2>5, <2>6, <3>1, <3>2, <3>4, <1>i DEF Unborn
  <2> QED BY <2>1, <2>3, <2>4, <2>7, <2>8, <1>r
<1>13. ASSUME TimePasses PROVE InLine' /\ OneSender' /\ Orphaned' /\ NothingLeft' /\ Unborn'
  <2>1. UNCHANGED <<rows, history, sse, chain, post, server, used>> /\ (~ Live => run' = run)
    BY <1>13 DEF TimePasses
  <2>2. run'.row = run.row
    BY <1>13, <1>t DEF TimePasses, RunRecord
  <2>3. \A q \in Tasks : bus'[q] = OlderBus(bus[q])
    BY <1>13 DEF TimePasses
  <2>4. \A q \in Tasks : bus[q].meta = Gone => bus'[q].meta = Gone
    BY <2>3, <1>t, BusTypes
  <2>5. \A q \in Tasks : bus'[q].active = bus[q].active
    BY <2>3, <1>t, BusTypes
  <2>6. Orphaned' /\ NothingLeft'
    BY <2>1, <2>2, <1>i DEF Orphaned, NothingLeft, Live
  <2>7. Unborn'
    BY <2>1, <2>2, <2>4, <2>5, <1>i DEF Unborn, Live
  <2> QED BY <2>1, <2>6, <2>7, <1>c
<1>14. ASSUME NEW p \in Tasks, NEW l \in Lanes, NEW i \in DOMAIN chain[p][l], Working(p, l, i)
       PROVE  FALSE
  BY <1>14
<1> QED BY <1>1, <1>2, <1>3, <1>4, <1>s, <1>5, <1>6, <1>7, <1>8, <1>9, <1>10, <1>11, <1>12, <1>13, <1>14
     DEF Next, TaskStep, JobStep, Working

\* Every step keeps the line and the life of the run.
LEMMA LifeStep == LifeInv /\ [Next]_vars => LifeInv'
<1> SUFFICES ASSUME LifeInv, [Next]_vars PROVE LifeInv'
  OBVIOUS
<1>1. LiveTypes'
  BY LiveTypesStep DEF LifeInv
<1>2. CASE UNCHANGED vars
  BY <1>1, <1>2 DEF vars, LifeInv, InLine, OneSender, Orphaned, NothingLeft, Unborn, Waiting, Live
<1>3. CASE Next
  BY <1>1, <1>3, OtherLife, WorkingLife DEF LifeInv
<1> QED BY <1>2, <1>3

\* The invariant all others rest on: types, the line of jobs, the life of the run.
LEMMA LifeInvariant == Spec => []LifeInv
BY LifeInit, LifeStep, PTL DEF Spec

-----------------------------------------------------------------------------
(* The steps of a live run *)

\* The run.aborted event is in no batch, so only an abort has it in hand.
LEMMA AbortInHand ==
  ASSUME LifeInv, NEW p \in Tasks, NEW l \in Lanes, NEW j \in Range(chain[p][l]), Aborted \in Range(j.evs)
  PROVE  j.kind = "abort"
<1>1. j \in Job
  BY DEF LifeInv, LiveTypes, TypeOK, Range
<1>2. j.kind # "events"
  BY SenderOf DEF LifeInv, OneSender
<1> QED BY <1>1, <1>2, JobFields

\* A statement has failed.
Failing == used' = [used EXCEPT !.faults = @ + 1]

\* The job h at the head of the map of p goes to step pc.
Goes(p, h, pc) == Puts(p, "map", [h EXCEPT !.pc = pc])

\* What a step of the chain does while the run is live: it is made by the job at
\* the head of the map.
LEMMA HeadSteps ==
  ASSUME LifeInv, Live, NEW p \in Tasks, NEW l \in Lanes, NEW i \in DOMAIN chain[p][l], Working(p, l, i),
         NEW h, h = chain[p]["map"][1]
  PROVE  /\ h \in Job /\ chain[p]["map"] # <<>> /\ 1 \in DOMAIN chain[p]["map"] /\ h \in Range(chain[p]["map"])
         /\ h.evs \in Seq(Events) /\ h.evs # <<>>
         /\ UNCHANGED <<run, post, server>>
         /\ \/ /\ h.kind = "events" /\ h.pc = "write" /\ Drops(p, "map")
               /\ UNCHANGED <<rows, history, sse, bus, used>>
            \/ /\ h.kind = "events" /\ h.pc = "write" /\ WriteEvent(p, "map", 1)
               /\ Goes(p, h, IF Head(h.evs).type \in TestTypes /\ Count(Head(h.evs).test) = 0
                             THEN "insert" ELSE "persist")
               /\ UNCHANGED <<history, sse, bus, used>>
            \/ /\ h.kind = "events" /\ h.pc = "insert" /\ InsertResult(p, "map", 1)
               /\ Goes(p, h, "persist") /\ UNCHANGED <<history, sse, bus, used>>
            \/ /\ h.pc = "persist" /\ Goes(p, h, "emit")
               /\ history' = Append(history, Head(h.evs)) /\ UNCHANGED <<rows, sse, bus, used>>
            \/ /\ h.pc = "emit" /\ sse' = sse \cup {Head(h.evs)}
               /\ bus' = [bus EXCEPT ![p] = Emitted(@, Head(h.evs).type)]
               /\ UNCHANGED <<rows, history, used>>
               /\ \/ Drops(p, "map") /\ Len(h.evs) = 1
                  \/ h.kind = "events" /\ Len(h.evs) # 1 /\ Puts(p, "map", RestOf(h))
            \/ /\ h.kind = "abort" /\ h.pc = "check" /\ UNCHANGED <<rows, history, sse, bus, used>>
               /\ \/ Drops(p, "map")
                  \/ ~ IsAborted /\ Goes(p, h, "transition")
            \/ /\ h.kind = "abort" /\ h.pc = "transition" /\ Transition(p, "map", 1)
               /\ Goes(p, h, "persist") /\ UNCHANGED <<history, sse, bus, used>>
            \/ /\ Failing /\ UNCHANGED <<rows, history, sse, bus>>
               /\ \/ h.kind = "events" /\ h.pc \in {"write", "insert"} /\ Goes(p, h, "persist")
                  \/ h.kind = "abort" /\ h.pc = "transition" /\ Goes(p, h, "persist")
                  \/ h.pc = "persist" /\ Goes(p, h, "emit")
                  \/ h.kind = "abort" /\ h.pc = "check" /\ Drops(p, "map")
<1>1. TypeOK /\ NoEmptyJob /\ "map" \in Lanes /\ "orphan" \in Lanes
  BY DEF LifeInv, LiveTypes, Lanes
<1>2. i = 1 /\ chain[p][l] # <<>> /\ chain[p][l][1] \in Job /\ 1 \in DOMAIN chain[p][l]
  BY <1>1, WorkingAtHead
<1>3. l = "map"
  BY <1>1, <1>2 DEF LifeInv, Orphaned, Live, Lanes
<1>4. h \in Job /\ h \in Range(chain[p]["map"])
  BY <1>2, <1>3 DEF Range
<1>5. h.evs \in Seq(Events) /\ h.evs # <<>>
  <2>1. h.evs \in Seq(Events)
    BY <1>4, JobFields
  <2>2. h.evs # <<>>
    BY <1>1, <1>4 DEF NoEmptyJob
  <2> QED BY <2>1, <2>2
<1>6. UNCHANGED <<run, post, server>>
  BY DEF Working, JobForgotten, WriteEvent, InsertResult, Persist, Emit, AbortCheck, Transition, Fault
<1>7. \A kind, pc : At(p, "map", 1, kind, pc) =>
        /\ h.kind = kind /\ h.pc = pc
        /\ \A to : GoTo(p, "map", 1, to) => Goes(p, h, to)
        /\ EndJob(p, "map", 1) => Drops(p, "map")
  BY <1>1, ChainSteps DEF Goes
<1>8. Working(p, "map", 1)
  BY <1>2, <1>3
<1>9. ASSUME NEW kind, At(p, "map", 1, kind, "emit"), NextEvent(p, "map", 1)
      PROVE  \/ Drops(p, "map") /\ Len(h.evs) = 1
             \/ h.kind = "events" /\ Len(h.evs) # 1 /\ Puts(p, "map", RestOf(h))
  <2>1. CASE Len(h.evs) = 1
    BY <2>1, <1>7, <1>9 DEF NextEvent
  <2>2. CASE Len(h.evs) # 1
    <3>0. Len(<<Aborted>>) = 1
      OBVIOUS
    <3>1. h.kind # "abort"
      BY <2>2, <3>0, <1>4, JobFields
    <3>2. Puts(p, "map", RestOf(h))
      BY <2>2, <1>9 DEF NextEvent, Puts
    <3> QED BY <2>2, <3>1, <3>2, <1>4, JobFields
  <2> QED BY <2>1, <2>2
<1>10. CASE JobForgotten(p, "map", 1)
  BY <1>2, <1>3, <1>4, <1>5, <1>6, <1>7, <1>10 DEF JobForgotten
<1>11. CASE WriteEvent(p, "map", 1)
  BY <1>2, <1>3, <1>4, <1>5, <1>6, <1>7, <1>11 DEF WriteEvent
<1>12. CASE InsertResult(p, "map", 1)
  BY <1>2, <1>3, <1>4, <1>5, <1>6, <1>7, <1>12 DEF InsertResult
<1>13. CASE Persist(p, "map", 1)
  BY <1>2, <1>3, <1>4, <1>5, <1>6, <1>7, <1>13 DEF Persist
<1>14. CASE Emit(p, "map", 1)
  BY <1>2, <1>3, <1>4, <1>5, <1>6, <1>7, <1>9, <1>14 DEF Emit
<1>15. CASE AbortCheck(p, "map", 1)
  BY <1>2, <1>3, <1>4, <1>5, <1>6, <1>7, <1>15 DEF AbortCheck, MayAbort, Terminal
<1>16. CASE Transition(p, "map", 1)
  BY <1>2, <1>3, <1>4, <1>5, <1>6, <1>7, <1>16 DEF Transition
<1>17. CASE Fault(p, "map", 1)
  <2>1. Failing /\ UNCHANGED <<rows, history, sse, bus>>
    BY <1>17 DEF Fault, Failing
  <2>2. \/ h.kind = "events" /\ h.pc \in {"write", "insert"} /\ Goes(p, h, "persist")
        \/ h.kind = "abort" /\ h.pc = "transition" /\ Goes(p, h, "persist")
        \/ h.pc = "persist" /\ Goes(p, h, "emit")
        \/ h.kind = "abort" /\ h.pc = "check" /\ Drops(p, "map")
    BY <1>7, <1>17 DEF Fault
  <2> QED BY <2>1, <2>2, <1>2, <1>3, <1>4, <1>5, <1>6
<1> QED BY <1>8, <1>10, <1>11, <1>12, <1>13, <1>14, <1>15, <1>16, <1>17 DEF Working

\* Somebody asked for an abort, or the reporters have been silent for the window.
Quiet == run.silent \/ used.aborts > 0

\* Why an abort of p is enqueued.
Reason(p, by) ==
  \/ by = "request" /\ used'.aborts > 0
  \/ by = "sweep" /\ bus[p].meta >= StaleAge
  \/ by = "reconcile" /\ server[p].listed

\* What is enqueued by a step.
NoNews == \A q \in Tasks : chain'[q]["map"] = chain[q]["map"] \/ chain'[q]["map"] = <<>>

NewAbort(p, by) == chain' = Enqueue(p, AbortJob(by)) /\ Reason(p, by) /\ UNCHANGED <<rows, history, sse>>

NewBatch(c, p, b) ==
  /\ InHand(c, b)
  /\ chain' = Enqueue(p, EventsJob(Script[c][b]))
  /\ run'.late <=> run.late \/ AbortUnderWay
  /\ UNCHANGED <<rows, history, sse>>

\* What the other steps do while the run is live, and stays so.
LEMMA OtherSteps ==
  ASSUME LifeInv, Next, Live, Live',
         ~ \E p \in Tasks, l \in Lanes : \E i \in DOMAIN chain[p][l] : Working(p, l, i)
  PROVE  /\ Quiet => Quiet'
         /\ used'.faults = used.faults
         /\ run.late => run'.late
         /\ rows' = rows \/ (Uploads /\ \A t \in Tests : rows'[t]["pending"] = 0)
         /\ history' = history \/ history' = Append(history, Started)
         /\ sse' = sse \/ sse' = sse \cup {Started}
         /\ \A q \in Tasks : server'[q].listed => server[q].listed \/ run.age = StaleAge
         /\ \A c \in Clients : GoesOn(c)
         /\ \/ NoNews
            \/ \E p \in Tasks, by \in {"request", "sweep", "reconcile"} : NewAbort(p, by)
            \/ \E c \in Clients, p \in Tasks, b \in Nat : NewBatch(c, p, b)
<1> DEFINE Goal ==
         /\ Quiet => Quiet'
         /\ used'.faults = used.faults
         /\ run.late => run'.late
         /\ rows' = rows \/ (Uploads /\ \A t \in Tests : rows'[t]["pending"] = 0)
         /\ history' = history \/ history' = Append(history, Started)
         /\ sse' = sse \/ sse' = sse \cup {Started}
         /\ \A q \in Tasks : server'[q].listed => server[q].listed \/ run.age = StaleAge
         /\ \A c \in Clients : GoesOn(c)
         /\ \/ NoNews
            \/ \E p \in Tasks, by \in {"request", "sweep", "reconcile"} : NewAbort(p, by)
            \/ \E c \in Clients, p \in Tasks, b \in Nat : NewBatch(c, p, b)
<1>t. /\ run \in RunRecord /\ used \in UsedRecord
      /\ bus \in [Tasks -> BusRecord] /\ chain \in [Tasks -> [Lanes -> Seq(Job)]]
      /\ post \in [Clients -> PostRecord] /\ server \in [Tasks -> ServerRecord]
      /\ "map" \in Lanes /\ BatchInHand
  BY DEF LifeInv, LiveTypes, TypeOK, Lanes
<1>g. \A c \in Clients : GoesOn(c)
  BY BatchStaysInHand DEF LifeInv, LiveTypes
<1>u. used.aborts \in Nat /\ used.aborts + 1 > 0
  BY <1>t, BoundAssumption DEF UsedRecord
<1>1. ASSUME NEW p \in Tasks, Cleanup(p) \/ IdleTimeout(p) \/ Watch(p) PROVE Goal
  <2>1. UNCHANGED <<run, rows, history, sse, chain, post, server, used>>
    BY <1>1 DEF Cleanup, IdleTimeout, Watch
  <2> QED BY <2>1, <1>g DEF Quiet, NoNews
<1>2. ASSUME NEW p \in Tasks, StartUpsert(p) PROVE Goal
  <2>1. /\ UNCHANGED <<rows, history, sse, bus, chain, post>>
        /\ run' = [run EXCEPT !.row = "live"]
        /\ used' = [used EXCEPT !.starts = @ + 1]
        /\ server' = [server EXCEPT ![p].starting = TRUE]
    BY <1>2 DEF StartUpsert
  <2>2. run'.silent = run.silent /\ run'.late = run.late
    BY <2>1, <1>t DEF RunRecord
  <2>3. used'.aborts = used.aborts /\ used'.faults = used.faults
    BY <2>1, <1>t DEF UsedRecord
  <2>4. \A q \in Tasks : server'[q].listed = server[q].listed
    BY <2>1, <1>t DEF ServerRecord
  <2> QED BY <2>1, <2>2, <2>3, <2>4, <1>g DEF Quiet, NoNews
<1>3. ASSUME NEW p \in Tasks, StartRegister(p) PROVE Goal
  <2>1. /\ UNCHANGED <<run, rows, history, chain, post, used>> /\ sse' = sse \cup {Started}
        /\ server' = [server EXCEPT ![p].starting = FALSE, ![p].unsaved = @ + 1]
    BY <1>3 DEF StartRegister
  <2>2. \A q \in Tasks : server'[q].listed = server[q].listed
    BY <2>1, <1>t DEF ServerRecord
  <2> QED BY <2>1, <2>2, <1>g DEF Quiet, NoNews
<1>4. ASSUME NEW p \in Tasks, PersistStart(p) PROVE Goal
  <2>1. /\ UNCHANGED <<run, rows, sse, bus, chain, post, used>>
        /\ history' = history \/ history' = Append(history, Started)
        /\ server' = [server EXCEPT ![p].unsaved = @ - 1]
    BY <1>4 DEF PersistStart
  <2>2. \A q \in Tasks : server'[q].listed = server[q].listed
    BY <2>1, <1>t DEF ServerRecord
  <2> QED BY <2>1, <2>2, <1>g DEF Quiet, NoNews
<1>s. ASSUME NEW c \in Clients, NEW k \in Sockets,
             PostSend(c, k) \/ \E j \in Sockets : PostResend(c, k, j)
      PROVE  Goal
  <2>1. UNCHANGED <<run, rows, history, sse, bus, chain, server>>
    BY <1>s DEF PostSend, PostResend
  <2>2. used' = used \/ used' = [used EXCEPT !.retries = @ + 1]
    BY <1>s DEF PostSend, PostResend
  <2>3. used'.aborts = used.aborts /\ used'.faults = used.faults
    BY <2>2, <1>t DEF UsedRecord
  <2> QED BY <2>1, <2>3, <1>g DEF Quiet, NoNews
<1>5. ASSUME NEW c \in Clients, NEW k \in Sockets, NEW p \in Tasks, PostArrive(c, k, p) PROVE Goal
  <2>1. /\ UNCHANGED <<rows, history, sse, bus, chain, server>>
        /\ run' = [run EXCEPT !.age = 0]
        /\ used' = [used EXCEPT !.beats = IF Free(c, k) THEN @ + 1 ELSE @]
    BY <1>5 DEF PostArrive
  <2>2. run'.silent = run.silent /\ run'.late = run.late
    BY <2>1, <1>t DEF RunRecord
  <2>3. used'.aborts = used.aborts /\ used'.faults = used.faults
    BY <2>1, <1>t DEF UsedRecord
  <2> QED BY <2>1, <2>2, <2>3, <1>g DEF Quiet, NoNews
<1>6. ASSUME NEW c \in Clients, NEW k \in Sockets, NEW answered \in BOOLEAN, PostSync(c, k, answered) PROVE Goal
  <2>1. /\ UNCHANGED <<rows, history, sse, server>>
        /\ run' = [run EXCEPT !.late = @ \/ (post[c].req[k].batch > 0 /\ AbortUnderWay)]
        /\ used' = [used EXCEPT !.retries = IF answered THEN @ ELSE @ + 1]
    BY <1>6 DEF PostSync
  <2>2. run'.silent = run.silent /\ (run'.late <=> run.late \/ (post[c].req[k].batch > 0 /\ AbortUnderWay))
    BY <2>1, <1>t DEF RunRecord
  <2>3. used'.aborts = used.aborts /\ used'.faults = used.faults
    BY <2>1, <1>t DEF UsedRecord
  <2>5. NoNews \/ \E p \in Tasks, b \in Nat : NewBatch(c, p, b)
    <3>1. CASE post[c].req[k].batch = 0
      BY <3>1, <1>6 DEF PostSync, NoNews
    <3>2. CASE post[c].req[k].batch # 0
      <4>1. PICK p, b : p = post[c].req[k].at /\ b = post[c].req[k].batch
        OBVIOUS
      <4>2. p \in Tasks /\ b \in Nat
        BY <4>1, <1>6, <1>t DEF PostSync, PostRecord, Request
      <4>3. b > 0
        BY <3>2, <4>1, <4>2
      <4>4. InHand(c, b)
        BY <4>1, <4>3, <1>t DEF BatchInHand
      <4>5. chain' = Enqueue(p, EventsJob(Script[c][b]))
        BY <3>2, <4>1, <1>6 DEF PostSync
      <4>6. NewBatch(c, p, b)
        BY <2>1, <2>2, <4>1, <4>3, <4>4, <4>5 DEF NewBatch
      <4> QED BY <4>2, <4>6
    <3> QED BY <3>1, <3>2
  <2> QED BY <2>1, <2>2, <2>3, <2>5, <1>g DEF Quiet
<1>7. ASSUME NEW p \in Tasks, RequestAbort(p) PROVE Goal
  <2>1. /\ chain' = Enqueue(p, AbortJob("request"))
        /\ used' = [used EXCEPT !.aborts = @ + 1]
        /\ UNCHANGED <<run, rows, history, sse, bus, post, server>>
    BY <1>7 DEF RequestAbort, EnqueueAbort
  <2>2. used'.aborts > 0 /\ used'.faults = used.faults
    BY <2>1, <1>t, <1>u DEF UsedRecord
  <2>3. NewAbort(p, "request")
    BY <2>1, <2>2 DEF NewAbort, Reason
  <2> QED BY <2>1, <2>2, <2>3, <1>g DEF Quiet
<1>8. ASSUME NEW p \in Tasks, Sweep(p) PROVE Goal
  <2>1. UNCHANGED <<run, rows, history, sse, bus, post, server, used>>
    BY <1>8 DEF Sweep
  <2>2. NewAbort(p, "sweep")
    BY <2>1, <1>8 DEF NewAbort, Reason, Sweep, EnqueueAbort
  <2> QED BY <2>1, <2>2, <1>g DEF Quiet
<1>9. ASSUME NEW p \in Tasks, ReconcileSelect(p) PROVE Goal
  <2>1. run.age = StaleAge /\ UNCHANGED <<run, rows, history, sse, bus, chain, post, used>>
    BY <1>9 DEF ReconcileSelect
  <2> QED BY <2>1, <1>g DEF Quiet, NoNews
<1>10. ASSUME NEW p \in Tasks, ReconcileAbort(p) PROVE Goal
  <2>1. /\ UNCHANGED <<run, rows, history, sse, bus, post, used>>
        /\ server' = [server EXCEPT ![p].listed = FALSE]
    BY <1>10 DEF ReconcileAbort
  <2>2. NewAbort(p, "reconcile")
    BY <2>1, <1>10 DEF NewAbort, Reason, ReconcileAbort, EnqueueAbort
  <2>3. \A q \in Tasks : server'[q].listed => server[q].listed
    BY <2>1, <1>t DEF ServerRecord
  <2> QED BY <2>1, <2>2, <2>3, <1>g DEF Quiet
<1>11. ASSUME Upload PROVE Goal
  <2>1. /\ Uploads /\ run' = [run EXCEPT !.row = "live", !.finished = TRUE]
        /\ UNCHANGED <<history, sse, bus, chain, post, server, used>>
    BY <1>11 DEF Upload
  <2>2. run'.silent = run.silent /\ run'.late = run.late
    BY <2>1, <1>t DEF RunRecord
  <2>3. \A t \in Tests : rows'[t]["pending"] = 0
    BY <1>11 DEF Upload, Statuses
  <2> QED BY <2>1, <2>2, <2>3, <1>g DEF Quiet, NoNews
<1>12. ASSUME NEW p \in Tasks, DeleteRow(p) PROVE FALSE
  <2>1. run'.row = "deleted"
    BY <1>12, <1>t DEF DeleteRow, RunRecord
  <2> QED BY <2>1 DEF Live
<1>13. ASSUME NEW p \in Tasks, Forget(p) PROVE FALSE
  BY <1>13 DEF Forget, LifeInv, Orphaned, Live
<1>14. ASSUME NEW p \in Tasks, Crash(p) PROVE Goal
  <2>1. /\ UNCHANGED <<run, rows, history, sse>>
        /\ used' = [used EXCEPT !.crashes = @ + 1]
        /\ chain' = [chain EXCEPT ![p] = [l \in Lanes |-> <<>>]]
        /\ server' = [server EXCEPT ![p] = IdleServer]
    BY <1>14 DEF Crash
  <2>2. used'.aborts = used.aborts /\ used'.faults = used.faults
    BY <2>1, <1>t DEF UsedRecord
  <2>3. \A q \in Tasks : server'[q].listed => server[q].listed
    BY <2>1, <1>t DEF ServerRecord, IdleServer
  <2>4. NoNews
    BY <2>1, <1>t DEF NoNews
  <2> QED BY <2>1, <2>2, <2>3, <2>4, <1>g DEF Quiet
<1>15. ASSUME TimePasses PROVE Goal
  <2>1. /\ UNCHANGED <<rows, history, sse, chain, post, server, used>>
        /\ run' = [run EXCEPT !.age = Older(@, StaleAge),
                              !.silent = @ \/ Older(run.age, StaleAge) = StaleAge]
    BY <1>15 DEF TimePasses
  <2>2. (run.silent => run'.silent) /\ run'.late = run.late
    BY <2>1, <1>t DEF RunRecord
  <2> QED BY <2>1, <2>2, <1>g DEF Quiet, NoNews
<1>16. ASSUME NEW p \in Tasks, NEW l \in Lanes, NEW i \in DOMAIN chain[p][l], Working(p, l, i)
       PROVE  FALSE
  BY <1>16
<1> HIDE DEF Goal
<1>17. Goal
  BY <1>1, <1>2, <1>3, <1>4, <1>s, <1>5, <1>6, <1>7, <1>8, <1>9, <1>10, <1>11, <1>12, <1>13, <1>14, <1>15, <1>16
     DEF Next, TaskStep, JobStep, Working
<1> QED BY <1>17 DEF Goal

\* A run that comes to be finds nothing of itself.
LEMMA Births ==
  ASSUME LifeInv, Next, ~ Live, Live'
  PROVE  /\ run.row = "none" /\ run'.age = 0
         /\ UNCHANGED <<history, sse, bus, chain, post>>
         /\ rows' = rows \/ Uploads
         /\ \A p \in Tasks : ~ server'[p].listed
         /\ used'.faults = used.faults
<1>t. /\ run \in RunRecord /\ used \in UsedRecord /\ server \in [Tasks -> ServerRecord] /\ Unborn
  BY DEF LifeInv, LiveTypes, TypeOK
<1>w. ASSUME NEW p \in Tasks, NEW l \in Lanes, NEW i \in DOMAIN chain[p][l], Working(p, l, i)
      PROVE  UNCHANGED run
  BY <1>w DEF Working, JobForgotten, WriteEvent, InsertResult, Persist, Emit, AbortCheck, Transition, Fault
<1>1. ASSUME NEW p \in Tasks,
             \/ StartRegister(p) \/ PersistStart(p) \/ Sweep(p) \/ ReconcileSelect(p) \/ ReconcileAbort(p)
             \/ Forget(p) \/ Cleanup(p) \/ IdleTimeout(p) \/ RequestAbort(p) \/ Watch(p) \/ Crash(p)
      PROVE  UNCHANGED run
  BY <1>1 DEF StartRegister, PersistStart, Sweep, ReconcileSelect, ReconcileAbort, Forget, Cleanup,
              IdleTimeout, RequestAbort, Watch, Crash
<1>2. ASSUME NEW p \in Tasks, DeleteRow(p) PROVE FALSE
  BY <1>2 DEF DeleteRow
<1>s. ASSUME NEW c \in Clients, NEW k \in Sockets,
             PostSend(c, k) \/ \E j \in Sockets : PostResend(c, k, j)
      PROVE  UNCHANGED run
  BY <1>s DEF PostSend, PostResend
<1>3. ASSUME NEW c \in Clients, NEW k \in Sockets, NEW p \in Tasks, PostArrive(c, k, p) PROVE FALSE
  BY <1>3 DEF PostArrive
<1>4. ASSUME NEW c \in Clients, NEW k \in Sockets, NEW answered \in BOOLEAN, PostSync(c, k, answered)
      PROVE  run'.row = run.row
  <2>1. run' = [run EXCEPT !.late = @ \/ (post[c].req[k].batch > 0 /\ AbortUnderWay)]
    BY <1>4 DEF PostSync
  <2> QED BY <2>1, <1>t DEF RunRecord
<1>5. ASSUME TimePasses PROVE UNCHANGED run
  BY <1>5 DEF TimePasses
<1>6. (\E p \in Tasks : StartUpsert(p)) \/ Upload
  BY <1>w, <1>1, <1>2, <1>s, <1>3, <1>4, <1>5 DEF Next, TaskStep, JobStep, Working, Live
<1>7. run.row = "none"
  BY <1>6, <1>t DEF StartUpsert, Upload, RunRecord, Live
<1>8. ASSUME NEW p \in Tasks, StartUpsert(p)
      PROVE  /\ run'.age = 0 /\ UNCHANGED <<history, sse, bus, chain, post, rows>>
             /\ \A q \in Tasks : ~ server'[q].listed
             /\ used'.faults = used.faults
  BY <1>7, <1>8, <1>t DEF StartUpsert, Unborn, RunRecord, ServerRecord, UsedRecord
<1>9. ASSUME Upload
      PROVE  /\ run'.age = 0 /\ UNCHANGED <<history, sse, bus, chain, post, server, used>>
             /\ \A q \in Tasks : ~ server'[q].listed /\ Uploads
  BY <1>7, <1>9, <1>t DEF Upload, Unborn, RunRecord
<1>10. Upload => Uploads
  BY DEF Upload
<1> QED BY <1>6, <1>7, <1>8, <1>9, <1>10

-----------------------------------------------------------------------------
(* No abort without a reason *)

\* One server process.  What its memory and its promise chain order is not ordered
\* between two: a heartbeat that reaches one of them leaves the bus of the other
\* stale, and its sweeper aborts a run that is not silent; both may pass abortRun's
\* state query; batches they acknowledged are written in either order, and two
\* UPDATEs of a test that match nothing are followed by two INSERTs.
OneTask == \A p, q \in Tasks : p = q

\* An abort, its request and its result have a reason.
Reasons ==
  Live =>
    /\ IsAborted => Quiet
    /\ \A p \in Tasks : \A j \in Range(chain[p]["map"]) : j.kind = "abort" => Quiet
    /\ \A p \in Tasks : server[p].listed => Quiet

\* The bus knows no less than the row when the reporters were last heard.
Silence ==
  Live =>
    /\ run.age = StaleAge => run.silent
    /\ \A p \in Tasks : bus[p].meta = StaleAge => run.silent
    /\ (\A c \in Clients, k \in Sockets : post[c].req[k].at = NoTask) => \A p \in Tasks : bus[p].meta <= run.age

AbortsInv == Reasons /\ Silence

\* What the head's step leaves in the map: jobs that were there, or the head again.
LEMMA HeadLeaves ==
  ASSUME LifeInv, Live, NEW p \in Tasks, NEW l \in Lanes, NEW i \in DOMAIN chain[p][l], Working(p, l, i)
  PROVE  \A q \in Tasks : \A j \in Range(chain'[q]["map"]) :
            \/ j \in Range(chain[q]["map"])
            \/ \E h \in Range(chain[q]["map"]) : j.kind = h.kind
<1>1. TypeOK /\ NoEmptyJob /\ "map" \in Lanes
  BY DEF LifeInv, LiveTypes, Lanes
<1>2. PICK h : h = chain[p]["map"][1]
  OBVIOUS
<1>3. h \in Job /\ chain[p]["map"] # <<>> /\ h \in Range(chain[p]["map"]) /\ h.evs # <<>>
  BY <1>2, HeadSteps
<1>5. \/ Drops(p, "map")
      \/ \E j \in Job : Puts(p, "map", j) /\ j.kind = h.kind
  <2>1. l = "map"
    <3>1. chain[p][l] # <<>>
      BY <1>1, WorkingAtHead
    <3> QED BY <3>1 DEF LifeInv, Orphaned, Live, Lanes
  <2> QED BY <1>1, <1>2, <2>1, WorkingAtHead
<1>6. CASE Drops(p, "map")
  <2>1. \A q \in Tasks : Range(chain'[q]["map"]) \subseteq Range(chain[q]["map"])
    BY <1>1, <1>3, <1>6, DropsEffect
  <2> QED BY <2>1
<1>7. ASSUME NEW j \in Job, Puts(p, "map", j), j.kind = h.kind
      PROVE  \A q \in Tasks : \A k \in Range(chain'[q]["map"]) :
               \/ k \in Range(chain[q]["map"])
               \/ \E g \in Range(chain[q]["map"]) : k.kind = g.kind
  <2>1. /\ \A q \in Tasks : q # p => chain'[q]["map"] = chain[q]["map"]
        /\ Range(chain'[p]["map"]) \subseteq Range(chain[p]["map"]) \cup {j}
    <3>1. \A q \in Tasks, m \in Lanes : q # p \/ m # "map" => chain'[q][m] = chain[q][m]
      BY <1>1, <1>3, <1>7, PutsEffect
    <3>2. Range(chain'[p]["map"]) \subseteq Range(chain[p]["map"]) \cup {j}
      BY <1>1, <1>3, <1>7, PutsEffect
    <3> QED BY <3>1, <3>2, <1>1
  <2> SUFFICES ASSUME NEW q \in Tasks, NEW k \in Range(chain'[q]["map"]), k \notin Range(chain[q]["map"])
               PROVE  \E g \in Range(chain[q]["map"]) : k.kind = g.kind
    OBVIOUS
  <2>2. q = p /\ k = j
    BY <2>1
  <2> QED BY <2>2, <1>3, <1>7
<1> QED BY <1>5, <1>6, <1>7

\* A history with one event more.
LEMMA LongerHistory ==
  ASSUME NEW S, NEW s \in Seq(S), NEW e
  PROVE  /\ Range(Append(s, e)) = Range(s) \cup {e}
         /\ Len(Append(s, e)) = Len(s) + 1
         /\ \A k \in DOMAIN s : Append(s, e)[k] = s[k]
         /\ Append(s, e)[Len(s) + 1] = e
         /\ DOMAIN s = 1 .. Len(s) /\ DOMAIN Append(s, e) = 1 .. Len(s) + 1
<1>1. /\ Len(Append(s, e)) = Len(s) + 1
      /\ \A k \in DOMAIN s : Append(s, e)[k] = s[k]
      /\ Append(s, e)[Len(s) + 1] = e
      /\ DOMAIN s = 1 .. Len(s) /\ DOMAIN Append(s, e) = 1 .. Len(s) + 1
  OBVIOUS
<1>2. Len(s) \in Nat
  OBVIOUS
<1>3. \A k \in 1 .. Len(s) + 1 : k \in 1 .. Len(s) \/ k = Len(s) + 1
  BY <1>2
<1>4. 1 .. Len(s) \subseteq 1 .. Len(s) + 1 /\ Len(s) + 1 \in 1 .. Len(s) + 1
  BY <1>2
<1> QED BY <1>1, <1>3, <1>4 DEF Range

\* A step keeps the reasons of the aborts.
LEMMA ReasonsStep ==
  ASSUME LifeInv, AbortsInv, Next
  PROVE  Reasons'
<1> SUFFICES ASSUME Live'
             PROVE  /\ IsAborted' => Quiet'
                    /\ \A p \in Tasks : \A j \in Range(chain'[p]["map"]) : j.kind = "abort" => Quiet'
                    /\ \A p \in Tasks : server'[p].listed => Quiet'
  BY DEF Reasons
<1>t. TypeOK /\ "map" \in Lanes /\ history \in Seq(Events)
  BY DEF LifeInv, LiveTypes, TypeOK, Lanes
<1>1. CASE ~ Live
  <2>1. /\ run.row = "none" /\ UNCHANGED <<history, chain>> /\ \A p \in Tasks : ~ server'[p].listed
    BY <1>1, Births
  <2>2. history = <<>> /\ \A p \in Tasks : chain[p]["map"] = <<>>
    BY <2>1, <1>1, <1>t DEF LifeInv, Unborn, NothingLeft
  <2>3. Range(<<>>) = {}
    BY DEF Range
  <2> QED BY <2>1, <2>2, <2>3 DEF IsAborted
<1>2. CASE Live /\ \E p \in Tasks, l \in Lanes : \E i \in DOMAIN chain[p][l] : Working(p, l, i)
  <2>1. PICK p \in Tasks, l \in Lanes : \E i \in DOMAIN chain[p][l] : Working(p, l, i)
    BY <1>2
  <2>2. PICK i \in DOMAIN chain[p][l] : Working(p, l, i)
    BY <2>1
  <2>3. PICK h : h = chain[p]["map"][1]
    OBVIOUS
  <2>4. /\ h \in Job /\ h \in Range(chain[p]["map"]) /\ h.evs # <<>> /\ UNCHANGED <<run, server>>
        /\ history' = history \/ history' = Append(history, Head(h.evs))
        /\ used' = used \/ Failing
    BY <1>2, <2>2, <2>3, HeadSteps
  <2>5. Quiet => Quiet'
    <3>1. used'.aborts = used.aborts
      BY <2>4, <1>t DEF Failing, TypeOK, UsedRecord
    <3> QED BY <2>4, <3>1 DEF Quiet
  <2>6. IsAborted' => Quiet'
    <3> SUFFICES ASSUME IsAborted' PROVE Quiet'
      OBVIOUS
    <3>1. CASE IsAborted
      BY <3>1, <2>5, <1>2 DEF AbortsInv, Reasons
    <3>2. CASE ~ IsAborted
      <4>1. history' = Append(history, Head(h.evs))
        BY <3>2, <2>4 DEF IsAborted
      <4>2. Range(history') = Range(history) \cup {Head(h.evs)}
        BY <4>1, <1>t, LongerHistory
      <4>3. Aborted = Head(h.evs)
        BY <3>2, <4>2 DEF IsAborted
      <4>4. Head(h.evs) \in Range(h.evs)
        BY <2>4, HeadEvent
      <4>5. h.kind = "abort"
        BY <4>3, <4>4, <2>4, <1>t, AbortInHand
      <4> QED BY <4>5, <2>4, <2>5, <1>2 DEF AbortsInv, Reasons
    <3> QED BY <3>1, <3>2
  <2>7. \A q \in Tasks : \A j \in Range(chain'[q]["map"]) : j.kind = "abort" => Quiet'
    <3>1. \A q \in Tasks : \A j \in Range(chain'[q]["map"]) :
            j \in Range(chain[q]["map"]) \/ \E g \in Range(chain[q]["map"]) : j.kind = g.kind
      BY <1>2, <2>2, HeadLeaves
    <3> QED BY <3>1, <2>5, <1>2 DEF AbortsInv, Reasons
  <2> QED BY <2>4, <2>5, <2>6, <2>7, <1>2 DEF AbortsInv, Reasons
<1>3. CASE Live /\ ~ \E p \in Tasks, l \in Lanes : \E i \in DOMAIN chain[p][l] : Working(p, l, i)
  <2>1. /\ Quiet => Quiet'
        /\ history' = history \/ history' = Append(history, Started)
        /\ \A q \in Tasks : server'[q].listed => server[q].listed \/ run.age = StaleAge
        /\ \/ NoNews
           \/ \E p \in Tasks, by \in {"request", "sweep", "reconcile"} : NewAbort(p, by)
           \/ \E c \in Clients, p \in Tasks, b \in Nat : NewBatch(c, p, b)
    BY <1>3, OtherSteps
  <2>2. IsAborted' => IsAborted
    <3>1. history' = Append(history, Started) => Range(history') = Range(history) \cup {Started}
      BY <1>t, LongerHistory
    <3> QED BY <2>1, <3>1, OwnEvents DEF IsAborted
  <2>3. run.age = StaleAge => Quiet
    BY <1>3 DEF AbortsInv, Silence, Quiet
  <2>4. \A p \in Tasks : \A j \in Range(chain'[p]["map"]) : j.kind = "abort" => Quiet'
    <3>0. Range(<<>>) = {}
      BY DEF Range
    <3>1. CASE NoNews
      BY <3>0, <3>1, <2>1, <1>3 DEF NoNews, AbortsInv, Reasons
    <3>2. ASSUME NEW p \in Tasks, NEW by \in {"request", "sweep", "reconcile"}, NewAbort(p, by)
          PROVE  Quiet'
      <4>1. CASE by = "request"
        BY <4>1, <3>2 DEF NewAbort, Reason, Quiet
      <4>2. CASE by = "sweep"
        <5>1. bus[p].meta \in Gone .. StaleAge
          BY <1>t DEF TypeOK, BusRecord
        <5>2. bus[p].meta >= StaleAge
          BY <4>2, <3>2 DEF NewAbort, Reason
        <5>3. bus[p].meta = StaleAge
          BY <5>1, <5>2, AgeAssumption DEF Gone
        <5> QED BY <5>3, <2>1, <1>3 DEF AbortsInv, Silence, Quiet
      <4>3. CASE by = "reconcile"
        BY <4>3, <3>2, <2>1, <1>3 DEF NewAbort, Reason, AbortsInv, Reasons
      <4> QED BY <4>1, <4>2, <4>3
    <3>3. ASSUME NEW c \in Clients, NEW p \in Tasks, NEW b \in Nat, NewBatch(c, p, b)
          PROVE  \A q \in Tasks : \A j \in Range(chain'[q]["map"]) : j.kind = "abort" => Quiet'
      <4>1. PICK e : e = EventsJob(Script[c][b])
        OBVIOUS
      <4>2. e \in Job /\ e.kind = "events"
        BY <4>1, <3>3, NewJobs DEF NewBatch, InHand, EventsJob
      <4>3. \A q \in Tasks : Range(chain'[q]["map"]) \subseteq Range(chain[q]["map"]) \cup {e}
        BY <4>1, <4>2, <3>3, <1>t, EnqueueEffect DEF NewBatch
      <4> QED BY <4>2, <4>3, <2>1, <1>3 DEF AbortsInv, Reasons
    <3> QED BY <3>1, <3>2, <3>3, <2>1
  <2> QED BY <2>1, <2>2, <2>3, <2>4, <1>3 DEF AbortsInv, Reasons
<1> QED BY <1>1, <1>2, <1>3

\* The clocks of the row and of the bus go on together.
LEMMA SilenceStep ==
  ASSUME OneTask, LifeInv, AbortsInv, Next
  PROVE  Silence'
<1> SUFFICES ASSUME Live'
             PROVE  /\ run'.age = StaleAge => run'.silent
                    /\ \A p \in Tasks : bus'[p].meta = StaleAge => run'.silent
                    /\ (\A c \in Clients, k \in Sockets : post'[c].req[k].at = NoTask) => \A p \in Tasks : bus'[p].meta <= run'.age
  BY DEF Silence
<1> DEFINE Goal ==
      /\ run'.age = StaleAge => run'.silent
      /\ \A p \in Tasks : bus'[p].meta = StaleAge => run'.silent
      /\ (\A c \in Clients, k \in Sockets : post'[c].req[k].at = NoTask) => \A p \in Tasks : bus'[p].meta <= run'.age
<1>t. /\ run \in RunRecord /\ used \in UsedRecord
      /\ bus \in [Tasks -> BusRecord]
      /\ post \in [Clients -> PostRecord] /\ server \in [Tasks -> ServerRecord]
  BY DEF LifeInv, LiveTypes, TypeOK, Lanes
<1>n. /\ run.age \in 0 .. StaleAge /\ \A p \in Tasks : bus[p].meta \in Gone .. StaleAge
      /\ Gone = -1 /\ StaleAge \in Nat /\ StaleAge # 0
      /\ NoTask \notin Tasks
  BY <1>t, AgeAssumption, TaskAssumption DEF RunRecord, BusRecord, Gone
<1>y. TypeOK
  BY DEF LifeInv, LiveTypes
<1>m. \A a \in 0 .. StaleAge : -1 <= a /\ 0 <= a
  BY <1>n
<1>s. Live => /\ run.age = StaleAge => run.silent
              /\ \A p \in Tasks : bus[p].meta = StaleAge => run.silent
              /\ (\A c \in Clients, k \in Sockets : post[c].req[k].at = NoTask) => \A p \in Tasks : bus[p].meta <= run.age
  BY DEF AbortsInv, Silence
\* A bus that is left alone, forgets the run, or has just heard of it.
<1>q. ASSUME Live, UNCHANGED <<run, post>>,
             \A p \in Tasks : bus'[p].meta = bus[p].meta \/ bus'[p].meta = Gone \/ bus'[p].meta = 0
      PROVE  Goal
  <2>1. \A p \in Tasks : bus'[p].meta = StaleAge => bus[p].meta = StaleAge
    BY <1>n, <1>q
  <2>2. \A p \in Tasks : bus[p].meta <= run.age => bus'[p].meta <= run'.age
    BY <1>n, <1>m, <1>q
  <2> QED BY <2>1, <2>2, <1>s, <1>q
<1>1. CASE ~ Live
  <2>1. run.row = "none" /\ run'.age = 0 /\ UNCHANGED bus
    BY <1>1, Births
  <2>2. \A p \in Tasks : bus'[p].meta = Gone
    BY <2>1 DEF LifeInv, Unborn
  <2>3. Goal
    BY <2>1, <2>2, <1>n, <1>m
  <2> QED BY <2>3
<1>2. CASE Live /\ \E p \in Tasks, l \in Lanes : \E i \in DOMAIN chain[p][l] : Working(p, l, i)
  <2>1. PICK p \in Tasks, l \in Lanes : \E i \in DOMAIN chain[p][l] : Working(p, l, i)
    BY <1>2
  <2>2. PICK i \in DOMAIN chain[p][l] : Working(p, l, i)
    BY <2>1
  <2>3. PICK h : h = chain[p]["map"][1]
    OBVIOUS
  <2>4. /\ UNCHANGED <<run, post>>
        /\ bus' = bus \/ bus' = [bus EXCEPT ![p] = Emitted(@, Head(h.evs).type)]
    BY <1>2, <2>2, <2>3, HeadSteps
  <2>5. \A q \in Tasks : bus'[q].meta = bus[q].meta \/ bus'[q].meta = Gone \/ bus'[q].meta = 0
    <3>1. bus[p] \in BusRecord
      BY <1>t
    <3>2. Emitted(bus[p], Head(h.evs).type).meta \in {Gone, 0}
      BY <3>1, EmittedFields
    <3> QED BY <3>2, <2>4, <1>t
  <2>6. Goal
    BY <2>4, <2>5, <1>2, <1>q
  <2> QED BY <2>6
<1>3. CASE Live /\ ~ \E p \in Tasks, l \in Lanes : \E i \in DOMAIN chain[p][l] : Working(p, l, i)
  <2>a. IdleBus.meta = Gone /\ \A n \in Nat : [IdleBus EXCEPT !.cleanups = n].meta = Gone
    BY DEF IdleBus
  <2>b. \A p \in Tasks : bus[p].cleanups \in Nat /\ bus[p] \in BusRecord
    BY <1>t DEF BusRecord
  <2>1. ASSUME NEW p \in Tasks, Cleanup(p) \/ IdleTimeout(p) \/ Watch(p) PROVE Goal
    <3>1. UNCHANGED <<run, post>>
      BY <2>1 DEF Cleanup, IdleTimeout, Watch
    <3>2. CASE Cleanup(p)
      <4>1. bus' = [bus EXCEPT ![p] = [IdleBus EXCEPT !.active = bus[p].active, !.cleanups = bus[p].cleanups - 1]]
        BY <3>2 DEF Cleanup
      <4>2. \A q \in Tasks : bus'[q].meta = bus[q].meta \/ bus'[q].meta = Gone
        BY <4>1, <1>t DEF IdleBus
      <4> QED BY <4>2, <3>1, <1>3, <1>q
    <3>3. CASE IdleTimeout(p)
      <4>1. bus' = [bus EXCEPT ![p] = [IdleBus EXCEPT !.cleanups = bus[p].cleanups]]
        BY <3>3 DEF IdleTimeout
      <4>2. \A q \in Tasks : bus'[q].meta = bus[q].meta \/ bus'[q].meta = Gone
        BY <4>1, <1>t DEF IdleBus
      <4> QED BY <4>2, <3>1, <1>3, <1>q
    <3>4. CASE Watch(p)
      <4>1. bus' = [bus EXCEPT ![p] = WithEmitter(@)]
        BY <3>4 DEF Watch
      <4>2. \A q \in Tasks : bus'[q].meta = bus[q].meta
        BY <4>1, <2>b, <1>t, BusFields
      <4> QED BY <4>2, <3>1, <1>3, <1>q
    <3> QED BY <2>1, <3>2, <3>3, <3>4
  <2>2. ASSUME NEW p \in Tasks, StartUpsert(p) PROVE Goal
    <3>1. UNCHANGED <<bus, post>> /\ run' = [run EXCEPT !.row = "live"]
      BY <2>2 DEF StartUpsert
    <3>2. run'.age = run.age /\ run'.silent = run.silent
      BY <3>1, <1>t DEF RunRecord
    <3> QED BY <3>1, <3>2, <1>3, <1>s
  <2>3. ASSUME NEW p \in Tasks, StartRegister(p) PROVE Goal
    <3>1. UNCHANGED <<run, post>> /\ bus' = [bus EXCEPT ![p] = Emitted(Registered(@), "run.started")]
      BY <2>3 DEF StartRegister
    <3>2. Registered(bus[p]) \in BusRecord /\ Registered(bus[p]).meta = 0
      BY <2>b, BusFields
    <3>3. Emitted(Registered(bus[p]), "run.started").meta = 0
      BY <3>2, <1>n, EmittedFields
    <3>4. \A q \in Tasks : bus'[q].meta = bus[q].meta \/ bus'[q].meta = 0
      BY <3>1, <3>3, <1>t
    <3> QED BY <3>1, <3>4, <1>3, <1>q
  <2>4. ASSUME NEW p \in Tasks, PersistStart(p) \/ RequestAbort(p) \/ Sweep(p) \/ ReconcileSelect(p) \/ ReconcileAbort(p)
        PROVE  Goal
    <3>1. UNCHANGED <<run, post, bus>>
      BY <2>4 DEF PersistStart, RequestAbort, Sweep, ReconcileSelect, ReconcileAbort
    <3> QED BY <3>1, <1>3, <1>q
  <2>s. ASSUME NEW c \in Clients, NEW k \in Sockets,
               PostSend(c, k) \/ \E j \in Sockets : PostResend(c, k, j)
        PROVE  Goal
    <3>1. UNCHANGED <<run, bus>>
      BY <2>s DEF PostSend, PostResend
    <3>2. PICK j \in Sockets, b \in Nat :
            post[c].req[j].at = NoTask /\ Becomes(c, j, [batch |-> b, at |-> NoTask])
      <4>1. post[c].next \in Nat /\ post[c].req[k].batch \in Nat
        BY <1>t DEF PostRecord, Request
      <4>2. CASE PostSend(c, k)
        <5>1. Becomes(c, k, [batch |-> post[c].next, at |-> NoTask])
          BY <4>2, <1>y, PostSteps
        <5>2. post[c].req[k].at = NoTask
          BY <4>2 DEF PostSend, Free, NoRequest
        <5> QED BY <4>1, <5>1, <5>2
      <4>3. ASSUME NEW j \in Sockets, PostResend(c, k, j)
            PROVE  /\ post[c].req[j].at = NoTask
                   /\ Becomes(c, j, [batch |-> post[c].req[k].batch, at |-> NoTask])
        <5>1. Becomes(c, j, [batch |-> post[c].req[k].batch, at |-> NoTask])
          BY <4>3, <1>y, PostSteps
        <5>2. post[c].req[j].at = NoTask
          BY <4>3 DEF PostResend, Free, NoRequest
        <5> QED BY <5>1, <5>2
      <4> QED BY <4>1, <4>2, <4>3, <2>s
    <3>3. \A d \in Clients, i \in Sockets : post'[d].req[i].at = post[d].req[i].at
      BY <3>2 DEF Becomes
    <3> QED BY <3>1, <3>3, <1>3, <1>s
  <2>5. ASSUME NEW c \in Clients, NEW k \in Sockets, NEW p \in Tasks, PostArrive(c, k, p) PROVE Goal
    <3>1. UNCHANGED bus /\ run' = [run EXCEPT !.age = 0]
      BY <2>5 DEF PostArrive
    <3>2. run'.age = 0 /\ run'.silent = run.silent
      BY <3>1, <1>t DEF RunRecord
    <3>3. post'[c].req[k].at = p
      <4>1. Becomes(c, k, [batch |-> post[c].req[k].batch, at |-> p])
        BY <2>5, <1>y, PostSteps
      <4> QED BY <4>1 DEF Becomes
    <3> QED BY <3>1, <3>2, <3>3, <1>3, <1>n, <1>s
  <2>6. ASSUME NEW c \in Clients, NEW k \in Sockets, NEW answered \in BOOLEAN, PostSync(c, k, answered) PROVE Goal
    <3>1. /\ post[c].req[k].at # NoTask
          /\ run' = [run EXCEPT !.late = @ \/ (post[c].req[k].batch > 0 /\ AbortUnderWay)]
      BY <2>6 DEF PostSync
    <3>2. PICK p \in Tasks : p = post[c].req[k].at
      BY <3>1, <1>t DEF PostRecord, Request
    <3>3. PICK known : known = IF bus[p].meta = Gone THEN Registered(bus[p]) ELSE bus[p]
      OBVIOUS
    <3>4. bus' = [bus EXCEPT ![p] = Touched(known)]
      BY <3>2, <3>3, <2>6 DEF PostSync
    <3>5. known \in BusRecord /\ known.meta # Gone
      BY <3>3, <2>b, <1>n, BusFields
    <3>6. Touched(known).meta = 0
      BY <3>5, BusFields
    <3>7. \A q \in Tasks : bus'[q].meta = 0
      BY <3>4, <3>6, <1>t DEF OneTask
    <3>8. run'.age = run.age /\ run'.silent = run.silent
      BY <3>1, <1>t DEF RunRecord
    <3> QED BY <3>7, <3>8, <1>3, <1>n, <1>m, <1>s
  <2>7. ASSUME Upload PROVE Goal
    <3>1. UNCHANGED <<bus, post>> /\ run' = [run EXCEPT !.row = "live", !.finished = TRUE]
      BY <2>7 DEF Upload
    <3>2. run'.age = run.age /\ run'.silent = run.silent
      BY <3>1, <1>t DEF RunRecord
    <3> QED BY <3>1, <3>2, <1>3, <1>s
  <2>8. ASSUME NEW p \in Tasks, DeleteRow(p) \/ Forget(p) PROVE FALSE
    <3>1. ~ Forget(p)
      BY <1>3 DEF Forget, LifeInv, Orphaned, Live
    <3>2. DeleteRow(p) => run'.row = "deleted"
      BY <1>t DEF DeleteRow, RunRecord
    <3> QED BY <3>1, <3>2, <2>8 DEF Live
  <2>9. ASSUME NEW p \in Tasks, Crash(p) PROVE Goal
    <3>1. UNCHANGED run /\ bus' = [bus EXCEPT ![p] = IdleBus]
      BY <2>9 DEF Crash
    <3>2. \A q \in Tasks : bus'[q].meta = Gone
      BY <3>1, <2>a, <1>t DEF OneTask
    <3> QED BY <3>1, <3>2, <1>3, <1>n, <1>m, <1>s
  <2>10. ASSUME TimePasses PROVE Goal
    <3>1. /\ UNCHANGED post /\ \A c \in Clients, k \in Sockets : post[c].req[k].at = NoTask
          /\ run' = [run EXCEPT !.age = Older(@, StaleAge),
                                !.silent = @ \/ Older(run.age, StaleAge) = StaleAge]
          /\ \A q \in Tasks : bus'[q] = OlderBus(bus[q])
      BY <2>10, <1>3 DEF TimePasses
    <3>2. /\ run'.age = IF run.age < StaleAge THEN run.age + 1 ELSE StaleAge
          /\ run'.age = StaleAge => run'.silent
      BY <3>1, <1>t DEF RunRecord, Older
    <3>3. \A q \in Tasks : bus'[q].meta = IF bus[q].meta = Gone THEN Gone
                                         ELSE IF bus[q].meta < StaleAge THEN bus[q].meta + 1 ELSE StaleAge
      BY <3>1, <2>b, BusTypes
    <3>4. \A q \in Tasks : bus'[q].meta <= run'.age
      <4> SUFFICES ASSUME NEW q \in Tasks PROVE bus'[q].meta <= run'.age
        OBVIOUS
      <4>1. bus[q].meta <= run.age
        BY <3>1, <1>3, <1>s
      <4> QED BY <4>1, <3>2, <3>3, <1>n
    <3>5. \A q \in Tasks : bus'[q].meta = StaleAge => run'.age = StaleAge
      <4>1. run'.age <= StaleAge /\ run'.age \in Nat
        BY <3>2, <1>n
      <4> QED BY <4>1, <3>4, <1>n
    <3> QED BY <3>2, <3>4, <3>5
  <2>11. ASSUME NEW p \in Tasks, NEW l \in Lanes, NEW i \in DOMAIN chain[p][l], Working(p, l, i)
         PROVE  FALSE
    BY <2>11, <1>3
  <2> HIDE DEF Goal
  <2>12. Goal
    BY <2>1, <2>2, <2>3, <2>4, <2>s, <2>5, <2>6, <2>7, <2>8, <2>9, <2>10, <2>11 DEF Next, TaskStep, JobStep, Working
  <2> QED BY <2>12 DEF Goal
<1> QED BY <1>1, <1>2, <1>3

\* NoFalseAbort: in one server process a run nobody asked to abort is aborted only
\* after its reporters were silent for the whole window, however many reporters,
\* heartbeats, retries, crashes, failed statements and deletions there are
\* (staleCheckTimer and reconcileStaleLiveRuns in routes/live.ts).
THEOREM NeverFalselyAborted ==
  ASSUME OneTask
  PROVE  Spec => []NoFalseAbort
<1>1. Init => AbortsInv
  <2> SUFFICES ASSUME Init PROVE AbortsInv
    OBVIOUS
  <2>1. ~ Live
    BY DEF Init, Live
  <2> QED BY <2>1 DEF AbortsInv, Reasons, Silence
<1>2. LifeInv /\ AbortsInv /\ [Next]_vars => AbortsInv'
  <2> SUFFICES ASSUME LifeInv, AbortsInv, [Next]_vars PROVE AbortsInv'
    OBVIOUS
  <2>1. CASE UNCHANGED vars
    BY <2>1 DEF vars, AbortsInv, Reasons, Silence, Live, IsAborted, Quiet
  <2>2. CASE Next
    BY <2>2, ReasonsStep, SilenceStep DEF AbortsInv
  <2> QED BY <2>1, <2>2
<1>3. LifeInv /\ AbortsInv => NoFalseAbort
  <2> SUFFICES ASSUME LifeInv, AbortsInv, IsAborted, used.aborts = 0 PROVE run.silent
    BY DEF NoFalseAbort
  <2>1. Range(<<>>) = {}
    BY DEF Range
  <2>2. Live
    BY <2>1 DEF LifeInv, NothingLeft, IsAborted
  <2>3. Quiet
    BY <2>2 DEF AbortsInv, Reasons
  <2>4. ~ (0 > 0)
    OBVIOUS
  <2> QED BY <2>3, <2>4 DEF Quiet
<1> QED BY <1>1, <1>2, <1>3, LifeInvariant, PTL DEF Spec

-----------------------------------------------------------------------------
(* One step of the line *)

\* Behind the head that took a step, the jobs have not begun.
LEMMA MapAfterPut ==
  ASSUME OneTask, LifeInv, NEW p \in Tasks, chain[p]["map"] # <<>>, NEW j \in Job, Puts(p, "map", j)
  PROVE  \A q \in Tasks : \A k \in Range(chain'[q]["map"]) :
            k = j \/ (k \in Range(chain[q]["map"]) /\ Waiting(k))
<1>t. TypeOK /\ "map" \in Lanes /\ InLine
  BY DEF LifeInv, LiveTypes, Lanes
<1>1. /\ DOMAIN chain'[p]["map"] = DOMAIN chain[p]["map"] /\ chain'[p]["map"][1] = j
      /\ \A i \in DOMAIN chain[p]["map"] : i # 1 => chain'[p]["map"][i] = chain[p]["map"][i]
  BY <1>t, PutsEffect
<1> SUFFICES ASSUME NEW k \in Range(chain'[p]["map"]), k # j
             PROVE  k \in Range(chain[p]["map"]) /\ Waiting(k)
  BY DEF OneTask
<1>2. PICK i \in DOMAIN chain[p]["map"] : k = chain'[p]["map"][i]
  BY <1>1 DEF Range
<1>3. i # 1 /\ k = chain[p]["map"][i]
  BY <1>1, <1>2
<1>4. chain[p]["map"] \in Seq(Job)
  BY <1>t DEF TypeOK
<1>5. i > 1
  BY <1>3, <1>4
<1> QED BY <1>3, <1>5, <1>t DEF InLine, Range

\* When the head is done, no job of the line has begun.
LEMMA MapAfterDrop ==
  ASSUME OneTask, LifeInv, NEW p \in Tasks, chain[p]["map"] # <<>>, Drops(p, "map")
  PROVE  \A q \in Tasks : \A k \in Range(chain'[q]["map"]) : k \in Range(chain[q]["map"]) /\ Waiting(k)
<1>t. TypeOK /\ "map" \in Lanes /\ InLine
  BY DEF LifeInv, LiveTypes, Lanes
<1>1. \A i \in DOMAIN chain'[p]["map"] : /\ i + 1 \in DOMAIN chain[p]["map"] /\ i + 1 > 1
                                         /\ chain'[p]["map"][i] = chain[p]["map"][i + 1]
  BY <1>t, DropsEffect
<1> SUFFICES ASSUME NEW k \in Range(chain'[p]["map"])
             PROVE  k \in Range(chain[p]["map"]) /\ Waiting(k)
  BY DEF OneTask
<1>2. PICK i \in DOMAIN chain'[p]["map"] : k = chain'[p]["map"][i]
  BY DEF Range
<1> QED BY <1>1, <1>2, <1>t DEF InLine, Range

\* What is enqueued has not begun.
LEMMA MapAfterNews ==
  ASSUME LifeInv,
         \/ NoNews
         \/ \E p \in Tasks, by \in {"request", "sweep", "reconcile"} : NewAbort(p, by)
         \/ \E c \in Clients, p \in Tasks, b \in Nat : NewBatch(c, p, b)
  PROVE  \A q \in Tasks : \A k \in Range(chain'[q]["map"]) : k \in Range(chain[q]["map"]) \/ Waiting(k)
<1>t. TypeOK /\ "map" \in Lanes /\ post \in [Clients -> PostRecord]
  BY DEF LifeInv, LiveTypes, TypeOK, Lanes
<1>1. CASE NoNews
  <2>1. Range(<<>>) = {}
    BY DEF Range
  <2> QED BY <2>1, <1>1 DEF NoNews
<1>2. ASSUME NEW p \in Tasks, NEW j \in Job, Waiting(j), chain' = Enqueue(p, j)
      PROVE  \A q \in Tasks : \A k \in Range(chain'[q]["map"]) : k \in Range(chain[q]["map"]) \/ Waiting(k)
  <2>1. \A q \in Tasks : Range(chain'[q]["map"]) \subseteq Range(chain[q]["map"]) \cup {j}
    BY <1>2, <1>t, EnqueueEffect
  <2> QED BY <2>1, <1>2
<1>3. ASSUME NEW p \in Tasks, NEW by \in {"request", "sweep", "reconcile"}, NewAbort(p, by)
      PROVE  \A q \in Tasks : \A k \in Range(chain'[q]["map"]) : k \in Range(chain[q]["map"]) \/ Waiting(k)
  <2>1. AbortJob(by) \in Job /\ Waiting(AbortJob(by))
    BY NewJobs DEF AbortJob, Waiting
  <2> QED BY <2>1, <1>2, <1>3 DEF NewAbort
<1>4. ASSUME NEW c \in Clients, NEW p \in Tasks, NEW b \in Nat, NewBatch(c, p, b)
      PROVE  \A q \in Tasks : \A k \in Range(chain'[q]["map"]) : k \in Range(chain[q]["map"]) \/ Waiting(k)
  <2>2. PICK j : j = EventsJob(Script[c][b])
    OBVIOUS
  <2>3. j \in Job /\ Waiting(j)
    BY <2>2, <1>4, NewJobs DEF NewBatch, InHand, EventsJob, Waiting
  <2>4. chain' = Enqueue(p, j)
    BY <2>2, <1>4 DEF NewBatch
  <2> QED BY <2>3, <2>4, <1>2
<1> QED BY <1>1, <1>3, <1>4

-----------------------------------------------------------------------------
(* A run is aborted once *)

\* The history has one abort at most, and none while an abort is about to write it.
OnceInv ==
  Live =>
    /\ \A i, j \in DOMAIN history : history[i] = Aborted /\ history[j] = Aborted => i = j
    /\ \A p \in Tasks : \A j \in Range(chain[p]["map"]) :
         j.kind = "abort" /\ j.pc \in {"transition", "persist"} => ~ IsAborted

\* A step keeps the history from a second abort.
LEMMA OnceStep ==
  ASSUME OneTask, LifeInv, OnceInv, Next
  PROVE  OnceInv'
<1> SUFFICES ASSUME Live'
             PROVE  /\ \A i, j \in DOMAIN history' : history'[i] = Aborted /\ history'[j] = Aborted => i = j
                    /\ \A p \in Tasks : \A j \in Range(chain'[p]["map"]) :
                         j.kind = "abort" /\ j.pc \in {"transition", "persist"} => ~ IsAborted'
  BY DEF OnceInv
<1>t. TypeOK /\ "map" \in Lanes /\ history \in Seq(Events)
  BY DEF LifeInv, LiveTypes, TypeOK, Lanes
<1>w. \A j : j.kind = "abort" /\ Waiting(j) => j.pc \notin {"transition", "persist"}
  BY DEF Waiting
\* An event that is not an abort changes nothing.
<1>h. ASSUME NEW e, e # Aborted, Live, history' = history \/ history' = Append(history, e)
      PROVE  /\ \A i, j \in DOMAIN history' : history'[i] = Aborted /\ history'[j] = Aborted => i = j
             /\ IsAborted' <=> IsAborted
  <2>1. CASE history' = history
    BY <2>1, <1>h DEF OnceInv, IsAborted
  <2>2. CASE history' = Append(history, e)
    <3>1. /\ Range(history') = Range(history) \cup {e}
          /\ \A k \in DOMAIN history : history'[k] = history[k]
          /\ history'[Len(history) + 1] = e
          /\ DOMAIN history = 1 .. Len(history) /\ DOMAIN history' = 1 .. Len(history) + 1
      BY <2>2, <1>t, LongerHistory
    <3>2. \A k \in DOMAIN history' : history'[k] = Aborted => k \in DOMAIN history /\ history[k] = Aborted
      <4>1. Len(history) \in Nat
        BY <1>t
      <4>2. \A k \in 1 .. Len(history) + 1 : k \in 1 .. Len(history) \/ k = Len(history) + 1
        BY <4>1
      <4> QED BY <4>2, <3>1, <1>h
    <3> QED BY <3>1, <3>2, <1>h DEF OnceInv, IsAborted
  <2> QED BY <2>1, <2>2, <1>h
<1>1. CASE ~ Live
  <2>1. UNCHANGED <<history, chain>> /\ run.row = "none"
    BY <1>1, Births
  <2>2. history = <<>> /\ \A p \in Tasks : chain[p]["map"] = <<>>
    BY <2>1, <1>1, <1>t DEF LifeInv, Unborn, NothingLeft
  <2>3. Range(<<>>) = {} /\ DOMAIN <<>> = {}
    BY DEF Range
  <2> QED BY <2>1, <2>2, <2>3
<1>2. CASE Live /\ \E p \in Tasks, l \in Lanes : \E i \in DOMAIN chain[p][l] : Working(p, l, i)
  <2>1. PICK p \in Tasks, l \in Lanes : \E i \in DOMAIN chain[p][l] : Working(p, l, i)
    BY <1>2
  <2>2. PICK i \in DOMAIN chain[p][l] : Working(p, l, i)
    BY <2>1
  <2>3. PICK h : h = chain[p]["map"][1]
    OBVIOUS
  <2>4. /\ h \in Job /\ chain[p]["map"] # <<>> /\ h \in Range(chain[p]["map"]) /\ h.evs # <<>>
        /\ \/ history' = history /\ Drops(p, "map")
           \/ history' = history /\ h.kind = "events" /\ Goes(p, h, "insert")
           \/ history' = history /\ h.kind = "events" /\ Goes(p, h, "persist")
           \/ history' = history /\ h.kind = "abort" /\ h.pc = "transition" /\ Goes(p, h, "persist")
           \/ history' = history /\ ~ IsAborted /\ h.kind = "abort" /\ Goes(p, h, "transition")
           \/ history' = history /\ h.pc = "persist" /\ Goes(p, h, "emit")
           \/ history' = history /\ h.kind = "events" /\ Len(h.evs) # 1 /\ Puts(p, "map", RestOf(h))
           \/ history' = Append(history, Head(h.evs)) /\ h.pc = "persist" /\ Goes(p, h, "emit")
    BY <1>2, <2>2, <2>3, HeadSteps
  <2>f. \A pc : [h EXCEPT !.pc = pc].kind = h.kind /\ [h EXCEPT !.pc = pc].pc = pc
    BY <2>4, JobFields
  <2>j. /\ \A pc \in {"insert", "persist", "emit"} : h.kind = "events" => [h EXCEPT !.pc = pc] \in Job
        /\ \A pc \in {"transition", "persist", "emit"} : h.kind = "abort" => [h EXCEPT !.pc = pc] \in Job
        /\ h.kind \in {"events", "abort"}
    BY <2>4, JobFields
  <2>o. \A j \in Range(chain[p]["map"]) :
          j.kind = "abort" /\ j.pc \in {"transition", "persist"} => ~ IsAborted
    BY <1>2 DEF OnceInv
  <2>5. CASE Drops(p, "map") /\ history' = history
    <3>1. \A q \in Tasks : \A k \in Range(chain'[q]["map"]) : Waiting(k)
      BY <2>4, <2>5, MapAfterDrop
    <3> QED BY <3>1, <2>5, <1>2, <1>w DEF OnceInv
  <2>6. ASSUME NEW j \in Job, Puts(p, "map", j), history' = history,
               j.kind = "abort" /\ j.pc \in {"transition", "persist"} => ~ IsAborted
        PROVE  /\ \A a, b \in DOMAIN history' : history'[a] = Aborted /\ history'[b] = Aborted => a = b
               /\ \A q \in Tasks : \A k \in Range(chain'[q]["map"]) :
                    k.kind = "abort" /\ k.pc \in {"transition", "persist"} => ~ IsAborted'
    <3>1. \A q \in Tasks : \A k \in Range(chain'[q]["map"]) : k = j \/ Waiting(k)
      BY <2>4, <2>6, MapAfterPut
    <3>2. IsAborted' <=> IsAborted
      BY <2>6 DEF IsAborted
    <3> QED BY <3>1, <3>2, <2>6, <1>2, <1>w DEF OnceInv
  <2>7. CASE /\ history' = history
             /\ \/ h.kind = "events" /\ Goes(p, h, "insert")
                \/ h.kind = "events" /\ Goes(p, h, "persist")
                \/ h.kind = "abort" /\ h.pc = "transition" /\ Goes(p, h, "persist")
                \/ ~ IsAborted /\ h.kind = "abort" /\ Goes(p, h, "transition")
                \/ h.pc = "persist" /\ Goes(p, h, "emit")
    <3>1. PICK pc \in {"insert", "persist", "emit", "transition"} :
            /\ Goes(p, h, pc) /\ [h EXCEPT !.pc = pc] \in Job
            /\ h.kind = "abort" /\ pc \in {"transition", "persist"} => ~ IsAborted
      BY <2>7, <2>j, <2>o, <2>4
    <3> QED BY <3>1, <2>f, <2>6, <2>7 DEF Goes
  <2>8. CASE history' = history /\ h.kind = "events" /\ Len(h.evs) # 1 /\ Puts(p, "map", RestOf(h))
    <3>1. RestOf(h) \in Job /\ RestOf(h).kind = "events"
      BY <2>4, <2>8, RestOfJob
    <3> QED BY <3>1, <2>6, <2>8
  <2>9. CASE history' = Append(history, Head(h.evs)) /\ h.pc = "persist" /\ Goes(p, h, "emit")
    <3>1. \A q \in Tasks : \A k \in Range(chain'[q]["map"]) : k = [h EXCEPT !.pc = "emit"] \/ Waiting(k)
      BY <2>4, <2>9, <2>j, MapAfterPut DEF Goes
    <3>2. \A q \in Tasks : \A k \in Range(chain'[q]["map"]) :
            k.kind = "abort" => k.pc \notin {"transition", "persist"}
      BY <3>1, <2>f, <1>w
    <3>3. CASE Head(h.evs) # Aborted
      BY <3>2, <3>3, <2>9, <1>2, <1>h
    <3>4. CASE Head(h.evs) = Aborted
      <4>1. Head(h.evs) \in Range(h.evs)
        BY <2>4, HeadEvent
      <4>2. h.kind = "abort"
        BY <4>1, <3>4, <2>4, <1>t, AbortInHand
      <4>3. ~ IsAborted
        BY <4>2, <2>4, <2>9, <2>o
      <4>4. /\ \A k \in DOMAIN history : history'[k] = history[k] /\ history[k] # Aborted
            /\ DOMAIN history = 1 .. Len(history) /\ DOMAIN history' = 1 .. Len(history) + 1
        BY <4>3, <2>9, <1>t, LongerHistory DEF IsAborted, Range
      <4>5. Len(history) \in Nat
        BY <1>t
      <4>6. \A k \in 1 .. Len(history) + 1 : k \in 1 .. Len(history) \/ k = Len(history) + 1
        BY <4>5
      <4>7. \A k \in DOMAIN history' : history'[k] = Aborted => k = Len(history) + 1
        BY <4>4, <4>6
      <4> QED BY <4>7, <3>2
    <3> QED BY <3>3, <3>4
  <2> QED BY <2>4, <2>5, <2>7, <2>8, <2>9
<1>3. CASE Live /\ ~ \E p \in Tasks, l \in Lanes : \E i \in DOMAIN chain[p][l] : Working(p, l, i)
  <2>1. /\ history' = history \/ history' = Append(history, Started)
        /\ \/ NoNews
           \/ \E p \in Tasks, by \in {"request", "sweep", "reconcile"} : NewAbort(p, by)
           \/ \E c \in Clients, p \in Tasks, b \in Nat : NewBatch(c, p, b)
    BY <1>3, OtherSteps
  <2>2. \A q \in Tasks : \A k \in Range(chain'[q]["map"]) : k \in Range(chain[q]["map"]) \/ Waiting(k)
    BY <2>1, MapAfterNews
  <2>3. /\ \A i, j \in DOMAIN history' : history'[i] = Aborted /\ history'[j] = Aborted => i = j
        /\ IsAborted' <=> IsAborted
    BY <2>1, <1>3, <1>h, OwnEvents
  <2> QED BY <2>2, <2>3, <1>3, <1>w DEF OnceInv
<1> QED BY <1>1, <1>2, <1>3

\* AbortedOnce: in one server process the request, the sweeper and the reconciler
\* never abort one run twice, whatever is enqueued, fails or crashes between the
\* state query of abortRun and its run.aborted row (enqueueOnRun and abortRun in
\* routes/live.ts).
THEOREM NeverAbortedTwice ==
  ASSUME OneTask
  PROVE  Spec => []AbortedOnce
<1>1. Init => OnceInv
  BY DEF Init, Live, OnceInv
<1>2. LifeInv /\ OnceInv /\ [Next]_vars => OnceInv'
  <2> SUFFICES ASSUME LifeInv, OnceInv, [Next]_vars PROVE OnceInv'
    OBVIOUS
  <2>1. CASE UNCHANGED vars
    BY <2>1 DEF vars, OnceInv, Live, IsAborted
  <2>2. CASE Next
    BY <2>2, OnceStep
  <2> QED BY <2>1, <2>2
<1>3. LifeInv /\ OnceInv => AbortedOnce
  <2> SUFFICES ASSUME LifeInv, OnceInv PROVE AbortedOnce
    OBVIOUS
  <2>1. PICK S : S = {i \in DOMAIN history : history[i] = Aborted}
    OBVIOUS
  <2>2. \A i, j \in S : i = j
    <3>1. DOMAIN <<>> = {}
      OBVIOUS
    <3> QED BY <3>1, <2>1 DEF LifeInv, NothingLeft, OnceInv
  <2>3. S = {} \/ \E i : S = {i}
    BY <2>2
  <2>4. Cardinality(S) = 0 \/ Cardinality(S) = 1
    BY <2>3, FS_EmptySet, FS_Singleton
  <2>5. Cardinality(S) <= 1
    BY <2>4
  <2> QED BY <2>1, <2>5 DEF AbortedOnce
<1> QED BY <1>1, <1>2, <1>3, LifeInvariant, PTL DEF Spec

-----------------------------------------------------------------------------
(* A test has one row *)

\* A test has at most one row, and none while its result is about to be inserted.
RowsInv ==
  Live =>
    /\ \A t \in Tests : Count(t) <= 1
    /\ \A p \in Tasks : \A j \in Range(chain[p]["map"]) :
         j.kind = "events" /\ j.pc = "insert" => Head(j.evs).test \in Tests /\ Count(Head(j.evs).test) = 0

\* What the statements about a test do to the number of its rows.
LEMMA RowCounts ==
  ASSUME rows \in [Tests -> [Statuses -> Nat]], NEW f \in [Tests -> [Statuses -> Nat]]
  PROVE  \A t \in Tests, s \in Statuses :
           /\ f = [rows EXCEPT ![t][s] = @ + 1] =>
                \A u \in Tests : f[u]["pending"] + f[u]["passed"] + f[u]["failed"] + f[u]["skipped"] =
                                   IF u = t THEN Count(t) + 1 ELSE Count(u)
           /\ /\ \A u \in Tests : u # t => f[u] = rows[u]
              /\ \A r \in Statuses : f[t][r] = IF r = s THEN Count(t) ELSE 0
              =>
                \A u \in Tests : f[u]["pending"] + f[u]["passed"] + f[u]["failed"] + f[u]["skipped"] = Count(u)
           /\ f = [rows EXCEPT ![t]["pending"] = 1] /\ Count(t) = 0 =>
                \A u \in Tests : f[u]["pending"] + f[u]["passed"] + f[u]["failed"] + f[u]["skipped"] =
                                   IF u = t THEN 1 ELSE Count(u)
<1> SUFFICES ASSUME NEW t \in Tests, NEW s \in Statuses, NEW u \in Tests
    PROVE  LET total == f[u]["pending"] + f[u]["passed"] + f[u]["failed"] + f[u]["skipped"]
           IN  /\ f = [rows EXCEPT ![t][s] = @ + 1] => total = IF u = t THEN Count(t) + 1 ELSE Count(u)
               /\ /\ \A v \in Tests : v # t => f[v] = rows[v]
                  /\ \A r \in Statuses : f[t][r] = IF r = s THEN Count(t) ELSE 0
                  => total = Count(u)
               /\ f = [rows EXCEPT ![t]["pending"] = 1] /\ Count(t) = 0 => total = IF u = t THEN 1 ELSE Count(u)
  OBVIOUS
<1>0. /\ Statuses = {"pending", "passed", "failed", "skipped"}
      /\ \A v \in Tests : Count(v) = rows[v]["pending"] + rows[v]["passed"] + rows[v]["failed"] + rows[v]["skipped"]
  BY DEF Statuses, Count
<1>1. PICK a, b, c, d \in Nat : a = rows[u]["pending"] /\ b = rows[u]["passed"]
                               /\ c = rows[u]["failed"] /\ d = rows[u]["skipped"]
  BY <1>0
<1>2. Count(u) = a + b + c + d
  BY <1>0, <1>1
<1>3. ASSUME f = [rows EXCEPT ![t][s] = @ + 1]
      PROVE  f[u]["pending"] + f[u]["passed"] + f[u]["failed"] + f[u]["skipped"] =
               IF u = t THEN Count(t) + 1 ELSE Count(u)
  <2>1. CASE u # t
    <3>1. f[u] = rows[u]
      BY <1>3, <2>1
    <3> QED BY <3>1, <2>1, <1>0
  <2>2. CASE u = t
    <3>1. f[u][s] = rows[u][s] + 1 /\ \A r \in Statuses : r # s => f[u][r] = rows[u][r]
      BY <1>3, <2>2
    <3>2. CASE s = "pending"
      <4>1. f[u]["pending"] = a + 1 /\ f[u]["passed"] = b /\ f[u]["failed"] = c /\ f[u]["skipped"] = d
        BY <3>1, <3>2, <1>0, <1>1
      <4> QED BY <4>1, <1>2, <2>2
    <3>3. CASE s = "passed"
      <4>1. f[u]["pending"] = a /\ f[u]["passed"] = b + 1 /\ f[u]["failed"] = c /\ f[u]["skipped"] = d
        BY <3>1, <3>3, <1>0, <1>1
      <4> QED BY <4>1, <1>2, <2>2
    <3>4. CASE s = "failed"
      <4>1. f[u]["pending"] = a /\ f[u]["passed"] = b /\ f[u]["failed"] = c + 1 /\ f[u]["skipped"] = d
        BY <3>1, <3>4, <1>0, <1>1
      <4> QED BY <4>1, <1>2, <2>2
    <3>5. CASE s = "skipped"
      <4>1. f[u]["pending"] = a /\ f[u]["passed"] = b /\ f[u]["failed"] = c /\ f[u]["skipped"] = d + 1
        BY <3>1, <3>5, <1>0, <1>1
      <4> QED BY <4>1, <1>2, <2>2
    <3> QED BY <3>2, <3>3, <3>4, <3>5, <1>0
  <2> QED BY <2>1, <2>2
<1>4. ASSUME \A v \in Tests : v # t => f[v] = rows[v],
             \A r \in Statuses : f[t][r] = IF r = s THEN Count(t) ELSE 0
      PROVE  f[u]["pending"] + f[u]["passed"] + f[u]["failed"] + f[u]["skipped"] = Count(u)
  <2>1. CASE u # t
    <3>1. f[u] = rows[u]
      BY <1>4, <2>1
    <3> QED BY <3>1, <1>0
  <2>2. CASE u = t
    <3>1. PICK n \in Nat : n = Count(u)
      BY <1>2
    <3>2. \A r \in Statuses : f[u][r] = IF r = s THEN n ELSE 0
      BY <1>4, <2>2, <3>1
    <3>3. s = "pending" \/ s = "passed" \/ s = "failed" \/ s = "skipped"
      BY <1>0
    <3>4. f[u]["pending"] + f[u]["passed"] + f[u]["failed"] + f[u]["skipped"] = n
      BY <3>2, <3>3, <1>0
    <3> QED BY <3>1, <3>4
  <2> QED BY <2>1, <2>2
<1>5. ASSUME f = [rows EXCEPT ![t]["pending"] = 1], Count(t) = 0
      PROVE  f[u]["pending"] + f[u]["passed"] + f[u]["failed"] + f[u]["skipped"] = IF u = t THEN 1 ELSE Count(u)
  <2>1. CASE u # t
    <3>1. f[u] = rows[u]
      BY <1>5, <2>1
    <3> QED BY <3>1, <2>1, <1>0
  <2>2. CASE u = t
    <3>1. a = 0 /\ b = 0 /\ c = 0 /\ d = 0
      BY <2>2, <1>2, <1>5
    <3>2. f[u]["pending"] = 1 /\ f[u]["passed"] = b /\ f[u]["failed"] = c /\ f[u]["skipped"] = d
      BY <2>2, <1>0, <1>1, <1>5
    <3> QED BY <3>1, <3>2, <2>2
  <2> QED BY <2>1, <2>2
<1> QED BY <1>3, <1>4, <1>5

\* A statement about one test leaves it at most one row.
LEMMA RowsStep ==
  ASSUME OneTask, ~ Uploads, LifeInv, RowsInv, Next
  PROVE  RowsInv'
<1> SUFFICES ASSUME Live'
             PROVE  /\ \A t \in Tests : Count(t)' <= 1
                    /\ \A p \in Tasks : \A j \in Range(chain'[p]["map"]) :
                         j.kind = "events" /\ j.pc = "insert" =>
                           Head(j.evs).test \in Tests /\ \A t \in Tests : t = Head(j.evs).test => Count(t)' = 0
  BY DEF RowsInv, Count
<1>t. TypeOK /\ "map" \in Lanes /\ rows \in [Tests -> [Statuses -> Nat]]
  BY DEF LifeInv, LiveTypes, TypeOK, Lanes
<1>t1. rows' \in [Tests -> [Statuses -> Nat]]
  BY LifeStep DEF LifeInv, LiveTypes, TypeOK
<1>w. \A j : j.kind = "events" /\ Waiting(j) => j.pc # "insert"
  BY DEF Waiting
<1>d. \A t \in Tests : Count(t)' = rows'[t]["pending"] + rows'[t]["passed"] + rows'[t]["failed"] + rows'[t]["skipped"]
  BY DEF Count
<1>c. rows' = rows => \A t \in Tests : Count(t)' = Count(t)
  BY DEF Count
<1>1. CASE ~ Live
  <2>1. rows' = rows /\ UNCHANGED chain /\ run.row = "none"
    BY <1>1, Births
  <2>2. /\ \A t \in Tests, s \in Statuses : rows[t][s] = 0
        /\ \A p \in Tasks : chain[p]["map"] = <<>>
    BY <2>1, <1>1, <1>t DEF LifeInv, Unborn, NothingLeft
  <2>3. \A t \in Tests : Count(t) = 0
    BY <2>2 DEF Count, Statuses
  <2>4. Range(<<>>) = {}
    BY DEF Range
  <2> QED BY <2>1, <2>2, <2>3, <2>4, <1>c
<1>2. CASE Live /\ \E p \in Tasks, l \in Lanes : \E i \in DOMAIN chain[p][l] : Working(p, l, i)
  <2>1. PICK p \in Tasks, l \in Lanes : \E i \in DOMAIN chain[p][l] : Working(p, l, i)
    BY <1>2
  <2>2. PICK i \in DOMAIN chain[p][l] : Working(p, l, i)
    BY <2>1
  <2>3. PICK h : h = chain[p]["map"][1]
    OBVIOUS
  <2>4. /\ h \in Job /\ chain[p]["map"] # <<>> /\ h \in Range(chain[p]["map"]) /\ h.evs # <<>>
        /\ \/ rows' = rows /\ Drops(p, "map")
           \/ rows' = rows /\ h.kind = "events" /\ Len(h.evs) # 1 /\ Puts(p, "map", RestOf(h))
           \/ rows' = rows /\ \E pc \in {"persist", "emit", "transition"} :
                                Goes(p, h, pc) /\ (h.kind = "events" \/ h.kind = "abort")
                                /\ (h.kind = "events" => pc # "transition")
           \/ h.kind = "events" /\ WriteEvent(p, "map", 1)
              /\ Goes(p, h, IF Head(h.evs).type \in TestTypes /\ Count(Head(h.evs).test) = 0
                            THEN "insert" ELSE "persist")
           \/ h.kind = "events" /\ h.pc = "insert" /\ InsertResult(p, "map", 1) /\ Goes(p, h, "persist")
           \/ h.kind = "abort" /\ Transition(p, "map", 1) /\ Goes(p, h, "persist")
    <3>1. h \in Job
      BY <1>2, <2>2, <2>3, HeadSteps
    <3>2. h.kind \in {"events", "abort"}
      BY <3>1, JobFields
    <3> QED BY <3>2, <1>2, <2>2, <2>3, HeadSteps
  <2>f. \A pc : /\ [h EXCEPT !.pc = pc].kind = h.kind /\ [h EXCEPT !.pc = pc].pc = pc
                /\ [h EXCEPT !.pc = pc].evs = h.evs
    BY <2>4, JobFields
  <2>j. /\ \A pc \in {"insert", "persist", "emit"} : h.kind = "events" => [h EXCEPT !.pc = pc] \in Job
        /\ \A pc \in {"transition", "persist", "emit"} : h.kind = "abort" => [h EXCEPT !.pc = pc] \in Job
    BY <2>4, JobFields
  <2>e. PICK e \in Events : e = Head(h.evs)
    BY <2>4, HeadEvent
  <2>5. CASE rows' = rows /\ Drops(p, "map")
    <3>1. \A q \in Tasks : \A k \in Range(chain'[q]["map"]) : Waiting(k)
      BY <2>4, <2>5, MapAfterDrop
    <3> QED BY <3>1, <2>5, <1>2, <1>w, <1>c DEF RowsInv
  <2>6. ASSUME NEW j \in Job, Puts(p, "map", j), \A t \in Tests : Count(t)' <= 1,
               j.kind = "events" /\ j.pc = "insert" =>
                 Head(j.evs).test \in Tests /\ \A t \in Tests : t = Head(j.evs).test => Count(t)' = 0
        PROVE  /\ \A t \in Tests : Count(t)' <= 1
               /\ \A q \in Tasks : \A k \in Range(chain'[q]["map"]) :
                    k.kind = "events" /\ k.pc = "insert" =>
                      Head(k.evs).test \in Tests /\ \A t \in Tests : t = Head(k.evs).test => Count(t)' = 0
    <3>1. \A q \in Tasks : \A k \in Range(chain'[q]["map"]) : k = j \/ Waiting(k)
      BY <2>4, <2>6, MapAfterPut
    <3> QED BY <3>1, <2>6, <1>w
  <2>7. CASE rows' = rows /\ h.kind = "events" /\ Len(h.evs) # 1 /\ Puts(p, "map", RestOf(h))
    <3>1. RestOf(h) \in Job /\ RestOf(h).pc = "write"
      BY <2>4, <2>7, RestOfJob
    <3>2. RestOf(h).pc # "insert"
      BY <3>1
    <3> QED BY <3>1, <3>2, <2>6, <2>7, <1>2, <1>c DEF RowsInv
  <2>8. ASSUME NEW pc \in {"persist", "emit", "transition"}, Goes(p, h, pc),
               h.kind = "events" \/ h.kind = "abort", h.kind = "events" => pc # "transition",
               \A t \in Tests : Count(t)' <= 1
        PROVE  /\ \A t \in Tests : Count(t)' <= 1
               /\ \A q \in Tasks : \A k \in Range(chain'[q]["map"]) :
                    k.kind = "events" /\ k.pc = "insert" =>
                      Head(k.evs).test \in Tests /\ \A t \in Tests : t = Head(k.evs).test => Count(t)' = 0
    <3>1. [h EXCEPT !.pc = pc] \in Job /\ [h EXCEPT !.pc = pc].pc # "insert"
      BY <2>8, <2>f, <2>j
    <3> QED BY <3>1, <2>6, <2>8 DEF Goes
  <2>9. CASE rows' = rows /\ \E pc \in {"persist", "emit", "transition"} :
                                Goes(p, h, pc) /\ (h.kind = "events" \/ h.kind = "abort")
                                /\ (h.kind = "events" => pc # "transition")
    BY <2>9, <2>8, <1>2, <1>c DEF RowsInv
  <2>10. CASE h.kind = "abort" /\ Transition(p, "map", 1) /\ Goes(p, h, "persist")
    <3>1. \A t \in Tests : rows'[t] = [rows[t] EXCEPT !["pending"] = 0, !["skipped"] = @ + rows[t]["pending"]]
      BY <2>10 DEF Transition
    <3>2. \A t \in Tests : Count(t)' = Count(t)
      <4> SUFFICES ASSUME NEW t \in Tests PROVE Count(t)' = Count(t)
        OBVIOUS
      <4>1. PICK r \in [Statuses -> Nat] : r = rows[t]
        BY <1>t
      <4>2. rows'[t] = [r EXCEPT !["pending"] = 0, !["skipped"] = r["skipped"] + r["pending"]]
        BY <3>1, <4>1
      <4>3. PICK s : s = rows'[t]
        OBVIOUS
      <4>4. s["pending"] = 0 /\ s["skipped"] = r["skipped"] + r["pending"] /\ s["passed"] = r["passed"]
            /\ s["failed"] = r["failed"]
        BY <4>2, <4>3 DEF Statuses
      <4>5. r["pending"] \in Nat /\ r["skipped"] \in Nat /\ r["passed"] \in Nat /\ r["failed"] \in Nat
        BY <4>1 DEF Statuses
      <4>6. s["pending"] + s["passed"] + s["failed"] + s["skipped"]
              = r["pending"] + r["passed"] + r["failed"] + r["skipped"]
        BY <4>4, <4>5
      <4> QED BY <4>1, <4>3, <4>6 DEF Count
    <3>3. \A t \in Tests : Count(t)' <= 1
      BY <3>2, <1>2 DEF RowsInv
    <3> QED BY <3>3, <2>8, <2>10
  <2>11. CASE h.kind = "events" /\ h.pc = "insert" /\ InsertResult(p, "map", 1) /\ Goes(p, h, "persist")
    <3>1. e.test \in Tests /\ Count(e.test) = 0
      BY <2>11, <2>4, <2>e, <1>2 DEF RowsInv
    <3>2. rows' = [rows EXCEPT ![e.test][StatusOf(e)] = @ + 1]
      BY <2>11, <2>3, <2>e, <1>2 DEF InsertResult
    <3>3. \A t \in Tests : Count(t)' <= 1
      <4>1. CASE StatusOf(e) \in Statuses
        <5>1. \A t \in Tests : Count(t)' = IF t = e.test THEN Count(e.test) + 1 ELSE Count(t)
          <6>1. \A u \in Tests : rows'[u]["pending"] + rows'[u]["passed"] + rows'[u]["failed"] + rows'[u]["skipped"] =
                                  IF u = e.test THEN Count(e.test) + 1 ELSE Count(u)
            BY <3>1, <3>2, <4>1, <1>t, <1>t1, RowCounts
          <6> QED BY <6>1, <1>d
        <5>2. Count(e.test) + 1 <= 1
          BY <3>1
        <5> QED BY <5>1, <5>2, <1>2 DEF RowsInv
      <4>2. CASE StatusOf(e) \notin Statuses
        <5>1. rows' = rows
          BY <3>2, <4>2, <1>t
        <5> QED BY <5>1, <1>2, <1>c DEF RowsInv
      <4> QED BY <4>1, <4>2
    <3> QED BY <3>3, <2>8, <2>11
  <2>12. CASE h.kind = "events" /\ WriteEvent(p, "map", 1)
              /\ Goes(p, h, IF Head(h.evs).type \in TestTypes /\ Count(Head(h.evs).test) = 0
                            THEN "insert" ELSE "persist")
    <3>1. rows' = IF e.type = "test.started" /\ Count(e.test) = 0
                  THEN [rows EXCEPT ![e.test]["pending"] = 1]
                  ELSE IF e.type \in TestTypes
                  THEN [rows EXCEPT ![e.test] = [s \in Statuses |-> IF s = StatusOf(e) THEN Count(e.test) ELSE 0]]
                  ELSE rows
      BY <2>12, <2>3, <2>e, <1>2 DEF WriteEvent
    <3>n. "test.started" \notin TestTypes
      BY DEF TestTypes
    <3>2. CASE e.type = "test.started" /\ Count(e.test) = 0
      <4>1. e.test \in Tests /\ "pending" \in Statuses
        BY <3>2, <1>t, RowTypes DEF Statuses
      <4>2. rows' = [rows EXCEPT ![e.test]["pending"] = 1]
        BY <3>1, <3>2
      <4>3. \A t \in Tests : Count(t)' = IF t = e.test THEN 1 ELSE Count(t)
        <5>1. \A u \in Tests : rows'[u]["pending"] + rows'[u]["passed"] + rows'[u]["failed"] + rows'[u]["skipped"] =
                                IF u = e.test THEN 1 ELSE Count(u)
          BY <3>2, <4>1, <4>2, <1>t, <1>t1, RowCounts
        <5> QED BY <5>1, <1>d
      <4>4. \A t \in Tests : Count(t)' <= 1
        BY <4>3, <1>2 DEF RowsInv
      <4>5. Goes(p, h, "persist")
        BY <3>2, <3>n, <2>12, <2>e
      <4> QED BY <4>4, <4>5, <2>8, <2>12
    <3>3. CASE e.type \in TestTypes
      <4>1. e.test \in Tests /\ StatusOf(e) \in Statuses
        BY <3>3, <1>t, RowTypes
      <4>2. rows' = [rows EXCEPT ![e.test] = [s \in Statuses |-> IF s = StatusOf(e) THEN Count(e.test) ELSE 0]]
        BY <3>1, <3>3, <3>n
      <4>3. \A t \in Tests : Count(t)' = Count(t)
        <5>1. \A u \in Tests : rows'[u]["pending"] + rows'[u]["passed"] + rows'[u]["failed"] + rows'[u]["skipped"] =
                                Count(u)
          <6>1. /\ \A u \in Tests : u # e.test => rows'[u] = rows[u]
                /\ \A r \in Statuses : rows'[e.test][r] = IF r = StatusOf(e) THEN Count(e.test) ELSE 0
            BY <4>1, <4>2, <1>t
          <6> QED BY <4>1, <6>1, <1>t, <1>t1, RowCounts
        <5> QED BY <5>1, <1>d
      <4>4. \A t \in Tests : Count(t)' <= 1
        BY <4>3, <1>2 DEF RowsInv
      <4>5. CASE Count(e.test) = 0
        <5>1. Goes(p, h, "insert")
          BY <3>3, <4>5, <2>12, <2>e
        <5>2. [h EXCEPT !.pc = "insert"] \in Job /\ [h EXCEPT !.pc = "insert"].evs = h.evs
          BY <2>12, <2>f, <2>j
        <5> QED BY <4>1, <4>3, <4>4, <4>5, <5>1, <5>2, <2>e, <2>6 DEF Goes
      <4>6. CASE Count(e.test) # 0
        <5>1. Goes(p, h, "persist")
          BY <4>6, <2>12, <2>e
        <5> QED BY <4>4, <5>1, <2>8, <2>12
      <4> QED BY <4>5, <4>6
    <3>4. CASE ~ (e.type = "test.started" /\ Count(e.test) = 0) /\ e.type \notin TestTypes
      <4>1. rows' = rows
        BY <3>1, <3>4
      <4>2. Goes(p, h, "persist")
        BY <3>4, <2>12, <2>e
      <4> QED BY <4>1, <4>2, <2>8, <2>12, <1>2, <1>c DEF RowsInv
    <3> QED BY <3>2, <3>3, <3>4
  <2> QED BY <2>4, <2>5, <2>7, <2>9, <2>10, <2>11, <2>12
<1>3. CASE Live /\ ~ \E p \in Tasks, l \in Lanes : \E i \in DOMAIN chain[p][l] : Working(p, l, i)
  <2>1. /\ rows' = rows
        /\ \/ NoNews
           \/ \E p \in Tasks, by \in {"request", "sweep", "reconcile"} : NewAbort(p, by)
           \/ \E c \in Clients, p \in Tasks, b \in Nat : NewBatch(c, p, b)
    BY <1>3, OtherSteps
  <2>2. \A q \in Tasks : \A k \in Range(chain'[q]["map"]) : k \in Range(chain[q]["map"]) \/ Waiting(k)
    BY <2>1, MapAfterNews
  <2> QED BY <2>1, <2>2, <1>3, <1>w, <1>c DEF RowsInv
<1> QED BY <1>1, <1>2, <1>3

\* OneRowPerTest: in one server process, as long as no end-of-run upload writes
\* beside the chain, a test has at most one row however often and in whatever
\* order its events are delivered (insertLiveTestResult and upsertPendingTest in
\* routes/live.ts).
THEOREM TestsHaveOneRow ==
  ASSUME OneTask, ~ Uploads
  PROVE  Spec => []OneRowPerTest
<1>1. Init => RowsInv
  BY DEF Init, Live, RowsInv
<1>2. LifeInv /\ RowsInv /\ [Next]_vars => RowsInv'
  <2> SUFFICES ASSUME LifeInv, RowsInv, [Next]_vars PROVE RowsInv'
    OBVIOUS
  <2>1. CASE UNCHANGED vars
    BY <2>1 DEF vars, RowsInv, Live, Count
  <2>2. CASE Next
    BY <2>2, RowsStep
  <2> QED BY <2>1, <2>2
<1>3. LifeInv /\ RowsInv => OneRowPerTest
  <2> SUFFICES ASSUME LifeInv, RowsInv, NEW t \in Tests PROVE Count(t) <= 1
    BY DEF OneRowPerTest
  <2>1. CASE Live
    BY <2>1 DEF RowsInv
  <2>2. CASE ~ Live
    BY <2>2 DEF LifeInv, NothingLeft, Count, Statuses
  <2> QED BY <2>1, <2>2
<1> QED BY <1>1, <1>2, <1>3, LifeInvariant, PTL DEF Spec

-----------------------------------------------------------------------------
(* Whoever refetches after run.aborted *)

NoPending == \A t \in Tests : rows[t]["pending"] = 0

\* In the line of p no batch waits behind an abort.
AbortsLast(p) ==
  \A i, k \in DOMAIN chain[p]["map"] :
    chain[p]["map"][i].kind = "abort" /\ chain[p]["map"][k].kind = "events" => k < i

\* As long as no statement fails: what the stream says of the abort is in the
\* history; and as long as no batch arrives after the abort was queued, nothing
\* of the run is left to do, and nothing pending, once the abort is written.
RefetchInv ==
  /\ run.row = "none" => Aborted \notin sse
  /\ Live /\ used.faults = 0 =>
       /\ Aborted \in sse => IsAborted
       /\ \A p \in Tasks : \A j \in Range(chain[p]["map"]) : j.kind = "abort" /\ j.pc = "emit" => IsAborted
       /\ ~ run.late =>
            /\ \A p \in Tasks : AbortsLast(p)
            /\ \A p \in Tasks : \A j \in Range(chain[p]["map"]) : j.kind = "abort" /\ j.pc = "persist" => NoPending
            /\ IsAborted => /\ NoPending
                            /\ \A p \in Tasks : \A j \in Range(chain[p]["map"]) : j.kind = "abort"

\* Before the run is there nothing is emitted.
LEMMA SilentBefore ==
  ASSUME LifeInv, Next, run'.row = "none"
  PROVE  run.row = "none" /\ sse' = sse
<1>t. run \in RunRecord /\ Unborn
  BY DEF LifeInv, LiveTypes, TypeOK
<1>1. run.row = "none"
  <2>1. ASSUME run.row # "none" PROVE FALSE
    <3>1. ASSUME NEW p \in Tasks, StartUpsert(p) PROVE FALSE
      BY <3>1, <1>t DEF StartUpsert, RunRecord
    <3>2. ASSUME NEW p \in Tasks, DeleteRow(p) PROVE FALSE
      BY <3>2, <1>t DEF DeleteRow, RunRecord
    <3>3. ASSUME Upload PROVE FALSE
      BY <3>3, <1>t DEF Upload, RunRecord
    <3>s. ASSUME NEW c \in Clients, NEW k \in Sockets,
                 PostSend(c, k) \/ \E j \in Sockets : PostResend(c, k, j)
          PROVE  FALSE
      BY <2>1, <3>s DEF PostSend, PostResend
    <3>4. ASSUME NEW c \in Clients, NEW k \in Sockets, NEW p \in Tasks, PostArrive(c, k, p) PROVE FALSE
      BY <2>1, <3>4, <1>t DEF PostArrive, RunRecord
    <3>5. ASSUME NEW c \in Clients, NEW k \in Sockets, NEW answered \in BOOLEAN, PostSync(c, k, answered)
          PROVE  FALSE
      <4>1. run' = [run EXCEPT !.late = @ \/ (post[c].req[k].batch > 0 /\ AbortUnderWay)]
        BY <3>5 DEF PostSync
      <4> QED BY <2>1, <4>1, <1>t DEF RunRecord
    <3>6. ASSUME TimePasses PROVE FALSE
      <4>1. run'.row = run.row
        BY <3>6, <1>t DEF TimePasses, RunRecord
      <4> QED BY <2>1, <4>1
    <3>7. ASSUME NEW p \in Tasks,
                 \/ StartRegister(p) \/ PersistStart(p) \/ Sweep(p) \/ ReconcileSelect(p) \/ ReconcileAbort(p)
                 \/ Forget(p) \/ Cleanup(p) \/ IdleTimeout(p) \/ RequestAbort(p) \/ Watch(p) \/ Crash(p)
          PROVE  FALSE
      BY <2>1, <3>7 DEF StartRegister, PersistStart, Sweep, ReconcileSelect, ReconcileAbort, Forget, Cleanup,
                  IdleTimeout, RequestAbort, Watch, Crash
    <3>8. ASSUME NEW p \in Tasks, NEW l \in Lanes, NEW i \in DOMAIN chain[p][l], Working(p, l, i)
          PROVE  FALSE
      <4>1. UNCHANGED run
        BY <3>8 DEF Working, JobForgotten, WriteEvent, InsertResult, Persist, Emit, AbortCheck, Transition, Fault
      <4> QED BY <2>1, <4>1
    <3> QED BY <3>1, <3>2, <3>3, <3>s, <3>4, <3>5, <3>6, <3>7, <3>8 DEF Next, TaskStep, JobStep, Working
  <2> QED BY <2>1
<1>2. \A p \in Tasks : ~ StartRegister(p)
  BY <1>1, <1>t DEF Unborn, StartRegister
<1>3. ASSUME NEW p \in Tasks, NEW l \in Lanes, NEW i \in DOMAIN chain[p][l] PROVE FALSE
  <2>1. chain[p][l] = <<>> /\ DOMAIN <<>> = {}
    BY <1>1, <1>t DEF Unborn
  <2> QED BY <2>1
<1>4. ASSUME NEW p \in Tasks,
             \/ PersistStart(p) \/ Sweep(p) \/ ReconcileSelect(p) \/ ReconcileAbort(p) \/ StartUpsert(p)
             \/ Forget(p) \/ Cleanup(p) \/ IdleTimeout(p) \/ RequestAbort(p) \/ Watch(p) \/ DeleteRow(p) \/ Crash(p)
      PROVE  sse' = sse
  BY <1>4 DEF PersistStart, Sweep, ReconcileSelect, ReconcileAbort, StartUpsert, Forget, Cleanup,
              IdleTimeout, RequestAbort, Watch, DeleteRow, Crash
<1>s. ASSUME NEW c \in Clients, NEW k \in Sockets,
             PostSend(c, k) \/ \E j \in Sockets : PostResend(c, k, j)
      PROVE  sse' = sse
  BY <1>s DEF PostSend, PostResend
<1>5. ASSUME NEW c \in Clients, NEW k \in Sockets, NEW p \in Tasks, PostArrive(c, k, p) PROVE sse' = sse
  BY <1>5 DEF PostArrive
<1>6. ASSUME NEW c \in Clients, NEW k \in Sockets, NEW answered \in BOOLEAN, PostSync(c, k, answered)
      PROVE  sse' = sse
  BY <1>6 DEF PostSync
<1>7. Upload \/ TimePasses => sse' = sse
  BY DEF Upload, TimePasses
<1> QED BY <1>1, <1>2, <1>3, <1>4, <1>s, <1>5, <1>6, <1>7 DEF Next, TaskStep, JobStep

\* The head that goes on is as it was to those behind it; a head that is done
\* leaves them in their order.
LEMMA LineKept ==
  ASSUME OneTask, LifeInv, NEW p \in Tasks, chain[p]["map"] # <<>>, AbortsLast(p),
         \/ Drops(p, "map")
         \/ \E j \in Job : Puts(p, "map", j) /\ j.kind = chain[p]["map"][1].kind
  PROVE  \A q \in Tasks : AbortsLast(q)'
<1>t. TypeOK /\ "map" \in Lanes /\ chain[p]["map"] \in Seq(Job)
  BY DEF LifeInv, LiveTypes, TypeOK, Lanes
<1> SUFFICES ASSUME NEW i \in DOMAIN chain'[p]["map"], NEW k \in DOMAIN chain'[p]["map"],
                    chain'[p]["map"][i].kind = "abort", chain'[p]["map"][k].kind = "events"
             PROVE  k < i
  BY DEF OneTask, AbortsLast
<1>1. CASE Drops(p, "map")
  <2>1. /\ i + 1 \in DOMAIN chain[p]["map"] /\ chain'[p]["map"][i] = chain[p]["map"][i + 1]
        /\ k + 1 \in DOMAIN chain[p]["map"] /\ chain'[p]["map"][k] = chain[p]["map"][k + 1]
    BY <1>1, <1>t, DropsEffect
  <2>2. k + 1 < i + 1
    BY <2>1 DEF AbortsLast
  <2>3. chain'[p]["map"] \in Seq(Job)
    BY <1>1, <1>t, DropsEffect
  <2>4. i \in Nat /\ k \in Nat
    BY <2>3
  <2> QED BY <2>2, <2>4
<1>2. ASSUME NEW j \in Job, Puts(p, "map", j), j.kind = chain[p]["map"][1].kind
      PROVE  k < i
  <2>1. /\ DOMAIN chain'[p]["map"] = DOMAIN chain[p]["map"] /\ chain'[p]["map"][1] = j
        /\ \A m \in DOMAIN chain[p]["map"] : m # 1 => chain'[p]["map"][m] = chain[p]["map"][m]
    BY <1>2, <1>t, PutsEffect
  <2>2. \A m \in DOMAIN chain[p]["map"] : chain'[p]["map"][m].kind = chain[p]["map"][m].kind
    BY <2>1, <1>2
  <2> QED BY <2>1, <2>2 DEF AbortsLast
<1> QED BY <1>1, <1>2

\* What a step of the line leaves of the jobs' kinds.
LEMMA KindsKept ==
  ASSUME OneTask, LifeInv, NEW p \in Tasks, chain[p]["map"] # <<>>,
         \/ Drops(p, "map")
         \/ \E j \in Job : Puts(p, "map", j) /\ j.kind = chain[p]["map"][1].kind,
         \A q \in Tasks : \A j \in Range(chain[q]["map"]) : j.kind = "abort"
  PROVE  \A q \in Tasks : \A j \in Range(chain'[q]["map"]) : j.kind = "abort"
<1>t. TypeOK /\ "map" \in Lanes /\ chain[p]["map"] \in Seq(Job)
  BY DEF LifeInv, LiveTypes, TypeOK, Lanes
<1>1. CASE Drops(p, "map")
  <2>1. \A q \in Tasks, m \in Lanes : Range(chain'[q][m]) \subseteq Range(chain[q][m])
    BY <1>1, <1>t, DropsEffect
  <2> QED BY <2>1, <1>t
<1>2. ASSUME NEW j \in Job, Puts(p, "map", j), j.kind = chain[p]["map"][1].kind
      PROVE  \A q \in Tasks : \A k \in Range(chain'[q]["map"]) : k.kind = "abort"
  <2>1. \A q \in Tasks, m \in Lanes : Range(chain'[q][m]) \subseteq Range(chain[q][m]) \cup {j}
    BY <1>2, <1>t, PutsEffect
  <2>2. chain[p]["map"][1] \in Range(chain[p]["map"])
    BY <1>t DEF Range
  <2> QED BY <2>1, <2>2, <1>2, <1>t
<1> QED BY <1>1, <1>2

\* A step keeps what a refetch relies on.
LEMMA RefetchStep ==
  ASSUME OneTask, LifeInv, RefetchInv, Next
  PROVE  RefetchInv'
<1>t. TypeOK /\ "map" \in Lanes /\ history \in Seq(Events) /\ used \in UsedRecord
  BY DEF LifeInv, LiveTypes, TypeOK, Lanes
<1>z. run'.row = "none" => Aborted \notin sse'
  <2> SUFFICES ASSUME run'.row = "none" PROVE Aborted \notin sse'
    OBVIOUS
  <2> QED BY SilentBefore DEF RefetchInv
<1> SUFFICES ASSUME Live', used'.faults = 0
    PROVE  /\ Aborted \in sse' => IsAborted'
           /\ \A p \in Tasks : \A j \in Range(chain'[p]["map"]) : j.kind = "abort" /\ j.pc = "emit" => IsAborted'
           /\ ~ run'.late =>
                /\ \A p \in Tasks : AbortsLast(p)'
                /\ \A p \in Tasks : \A j \in Range(chain'[p]["map"]) :
                     j.kind = "abort" /\ j.pc = "persist" => NoPending'
                /\ IsAborted' => /\ NoPending'
                                 /\ \A p \in Tasks : \A j \in Range(chain'[p]["map"]) : j.kind = "abort"
  BY <1>z DEF RefetchInv
<1>w. \A j : j.kind = "abort" /\ Waiting(j) => j.pc # "emit" /\ j.pc # "persist"
  BY DEF Waiting
<1>p. rows' = rows => (NoPending' <=> NoPending)
  BY DEF NoPending
\* An event that is not an abort changes nothing.
<1>h. ASSUME NEW e, e # Aborted, history' = history \/ history' = Append(history, e)
      PROVE  IsAborted' <=> IsAborted
  <2>1. history' = Append(history, e) => Range(history') = Range(history) \cup {e}
    BY <1>t, LongerHistory
  <2> QED BY <2>1, <1>h DEF IsAborted
<1>1. CASE ~ Live
  <2>1. run.row = "none" /\ UNCHANGED <<history, sse, chain>>
    BY <1>1, Births
  <2>2. history = <<>> /\ \A p \in Tasks : chain'[p]["map"] = <<>>
    BY <2>1, <1>1, <1>t DEF LifeInv, Unborn, NothingLeft
  <2>3. Range(<<>>) = {} /\ DOMAIN <<>> = {}
    BY DEF Range
  <2>4. ~ IsAborted' /\ Aborted \notin sse'
    BY <2>1, <2>2, <2>3 DEF IsAborted, RefetchInv
  <2>5. \A p \in Tasks : AbortsLast(p)'
    BY <2>2, <2>3 DEF AbortsLast
  <2> QED BY <2>2, <2>3, <2>4, <2>5
<1>2. CASE Live /\ \E p \in Tasks, l \in Lanes : \E i \in DOMAIN chain[p][l] : Working(p, l, i)
  <2>1. PICK p \in Tasks, l \in Lanes : \E i \in DOMAIN chain[p][l] : Working(p, l, i)
    BY <1>2
  <2>2. PICK i \in DOMAIN chain[p][l] : Working(p, l, i)
    BY <2>1
  <2>3. PICK h : h = chain[p]["map"][1]
    OBVIOUS
  <2>n. ~ Failing
    <3>1. used.faults \in Nat
      BY <1>t, BoundAssumption DEF UsedRecord
    <3>2. Failing => used'.faults = used.faults + 1
      BY <1>t DEF Failing, UsedRecord
    <3> QED BY <3>1, <3>2
  <2>4. /\ h \in Job /\ chain[p]["map"] # <<>> /\ h \in Range(chain[p]["map"]) /\ h.evs # <<>>
        /\ 1 \in DOMAIN chain[p]["map"] /\ UNCHANGED run
    BY <1>2, <2>2, <2>3, HeadSteps
  <2>5. /\ used' = used
        /\ \/ h.kind = "events" /\ h.pc = "write" /\ Drops(p, "map") /\ UNCHANGED <<rows, history, sse>>
           \/ h.kind = "events" /\ UNCHANGED <<history, sse>> /\ Goes(p, h, "insert")
           \/ h.kind = "events" /\ UNCHANGED <<history, sse>> /\ Goes(p, h, "persist")
           \/ /\ h.pc = "persist" /\ Goes(p, h, "emit")
              /\ history' = Append(history, Head(h.evs)) /\ UNCHANGED <<rows, sse>>
           \/ /\ h.pc = "emit" /\ sse' = sse \cup {Head(h.evs)} /\ UNCHANGED <<rows, history>>
              /\ \/ Drops(p, "map")
                 \/ h.kind = "events" /\ Len(h.evs) # 1 /\ Puts(p, "map", RestOf(h))
           \/ h.kind = "abort" /\ UNCHANGED <<rows, history, sse>> /\ Drops(p, "map")
           \/ h.kind = "abort" /\ UNCHANGED <<rows, history, sse>> /\ Goes(p, h, "transition")
           \/ /\ h.kind = "abort" /\ h.pc = "transition" /\ Transition(p, "map", 1)
              /\ Goes(p, h, "persist") /\ UNCHANGED <<history, sse>>
    BY <1>2, <2>2, <2>3, <2>n, HeadSteps
  <2>f. \A pc : [h EXCEPT !.pc = pc].kind = h.kind /\ [h EXCEPT !.pc = pc].pc = pc
    BY <2>4, JobFields
  <2>j. /\ \A pc \in {"insert", "persist", "emit"} : h.kind = "events" => [h EXCEPT !.pc = pc] \in Job
        /\ \A pc \in {"transition", "persist", "emit"} : h.kind = "abort" => [h EXCEPT !.pc = pc] \in Job
        /\ h.kind \in {"events", "abort"}
    BY <2>4, JobFields
  <2>r. /\ Aborted \in sse => IsAborted
        /\ \A q \in Tasks : \A j \in Range(chain[q]["map"]) : j.kind = "abort" /\ j.pc = "emit" => IsAborted
        /\ ~ run'.late =>
             /\ \A q \in Tasks : AbortsLast(q)
             /\ \A q \in Tasks : \A j \in Range(chain[q]["map"]) : j.kind = "abort" /\ j.pc = "persist" => NoPending
             /\ IsAborted => /\ NoPending
                             /\ \A q \in Tasks : \A j \in Range(chain[q]["map"]) : j.kind = "abort"
    BY <2>4, <2>5, <1>2 DEF RefetchInv
  <2>e. /\ h.kind = "events" => Head(h.evs) # Aborted
        /\ h.kind = "abort" => Head(h.evs) = Aborted
    <3>1. Head(h.evs) \in Range(h.evs)
      BY <2>4, HeadEvent
    <3>2. h.kind = "events" => h.kind # "abort"
      OBVIOUS
    <3> QED BY <3>1, <3>2, <2>4, <1>t, AbortInHand, HeadEvent
  <2>6. CASE Drops(p, "map") /\ UNCHANGED <<rows, history>> /\ (Aborted \in sse' => IsAborted)
    <3>1. \A q \in Tasks : \A k \in Range(chain'[q]["map"]) : k \in Range(chain[q]["map"]) /\ Waiting(k)
      BY <2>4, <2>6, MapAfterDrop
    <3>2. IsAborted' <=> IsAborted
      BY <2>6 DEF IsAborted
    <3>3. ~ run'.late => \A q \in Tasks : AbortsLast(q)'
      BY <2>4, <2>6, <2>r, LineKept
    <3> QED BY <3>1, <3>2, <3>3, <2>6, <2>r, <1>w, <1>p
  <2>7. ASSUME NEW j \in Job, Puts(p, "map", j), j.kind = h.kind,
               Aborted \in sse' => IsAborted',
               j.kind = "abort" /\ j.pc = "emit" => IsAborted',
               ~ run'.late /\ j.kind = "abort" /\ j.pc = "persist" => NoPending',
               ~ run'.late /\ IsAborted' =>
                 NoPending' /\ \A q \in Tasks : \A k \in Range(chain[q]["map"]) : k.kind = "abort"
        PROVE  /\ Aborted \in sse' => IsAborted'
               /\ \A q \in Tasks : \A k \in Range(chain'[q]["map"]) : k.kind = "abort" /\ k.pc = "emit" => IsAborted'
               /\ ~ run'.late =>
                    /\ \A q \in Tasks : AbortsLast(q)'
                    /\ \A q \in Tasks : \A k \in Range(chain'[q]["map"]) :
                         k.kind = "abort" /\ k.pc = "persist" => NoPending'
                    /\ IsAborted' => /\ NoPending'
                                     /\ \A q \in Tasks : \A k \in Range(chain'[q]["map"]) : k.kind = "abort"
    <3>1. \A q \in Tasks : \A k \in Range(chain'[q]["map"]) : k = j \/ Waiting(k)
      BY <2>4, <2>7, MapAfterPut
    <3>2. ~ run'.late => \A q \in Tasks : AbortsLast(q)'
      BY <2>3, <2>4, <2>7, <2>r, LineKept
    <3>3. ~ run'.late /\ IsAborted' => \A q \in Tasks : \A k \in Range(chain'[q]["map"]) : k.kind = "abort"
      BY <2>3, <2>4, <2>7, KindsKept
    <3> QED BY <3>1, <3>2, <3>3, <2>7, <1>w
  <2>8. CASE h.kind = "events" /\ UNCHANGED <<history, sse>> /\ \E pc \in {"insert", "persist"} : Goes(p, h, pc)
    <3>1. IsAborted' <=> IsAborted
      BY <2>8 DEF IsAborted
    <3>2. ~ run'.late => ~ IsAborted'
      BY <3>1, <2>4, <2>8, <2>r
    <3>3. PICK pc \in {"insert", "persist"} : Goes(p, h, pc)
      BY <2>8
    <3>4. [h EXCEPT !.pc = pc] \in Job /\ [h EXCEPT !.pc = pc].kind = "events" /\ Puts(p, "map", [h EXCEPT !.pc = pc])
      BY <3>3, <2>8, <2>f, <2>j DEF Goes
    <3>5. PICK j \in Job : j.kind = "events" /\ Puts(p, "map", j)
      BY <3>4
    <3> QED BY <3>1, <3>2, <3>5, <2>7, <2>8, <2>r
  <2>9. CASE h.kind = "events" /\ Len(h.evs) # 1 /\ Puts(p, "map", RestOf(h))
             /\ sse' = sse \cup {Head(h.evs)} /\ UNCHANGED <<rows, history>>
    <3>1. RestOf(h) \in Job /\ RestOf(h).kind = "events"
      BY <2>4, <2>9, RestOfJob
    <3>2. IsAborted' <=> IsAborted
      BY <2>9 DEF IsAborted
    <3>3. ~ run'.late => ~ IsAborted'
      BY <3>2, <2>4, <2>9, <2>r
    <3>4. Aborted \in sse' => IsAborted'
      BY <3>2, <2>9, <2>e, <2>r
    <3>5. PICK j \in Job : j.kind = "events" /\ Puts(p, "map", j)
      BY <3>1, <2>9
    <3> QED BY <3>3, <3>4, <3>5, <2>7, <2>9
  <2>10. CASE /\ h.pc = "persist" /\ Goes(p, h, "emit")
              /\ history' = Append(history, Head(h.evs)) /\ UNCHANGED <<rows, sse>>
    <3>1. Range(history') = Range(history) \cup {Head(h.evs)}
      BY <2>10, <1>t, LongerHistory
    <3>2. PICK j \in Job : j = [h EXCEPT !.pc = "emit"]
      BY <2>j
    <3>3. j.kind = h.kind /\ j.pc = "emit" /\ Puts(p, "map", j)
      BY <3>2, <2>f, <2>10 DEF Goes
    <3>4. IsAborted => IsAborted'
      BY <3>1 DEF IsAborted
    <3>5. CASE h.kind = "events"
      <4>1. IsAborted' <=> IsAborted
        BY <3>5, <2>e, <2>10, <1>h
      <4>2. ~ run'.late => ~ IsAborted'
        BY <4>1, <3>5, <2>4, <2>r
      <4>3. Aborted \in sse' => IsAborted'
        BY <3>4, <2>10, <2>r
      <4> QED BY <4>2, <4>3, <3>3, <3>5, <2>7
    <3>6. CASE h.kind = "abort"
      <4>1. IsAborted'
        BY <3>1, <3>6, <2>e DEF IsAborted
      <4>2. ~ run'.late => NoPending'
        BY <3>6, <2>4, <2>10, <2>r, <1>p
      <4>3. ~ run'.late => \A q \in Tasks : \A k \in Range(chain[q]["map"]) : k.kind = "abort"
        <5> SUFFICES ASSUME ~ run'.late, NEW k \in Range(chain[p]["map"]) PROVE k.kind = "abort"
          BY DEF OneTask
        <5>1. PICK m \in DOMAIN chain[p]["map"] : k = chain[p]["map"][m]
          BY DEF Range
        <5>2. chain[p]["map"] \in Seq(Job)
          BY <1>t DEF TypeOK
        <5>3. k \in Job /\ m \in Nat /\ ~ m < 1
          BY <5>1, <5>2
        <5>4. k.kind # "events"
          BY <5>1, <5>3, <3>6, <2>3, <2>4, <2>r DEF AbortsLast
        <5> QED BY <5>3, <5>4, JobFields
      <4> QED BY <4>1, <4>2, <4>3, <3>3, <3>6, <2>7
    <3> QED BY <3>5, <3>6, <2>j
  <2>11. CASE h.kind = "abort" /\ UNCHANGED <<rows, history, sse>> /\ Goes(p, h, "transition")
    <3>1. IsAborted' <=> IsAborted
      BY <2>11 DEF IsAborted
    <3>2. PICK j \in Job : j = [h EXCEPT !.pc = "transition"]
      BY <2>11, <2>j
    <3>3. j.kind = h.kind /\ j.pc = "transition" /\ Puts(p, "map", j)
      BY <3>2, <2>f, <2>11 DEF Goes
    <3> QED BY <3>1, <3>3, <2>7, <2>11, <2>r, <1>p
  <2>12. CASE /\ h.kind = "abort" /\ h.pc = "transition" /\ Transition(p, "map", 1)
              /\ Goes(p, h, "persist") /\ UNCHANGED <<history, sse>>
    <3>1. IsAborted' <=> IsAborted
      BY <2>12 DEF IsAborted
    <3>2. PICK j \in Job : j = [h EXCEPT !.pc = "persist"]
      BY <2>12, <2>j
    <3>3. j.kind = h.kind /\ j.pc = "persist" /\ Puts(p, "map", j)
      BY <3>2, <2>f, <2>12 DEF Goes
    <3>4. NoPending'
      <4> SUFFICES ASSUME NEW t \in Tests PROVE rows'[t]["pending"] = 0
        BY DEF NoPending
      <4>1. rows'[t] = [rows[t] EXCEPT !["pending"] = 0, !["skipped"] = @ + rows[t]["pending"]]
        BY <2>12 DEF Transition
      <4>2. PICK r \in [Statuses -> Nat] : r = rows[t]
        BY <1>t DEF TypeOK
      <4>3. PICK z : z = r["skipped"] + r["pending"]
        OBVIOUS
      <4>4. rows'[t] = [r EXCEPT !["pending"] = 0, !["skipped"] = z]
        BY <4>1, <4>2, <4>3
      <4> QED BY <4>4 DEF Statuses
    <3> QED BY <3>1, <3>3, <3>4, <2>7, <2>12, <2>r
  <2>13. CASE h.pc = "emit" /\ sse' = sse \cup {Head(h.evs)} /\ UNCHANGED <<rows, history>> /\ Drops(p, "map")
    <3>1. Aborted \in sse' => IsAborted
      <4>1. CASE h.kind = "events"
        BY <4>1, <2>13, <2>e, <2>r
      <4>2. CASE h.kind = "abort"
        BY <4>2, <2>4, <2>13, <2>r
      <4> QED BY <4>1, <4>2, <2>j
    <3> QED BY <3>1, <2>6, <2>13
  <2>14. CASE Drops(p, "map") /\ UNCHANGED <<rows, history, sse>>
    BY <2>14, <2>6, <2>r
  <2> QED BY <2>5, <2>8, <2>9, <2>10, <2>11, <2>12, <2>13, <2>14
<1>3. CASE Live /\ ~ \E p \in Tasks, l \in Lanes : \E i \in DOMAIN chain[p][l] : Working(p, l, i)
  <2>1. /\ history' = history \/ history' = Append(history, Started)
        /\ used'.faults = used.faults /\ (run.late => run'.late)
        /\ rows' = rows \/ \A t \in Tests : rows'[t]["pending"] = 0
        /\ sse' = sse \/ sse' = sse \cup {Started}
        /\ \/ NoNews
           \/ \E p \in Tasks, by \in {"request", "sweep", "reconcile"} : NewAbort(p, by)
           \/ \E c \in Clients, p \in Tasks, b \in Nat : NewBatch(c, p, b)
    BY <1>3, OtherSteps
  <2>2. \A q \in Tasks : \A k \in Range(chain'[q]["map"]) : k \in Range(chain[q]["map"]) \/ Waiting(k)
    BY <2>1, MapAfterNews
  <2>3. IsAborted' <=> IsAborted
    BY <2>1, <1>h, OwnEvents
  <2>4. NoPending => NoPending'
    BY <2>1 DEF NoPending
  <2>r. /\ Aborted \in sse => IsAborted
        /\ \A q \in Tasks : \A j \in Range(chain[q]["map"]) : j.kind = "abort" /\ j.pc = "emit" => IsAborted
        /\ ~ run'.late =>
             /\ \A q \in Tasks : AbortsLast(q)
             /\ \A q \in Tasks : \A j \in Range(chain[q]["map"]) : j.kind = "abort" /\ j.pc = "persist" => NoPending
             /\ IsAborted => /\ NoPending
                             /\ \A q \in Tasks : \A j \in Range(chain[q]["map"]) : j.kind = "abort"
    BY <2>1, <1>3 DEF RefetchInv
  <2>5. ~ run'.late => /\ \A q \in Tasks : AbortsLast(q)'
                       /\ IsAborted => \A q \in Tasks : \A j \in Range(chain'[q]["map"]) : j.kind = "abort"
    <3> SUFFICES ASSUME ~ run'.late
                 PROVE  /\ \A q \in Tasks : AbortsLast(q)'
                        /\ IsAborted => \A q \in Tasks : \A j \in Range(chain'[q]["map"]) : j.kind = "abort"
      OBVIOUS
    <3>1. CASE NoNews
      <4>1. Range(<<>>) = {} /\ DOMAIN <<>> = {}
        BY DEF Range
      <4> QED BY <4>1, <3>1, <2>r DEF NoNews, AbortsLast
    <3>2. ASSUME NEW p \in Tasks, NEW by \in {"request", "sweep", "reconcile"}, NewAbort(p, by)
          PROVE  /\ \A q \in Tasks : AbortsLast(q)'
                 /\ IsAborted => \A q \in Tasks : \A j \in Range(chain'[q]["map"]) : j.kind = "abort"
      <4>1. PICK j \in Job : j = AbortJob(by)
        BY NewJobs
      <4>2. j.kind = "abort"
        BY <4>1 DEF AbortJob
      <4>3. chain' = Enqueue(p, j)
        BY <4>1, <3>2 DEF NewAbort
      <4>4. /\ DOMAIN chain'[p]["map"] = 1 .. Len(chain[p]["map"]) + 1
            /\ DOMAIN chain[p]["map"] = 1 .. Len(chain[p]["map"])
            /\ chain'[p]["map"][Len(chain[p]["map"]) + 1] = j
            /\ \A i \in DOMAIN chain[p]["map"] : chain'[p]["map"][i] = chain[p]["map"][i]
            /\ \A q \in Tasks, m \in Lanes : Range(chain'[q][m]) \subseteq Range(chain[q][m]) \cup {j}
        BY <4>3, <1>t, EnqueueEffect
      <4>5. chain[p]["map"] \in Seq(Job)
        BY <1>t DEF TypeOK
      <4>6. PICK n \in Nat : n = Len(chain[p]["map"])
        BY <4>5
      <4>7. AbortsLast(p)'
        <5> SUFFICES ASSUME NEW i \in 1 .. n + 1, NEW k \in 1 .. n + 1,
                            chain'[p]["map"][i].kind = "abort", chain'[p]["map"][k].kind = "events"
                     PROVE  k < i
          BY <4>4, <4>6 DEF AbortsLast
        <5>1. k # n + 1
          BY <4>2, <4>4, <4>6
        <5>2. k \in 1 .. n
          BY <5>1
        <5>3. CASE i = n + 1
          BY <5>2, <5>3
        <5>4. CASE i \in 1 .. n
          BY <5>2, <5>4, <4>4, <4>6, <2>r DEF AbortsLast
        <5> QED BY <5>3, <5>4
      <4>8. \A q \in Tasks : AbortsLast(q)'
        <5> SUFFICES ASSUME NEW q \in Tasks PROVE AbortsLast(q)'
          OBVIOUS
        <5>1. q = p
          BY DEF OneTask
        <5> QED BY <5>1, <4>7
      <4> QED BY <4>2, <4>4, <4>8, <2>r, <1>t
    <3>3. ASSUME NEW c \in Clients, NEW p \in Tasks, NEW b \in Nat, NewBatch(c, p, b)
          PROVE  /\ \A q \in Tasks : AbortsLast(q)'
                 /\ IsAborted => \A q \in Tasks : \A j \in Range(chain'[q]["map"]) : j.kind = "abort"
      <4>1. ~ IsAborted /\ \A q \in Tasks, by \in {"request", "sweep", "reconcile"} : ~ Queued(q, by)
        BY <3>3 DEF NewBatch, AbortUnderWay
      <4>2. \A q \in Tasks : \A i \in DOMAIN chain[q]["map"] : chain[q]["map"][i].kind # "abort"
        <5> SUFFICES ASSUME NEW q \in Tasks, NEW i \in DOMAIN chain[q]["map"], chain[q]["map"][i].kind = "abort"
                     PROVE  FALSE
          OBVIOUS
        <5>1. chain[q]["map"] \in Seq(Job)
          BY <1>t DEF TypeOK
        <5>2. chain[q]["map"][i] \in Job
          BY <5>1
        <5>3. chain[q]["map"][i].by \in {"request", "sweep", "reconcile"}
          BY <5>2 DEF Job
        <5> QED BY <5>3, <4>1, <1>t DEF Queued
      <4>4. PICK j : j = EventsJob(Script[c][b])
        OBVIOUS
      <4>5. j \in Job /\ j.kind = "events" /\ chain' = Enqueue(p, j)
        BY <4>4, <3>3, NewJobs DEF NewBatch, InHand, EventsJob
      <4>6. \A q \in Tasks, m \in Lanes : Range(chain'[q][m]) \subseteq Range(chain[q][m]) \cup {j}
        BY <4>5, <1>t, EnqueueEffect
      <4>3. \A q \in Tasks : \A k \in Range(chain[q]["map"]) : k.kind # "abort"
        BY <4>2 DEF Range
      <4>7. \A q \in Tasks : \A k \in Range(chain'[q]["map"]) : k.kind # "abort"
        BY <4>3, <4>5, <4>6 DEF Lanes
      <4>8. \A q \in Tasks : AbortsLast(q)'
        BY <4>7 DEF AbortsLast, Range
      <4> QED BY <4>1, <4>8
    <3> QED BY <3>1, <3>2, <3>3, <2>1
  <2>6. /\ Aborted \in sse' => IsAborted'
        /\ \A p \in Tasks : \A j \in Range(chain'[p]["map"]) : j.kind = "abort" /\ j.pc = "emit" => IsAborted'
    BY <2>1, <2>2, <2>3, <2>r, <1>w, OwnEvents
  <2>7. ~ run'.late => \A p \in Tasks : \A j \in Range(chain'[p]["map"]) :
                          j.kind = "abort" /\ j.pc = "persist" => NoPending'
    BY <2>2, <2>4, <2>r, <1>w
  <2> QED BY <2>3, <2>4, <2>5, <2>6, <2>7, <2>r
<1> QED BY <1>1, <1>2, <1>3

\* RefetchAfterAbort: in one server process whoever sees run.aborted on the stream
\* and refetches finds the run aborted and no test pending, as long as no
\* statement fails and no batch arrives after the abort was queued (abortRun
\* persists before it emits, routes/live.ts).
THEOREM RefetchShowsAbort ==
  ASSUME OneTask
  PROVE  Spec => []RefetchAfterAbort
<1>1. Init => RefetchInv
  BY DEF Init, Live, RefetchInv
<1>2. LifeInv /\ RefetchInv /\ [Next]_vars => RefetchInv'
  <2> SUFFICES ASSUME LifeInv, RefetchInv, [Next]_vars PROVE RefetchInv'
    OBVIOUS
  <2>1. CASE UNCHANGED vars
    BY <2>1 DEF vars, RefetchInv, Live, IsAborted, NoPending, AbortsLast
  <2>2. CASE Next
    BY <2>2, RefetchStep
  <2> QED BY <2>1, <2>2
<1>3. RefetchInv => RefetchAfterAbort
  BY DEF RefetchInv, RefetchAfterAbort, NoPending
<1> QED BY <1>1, <1>2, <1>3, LifeInvariant, PTL DEF Spec

-----------------------------------------------------------------------------
(* Places in the script *)

\* The batch of the script an event is in, and the events of it.
BatchOf(e) == CHOOSE b \in DOMAIN Script[e.by] : e \in Range(Script[e.by][b])

Mates(e) == Range(Script[e.by][BatchOf(e)])

\* An event is in one batch only.
LEMMA EventPlace ==
  ASSUME NEW c \in Clients, NEW b \in DOMAIN Script[c], NEW e \in Range(Script[c][b])
  PROVE  /\ e \in ClientEvents(c) /\ e.by = c /\ e.n \in Nat
         /\ BatchOf(e) = b /\ Mates(e) = Range(Script[c][b])
<1>1. e \in ClientEvents(c)
  BY DEF ClientEvents
<1>2. e.by = c /\ e.n \in Nat
  BY <1>1, SenderOf
<1>3. \A a \in DOMAIN Script[c] : e \in Range(Script[c][a]) => a = b
  <2> SUFFICES ASSUME NEW a \in DOMAIN Script[c], e \in Range(Script[c][a]), a # b PROVE FALSE
    OBVIOUS
  <2>1. PICK k \in DOMAIN Script[c][a] : e = Script[c][a][k]
    BY DEF Range
  <2>2. PICK m \in DOMAIN Script[c][b] : e = Script[c][b][m]
    BY DEF Range
  <2>3. \A i, j \in DOMAIN Script[c] : \A x \in DOMAIN Script[c][i], y \in DOMAIN Script[c][j] :
          i < j => Script[c][i][x].n < Script[c][j][y].n
    BY ScriptAssumption
  <2>4. PICK S : Script[c] \in Seq(S)
    BY ScriptAssumption
  <2>5. a \in Nat /\ b \in Nat
    BY <2>4
  <2>6. a < b \/ b < a
    BY <2>5
  <2>7. e.n < e.n
    BY <2>1, <2>2, <2>3, <2>6
  <2> QED BY <2>7, <1>2
<1>4. BatchOf(e) \in DOMAIN Script[c] /\ e \in Range(Script[c][BatchOf(e)])
  BY <1>2 DEF BatchOf
<1>5. BatchOf(e) = b
  BY <1>3, <1>4
<1> QED BY <1>1, <1>2, <1>5 DEF Mates

\* The batches of a reporter are in the order of its events.
LEMMA BatchesInOrder ==
  ASSUME NEW c \in Clients, NEW d \in ClientEvents(c), NEW e \in ClientEvents(c)
  PROVE  /\ BatchOf(e) \in Nat /\ BatchOf(e) \in DOMAIN Script[c] /\ e \in Mates(e)
         /\ Mates(e) = Range(Script[c][BatchOf(e)]) /\ Mates(e) \subseteq ClientEvents(c)
         /\ d.n < e.n => BatchOf(d) <= BatchOf(e)
         /\ BatchOf(d) = BatchOf(e) => Mates(d) = Mates(e)
         /\ d \in Mates(e) => BatchOf(d) = BatchOf(e)
         /\ d.n \in Nat /\ e.n \in Nat
<1>1. PICK a \in DOMAIN Script[c] : d \in Range(Script[c][a])
  BY DEF ClientEvents, Range
<1>2. PICK b \in DOMAIN Script[c] : e \in Range(Script[c][b])
  BY DEF ClientEvents, Range
<1>3. PICK S : Script[c] \in Seq(S)
  BY ScriptAssumption
<1>4. a \in Nat /\ b \in Nat
  BY <1>3
<1>5. /\ d.n \in Nat /\ BatchOf(d) = a /\ Mates(d) = Range(Script[c][a])
      /\ e.n \in Nat /\ BatchOf(e) = b /\ Mates(e) = Range(Script[c][b])
  BY <1>1, <1>2, EventPlace
<1>6. Mates(e) \subseteq ClientEvents(c)
  BY <1>5 DEF ClientEvents
<1>7. d \in Mates(e) => a = b
  BY <1>5, EventPlace
<1>8. d.n < e.n => a <= b
  <2> SUFFICES ASSUME d.n < e.n, ~ a <= b PROVE FALSE
    OBVIOUS
  <2>1. PICK k \in DOMAIN Script[c][a] : d = Script[c][a][k]
    BY <1>1 DEF Range
  <2>2. PICK m \in DOMAIN Script[c][b] : e = Script[c][b][m]
    BY <1>2 DEF Range
  <2>3. \A i, j \in DOMAIN Script[c] : \A x \in DOMAIN Script[c][i], y \in DOMAIN Script[c][j] :
          i < j => Script[c][i][x].n < Script[c][j][y].n
    BY ScriptAssumption
  <2>4. b < a
    BY <1>4
  <2>5. e.n < d.n
    BY <2>1, <2>2, <2>3, <2>4
  <2> QED BY <2>5, <1>5
<1> QED BY <1>2, <1>4, <1>5, <1>6, <1>7, <1>8

\* A batch as it is sent: increasing, and all of its events are mates.
LEMMA WholeBatch ==
  ASSUME NEW c \in Clients, NEW b \in DOMAIN Script[c], NEW s, s = Script[c][b]
  PROVE  /\ \A k, m \in DOMAIN s : k < m => s[k].n < s[m].n
         /\ 1 \in DOMAIN s /\ s[1] \in ClientEvents(c) /\ s[1].by = c
         /\ BatchOf(s[1]) = b /\ Mates(s[1]) = Range(s)
<1>1. \A k, m \in DOMAIN s : k < m => s[k].n < s[m].n
  BY ScriptAssumption
<1>2. s \in Seq(Events) /\ s # <<>>
  BY Batches
<1>3. 1 \in DOMAIN s
  BY <1>2
<1>4. s[1] \in Range(s)
  BY <1>3 DEF Range
<1>5. s[1] \in Range(Script[c][b])
  BY <1>4
<1> QED BY <1>1, <1>3, <1>5, EventPlace

-----------------------------------------------------------------------------
(* First occurrences *)

\* A set of numbers has a least one.
LEMMA LeastNumber ==
  ASSUME NEW T \in SUBSET Nat, T # {}
  PROVE  \E m \in T : \A n \in T : m <= n
<1>. DEFINE R == {ss \in Nat \X Nat : ss[1] < ss[2]}
<1>1. IsWellFoundedOn(R, Nat)
  BY NatLessThanWellFounded DEF OpToRel
<1>. HIDE DEF R
<1>2. PICK x \in T : \A y \in T : ~ (<<y, x>> \in R)
  BY <1>1, WFMin
<1>3. ASSUME NEW y \in T PROVE x <= y
  <2>1. <<y, x>> \in Nat \X Nat /\ <<y, x>>[1] = y /\ <<y, x>>[2] = x
    OBVIOUS
  <2>. QED BY <1>2, <2>1 DEF R
<1>. QED BY <1>3

\* An element of a sequence has a first occurrence.
LEMMA FirstOccurs ==
  ASSUME NEW S, NEW s \in Seq(S), NEW e \in Range(s)
  PROVE  /\ First(s, e) \in DOMAIN s /\ s[First(s, e)] = e
         /\ \A j \in 1 .. First(s, e) - 1 : s[j] # e
<1>1. PICK P : P = {i \in DOMAIN s : s[i] = e}
  OBVIOUS
<1>2. P \in SUBSET Nat
  BY <1>1
<1>3. PICK n : n \in P
  BY <1>1 DEF Range
<1>4. PICK k \in P : \A m \in P : k <= m
  BY <1>2, <1>3, LeastNumber
<1>5. k \in DOMAIN s /\ s[k] = e /\ \A j \in 1 .. k - 1 : s[j] # e
  <2>1. k \in 1 .. Len(s) /\ s[k] = e /\ Len(s) \in Nat
    BY <1>1
  <2>2. ASSUME NEW j \in 1 .. k - 1, s[j] = e PROVE FALSE
    <3>1. j \in 1 .. Len(s) /\ ~ k <= j
      BY <2>1
    <3>2. j \in P
      BY <3>1, <2>2, <1>1
    <3> QED BY <3>1, <3>2, <1>4
  <2> QED BY <2>1, <2>2
<1> QED BY <1>5 DEF First

\* There is one first occurrence.
LEMMA FirstIsUnique ==
  ASSUME NEW S, NEW s \in Seq(S), NEW i \in DOMAIN s, \A j \in 1 .. i - 1 : s[j] # s[i]
  PROVE  First(s, s[i]) = i
<1>1. PICK e : e = s[i]
  OBVIOUS
<1>2. PICK k : k = First(s, e)
  OBVIOUS
<1>3. k \in DOMAIN s /\ s[k] = e /\ \A j \in 1 .. k - 1 : s[j] # e
  BY <1>1, <1>2, FirstOccurs DEF Range
<1>4. i \in Nat /\ k \in Nat /\ i >= 1 /\ k >= 1
  BY <1>3
<1>5. i \notin 1 .. k - 1 /\ k \notin 1 .. i - 1
  BY <1>1, <1>3
<1> QED BY <1>1, <1>2, <1>4, <1>5

\* An event behind the others does not change where these occurred first.
LEMMA FirstsOfAppend ==
  ASSUME NEW S, NEW s \in Seq(S), NEW e \in S
  PROVE  /\ \A d \in Range(s) : First(Append(s, e), d) = First(s, d) /\ First(s, d) < Len(s) + 1
         /\ e \notin Range(s) => First(Append(s, e), e) = Len(s) + 1
<1>0. PICK r : r = Append(s, e)
  OBVIOUS
<1>1. /\ r \in Seq(S) /\ \A k \in DOMAIN s : r[k] = s[k]
      /\ r[Len(s) + 1] = e
      /\ DOMAIN s = 1 .. Len(s) /\ DOMAIN r = 1 .. Len(s) + 1
  BY <1>0
<1>l. Len(s) \in Nat
  OBVIOUS
<1>2. ASSUME NEW d \in Range(s)
      PROVE  First(r, d) = First(s, d) /\ First(s, d) < Len(s) + 1
  <2>1. PICK i : i = First(s, d)
    OBVIOUS
  <2>2. i \in DOMAIN s /\ s[i] = d /\ \A j \in 1 .. i - 1 : s[j] # d
    BY <2>1, FirstOccurs
  <2>3. i \in 1 .. Len(s)
    BY <2>2
  <2>4. i < Len(s) + 1 /\ i \in 1 .. Len(s) + 1 /\ \A j \in 1 .. i - 1 : j \in 1 .. Len(s)
    BY <2>3, <1>l
  <2>5. i \in DOMAIN r /\ r[i] = d /\ \A j \in 1 .. i - 1 : r[j] # r[i]
    BY <2>2, <2>4, <1>1
  <2>6. First(r, d) = i
    BY <2>5, <1>1, FirstIsUnique
  <2> QED BY <2>1, <2>4, <2>6
<1>3. ASSUME e \notin Range(s) PROVE First(r, e) = Len(s) + 1
  <2>1. \A j \in 1 .. Len(s) + 1 - 1 : j \in DOMAIN s
    BY <1>1, <1>l
  <2>2. \A j \in 1 .. Len(s) + 1 - 1 : r[j] # r[Len(s) + 1]
    BY <2>1, <1>1, <1>3 DEF Range
  <2>3. Len(s) + 1 \in DOMAIN r
    BY <1>1, <1>l
  <2> QED BY <2>2, <2>3, <1>1, FirstIsUnique
<1> QED BY <1>0, <1>2, <1>3

-----------------------------------------------------------------------------
(* The history is in the order the reporters sent *)

\* What is there of a batch, or of a reporter without overlapping POSTs, occurred
\* first in the order it was sent.
FirstsInOrder ==
  \A c \in Clients : \A d, e \in ClientEvents(c) \cap Range(history) :
    d.n < e.n /\ (BatchOf(d) = BatchOf(e) \/ ~ post[c].overlapped) => First(history, d) < First(history, e)

\* The history has no event of a batch that is still to come, and of each batch
\* no event without those before it.
HistoryClosed ==
  \A e \in Range(history) : e.by \in Clients =>
    /\ BatchOf(e) < post[e.by].next
    /\ \A d \in Mates(e) : d.n < e.n => d \in Range(history)

\* A POST at work has the rest of a batch; what is done of it is in the history,
\* and no later batch of its sender is, unless POSTs overlapped.
JobInOrder(j) ==
  /\ \A k, m \in DOMAIN j.evs : k < m => j.evs[k].n < j.evs[m].n
  /\ j.pc = "emit" => j.evs[1] \in Range(history)
  /\ Range(j.evs) \subseteq Mates(j.evs[1])
  /\ Mates(j.evs[1]) \subseteq Range(j.evs) \cup Range(history)
  /\ BatchOf(j.evs[1]) < post[j.evs[1].by].next
  /\ ~ post[j.evs[1].by].overlapped =>
       \A d \in Range(history) : d.by = j.evs[1].by => BatchOf(d) <= BatchOf(j.evs[1])

\* The batches of a reporter without overlapping POSTs stand in line in their order.
LineInOrder(p) ==
  \A i, k \in DOMAIN chain[p]["map"] :
    /\ i < k /\ chain[p]["map"][i].kind = "events" /\ chain[p]["map"][k].kind = "events"
    /\ chain[p]["map"][i].evs[1].by = chain[p]["map"][k].evs[1].by
    /\ ~ post[chain[p]["map"][i].evs[1].by].overlapped
    => BatchOf(chain[p]["map"][i].evs[1]) <= BatchOf(chain[p]["map"][k].evs[1])

OrderInv ==
  Live /\ used.faults = 0 =>
    /\ FirstsInOrder /\ HistoryClosed
    /\ \A p \in Tasks : /\ LineInOrder(p)
                        /\ \A j \in Range(chain[p]["map"]) : j.kind = "events" => JobInOrder(j)

\* An event labelled with a reporter is in its script.
LEMMA KnownEvents ==
  ASSUME NEW e \in Events, e.by \in Clients
  PROVE  e \in ClientEvents(e.by)
<1>1. Started.by = NoTask /\ Aborted.by = NoTask
  BY DEF Started, Aborted
<1>2. e # Started /\ e # Aborted
  BY <1>1, ScriptAssumption
<1>3. PICK c \in Clients : e \in ClientEvents(c)
  BY <1>2 DEF Events
<1> QED BY <1>3, SenderOf

\* A POST in line has events of one reporter.
LEMMA PostInLine ==
  ASSUME LifeInv, NEW p \in Tasks, NEW j \in Range(chain[p]["map"]), j.kind = "events"
  PROVE  /\ j \in Job /\ j.evs \in Seq(Events) /\ j.evs # <<>> /\ 1 \in DOMAIN j.evs
         /\ Head(j.evs) = j.evs[1] /\ j.evs[1] \in Range(j.evs)
         /\ j.evs[1].by \in Clients /\ Range(j.evs) \subseteq ClientEvents(j.evs[1].by)
<1>t. TypeOK /\ NoEmptyJob /\ "map" \in Lanes
  BY DEF LifeInv, LiveTypes, Lanes
<1>1. j \in Job
  BY <1>t DEF TypeOK, Range
<1>2. j.evs # <<>>
  BY <1>t DEF NoEmptyJob
<1>3. j.evs \in Seq(Events)
  BY <1>1, JobFields
<1>4. Head(j.evs) = j.evs[1] /\ 1 \in DOMAIN j.evs /\ Head(j.evs) \in Range(j.evs)
  BY <1>1, <1>2, HeadEvent
<1>5. PICK c \in Clients : Range(j.evs) \subseteq ClientEvents(c)
  BY <1>t DEF LifeInv, OneSender
<1>6. j.evs[1].by = c
  BY <1>4, <1>5, SenderOf
<1> QED BY <1>1, <1>2, <1>3, <1>4, <1>5, <1>6

\* An event of the backend changes nothing, nor does a batch that is sent.
LEMMA OrderOfOthers ==
  ASSUME LifeInv, NEW e \in Events, e.by \notin Clients,
         history' = history \/ history' = Append(history, e),
         \A c \in Clients : GoesOn(c)
  PROVE  /\ FirstsInOrder => FirstsInOrder'
         /\ HistoryClosed => HistoryClosed'
         /\ \A j \in Job : /\ 1 \in DOMAIN j.evs /\ j.evs[1].by \in Clients /\ j.evs[1] \in ClientEvents(j.evs[1].by)
                           /\ JobInOrder(j)
                           => JobInOrder(j)'
<1>t. history \in Seq(Events) /\ post \in [Clients -> PostRecord]
  BY DEF LifeInv, LiveTypes, TypeOK
<1>1. Range(history') = Range(history) \/ Range(history') = Range(history) \cup {e}
  BY <1>t, LongerHistory
<1>2. \A d \in Range(history') : d.by \in Clients => d \in Range(history)
  BY <1>1
<1>3. Range(history) \subseteq Range(history') /\ Range(history) \subseteq Events
  BY <1>1, <1>t DEF Range
<1>4. \A c \in Clients : c # e.by /\ e \notin ClientEvents(c)
  BY SenderOf
<1>5. \A d \in Range(history) : First(history', d) = First(history, d)
  <2>1. CASE history' = history
    BY <2>1
  <2>2. CASE history' = Append(history, e)
    <3>1. PICK s \in Seq(Events) : s = history
      BY <1>t
    <3>2. \A d \in Range(s) : First(Append(s, e), d) = First(s, d)
      BY FirstsOfAppend
    <3>3. PICK r : r = history'
      OBVIOUS
    <3>4. r = Append(s, e)
      BY <2>2, <3>1, <3>3
    <3> QED BY <3>1, <3>2, <3>3, <3>4
  <2> QED BY <2>1, <2>2
<1>6. \A c \in Clients : post[c].next \in Nat
  BY <1>t DEF PostRecord
<1>7. \A c \in Clients : /\ post[c].next \in Nat /\ post'[c].next \in Nat /\ post[c].next <= post'[c].next
                         /\ ~ post'[c].overlapped => ~ post[c].overlapped
  BY <1>6 DEF GoesOn
<1>8. FirstsInOrder => FirstsInOrder'
  <2> SUFFICES ASSUME FirstsInOrder, NEW c \in Clients,
                      NEW d \in (ClientEvents(c) \cap Range(history))', NEW f \in (ClientEvents(c) \cap Range(history))',
                      (d.n < f.n /\ (BatchOf(d) = BatchOf(f) \/ ~ post[c].overlapped))'
               PROVE  (First(history, d) < First(history, f))'
    BY DEF FirstsInOrder
  <2>1. d \in ClientEvents(c) /\ f \in ClientEvents(c) /\ d \in Range(history') /\ f \in Range(history')
    BY DEF ClientEvents, Range
  <2>2. d.n < f.n /\ (BatchOf(d) = BatchOf(f) \/ ~ post'[c].overlapped)
    BY DEF BatchOf
  <2>3. d \in Range(history) /\ f \in Range(history)
    BY <1>2, <2>1, SenderOf
  <2>6. BatchOf(d) = BatchOf(f) \/ ~ post[c].overlapped
    BY <2>2, <1>7
  <2>7. d \in ClientEvents(c) \cap Range(history) /\ f \in ClientEvents(c) \cap Range(history) /\ d.n < f.n
    BY <2>1, <2>2, <2>3
  <2>4. First(history, d) < First(history, f)
    BY <2>6, <2>7 DEF FirstsInOrder
  <2>5. First(history', d) < First(history', f)
    BY <2>3, <2>4, <1>5
  <2> QED BY <2>5 DEF First
<1>9. HistoryClosed => HistoryClosed'
  <2> SUFFICES ASSUME HistoryClosed, NEW d \in Range(history'), d.by \in Clients
               PROVE  /\ BatchOf(d) < post'[d.by].next
                      /\ \A f \in Mates(d) : f.n < d.n => f \in Range(history')
    BY DEF HistoryClosed, BatchOf, Mates
  <2>1. d \in Range(history) /\ d \in Events
    BY <1>2, <1>3
  <2>2. BatchOf(d) \in Nat
    BY <2>1, KnownEvents, BatchesInOrder
  <2>3. BatchOf(d) < post[d.by].next /\ \A f \in Mates(d) : f.n < d.n => f \in Range(history)
    BY <2>1 DEF HistoryClosed
  <2>4. post[d.by].next \in Nat /\ post'[d.by].next \in Nat /\ post[d.by].next <= post'[d.by].next
    BY <1>7
  <2>5. BatchOf(d) < post'[d.by].next
    BY <2>2, <2>3, <2>4
  <2> QED BY <2>3, <2>5, <1>3
<1>10. ASSUME NEW j \in Job, 1 \in DOMAIN j.evs, j.evs[1].by \in Clients, j.evs[1] \in ClientEvents(j.evs[1].by),
              JobInOrder(j)
       PROVE  JobInOrder(j)'
  <2>1. BatchOf(j.evs[1]) \in Nat
    BY <1>10, BatchesInOrder
  <2>5. PICK c \in Clients : c = j.evs[1].by
    BY <1>10
  <2>6. post[c].next \in Nat /\ post'[c].next \in Nat /\ post[c].next <= post'[c].next
    BY <1>7
  <2>7. BatchOf(j.evs[1]) < post[c].next
    BY <1>10, <2>5 DEF JobInOrder
  <2>2. BatchOf(j.evs[1]) < post'[j.evs[1].by].next
    <3>1. BatchOf(j.evs[1]) < post'[c].next
      BY <2>1, <2>6, <2>7
    <3> QED BY <3>1, <2>5
  <2>3. ~ post'[j.evs[1].by].overlapped =>
          \A d \in Range(history') : d.by = j.evs[1].by => BatchOf(d) <= BatchOf(j.evs[1])
    <3> SUFFICES ASSUME ~ post'[j.evs[1].by].overlapped, NEW d \in Range(history'), d.by = j.evs[1].by
                 PROVE  BatchOf(d) <= BatchOf(j.evs[1])
      OBVIOUS
    <3>1. ~ post'[c].overlapped
      BY <2>5
    <3>2. ~ post[c].overlapped
      BY <3>1, <1>7
    <3>3. d \in Range(history)
      BY <1>2, <2>5
    <3> QED BY <3>2, <3>3, <2>5, <1>10 DEF JobInOrder
  <2>4. /\ \A k, m \in DOMAIN j.evs : k < m => j.evs[k].n < j.evs[m].n
        /\ j.pc = "emit" => j.evs[1] \in Range(history')
        /\ Range(j.evs) \subseteq Mates(j.evs[1])
        /\ Mates(j.evs[1]) \subseteq Range(j.evs) \cup Range(history')
    BY <1>3, <1>10 DEF JobInOrder
  <2> QED BY <2>2, <2>3, <2>4 DEF JobInOrder, BatchOf, Mates
<1> QED BY <1>8, <1>9, <1>10

\* What holds of the line of one task holds of every line.
LEMMA OnlyTask ==
  ASSUME OneTask, NEW p \in Tasks
  PROVE  LineInOrder(p)' => \A q \in Tasks : LineInOrder(q)'
<1> SUFFICES ASSUME LineInOrder(p)', NEW q \in Tasks PROVE LineInOrder(q)'
  OBVIOUS
<1>1. q = p
  BY DEF OneTask
<1> QED BY <1>1

\* The step of a head that keeps its batch, or is done, keeps the line in order.
LEMMA LineStaysInOrder ==
  ASSUME OneTask, LifeInv, NEW p \in Tasks, chain[p]["map"] # <<>>, LineInOrder(p), post' = post,
         \/ Drops(p, "map")
         \/ \E j \in Job : /\ Puts(p, "map", j) /\ j.kind = chain[p]["map"][1].kind
                           /\ j.kind = "events" => /\ j.evs[1].by = chain[p]["map"][1].evs[1].by
                                                   /\ BatchOf(j.evs[1]) = BatchOf(chain[p]["map"][1].evs[1])
  PROVE  \A q \in Tasks : LineInOrder(q)'
<1>t. TypeOK /\ "map" \in Lanes /\ chain[p]["map"] \in Seq(Job)
  BY DEF LifeInv, LiveTypes, TypeOK, Lanes
<1> SUFFICES LineInOrder(p)'
  BY OnlyTask
<1> SUFFICES ASSUME NEW i \in DOMAIN chain'[p]["map"], NEW k \in DOMAIN chain'[p]["map"],
                    i < k, chain'[p]["map"][i].kind = "events", chain'[p]["map"][k].kind = "events",
                    chain'[p]["map"][i].evs[1].by = chain'[p]["map"][k].evs[1].by,
                    ~ post[chain'[p]["map"][i].evs[1].by].overlapped
             PROVE  BatchOf(chain'[p]["map"][i].evs[1]) <= BatchOf(chain'[p]["map"][k].evs[1])
  BY DEF LineInOrder, BatchOf
<1>1. CASE Drops(p, "map")
  <2>1. /\ i + 1 \in DOMAIN chain[p]["map"] /\ chain'[p]["map"][i] = chain[p]["map"][i + 1]
        /\ k + 1 \in DOMAIN chain[p]["map"] /\ chain'[p]["map"][k] = chain[p]["map"][k + 1]
    BY <1>1, <1>t, DropsEffect
  <2>2. chain'[p]["map"] \in Seq(Job)
    BY <1>1, <1>t, DropsEffect
  <2>3. i \in Nat /\ k \in Nat
    BY <2>2
  <2>4. i + 1 < k + 1
    BY <2>3
  <2> QED BY <2>1, <2>4 DEF LineInOrder
<1>2. ASSUME NEW j \in Job, Puts(p, "map", j), j.kind = chain[p]["map"][1].kind,
             j.kind = "events" => /\ j.evs[1].by = chain[p]["map"][1].evs[1].by
                                  /\ BatchOf(j.evs[1]) = BatchOf(chain[p]["map"][1].evs[1])
      PROVE  BatchOf(chain'[p]["map"][i].evs[1]) <= BatchOf(chain'[p]["map"][k].evs[1])
  <2>1. /\ DOMAIN chain'[p]["map"] = DOMAIN chain[p]["map"] /\ chain'[p]["map"][1] = j
        /\ \A m \in DOMAIN chain[p]["map"] : m # 1 => chain'[p]["map"][m] = chain[p]["map"][m]
    BY <1>2, <1>t, PutsEffect
  <2>2. \A m \in DOMAIN chain[p]["map"] :
          /\ chain'[p]["map"][m].kind = chain[p]["map"][m].kind
          /\ chain'[p]["map"][m].kind = "events" =>
               /\ chain'[p]["map"][m].evs[1].by = chain[p]["map"][m].evs[1].by
               /\ BatchOf(chain'[p]["map"][m].evs[1]) = BatchOf(chain[p]["map"][m].evs[1])
    <3> SUFFICES ASSUME NEW m \in DOMAIN chain[p]["map"]
                 PROVE  /\ chain'[p]["map"][m].kind = chain[p]["map"][m].kind
                        /\ chain'[p]["map"][m].kind = "events" =>
                             /\ chain'[p]["map"][m].evs[1].by = chain[p]["map"][m].evs[1].by
                             /\ BatchOf(chain'[p]["map"][m].evs[1]) = BatchOf(chain[p]["map"][m].evs[1])
      OBVIOUS
    <3>1. CASE m = 1
      BY <3>1, <2>1, <1>2
    <3>2. CASE m # 1
      BY <3>2, <2>1
    <3> QED BY <3>1, <3>2
  <2> QED BY <2>1, <2>2 DEF LineInOrder
<1> QED BY <1>1, <1>2

\* A batch enqueued stands behind the earlier ones of its reporter.
LEMMA LineGrowsInOrder ==
  ASSUME OneTask, LifeInv, \A p \in Tasks : LineInOrder(p),
         \A p \in Tasks : \A j \in Range(chain[p]["map"]) : j.kind = "events" => JobInOrder(j),
         \/ NoNews
         \/ \E p \in Tasks, by \in {"request", "sweep", "reconcile"} : NewAbort(p, by)
         \/ \E c \in Clients, p \in Tasks, b \in Nat : NewBatch(c, p, b),
         \A c \in Clients : GoesOn(c)
  PROVE  \A p \in Tasks : LineInOrder(p)'
<1>t. TypeOK /\ "map" \in Lanes
  BY DEF LifeInv, LiveTypes, Lanes
<1>o. \A p \in Tasks : \A i \in DOMAIN chain[p]["map"] :
        /\ chain[p]["map"][i].kind = "events" => chain[p]["map"][i].evs[1].by \in Clients
        /\ chain[p]["map"][i].kind = "events" /\ ~ post'[chain[p]["map"][i].evs[1].by].overlapped
           => ~ post[chain[p]["map"][i].evs[1].by].overlapped
  <2> SUFFICES ASSUME NEW p \in Tasks, NEW i \in DOMAIN chain[p]["map"], chain[p]["map"][i].kind = "events"
               PROVE  /\ chain[p]["map"][i].evs[1].by \in Clients
                      /\ ~ post'[chain[p]["map"][i].evs[1].by].overlapped
                         => ~ post[chain[p]["map"][i].evs[1].by].overlapped
    OBVIOUS
  <2>1. chain[p]["map"][i] \in Range(chain[p]["map"])
    BY DEF Range
  <2>2. chain[p]["map"][i].evs[1].by \in Clients
    BY <2>1, PostInLine
  <2> QED BY <2>2 DEF GoesOn
<1>1. CASE NoNews
  <2> SUFFICES ASSUME NEW p \in Tasks PROVE LineInOrder(p)'
    OBVIOUS
  <2>1. DOMAIN <<>> = {}
    OBVIOUS
  <2>2. CASE chain'[p]["map"] = <<>>
    BY <2>1, <2>2 DEF LineInOrder
  <2>3. CASE chain'[p]["map"] = chain[p]["map"]
    <3> SUFFICES ASSUME NEW i \in DOMAIN chain'[p]["map"], NEW k \in DOMAIN chain'[p]["map"],
                        i < k, chain'[p]["map"][i].kind = "events", chain'[p]["map"][k].kind = "events",
                        chain'[p]["map"][i].evs[1].by = chain'[p]["map"][k].evs[1].by,
                        ~ post'[chain'[p]["map"][i].evs[1].by].overlapped
                 PROVE  BatchOf(chain'[p]["map"][i].evs[1]) <= BatchOf(chain'[p]["map"][k].evs[1])
      BY DEF LineInOrder, BatchOf
    <3>1. /\ i \in DOMAIN chain[p]["map"] /\ k \in DOMAIN chain[p]["map"]
          /\ chain'[p]["map"][i] = chain[p]["map"][i] /\ chain'[p]["map"][k] = chain[p]["map"][k]
      BY <2>3
    <3>2. ~ post[chain[p]["map"][i].evs[1].by].overlapped
      BY <3>1, <1>o
    <3> QED BY <3>1, <3>2 DEF LineInOrder
  <2> QED BY <2>2, <2>3, <1>1 DEF NoNews
<1>2. ASSUME NEW p \in Tasks, NEW j \in Job, chain' = Enqueue(p, j),
             j.kind = "events" =>
               \A g \in Range(chain[p]["map"]) :
                 g.kind = "events" /\ g.evs[1].by = j.evs[1].by /\ ~ post[g.evs[1].by].overlapped
                 => BatchOf(g.evs[1]) <= BatchOf(j.evs[1])
      PROVE  \A q \in Tasks : LineInOrder(q)'
  <2>4. /\ DOMAIN chain'[p]["map"] = 1 .. Len(chain[p]["map"]) + 1
        /\ DOMAIN chain[p]["map"] = 1 .. Len(chain[p]["map"])
        /\ chain'[p]["map"][Len(chain[p]["map"]) + 1] = j
        /\ \A i \in DOMAIN chain[p]["map"] : chain'[p]["map"][i] = chain[p]["map"][i]
    BY <1>2, <1>t, EnqueueEffect
  <2>5. chain[p]["map"] \in Seq(Job)
    BY <1>t DEF TypeOK
  <2>6. PICK n \in Nat : n = Len(chain[p]["map"])
    BY <2>5
  <2> SUFFICES LineInOrder(p)'
    BY OnlyTask
  <2> SUFFICES ASSUME NEW i \in 1 .. n + 1, NEW k \in 1 .. n + 1,
                      i < k, chain'[p]["map"][i].kind = "events", chain'[p]["map"][k].kind = "events",
                      chain'[p]["map"][i].evs[1].by = chain'[p]["map"][k].evs[1].by,
                      ~ post'[chain'[p]["map"][i].evs[1].by].overlapped
               PROVE  BatchOf(chain'[p]["map"][i].evs[1]) <= BatchOf(chain'[p]["map"][k].evs[1])
    BY <2>4, <2>6 DEF LineInOrder, BatchOf
  <2>7. /\ i \in DOMAIN chain[p]["map"] /\ chain'[p]["map"][i] = chain[p]["map"][i]
        /\ ~ post[chain[p]["map"][i].evs[1].by].overlapped
    <3>1. i \in DOMAIN chain[p]["map"] /\ chain'[p]["map"][i] = chain[p]["map"][i]
      BY <2>4, <2>6
    <3> QED BY <3>1, <1>o
  <2>8. CASE k \in 1 .. n
    BY <2>7, <2>8, <2>4, <2>6 DEF LineInOrder
  <2>9. CASE k = n + 1
    <3>1. chain'[p]["map"][k] = j
      BY <2>4, <2>6, <2>9
    <3>2. chain[p]["map"][i] \in Range(chain[p]["map"])
      BY <2>7 DEF Range
    <3> QED BY <3>1, <3>2, <2>7, <1>2
  <2> QED BY <2>8, <2>9
<1>3. ASSUME NEW p \in Tasks, NEW by \in {"request", "sweep", "reconcile"}, NewAbort(p, by)
      PROVE  \A q \in Tasks : LineInOrder(q)'
  <2>1. AbortJob(by) \in Job /\ AbortJob(by).kind # "events"
    BY NewJobs DEF AbortJob
  <2> QED BY <2>1, <1>2, <1>3 DEF NewAbort
<1>4. ASSUME NEW c \in Clients, NEW p \in Tasks, NEW b \in Nat, NewBatch(c, p, b)
      PROVE  \A q \in Tasks : LineInOrder(q)'
  <2>1. b \in DOMAIN Script[c] /\ post[c].next \in Nat
    BY <1>4, <1>t DEF TypeOK, PostRecord, NewBatch, InHand
  <2>2. PICK j : j = EventsJob(Script[c][b])
    OBVIOUS
  <2>3. j \in Job /\ chain' = Enqueue(p, j) /\ j.evs = Script[c][b]
    BY <2>1, <2>2, <1>4, NewJobs DEF NewBatch, EventsJob
  <2>4. BatchOf(j.evs[1]) = b /\ j.evs[1].by = c
    BY <2>1, <2>3, WholeBatch
  <2>5. ASSUME NEW g \in Range(chain[p]["map"]), g.kind = "events", g.evs[1].by = j.evs[1].by,
               ~ post[g.evs[1].by].overlapped
        PROVE  BatchOf(g.evs[1]) <= BatchOf(j.evs[1])
    <3>1. BatchOf(g.evs[1]) < post[c].next
      BY <2>4, <2>5 DEF JobInOrder
    <3>2. b + 1 = post[c].next
      BY <1>4, <2>4, <2>5 DEF NewBatch, InHand
    <3>3. BatchOf(g.evs[1]) \in Nat
      <4>1. g.evs[1].by \in Clients /\ g.evs[1] \in ClientEvents(g.evs[1].by)
        BY <2>5, PostInLine
      <4> QED BY <4>1, BatchesInOrder
    <3> QED BY <3>1, <3>2, <3>3, <2>4
  <2> QED BY <2>3, <2>5, <1>2
<1> QED BY <1>1, <1>3, <1>4

\* A batch whose step leaves its events, or does the first, is in order as long as
\* nothing later than it has come into the history.
LEMMA JobStaysInOrder ==
  ASSUME NEW j, JobInOrder(j), post' = post,
         NEW k, k.evs = j.evs, k.pc = "emit" => k.evs[1] \in Range(history'),
         Range(history) \subseteq Range(history'),
         ~ post[j.evs[1].by].overlapped =>
           \A d \in Range(history') : d \in Range(history) \/ (d.by = j.evs[1].by => BatchOf(d) <= BatchOf(j.evs[1]))
  PROVE  JobInOrder(k)'
<1>1. /\ \A i, m \in DOMAIN k.evs : i < m => k.evs[i].n < k.evs[m].n
      /\ Range(k.evs) \subseteq Mates(k.evs[1])
      /\ Mates(k.evs[1]) \subseteq Range(k.evs) \cup Range(history')
      /\ BatchOf(k.evs[1]) < post'[k.evs[1].by].next
  BY DEF JobInOrder
<1>2. ~ post'[k.evs[1].by].overlapped =>
        \A d \in Range(history') : d.by = k.evs[1].by => BatchOf(d) <= BatchOf(k.evs[1])
  BY DEF JobInOrder
<1> QED BY <1>1, <1>2 DEF JobInOrder, BatchOf, Mates

\* The rest of a batch is in order once its first event is done.
LEMMA RestInOrder ==
  ASSUME LifeInv, NEW p \in Tasks, NEW j \in Range(chain[p]["map"]), j.kind = "events", Len(j.evs) # 1,
         JobInOrder(j), j.pc = "emit", UNCHANGED <<history, post>>, NEW r, r = RestOf(j)
  PROVE  /\ JobInOrder(r)' /\ r \in Job /\ r.kind = "events"
         /\ r.evs[1].by = j.evs[1].by /\ BatchOf(r.evs[1]) = BatchOf(j.evs[1])
<1>1. /\ j \in Job /\ j.evs \in Seq(Events) /\ j.evs # <<>> /\ 1 \in DOMAIN j.evs
      /\ j.evs[1] \in Range(j.evs)
      /\ j.evs[1].by \in Clients /\ Range(j.evs) \subseteq ClientEvents(j.evs[1].by)
  BY PostInLine
<1>2. /\ r \in Job /\ r.kind = "events" /\ r.pc = "write" /\ r.evs # <<>> /\ r.evs \in Seq(Events)
      /\ \A k \in DOMAIN r.evs : k + 1 \in DOMAIN j.evs /\ r.evs[k] = j.evs[k + 1]
      /\ \A k \in DOMAIN j.evs : k = 1 \/ (k - 1 \in DOMAIN r.evs /\ r.evs[k - 1] = j.evs[k])
  BY <1>1, RestOfJob
<1>3. 1 \in DOMAIN r.evs /\ r.evs[1] \in Range(j.evs)
  <2>1. 1 \in DOMAIN r.evs
    BY <1>2
  <2> QED BY <2>1, <1>2 DEF Range
<1>4. /\ j.evs[1] \in ClientEvents(j.evs[1].by) /\ r.evs[1] \in ClientEvents(j.evs[1].by)
      /\ r.evs[1] \in Mates(j.evs[1])
  BY <1>1, <1>3 DEF JobInOrder
<1>5. r.evs[1].by = j.evs[1].by
  BY <1>1, <1>4, SenderOf
<1>6. BatchOf(r.evs[1]) = BatchOf(j.evs[1]) /\ Mates(r.evs[1]) = Mates(j.evs[1])
  BY <1>1, <1>4, BatchesInOrder
<1>7. \A k, m \in DOMAIN r.evs : k < m => r.evs[k].n < r.evs[m].n
  <2> SUFFICES ASSUME NEW k \in DOMAIN r.evs, NEW m \in DOMAIN r.evs, k < m
               PROVE  r.evs[k].n < r.evs[m].n
    OBVIOUS
  <2>1. k \in Nat /\ m \in Nat
    BY <1>2
  <2>2. k + 1 < m + 1
    BY <2>1
  <2> QED BY <2>2, <1>2 DEF JobInOrder
<1>8. Range(r.evs) \subseteq Range(j.evs)
  BY <1>2 DEF Range
<1>9. Range(j.evs) \subseteq Range(r.evs) \cup {j.evs[1]}
  BY <1>2 DEF Range
<1>10. /\ Range(r.evs) \subseteq Mates(r.evs[1])
       /\ Mates(r.evs[1]) \subseteq Range(r.evs) \cup Range(history)
       /\ BatchOf(r.evs[1]) < post[r.evs[1].by].next
       /\ ~ post[r.evs[1].by].overlapped =>
            \A d \in Range(history) : d.by = r.evs[1].by => BatchOf(d) <= BatchOf(r.evs[1])
  BY <1>5, <1>6, <1>8, <1>9 DEF JobInOrder
<1>11. JobInOrder(r)'
  BY <1>2, <1>7, <1>10 DEF JobInOrder, BatchOf, Mates
<1> QED BY <1>2, <1>5, <1>6, <1>11

\* The event a POST writes occurs behind the earlier ones of its reporter.
LEMMA EventRecorded ==
  ASSUME OneTask, LifeInv, NEW p \in Tasks, chain[p]["map"] # <<>>, NEW h, h = chain[p]["map"][1],
         h \in Range(chain[p]["map"]), h.kind = "events",
         FirstsInOrder, HistoryClosed, LineInOrder(p),
         \A j \in Range(chain[p]["map"]) : j.kind = "events" => JobInOrder(j),
         Goes(p, h, "emit"), post' = post, history' = Append(history, Head(h.evs))
  PROVE  /\ FirstsInOrder' /\ HistoryClosed'
         /\ \A j \in Range(chain'[p]["map"]) : j.kind = "events" => JobInOrder(j)'
<1>t. TypeOK /\ "map" \in Lanes /\ history \in Seq(Events)
  BY DEF LifeInv, LiveTypes, TypeOK, Lanes
<1>1. /\ h \in Job /\ h.evs # <<>> /\ 1 \in DOMAIN h.evs /\ Head(h.evs) = h.evs[1]
      /\ h.evs[1] \in Range(h.evs) /\ h.evs \in Seq(Events)
      /\ h.evs[1].by \in Clients /\ Range(h.evs) \subseteq ClientEvents(h.evs[1].by)
  BY PostInLine
<1>2. PICK e : e = h.evs[1]
  OBVIOUS
<1>3. e \in Events /\ e \in ClientEvents(e.by) /\ e.by \in Clients
  <2>1. e \in Events
    BY <1>1, <1>2
  <2> QED BY <2>1, <1>1, <1>2
<1>4. JobInOrder(h)
  OBVIOUS
<1>5. PICK s \in Seq(Events) : s = history
  BY <1>t
<1>6. PICK r : r = Append(s, e)
  OBVIOUS
<1>7. r = history' /\ Range(r) = Range(s) \cup {e}
  BY <1>1, <1>2, <1>5, <1>6, LongerHistory
<1>8. /\ \A d \in Range(s) : First(r, d) = First(s, d) /\ First(s, d) < Len(s) + 1
      /\ e \notin Range(s) => First(r, e) = Len(s) + 1
  BY <1>3, <1>6, FirstsOfAppend
<1>9. FirstsInOrder'
  <2> SUFFICES ASSUME NEW c \in Clients,
                      NEW d \in (ClientEvents(c) \cap Range(history))', NEW f \in (ClientEvents(c) \cap Range(history))',
                      (d.n < f.n /\ (BatchOf(d) = BatchOf(f) \/ ~ post[c].overlapped))'
               PROVE  (First(history, d) < First(history, f))'
    BY DEF FirstsInOrder
  <2>a. d \in ClientEvents(c) /\ f \in ClientEvents(c) /\ d \in Range(history') /\ f \in Range(history')
    BY DEF ClientEvents, Range
  <2>b. d.n < f.n /\ (BatchOf(d) = BatchOf(f) \/ ~ post[c].overlapped)
    BY DEF BatchOf
  <2> SUFFICES First(history', d) < First(history', f)
    BY DEF First
  <2> SUFFICES First(r, d) < First(r, f)
    BY <1>7
  <2> USE <2>a, <2>b
  <2>1. CASE d \in Range(s) /\ f \in Range(s)
    <3>1. First(s, d) < First(s, f)
      BY <2>1, <1>5 DEF FirstsInOrder
    <3> QED BY <2>1, <3>1, <1>8
  <2>2. CASE d \in Range(s) /\ f = e /\ e \notin Range(s)
    BY <2>2, <1>8
  <2>3. CASE d = e /\ e \notin Range(s) /\ f \in Range(s)
    <3>1. c = e.by /\ f.by = e.by
      BY <2>3, SenderOf
    <3>2. ~ post[c].overlapped => BatchOf(f) <= BatchOf(e)
      BY <3>1, <2>3, <1>2, <1>4, <1>5 DEF JobInOrder
    <3>3. BatchOf(e) <= BatchOf(f) /\ BatchOf(e) \in Nat /\ BatchOf(f) \in Nat
      BY <3>1, <2>3, BatchesInOrder
    <3>4. BatchOf(e) = BatchOf(f)
      BY <3>2, <3>3, <2>3
    <3>5. e \in Mates(f)
      BY <3>1, <3>4, <2>3, BatchesInOrder
    <3>6. e \in Range(s)
      BY <3>1, <3>5, <2>3, <1>3, <1>5 DEF HistoryClosed
    <3> QED BY <3>6, <2>3
  <2>4. CASE d = e /\ f = e
    <3>1. e.n \in Nat
      BY <1>3, SenderOf
    <3> QED BY <3>1, <2>4
  <2> QED BY <2>1, <2>2, <2>3, <2>4, <1>7
<1>10. HistoryClosed'
  <2> SUFFICES ASSUME NEW f \in Range(r), f.by \in Clients
               PROVE  /\ BatchOf(f) < post[f.by].next
                      /\ \A d \in Mates(f) : d.n < f.n => d \in Range(r)
    BY <1>7 DEF HistoryClosed, BatchOf, Mates
  <2>1. CASE f \in Range(s)
    BY <2>1, <1>5, <1>7 DEF HistoryClosed
  <2>2. CASE f = e
    <3>1. BatchOf(e) < post[e.by].next
      BY <1>2, <1>4 DEF JobInOrder
    <3>2. ASSUME NEW d \in Mates(e), d.n < e.n PROVE d \in Range(r)
      <4>1. d \in Range(h.evs) \/ d \in Range(s)
        BY <3>2, <1>2, <1>4, <1>5 DEF JobInOrder
      <4>2. ASSUME d \in Range(h.evs) PROVE FALSE
        <5>1. PICK k \in DOMAIN h.evs : d = h.evs[k]
          BY <4>2 DEF Range
        <5>2. k \in Nat /\ k >= 1
          BY <1>1
        <5>3. k = 1 \/ e.n < d.n
          <6>1. \A i, m \in DOMAIN h.evs : i < m => h.evs[i].n < h.evs[m].n
            BY <1>4 DEF JobInOrder
          <6>2. k = 1 \/ 1 < k
            BY <5>2
          <6> QED BY <6>1, <6>2, <5>1, <1>1, <1>2
        <5>4. d.n \in Nat /\ e.n \in Nat
          BY <4>2, <1>1, <1>3, SenderOf
        <5> QED BY <5>1, <5>3, <5>4, <3>2, <1>2
      <4> QED BY <4>1, <4>2, <1>7
    <3> QED BY <3>1, <3>2, <2>2
  <2> QED BY <2>1, <2>2, <1>7
<1>11. \A j \in Range(chain'[p]["map"]) : j.kind = "events" => JobInOrder(j)'
  <2>1. PICK g : g = [h EXCEPT !.pc = "emit"]
    OBVIOUS
  <2>2. g \in Job /\ g.evs = h.evs /\ g.kind = "events" /\ Puts(p, "map", g)
    BY <2>1, <1>1, JobFields DEF Goes
  <2>3. /\ DOMAIN chain'[p]["map"] = DOMAIN chain[p]["map"] /\ chain'[p]["map"][1] = g
        /\ \A m \in DOMAIN chain[p]["map"] : m # 1 => chain'[p]["map"][m] = chain[p]["map"][m]
    BY <2>2, <1>t, PutsEffect
  <2>4. Range(history) \subseteq Range(history') /\ \A d \in Range(history') : d \in Range(history) \/ d = e
    BY <1>5, <1>7
  <2>5. JobInOrder(g)'
    <3>1. e \in Range(history')
      BY <1>7
    <3>2. BatchOf(e) <= BatchOf(e)
      BY <1>3, BatchesInOrder
    <3> QED BY <3>1, <3>2, <2>2, <2>4, <1>2, <1>4, JobStaysInOrder
  <2>6. ASSUME NEW m \in DOMAIN chain[p]["map"], m # 1, NEW j, j = chain[p]["map"][m], j.kind = "events"
        PROVE  JobInOrder(j)'
    <3>1. j \in Range(chain[p]["map"]) /\ JobInOrder(j)
      BY <2>6 DEF Range
    <3>2. chain[p]["map"] \in Seq(Job)
      BY <1>t DEF TypeOK
    <3>3. 1 \in DOMAIN chain[p]["map"] /\ 1 < m
      BY <3>2, <2>6
    <3>4. ~ post[j.evs[1].by].overlapped => (e.by = j.evs[1].by => BatchOf(e) <= BatchOf(j.evs[1]))
      BY <3>3, <2>6, <1>2 DEF LineInOrder
    <3>5. j.pc = "emit" => j.evs[1] \in Range(history')
      BY <3>1, <2>4 DEF JobInOrder
    <3> QED BY <3>1, <3>4, <3>5, <2>4, JobStaysInOrder
  <2> QED BY <2>3, <2>5, <2>6 DEF Range
<1> QED BY <1>9, <1>10, <1>11

\* The history is in order as long as nothing of it changes.
LEMMA OrderOfNothing ==
  ASSUME UNCHANGED <<history, post>>
  PROVE  /\ FirstsInOrder => FirstsInOrder'
         /\ HistoryClosed => HistoryClosed'
         /\ \A j : JobInOrder(j) => JobInOrder(j)'
<1>1. ASSUME FirstsInOrder PROVE FirstsInOrder'
  <2> SUFFICES ASSUME NEW c \in Clients,
                      NEW d \in ClientEvents(c) \cap Range(history'), NEW f \in ClientEvents(c) \cap Range(history'),
                      d.n < f.n, BatchOf(d) = BatchOf(f) \/ ~ post'[c].overlapped
               PROVE  First(history', d) < First(history', f)
    BY DEF FirstsInOrder, First, BatchOf
  <2> QED BY <1>1 DEF FirstsInOrder
<1>2. HistoryClosed => HistoryClosed'
  BY DEF HistoryClosed, BatchOf, Mates
<1>3. ASSUME NEW j, JobInOrder(j) PROVE JobInOrder(j)'
  BY <1>3 DEF JobInOrder, BatchOf, Mates
<1> QED BY <1>1, <1>2, <1>3

\* The chain's step keeps the order of the history.
LEMMA OrderOfWork ==
  ASSUME OneTask, LifeInv, OrderInv, Live, used'.faults = 0,
         NEW p \in Tasks, NEW l \in Lanes, NEW i \in DOMAIN chain[p][l], Working(p, l, i)
  PROVE  /\ FirstsInOrder' /\ HistoryClosed'
         /\ \A q \in Tasks : LineInOrder(q)'
         /\ \A j \in Range(chain'[p]["map"]) : j.kind = "events" => JobInOrder(j)'
<1>t. TypeOK /\ "map" \in Lanes /\ history \in Seq(Events) /\ used \in UsedRecord
  BY DEF LifeInv, LiveTypes, TypeOK, Lanes
<1>n. ~ Failing
  <2>1. used.faults \in Nat
    BY <1>t, BoundAssumption DEF UsedRecord
  <2>2. Failing => used'.faults = used.faults + 1
    BY <1>t DEF Failing, UsedRecord
  <2> QED BY <2>1, <2>2
<1>1. PICK h : h = chain[p]["map"][1]
  OBVIOUS
<1>2. /\ h \in Job /\ chain[p]["map"] # <<>> /\ h \in Range(chain[p]["map"]) /\ h.evs # <<>>
      /\ post' = post
  BY <1>1, HeadSteps
<1>3. /\ used' = used
      /\ \/ UNCHANGED history /\ Drops(p, "map")
         \/ UNCHANGED history /\ h.kind = "events" /\ Goes(p, h, "insert")
         \/ UNCHANGED history /\ h.kind = "events" /\ Goes(p, h, "persist")
         \/ h.pc = "persist" /\ Goes(p, h, "emit") /\ history' = Append(history, Head(h.evs))
         \/ UNCHANGED history /\ h.pc = "emit" /\ h.kind = "events" /\ Len(h.evs) # 1 /\ Puts(p, "map", RestOf(h))
         \/ UNCHANGED history /\ h.kind = "abort" /\ Goes(p, h, "transition")
         \/ UNCHANGED history /\ h.kind = "abort" /\ Goes(p, h, "persist")
  BY <1>n, <1>1, HeadSteps
<1>4. /\ FirstsInOrder /\ HistoryClosed /\ LineInOrder(p)
      /\ \A j \in Range(chain[p]["map"]) : j.kind = "events" => JobInOrder(j)
  BY <1>3 DEF OrderInv
<1>5. h.kind \in {"events", "abort"}
  BY <1>2, JobFields
<1>6. \A pc : /\ [h EXCEPT !.pc = pc].kind = h.kind /\ [h EXCEPT !.pc = pc].evs = h.evs
              /\ [h EXCEPT !.pc = pc].pc = pc
  BY <1>2, JobFields
<1>7. /\ \A pc \in {"insert", "persist", "emit"} : h.kind = "events" => [h EXCEPT !.pc = pc] \in Job
      /\ \A pc \in {"transition", "persist", "emit"} : h.kind = "abort" => [h EXCEPT !.pc = pc] \in Job
  BY <1>2, JobFields
\* The history stays as it is.
<1>8. UNCHANGED history => FirstsInOrder' /\ HistoryClosed'
  BY <1>2, <1>4, OrderOfNothing
<1>9. ASSUME UNCHANGED history, NEW j, JobInOrder(j) PROVE JobInOrder(j)'
  BY <1>2, <1>9, OrderOfNothing
<1>10. CASE UNCHANGED history /\ Drops(p, "map")
  <2>1. \A q \in Tasks, m \in Lanes : Range(chain'[q][m]) \subseteq Range(chain[q][m])
    BY <1>2, <1>10, <1>t, DropsEffect
  <2>2. \A q \in Tasks : LineInOrder(q)'
    BY <1>2, <1>4, <1>10, LineStaysInOrder
  <2>3. \A j \in Range(chain'[p]["map"]) : j.kind = "events" => JobInOrder(j)'
    BY <2>1, <1>4, <1>9, <1>10, <1>t
  <2> QED BY <2>2, <2>3, <1>8, <1>10
\* A job that goes on with the same batch, or is an abort.
<1>11. ASSUME NEW j \in Job, Puts(p, "map", j), j.kind = h.kind,
              j.kind = "events" => /\ JobInOrder(j)' /\ j.evs[1].by = h.evs[1].by
                                   /\ BatchOf(j.evs[1]) = BatchOf(h.evs[1]),
              \A k \in Range(chain[p]["map"]) : k.kind = "events" => JobInOrder(k)'
       PROVE  /\ \A q \in Tasks : LineInOrder(q)'
              /\ \A k \in Range(chain'[p]["map"]) : k.kind = "events" => JobInOrder(k)'
  <2>1. \A q \in Tasks, m \in Lanes : Range(chain'[q][m]) \subseteq Range(chain[q][m]) \cup {j}
    BY <1>2, <1>11, <1>t, PutsEffect
  <2>2. \A q \in Tasks : LineInOrder(q)'
    BY <1>1, <1>2, <1>4, <1>11, LineStaysInOrder
  <2>3. \A k \in Range(chain'[p]["map"]) : k.kind = "events" => JobInOrder(k)'
    BY <2>1, <1>11, <1>t
  <2> QED BY <2>2, <2>3
<1>12. CASE UNCHANGED history /\ \E pc \in {"insert", "persist", "transition"} :
               Goes(p, h, pc) /\ [h EXCEPT !.pc = pc] \in Job
  <2>1. PICK pc \in {"insert", "persist", "transition"} : Goes(p, h, pc) /\ [h EXCEPT !.pc = pc] \in Job
    BY <1>12
  <2>2. PICK j \in Job : j = [h EXCEPT !.pc = pc]
    BY <2>1
  <2>3. j.kind = h.kind /\ j.evs = h.evs /\ j.pc # "emit" /\ Puts(p, "map", j)
    BY <2>1, <2>2, <1>6 DEF Goes
  <2>4. \A k \in Range(chain[p]["map"]) : k.kind = "events" => JobInOrder(k)'
    BY <1>4, <1>9, <1>12
  <2>5. ASSUME j.kind = "events" PROVE JobInOrder(j)'
    <3>1. JobInOrder(h)
      BY <2>3, <2>5, <1>2, <1>4
    <3>2. JobInOrder(j)
      BY <2>3, <3>1 DEF JobInOrder
    <3> QED BY <3>2, <1>9, <1>12
  <2>6. j.kind = "events" => BatchOf(j.evs[1]) = BatchOf(h.evs[1]) /\ j.evs[1].by = h.evs[1].by
    BY <2>3
  <2> QED BY <2>3, <2>4, <2>5, <2>6, <1>8, <1>11, <1>12
<1>13. CASE UNCHANGED history /\ h.pc = "emit" /\ h.kind = "events" /\ Len(h.evs) # 1 /\ Puts(p, "map", RestOf(h))
  <2>1. PICK j : j = RestOf(h)
    OBVIOUS
  <2>2. /\ JobInOrder(j)' /\ j \in Job /\ j.kind = "events"
        /\ j.evs[1].by = h.evs[1].by /\ BatchOf(j.evs[1]) = BatchOf(h.evs[1])
    BY <2>1, <1>2, <1>4, <1>13, RestInOrder
  <2>3. \A k \in Range(chain[p]["map"]) : k.kind = "events" => JobInOrder(k)'
    BY <1>4, <1>9, <1>13
  <2> QED BY <2>1, <2>2, <2>3, <1>8, <1>11, <1>13
<1>14. CASE h.kind = "events" /\ Goes(p, h, "emit") /\ history' = Append(history, Head(h.evs))
  <2>1. /\ FirstsInOrder' /\ HistoryClosed'
        /\ \A j \in Range(chain'[p]["map"]) : j.kind = "events" => JobInOrder(j)'
    BY <1>1, <1>2, <1>4, <1>14, EventRecorded
  <2>2. PICK j \in Job : j = [h EXCEPT !.pc = "emit"]
    BY <1>7, <1>14
  <2>3. j.kind = h.kind /\ j.evs = h.evs /\ Puts(p, "map", j)
    BY <2>2, <1>6, <1>14 DEF Goes
  <2>4. \A q \in Tasks : LineInOrder(q)'
    BY <2>3, <1>1, <1>2, <1>4, LineStaysInOrder
  <2> QED BY <2>1, <2>4
<1>15. CASE h.kind = "abort" /\ Goes(p, h, "emit") /\ history' = Append(history, Head(h.evs))
  <2>1. Head(h.evs) = Aborted /\ Aborted \in Events /\ Aborted.by \notin Clients
    BY <1>2, <1>15, HeadEvent, OwnEvents, ScriptAssumption DEF Aborted
  <2>2. \A c \in Clients : GoesOn(c)
    BY <1>2 DEF GoesOn
  <2>3. FirstsInOrder' /\ HistoryClosed'
    BY <2>1, <2>2, <1>4, <1>15, OrderOfOthers
  <2>4. \A k \in Range(chain[p]["map"]) : k.kind = "events" => JobInOrder(k)'
    <3> SUFFICES ASSUME NEW k \in Range(chain[p]["map"]), k.kind = "events" PROVE JobInOrder(k)'
      OBVIOUS
    <3>1. k \in Job /\ 1 \in DOMAIN k.evs /\ k.evs[1].by \in Clients /\ k.evs[1] \in ClientEvents(k.evs[1].by)
      BY PostInLine
    <3>2. JobInOrder(k)
      BY <1>4
    <3> QED BY <3>1, <3>2, <2>1, <2>2, <1>15, OrderOfOthers
  <2>5. PICK j \in Job : j = [h EXCEPT !.pc = "emit"]
    BY <1>7, <1>15
  <2>6. j.kind = "abort" /\ Puts(p, "map", j)
    BY <2>5, <1>6, <1>15 DEF Goes
  <2> QED BY <2>3, <2>4, <2>6, <1>11, <1>15
<1> QED BY <1>3, <1>5, <1>7, <1>10, <1>12, <1>13, <1>14, <1>15

\* A step of anything else keeps it too.
LEMMA OrderOfRest ==
  ASSUME OneTask, LifeInv, OrderInv, Next, Live, Live', used'.faults = 0,
         ~ \E p \in Tasks, l \in Lanes : \E i \in DOMAIN chain[p][l] : Working(p, l, i)
  PROVE  /\ FirstsInOrder' /\ HistoryClosed'
         /\ \A q \in Tasks : LineInOrder(q)' /\ \A j \in Range(chain'[q]["map"]) : j.kind = "events" => JobInOrder(j)'
<1>t. TypeOK /\ "map" \in Lanes /\ history \in Seq(Events) /\ post \in [Clients -> PostRecord]
  BY DEF LifeInv, LiveTypes, TypeOK, Lanes
<1>1. /\ history' = history \/ history' = Append(history, Started)
      /\ used.faults = 0
      /\ \A c \in Clients : GoesOn(c)
      /\ \/ NoNews
         \/ \E p \in Tasks, by \in {"request", "sweep", "reconcile"} : NewAbort(p, by)
         \/ \E c \in Clients, p \in Tasks, b \in Nat : NewBatch(c, p, b)
  BY OtherSteps
<1>2. /\ FirstsInOrder /\ HistoryClosed
      /\ \A p \in Tasks : LineInOrder(p)
      /\ \A p \in Tasks : \A j \in Range(chain[p]["map"]) : j.kind = "events" => JobInOrder(j)
  BY <1>1 DEF OrderInv
<1>3. Started \in Events /\ Started.by \notin Clients
  BY OwnEvents, ScriptAssumption DEF Started
<1>4. FirstsInOrder' /\ HistoryClosed'
  BY <1>1, <1>2, <1>3, OrderOfOthers
<1>5. \A p \in Tasks : LineInOrder(p)'
  BY <1>1, <1>2, LineGrowsInOrder
<1>6. ASSUME NEW j \in Job, 1 \in DOMAIN j.evs, j.evs[1].by \in Clients,
             j.evs[1] \in ClientEvents(j.evs[1].by), JobInOrder(j)
      PROVE  JobInOrder(j)'
  BY <1>1, <1>3, <1>6, OrderOfOthers
<1>7. ASSUME NEW q \in Tasks, NEW j \in Range(chain[q]["map"]), j.kind = "events" PROVE JobInOrder(j)'
  <2>1. j \in Job /\ 1 \in DOMAIN j.evs /\ j.evs[1].by \in Clients /\ j.evs[1] \in ClientEvents(j.evs[1].by)
    BY <1>7, PostInLine
  <2>2. JobInOrder(j)
    BY <1>2, <1>7
  <2> QED BY <2>1, <2>2, <1>6
<1>8. CASE NoNews
  <2>1. Range(<<>>) = {}
    BY DEF Range
  <2>2. \A q \in Tasks : \A j \in Range(chain'[q]["map"]) : j \in Range(chain[q]["map"])
    BY <2>1, <1>8 DEF NoNews
  <2> QED BY <2>2, <1>4, <1>5, <1>7
<1>9. ASSUME NEW p \in Tasks, NEW by \in {"request", "sweep", "reconcile"}, NewAbort(p, by)
      PROVE  \A q \in Tasks : \A j \in Range(chain'[q]["map"]) : j.kind = "events" => JobInOrder(j)'
  <2>1. PICK g \in Job : g = AbortJob(by)
    BY NewJobs
  <2>2. g.kind = "abort"
    BY <2>1 DEF AbortJob
  <2>3. chain' = Enqueue(p, g)
    BY <2>1, <1>9 DEF NewAbort
  <2>4. \A q \in Tasks, m \in Lanes : Range(chain'[q][m]) \subseteq Range(chain[q][m]) \cup {g}
    BY <2>3, <1>t, EnqueueEffect
  <2> QED BY <2>2, <2>4, <1>7, <1>t
<1>10. ASSUME NEW c \in Clients, NEW p \in Tasks, NEW b \in Nat, NewBatch(c, p, b)
       PROVE  \A q \in Tasks : \A j \in Range(chain'[q]["map"]) : j.kind = "events" => JobInOrder(j)'
  <2>1. post[c].next \in Nat
    BY <1>t DEF PostRecord
  <2>2. b \in DOMAIN Script[c] /\ b < post[c].next /\ (~ post[c].overlapped => b + 1 = post[c].next)
    BY <1>10 DEF NewBatch, InHand
  <2>3. PICK g : g = EventsJob(Script[c][b])
    OBVIOUS
  <2>4. g \in Job /\ chain' = Enqueue(p, g) /\ g.evs = Script[c][b] /\ g.pc = "write"
    BY <2>2, <2>3, <1>10, NewJobs DEF NewBatch, EventsJob
  <2>5. \A q \in Tasks, m \in Lanes : Range(chain'[q][m]) \subseteq Range(chain[q][m]) \cup {g}
    BY <2>4, <1>t, EnqueueEffect
  <2>6. /\ \A k, m \in DOMAIN g.evs : k < m => g.evs[k].n < g.evs[m].n
        /\ 1 \in DOMAIN g.evs /\ g.evs[1] \in ClientEvents(c) /\ g.evs[1].by = c
        /\ BatchOf(g.evs[1]) = b /\ Mates(g.evs[1]) = Range(g.evs)
    BY <2>2, <2>4, WholeBatch
  <2>7. ASSUME ~ post[c].overlapped, NEW d \in Range(history), d.by = c PROVE BatchOf(d) <= b
    <3>1. BatchOf(d) < post[c].next
      BY <2>7, <1>2 DEF HistoryClosed
    <3>2. d \in Events
      BY <1>t DEF Range
    <3>3. BatchOf(d) \in Nat
      BY <3>2, <2>7, KnownEvents, BatchesInOrder
    <3> QED BY <3>1, <3>3, <2>1, <2>2, <2>7
  <2>8. JobInOrder(g)
    BY <2>2, <2>4, <2>6, <2>7 DEF JobInOrder
  <2>9. JobInOrder(g)'
    BY <2>4, <2>6, <2>8, <1>6
  <2> QED BY <2>5, <2>9, <1>7, <1>t
<1>11. \A q \in Tasks : \A j \in Range(chain'[q]["map"]) : j.kind = "events" => JobInOrder(j)'
  BY <1>1, <1>8, <1>9, <1>10
<1> QED BY <1>4, <1>5, <1>11

\* A step keeps the history in the order the reporters sent.
LEMMA OrderStep ==
  ASSUME OneTask, LifeInv, OrderInv, Next
  PROVE  OrderInv'
<1> SUFFICES ASSUME Live', used'.faults = 0
             PROVE  /\ FirstsInOrder' /\ HistoryClosed'
                    /\ \A q \in Tasks : /\ LineInOrder(q)'
                                        /\ \A j \in Range(chain'[q]["map"]) : j.kind = "events" => JobInOrder(j)'
  BY DEF OrderInv
<1>1. CASE ~ Live
  <2>1. run.row = "none" /\ UNCHANGED <<history, chain>>
    BY <1>1, Births
  <2>2. history' = <<>> /\ \A p \in Tasks : chain'[p]["map"] = <<>>
    BY <2>1, <1>1 DEF LifeInv, Unborn, NothingLeft, Lanes
  <2>3. Range(<<>>) = {} /\ DOMAIN <<>> = {}
    BY DEF Range
  <2>4. FirstsInOrder' /\ HistoryClosed'
    BY <2>2, <2>3 DEF FirstsInOrder, HistoryClosed
  <2>5. \A p \in Tasks : LineInOrder(p)'
    BY <2>2, <2>3 DEF LineInOrder
  <2> QED BY <2>2, <2>3, <2>4, <2>5
<1>2. CASE Live /\ \E p \in Tasks, l \in Lanes : \E i \in DOMAIN chain[p][l] : Working(p, l, i)
  <2>1. PICK p \in Tasks, l \in Lanes : \E i \in DOMAIN chain[p][l] : Working(p, l, i)
    BY <1>2
  <2>2. PICK i \in DOMAIN chain[p][l] : Working(p, l, i)
    BY <2>1
  <2>3. /\ FirstsInOrder' /\ HistoryClosed'
        /\ \A q \in Tasks : LineInOrder(q)'
        /\ \A j \in Range(chain'[p]["map"]) : j.kind = "events" => JobInOrder(j)'
    BY <1>2, <2>2, OrderOfWork
  <2>4. ASSUME NEW q \in Tasks PROVE \A j \in Range(chain'[q]["map"]) : j.kind = "events" => JobInOrder(j)'
    <3>1. q = p
      BY DEF OneTask
    <3> QED BY <3>1, <2>3
  <2> QED BY <2>3, <2>4
<1>3. CASE Live /\ ~ \E p \in Tasks, l \in Lanes : \E i \in DOMAIN chain[p][l] : Working(p, l, i)
  BY <1>3, OrderOfRest
<1> QED BY <1>1, <1>2, <1>3

\* HistoryInOrder: in one server process, and as long as no statement fails, the
\* history of a run has the events of a reporter that never had two POSTs under way
\* in the order they were sent, whatever is delivered twice, lost in a crash or sent
\* again (enqueueOnRun and persistEventAwaited, routes/live.ts).
THEOREM HistoryStaysInOrder ==
  ASSUME OneTask
  PROVE  Spec => []HistoryInOrder
<1>1. Init => OrderInv
  BY DEF Init, Live, OrderInv
<1>2. LifeInv /\ OrderInv /\ [Next]_vars => OrderInv'
  <2> SUFFICES ASSUME LifeInv, OrderInv, [Next]_vars PROVE OrderInv'
    OBVIOUS
  <2>1. CASE UNCHANGED vars
    <3>1. /\ FirstsInOrder => FirstsInOrder'
          /\ HistoryClosed => HistoryClosed'
          /\ \A j : JobInOrder(j) => JobInOrder(j)'
      BY <2>1, OrderOfNothing DEF vars
    <3>2. ASSUME NEW p \in Tasks, LineInOrder(p) PROVE LineInOrder(p)'
      <4>1. chain'[p]["map"] = chain[p]["map"] /\ post' = post
        BY <2>1 DEF vars
      <4> QED BY <4>1, <3>2 DEF LineInOrder, BatchOf
    <3> QED BY <3>1, <3>2, <2>1 DEF vars, OrderInv, Live
  <2>2. CASE Next
    BY <2>2, OrderStep
  <2> QED BY <2>1, <2>2
<1>3. LifeInv /\ OrderInv => HistoryInOrder
  <2> SUFFICES ASSUME LifeInv, OrderInv PROVE HistoryInOrder
    OBVIOUS
  <2>1. CASE Live
    BY <2>1 DEF OrderInv, FirstsInOrder, HistoryInOrder
  <2>2. CASE ~ Live
    <3>1. history = <<>>
      BY <2>2 DEF LifeInv, NothingLeft
    <3>2. Range(<<>>) = {}
      BY DEF Range
    <3> QED BY <3>1, <3>2 DEF HistoryInOrder
  <2> QED BY <2>1, <2>2
<1> QED BY <1>1, <1>2, <1>3, LifeInvariant, PTL DEF Spec

=============================================================================
