------------------------- MODULE ReleaseGateProofs -------------------------
(***************************************************************************)
(* What ReleaseGate promises, proved for any number of requests.           *)
(***************************************************************************)
EXTENDS ReleaseGate, TLAPS

\* Where a request is decides which variables it has.
Listing == [pc : {"items", "rule"}, sign : BOOLEAN, todo : SUBSET AutoItems, unmet : SUBSET AutoItems]
Reading == [pc : {"rows"}, sign : BOOLEAN, todo : SUBSET AutoItems, unmet : SUBSET AutoItems,
            completed : BOOLEAN]
Writing == [pc : {"write"}, sign : BOOLEAN, todo : SUBSET AutoItems, item : AutoItems, met : BOOLEAN,
            unmet : SUBSET AutoItems]
Counting == [pc : {"count", "sign"}, unmet : SUBSET AutoItems]
RequestType == [pc : {"idle"}] \cup Listing \cup Reading \cup Writing \cup Counting

GateTypes ==
  /\ req \in [Requests -> RequestType]
  /\ status \in Statuses /\ seeded \in 0..3
  /\ checked \subseteq listed /\ listed \subseteq Items

\* A refresh has selected its items, and the ones it still has to write.
Selected(q) == req[q].pc \in {"rule", "rows", "write", "count"}
Pending(q) == IF At(q, "count") THEN {}
              ELSE req[q].todo \cup (IF At(q, "write") THEN {req[q].item} ELSE {})

\* Why the checklist a sign-off counts is fresh: what is good now, and what any
\* refresh may yet write as good, it could have read itself; and a checked item it
\* does not write any more was good since it began.
Fresh(q) ==
  Signing(req[q]) =>
    /\ signals \subseteq seen[q]
    /\ \A r \in Requests : Holds(r) \subseteq seen[q]
    /\ Selected(q) => \A i \in checked \cap AutoItems : i \in Pending(q) \/ Needs({i}) \subseteq seen[q]

GateInv ==
  /\ GateTypes
  /\ \A q \in Requests : Fresh(q)

-----------------------------------------------------------------------------
\* What the rules need, item by item.
LEMMA NeedsOne ==
  /\ Needs({"critical"}) = {"runs"}
  /\ Needs({"manual"}) = {"completed", "clean"}
BY DEF Needs

\* A set of items needs what its items need.
LEMMA NeedsAll ==
  ASSUME NEW is \in SUBSET Items, NEW s,
         \A i \in is \cap AutoItems : Needs({i}) \subseteq s
  PROVE  Needs(is) \subseteq s
BY NeedsOne DEF Needs, AutoItems

\* The history of a sign-off, as it goes on and as it begins.
LEMMA SeenStep ==
  ASSUME Watch, NEW q \in Requests, Signing(req'[q])
  PROVE  /\ Signing(req[q]) => seen'[q] = seen[q] \cup signals'
         /\ ~Signing(req[q]) => seen'[q] = signals \cup Held
BY DEF Watch

\* What a step of request r may do to the others: it holds nothing it did not read,
\* and checks nothing it did not hold.
Harmless(r) ==
  /\ \A v \in Requests \ {r} : req'[v] = req[v]
  /\ signals' = signals
  /\ Holds(r)' \subseteq Holds(r) \cup signals
  /\ \A i \in checked' \cap AutoItems : i \in checked \/ Needs({i}) \subseteq Holds(r)

\* What it may do to itself.
Onward(r) ==
  Signing(req'[r]) =>
    \/ ~Signing(req[r]) /\ ~Selected(r)' /\ Holds(r)' = {}
    \/ Signing(req[r]) /\ ~Selected(r)'
    \/ /\ Signing(req[r]) /\ ~Selected(r)
       /\ \A i \in checked' \cap AutoItems : i \in Pending(r)'
    \/ /\ Signing(req[r]) /\ Selected(r)
       /\ \A i \in checked' \cap AutoItems \cap Pending(r) :
            i \in Pending(r)' \/ Needs({i}) \subseteq Holds(r)

\* Such a step keeps every sign-off fresh.
LEMMA FreshStays ==
  ASSUME GateInv, Watch, NEW r \in Requests, Harmless(r), Onward(r)
  PROVE  \A q \in Requests : Fresh(q)'
<1>. SUFFICES ASSUME NEW q \in Requests, Signing(req'[q])
     PROVE  /\ signals' \subseteq seen'[q]
            /\ \A v \in Requests : Holds(v)' \subseteq seen'[q]
            /\ Selected(q)' => \A i \in checked' \cap AutoItems :
                 i \in Pending(q)' \/ Needs({i}) \subseteq seen'[q]
  BY DEF Fresh
<1>1. \A v \in Requests : Holds(v) \subseteq Held
  BY DEF Held
<1>2. \A v \in Requests \ {r} : Holds(v)' = Holds(v)
  BY DEF Harmless, Holds, At
<1>3. CASE ~Signing(req[q])
  <2>1. q = r /\ ~Selected(q)' /\ Holds(r)' = {}
    BY <1>3 DEF Harmless, Onward
  <2>. QED BY <1>1, <1>2, <1>3, <2>1, SeenStep DEF Harmless
<1>4. CASE Signing(req[q])
  <2>1. seen'[q] = seen[q] \cup signals'
    BY <1>4, SeenStep
  <2>2. signals \subseteq seen[q] /\ \A v \in Requests : Holds(v) \subseteq seen[q]
    BY <1>4 DEF GateInv, Fresh
  <2>3. \A v \in Requests : Holds(v)' \subseteq seen'[q]
    BY <1>2, <2>1, <2>2 DEF Harmless
  <2>4. ASSUME Selected(q)', NEW i \in checked' \cap AutoItems
        PROVE  i \in Pending(q)' \/ Needs({i}) \subseteq seen'[q]
    <3>1. CASE i \notin checked
      BY <2>1, <2>2, <2>4, <3>1 DEF Harmless
    <3>2. CASE i \in checked /\ q # r
      <4>1. Selected(q) /\ Pending(q)' = Pending(q)
        BY <2>4, <3>2 DEF Harmless, Selected, Pending, At
      <4>. QED BY <1>4, <2>1, <3>2, <4>1 DEF GateInv, Fresh
    <3>3. CASE i \in checked /\ q = r
      BY <1>4, <2>1, <2>2, <2>4, <3>3 DEF GateInv, Fresh, Onward
    <3>. QED BY <3>1, <3>2, <3>3
  <2>. QED BY <2>1, <2>2, <2>3, <2>4
<1>. QED BY <1>3, <1>4

-----------------------------------------------------------------------------
(* The steps of a request.                                                 *)

\* A refresh begins with nothing selected.
LEMMA BeginRefreshStep ==
  ASSUME GateInv, NEW r \in Requests, NEW sign \in BOOLEAN, BeginRefresh(r, sign)
  PROVE  GateTypes' /\ Harmless(r) /\ Onward(r)
<1>1. /\ req' = [req EXCEPT ![r] = [pc |-> "items", sign |-> sign, todo |-> {}, unmet |-> {}]]
      /\ req[r].pc = "idle" /\ req[r] \in RequestType
      /\ UNCHANGED <<status, seeded, listed, checked, signals>>
  BY DEF GateInv, GateTypes, BeginRefresh, Goto, At, items, release
<1>2. req'[r] = [pc |-> "items", sign |-> sign, todo |-> {}, unmet |-> {}]
  BY <1>1 DEF GateInv, GateTypes
<1>3. req'[r] \in RequestType
  BY <1>2 DEF RequestType, Listing
<1>4. ~Signing(req[r])
  BY <1>1 DEF Signing, RequestType, Listing, Reading, Writing, Counting
<1>5. ~Selected(r)' /\ Holds(r)' = {}
  BY <1>2 DEF Selected, Holds, At
<1>. QED BY <1>1, <1>3, <1>4, <1>5 DEF GateInv, GateTypes, Harmless, Onward

\* Every item a rule owns is selected.
LEMMA SelectItemsStep ==
  ASSUME GateInv, NEW r \in Requests, SelectItems(r)
  PROVE  GateTypes' /\ Harmless(r) /\ Onward(r)
<1>1. /\ req' = [req EXCEPT ![r] = [req[r] EXCEPT !.pc = "rule", !.todo = listed \cap AutoItems]]
      /\ req[r].pc = "items" /\ req[r] \in Listing
      /\ UNCHANGED <<status, seeded, listed, checked, signals>>
  BY DEF GateInv, GateTypes, SelectItems, Goto, At, items, release, RequestType, Listing, Reading, Writing, Counting
<1>2. /\ req'[r] \in Listing /\ req'[r].pc = "rule" /\ req'[r].todo = listed \cap AutoItems
      /\ req'[r].sign = req[r].sign
  BY <1>1 DEF GateInv, GateTypes, Listing
<1>3. Signing(req'[r]) => Signing(req[r]) /\ ~Selected(r)
  BY <1>1, <1>2 DEF Signing, Selected, Listing
<1>4. Holds(r)' = {} /\ Pending(r)' = listed \cap AutoItems
  BY <1>2 DEF Holds, Pending, At
<1>. QED BY <1>1, <1>2, <1>3, <1>4 DEF GateInv, GateTypes, Harmless, Onward, RequestType

\* The rule of the runs holds only what it reads.
LEMMA EvaluateCriticalStep ==
  ASSUME GateInv, NEW r \in Requests, EvaluateCriticalTestsPassing(r)
  PROVE  GateTypes' /\ Harmless(r) /\ Onward(r)
<1>. DEFINE met == "runs" \in signals
<1>1. /\ req' = [req EXCEPT ![r] = Evaluated(r, "critical", met)]
      /\ req[r].pc = "rule" /\ req[r] \in Listing
      /\ UNCHANGED <<status, seeded, listed, checked, signals>>
  BY DEF GateInv, GateTypes, EvaluateCriticalTestsPassing, Goto, At, items, release, RequestType, Listing, Reading,
         Writing, Counting
<1>2. met \in BOOLEAN /\ (met => "runs" \in signals)
  OBVIOUS
<1>. HIDE DEF met
<1>3. req'[r] = [pc |-> "write", sign |-> req[r].sign, todo |-> req[r].todo \ {"critical"},
                 item |-> "critical", met |-> met,
                 unmet |-> IF met \/ ~req[r].sign THEN req[r].unmet ELSE req[r].unmet \cup {"critical"}]
  BY <1>1 DEF GateInv, GateTypes, Evaluated
<1>4. /\ req'[r] \in Writing /\ req'[r].pc = "write" /\ req'[r].item = "critical"
      /\ req'[r].todo = req[r].todo \ {"critical"} /\ req'[r].sign = req[r].sign
      /\ req'[r].met = met
  BY <1>1, <1>2, <1>3 DEF Writing, Listing, AutoItems
<1>5. Signing(req'[r]) => Signing(req[r]) /\ Selected(r)
  BY <1>1, <1>4 DEF Signing, Selected, Listing, Writing
<1>6. Holds(r)' \subseteq signals
  BY <1>2, <1>4, NeedsOne DEF Holds, At
<1>7. Pending(r) \subseteq Pending(r)'
  BY <1>1, <1>4 DEF Pending, At
<1>. QED BY <1>1, <1>4, <1>5, <1>6, <1>7 DEF GateInv, GateTypes, Harmless, Onward, RequestType

\* The first read of the manual rule.
LEMMA EvaluateSessionStep ==
  ASSUME GateInv, NEW r \in Requests, EvaluateManualSession(r)
  PROVE  GateTypes' /\ Harmless(r) /\ Onward(r)
<1>1. /\ req' = [req EXCEPT ![r] = [pc |-> "rows", sign |-> req[r].sign, todo |-> req[r].todo,
                                    unmet |-> req[r].unmet, completed |-> "completed" \in signals]]
      /\ req[r].pc = "rule" /\ req[r] \in Listing
      /\ UNCHANGED <<status, seeded, listed, checked, signals>>
  BY DEF GateInv, GateTypes, EvaluateManualSession, Goto, At, items, release, RequestType, Listing, Reading,
         Writing, Counting
<1>2. /\ req'[r] \in Reading /\ req'[r].pc = "rows" /\ req'[r].todo = req[r].todo
      /\ req'[r].sign = req[r].sign /\ req'[r].completed = ("completed" \in signals)
  BY <1>1 DEF GateInv, GateTypes, Listing, Reading
<1>3. Signing(req'[r]) => Signing(req[r]) /\ Selected(r)
  BY <1>1, <1>2 DEF Signing, Selected, Listing, Reading
<1>4. Holds(r)' \subseteq signals
  BY <1>2 DEF Holds, At
<1>5. Pending(r) = Pending(r)'
  BY <1>1, <1>2 DEF Pending, At
<1>. QED BY <1>1, <1>2, <1>3, <1>4, <1>5 DEF GateInv, GateTypes, Harmless, Onward, RequestType

\* The second read adds to what the first one holds.
LEMMA EvaluateRowsStep ==
  ASSUME GateInv, NEW r \in Requests, EvaluateManualRows(r)
  PROVE  GateTypes' /\ Harmless(r) /\ Onward(r)
<1>. DEFINE met == req[r].completed /\ "clean" \in signals
<1>1. /\ req' = [req EXCEPT ![r] = Evaluated(r, "manual", met)]
      /\ req[r].pc = "rows" /\ req[r] \in Reading
      /\ UNCHANGED <<status, seeded, listed, checked, signals>>
  BY DEF GateInv, GateTypes, EvaluateManualRows, Goto, At, items, release, RequestType, Listing, Reading,
         Writing, Counting
<1>2. met \in BOOLEAN
  BY <1>1 DEF Reading
<1>3. met => "completed" \in Holds(r) /\ "clean" \in signals
  BY <1>1 DEF Holds, At
<1>. HIDE DEF met
<1>4. req'[r] = [pc |-> "write", sign |-> req[r].sign, todo |-> req[r].todo \ {"manual"},
                 item |-> "manual", met |-> met,
                 unmet |-> IF met \/ ~req[r].sign THEN req[r].unmet ELSE req[r].unmet \cup {"manual"}]
  BY <1>1 DEF GateInv, GateTypes, Evaluated
<1>5. /\ req'[r] \in Writing /\ req'[r].pc = "write" /\ req'[r].item = "manual"
      /\ req'[r].todo = req[r].todo \ {"manual"} /\ req'[r].sign = req[r].sign
      /\ req'[r].met = met
  BY <1>1, <1>2, <1>4 DEF Writing, Reading, AutoItems
<1>6. Signing(req'[r]) => Signing(req[r]) /\ Selected(r)
  BY <1>1, <1>5 DEF Signing, Selected, Reading, Writing
<1>7. Holds(r)' \subseteq Holds(r) \cup signals
  BY <1>3, <1>5, NeedsOne DEF Holds, At
<1>8. Pending(r) \subseteq Pending(r)'
  BY <1>1, <1>5 DEF Pending, At
<1>. QED BY <1>1, <1>5, <1>6, <1>7, <1>8 DEF GateInv, GateTypes, Harmless, Onward, RequestType

\* A met item is checked by whoever holds what it needs; an unmet one is unchecked.
LEMMA WriteItemStep ==
  ASSUME GateInv, NEW r \in Requests, WriteItem(r)
  PROVE  GateTypes' /\ Harmless(r) /\ Onward(r)
<1>1. /\ req' = [req EXCEPT ![r] = [pc |-> "rule", sign |-> req[r].sign, todo |-> req[r].todo,
                                    unmet |-> req[r].unmet]]
      /\ checked' = IF req[r].met THEN checked \cup ({req[r].item} \cap listed)
                    ELSE checked \ {req[r].item}
      /\ req[r].pc = "write" /\ req[r] \in Writing
      /\ UNCHANGED <<status, seeded, listed, signals>>
  BY DEF GateInv, GateTypes, WriteItem, Goto, At, release, RequestType, Listing, Reading, Writing, Counting
<1>2. /\ req'[r] \in Listing /\ req'[r].pc = "rule" /\ req'[r].todo = req[r].todo
      /\ req'[r].sign = req[r].sign
  BY <1>1 DEF GateInv, GateTypes, Listing, Writing
<1>3. Signing(req'[r]) => Signing(req[r]) /\ Selected(r)
  BY <1>1, <1>2 DEF Signing, Selected, Listing, Writing
<1>4. Holds(r)' = {} /\ Pending(r)' = req[r].todo /\ Pending(r) = req[r].todo \cup {req[r].item}
  BY <1>1, <1>2 DEF Holds, Pending, At
<1>5. req[r].met => Holds(r) = Needs({req[r].item})
  BY <1>1 DEF Holds, At
<1>6. \A i \in checked' \cap AutoItems : i \in checked \/ Needs({i}) \subseteq Holds(r)
  BY <1>1, <1>5
<1>7. \A i \in checked' \cap AutoItems \cap Pending(r) :
        i \in Pending(r)' \/ Needs({i}) \subseteq Holds(r)
  BY <1>1, <1>4, <1>5
<1>8. checked' \subseteq listed'
  BY <1>1 DEF GateInv, GateTypes
<1>9. Harmless(r)
  BY <1>1, <1>4, <1>6 DEF GateInv, GateTypes, Harmless
<1>10. Onward(r)
  BY <1>3, <1>7 DEF Onward
<1>. QED BY <1>1, <1>2, <1>8, <1>9, <1>10 DEF GateInv, GateTypes, RequestType

\* A refresh ends with nothing left to write.
LEMMA RefreshedStep ==
  ASSUME GateInv, NEW r \in Requests, Refreshed(r)
  PROVE  GateTypes' /\ Harmless(r) /\ Onward(r)
<1>1. /\ req' = [req EXCEPT ![r] = IF req[r].sign THEN [pc |-> "count", unmet |-> req[r].unmet] ELSE Idle]
      /\ req[r].pc = "rule" /\ req[r].todo = {} /\ req[r] \in Listing
      /\ UNCHANGED <<status, seeded, listed, checked, signals>>
  BY DEF GateInv, GateTypes, Refreshed, Goto, At, items, release, RequestType, Listing, Reading, Writing, Counting
<1>2. CASE req[r].sign
  <2>1. req'[r] = [pc |-> "count", unmet |-> req[r].unmet]
    BY <1>1, <1>2 DEF GateInv, GateTypes
  <2>2. req'[r] \in Counting /\ req'[r].pc = "count"
    BY <1>1, <2>1 DEF Counting, Listing
  <2>3. Holds(r)' = {} /\ Pending(r) = {}
    BY <1>1, <2>2 DEF Holds, Pending, At
  <2>4. Signing(req[r]) /\ Selected(r)
    BY <1>1, <1>2 DEF Signing, Selected, Listing
  <2>. QED BY <1>1, <2>2, <2>3, <2>4 DEF GateInv, GateTypes, Harmless, Onward, RequestType
<1>3. CASE ~req[r].sign
  <2>1. req'[r] = [pc |-> "idle"]
    BY <1>1, <1>3 DEF GateInv, GateTypes, Idle
  <2>2. ~Signing(req'[r]) /\ Holds(r)' = {}
    BY <2>1 DEF Signing, Holds, At
  <2>. QED BY <1>1, <2>1, <2>2 DEF GateInv, GateTypes, Harmless, Onward, RequestType
<1>. QED BY <1>2, <1>3

\* Counting, signing and dying end what the history watches.
LEMMA EndStep ==
  ASSUME GateInv, NEW r \in Requests, CountUnchecked(r) \/ SignOff(r) \/ RequestDies(r)
  PROVE  GateTypes' /\ Harmless(r) /\ Onward(r)
<1>1. /\ UNCHANGED <<seeded, listed, checked, signals>> /\ status' \in Statuses
      /\ \/ req' = [req EXCEPT ![r] = [pc |-> "idle"]]
         \/ /\ req' = [req EXCEPT ![r] = [pc |-> "sign", unmet |-> req[r].unmet \cap listed]]
            /\ req[r] \in Counting
  BY DEF GateInv, GateTypes, CountUnchecked, SignOff, RequestDies, Goto, Done, Idle, At, items, release, Sign, Statuses,
         RequestType, Listing, Reading, Writing, Counting
<1>2. /\ \/ req'[r] = [pc |-> "idle"]
         \/ req'[r] = [pc |-> "sign", unmet |-> req[r].unmet \cap listed] /\ req[r] \in Counting
      /\ \A v \in Requests \ {r} : req'[v] = req[v]
  BY <1>1 DEF GateInv, GateTypes
<1>3. req'[r] \in RequestType /\ ~Signing(req'[r]) /\ Holds(r)' = {}
  <2>1. CASE req'[r] = [pc |-> "idle"]
    BY <2>1 DEF RequestType, Signing, Holds, At
  <2>2. CASE req'[r] = [pc |-> "sign", unmet |-> req[r].unmet \cap listed] /\ req[r] \in Counting
    BY <2>2 DEF RequestType, Counting, Signing, Holds, At
  <2>. QED BY <1>2, <2>1, <2>2
<1>4. req' \in [Requests -> RequestType]
  BY <1>1, <1>3 DEF GateInv, GateTypes
<1>. QED BY <1>1, <1>2, <1>3, <1>4 DEF GateInv, GateTypes, Harmless, Onward

\* Edits of the checklist and the release, and whatever the rules read, leave the
\* requests alone and check no item that a rule owns.
LEMMA AroundStep ==
  ASSUME GateInv, Watch,
         \/ SeedItem \/ AddItem
         \/ \E i \in Items : ToggleItem(i) \/ DeleteItem(i)
         \/ \E v \in Statuses : PatchStatus(v)
         \/ \E x \in Signals : SignalChanges(x)
  PROVE  GateInv'
<1>1. /\ UNCHANGED req
      /\ checked' \cap AutoItems \subseteq checked
      /\ status' \in Statuses /\ checked' \subseteq listed'
  BY DEF GateInv, GateTypes, SeedItem, AddItem, ToggleItem, DeleteItem, PatchStatus, SignalChanges, items, release
<1>2. listed' \subseteq Items /\ seeded' \in 0..3
  <2>1. SeedItem => listed' \subseteq Items /\ seeded' \in 0..3
    <3>1. Len(DefaultChecklist) = 3 /\ \A n \in 1..3 : DefaultChecklist[n] \in Items
      BY DEF DefaultChecklist, Items, AutoItems
    <3>. HIDE DEF DefaultChecklist
    <3>2. SeedItem => seeded + 1 \in 1..3
      BY <3>1 DEF GateInv, GateTypes, SeedItem
    <3>. QED BY <3>1, <3>2 DEF GateInv, GateTypes, SeedItem
  <2>2. AddItem => listed' \subseteq Items /\ UNCHANGED seeded
    BY DEF GateInv, GateTypes, AddItem, Items
  <2>3. (\E i \in Items : DeleteItem(i)) => listed' \subseteq Items /\ UNCHANGED seeded
    BY DEF GateInv, GateTypes, DeleteItem
  <2>4. (\E i \in Items : ToggleItem(i)) \/ (\E v \in Statuses : PatchStatus(v))
          \/ (\E x \in Signals : SignalChanges(x)) => UNCHANGED <<listed, seeded>>
    BY DEF ToggleItem, PatchStatus, SignalChanges, items
  <2>. QED BY <2>1, <2>2, <2>3, <2>4 DEF GateInv, GateTypes
<1>3. GateTypes'
  BY <1>1, <1>2 DEF GateInv, GateTypes
<1>4. ASSUME NEW q \in Requests
      PROVE  Fresh(q)'
  <2>1. /\ \A v \in Requests : Holds(v)' = Holds(v)
        /\ Selected(q)' = Selected(q) /\ Pending(q)' = Pending(q)
        /\ Signing(req'[q]) = Signing(req[q])
    BY <1>1 DEF Holds, At, Selected, Pending
  <2>2. Signing(req'[q]) => seen'[q] = seen[q] \cup signals'
    BY <2>1, SeenStep
  <2>. QED BY <1>1, <2>1, <2>2 DEF GateInv, Fresh
<1>. QED BY <1>3, <1>4 DEF GateInv

\* Every step keeps the invariant.
LEMMA GateStep ==
  ASSUME GateInv, [Next]_vars
  PROVE  GateInv'
<1>1. CASE UNCHANGED vars
  BY <1>1 DEF vars, items, release, GateInv, GateTypes, Fresh, Holds, Selected, Pending, At
<1>2. ASSUME Watch, NEW r \in Requests, Request(r)
      PROVE  GateInv'
  <2>1. GateTypes' /\ Harmless(r) /\ Onward(r)
    BY <1>2, BeginRefreshStep, SelectItemsStep, EvaluateCriticalStep, EvaluateSessionStep, EvaluateRowsStep,
       WriteItemStep, RefreshedStep, EndStep DEF Request
  <2>. QED BY <1>2, <2>1, FreshStays DEF GateInv
<1>. QED BY <1>1, <1>2, AroundStep DEF Next, Step

\* Whatever passes the count of a sign-off was good at some moment since it began,
\* or held by a refresh in flight then.
THEOREM SignsOffOnFreshRules == Spec => []SignOffOnFreshRules
<1>1. Init => GateInv
  BY DEF Init, GateInv, GateTypes, Fresh, Signing, RequestType, Idle, Statuses
<1>2. GateInv => SignOffOnFreshRules
  <2>. SUFFICES ASSUME GateInv, NEW q \in Requests, At(q, "count"), listed \subseteq checked
       PROVE  Needs(listed) \subseteq seen[q]
    BY DEF SignOffOnFreshRules
  <2>1. \A i \in listed \cap AutoItems : Needs({i}) \subseteq seen[q]
    BY DEF GateInv, Fresh, Signing, Selected, Pending, At
  <2>. QED BY <2>1, NeedsAll DEF GateInv, GateTypes
<1>. QED BY <1>1, <1>2, GateStep, PTL DEF Spec

\* A signature is written anew whenever it is written.
LEMMA SignWrites == Sign => signature' # signature
BY DEF Sign

\* A signature is written exactly when a draft becomes signed off, so one of the
\* sign-offs under way signs, and none over a cancellation or another's signature.
THEOREM SignsOffOverNothing == Spec => SignOffOverridesNothing
<1>. DEFINE Once == /\ (signature' # signature) <=> (status = "draft" /\ status' = "signed_off")
                    /\ status' = "signed_off" => status # "cancelled"
<1>1. [Next]_vars => [Once]_release
  <2>. SUFFICES ASSUME Step, release' # release
       PROVE  Once
    BY DEF Next, vars
  <2>1. ASSUME NEW r \in Requests, Request(r)
        PROVE  status = "draft" /\ Sign
    BY <2>1 DEF Request, BeginRefresh, SelectItems, EvaluateCriticalTestsPassing, EvaluateManualSession,
                EvaluateManualRows, WriteItem, Refreshed, CountUnchecked, SignOff, RequestDies
  <2>2. ASSUME NEW v \in Statuses, PatchStatus(v)
        PROVE  signature' = signature /\ status' # "signed_off"
    BY <2>2 DEF PatchStatus
  <2>3. \/ \E r \in Requests : Request(r)
        \/ \E v \in Statuses : PatchStatus(v)
    BY DEF Step, SeedItem, AddItem, ToggleItem, DeleteItem, SignalChanges
  <2>. QED BY <2>1, <2>2, <2>3, SignWrites DEF Sign
<1>. QED BY <1>1, PTL DEF Spec, SignOffOverridesNothing
=============================================================================
