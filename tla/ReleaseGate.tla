---------------------------- MODULE ReleaseGate -----------------------------
(***************************************************************************)
(* The checklist of one release and its sign-off (routes/releases.ts): two *)
(* items are owned by rules that every GET and every sign-off evaluates    *)
(* and writes back, item by item, in statements that commit on their own.  *)
(* What the rules read changes at any moment: in signals, "runs" says that *)
(* the linked (or the latest) runs are finished, not aborted and without   *)
(* failure; "completed" and "clean" are the two reads of the manual rule,  *)
(* the status of the latest session and its rows (ReleaseSessions), or the *)
(* flat statuses when there is no session.                                 *)
(*                                                                         *)
(* Abstractions: status in_progress counts as draft and released as        *)
(* cancelled (no guard tells them apart).  Every item is required: an item *)
(* made optional by PATCH is to the gate as if it were deleted.  The rule  *)
(* of the runs takes its SELECTs as one read, made at the last of them.    *)
(***************************************************************************)
EXTENDS Naturals, Sequences, FiniteSets

CONSTANT Requests     \* slots for requests in flight

VARIABLES status,     \* status of the release
          signature,  \* signed_off_by and signed_off_at: none, or the mark of a sign-off
          seeded,     \* how many checklist items POST / has inserted
          listed,     \* items on the checklist
          checked,    \* items with checked = TRUE
          signals,    \* what the rules would read now
          req,        \* requests in flight and their local variables
          seen        \* ghost: per sign-off, what a rule could read since it began

release == <<status, signature>>
items == <<seeded, listed, checked>>
vars == <<release, items, signals, req, seen>>

Statuses == {"draft", "signed_off", "cancelled"}
Marks == {"none", "odd", "even"}
Signals == {"runs", "completed", "clean"}
DefaultChecklist == <<"critical", "manual", "notes">>
AutoItems == {"critical", "manual"}
Items == AutoItems \cup {"notes"}
Pcs == {"idle", "items", "rule", "rows", "write", "count", "sign"}

Idle == [pc |-> "idle"]
Done(q) == req' = [req EXCEPT ![q] = Idle]
Goto(q, r) == req' = [req EXCEPT ![q] = r]
At(q, pc) == req[q].pc = pc

-----------------------------------------------------------------------------
(* GET /:id, GET /:id/readiness and POST /:id/sign-off: refreshAutoItems,  *)
(* then, for a sign-off, the count of unchecked items and the UPDATE.      *)

\* Mutant of BeginRefresh: the sign-off trusts what the last GET stored.
BeginWithoutRefresh(q, sign) ==
  /\ At(q, "idle") /\ (sign => status = "draft")
  /\ Goto(q, IF sign THEN [pc |-> "count", unmet |-> {}]
             ELSE [pc |-> "items", sign |-> sign, todo |-> {}, unmet |-> {}])
  /\ UNCHANGED <<release, items, signals>>

BeginRefresh(q, sign) ==
  /\ At(q, "idle")
  /\ sign => status = "draft"
  /\ Goto(q, [pc |-> "items", sign |-> sign, todo |-> {}, unmet |-> {}])
  /\ UNCHANGED <<release, items, signals>>

SelectItems(q) ==
  /\ At(q, "items")
  /\ Goto(q, [req[q] EXCEPT !.pc = "rule", !.todo = listed \cap AutoItems])
  /\ UNCHANGED <<release, items, signals>>

\* What the local variables are once rule i has been evaluated to met.
Evaluated(q, i, met) ==
  [pc |-> "write", sign |-> req[q].sign, todo |-> req[q].todo \ {i}, item |-> i, met |-> met,
   unmet |-> IF met \/ ~req[q].sign THEN req[q].unmet ELSE req[q].unmet \cup {i}]

EvaluateCriticalTestsPassing(q) ==
  /\ At(q, "rule") /\ "critical" \in req[q].todo
  /\ Goto(q, Evaluated(q, "critical", "runs" \in signals))
  /\ UNCHANGED <<release, items, signals>>

\* First SELECT: the latest session and its status.
EvaluateManualSession(q) ==
  /\ At(q, "rule") /\ "manual" \in req[q].todo
  /\ Goto(q, [pc |-> "rows", sign |-> req[q].sign, todo |-> req[q].todo,
              unmet |-> req[q].unmet, completed |-> "completed" \in signals])
  /\ UNCHANGED <<release, items, signals>>

\* Second SELECT: the result rows of that session.
EvaluateManualRows(q) ==
  /\ At(q, "rows")
  /\ Goto(q, Evaluated(q, "manual", req[q].completed /\ "clean" \in signals))
  /\ UNCHANGED <<release, items, signals>>

WriteItem(q) ==
  /\ At(q, "write")
  /\ checked' = IF req[q].met THEN checked \cup ({req[q].item} \cap listed)
                ELSE checked \ {req[q].item}
  /\ Goto(q, [pc |-> "rule", sign |-> req[q].sign, todo |-> req[q].todo, unmet |-> req[q].unmet])
  /\ UNCHANGED <<release, seeded, listed, signals>>

Refreshed(q) ==
  /\ At(q, "rule") /\ req[q].todo = {}
  /\ Goto(q, IF req[q].sign THEN [pc |-> "count", unmet |-> req[q].unmet] ELSE Idle)
  /\ UNCHANGED <<release, items, signals>>

CountUnchecked(q) ==
  /\ At(q, "count")
  /\ Goto(q, IF listed \subseteq checked
             THEN [pc |-> "sign", unmet |-> req[q].unmet \cap listed] ELSE Idle)
  /\ UNCHANGED <<release, items, signals>>

\* Who signed and when, written anew: no two sign-offs in a row leave the same mark.
Sign == /\ status' = "signed_off"
        /\ signature' = IF signature = "odd" THEN "even" ELSE "odd"

\* Mutant of SignOff: the UPDATE does not ask for the status again.
SignOffAnyStatus(q) ==
  /\ At(q, "sign") /\ Sign /\ Done(q) /\ UNCHANGED <<items, signals>>

\* The answer and the audit record are the same when the UPDATE matches nothing.
SignOff(q) ==
  /\ At(q, "sign")
  /\ IF status = "draft" THEN Sign ELSE UNCHANGED release
  /\ Done(q)
  /\ UNCHANGED <<items, signals>>

-----------------------------------------------------------------------------
(* The checklist and the release.                                          *)

\* POST / answers after the last item, but the release is there from the start.
SeedItem ==
  /\ seeded < Len(DefaultChecklist)
  /\ seeded' = seeded + 1
  /\ listed' = listed \cup {DefaultChecklist[seeded + 1]}
  /\ UNCHANGED <<release, checked, signals, req>>

AddItem ==
  /\ "notes" \notin listed /\ listed' = listed \cup {"notes"}
  /\ UNCHANGED <<release, seeded, checked, signals, req>>

\* PATCH of an item refuses the ones a rule owns.
ToggleItem(i) ==
  /\ i \in listed \ AutoItems
  /\ checked' = IF i \in checked THEN checked \ {i} ELSE checked \cup {i}
  /\ UNCHANGED <<release, seeded, listed, signals, req>>

DeleteItem(i) ==
  /\ i \in listed
  /\ listed' = listed \ {i} /\ checked' = checked \ {i}
  /\ UNCHANGED <<release, seeded, signals, req>>

\* Mutant of PatchStatus: signed_off is a status like the others.
PatchAnyStatus(v) ==
  /\ v # status /\ status' = v
  /\ UNCHANGED <<signature, items, signals, req>>

\* PATCH /:id sets any status but signed_off; the signature stays where it is.
PatchStatus(v) ==
  /\ v # "signed_off" /\ v # status /\ status' = v
  /\ UNCHANGED <<signature, items, signals, req>>

\* Runs finish, fail, are linked and unlinked; sessions and results change.
SignalChanges(x) ==
  /\ signals' = IF x \in signals THEN signals \ {x} ELSE signals \cup {x}
  /\ UNCHANGED <<release, seeded, listed, checked, req>>

\* A statement fails or the process ends: the request stops where it is.
RequestDies(q) ==
  /\ ~At(q, "idle") /\ Done(q)
  /\ UNCHANGED <<release, items, signals>>

-----------------------------------------------------------------------------
Request(q) ==
  \/ \E sign \in BOOLEAN : BeginRefresh(q, sign)
  \/ SelectItems(q) \/ EvaluateCriticalTestsPassing(q)
  \/ EvaluateManualSession(q) \/ EvaluateManualRows(q)
  \/ WriteItem(q) \/ Refreshed(q) \/ CountUnchecked(q) \/ SignOff(q) \/ RequestDies(q)

Step ==
  \/ \E q \in Requests : Request(q)
  \/ SeedItem \/ AddItem
  \/ \E i \in Items : ToggleItem(i) \/ DeleteItem(i)
  \/ \E v \in Statuses : PatchStatus(v)
  \/ \E x \in Signals : SignalChanges(x)

Needs(is) == (IF "critical" \in is THEN {"runs"} ELSE {})
        \cup (IF "manual" \in is THEN {"completed", "clean"} ELSE {})

\* What a refresh in flight has already read as good and may still write.
Holds(q) == IF At(q, "rows") /\ req[q].completed THEN {"completed"}
            ELSE IF At(q, "write") /\ req[q].met THEN Needs({req[q].item}) ELSE {}
Held == UNION {Holds(q) : q \in Requests}

Signing(r) == r.pc = "count" \/ ("sign" \in DOMAIN r /\ r.sign)

\* History of each sign-off in flight, updated beside every step.
Watch == seen' = [q \in Requests |->
                    CASE ~Signing(req'[q]) -> {}
                      [] Signing(req[q]) -> seen[q] \cup signals'
                      [] OTHER -> signals \cup Held]

Init ==
  /\ status = "draft" /\ signature = "none" /\ seeded = 0 /\ listed = {} /\ checked = {} /\ signals = {}
  /\ req = [q \in Requests |-> Idle]
  /\ seen = [q \in Requests |-> {}]

Next == Step /\ Watch

Spec == Init /\ [][Next]_vars

-----------------------------------------------------------------------------
(* Properties.                                                             *)

\* Types of the release, its items and the requests.
TypeOK ==
  /\ status \in Statuses /\ signature \in Marks /\ seeded \in 0..Len(DefaultChecklist)
  /\ checked \subseteq listed /\ listed \subseteq Items /\ signals \subseteq Signals
  /\ \A q \in Requests : req[q].pc \in Pcs
  /\ seen \in [Requests -> SUBSET Signals]

\* A sign-off that would pass its count rests on rules each of whose reads was
\* good at some moment since it began, or was held by a refresh then in flight;
\* never on what an older GET left in the checklist (releases.ts:645).
SignOffOnFreshRules ==
  \A q \in Requests : At(q, "count") /\ listed \subseteq checked => Needs(listed) \subseteq seen[q]

\* Of all the requests that passed the guard while the release was a draft, one
\* signs it: a signature is written only as the release goes from draft to signed
\* off, so none overrides a cancellation or rewrites another's; and it goes there
\* only with a signature of its own, whoever patches the status in between
\* (releases.ts:594, 628, 663).
SignOffOverridesNothing ==
  [][(signature' # signature) <=> (status = "draft" /\ status' = "signed_off")
     /\ (status' = "signed_off" => status # "cancelled")]_release

\* What the comment at releases.ts:645 says of the gate: a sign-off does not pass
\* when its own evaluation found a rule unmet.
GateReflectsOwnRead ==
  \A q \in Requests : At(q, "sign") => req[q].unmet = {}
=============================================================================
