----------------------------- MODULE Quarantine -----------------------------
(***************************************************************************)
(* The quarantined tests of one suite (routes/quarantine.ts): people add,  *)
(* renew and remove rows, the end of an upload adds rows for flaky tests   *)
(* (auto-quarantine.ts), and the nightly sweep of every task lifts the     *)
(* rows whose expiry has passed (retention.ts).                            *)
(*                                                                         *)
(* A row is its expiry: "never" (NULL), "future" or "past".  A row that is *)
(* deleted and added again has another id: a sweep that still holds the    *)
(* old one has the test in its gone set.                                   *)
(***************************************************************************)
EXTENDS Naturals, FiniteSets

CONSTANTS Tests,        \* tests of the suite
          Sweepers      \* tasks, each with its own nightly timer

VARIABLES row,          \* quarantined_tests: the expiry, NoRow where there is none
          sweep,        \* the sweep of each task and its local variables
          promised      \* ghost: the last that was done to the test put it in quarantine
                        \* for good, or up to a moment that has not come yet

quarantine == <<row, sweep, promised>>

NoRow == "no row"
Expiries == {"never", "future", "past"}
Quarantined == {t \in Tests : row[t] # NoRow}
Expired(t) == row[t] = "past"

Promise(t, b) == promised' = [promised EXCEPT ![t] = b]

Idle == [todo |-> {}, gone |-> {}, lifted |-> {}]

\* The row of t goes: every sweep of others that selected it holds a dead id.
Remove(t, swept, others) ==
  /\ row' = [row EXCEPT ![t] = NoRow]
  /\ sweep' = [s \in Sweepers |-> IF s \in others
                                  THEN [swept[s] EXCEPT !.gone = @ \cup ({t} \cap swept[s].todo)]
                                  ELSE swept[s]]

-----------------------------------------------------------------------------
(* Requests and time.                                                      *)

\* POST adds a row or renews it; an expiry must lie in the future.
Add(t, e) ==
  /\ row' = [row EXCEPT ![t] = e] /\ Promise(t, TRUE)
  /\ UNCHANGED sweep

Delete(t) ==
  /\ t \in Quarantined
  /\ Remove(t, sweep, Sweepers) /\ Promise(t, FALSE)

\* ON CONFLICT DO NOTHING: a row that has expired and is not lifted yet stays expired.
InsertAuto(t) ==
  /\ row' = [row EXCEPT ![t] = IF @ = NoRow THEN "never" ELSE @]
  /\ Promise(t, promised[t] \/ row[t] = NoRow)
  /\ UNCHANGED sweep

Expire(t) ==
  /\ row[t] = "future" /\ row' = [row EXCEPT ![t] = "past"] /\ Promise(t, FALSE)
  /\ UNCHANGED sweep

-----------------------------------------------------------------------------
(* expireQuarantines on task s.                                            *)

\* A row that expires after the sweep has read its own clock is not selected.
SelectExpired(s, found) ==
  /\ sweep[s] = Idle
  /\ found # {} /\ \A t \in found : Expired(t)
  /\ sweep' = [sweep EXCEPT ![s].todo = found]
  /\ UNCHANGED <<row, promised>>

\* Mutant of Liftable: the DELETE is by id only.
LiftableById(s, t) == t \notin sweep[s].gone /\ t \in Quarantined

\* The DELETE is by id and asks for the expiry once more.
Liftable(s, t) == t \notin sweep[s].gone /\ Expired(t)

Turn(s, t) == sweep[s].lifted = {} /\ t \in sweep[s].todo

Lift(s, t) ==
  /\ Turn(s, t) /\ Liftable(s, t)
  /\ Remove(t, [sweep EXCEPT ![s].todo = @ \ {t}, ![s].lifted = {t}], Sweepers \ {s})
  /\ UNCHANGED promised

\* The DELETE returned no row: it is not audited.
Lost(s, t) ==
  /\ Turn(s, t) /\ ~Liftable(s, t)
  /\ sweep' = [sweep EXCEPT ![s].todo = @ \ {t}, ![s].gone = @ \ {t}]
  /\ UNCHANGED <<row, promised>>

\* logAudit swallows its errors.
Audit(s) ==
  /\ sweep[s].lifted # {}
  /\ sweep' = [sweep EXCEPT ![s].lifted = {}]
  /\ UNCHANGED <<row, promised>>

\* A DELETE throws or the process ends: what is left waits for the next night.
SweepFails(s) ==
  /\ sweep[s] # Idle
  /\ sweep' = [sweep EXCEPT ![s] = Idle]
  /\ UNCHANGED <<row, promised>>

-----------------------------------------------------------------------------
People ==
  \E t \in Tests : Delete(t) \/ Expire(t) \/ \E e \in {"never", "future"} : Add(t, e)

Sweep(s) ==
  \/ \E found \in SUBSET Tests : SelectExpired(s, found)
  \/ \E t \in Tests : Lift(s, t) \/ Lost(s, t)
  \/ Audit(s) \/ SweepFails(s)

QuarantineInit ==
  /\ row = [t \in Tests |-> NoRow]
  /\ sweep = [s \in Sweepers |-> Idle]
  /\ promised = [t \in Tests |-> FALSE]

QuarantineNext ==
  \/ People
  \/ \E t \in Tests : InsertAuto(t)
  \/ \E s \in Sweepers : Sweep(s)

QuarantineSpec == QuarantineInit /\ [][QuarantineNext]_quarantine

-----------------------------------------------------------------------------
(* Properties.                                                             *)

\* The rows and the sweeps stay in their types.
QuarantineTypeOK ==
  /\ row \in [Tests -> Expiries \cup {NoRow}]
  /\ sweep \in [Sweepers -> [todo : SUBSET Tests, gone : SUBSET Tests, lifted : SUBSET Tests]]
  /\ promised \in [Tests -> BOOLEAN]

\* A test that was quarantined for good, or up to a moment still to come, is in
\* quarantine until somebody deletes it or that moment passes, also when a sweep holds
\* the test from the time when an earlier quarantine of it had expired: renewed, or
\* removed and added again, it stands (retention.ts:317-323).
QuarantineStands == \A t \in Tests : promised[t] => t \in Quarantined
=============================================================================
