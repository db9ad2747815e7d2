---------------------------- MODULE AuditVerify ----------------------------
(***************************************************************************)
(* GET /audit/verify: verifyAuditChain of backend/src/audit-chain.ts walks *)
(* the log of one organisation in batches, each read in a transaction of   *)
(* its own, while appends go on; and one direct change of a stored row,    *)
(* the thing the chain is there to make visible.                           *)
(***************************************************************************)
EXTENDS AuditLog

CONSTANTS
  VerifiedOrg,   \* the organisation whose log is verified
  batchSize      \* opts.batchSize

ASSUME VerifyAssumption == VerifiedOrg \in Orgs /\ batchSize \in Nat \ {0}

VARIABLES
  walk,      \* the local variables of verifyAuditChain and its result
  change     \* "none", or whether the chain can show the change that was made

verifyVars == <<vars, walk, change>>

Changes == {"none", "visible", "hidden"}

\* sinceStart is what had been changed when the walk began.
Walk == [pc : {"idle", "walking", "ok", "broken"}, lastId : Int, started : BOOLEAN,
         expectedPrev : Hash, sinceStart : Changes]

VerifyTypeOK == walk \in Walk /\ change \in Changes

IdleWalk == [pc |-> "idle", lastId |-> -1, started |-> FALSE, expectedPrev |-> Genesis,
             sinceStart |-> "none"]

VerifyInit == Init /\ walk = IdleWalk /\ change = "none"

-----------------------------------------------------------------------------
(* The walk *)

\* Rows of the organisation past lastId: the keyset predicate.
Remaining == {r \in audit_log : r.org = VerifiedOrg /\ r.id > walk.lastId}

\* Mutant of IsRead: the batch is read in created_at order.
IsReadByDate(B) ==
  /\ B \subseteq Remaining
  /\ \A r \in B, q \in Remaining : q.at < r.at => q \in B
  /\ Cardinality(B) = batchSize \/ (Cardinality(B) < batchSize /\ B = Remaining)

\* B is the result of SELECT ... ORDER BY id ASC LIMIT batchSize.
IsRead(B) ==
  /\ B \subseteq Remaining
  /\ \A r \in B, q \in Remaining : q.id < r.id => q \in B
  /\ Cardinality(B) = batchSize \/ (Cardinality(B) < batchSize /\ B = Remaining)

\* The hashed rows of B before row r, and the one of them with the largest id.
HashedBefore(B, r) == {q \in B : q.hash # Null /\ q.id < r.id}

LastOf(S) == CHOOSE r \in S : \A q \in S : q.id <= r.id

\* Mutant of Accepts: a row without a hash is skipped wherever it is.
AcceptsAnyNull(B, r) ==
  r.hash # Null =>
    /\ r.prev = IF HashedBefore(B, r) = {} THEN walk.expectedPrev
                ELSE LastOf(HashedBefore(B, r)).hash
    /\ r.hash = computeEntryHash(r.prev, ContentOf(r))

\* The loop body on row r: legacy rows only before the first hashed row, then
\* every row links to the one before it and carries the hash of its content.
Accepts(B, r) ==
  IF r.hash = Null THEN ~ walk.started /\ HashedBefore(B, r) = {}
  ELSE /\ r.prev = IF HashedBefore(B, r) = {} THEN walk.expectedPrev
                   ELSE LastOf(HashedBefore(B, r)).hash
       /\ r.hash = computeEntryHash(r.prev, ContentOf(r))

VerifyStart ==
  /\ walk.pc = "idle"
  /\ walk' = [IdleWalk EXCEPT !.pc = "walking", !.sinceStart = change]
  /\ UNCHANGED <<vars, change>>

\* expectedPrev after a batch with these hashed rows.
ExpectedPrev(hashed) == IF hashed = {} THEN walk.expectedPrev ELSE LastOf(hashed).hash

VerifyBatch ==
  /\ walk.pc = "walking"
  /\ \E B \in SUBSET Remaining :
       /\ IsRead(B)
       /\ LET hashed == {r \in B : r.hash # Null}
          IN  walk' =
                IF \E r \in B : ~ Accepts(B, r) THEN [walk EXCEPT !.pc = "broken"]
                ELSE [walk EXCEPT !.pc = IF Cardinality(B) < batchSize THEN "ok" ELSE @,
                                  !.lastId = IF B = {} THEN @ ELSE LastOf(B).id,
                                  !.started = @ \/ hashed # {},
                                  !.expectedPrev = ExpectedPrev(hashed)]
  /\ UNCHANGED <<vars, change>>

\* The report has been sent; another request may come.
VerifyAgain ==
  /\ walk.pc \in {"ok", "broken"}
  /\ walk' = IdleWalk
  /\ UNCHANGED <<vars, change>>

-----------------------------------------------------------------------------
(* A row changed behind the application's back, once *)

\* Some hashed row of the organisation of r has a smaller (a larger) id.
Preceded(r) == \E q \in Hashed(audit_log, r.org) : q.id < r.id
Followed(r) == \E q \in Hashed(audit_log, r.org) : q.id > r.id

Changed(S, visible) ==
  /\ change = "none"
  /\ audit_log' = S
  /\ change' = IF visible THEN "visible" ELSE "hidden"
  /\ UNCHANGED <<nextId, clock, lock, tx, dirty, walk>>

EditRow ==
  \E r \in Hashed(audit_log, VerifiedOrg) : \E b \in Bodies \ {r.body} :
    Changed((audit_log \ {r}) \cup {[r EXCEPT !.body = b]}, TRUE)

\* Clearing a hash shows unless the row can pass for a legacy one.
ClearHash ==
  \E r \in Hashed(audit_log, VerifiedOrg) :
    Changed((audit_log \ {r}) \cup {[r EXCEPT !.hash = Null]}, Preceded(r) \/ Followed(r))

\* A removed row shows by the row that linked to it; the newest leaves no link.
RemoveRow ==
  \E r \in Hashed(audit_log, VerifiedOrg) : Changed(audit_log \ {r}, Followed(r))

VerifyNext ==
  \/ Next /\ UNCHANGED <<walk, change>>
  \/ VerifyStart \/ VerifyBatch \/ VerifyAgain
  \/ EditRow \/ ClearHash \/ RemoveRow

VerifySpec == VerifyInit /\ [][VerifyNext]_verifyVars

-----------------------------------------------------------------------------
(* What a report means *)

\* A log nobody changed is never reported broken, although rows are appended
\* between the batches of the walk.
NoFalseAlarm == change = "none" => walk.pc # "broken"

\* An edited row, a cleared hash or a row removed from inside the chain before
\* the walk began is always reported, whatever was appended since.
ChangeReported == walk.sinceStart = "visible" => walk.pc # "ok"

=============================================================================
