------------------------------ MODULE AuditLog ------------------------------
(***************************************************************************)
(* The per-organisation audit hash chain: appendAuditEntry of              *)
(* backend/src/audit.ts, run by any number of concurrent request handlers  *)
(* over one PostgreSQL database, and the hashing of audit-chain.ts.        *)
(*                                                                         *)
(* An append is one READ COMMITTED transaction and every statement of it   *)
(* is an action, so other appends interleave between any two of them:      *)
(*   Begin (fixes NOW()), Lock (pg_advisory_xact_lock), ReadHead, Insert   *)
(*   (takes the BIGSERIAL id), SetHash, Commit; Rollback at any point.     *)
(*                                                                         *)
(* SHA-256 is modelled as an ideal hash: the hash of a row is the sequence *)
(* of the contents hashed into it, so it is injective in the predecessor   *)
(* hash and in the content, and a hash names the whole history before it.  *)
(* action, target and detail are one opaque Body.  The chain lock and the  *)
(* rows are per organisation, the id sequence is shared by all of them.    *)
(***************************************************************************)
EXTENDS Integers, Sequences, FiniteSets

CONSTANTS
  Orgs,        \* organisations (tenants)
  Writers,     \* handlers, each running at most one append at a time
  Bodies,      \* what is logged: action, target and detail
  Nobody,      \* the holder of a free advisory lock
  LegacyOrgs,  \* LegacyOrgs[i]: the owner of row i, written before migration 064
  MaxTx        \* bound: number of append transactions begun

ASSUME OrgsAssumption == Orgs # {}
ASSUME NobodyAssumption == Nobody \notin Writers
ASSUME LegacyAssumption == LegacyOrgs \in Seq(Orgs)
ASSUME MaxTxAssumption == MaxTx \in Nat
ASSUME BodiesAssumption == Bodies # {}

VARIABLES
  audit_log,   \* the committed rows
  nextId,      \* the BIGSERIAL sequence of audit_log.id
  clock,       \* transaction_timestamp() handed to the next BEGIN
  lock,        \* lock[o]: holder of the advisory lock of organisation o
  tx,          \* tx[w]: where writer w's transaction is and its variables
  dirty        \* dirty[w]: the row w has inserted and not committed yet

vars == <<audit_log, nextId, clock, lock, tx, dirty>>

-----------------------------------------------------------------------------
(* Rows and hashes *)

Content == [id : Nat, org : Orgs, body : Bodies, at : Nat]
Hash == Seq(Content)
Genesis == <<>>      \* the predecessor hash of the first hashed row
Null == <<>>         \* entry_hash IS NULL; no entry hash is the empty sequence

Row == [id : Nat, org : Orgs, body : Bodies, at : Nat, prev : Hash, hash : Hash]

ContentOf(r) == [id |-> r.id, org |-> r.org, body |-> r.body, at |-> r.at]

computeEntryHash(prev, content) == Append(prev, content)

\* The rows of organisation o in S that take part in the chain.
Hashed(S, o) == {r \in S : r.org = o /\ r.hash # Null}

\* Mutant of HeadHash: ORDER BY created_at DESC instead of id DESC.
HeadHashByCreatedAt(S, o) ==
  IF Hashed(S, o) = {} THEN Genesis
  ELSE (CHOOSE r \in Hashed(S, o) : \A q \in Hashed(S, o) : q.at <= r.at).hash

\* SELECT entry_hash ... WHERE entry_hash IS NOT NULL ORDER BY id DESC LIMIT 1
HeadHash(S, o) ==
  IF Hashed(S, o) = {} THEN Genesis
  ELSE (CHOOSE r \in Hashed(S, o) : \A q \in Hashed(S, o) : q.id <= r.id).hash

\* A row logged before the chain columns existed: both hashes are NULL.
LegacyRow(i) ==
  [id |-> i, org |-> LegacyOrgs[i], body |-> CHOOSE b \in Bodies : TRUE,
   at |-> 0, prev |-> Null, hash |-> Null]

-----------------------------------------------------------------------------
Steps == {"idle", "lock", "read", "insert", "hash", "commit"}

Tx == [pc : Steps, org : Orgs, body : Bodies, at : Nat, prev : Hash]

IdleTx == [pc |-> "idle", org |-> CHOOSE o \in Orgs : TRUE,
           body |-> CHOOSE b \in Bodies : TRUE, at |-> 0, prev |-> Genesis]

TypeOK ==
  /\ audit_log \subseteq Row
  /\ nextId \in Nat
  /\ clock \in Nat
  /\ lock \in [Orgs -> Writers \cup {Nobody}]
  /\ tx \in [Writers -> Tx]
  /\ dirty \in [Writers -> SUBSET Row]

Init ==
  /\ audit_log = {LegacyRow(i) : i \in 1 .. Len(LegacyOrgs)}
  /\ nextId = Len(LegacyOrgs) + 1
  /\ clock = 1
  /\ lock = [o \in Orgs |-> Nobody]
  /\ tx = [w \in Writers |-> IdleTx]
  /\ dirty = [w \in Writers |-> {}]

-----------------------------------------------------------------------------
(* One append, statement by statement *)

\* tenantTransaction: BEGIN fixes transaction_timestamp, before any lock.
Begin(w) ==
  /\ tx[w].pc = "idle"
  /\ clock <= MaxTx
  /\ \E o \in Orgs, b \in Bodies :
       tx' = [tx EXCEPT ![w] = [pc |-> "lock", org |-> o, body |-> b,
                                at |-> clock, prev |-> Genesis]]
  /\ clock' = clock + 1
  /\ UNCHANGED <<audit_log, nextId, lock, dirty>>

\* Mutant of Lock: pg_try_advisory_xact_lock with its answer ignored.
LockNotAwaited(w) ==
  /\ tx[w].pc = "lock"
  /\ lock' = [lock EXCEPT ![tx[w].org] = w]
  /\ tx' = [tx EXCEPT ![w].pc = "read"]
  /\ UNCHANGED <<audit_log, nextId, clock, dirty>>

\* SELECT pg_advisory_xact_lock(class, org): waits until the lock is free.
Lock(w) ==
  /\ tx[w].pc = "lock"
  /\ lock[tx[w].org] = Nobody
  /\ lock' = [lock EXCEPT ![tx[w].org] = w]
  /\ tx' = [tx EXCEPT ![w].pc = "read"]
  /\ UNCHANGED <<audit_log, nextId, clock, dirty>>

ReadHead(w) ==
  /\ tx[w].pc = "read"
  /\ tx' = [tx EXCEPT ![w].pc = "insert",
                      ![w].prev = HeadHash(audit_log, tx[w].org)]
  /\ UNCHANGED <<audit_log, nextId, clock, lock, dirty>>

\* INSERT ... RETURNING id: the sequence moves even if the row is rolled back.
Insert(w) ==
  /\ tx[w].pc = "insert"
  /\ dirty' = [dirty EXCEPT ![w] =
                 {[id |-> nextId, org |-> tx[w].org, body |-> tx[w].body,
                   at |-> tx[w].at, prev |-> tx[w].prev, hash |-> Null]}]
  /\ nextId' = nextId + 1
  /\ tx' = [tx EXCEPT ![w].pc = "hash"]
  /\ UNCHANGED <<audit_log, clock, lock>>

SetHash(w) ==
  /\ tx[w].pc = "hash"
  /\ dirty' = [dirty EXCEPT ![w] =
                 {[r EXCEPT !.hash = computeEntryHash(tx[w].prev, ContentOf(r))] : r \in @}]
  /\ tx' = [tx EXCEPT ![w].pc = "commit"]
  /\ UNCHANGED <<audit_log, nextId, clock, lock>>

\* Mutant of Release: a session-level lock, kept by COMMIT and ROLLBACK.
ReleaseForgotten(w) == lock' = lock

\* The end of the transaction frees the advisory lock if w holds it.
Release(w) ==
  lock' = [o \in Orgs |-> IF lock[o] = w THEN Nobody ELSE lock[o]]

Commit(w) ==
  /\ tx[w].pc = "commit"
  /\ audit_log' = audit_log \cup dirty[w]
  /\ dirty' = [dirty EXCEPT ![w] = {}]
  /\ tx' = [tx EXCEPT ![w] = IdleTx]
  /\ Release(w)
  /\ UNCHANGED <<nextId, clock>>

\* Any statement may fail, or the process may die: ROLLBACK.  appendAuditEntry
\* rethrows and logAudit swallows; neither leaves anything behind.
Rollback(w) ==
  /\ tx[w].pc # "idle"
  /\ dirty' = [dirty EXCEPT ![w] = {}]
  /\ tx' = [tx EXCEPT ![w] = IdleTx]
  /\ Release(w)
  /\ UNCHANGED <<audit_log, nextId, clock>>

Progress(w) == Lock(w) \/ ReadHead(w) \/ Insert(w) \/ SetHash(w) \/ Commit(w)

Next == \E w \in Writers : Begin(w) \/ Progress(w) \/ Rollback(w)

Spec == Init /\ [][Next]_vars

-----------------------------------------------------------------------------
(* What the chain promises *)

\* Row q comes directly before row r among the hashed rows of its organisation.
DirectlyBefore(q, r) ==
  /\ q.org = r.org /\ q.hash # Null /\ q.id < r.id
  /\ \A p \in Hashed(audit_log, r.org) : ~ (q.id < p.id /\ p.id < r.id)

\* "Single well-defined head" (audit.ts): every hashed row carries the hash of
\* its own content and links to the hashed row directly before it in id order,
\* or to GENESIS if there is none; this is what verifyAuditChain recomputes.
ChainIntact ==
  \A r \in audit_log : r.hash # Null =>
    /\ r.hash = computeEntryHash(r.prev, ContentOf(r))
    /\ \/ /\ r.prev = Genesis
          /\ \A q \in Hashed(audit_log, r.org) : r.id <= q.id
       \/ \E q \in audit_log : DirectlyBefore(q, r) /\ r.prev = q.hash

\* "Two concurrent audits can't both read the same predecessor and fork the
\* chain" (audit.ts): no two rows of an organisation extend the same hash.
NoFork ==
  \A r, q \in audit_log :
    (r.org = q.org /\ r.hash # Null /\ q.hash # Null /\ r.prev = q.prev) => r = q

\* "Legacy rows form a leading prefix" (audit-chain.ts): no row without a hash
\* is ever committed after a hashed row of the same organisation.
LegacyIsPrefix ==
  \A r, q \in audit_log :
    (r.org = q.org /\ r.hash = Null /\ q.hash # Null) => r.id < q.id

\* "An org's own ids are committed in strictly increasing order" (audit-export.ts):
\* a row becomes visible only above every visible row of its organisation,
\* which is what lets a cursor on id never skip a row.
IdsCommitInOrder ==
  [][\A r \in audit_log' \ audit_log : \A q \in audit_log :
       q.org = r.org => q.id < r.id]_vars

\* An append that was begun comes to an end: the advisory lock is never left
\* held, so no handler waits on it for ever.
EveryAppendEnds ==
  \A w \in Writers : (tx[w].pc # "idle") ~> (tx[w].pc = "idle")

=============================================================================
