---------------------------- MODULE AuditProofs ----------------------------
(***************************************************************************)
(* What AuditLog promises, proved for any organisations, writers, bodies,  *)
(* legacy rows and number of appends; and what the two readers of the log  *)
(* promise on top of it: the export, for any destinations, ticks, batch    *)
(* size and number of batches, and the walk of GET /audit/verify, for any  *)
(* batch size.                                                             *)
(***************************************************************************)
EXTENDS AuditExport, AuditVerify, SequenceTheorems, FiniteSetTheorems, WellFoundedInduction, TLAPS

-----------------------------------------------------------------------------
(* The log *)

\* A writer between Lock and the end of its transaction.
InLock(w) == tx[w].pc \in {"read", "insert", "hash", "commit"}

\* h is what the predecessor lookup finds among the rows S of organisation o.
IsHead(S, o, h) ==
  \/ Hashed(S, o) = {} /\ h = Genesis
  \/ \E q \in Hashed(S, o) : h = q.hash /\ \A p \in Hashed(S, o) : p.id <= q.id

\* The advisory lock of an organisation is held by the writer inside it.
LockInv == \A w \in Writers : InLock(w) => lock[tx[w].org] = w

\* The sequence is above every id it has handed out.
IdsBelowNext ==
  /\ \A r \in audit_log : r.id < nextId
  /\ \A w \in Writers : \A r \in dirty[w] : r.id < nextId

\* The predecessor a writer holds is still the head, for nobody else in its
\* organisation can commit.
PrevIsHead ==
  \A w \in Writers : tx[w].pc \in {"insert", "hash", "commit"} =>
                       IsHead(audit_log, tx[w].org, tx[w].prev)

\* An uncommitted row belongs to the writer's transaction, is above every
\* committed row of its organisation, and is hashed before Commit.
DirtyInv ==
  \A w \in Writers : \A r \in dirty[w] :
    /\ tx[w].pc \in {"hash", "commit"}
    /\ r.org = tx[w].org
    /\ r.prev = tx[w].prev
    /\ \A q \in audit_log : q.org = r.org => q.id < r.id
    /\ tx[w].pc = "commit" => r.hash = computeEntryHash(r.prev, ContentOf(r))
    /\ \A p \in dirty[w] : p = r

\* Ids identify rows of an organisation, and a chain that is not empty has a head.
HeadExists ==
  /\ \A r, q \in audit_log : r.org = q.org /\ r.id = q.id => r = q
  /\ \A o \in Orgs : Hashed(audit_log, o) = {} \/
       \E q \in Hashed(audit_log, o) : \A p \in Hashed(audit_log, o) : p.id <= q.id

\* What the appends keep whatever the rows say: it survives a change of stored rows.
OrderInv ==
  /\ TypeOK
  /\ LockInv
  /\ IdsBelowNext
  /\ DirtyInv
  /\ HeadExists

IInv ==
  /\ OrderInv
  /\ PrevIsHead
  /\ ChainIntact
  /\ LegacyIsPrefix

-----------------------------------------------------------------------------
(* Facts about the operators *)

\* A legacy row is a row of its owner and is not hashed.
LEMMA LegacyRowType ==
  ASSUME NEW i \in 1 .. Len(LegacyOrgs)
  PROVE  LegacyRow(i) \in Row /\ LegacyRow(i).hash = Null /\ LegacyRow(i).id = i
<1>1. i \in Nat /\ Len(LegacyOrgs) \in Nat
  BY LegacyAssumption, LenProperties
<1>2. LegacyOrgs[i] \in Orgs
  BY LegacyAssumption, ElementOfSeq
<1>3. (CHOOSE b \in Bodies : TRUE) \in Bodies
  BY BodiesAssumption
<1>4. Null \in Hash
  BY EmptySeq DEF Null, Hash
<1>. QED BY <1>1, <1>2, <1>3, <1>4 DEF LegacyRow, Row

\* Hashing gives a hash, and never the value that stands for NULL.
LEMMA EntryHashType ==
  ASSUME NEW h \in Hash, NEW c \in Content
  PROVE  computeEntryHash(h, c) \in Hash /\ computeEntryHash(h, c) # Null
<1>1. /\ Append(h, c) \in Seq(Content)
      /\ Len(Append(h, c)) = Len(h) + 1
      /\ Len(h) \in Nat
  BY AppendProperties, LenProperties DEF Hash
<1>2. Len(Append(h, c)) # 0
  BY <1>1
<1>3. Append(h, c) # <<>>
  BY <1>2, EmptySeq
<1>. QED BY <1>1, <1>3 DEF computeEntryHash, Hash, Null

\* The hash is injective in the content hashed last (an ideal hash).
LEMMA EntryHashInjective ==
  ASSUME NEW h \in Hash, NEW k \in Hash, NEW c \in Content, NEW d \in Content,
         computeEntryHash(h, c) = computeEntryHash(k, d)
  PROVE  c = d
<1>1. /\ Len(Append(h, c)) = Len(h) + 1 /\ Append(h, c)[Len(h) + 1] = c
      /\ Len(Append(k, d)) = Len(k) + 1 /\ Append(k, d)[Len(k) + 1] = d
      /\ Len(h) \in Nat /\ Len(k) \in Nat
  BY AppendProperties, LenProperties DEF Hash
<1>2. Append(h, c) = Append(k, d)
  BY DEF computeEntryHash
<1>3. Len(h) = Len(k)
  BY <1>1, <1>2
<1>. QED BY <1>1, <1>2, <1>3

\* The lookup returns the hash of a row of the largest id, or GENESIS.
LEMMA HeadHashIsHead ==
  ASSUME NEW S, NEW o,
         Hashed(S, o) = {} \/ \E q \in Hashed(S, o) : \A p \in Hashed(S, o) : p.id <= q.id
  PROVE  IsHead(S, o, HeadHash(S, o))
BY DEF IsHead, HeadHash

\* GENESIS and NULL are values of the type of hashes.
LEMMA GenesisType == Genesis \in Hash /\ Null \in Hash
BY EmptySeq DEF Genesis, Null, Hash

\* A head found among typed rows is a hash.
LEMMA HeadType ==
  ASSUME NEW S \in SUBSET Row, NEW o, NEW h, IsHead(S, o, h)
  PROVE  h \in Hash
<1>1. CASE h = Genesis
  BY <1>1, GenesisType
<1>2. CASE \E q \in S : h = q.hash
  BY <1>2 DEF Row
<1>. QED BY <1>1, <1>2 DEF IsHead, Hashed

\* The record of a writer without a transaction is well typed.
LEMMA IdleTxType == IdleTx \in Tx /\ IdleTx.pc = "idle"
<1>1. (CHOOSE o \in Orgs : TRUE) \in Orgs
  BY OrgsAssumption
<1>2. (CHOOSE b \in Bodies : TRUE) \in Bodies
  BY BodiesAssumption
<1>. QED BY <1>1, <1>2, GenesisType DEF IdleTx, Tx, Steps

-----------------------------------------------------------------------------
(* The invariant holds initially and every action preserves it *)

\* Before the first append there are only legacy rows.
LEMMA InitIInv == Init => IInv
<1>. SUFFICES ASSUME Init PROVE IInv
  OBVIOUS
<1>1. \A r \in audit_log : \E i \in 1 .. Len(LegacyOrgs) :
         r = LegacyRow(i) /\ r \in Row /\ r.hash = Null /\ r.id = i
  BY LegacyRowType DEF Init
<1>2. Len(LegacyOrgs) \in Nat
  BY LegacyAssumption, LenProperties
<1>3. \A w \in Writers : tx[w] \in Tx /\ tx[w].pc = "idle" /\ dirty[w] = {}
  BY IdleTxType DEF Init
<1>4. \A o \in Orgs : Hashed(audit_log, o) = {}
  BY <1>1 DEF Hashed
<1>5. TypeOK
  <2>1. audit_log \subseteq Row
    BY <1>1
  <2>2. tx \in [Writers -> Tx]
    BY IdleTxType DEF Init
  <2>. QED BY <2>1, <2>2, <1>2 DEF TypeOK, Init
<1>6. LockInv /\ PrevIsHead /\ DirtyInv
  BY <1>3 DEF LockInv, InLock, PrevIsHead, DirtyInv
<1>7. IdsBelowNext
  BY <1>1, <1>2, <1>3 DEF IdsBelowNext, Init
<1>8. HeadExists
  BY <1>1, <1>4 DEF HeadExists
<1>9. ChainIntact /\ LegacyIsPrefix
  BY <1>1 DEF ChainIntact, LegacyIsPrefix
<1>. QED BY <1>5, <1>6, <1>7, <1>8, <1>9 DEF IInv, OrderInv

\* An action that leaves the committed rows alone leaves the chain alone.
LEMMA LogUnchanged ==
  ASSUME audit_log' = audit_log
  PROVE  /\ HeadExists => HeadExists'
         /\ ChainIntact => ChainIntact'
         /\ LegacyIsPrefix => LegacyIsPrefix'
BY DEF HeadExists, ChainIntact, LegacyIsPrefix, Hashed, DirectlyBefore

\* Begin opens a transaction that holds nothing and has inserted nothing.
LEMMA BeginStep ==
  ASSUME OrderInv, NEW w \in Writers, Begin(w)
  PROVE  OrderInv' /\ (PrevIsHead => PrevIsHead')
<1>. PICK o \in Orgs, b \in Bodies :
       tx' = [tx EXCEPT ![w] = [pc |-> "lock", org |-> o, body |-> b,
                                at |-> clock, prev |-> Genesis]]
  BY DEF Begin
<1>1. TypeOK'
  BY GenesisType DEF OrderInv, TypeOK, Begin, Tx, Steps
<1>2. tx'[w].pc = "lock" /\ \A v \in Writers : v # w => tx'[v] = tx[v]
  BY DEF OrderInv, TypeOK
<1>3. dirty[w] = {}
  BY DEF OrderInv, DirtyInv, Begin
<1>4. LockInv'
  BY <1>2 DEF OrderInv, LockInv, InLock, Begin
<1>5. IdsBelowNext'
  BY DEF OrderInv, IdsBelowNext, Begin
<1>6. PrevIsHead => PrevIsHead'
  BY <1>2 DEF OrderInv, PrevIsHead, Begin, IsHead, Hashed
<1>7. DirtyInv'
  BY <1>2, <1>3 DEF OrderInv, DirtyInv, Begin
<1>. QED BY <1>1, <1>4, <1>5, <1>6, <1>7, LogUnchanged DEF OrderInv, Begin

\* Lock is only granted when no other writer of the organisation is past it.
LEMMA LockStep ==
  ASSUME OrderInv, NEW w \in Writers, Lock(w)
  PROVE  OrderInv' /\ (PrevIsHead => PrevIsHead')
<1>1. TypeOK'
  BY DEF OrderInv, TypeOK, Lock, Tx, Steps
<1>2. /\ tx'[w].pc = "read" /\ tx'[w].org = tx[w].org
      /\ \A v \in Writers : v # w => tx'[v] = tx[v]
  BY DEF OrderInv, TypeOK, Lock, Tx
<1>3. dirty[w] = {}
  BY DEF OrderInv, DirtyInv, Lock
<1>4. LockInv'
  <2>1. lock'[tx[w].org] = w /\ \A o \in Orgs : o # tx[w].org => lock'[o] = lock[o]
    BY DEF OrderInv, TypeOK, Lock, Tx
  <2>2. \A v \in Writers : InLock(v) => tx[v].org # tx[w].org
    BY NobodyAssumption DEF OrderInv, LockInv, Lock
  <2>3. ASSUME NEW v \in Writers, v # w, InLock(v)' PROVE lock'[tx'[v].org] = v
    <3>1. tx'[v] = tx[v] /\ InLock(v) /\ tx[v].org \in Orgs
      BY <1>2, <2>3 DEF InLock, OrderInv, TypeOK, Tx
    <3>. QED BY <3>1, <2>1, <2>2 DEF OrderInv, LockInv
  <2>. QED BY <1>2, <2>1, <2>3 DEF LockInv
<1>5. IdsBelowNext'
  BY DEF OrderInv, IdsBelowNext, Lock
<1>6. PrevIsHead => PrevIsHead'
  BY <1>2 DEF OrderInv, PrevIsHead, Lock, IsHead, Hashed
<1>7. DirtyInv'
  BY <1>2, <1>3 DEF OrderInv, DirtyInv, Lock
<1>. QED BY <1>1, <1>4, <1>5, <1>6, <1>7, LogUnchanged DEF OrderInv, Lock

\* ReadHead stores the head, which the lock keeps in place until the commit.
LEMMA ReadHeadStep ==
  ASSUME OrderInv, NEW w \in Writers, ReadHead(w)
  PROVE  OrderInv' /\ (PrevIsHead => PrevIsHead')
<1>0. tx[w].org \in Orgs
  BY DEF OrderInv, TypeOK, Tx
<1>. DEFINE h == HeadHash(audit_log, tx[w].org)
<1>1. IsHead(audit_log, tx[w].org, h)
  BY <1>0, HeadHashIsHead DEF OrderInv, HeadExists
<1>2. h \in Hash
  BY <1>1, HeadType DEF OrderInv, TypeOK
<1>. HIDE DEF h
<1>3. /\ tx' = [tx EXCEPT ![w].pc = "insert", ![w].prev = h]
      /\ tx[w].pc = "read"
      /\ UNCHANGED <<audit_log, nextId, clock, lock, dirty>>
  BY DEF ReadHead, h
<1>4. TypeOK'
  BY <1>2, <1>3 DEF OrderInv, TypeOK, Tx, Steps
<1>5. /\ tx'[w].pc = "insert" /\ tx'[w].org = tx[w].org /\ tx'[w].prev = h
      /\ \A v \in Writers : v # w => tx'[v] = tx[v]
  BY <1>3 DEF OrderInv, TypeOK, Tx
<1>6. dirty[w] = {}
  BY <1>3 DEF OrderInv, DirtyInv
<1>7. LockInv'
  BY <1>3, <1>5 DEF OrderInv, LockInv, InLock
<1>8. IdsBelowNext'
  BY <1>3 DEF OrderInv, IdsBelowNext
<1>9. ASSUME PrevIsHead PROVE PrevIsHead'
  <2>1. ASSUME NEW v \in Writers, tx'[v].pc \in {"insert", "hash", "commit"}
        PROVE  IsHead(audit_log, tx'[v].org, tx'[v].prev)
    BY <2>1, <1>1, <1>5, <1>9 DEF OrderInv, PrevIsHead
  <2>. QED BY <2>1, <1>3 DEF PrevIsHead
<1>10. DirtyInv'
  BY <1>3, <1>5, <1>6 DEF OrderInv, DirtyInv
<1>. QED BY <1>3, <1>4, <1>7, <1>8, <1>9, <1>10, LogUnchanged DEF OrderInv

\* Insert takes an id above every row there is, committed or not.
LEMMA InsertStep ==
  ASSUME OrderInv, NEW w \in Writers, Insert(w)
  PROVE  OrderInv' /\ (PrevIsHead => PrevIsHead')
<1>. DEFINE r == [id |-> nextId, org |-> tx[w].org, body |-> tx[w].body,
                  at |-> tx[w].at, prev |-> tx[w].prev, hash |-> Null]
<1>1. r \in Row
  BY GenesisType DEF OrderInv, TypeOK, Tx, Row
<1>2. /\ r.id = nextId /\ r.org = tx[w].org /\ r.prev = tx[w].prev
  OBVIOUS
<1>. HIDE DEF r
<1>3. /\ dirty' = [dirty EXCEPT ![w] = {r}]
      /\ nextId' = nextId + 1
      /\ tx' = [tx EXCEPT ![w].pc = "hash"]
      /\ tx[w].pc = "insert"
      /\ UNCHANGED <<audit_log, clock, lock>>
  BY DEF Insert, r
<1>4. TypeOK'
  BY <1>1, <1>3 DEF OrderInv, TypeOK, Tx, Steps
<1>5. /\ tx'[w].pc = "hash" /\ tx'[w].org = tx[w].org /\ tx'[w].prev = tx[w].prev
      /\ \A v \in Writers : v # w => tx'[v] = tx[v] /\ dirty'[v] = dirty[v]
      /\ dirty'[w] = {r}
  BY <1>3 DEF OrderInv, TypeOK, Tx
<1>6. LockInv'
  BY <1>3, <1>5 DEF OrderInv, LockInv, InLock
<1>7. IdsBelowNext'
  <2>1. nextId \in Nat /\ \A q \in audit_log : q.id \in Nat
    BY DEF OrderInv, TypeOK, Row
  <2>2. \A v \in Writers : \A q \in dirty[v] : q.id \in Nat
    BY DEF OrderInv, TypeOK, Row
  <2>. QED BY <1>2, <1>3, <1>5, <2>1, <2>2 DEF OrderInv, IdsBelowNext
<1>8. PrevIsHead => PrevIsHead'
  BY <1>3, <1>5 DEF OrderInv, PrevIsHead, IsHead, Hashed
<1>9. DirtyInv'
  <2>1. \A q \in audit_log : q.id < r.id
    BY <1>2 DEF OrderInv, IdsBelowNext
  <2>. QED BY <1>2, <1>3, <1>5, <2>1 DEF OrderInv, DirtyInv
<1>. QED BY <1>3, <1>4, <1>6, <1>7, <1>8, <1>9, LogUnchanged DEF OrderInv

\* SetHash gives the uncommitted row the hash of its own content.
LEMMA SetHashStep ==
  ASSUME OrderInv, NEW w \in Writers, SetHash(w)
  PROVE  OrderInv' /\ (PrevIsHead => PrevIsHead')
<1>. DEFINE hashed(r) == [r EXCEPT !.hash = computeEntryHash(tx[w].prev, ContentOf(r))]
<1>1. ASSUME NEW r \in Row, r.prev = tx[w].prev
      PROVE  /\ hashed(r) \in Row
             /\ hashed(r).id = r.id /\ hashed(r).org = r.org /\ hashed(r).prev = r.prev
             /\ hashed(r).hash = computeEntryHash(hashed(r).prev, ContentOf(hashed(r)))
  <2>1. ContentOf(r) \in Content /\ ContentOf(hashed(r)) = ContentOf(r)
    BY DEF ContentOf, Content, Row
  <2>2. computeEntryHash(tx[w].prev, ContentOf(r)) \in Hash
    BY <2>1, EntryHashType DEF OrderInv, TypeOK, Tx
  <2>. QED BY <1>1, <2>1, <2>2 DEF Row
<1>2. \A r \in dirty[w] : r \in Row /\ r.prev = tx[w].prev /\ r.org = tx[w].org
  BY DEF OrderInv, TypeOK, DirtyInv
<1>3. /\ dirty' = [dirty EXCEPT ![w] = {hashed(r) : r \in dirty[w]}]
      /\ tx' = [tx EXCEPT ![w].pc = "commit"]
      /\ tx[w].pc = "hash"
      /\ UNCHANGED <<audit_log, nextId, clock, lock>>
  BY DEF SetHash, OrderInv, TypeOK
<1>. HIDE DEF hashed
<1>4. TypeOK'
  <2>1. {hashed(r) : r \in dirty[w]} \subseteq Row
    BY <1>1, <1>2
  <2>. QED BY <2>1, <1>3 DEF OrderInv, TypeOK, Tx, Steps
<1>5. /\ tx'[w].pc = "commit" /\ tx'[w].org = tx[w].org /\ tx'[w].prev = tx[w].prev
      /\ \A v \in Writers : v # w => tx'[v] = tx[v] /\ dirty'[v] = dirty[v]
      /\ dirty'[w] = {hashed(r) : r \in dirty[w]}
  BY <1>3 DEF OrderInv, TypeOK, Tx
<1>6. LockInv'
  BY <1>3, <1>5 DEF OrderInv, LockInv, InLock
<1>7. IdsBelowNext'
  BY <1>1, <1>2, <1>3, <1>5 DEF OrderInv, IdsBelowNext
<1>8. PrevIsHead => PrevIsHead'
  BY <1>3, <1>5 DEF OrderInv, PrevIsHead, IsHead, Hashed
<1>9. DirtyInv'
  <2>1. ASSUME NEW v \in Writers, v # w, NEW r \in dirty'[v]
        PROVE  /\ tx'[v].pc \in {"hash", "commit"} /\ r.org = tx'[v].org /\ r.prev = tx'[v].prev
               /\ \A q \in audit_log' : q.org = r.org => q.id < r.id
               /\ tx'[v].pc = "commit" => r.hash = computeEntryHash(r.prev, ContentOf(r))
               /\ \A p \in dirty'[v] : p = r
    BY <2>1, <1>3, <1>5 DEF OrderInv, DirtyInv
  <2>2. ASSUME NEW r \in dirty'[w]
        PROVE  /\ r.org = tx'[w].org /\ r.prev = tx'[w].prev
               /\ \A q \in audit_log' : q.org = r.org => q.id < r.id
               /\ r.hash = computeEntryHash(r.prev, ContentOf(r))
               /\ \A p \in dirty'[w] : p = r
    BY <1>1, <1>2, <1>3, <1>5 DEF OrderInv, DirtyInv
  <2>. QED BY <2>1, <2>2, <1>5 DEF DirtyInv
<1>. QED BY <1>3, <1>4, <1>6, <1>7, <1>8, <1>9, LogUnchanged DEF OrderInv

\* Two writers that are both past Lock work for different organisations.
LEMMA OneInLock ==
  ASSUME LockInv, NEW v \in Writers, NEW w \in Writers, InLock(v), InLock(w),
         tx[v].org = tx[w].org
  PROVE  v = w
BY DEF LockInv

\* The end of a transaction leaves the locks of every other writer in place.
LEMMA ReleaseKeeps ==
  ASSUME TypeOK, LockInv, NEW w \in Writers, Release(w), tx' = [tx EXCEPT ![w] = IdleTx]
  PROVE  LockInv' /\ lock' \in [Orgs -> Writers \cup {Nobody}]
<1>1. tx'[w].pc = "idle" /\ \A v \in Writers : v # w => tx'[v] = tx[v]
  BY IdleTxType DEF TypeOK
<1>2. ASSUME NEW v \in Writers, InLock(v)' PROVE lock'[tx'[v].org] = v
  <2>1. v # w /\ InLock(v) /\ tx'[v] = tx[v] /\ tx[v].org \in Orgs
    BY <1>1, <1>2 DEF InLock, TypeOK, Tx
  <2>. QED BY <2>1 DEF Release, LockInv
<1>. QED BY <1>2 DEF LockInv, Release, TypeOK

\* Rollback drops the uncommitted row and frees only the writer's own lock.
LEMMA RollbackStep ==
  ASSUME OrderInv, NEW w \in Writers, Rollback(w)
  PROVE  OrderInv' /\ (PrevIsHead => PrevIsHead')
<1>1. LockInv' /\ lock' \in [Orgs -> Writers \cup {Nobody}]
  BY ReleaseKeeps DEF OrderInv, Rollback
<1>2. TypeOK'
  BY <1>1, IdleTxType DEF OrderInv, TypeOK, Rollback
<1>3. /\ tx'[w].pc = "idle" /\ dirty'[w] = {}
      /\ \A v \in Writers : v # w => tx'[v] = tx[v] /\ dirty'[v] = dirty[v]
  BY IdleTxType DEF OrderInv, TypeOK, Rollback
<1>4. IdsBelowNext'
  BY <1>3 DEF OrderInv, IdsBelowNext, Rollback
<1>5. PrevIsHead => PrevIsHead'
  BY <1>3 DEF OrderInv, PrevIsHead, Rollback, IsHead, Hashed
<1>6. DirtyInv'
  BY <1>3 DEF OrderInv, DirtyInv, Rollback
<1>. QED BY <1>1, <1>2, <1>4, <1>5, <1>6, LogUnchanged DEF OrderInv, Rollback

\* Commit shows the row, above every other of its organisation.
LEMMA CommitOrder ==
  ASSUME OrderInv, NEW w \in Writers, Commit(w)
  PROVE  OrderInv'
<1>. DEFINE o == tx[w].org
<1>1. LockInv' /\ lock' \in [Orgs -> Writers \cup {Nobody}]
  BY ReleaseKeeps DEF OrderInv, Commit
<1>2. TypeOK'
  BY <1>1, IdleTxType DEF OrderInv, TypeOK, Commit
<1>3. /\ tx'[w].pc = "idle" /\ dirty'[w] = {}
      /\ \A v \in Writers : v # w => tx'[v] = tx[v] /\ dirty'[v] = dirty[v]
      /\ audit_log' = audit_log \cup dirty[w]
  BY IdleTxType DEF OrderInv, TypeOK, Commit
<1>4. ASSUME NEW v \in Writers, v # w, InLock(v) PROVE tx[v].org # o
  BY <1>4, OneInLock DEF OrderInv, Commit, InLock
<1>5. ASSUME NEW r \in dirty[w]
      PROVE  /\ r \in Row /\ r.org = o /\ r.prev = tx[w].prev
             /\ r.hash = computeEntryHash(r.prev, ContentOf(r)) /\ r.hash # Null
             /\ \A q \in audit_log : q.org = o => q.id < r.id
             /\ \A p \in dirty[w] : p = r
  <2>1. /\ r \in Row /\ r.org = o /\ r.prev = tx[w].prev
        /\ r.hash = computeEntryHash(r.prev, ContentOf(r))
        /\ \A q \in audit_log : q.org = o => q.id < r.id
        /\ \A p \in dirty[w] : p = r
    BY DEF OrderInv, TypeOK, DirtyInv, Commit
  <2>2. r.prev \in Hash /\ ContentOf(r) \in Content
    BY <2>1 DEF Row, ContentOf, Content
  <2>3. computeEntryHash(r.prev, ContentOf(r)) # Null
    BY <2>2, EntryHashType
  <2>. QED BY <2>1, <2>3
<1>6. \A q \in audit_log : q \in Row /\ q.id \in Nat
  BY DEF OrderInv, TypeOK, Row
<1>7. \A r \in dirty[w] : r.id \in Nat
  BY <1>5 DEF Row
<1>. HIDE DEF o
<1>8. IdsBelowNext'
  BY <1>3 DEF OrderInv, IdsBelowNext, Commit
<1>10. DirtyInv'
  <2>1. ASSUME NEW v \in Writers, NEW r \in dirty'[v]
        PROVE  /\ tx'[v].pc \in {"hash", "commit"} /\ r.org = tx'[v].org /\ r.prev = tx'[v].prev
               /\ \A q \in audit_log' : q.org = r.org => q.id < r.id
               /\ tx'[v].pc = "commit" => r.hash = computeEntryHash(r.prev, ContentOf(r))
               /\ \A p \in dirty'[v] : p = r
    <3>1. v # w /\ tx'[v] = tx[v] /\ dirty'[v] = dirty[v] /\ r \in dirty[v]
      BY <1>3
    <3>2. /\ tx[v].pc \in {"hash", "commit"} /\ r.org = tx[v].org /\ r.prev = tx[v].prev
          /\ \A q \in audit_log : q.org = r.org => q.id < r.id
          /\ tx[v].pc = "commit" => r.hash = computeEntryHash(r.prev, ContentOf(r))
          /\ \A p \in dirty[v] : p = r
      BY <3>1 DEF OrderInv, DirtyInv
    <3>3. r.org # o
      BY <3>1, <3>2, <1>4 DEF InLock
    <3>4. \A q \in audit_log' : q.org = r.org => q.id < r.id
      BY <1>3, <1>5, <3>2, <3>3
    <3>. QED BY <3>1, <3>2, <3>4
  <2>. QED BY <2>1 DEF DirtyInv
<1>11. HeadExists'
  <2>1. ASSUME NEW r \in audit_log', NEW q \in audit_log', r.org = q.org, r.id = q.id
        PROVE  r = q
    BY <2>1, <1>3, <1>5, <1>6, <1>7 DEF OrderInv, HeadExists
  <2>2. ASSUME NEW a \in Orgs
        PROVE  Hashed(audit_log', a) = {} \/
                 \E q \in Hashed(audit_log', a) : \A p \in Hashed(audit_log', a) : p.id <= q.id
    <3>1. CASE \E r \in dirty[w] : a = o
      <4>. PICK r \in dirty[w] : a = o
        BY <3>1
      <4>1. r \in Hashed(audit_log', a)
        BY <1>3, <1>5 DEF Hashed
      <4>2. \A p \in Hashed(audit_log', a) : p.id <= r.id
        BY <1>3, <1>5, <1>6, <1>7 DEF Hashed
      <4>. QED BY <4>1, <4>2
    <3>2. CASE ~ \E r \in dirty[w] : a = o
      <4>1. Hashed(audit_log', a) = Hashed(audit_log, a)
        BY <3>2, <1>3, <1>5 DEF Hashed
      <4>. QED BY <4>1 DEF OrderInv, HeadExists
    <3>. QED BY <3>1, <3>2
  <2>. QED BY <2>1, <2>2 DEF HeadExists
<1>. QED BY <1>1, <1>2, <1>8, <1>10, <1>11 DEF OrderInv

\* Commit is where the chain grows: the new row links to the head, which no
\* other writer of the organisation can have moved since it was read.
LEMMA CommitStep ==
  ASSUME IInv, NEW w \in Writers, Commit(w)
  PROVE  IInv'
<1>. DEFINE o == tx[w].org
<1>1. OrderInv'
  BY CommitOrder DEF IInv
<1>3. /\ tx'[w].pc = "idle" /\ dirty'[w] = {}
      /\ \A v \in Writers : v # w => tx'[v] = tx[v] /\ dirty'[v] = dirty[v]
      /\ audit_log' = audit_log \cup dirty[w]
  BY IdleTxType DEF IInv, OrderInv, TypeOK, Commit
<1>4. ASSUME NEW v \in Writers, v # w, InLock(v) PROVE tx[v].org # o
  BY <1>4, OneInLock DEF IInv, OrderInv, Commit, InLock
<1>5. ASSUME NEW r \in dirty[w]
      PROVE  /\ r \in Row /\ r.org = o /\ r.prev = tx[w].prev
             /\ r.hash = computeEntryHash(r.prev, ContentOf(r)) /\ r.hash # Null
             /\ \A q \in audit_log : q.org = o => q.id < r.id
             /\ \A p \in dirty[w] : p = r
             /\ IsHead(audit_log, o, r.prev)
  <2>1. /\ r \in Row /\ r.org = o /\ r.prev = tx[w].prev
        /\ r.hash = computeEntryHash(r.prev, ContentOf(r))
        /\ \A q \in audit_log : q.org = o => q.id < r.id
        /\ \A p \in dirty[w] : p = r
        /\ IsHead(audit_log, o, r.prev)
    BY DEF IInv, OrderInv, TypeOK, DirtyInv, PrevIsHead, Commit
  <2>2. r.prev \in Hash /\ ContentOf(r) \in Content
    BY <2>1 DEF Row, ContentOf, Content
  <2>3. computeEntryHash(r.prev, ContentOf(r)) # Null
    BY <2>2, EntryHashType
  <2>. QED BY <2>1, <2>3
<1>6. \A q \in audit_log : q \in Row /\ q.id \in Nat
  BY DEF IInv, OrderInv, TypeOK, Row
<1>7. \A r \in dirty[w] : r.id \in Nat
  BY <1>5 DEF Row
<1>. HIDE DEF o
<1>9. PrevIsHead'
  <2>1. ASSUME NEW v \in Writers, tx'[v].pc \in {"insert", "hash", "commit"}
        PROVE  IsHead(audit_log', tx'[v].org, tx'[v].prev)
    <3>1. v # w /\ tx'[v] = tx[v] /\ InLock(v)
      BY <2>1, <1>3 DEF InLock
    <3>2. Hashed(audit_log', tx[v].org) = Hashed(audit_log, tx[v].org)
      BY <3>1, <1>3, <1>4, <1>5 DEF Hashed
    <3>3. IsHead(audit_log, tx[v].org, tx[v].prev)
      BY <2>1, <3>1 DEF IInv, PrevIsHead
    <3>. QED BY <3>1, <3>2, <3>3 DEF IsHead
  <2>. QED BY <2>1 DEF PrevIsHead
<1>12. ChainIntact'
  <2>1. ASSUME NEW r \in audit_log, r.hash # Null
        PROVE  /\ r.hash = computeEntryHash(r.prev, ContentOf(r))
               /\ \/ r.prev = Genesis /\ \A q \in Hashed(audit_log', r.org) : r.id <= q.id
                  \/ \E q \in audit_log' : DirectlyBefore(q, r)' /\ r.prev = q.hash
    <3>1. \A q \in dirty[w] : q.org = r.org => r.id < q.id
      BY <1>5
    <3>2. CASE r.prev = Genesis /\ \A q \in Hashed(audit_log, r.org) : r.id <= q.id
      BY <2>1, <3>1, <3>2, <1>3, <1>6, <1>7 DEF Hashed, IInv, ChainIntact
    <3>3. CASE \E q \in audit_log : DirectlyBefore(q, r) /\ r.prev = q.hash
      <4>. PICK q \in audit_log : DirectlyBefore(q, r) /\ r.prev = q.hash
        BY <3>3
      <4>1. DirectlyBefore(q, r)'
        BY <3>1, <1>3, <1>6, <1>7 DEF DirectlyBefore, Hashed
      <4>. QED BY <2>1, <4>1, <1>3 DEF IInv, ChainIntact
    <3>. QED BY <2>1, <3>2, <3>3 DEF IInv, ChainIntact
  <2>2. ASSUME NEW r \in dirty[w]
        PROVE  \/ r.prev = Genesis /\ \A q \in Hashed(audit_log', r.org) : r.id <= q.id
               \/ \E q \in audit_log' : DirectlyBefore(q, r)' /\ r.prev = q.hash
    <3>1. CASE Hashed(audit_log, o) = {} /\ r.prev = Genesis
      <4>1. ASSUME NEW q \in Hashed(audit_log', r.org) PROVE q = r
        BY <4>1, <3>1, <1>3, <1>5 DEF Hashed
      <4>. QED BY <4>1, <3>1, <1>7
    <3>2. CASE \E q \in Hashed(audit_log, o) :
                 r.prev = q.hash /\ \A p \in Hashed(audit_log, o) : p.id <= q.id
      <4>. PICK q \in Hashed(audit_log, o) :
                 r.prev = q.hash /\ \A p \in Hashed(audit_log, o) : p.id <= q.id
        BY <3>2
      <4>1. q \in audit_log /\ q.org = o /\ q.hash # Null /\ q.id < r.id /\ r.org = o
        BY <1>5 DEF Hashed
      <4>2. ASSUME NEW p \in Hashed(audit_log', o) PROVE ~ (q.id < p.id /\ p.id < r.id)
        <5>1. CASE p \in dirty[w]
          BY <5>1, <1>5, <1>7
        <5>2. CASE p \in Hashed(audit_log, o)
          BY <5>2, <4>1, <1>6 DEF Hashed
        <5>. QED BY <5>1, <5>2, <1>3 DEF Hashed
      <4>3. DirectlyBefore(q, r)'
        BY <4>1, <4>2 DEF DirectlyBefore
      <4>. QED BY <4>1, <4>3, <1>3
    <3>. QED BY <3>1, <3>2, <1>5 DEF IsHead
  <2>. QED BY <2>1, <2>2, <1>3, <1>5 DEF ChainIntact
<1>13. LegacyIsPrefix'
  BY <1>3, <1>5 DEF IInv, LegacyIsPrefix
<1>. QED BY <1>1, <1>9, <1>12, <1>13 DEF IInv

\* Every step of the specification preserves the order of the log.
LEMMA NextOrder == OrderInv /\ [Next]_vars => OrderInv'
<1>. SUFFICES ASSUME OrderInv, [Next]_vars PROVE OrderInv'
  OBVIOUS
<1>1. CASE UNCHANGED vars
  BY <1>1 DEF vars, OrderInv, TypeOK, LockInv, InLock, IdsBelowNext, DirtyInv, HeadExists, Hashed
<1>2. ASSUME NEW w \in Writers, Begin(w) \/ Progress(w) \/ Rollback(w) PROVE OrderInv'
  BY <1>2, BeginStep, LockStep, ReadHeadStep, InsertStep, SetHashStep, CommitOrder, RollbackStep
     DEF Progress
<1>. QED BY <1>1, <1>2 DEF Next

\* Every step of the specification preserves the invariant.
LEMMA NextIInv == IInv /\ [Next]_vars => IInv'
<1>. SUFFICES ASSUME IInv, [Next]_vars PROVE IInv'
  OBVIOUS
<1>1. OrderInv /\ OrderInv'
  BY NextOrder DEF IInv
<1>2. CASE UNCHANGED vars
  BY <1>1, <1>2, LogUnchanged DEF vars, IInv, PrevIsHead, IsHead, Hashed
<1>3. ASSUME NEW w \in Writers, Begin(w) \/ Lock(w) \/ ReadHead(w) \/ Insert(w) \/ SetHash(w)
                                \/ Rollback(w)
      PROVE  IInv'
  <2>1. PrevIsHead'
    BY <1>1, <1>3, BeginStep, LockStep, ReadHeadStep, InsertStep, SetHashStep, RollbackStep
       DEF IInv
  <2>2. audit_log' = audit_log
    BY <1>3 DEF Begin, Lock, ReadHead, Insert, SetHash, Rollback
  <2>. QED BY <1>1, <2>1, <2>2, LogUnchanged DEF IInv
<1>. QED BY <1>2, <1>3, CommitStep DEF Next, Progress

-----------------------------------------------------------------------------
(* Theorems *)

\* The inductive invariant holds in every reachable state.
THEOREM InductiveInvariant == Spec => []IInv
BY InitIInv, NextIInv, PTL DEF Spec

\* Every variable of an append keeps its type.
THEOREM TypeCorrect == Spec => []TypeOK
BY InductiveInvariant, PTL DEF IInv, OrderInv

\* The stored hashes always form one chain per organisation in id order, so
\* verifyAuditChain never reports an untampered log as broken.
THEOREM ChainAlwaysIntact == Spec => []ChainIntact
BY InductiveInvariant, PTL DEF IInv

\* Clearing a hash is the only way to a NULL behind a hashed row.
THEOREM LegacyRowsArePrefix == Spec => []LegacyIsPrefix
BY InductiveInvariant, PTL DEF IInv

\* Two rows that extend the same hash have the same direct predecessor, and
\* between them only one can come directly after it.
LEMMA IInvImpliesNoFork == IInv => NoFork
<1>. SUFFICES ASSUME IInv,
                     NEW r \in audit_log, NEW q \in audit_log,
                     r.org = q.org, r.hash # Null, q.hash # Null, r.prev = q.prev
              PROVE  r = q
  BY DEF NoFork
<1>1. \A p \in audit_log : /\ p.id \in Nat /\ p.prev \in Hash /\ ContentOf(p) \in Content
                           /\ ContentOf(p).id = p.id
  BY DEF IInv, OrderInv, TypeOK, Row, ContentOf, Content
<1>2. r \in Hashed(audit_log, r.org) /\ q \in Hashed(audit_log, r.org)
  BY DEF Hashed
<1>. SUFFICES r.id = q.id
  BY DEF IInv, OrderInv, HeadExists
<1>3. CASE r.prev = Genesis
  <2>1. ASSUME NEW p \in audit_log, p.hash # Null PROVE p.hash # r.prev
    BY <1>3, <2>1 DEF Genesis, Null
  <2>2. /\ \A p \in Hashed(audit_log, r.org) : r.id <= p.id
        /\ \A p \in Hashed(audit_log, q.org) : q.id <= p.id
    BY <2>1 DEF IInv, ChainIntact, DirectlyBefore
  <2>. QED BY <2>2, <1>1, <1>2
<1>4. CASE r.prev # Genesis
  <2>1. PICK a \in audit_log : DirectlyBefore(a, r) /\ r.prev = a.hash
    BY <1>4 DEF IInv, ChainIntact
  <2>2. PICK b \in audit_log : DirectlyBefore(b, q) /\ q.prev = b.hash
    BY <1>4 DEF IInv, ChainIntact
  <2>3. a.hash = computeEntryHash(a.prev, ContentOf(a)) /\ b.hash = computeEntryHash(b.prev, ContentOf(b))
    BY <2>1, <2>2 DEF IInv, ChainIntact, DirectlyBefore
  <2>4. ContentOf(a) = ContentOf(b)
    <3>1. computeEntryHash(a.prev, ContentOf(a)) = computeEntryHash(b.prev, ContentOf(b))
      BY <2>1, <2>2, <2>3
    <3>2. /\ a.prev \in Hash /\ b.prev \in Hash
          /\ ContentOf(a) \in Content /\ ContentOf(b) \in Content
      BY <1>1
    <3>. QED BY <3>1, <3>2, EntryHashInjective
  <2>5. a.id = b.id
    BY <1>1, <2>4
  <2>. QED BY <1>1, <1>2, <2>1, <2>2, <2>5 DEF DirectlyBefore
<1>. QED BY <1>3, <1>4

\* However many appends of an organisation run at once, no two rows ever
\* extend the same predecessor.
THEOREM NoForkEver == Spec => []NoFork
BY InductiveInvariant, IInvImpliesNoFork, PTL

\* A step of the log only adds rows, each above every row its organisation had.
LEMMA AppendsInOrder ==
  ASSUME OrderInv, [Next]_vars
  PROVE  /\ audit_log \subseteq audit_log'
         /\ \A r \in audit_log' \ audit_log : \A q \in audit_log : q.org = r.org => q.id < r.id
<1>1. CASE UNCHANGED vars
  BY <1>1 DEF vars
<1>2. ASSUME NEW w \in Writers, Commit(w)
      PROVE  /\ audit_log \subseteq audit_log'
             /\ \A r \in audit_log' \ audit_log : \A q \in audit_log : q.org = r.org => q.id < r.id
  BY <1>2 DEF Commit, OrderInv, DirtyInv
<1>. QED
  BY <1>1, <1>2 DEF Next, Begin, Progress, Lock, ReadHead, Insert, SetHash, Rollback

\* Rows of an organisation become visible in id order, in every step.
THEOREM CommitsInIdOrder == Spec => IdsCommitInOrder
<1>. DEFINE A == \A r \in audit_log' \ audit_log : \A q \in audit_log : q.org = r.org => q.id < r.id
<1>1. IInv /\ [Next]_vars => [A]_vars
  BY AppendsInOrder DEF IInv
<1>. HIDE DEF A
<1>2. Spec => [][A]_vars
  BY <1>1, InductiveInvariant, PTL DEF Spec
<1>. QED BY <1>2 DEF IdsCommitInOrder, A

-----------------------------------------------------------------------------
(* The export: its invariant *)

\* The visible ids of the organisation of destination c.
LogOf(c) == IdsOf(OrgOf[c])

\* The single-flight lock admits one tick.
OneTick == \A t \in Ticks : tick[t].pc # "idle" => exportLock = t

\* A cursor stands at the start, or at a row that is visible.
CursorInv ==
  \A c \in Configs :
    /\ config[c].state # "absent" => config[c].start \in LogOf(c) \cup {0}
    /\ Opened(c) => \/ config[c].cursor = config[c].start
                    \/ config[c].cursor \in LogOf(c) /\ config[c].start < config[c].cursor

\* What a tick k has listed and not flushed yet is still what the rows say.
Listed(k) ==
  \A e \in k.todo :
    /\ k.pc # "idle"
    /\ Opened(e.id)
    /\ e.cursor = config[e.id].cursor
    /\ k.pc # "next" => e.id # k.cfg

\* The cursor a tick works with is that of the row, unless the row is deleted.
AtCursor(k) ==
  k.pc \in {"read", "deliver", "advance"} =>
    /\ k.cfg \in Configs
    /\ Opened(k.cfg)
    /\ config[k.cfg].cursor <= k.cursor
    /\ config[k.cfg].state = "live" => config[k.cfg].cursor = k.cursor

\* A batch is the whole stretch of the log from the tick's cursor to its last row,
\* and stays so while rows are appended.
WholeStretch(k) ==
  k.pc \in {"deliver", "advance"} =>
    /\ k.last \in k.batch
    /\ k.batch \subseteq LogOf(k.cfg)
    /\ \A i \in k.batch : k.cursor < i /\ i <= k.last
    /\ \A i \in LogOf(k.cfg) : k.cursor < i /\ i <= k.last => i \in k.batch

\* The cursor moves only over a batch that the receiver has.
Arrived(k) == k.pc = "advance" => k.batch \subseteq received[k.cfg]

Sound(k) == Listed(k) /\ AtCursor(k) /\ WholeStretch(k) /\ Arrived(k)

\* What the routes and the ticks keep, whatever is appended.
CursorsInv ==
  /\ ExportTypeOK
  /\ OneTick
  /\ CursorInv
  /\ \A t \in Ticks : Sound(tick[t])
  /\ GapFree

ExportInv == IInv /\ CursorsInv

-----------------------------------------------------------------------------
(* The log under the export *)

\* Ids are naturals.
LEMMA IdsAreNat ==
  ASSUME TypeOK, NEW o
  PROVE  IdsOf(o) \subseteq Nat
BY DEF TypeOK, IdsOf, Row

\* A step of the log keeps every id, and adds ids above all those there were.
LEMMA IdsGrow ==
  ASSUME OrderInv, [Next]_vars, NEW o
  PROVE  /\ IdsOf(o) \subseteq IdsOf(o)'
         /\ \A i \in IdsOf(o)' \ IdsOf(o) : \A j \in IdsOf(o) : j < i
<1>1. IdsOf(o)' = {r.id : r \in {q \in audit_log' : q.org = o}}
  BY DEF IdsOf
<1>2. ASSUME NEW i \in IdsOf(o)', i \notin IdsOf(o), NEW j \in IdsOf(o) PROVE j < i
  <2>1. PICK r \in audit_log' : r.org = o /\ r.id = i
    BY <1>1, <1>2
  <2>2. PICK q \in audit_log : q.org = o /\ q.id = j
    BY <1>2 DEF IdsOf
  <2>3. r \notin audit_log
    BY <1>2, <2>1 DEF IdsOf
  <2>. QED BY <2>1, <2>2, <2>3, AppendsInOrder
<1>3. IdsOf(o) \subseteq IdsOf(o)'
  BY <1>1, AppendsInOrder DEF IdsOf
<1>. QED BY <1>2, <1>3

\* A step of the log disturbs nothing of the export: what is new is above every
\* cursor and above the last row of every batch.
LEMMA LogStepKeeps ==
  ASSUME ExportInv, [Next]_vars, UNCHANGED exportVars
  PROVE  CursorsInv'
<1>. USE DEF ExportInv, CursorsInv
<1>1. IInv' /\ TypeOK /\ TypeOK'
  BY NextIInv DEF IInv, OrderInv
<1>2. \A o \in Orgs : IdsOf(o) \subseteq Nat /\ IdsOf(o)' \subseteq Nat
  <2>1. ASSUME NEW o \in Orgs PROVE IdsOf(o)' \subseteq Nat
    BY <1>1 DEF TypeOK, IdsOf, Row
  <2>. QED BY <1>1, <2>1, IdsAreNat
<1>3. \A o \in Orgs : /\ IdsOf(o) \subseteq IdsOf(o)'
                      /\ \A i \in IdsOf(o)' \ IdsOf(o) : \A j \in IdsOf(o) : j < i
  BY IdsGrow DEF IInv
<1>4. \A c \in Configs : OrgOf[c] \in Orgs
  BY OrgOfAssumption
<1>5. config' = config /\ received' = received /\ exportLock' = exportLock /\ tick' = tick
  BY DEF exportVars
<1>6. ExportTypeOK' /\ OneTick'
  BY <1>5 DEF ExportTypeOK, OneTick
<1>7. CursorInv'
  BY <1>3, <1>4, <1>5 DEF CursorInv, LogOf, Opened
<1>8. ASSUME NEW t \in Ticks PROVE Sound(tick[t])'
  <2>1. PICK k : k = tick[t]
    OBVIOUS
  <2>2. Listed(k)' /\ AtCursor(k)' /\ Arrived(k)'
    BY <1>5, <2>1 DEF Sound, Listed, AtCursor, Arrived, Opened
  <2>3. ASSUME k.pc \in {"deliver", "advance"} PROVE WholeStretch(k)'
    <3>1. k.cfg \in Configs /\ k.last \in LogOf(k.cfg)
      BY <2>1, <2>3 DEF Sound, AtCursor, WholeStretch
    <3>2. ASSUME NEW i \in LogOf(k.cfg)', i <= k.last PROVE i \in LogOf(k.cfg)
      BY <1>2, <1>3, <1>4, <3>1, <3>2 DEF LogOf
    <3>. QED BY <1>3, <1>4, <2>1, <2>3, <3>1, <3>2 DEF Sound, WholeStretch, LogOf
  <2>. QED BY <1>5, <2>1, <2>2, <2>3 DEF Sound, WholeStretch
<1>9. GapFree'
  <2>. SUFFICES ASSUME NEW c \in Configs, Opened(c), NEW i \in LogOf(c)',
                       config[c].start < i, i <= config[c].cursor
                PROVE  i \in received[c]
    BY <1>5 DEF GapFree, LogOf, Opened
  <2>1. config[c].start \in Nat /\ config[c].cursor \in Nat /\ i \in Nat
    BY <1>2, <1>4 DEF ExportTypeOK, Config, LogOf
  <2>2. config[c].cursor \in LogOf(c)
    BY <2>1 DEF CursorInv
  <2>3. i \in LogOf(c)
    BY <1>2, <1>3, <1>4, <2>1, <2>2 DEF LogOf
  <2>. QED BY <2>3 DEF GapFree, LogOf, Opened
<1>. QED BY <1>6, <1>7, <1>8, <1>9

-----------------------------------------------------------------------------
(* The routes *)

\* A tick stays sound while the destinations it works for keep their cursors and
\* none comes alive, and receivers lose nothing.
LEMMA SoundStays ==
  ASSUME NEW k, Sound(k), UNCHANGED audit_log,
         \A c \in Configs : received[c] \subseteq received'[c],
         \A e \in k.todo : e.id \in Configs,
         \A c \in Configs :
           Opened(c) /\ (c = k.cfg \/ \E e \in k.todo : c = e.id) =>
             /\ Opened(c)'
             /\ config'[c].cursor = config[c].cursor
             /\ config'[c].state = "live" => config[c].state = "live"
  PROVE  Sound(k)'
<1>1. Listed(k)'
  BY DEF Sound, Listed
<1>2. AtCursor(k)'
  BY DEF Sound, AtCursor
<1>3. WholeStretch(k)'
  BY DEF Sound, WholeStretch, LogOf, IdsOf
<1>4. Arrived(k)'
  BY DEF Sound, Arrived, AtCursor
<1>. QED BY <1>1, <1>2, <1>3, <1>4 DEF Sound

\* A route that changes the row of one destination, not the cursor once it is open.
LEMMA RouteKeeps ==
  ASSUME ExportInv, UNCHANGED vars, NEW c \in Configs, NEW new \in Config,
         UNCHANGED <<received, exportLock, tick>>,
         config' = [config EXCEPT ![c] = new],
         Opened(c) => /\ new.state \in {"live", "deleted"}
                      /\ new.start = config[c].start /\ new.cursor = config[c].cursor
                      /\ new.state = "live" => config[c].state = "live",
         ~ Opened(c) => /\ new.start \in LogOf(c) \cup {0}
                        /\ new.state \in {"live", "deleted"} => new.cursor = new.start
  PROVE  CursorsInv'
<1>. USE DEF ExportInv, CursorsInv
<1>1. /\ config'[c] = new
      /\ \A d \in Configs \ {c} : config'[d] = config[d]
  BY DEF ExportTypeOK
<1>2. audit_log' = audit_log
  BY DEF vars
<1>3. ExportTypeOK' /\ OneTick'
  BY DEF ExportTypeOK, OneTick
<1>4. CursorInv'
  BY <1>1, <1>2 DEF CursorInv, Opened, LogOf, IdsOf
<1>5. GapFree'
  <2>1. config[c].start \in Nat /\ config[c].cursor \in Nat
        /\ new.start \in Nat /\ new.cursor \in Nat
    BY DEF ExportTypeOK, Config
  <2>2. LogOf(c) \subseteq Nat
    BY IdsAreNat DEF IInv, OrderInv, LogOf
  <2>. QED BY <1>1, <1>2, <2>1, <2>2 DEF GapFree, IdsOf, Opened, LogOf
<1>6. ASSUME NEW t \in Ticks PROVE Sound(tick[t])'
  <2>1. PICK k : k = tick[t]
    OBVIOUS
  <2>2. Sound(k) /\ \A e \in k.todo : e.id \in Configs
    BY <2>1 DEF ExportTypeOK, Tick
  <2>3. \A d \in Configs : Opened(d) =>
          /\ Opened(d)'
          /\ config'[d].cursor = config[d].cursor
          /\ config'[d].state = "live" => config[d].state = "live"
    BY <1>1 DEF Opened
  <2>4. Sound(k)'
    BY <1>2, <2>2, <2>3, SoundStays
  <2>. QED BY <2>1, <2>4
<1>. QED BY <1>3, <1>4, <1>5, <1>6

\* The routes only open, switch and close destinations.
LEMMA RouteStep ==
  ASSUME ExportInv, UNCHANGED vars, NEW c \in Configs, Route(c)
  PROVE  CursorsInv'
<1>. USE DEF ExportInv, CursorsInv
<1>1. PICK old \in Config : old = config[c]
  BY DEF ExportTypeOK
<1>2. CASE CreateRead(c)
  <2>1. PICK s \in LogOf(c) \cup {0} :
          config' = [config EXCEPT ![c].state = "creating", ![c].start = s]
    BY <1>2 DEF CreateRead, LogOf
  <2>2. s \in Nat
    BY IdsAreNat DEF IInv, OrderInv, LogOf
  <2>3. PICK new : new = [old EXCEPT !.state = "creating", !.start = s]
    OBVIOUS
  <2>4. new \in Config /\ new.state = "creating" /\ new.start = s
    BY <2>2, <2>3 DEF Config
  <2>5. config' = [config EXCEPT ![c] = new]
    BY <1>1, <2>1, <2>3 DEF ExportTypeOK, Config
  <2>6. ~ Opened(c)
    BY <1>2 DEF CreateRead, Opened
  <2>. QED BY <1>2, <2>4, <2>5, <2>6, RouteKeeps DEF CreateRead
<1>3. CASE CreateInsert(c)
  <2>1. PICK e \in BOOLEAN :
          config' = [config EXCEPT ![c].state = "live", ![c].enabled = e,
                                   ![c].cursor = config[c].start]
    BY <1>3 DEF CreateInsert
  <2>2. PICK new : new = [old EXCEPT !.state = "live", !.enabled = e, !.cursor = old.start]
    OBVIOUS
  <2>3. /\ new \in Config
        /\ new.state = "live" /\ new.start = old.start /\ new.cursor = old.start
    BY <2>2 DEF Config
  <2>4. config' = [config EXCEPT ![c] = new]
    BY <1>1, <2>1, <2>2 DEF ExportTypeOK, Config
  <2>5. ~ Opened(c) /\ old.start \in LogOf(c) \cup {0}
    BY <1>1, <1>3 DEF CreateInsert, Opened, CursorInv
  <2>. QED BY <1>3, <2>3, <2>4, <2>5, RouteKeeps DEF CreateInsert
<1>4. CASE SetEnabled(c)
  <2>1. PICK new : new = [old EXCEPT !.enabled = ~ @]
    OBVIOUS
  <2>2. /\ new \in Config
        /\ new.state = old.state /\ new.start = old.start /\ new.cursor = old.cursor
    BY <2>1 DEF Config
  <2>3. config' = [config EXCEPT ![c] = new]
    BY <1>1, <1>4, <2>1 DEF SetEnabled, ExportTypeOK, Config
  <2>4. Opened(c) /\ old.state = "live"
    BY <1>1, <1>4 DEF SetEnabled, Opened
  <2>. QED BY <1>1, <1>4, <2>2, <2>3, <2>4, RouteKeeps DEF SetEnabled
<1>5. CASE DeleteConfig(c)
  <2>1. PICK new : new = [old EXCEPT !.state = "deleted"]
    OBVIOUS
  <2>2. /\ new \in Config
        /\ new.state = "deleted" /\ new.start = old.start /\ new.cursor = old.cursor
    BY <2>1 DEF Config
  <2>3. config' = [config EXCEPT ![c] = new]
    BY <1>1, <1>5, <2>1 DEF DeleteConfig, ExportTypeOK, Config
  <2>4. Opened(c)
    BY <1>5 DEF DeleteConfig, Opened
  <2>. QED BY <1>1, <1>5, <2>2, <2>3, <2>4, RouteKeeps DEF DeleteConfig
<1>. QED BY <1>2, <1>3, <1>4, <1>5 DEF Route

-----------------------------------------------------------------------------
(* The ticks *)

\* An idle tick holds nothing, so nothing can disturb it.
LEMMA IdleIsSound ==
  ASSUME NEW k, Sound(k), k.pc = "idle"
  PROVE  Sound(k)'
BY DEF Sound, Listed, AtCursor, WholeStretch, Arrived

\* A step of the tick that has the lock, or may take it: no other tick holds anything.
LEMMA TickKeeps ==
  ASSUME ExportInv, NEW t \in Ticks, NEW new \in Tick,
         tick' = [tick EXCEPT ![t] = new],
         exportLock \in {t, Nobody}, exportLock' \in {t, Nobody},
         new.pc # "idle" => exportLock' = t,
         Sound(new)', CursorInv', GapFree',
         config' \in [Configs -> Config], received' \in [Configs -> SUBSET Nat]
  PROVE  CursorsInv'
<1>. USE DEF ExportInv, CursorsInv
<1>1. tick'[t] = new /\ \A s \in Ticks \ {t} : tick'[s] = tick[s] /\ tick[s].pc = "idle"
  BY TicksAssumption DEF ExportTypeOK, OneTick
<1>2. ExportTypeOK' /\ OneTick'
  BY <1>1, TicksAssumption DEF ExportTypeOK, OneTick
<1>3. ASSUME NEW s \in Ticks, s # t PROVE Sound(tick[s])'
  <2>1. PICK k : k = tick[s]
    OBVIOUS
  <2>2. Sound(k)'
    BY <1>1, <1>3, <2>1, IdleIsSound
  <2>. QED BY <1>1, <1>3, <2>1, <2>2
<1>4. ASSUME NEW s \in Ticks PROVE Sound(tick[s])'
  <2>1. CASE s = t
    BY <1>1, <2>1
  <2>. QED BY <1>3, <2>1
<1>. QED BY <1>2, <1>4

\* The same for a step that writes no row and loses nothing that was received.
LEMMA QuietTickKeeps ==
  ASSUME ExportInv, UNCHANGED <<vars, config>>, NEW t \in Ticks, NEW new \in Tick,
         tick' = [tick EXCEPT ![t] = new],
         exportLock \in {t, Nobody}, exportLock' \in {t, Nobody},
         new.pc # "idle" => exportLock' = t,
         Sound(new), received' \in [Configs -> SUBSET Nat],
         \A c \in Configs : received[c] \subseteq received'[c]
  PROVE  CursorsInv'
<1>. USE DEF ExportInv, CursorsInv
<1>1. CursorInv' /\ GapFree'
  BY DEF vars, CursorInv, GapFree, Opened, LogOf, IdsOf
<1>2. Sound(new)'
  <2>1. \A c \in Configs : Opened(c) =>
          /\ Opened(c)'
          /\ config'[c].cursor = config[c].cursor
          /\ config'[c].state = "live" => config[c].state = "live"
    BY DEF Opened
  <2>2. \A e \in new.todo : e.id \in Configs
    BY DEF Tick
  <2>3. audit_log' = audit_log
    BY DEF vars
  <2>. QED BY <2>1, <2>2, <2>3, SoundStays
<1>3. config' \in [Configs -> Config]
  BY DEF ExportTypeOK
<1>. QED BY <1>1, <1>2, <1>3, TickKeeps

\* The record of a tick that is done with its destination is sound.
LEMMA DoneIsSound ==
  ASSUME ExportTypeOK, NEW t \in Ticks, Sound(tick[t]), tick[t].pc # "idle"
  PROVE  /\ DoneConfig(t) \in Tick
         /\ DoneConfig(t).pc = "next" /\ DoneConfig(t).todo = tick[t].todo
         /\ Sound(DoneConfig(t))
<1>1. /\ DoneConfig(t) \in Tick
      /\ DoneConfig(t).pc = "next" /\ DoneConfig(t).todo = tick[t].todo
  BY DEF DoneConfig, ExportTypeOK, Tick
<1>2. Sound(DoneConfig(t))
  BY <1>1 DEF Sound, Listed, AtCursor, WholeStretch, Arrived
<1>. QED BY <1>1, <1>2

\* The record of a tick that does nothing.
LEMMA IdleTickIsSound == IdleTick \in Tick /\ IdleTick.pc = "idle" /\ Sound(IdleTick)
<1>1. IdleTick \in Tick /\ IdleTick.pc = "idle" /\ IdleTick.todo = {}
  BY DEF IdleTick, Tick
<1>2. Sound(IdleTick)
  BY <1>1 DEF Sound, Listed, AtCursor, WholeStretch, Arrived
<1>. QED BY <1>1, <1>2

\* A tick takes the lock, lists destinations, picks one and ends.
LEMMA ScheduleStep ==
  ASSUME ExportInv, UNCHANGED vars, NEW t \in Ticks,
         \/ StartTick(t) \/ ListConfigs(t) \/ ListFails(t) \/ NextConfig(t)
         \/ EndTick(t) \/ Crash(t)
  PROVE  CursorsInv'
<1>. USE DEF ExportInv, CursorsInv
<1>1. PICK k \in Tick : k = tick[t]
  BY DEF ExportTypeOK
<1>2. Sound(k)
  BY <1>1
<1>3. /\ received \in [Configs -> SUBSET Nat]
      /\ k.pc # "idle" => exportLock = t
  BY <1>1 DEF ExportTypeOK, OneTick
<1>4. CASE StartTick(t)
  <2>1. PICK new : new = [IdleTick EXCEPT !.pc = "next", !.orgs = Orgs]
    OBVIOUS
  <2>2. new \in Tick /\ new.pc = "next" /\ new.todo = {}
    BY <2>1 DEF IdleTick, Tick
  <2>3. Sound(new)
    BY <2>2 DEF Sound, Listed, AtCursor, WholeStretch, Arrived
  <2>. QED BY <1>3, <1>4, <2>1, <2>2, <2>3, QuietTickKeeps DEF StartTick
<1>5. CASE ListConfigs(t)
  <2>1. PICK o \in k.orgs :
          tick' = [tick EXCEPT ![t].orgs = @ \ {o},
                               ![t].todo = {[id |-> c, cursor |-> config[c].cursor] :
                                 c \in {d \in Configs : /\ config[d].state = "live"
                                                        /\ config[d].enabled
                                                        /\ OrgOf[d] = o}}]
    BY <1>1, <1>5 DEF ListConfigs
  <2>2. PICK listed : listed = {[id |-> c, cursor |-> config[c].cursor] :
                                 c \in {d \in Configs : /\ config[d].state = "live"
                                                        /\ config[d].enabled
                                                        /\ OrgOf[d] = o}}
    OBVIOUS
  <2>3. PICK new : new = [k EXCEPT !.orgs = @ \ {o}, !.todo = listed]
    OBVIOUS
  <2>4. listed \subseteq [id : Configs, cursor : Nat]
    BY <2>2 DEF ExportTypeOK, Config
  <2>5. new \in Tick /\ new.pc = "next" /\ new.todo = listed
    BY <1>1, <1>5, <2>3, <2>4 DEF ListConfigs, Tick
  <2>6. Sound(new)
    <3>1. \A e \in listed : Opened(e.id) /\ e.cursor = config[e.id].cursor
      BY <2>2 DEF Opened
    <3>. QED BY <2>5, <3>1 DEF Sound, Listed, AtCursor, WholeStretch, Arrived
  <2>7. tick' = [tick EXCEPT ![t] = new]
    BY <1>1, <2>1, <2>2, <2>3 DEF ExportTypeOK, Tick
  <2>. QED BY <1>1, <1>3, <1>5, <2>5, <2>6, <2>7, QuietTickKeeps DEF ListConfigs
<1>6. CASE ListFails(t)
  <2>1. PICK o \in k.orgs : tick' = [tick EXCEPT ![t].orgs = @ \ {o}]
    BY <1>1, <1>6 DEF ListFails
  <2>2. PICK new : new = [k EXCEPT !.orgs = @ \ {o}]
    OBVIOUS
  <2>3. new \in Tick /\ new.pc = "next" /\ new.todo = {}
    BY <1>1, <1>6, <2>2 DEF ListFails, Tick
  <2>4. Sound(new)
    BY <2>3 DEF Sound, Listed, AtCursor, WholeStretch, Arrived
  <2>5. tick' = [tick EXCEPT ![t] = new]
    BY <1>1, <2>1, <2>2 DEF ExportTypeOK, Tick
  <2>. QED BY <1>1, <1>3, <1>6, <2>3, <2>4, <2>5, QuietTickKeeps DEF ListFails
<1>7. CASE NextConfig(t)
  <2>1. PICK e \in k.todo :
          tick' = [tick EXCEPT ![t].pc = "read", ![t].todo = @ \ {e}, ![t].cfg = e.id,
                               ![t].cursor = e.cursor, ![t].count = 0]
    BY <1>1, <1>7 DEF NextConfig
  <2>2. PICK new : new = [k EXCEPT !.pc = "read", !.todo = @ \ {e}, !.cfg = e.id,
                                   !.cursor = e.cursor, !.count = 0]
    OBVIOUS
  <2>3. e \in [id : Configs, cursor : Nat] /\ k.todo \subseteq [id : Configs, cursor : Nat]
    BY <2>1 DEF Tick
  <2>4. /\ new \in Tick /\ new.pc = "read" /\ new.todo = k.todo \ {e}
        /\ new.cfg = e.id /\ new.cursor = e.cursor
    BY <2>2, <2>3 DEF Tick
  <2>5. Opened(e.id) /\ e.cursor = config[e.id].cursor /\ e.cursor \in Nat
    BY <1>2, <2>1, <2>3 DEF Sound, Listed
  <2>6. Listed(new)
    <3>. SUFFICES ASSUME NEW d \in k.todo, d # e
                  PROVE  Opened(d.id) /\ d.cursor = config[d.id].cursor /\ d.id # e.id
      BY <2>4 DEF Listed
    <3>1. Opened(d.id) /\ d.cursor = config[d.id].cursor
      BY <1>2 DEF Sound, Listed
    <3>2. d.id = e.id => d = e
      BY <2>3, <2>5, <3>1
    <3>. QED BY <3>1, <3>2
  <2>7. AtCursor(new)
    BY <2>3, <2>4, <2>5 DEF AtCursor
  <2>8. Sound(new)
    BY <2>4, <2>6, <2>7 DEF Sound, WholeStretch, Arrived
  <2>9. tick' = [tick EXCEPT ![t] = new]
    BY <1>1, <2>1, <2>2 DEF ExportTypeOK, Tick
  <2>. QED BY <1>1, <1>3, <1>7, <2>4, <2>8, <2>9, QuietTickKeeps DEF NextConfig
<1>8. CASE EndTick(t) \/ Crash(t)
  <2>1. k.pc # "idle" /\ LeaveTick(t)
    BY <1>1, <1>8 DEF EndTick, Crash
  <2>. QED BY <1>3, <2>1, IdleTickIsSound, QuietTickKeeps DEF LeaveTick
<1>. QED BY <1>4, <1>5, <1>6, <1>7, <1>8

\* flushConfig: read a batch, deliver it, move the cursor over it.
LEMMA FlushStep ==
  ASSUME ExportInv, UNCHANGED vars, NEW t \in Ticks,
         \/ ReadBatch(t) \/ ReadStops(t) \/ Deliver(t) \/ DeliverFails(t)
         \/ Advance(t) \/ AdvanceFails(t)
  PROVE  CursorsInv'
<1>. USE DEF ExportInv, CursorsInv
<1>1. PICK k \in Tick : k = tick[t]
  BY DEF ExportTypeOK
<1>2. /\ Sound(k) /\ k.pc \in {"read", "deliver", "advance"}
      /\ k.cfg \in Configs /\ Opened(k.cfg) /\ exportLock = t
  <2>1. Sound(k) /\ k.pc \in {"read", "deliver", "advance"}
    BY <1>1 DEF ReadBatch, ReadStops, Deliver, DeliverFails, Advance, AdvanceFails
  <2>. QED BY <1>1, <2>1 DEF Sound, AtCursor, OneTick
<1>3. /\ received \in [Configs -> SUBSET Nat] /\ config \in [Configs -> Config]
      /\ tick \in [Ticks -> Tick]
  BY DEF ExportTypeOK
<1>4. PICK done : /\ done = DoneConfig(t) /\ done \in Tick /\ done.pc = "next"
                  /\ done.todo = k.todo /\ Sound(done)
  BY <1>1, <1>2, DoneIsSound
<1>5. CASE ReadBatch(t)
  <2>1. PICK B \in SUBSET Pending(t) : \E l \in B :
          /\ IsBatch(B, Pending(t)) /\ \A i \in B : i <= l
          /\ tick' = [tick EXCEPT ![t].pc = "deliver", ![t].batch = B, ![t].last = l]
    BY <1>5 DEF ReadBatch
  <2>. PICK l \in B :
          /\ IsBatch(B, Pending(t)) /\ \A i \in B : i <= l
          /\ tick' = [tick EXCEPT ![t].pc = "deliver", ![t].batch = B, ![t].last = l]
    BY <2>1
  <2>2. PICK new : new = [k EXCEPT !.pc = "deliver", !.batch = B, !.last = l]
    OBVIOUS
  <2>3. Pending(t) = {i \in LogOf(k.cfg) : i > k.cursor} /\ Pending(t) \subseteq Nat
    BY <1>1, IdsAreNat DEF Pending, LogOf, IInv, OrderInv
  <2>4. /\ new \in Tick /\ new.pc = "deliver" /\ new.batch = B /\ new.last = l
        /\ new.todo = k.todo /\ new.cfg = k.cfg /\ new.cursor = k.cursor
    BY <2>2, <2>3 DEF Tick
  <2>5. Listed(new) /\ AtCursor(new) /\ Arrived(new)
    BY <1>2, <2>4, <1>1, <1>5 DEF ReadBatch, Sound, Listed, AtCursor, Arrived
  <2>6. WholeStretch(new)
    <3>1. ASSUME NEW i \in LogOf(k.cfg), k.cursor < i, i <= l PROVE i \in B
      <4>1. i \in Pending(t)
        BY <2>3, <3>1 DEF Tick
      <4>2. i < l => i \in B
        BY <4>1 DEF IsBatch
      <4>3. i = l \/ i < l
        BY <2>3, <3>1, <4>1
      <4>. QED BY <4>2, <4>3
    <3>2. \A i \in B : k.cursor < i /\ i <= l
      BY <2>3 DEF Tick
    <3>. QED BY <2>3, <2>4, <3>1, <3>2 DEF WholeStretch
  <2>7. tick' = [tick EXCEPT ![t] = new]
    BY <1>1, <1>3, <2>2 DEF Tick
  <2>8. Sound(new)
    BY <2>5, <2>6 DEF Sound
  <2>. QED BY <1>2, <1>3, <1>5, <2>4, <2>7, <2>8, QuietTickKeeps DEF ReadBatch
<1>6. CASE ReadStops(t) \/ AdvanceFails(t)
  BY <1>2, <1>3, <1>4, <1>6, QuietTickKeeps DEF ReadStops, AdvanceFails
<1>7. CASE Deliver(t)
  <2>1. PICK new : new = [k EXCEPT !.pc = "advance"]
    OBVIOUS
  <2>2. /\ new \in Tick /\ new.pc = "advance" /\ new.batch = k.batch /\ new.last = k.last
        /\ new.todo = k.todo /\ new.cfg = k.cfg /\ new.cursor = k.cursor /\ k.batch \subseteq Nat
    BY <2>1 DEF Tick
  <2>3. tick' = [tick EXCEPT ![t] = new]
    BY <1>1, <1>3, <1>7, <2>1 DEF Deliver, Tick
  <2>4. /\ received' \in [Configs -> SUBSET Nat]
        /\ \A c \in Configs : received[c] \subseteq received'[c]
        /\ k.batch \subseteq received'[k.cfg]
    BY <1>1, <1>2, <1>3, <1>7, <2>2 DEF Deliver
  <2>5. UNCHANGED <<config, exportLock, audit_log>> /\ k.pc = "deliver"
    BY <1>1, <1>7 DEF Deliver, vars
  <2>6. Listed(new)' /\ AtCursor(new)' /\ WholeStretch(new)' /\ Arrived(new)'
    BY <1>2, <2>2, <2>4, <2>5
       DEF Sound, Listed, AtCursor, WholeStretch, Arrived, LogOf, IdsOf, Opened
  <2>7. Sound(new)'
    BY <2>6 DEF Sound
  <2>8. CursorInv' /\ GapFree'
    BY <2>4, <2>5 DEF CursorInv, GapFree, Opened, LogOf, IdsOf
  <2>. QED BY <1>2, <1>3, <2>2, <2>3, <2>4, <2>5, <2>7, <2>8, TickKeeps
<1>8. ASSUME \A c \in Configs : Opened(c) =>
               Opened(c)' /\ (c # k.cfg => config'[c].cursor = config[c].cursor)
      PROVE  Sound(done)'
  <2>1. \A e \in k.todo : e.id \in Configs /\ e.id # k.cfg
    BY <1>2 DEF Tick, Sound, Listed
  <2>2. Listed(done)'
    BY <1>4, <1>8, <2>1 DEF Sound, Listed
  <2>. QED BY <1>4, <2>2 DEF Sound, AtCursor, WholeStretch, Arrived
<1>9. CASE DeliverFails(t)
  <2>1. /\ received' \in [Configs -> SUBSET Nat]
        /\ \A c \in Configs : received[c] \subseteq received'[c]
    <3>1. PICK taken \in {{}, k.batch} : received' = [received EXCEPT ![k.cfg] = @ \cup taken]
      BY <1>1, <1>9 DEF DeliverFails
    <3>2. taken \subseteq Nat
      BY DEF Tick
    <3>. QED BY <1>2, <1>3, <3>1, <3>2
  <2>2. /\ config' \in [Configs -> Config]
        /\ \A c \in Configs : /\ config'[c].state = config[c].state
                              /\ config'[c].start = config[c].start
                              /\ config'[c].cursor = config[c].cursor
    <3>1. CASE config' = config
      BY <1>3, <3>1
    <3>2. CASE config' = [config EXCEPT ![k.cfg].failing = TRUE]
      BY <1>2, <1>3, <3>2 DEF Config
    <3>. QED BY <1>1, <1>9, <3>1, <3>2 DEF DeliverFails
  <2>3. CursorInv' /\ GapFree'
    BY <2>1, <2>2 DEF CursorInv, GapFree, Opened, LogOf, IdsOf, vars
  <2>4. Sound(done)'
    BY <1>8, <2>2 DEF Opened
  <2>5. tick' = [tick EXCEPT ![t] = done] /\ exportLock' = exportLock
    BY <1>4, <1>9 DEF DeliverFails
  <2>. QED BY <1>2, <1>4, <2>1, <2>2, <2>3, <2>4, <2>5, TickKeeps
<1>10. CASE Advance(t)
  <2>1. /\ k.pc = "advance" /\ k.last \in Nat /\ k.cursor \in Nat
        /\ received' = received /\ exportLock' = exportLock /\ audit_log' = audit_log
    BY <1>1, <1>10 DEF Advance, Tick, vars
  <2>2. /\ k.last \in LogOf(k.cfg) /\ k.cursor < k.last
        /\ config[k.cfg].cursor <= k.cursor
        /\ config[k.cfg].state = "live" => config[k.cfg].cursor = k.cursor
        /\ \A i \in LogOf(k.cfg) : k.cursor < i /\ i <= k.last => i \in received[k.cfg]
    BY <1>2, <2>1 DEF Sound, AtCursor, WholeStretch, Arrived
  <2>3. /\ config' \in [Configs -> Config]
        /\ \A c \in Configs : /\ config'[c].state = config[c].state
                              /\ config'[c].start = config[c].start
                              /\ c # k.cfg => config'[c].cursor = config[c].cursor
        /\ config[k.cfg].state = "live" => config'[k.cfg].cursor = k.last
        /\ config[k.cfg].state # "live" => config' = config
    <3>1. CASE config[k.cfg].state # "live"
      BY <1>1, <1>3, <1>10, <3>1 DEF Advance
    <3>2. CASE config[k.cfg].state = "live"
      BY <1>1, <1>2, <1>3, <1>10, <2>1, <3>2 DEF Advance, Config
    <3>. QED BY <3>1, <3>2
  <2>4. config[k.cfg].start \in Nat /\ config[k.cfg].cursor \in Nat /\ LogOf(k.cfg) \subseteq Nat
    BY <1>2, <1>3, IdsAreNat DEF Config, LogOf, IInv, OrderInv
  <2>5. config[k.cfg].start <= config[k.cfg].cursor
    BY <1>2, <2>4 DEF CursorInv
  <2>6. CursorInv'
    BY <1>2, <2>1, <2>2, <2>3, <2>4, <2>5 DEF CursorInv, Opened, LogOf, IdsOf
  <2>7. GapFree'
    <3>1. ASSUME NEW c \in Configs, Opened(c)', NEW i \in LogOf(c),
                 config'[c].start < i, i <= config'[c].cursor
          PROVE  i \in received[c]
      <4>1. Opened(c) /\ config[c].start < i /\ (i <= config[c].cursor => i \in received[c])
        BY <2>3, <3>1 DEF Opened, GapFree, LogOf
      <4>2. CASE c = k.cfg /\ config[c].state = "live"
        BY <2>2, <2>3, <2>4, <3>1, <4>1, <4>2
      <4>3. CASE ~ (c = k.cfg /\ config[c].state = "live")
        BY <2>3, <3>1, <4>1, <4>3
      <4>. QED BY <4>2, <4>3
    <3>. QED BY <2>1, <3>1 DEF GapFree, Opened, LogOf, IdsOf
  <2>8. Sound(done)'
    BY <1>8, <2>3 DEF Opened
  <2>9. CASE tick' = [tick EXCEPT ![t] = done]
    BY <1>2, <1>3, <1>4, <2>1, <2>3, <2>6, <2>7, <2>8, <2>9, TickKeeps
  <2>10. CASE tick' = [tick EXCEPT ![t].pc = "read", ![t].cursor = k.last,
                                   ![t].batch = {}, ![t].last = 0, ![t].count = @ + 1]
    <3>1. PICK new : new = [k EXCEPT !.pc = "read", !.cursor = k.last,
                                     !.batch = {}, !.last = 0, !.count = @ + 1]
      OBVIOUS
    <3>2. /\ new \in Tick /\ new.pc = "read" /\ new.todo = k.todo
          /\ new.cfg = k.cfg /\ new.cursor = k.last
      <4>1. k.count + 1 \in Nat
        BY DEF Tick
      <4>2. /\ new.pc = "read" /\ new.todo = k.todo /\ new.cfg = k.cfg
            /\ new.cursor = k.last
        BY <3>1 DEF Tick
      <4>3. new \in Tick
        BY <2>1, <3>1, <4>1 DEF Tick
      <4>. QED BY <4>2, <4>3
    <3>3. tick' = [tick EXCEPT ![t] = new]
      BY <1>1, <1>3, <2>10, <3>1 DEF Tick
    <3>4. Listed(new)'
      BY <1>2, <2>1, <2>3, <3>2 DEF Sound, Listed, Opened, Tick
    <3>5. AtCursor(new)'
      BY <1>2, <2>1, <2>2, <2>3, <2>4, <3>2 DEF AtCursor, Opened
    <3>6. Sound(new)'
      BY <3>2, <3>4, <3>5 DEF Sound, WholeStretch, Arrived
    <3>. QED BY <1>2, <1>3, <2>1, <2>3, <2>6, <2>7, <3>2, <3>3, <3>6, TickKeeps
  <2>. QED BY <1>1, <1>4, <1>10, <2>9, <2>10 DEF Advance
<1>. QED BY <1>5, <1>6, <1>7, <1>9, <1>10

-----------------------------------------------------------------------------
(* Theorems *)

\* Every step preserves the invariant.
LEMMA ExportNextKeeps == ExportInv /\ [ExportNext]_allVars => ExportInv'
<1>. SUFFICES ASSUME ExportInv, [ExportNext]_allVars PROVE ExportInv'
  OBVIOUS
<1>1. CASE Next /\ UNCHANGED exportVars
  BY <1>1, NextIInv, LogStepKeeps DEF ExportInv
<1>2. ASSUME NEW c \in Configs, Route(c), UNCHANGED vars PROVE ExportInv'
  BY <1>2, NextIInv, RouteStep DEF ExportInv
<1>3. ASSUME NEW t \in Ticks, TickStep(t), UNCHANGED vars PROVE ExportInv'
  BY <1>3, NextIInv, ScheduleStep, FlushStep DEF ExportInv, TickStep
<1>4. CASE UNCHANGED allVars
  BY <1>4, NextIInv, LogStepKeeps DEF ExportInv, allVars
<1>. QED BY <1>1, <1>2, <1>3, <1>4 DEF ExportNext

\* Nothing is configured and no tick runs at first.
LEMMA ExportInitInv == ExportInit => ExportInv
<1>. SUFFICES ASSUME ExportInit PROVE ExportInv
  OBVIOUS
<1>1. IInv
  BY InitIInv DEF ExportInit
<1>2. ExportTypeOK
  BY IdleTickIsSound DEF ExportInit, ExportTypeOK, Config
<1>3. OneTick /\ \A t \in Ticks : Sound(tick[t])
  BY IdleTickIsSound DEF ExportInit, OneTick
<1>4. CursorInv /\ GapFree
  BY DEF ExportInit, CursorInv, GapFree, Opened
<1>. QED BY <1>1, <1>2, <1>3, <1>4 DEF ExportInv, CursorsInv

\* The inductive invariant of the log and of its export.
THEOREM ExportInvariant == ExportSpec => []ExportInv
BY ExportInitInv, ExportNextKeeps, PTL DEF ExportSpec

\* Rows, cursors, locks and ticks keep their types.
THEOREM ExportTypeCorrect == ExportSpec => [](TypeOK /\ ExportTypeOK)
BY ExportInvariant, PTL DEF ExportInv, CursorsInv, IInv, OrderInv

\* No row between the start and the cursor of a destination is ever left out.
THEOREM GapFreeEver == ExportSpec => []GapFree
BY ExportInvariant, PTL DEF ExportInv, CursorsInv

\* No tick, of whatever instance, sends again what another has confirmed.
THEOREM NeverReshipsConfirmed == ExportSpec => []ConfirmedNeverReshipped
<1>1. ExportInv => ConfirmedNeverReshipped
  <2>. SUFFICES ASSUME ExportInv, NEW t \in Ticks, tick[t].pc = "deliver",
                       NEW i \in tick[t].batch
                PROVE  config[tick[t].cfg].cursor < i
    BY DEF ConfirmedNeverReshipped
  <2>1. Sound(tick[t]) /\ tick[t] \in Tick
    BY DEF ExportInv, CursorsInv, ExportTypeOK
  <2>2. /\ config[tick[t].cfg].cursor <= tick[t].cursor /\ tick[t].cursor < i
        /\ tick[t].cfg \in Configs
    BY <2>1 DEF Sound, AtCursor, WholeStretch
  <2>3. config[tick[t].cfg].cursor \in Nat /\ tick[t].cursor \in Nat /\ i \in Nat
    BY <2>1, <2>2 DEF ExportInv, CursorsInv, ExportTypeOK, Config, Tick
  <2>. QED BY <2>2, <2>3
<1>. QED BY <1>1, ExportInvariant, PTL

-----------------------------------------------------------------------------
(* The refinement of DurableFeed *)

\* A step of the feed of destination c, or one its receiver cannot tell.
FeedStep(c) == Feed(c)!FeedNext \/ UNCHANGED Feed(c)!feedVars

\* What has to stay for a step to be a stutter of the feed.
LEMMA FeedStutters ==
  ASSUME NEW c \in Configs, UNCHANGED audit_log, received'[c] = received[c],
         config'[c].start = config[c].start, config'[c].cursor = config[c].cursor,
         Opened(c)' <=> Opened(c)
  PROVE  FeedStep(c)
<1>1. Opened(c)' = Opened(c)
  BY DEF Opened
<1>2. IdsOf(OrgOf[c])' = IdsOf(OrgOf[c])
  BY DEF IdsOf
<1>. QED BY <1>1, <1>2 DEF FeedStep, Feed!feedVars

\* At first no destination is open.
LEMMA FeedInitially ==
  ASSUME ExportInit, NEW c \in Configs
  PROVE  Feed(c)!FeedInit
BY DEF ExportInit, Feed!FeedInit, Opened

\* An append publishes at most, in id order.
LEMMA LogStepMaps ==
  ASSUME ExportInv, [Next]_vars, UNCHANGED exportVars, NEW c \in Configs
  PROVE  FeedStep(c)
<1>1. /\ IdsOf(OrgOf[c]) \subseteq IdsOf(OrgOf[c])'
      /\ \A i \in IdsOf(OrgOf[c])' \ IdsOf(OrgOf[c]) : \A j \in IdsOf(OrgOf[c]) : j < i
  BY IdsGrow DEF ExportInv, IInv
<1>2. UNCHANGED <<config, received>>
  BY DEF exportVars
<1>3. Feed(c)!Publish
  BY <1>1, <1>2 DEF Feed!Publish, Opened
<1>. QED BY <1>3 DEF FeedStep, Feed!FeedNext

\* Inserting the row opens the feed; the other routes do not show.
LEMMA RouteMaps ==
  ASSUME ExportInv, UNCHANGED vars, NEW d \in Configs, Route(d), NEW c \in Configs
  PROVE  FeedStep(c)
<1>1. /\ config \in [Configs -> Config] /\ UNCHANGED received /\ UNCHANGED audit_log
  BY DEF ExportInv, CursorsInv, ExportTypeOK, Route, CreateRead, CreateInsert, SetEnabled,
         DeleteConfig, vars
<1>2. CASE c # d
  <2>1. config'[c] = config[c]
    BY <1>1, <1>2 DEF Route, CreateRead, CreateInsert, SetEnabled, DeleteConfig
  <2>. QED BY <1>1, <2>1, FeedStutters DEF Opened
<1>3. CASE c = d /\ CreateRead(d)
  <2>1. ~ Opened(c) /\ ~ Opened(c)' /\ config'[c].cursor = config[c].cursor
    BY <1>1, <1>3 DEF CreateRead, Opened, Config
  <2>2. Opened(c)' = Opened(c) /\ IdsOf(OrgOf[c])' = IdsOf(OrgOf[c])
    BY <1>1, <2>1 DEF Opened, IdsOf
  <2>. QED BY <1>1, <2>1, <2>2 DEF FeedStep, Feed!feedVars
<1>4. CASE c = d /\ CreateInsert(d)
  <2>1. /\ ~ Opened(c) /\ Opened(c)'
        /\ config'[c].cursor = config[c].start /\ config'[c].start = config[c].start
    BY <1>1, <1>4 DEF CreateInsert, Opened, Config
  <2>2. config[c].start \in IdsOf(OrgOf[c]) \cup {0}
    BY <1>4 DEF CreateInsert, ExportInv, CursorsInv, CursorInv, LogOf
  <2>3. Feed(c)!Open
    BY <1>1, <2>1, <2>2 DEF Feed!Open, IdsOf
  <2>. QED BY <2>3 DEF FeedStep, Feed!FeedNext
<1>5. CASE c = d /\ (SetEnabled(d) \/ DeleteConfig(d))
  <2>1. /\ Opened(c) /\ Opened(c)'
        /\ config'[c].cursor = config[c].cursor /\ config'[c].start = config[c].start
    BY <1>1, <1>5 DEF SetEnabled, DeleteConfig, Opened, Config
  <2>. QED BY <1>1, <2>1, FeedStutters
<1>. QED BY <1>2, <1>3, <1>4, <1>5 DEF Route

\* A delivery sends, moving the cursor confirms; the rest of a tick does not show.
LEMMA TickMaps ==
  ASSUME ExportInv, UNCHANGED vars, NEW t \in Ticks, TickStep(t), NEW c \in Configs
  PROVE  FeedStep(c)
<1>1. UNCHANGED audit_log
  BY DEF vars
<1>2. CASE UNCHANGED <<config, received>>
  BY <1>1, <1>2, FeedStutters DEF Opened
<1>3. PICK k \in Tick : k = tick[t]
  BY DEF ExportInv, CursorsInv, ExportTypeOK
<1>4. Sound(k) /\ config \in [Configs -> Config] /\ received \in [Configs -> SUBSET Nat]
  BY <1>3 DEF ExportInv, CursorsInv, ExportTypeOK
<1>5. CASE Deliver(t) \/ DeliverFails(t)
  <2>1. /\ k.pc = "deliver" /\ k.cfg \in Configs /\ Opened(k.cfg)
        /\ config[k.cfg].cursor <= k.cursor
        /\ k.batch \subseteq LogOf(k.cfg)
        /\ \A i \in k.batch : k.cursor < i
    BY <1>3, <1>4, <1>5 DEF Deliver, DeliverFails, Sound, AtCursor, WholeStretch
  <2>2. PICK taken \in {{}, k.batch} : received' = [received EXCEPT ![k.cfg] = @ \cup taken]
    BY <1>3, <1>5 DEF Deliver, DeliverFails
  <2>3. /\ config'[c].start = config[c].start /\ config'[c].cursor = config[c].cursor
        /\ Opened(c)' <=> Opened(c)
    <3>1. CASE config' = config
      BY <3>1 DEF Opened
    <3>2. CASE config' = [config EXCEPT ![k.cfg].failing = TRUE]
      BY <1>4, <2>1, <3>2 DEF Config, Opened
    <3>. QED BY <1>3, <1>5, <3>1, <3>2 DEF Deliver, DeliverFails
  <2>4. CASE c # k.cfg
    BY <1>1, <1>4, <2>2, <2>3, <2>4, FeedStutters
  <2>5. CASE c = k.cfg
    <3>1. received[c] \subseteq received'[c] /\ received'[c] \subseteq received[c] \cup k.batch
      BY <1>4, <2>2, <2>5
    <3>2. \A i \in k.batch : i \in IdsOf(OrgOf[c]) /\ config[c].start < i
      <4>1. config[c].start \in Nat /\ config[c].cursor \in Nat /\ k.cursor \in Nat
            /\ k.batch \subseteq Nat
        BY <1>4 DEF Config, Tick
      <4>2. config[c].start <= config[c].cursor
        BY <2>1, <2>5, <4>1 DEF ExportInv, CursorsInv, CursorInv
      <4>. QED BY <2>1, <2>5, <4>1, <4>2 DEF LogOf
    <3>3. Opened(c)' = Opened(c)
      BY <2>3 DEF Opened
    <3>4. Feed(c)!Send
      BY <1>1, <2>1, <2>3, <2>5, <3>1, <3>2, <3>3 DEF Feed!Send, IdsOf
    <3>. QED BY <3>4 DEF FeedStep, Feed!FeedNext
  <2>. QED BY <2>4, <2>5
<1>6. CASE Advance(t)
  <2>1. /\ k.pc = "advance" /\ k.cfg \in Configs /\ Opened(k.cfg)
        /\ config[k.cfg].state = "live" => config[k.cfg].cursor = k.cursor
        /\ k.cursor < k.last
        /\ \A i \in LogOf(k.cfg) : k.cursor < i /\ i <= k.last => i \in received[k.cfg]
    BY <1>3, <1>4, <1>6 DEF Advance, Sound, AtCursor, WholeStretch, Arrived
  <2>2. CASE config[k.cfg].state # "live" \/ c # k.cfg
    <3>1. config'[c] = config[c] /\ received' = received
      BY <1>3, <1>4, <1>6, <2>2 DEF Advance
    <3>. QED BY <1>1, <3>1, FeedStutters DEF Opened
  <2>3. CASE config[k.cfg].state = "live" /\ c = k.cfg
    <3>1. /\ config'[c].cursor = k.last /\ config'[c].start = config[c].start
          /\ config'[c].state = config[c].state /\ received' = received
      BY <1>3, <1>4, <1>6, <2>3 DEF Advance, Config
    <3>2. \A i \in IdsOf(OrgOf[c]) : config[c].start < i /\ i <= k.last => i \in received[c]
      <4>1. /\ config[c].cursor \in Nat /\ k.last \in Nat /\ IdsOf(OrgOf[c]) \subseteq Nat
            /\ config[c].start \in Nat
        BY <1>4, IdsAreNat DEF Config, Tick, ExportInv, IInv, OrderInv
      <4>2. \A i \in IdsOf(OrgOf[c]) :
              config[c].start < i /\ i <= config[c].cursor => i \in received[c]
        BY <2>1, <2>3 DEF ExportInv, CursorsInv, GapFree, Opened
      <4>. QED BY <2>1, <2>3, <4>1, <4>2 DEF LogOf
    <3>3. Opened(c) /\ Opened(c)' = Opened(c)
      BY <2>1, <2>3, <3>1 DEF Opened
    <3>4. Feed(c)!Confirm
      BY <1>1, <2>1, <2>3, <3>1, <3>2, <3>3 DEF Feed!Confirm, IdsOf
    <3>. QED BY <3>4 DEF FeedStep, Feed!FeedNext
  <2>. QED BY <2>2, <2>3
<1>. QED
  BY <1>2, <1>5, <1>6
     DEF TickStep, StartTick, ListConfigs, ListFails, NextConfig, EndTick, Crash, LeaveTick,
         ReadBatch, ReadStops, AdvanceFails

\* Seen from its receiver, every destination is a durable feed.
THEOREM ExportIsDurableFeed == ExportSpec => ImplementsDurableFeed
<1>. DEFINE A == \A c \in Configs : Feed(c)!FeedNext \/ UNCHANGED Feed(c)!feedVars
<1>1. ExportInit => \A c \in Configs : Feed(c)!FeedInit
  BY FeedInitially
<1>2. ExportInv /\ [ExportNext]_allVars => [A]_allVars
  <2>. SUFFICES ASSUME ExportInv, ExportNext, NEW c \in Configs PROVE FeedStep(c)
    BY DEF FeedStep
  <2>. QED BY LogStepMaps, RouteMaps, TickMaps DEF ExportNext
<1>. HIDE DEF A
<1>3. ExportSpec => [][A]_allVars
  BY <1>2, ExportInvariant, PTL DEF ExportSpec
<1>. QED BY <1>1, <1>3 DEF ImplementsDurableFeed, A, ExportSpec

-----------------------------------------------------------------------------
(* The walk: its invariant *)

\* The rows of the walked organisation, the hashed ones before row r, and the
\* hashed ones that the walk has behind it.
WalkedRows == {r \in audit_log : r.org = VerifiedOrg}
Before(r) == {q \in Hashed(audit_log, VerifiedOrg) : q.id < r.id}
Passed == {q \in Hashed(audit_log, VerifiedOrg) : q.id <= walk.lastId}

\* What the next hashed row has to link to, behind the hashed rows S.
HashOfLast(S) == IF S = {} THEN Genesis ELSE LastOf(S).hash

\* A row that does not fit the rows before it, however the walk is cut into batches.
Broken(r) ==
  IF r.hash = Null THEN Before(r) # {}
  ELSE r.prev # HashOfLast(Before(r)) \/ r.hash # computeEntryHash(r.prev, ContentOf(r))

\* Unless the log was changed under it, the walk remembers where it is in the log.
WalkInv ==
  walk.pc = "walking" /\ walk.sinceStart = change =>
    /\ walk.lastId = -1 \/ \E r \in WalkedRows : r.id = walk.lastId
    /\ walk.started <=> Passed # {}
    /\ walk.expectedPrev = HashOfLast(Passed)

\* A visible change leaves a broken row, and a walk that began after it has the
\* broken row still ahead.
ChangeInv ==
  /\ walk.sinceStart \in {"none", change}
  /\ change = "none" => IInv
  /\ change = "visible" => \E r \in WalkedRows : Broken(r)
  /\ walk.pc = "walking" /\ walk.sinceStart = "visible" =>
       \E r \in WalkedRows : Broken(r) /\ walk.lastId < r.id

VerifyInv ==
  /\ OrderInv
  /\ VerifyTypeOK
  /\ WalkInv
  /\ ChangeInv
  /\ NoFalseAlarm
  /\ ChangeReported

-----------------------------------------------------------------------------
(* Last rows *)

\* A set of naturals that is not empty has a least element.
LEMMA LeastNatural ==
  ASSUME NEW T \in SUBSET Nat, T # {}
  PROVE  \E m \in T : \A n \in T : m <= n
<1>. DEFINE R == {ss \in Nat \X Nat : ss[1] < ss[2]}
<1>1. IsWellFoundedOn(R, Nat)
  BY NatLessThanWellFounded DEF OpToRel
<1>. HIDE DEF R
<1>2. PICK x \in T : \A y \in T : ~ (<<y, x>> \in R)
  BY <1>1, WFMin
<1>3. ASSUME NEW y \in T PROVE x <= y
  <2>1. ~ (<<y, x>> \in R)
    BY <1>2
  <2>2. <<y, x>> \in Nat \X Nat /\ <<y, x>>[1] = y /\ <<y, x>>[2] = x
    OBVIOUS
  <2>3. ~ (y < x)
    BY <2>1, <2>2 DEF R
  <2>. QED BY <2>3
<1>. QED BY <1>3

\* Rows whose ids are below a bound have a last one, and LastOf finds it.
LEMMA LastOfIsLast ==
  ASSUME NEW S, S # {}, NEW n \in Nat, \A r \in S : r.id \in Nat /\ r.id < n
  PROVE  LastOf(S) \in S /\ \A q \in S : q.id <= LastOf(S).id
<1>. DEFINE T == {n - r.id : r \in S}
<1>1. T \subseteq Nat /\ T # {}
  OBVIOUS
<1>2. PICK m \in T : \A k \in T : m <= k
  BY <1>1, LeastNatural
<1>3. PICK r \in S : m = n - r.id
  OBVIOUS
<1>4. ASSUME NEW q \in S PROVE q.id <= r.id
  <2>1. n - r.id <= n - q.id
    BY <1>2, <1>3
  <2>. QED BY <2>1
<1>. QED BY <1>4 DEF LastOf

\* It is the only one if ids identify rows.
LEMMA LastOfIs ==
  ASSUME NEW S, NEW r \in S, \A q \in S : q.id \in Nat /\ q.id <= r.id,
         \A q \in S : q.id = r.id => q = r
  PROVE  LastOf(S) = r
<1>1. LastOf(S) \in S /\ \A q \in S : q.id <= LastOf(S).id
  BY DEF LastOf
<1>2. LastOf(S).id = r.id
  BY <1>1
<1>. QED BY <1>1, <1>2

\* What the order of the log says of the walked rows.
LEMMA WalkedOrder ==
  ASSUME OrderInv
  PROVE  /\ nextId \in Nat
         /\ \A r \in audit_log : r \in Row /\ r.id \in Nat /\ r.id < nextId
         /\ \A r, q \in WalkedRows : r.id = q.id => r = q
         /\ Hashed(audit_log, VerifiedOrg) \subseteq WalkedRows
BY DEF OrderInv, TypeOK, Row, IdsBelowNext, HeadExists, WalkedRows, Hashed

\* A chain that is intact has no broken row.
LEMMA IntactIsUnbroken ==
  ASSUME IInv, NEW r \in WalkedRows
  PROVE  ~ Broken(r)
<1>0. OrderInv /\ r \in audit_log /\ r.org = VerifiedOrg
  BY DEF IInv, WalkedRows
<1>1. CASE r.hash = Null
  <2>1. ASSUME NEW q \in Before(r) PROVE FALSE
    <3>1. q \in audit_log /\ q.org = r.org /\ q.hash # Null /\ q.id < r.id
      BY <1>0, <2>1 DEF Before, Hashed
    <3>2. r.id < q.id
      BY <1>0, <1>1, <3>1 DEF IInv, LegacyIsPrefix
    <3>. QED BY <1>0, <3>1, <3>2, WalkedOrder
  <2>. QED BY <1>1, <2>1 DEF Broken
<1>2. CASE r.hash # Null
  <2>1. r.hash = computeEntryHash(r.prev, ContentOf(r))
    BY <1>0, <1>2 DEF IInv, ChainIntact
  <2>2. CASE r.prev = Genesis /\ \A q \in Hashed(audit_log, r.org) : r.id <= q.id
    <3>1. Before(r) = {}
      BY <1>0, <2>2, WalkedOrder DEF Before, Hashed
    <3>. QED BY <1>2, <2>1, <2>2, <3>1 DEF Broken, HashOfLast
  <2>3. CASE \E q \in audit_log : DirectlyBefore(q, r) /\ r.prev = q.hash
    <3>1. PICK q \in audit_log : DirectlyBefore(q, r) /\ r.prev = q.hash
      BY <2>3
    <3>2. q \in Before(r)
      BY <1>0, <3>1 DEF Before, Hashed, DirectlyBefore
    <3>3. ASSUME NEW p \in Before(r) PROVE p.id \in Nat /\ p.id <= q.id /\ (p.id = q.id => p = q)
      <4>1. p \in Hashed(audit_log, VerifiedOrg) /\ p.id < r.id /\ q \in Hashed(audit_log, VerifiedOrg)
        BY <3>2 DEF Before
      <4>2. ~ (q.id < p.id)
        BY <1>0, <3>1, <4>1 DEF DirectlyBefore
      <4>. QED BY <1>0, <4>1, <4>2, WalkedOrder DEF Hashed
    <3>4. LastOf(Before(r)) = q
      BY <3>2, <3>3, LastOfIs
    <3>. QED BY <1>2, <2>1, <3>1, <3>2, <3>4 DEF Broken, HashOfLast
  <2>. QED BY <1>0, <1>2, <2>2, <2>3 DEF IInv, ChainIntact
<1>. QED BY <1>1, <1>2

-----------------------------------------------------------------------------
(* One batch of the walk *)

\* The hashed rows before a row of the batch: those the walk has passed and
\* those the batch holds before it.
LEMMA BeforeInBatch ==
  ASSUME OrderInv, walk.lastId \in Int, NEW B, IsRead(B), NEW r \in B
  PROVE  /\ Before(r) = Passed \cup HashedBefore(B, r)
         /\ \A q \in Passed, p \in HashedBefore(B, r) : q.id < p.id
<1>1. /\ \A q \in B : q \in audit_log /\ q.org = VerifiedOrg /\ q.id \in Nat /\ q.id > walk.lastId
      /\ \A q \in audit_log : q.id \in Nat
  BY WalkedOrder DEF IsRead, Remaining
<1>2. ASSUME NEW q \in Before(r), q \notin Passed PROVE q \in HashedBefore(B, r)
  <2>1. q \in audit_log /\ q.org = VerifiedOrg /\ q.hash # Null /\ q.id < r.id /\ q.id > walk.lastId
    BY <1>1, <1>2 DEF Before, Passed, Hashed
  <2>. QED BY <2>1 DEF Remaining, IsRead, HashedBefore
<1>3. Passed \subseteq Before(r)
  BY <1>1 DEF Passed, Before, Hashed
<1>4. HashedBefore(B, r) \subseteq Before(r)
  BY <1>1 DEF HashedBefore, Before, Hashed
<1>5. \A q \in Passed, p \in HashedBefore(B, r) : q.id < p.id
  BY <1>1 DEF Passed, HashedBefore, Hashed
<1>. QED BY <1>2, <1>3, <1>4, <1>5

\* The last of two sets of rows, one behind the other, is the last of the second.
LEMMA LastOfTwo ==
  ASSUME OrderInv, NEW P \in SUBSET WalkedRows, NEW S \in SUBSET WalkedRows, S # {},
         \A q \in P, p \in S : q.id < p.id
  PROVE  LastOf(P \cup S) = LastOf(S) /\ HashOfLast(P \cup S) = LastOf(S).hash
<1>1. /\ \A q \in WalkedRows : q.id \in Nat /\ q.id < nextId
      /\ nextId \in Nat
  BY WalkedOrder DEF WalkedRows
<1>2. PICK l \in S : l = LastOf(S) /\ \A q \in S : q.id <= l.id
  BY <1>1, LastOfIsLast
<1>3. \A q \in P \cup S : q.id \in Nat /\ q.id <= l.id /\ (q.id = l.id => q = l)
  BY <1>1, <1>2, WalkedOrder
<1>4. LastOf(P \cup S) = l
  BY <1>3, LastOfIs
<1>. QED BY <1>2, <1>4 DEF HashOfLast

\* The loop body accepts exactly the rows that fit all the rows before them,
\* wherever the batches are cut.
LEMMA AcceptsIffNotBroken ==
  ASSUME OrderInv, VerifyTypeOK, WalkInv, walk.pc = "walking", walk.sinceStart = change,
         NEW B, IsRead(B), NEW r \in B
  PROVE  Accepts(B, r) <=> ~ Broken(r)
<1>1. /\ walk.started <=> Passed # {}
      /\ walk.expectedPrev = HashOfLast(Passed)
      /\ walk.lastId \in Int
  BY DEF WalkInv, VerifyTypeOK, Walk
<1>2. /\ Before(r) = Passed \cup HashedBefore(B, r)
      /\ \A q \in Passed, p \in HashedBefore(B, r) : q.id < p.id
  BY <1>1, BeforeInBatch
<1>3. CASE HashedBefore(B, r) = {}
  <2>1. Before(r) = Passed
    BY <1>2, <1>3
  <2>. QED BY <1>1, <1>3, <2>1 DEF Accepts, Broken
<1>4. CASE HashedBefore(B, r) # {}
  <2>1. Passed \subseteq WalkedRows /\ HashedBefore(B, r) \subseteq WalkedRows
    BY DEF Passed, Hashed, WalkedRows, HashedBefore, IsRead, Remaining
  <2>2. HashOfLast(Before(r)) = LastOf(HashedBefore(B, r)).hash
    BY <1>2, <1>4, <2>1, LastOfTwo
  <2>3. Before(r) # {}
    BY <1>2, <1>4
  <2>. QED BY <1>4, <2>2, <2>3 DEF Accepts, Broken
<1>. QED BY <1>3, <1>4

\* A walk that goes on knows what it has passed.
GoodBatch(B) ==
  walk' = [walk EXCEPT !.pc = IF Cardinality(B) < batchSize THEN "ok" ELSE @,
                       !.lastId = IF B = {} THEN @ ELSE LastOf(B).id,
                       !.started = @ \/ {r \in B : r.hash # Null} # {},
                       !.expectedPrev = ExpectedPrev({r \in B : r.hash # Null})]

\* What the fields of the walk are after an accepted batch.
LEMMA GoodBatchFields ==
  ASSUME OrderInv, VerifyTypeOK, NEW B, IsRead(B), GoodBatch(B)
  PROVE  /\ walk' \in Walk
         /\ walk'.pc = IF Cardinality(B) < batchSize THEN "ok" ELSE walk.pc
         /\ walk'.lastId = IF B = {} THEN walk.lastId ELSE LastOf(B).id
         /\ walk'.started <=> walk.started \/ {r \in B : r.hash # Null} # {}
         /\ walk'.expectedPrev = ExpectedPrev({r \in B : r.hash # Null})
         /\ walk'.sinceStart = walk.sinceStart
<1>. DEFINE hashed == {r \in B : r.hash # Null}
<1>1. /\ \A q \in B : q \in audit_log /\ q.org = VerifiedOrg /\ q.id \in Nat /\ q.id < nextId /\ q.hash \in Hash
      /\ nextId \in Nat
  BY WalkedOrder DEF IsRead, Remaining, Row
<1>2. B # {} => LastOf(B) \in B
  BY <1>1, LastOfIsLast
<1>3. hashed # {} => LastOf(hashed) \in hashed
  BY <1>1, LastOfIsLast
<1>4. ExpectedPrev(hashed) \in Hash
  BY <1>1, <1>3 DEF ExpectedPrev, VerifyTypeOK, Walk
<1>5. PICK l \in Int : l = IF B = {} THEN walk.lastId ELSE LastOf(B).id
  BY <1>1, <1>2 DEF VerifyTypeOK, Walk
<1>6. PICK h \in Hash : h = ExpectedPrev(hashed)
  BY <1>4
<1>7. PICK s \in BOOLEAN : s <=> walk.started \/ hashed # {}
  OBVIOUS
<1>8. PICK p \in {"idle", "walking", "ok", "broken"} : p = IF Cardinality(B) < batchSize THEN "ok" ELSE walk.pc
  BY DEF VerifyTypeOK, Walk
<1>9. walk' = [walk EXCEPT !.pc = p, !.lastId = l, !.started = s, !.expectedPrev = h]
  <2>1. (walk.started \/ hashed # {}) = s
    BY <1>7 DEF VerifyTypeOK, Walk
  <2>. QED BY <1>5, <1>6, <1>8, <2>1 DEF GoodBatch
<1>10. walk \in Walk
  BY DEF VerifyTypeOK
<1>. HIDE DEF hashed
<1>11. /\ walk' \in Walk /\ walk'.pc = p /\ walk'.lastId = l /\ walk'.expectedPrev = h
       /\ walk'.sinceStart = walk.sinceStart
  BY <1>9, <1>10 DEF Walk
<1>12. walk'.started = s
  BY <1>9, <1>10 DEF Walk
<1>. QED BY <1>5, <1>6, <1>7, <1>8, <1>11, <1>12 DEF hashed

\* After an accepted batch the walk has passed the hashed rows of the batch too.
LEMMA GoodBatchPasses ==
  ASSUME OrderInv, VerifyTypeOK, NEW B, IsRead(B), GoodBatch(B), audit_log' = audit_log
  PROVE  /\ Passed' = Passed \cup {r \in B : r.hash # Null}
         /\ \A q \in Passed, p \in {r \in B : r.hash # Null} : q.id < p.id
         /\ \A r \in WalkedRows \ B : walk.lastId < r.id => walk'.lastId < r.id
<1>1. /\ \A q \in B : q \in audit_log /\ q.org = VerifiedOrg /\ q.id \in Nat /\ q.id > walk.lastId
      /\ \A q \in audit_log : q.id \in Nat /\ q.id < nextId
      /\ nextId \in Nat
      /\ walk.lastId \in Int
  BY WalkedOrder DEF IsRead, Remaining, VerifyTypeOK, Walk
<1>2. \A q \in Passed, p \in {r \in B : r.hash # Null} : q.id < p.id
  BY <1>1 DEF Passed, Hashed
<1>3. walk'.lastId = IF B = {} THEN walk.lastId ELSE LastOf(B).id
  BY GoodBatchFields
<1>4. CASE B = {}
  <2>1. Passed' = Passed
    BY <1>3, <1>4 DEF Passed, Hashed
  <2>. QED BY <1>2, <1>3, <1>4, <2>1
<1>5. CASE B # {}
  <2>1. PICK l \in B : l = LastOf(B) /\ \A q \in B : q.id <= l.id
    BY <1>1, <1>5, LastOfIsLast
  <2>2. walk'.lastId = l.id /\ walk.lastId < l.id
    BY <1>1, <1>3, <1>5, <2>1
  <2>3. ASSUME NEW r \in WalkedRows, walk.lastId < r.id, r.id <= l.id PROVE r \in B
    <3>1. r \in Remaining /\ l \in WalkedRows
      BY <1>1, <2>3 DEF Remaining, WalkedRows
    <3>2. CASE r.id < l.id
      BY <2>1, <3>1, <3>2 DEF IsRead
    <3>3. CASE r.id = l.id
      BY <2>1, <3>1, <3>3, WalkedOrder
    <3>. QED BY <1>1, <2>1, <2>3, <3>2, <3>3 DEF WalkedRows
  <2>4. ASSUME NEW q \in Hashed(audit_log, VerifiedOrg)
        PROVE  q.id <= l.id <=> q.id <= walk.lastId \/ q \in B
    BY <1>1, <2>1, <2>2, <2>3 DEF Hashed, WalkedRows
  <2>5. Passed' = {q \in Hashed(audit_log, VerifiedOrg) : q.id <= l.id}
    BY <2>2 DEF Passed, Hashed
  <2>6. {r \in B : r.hash # Null} \subseteq Hashed(audit_log, VerifiedOrg)
    BY <1>1 DEF Hashed
  <2>7. Passed' = Passed \cup {r \in B : r.hash # Null}
    BY <2>4, <2>5, <2>6 DEF Passed, Hashed
  <2>8. \A r \in WalkedRows \ B : walk.lastId < r.id => walk'.lastId < r.id
    BY <1>1, <2>1, <2>2, <2>3 DEF WalkedRows
  <2>. QED BY <1>2, <2>7, <2>8
<1>. QED BY <1>4, <1>5

\* A walk over a log that nobody changes under it keeps its place.
LEMMA GoodBatchKeepsPlace ==
  ASSUME OrderInv, VerifyTypeOK, WalkInv, walk.pc = "walking", walk.sinceStart = change,
         UNCHANGED <<vars, change>>, NEW B, IsRead(B), GoodBatch(B)
  PROVE  WalkInv'
<1>. DEFINE hashed == {r \in B : r.hash # Null}
<1>1. /\ walk'.lastId = IF B = {} THEN walk.lastId ELSE LastOf(B).id
      /\ walk'.started <=> walk.started \/ hashed # {}
      /\ walk'.expectedPrev = ExpectedPrev(hashed)
  BY GoodBatchFields
<1>2. /\ Passed' = Passed \cup hashed
      /\ \A q \in Passed, p \in hashed : q.id < p.id
  BY GoodBatchPasses DEF vars
<1>3. /\ walk.lastId = -1 \/ \E r \in WalkedRows : r.id = walk.lastId
      /\ walk.started <=> Passed # {}
      /\ walk.expectedPrev = HashOfLast(Passed)
  BY DEF WalkInv
<1>4. B \subseteq WalkedRows /\ hashed \subseteq WalkedRows /\ Passed \subseteq WalkedRows
  BY DEF IsRead, Remaining, WalkedRows, Passed, Hashed
<1>5. WalkedRows' = WalkedRows
  BY DEF WalkedRows, vars
<1>6. \A q \in B : q.id \in Nat /\ q.id < nextId /\ nextId \in Nat
  BY <1>4, WalkedOrder DEF WalkedRows
<1>7. walk'.lastId = -1 \/ \E r \in WalkedRows' : r.id = walk'.lastId
  <2>1. CASE B = {}
    BY <1>1, <1>3, <1>5, <2>1
  <2>2. CASE B # {}
    <3>1. nextId \in Nat
      BY <2>2, <1>6
    <3>2. LastOf(B) \in B
      BY <1>6, <2>2, <3>1, LastOfIsLast
    <3>. QED BY <1>1, <1>4, <1>5, <2>2, <3>2
  <2>. QED BY <2>1, <2>2
<1>8. walk'.expectedPrev = HashOfLast(Passed)'
  <2>1. HashOfLast(Passed)' = HashOfLast(Passed')
    BY DEF HashOfLast, LastOf
  <2>2. CASE hashed = {}
    BY <1>1, <1>2, <1>3, <2>1, <2>2 DEF ExpectedPrev
  <2>3. CASE hashed # {}
    <3>1. HashOfLast(Passed \cup hashed) = LastOf(hashed).hash
      BY <1>2, <1>4, <2>3, LastOfTwo
    <3>. QED BY <1>1, <1>2, <2>1, <2>3, <3>1 DEF ExpectedPrev
  <2>. QED BY <2>2, <2>3
<1>. HIDE DEF hashed
<1>9. walk'.started <=> Passed' # {}
  BY <1>1, <1>2, <1>3
<1>. QED BY <1>7, <1>8, <1>9 DEF WalkInv

-----------------------------------------------------------------------------
(* The steps of the walk *)

\* Steps that leave the database alone leave all that is said of it alone.
LEMMA DatabaseStays ==
  ASSUME UNCHANGED vars
  PROVE  /\ OrderInv => OrderInv'
         /\ IInv => IInv'
         /\ WalkedRows' = WalkedRows
         /\ \A r : Broken(r)' <=> Broken(r)
<1>1. (OrderInv => OrderInv') /\ (IInv => IInv')
  BY NextOrder, NextIInv
<1>2. audit_log' = audit_log
  BY DEF vars
<1>3. WalkedRows' = WalkedRows
  BY <1>2 DEF WalkedRows
<1>4. \A r : Before(r)' = Before(r)
  BY <1>2 DEF Before, Hashed
<1>5. \A r : Broken(r)' <=> Broken(r)
  BY <1>4 DEF Broken, HashOfLast, LastOf
<1>. QED BY <1>1, <1>3, <1>5

\* A batch is read: the walk stops at a broken row or keeps its place.
LEMMA VerifyBatchStep ==
  ASSUME VerifyInv, VerifyBatch
  PROVE  VerifyInv'
<1>. DEFINE Accepted(B) == ~ \E r \in B : ~ Accepts(B, r)
<1>1. PICK B \in SUBSET Remaining :
        /\ IsRead(B)
        /\ ~ Accepted(B) => walk' = [walk EXCEPT !.pc = "broken"]
        /\ Accepted(B) => GoodBatch(B)
  BY DEF VerifyBatch, GoodBatch
<1>2. /\ OrderInv /\ VerifyTypeOK /\ WalkInv /\ ChangeInv /\ NoFalseAlarm /\ ChangeReported
      /\ walk.pc = "walking" /\ UNCHANGED <<vars, change>> /\ UNCHANGED vars /\ change' = change
      /\ walk \in Walk /\ change \in Changes
  BY DEF VerifyInv, VerifyBatch, VerifyTypeOK
<1>3. /\ OrderInv' /\ WalkedRows' = WalkedRows /\ \A r : Broken(r)' <=> Broken(r)
      /\ change = "none" => IInv'
  BY <1>2, DatabaseStays DEF ChangeInv
<1>4. \A r \in B : r \in WalkedRows /\ walk.lastId < r.id
  BY DEF Remaining, WalkedRows
<1>5. /\ walk' \in Walk /\ walk'.sinceStart = walk.sinceStart
      /\ Accepted(B) => walk'.pc = (IF Cardinality(B) < batchSize THEN "ok" ELSE "walking")
      /\ ~ Accepted(B) => walk'.pc = "broken"
  <2>1. CASE Accepted(B)
    BY <1>1, <1>2, <2>1, GoodBatchFields
  <2>2. CASE ~ Accepted(B)
    BY <1>1, <1>2, <2>2 DEF Walk
  <2>. QED BY <2>1, <2>2
<1>6. VerifyTypeOK'
  BY <1>2, <1>5 DEF VerifyTypeOK
<1>7. walk.sinceStart = change => \A r \in B : Accepts(B, r) <=> ~ Broken(r)
  BY <1>1, <1>2, AcceptsIffNotBroken
<1>. HIDE DEF Accepted
<1>8. WalkInv'
  <2>. SUFFICES ASSUME walk'.pc = "walking", walk'.sinceStart = change' PROVE WalkInv'
    BY DEF WalkInv
  <2>1. Accepted(B) /\ walk.sinceStart = change
    BY <1>2, <1>5
  <2>. QED BY <1>1, <1>2, <2>1, GoodBatchKeepsPlace
<1>9. NoFalseAlarm'
  <2>. SUFFICES ASSUME change = "none", ~ Accepted(B) PROVE FALSE
    BY <1>2, <1>5 DEF NoFalseAlarm
  <2>1. walk.sinceStart = change /\ IInv
    BY <1>2 DEF ChangeInv
  <2>2. PICK r \in B : Broken(r)
    BY <1>7, <2>1 DEF Accepted
  <2>. QED BY <1>4, <2>1, <2>2, IntactIsUnbroken
<1>10. ASSUME walk.sinceStart = "visible", Accepted(B)
       PROVE  /\ walk'.pc = "walking"
              /\ \E r \in WalkedRows : Broken(r) /\ walk'.lastId < r.id
  <2>1. PICK r \in WalkedRows : Broken(r) /\ walk.lastId < r.id
    BY <1>2, <1>10 DEF ChangeInv
  <2>2. walk.sinceStart = change
    BY <1>2, <1>10 DEF ChangeInv
  <2>3. r \notin B
    BY <1>7, <1>10, <2>1, <2>2 DEF Accepted
  <2>4. r \in Remaining
    BY <1>2, <2>1, WalkedOrder DEF Remaining, WalkedRows, VerifyTypeOK, Walk
  <2>5. Cardinality(B) = batchSize /\ batchSize \in Nat
    BY <1>1, <2>3, <2>4, VerifyAssumption DEF IsRead
  <2>6. audit_log' = audit_log
    BY <1>2 DEF vars
  <2>7. walk'.lastId < r.id
    BY <1>1, <1>2, <1>10, <2>1, <2>3, <2>6, GoodBatchPasses
  <2>. QED BY <1>5, <1>10, <2>1, <2>5, <2>7
<1>11. ChangeReported'
  BY <1>2, <1>5, <1>10 DEF ChangeReported
<1>12. ChangeInv'
  <2>1. walk'.sinceStart \in {"none", change'}
    BY <1>2, <1>5 DEF ChangeInv
  <2>2. change' = "none" => IInv'
    BY <1>2, <1>3
  <2>3. change' = "visible" => \E r \in WalkedRows' : Broken(r)'
    BY <1>2, <1>3 DEF ChangeInv
  <2>4. walk'.pc = "walking" /\ walk'.sinceStart = "visible" =>
          \E r \in WalkedRows' : Broken(r)' /\ walk'.lastId < r.id
    BY <1>3, <1>5, <1>10
  <2>. QED BY <2>1, <2>2, <2>3, <2>4 DEF ChangeInv
<1>. QED BY <1>3, <1>6, <1>8, <1>9, <1>11, <1>12 DEF VerifyInv

\* A walk begins before the first row.
LEMMA VerifyStartStep ==
  ASSUME VerifyInv, VerifyStart
  PROVE  VerifyInv'
<1>1. /\ OrderInv /\ VerifyTypeOK /\ ChangeInv /\ UNCHANGED vars /\ change' = change
      /\ audit_log' = audit_log
      /\ change \in Changes
  BY DEF VerifyInv, VerifyStart, VerifyTypeOK, vars
<1>2. /\ OrderInv' /\ WalkedRows' = WalkedRows /\ \A r : Broken(r)' <=> Broken(r)
      /\ change = "none" => IInv'
  BY <1>1, DatabaseStays DEF ChangeInv
<1>3. /\ walk' = [pc |-> "walking", lastId |-> -1, started |-> FALSE, expectedPrev |-> Genesis,
                  sinceStart |-> change]
  BY DEF VerifyStart, IdleWalk
<1>4. VerifyTypeOK'
  BY <1>1, <1>3, GenesisType DEF VerifyTypeOK, Walk
<1>5. Passed' = {}
  BY <1>1, <1>3, WalkedOrder DEF Passed, Hashed
<1>6. WalkInv'
  <2>1. HashOfLast(Passed)' = Genesis
    BY <1>5 DEF HashOfLast
  <2>. QED BY <1>3, <1>5, <2>1 DEF WalkInv
<1>7. \A r \in WalkedRows : walk'.lastId < r.id
  BY <1>1, <1>3, WalkedOrder DEF WalkedRows
<1>8. ChangeInv'
  BY <1>1, <1>2, <1>3, <1>7 DEF ChangeInv
<1>. QED BY <1>2, <1>3, <1>4, <1>6, <1>8 DEF VerifyInv, NoFalseAlarm, ChangeReported

\* The report is sent and the walk forgotten.
LEMMA VerifyAgainStep ==
  ASSUME VerifyInv, VerifyAgain
  PROVE  VerifyInv'
<1>1. /\ OrderInv /\ VerifyTypeOK /\ ChangeInv /\ UNCHANGED vars /\ change' = change
      /\ change \in Changes
  BY DEF VerifyInv, VerifyAgain, VerifyTypeOK
<1>2. /\ OrderInv' /\ WalkedRows' = WalkedRows /\ \A r : Broken(r)' <=> Broken(r)
      /\ change = "none" => IInv'
  BY <1>1, DatabaseStays DEF ChangeInv
<1>3. walk' = IdleWalk /\ walk'.pc = "idle" /\ walk'.sinceStart = "none" /\ walk' \in Walk
  BY GenesisType DEF VerifyAgain, IdleWalk, Walk, Changes
<1>4. ChangeInv'
  BY <1>1, <1>2, <1>3 DEF ChangeInv
<1>. QED BY <1>1, <1>2, <1>3, <1>4 DEF VerifyInv, VerifyTypeOK, WalkInv, NoFalseAlarm, ChangeReported

\* The log grows behind the walk or ahead of it, never under it.
LEMMA LogStepKeepsWalk ==
  ASSUME VerifyInv, [Next]_vars, UNCHANGED <<walk, change>>
  PROVE  VerifyInv'
<1>1. /\ OrderInv /\ VerifyTypeOK /\ WalkInv /\ ChangeInv
      /\ NoFalseAlarm /\ ChangeReported
      /\ walk' = walk /\ change' = change
  BY DEF VerifyInv
<1>2. OrderInv' /\ (change = "none" => IInv')
  BY <1>1, NextOrder, NextIInv DEF ChangeInv
<1>3. /\ audit_log \subseteq audit_log'
      /\ \A r \in audit_log' \ audit_log : \A q \in audit_log : q.org = r.org => q.id < r.id
      /\ \A q \in audit_log' : q.id \in Nat
  <2>1. \A q \in audit_log' : q.id \in Nat
    BY <1>2 DEF OrderInv, TypeOK, Row
  <2>. QED BY <1>1, <2>1, AppendsInOrder
<1>4. WalkedRows \subseteq WalkedRows'
  BY <1>3 DEF WalkedRows
<1>5. ASSUME NEW r \in WalkedRows PROVE Broken(r)' <=> Broken(r)
  <2>1. Before(r)' = Before(r)
    BY <1>3 DEF Before, Hashed, WalkedRows
  <2>. QED BY <2>1 DEF Broken, HashOfLast, LastOf
<1>6. ASSUME \E r \in WalkedRows : r.id = walk.lastId PROVE Passed' = Passed
  BY <1>1, <1>3, <1>6 DEF Passed, Hashed, WalkedRows
<1>7. ASSUME walk.lastId = -1 PROVE Passed' = Passed
  BY <1>1, <1>3, <1>7 DEF Passed, Hashed
<1>8. WalkInv'
  <2>. SUFFICES ASSUME walk.pc = "walking", walk.sinceStart = change PROVE WalkInv'
    BY <1>1 DEF WalkInv
  <2>1. Passed' = Passed
    BY <1>1, <1>6, <1>7 DEF WalkInv
  <2>2. HashOfLast(Passed)' = HashOfLast(Passed)
    BY <2>1 DEF HashOfLast, LastOf
  <2>. QED BY <1>1, <1>4, <2>1, <2>2 DEF WalkInv
<1>9. ChangeInv'
  BY <1>1, <1>2, <1>4, <1>5 DEF ChangeInv
<1>. QED BY <1>1, <1>2, <1>8, <1>9 DEF VerifyInv, VerifyTypeOK, NoFalseAlarm, ChangeReported

-----------------------------------------------------------------------------
(* A stored row is changed *)

\* A change that invents no id and no organisation leaves the log in order.
LEMMA ChangedOrder ==
  ASSUME OrderInv, audit_log' \subseteq Row,
         \A s \in audit_log' : \E r \in audit_log : s.id = r.id /\ s.org = r.org,
         \A r, q \in audit_log' : r.org = q.org /\ r.id = q.id => r = q,
         UNCHANGED <<nextId, clock, lock, tx, dirty>>
  PROVE  OrderInv'
<1>1. TypeOK' /\ LockInv'
  BY DEF OrderInv, TypeOK, LockInv, InLock
<1>2. IdsBelowNext'
  BY DEF OrderInv, IdsBelowNext
<1>3. DirtyInv'
  BY DEF OrderInv, DirtyInv
<1>4. \A r \in audit_log' : r.id \in Nat /\ r.id < nextId
  BY DEF OrderInv, IdsBelowNext, Row
<1>5. nextId \in Nat
  BY DEF OrderInv, TypeOK
<1>6. HeadExists'
  <2>1. ASSUME NEW o \in Orgs, Hashed(audit_log', o) # {}
        PROVE  \E q \in Hashed(audit_log', o) : \A p \in Hashed(audit_log', o) : p.id <= q.id
    <3>1. \A r \in Hashed(audit_log', o) : r.id \in Nat /\ r.id < nextId
      BY <1>4 DEF Hashed
    <3>. HIDE DEF Hashed
    <3>2. PICK S : S = Hashed(audit_log', o)
      OBVIOUS
    <3>3. PICK n : n = nextId
      OBVIOUS
    <3>4. LastOf(S) \in S /\ \A q \in S : q.id <= LastOf(S).id
      BY <1>5, <2>1, <3>1, <3>2, <3>3, LastOfIsLast
    <3>. QED BY <3>2, <3>4
  <2>. QED BY <2>1 DEF HeadExists
<1>. QED BY <1>1, <1>2, <1>3, <1>6 DEF OrderInv

\* A change that breaks a row if it says that it does keeps the invariant.
LEMMA ChangedKeeps ==
  ASSUME VerifyInv, change = "none", change' \in {"visible", "hidden"},
         audit_log' \subseteq Row,
         \A s \in audit_log' : \E r \in audit_log : s.id = r.id /\ s.org = r.org,
         \A r, q \in audit_log' : r.org = q.org /\ r.id = q.id => r = q,
         UNCHANGED <<nextId, clock, lock, tx, dirty, walk>>,
         change' = "visible" => \E r \in WalkedRows' : Broken(r)'
  PROVE  VerifyInv'
<1>1. OrderInv' /\ walk' = walk
  BY ChangedOrder DEF VerifyInv
<1>2. walk.sinceStart = "none"
  BY DEF VerifyInv, ChangeInv
<1>3. VerifyTypeOK'
  BY <1>1 DEF VerifyInv, VerifyTypeOK, Changes
<1>. QED BY <1>1, <1>2, <1>3 DEF VerifyInv, WalkInv, ChangeInv, NoFalseAlarm, ChangeReported

\* What is known of a hashed row of an intact chain.
LEMMA HashedRow ==
  ASSUME IInv, NEW r \in Hashed(audit_log, VerifiedOrg)
  PROVE  /\ r \in audit_log /\ r \in Row /\ r.org = VerifiedOrg /\ r.id \in Nat
         /\ r.prev \in Hash /\ r.hash # Null /\ r.hash # Genesis
         /\ ContentOf(r) \in Content
         /\ r.hash = computeEntryHash(r.prev, ContentOf(r))
  BY DEF IInv, OrderInv, TypeOK, Hashed, Row, ContentOf, Content, ChainIntact, Genesis, Null

\* Equal hashes are of the same row.
LEMMA HashNamesRow ==
  ASSUME IInv, NEW r \in Hashed(audit_log, VerifiedOrg), NEW q \in Hashed(audit_log, VerifiedOrg),
         r.hash = q.hash
  PROVE  r = q
<1>1. ContentOf(r) = ContentOf(q)
  BY HashedRow, EntryHashInjective
<1>2. r.id = q.id /\ r.org = q.org /\ r \in audit_log /\ q \in audit_log
  BY <1>1 DEF ContentOf, Hashed
<1>. QED BY <1>2 DEF IInv, OrderInv, HeadExists

\* A hashed row that is followed has a next one, which links to it.
LEMMA NextHashed ==
  ASSUME IInv, NEW r \in Hashed(audit_log, VerifiedOrg), Followed(r)
  PROVE  \E p \in Hashed(audit_log, VerifiedOrg) :
            /\ r.id < p.id /\ p.prev = r.hash
            /\ \A q \in Hashed(audit_log, VerifiedOrg) : q.id < p.id => q.id <= r.id
<1>1. \A q \in Hashed(audit_log, VerifiedOrg) : q \in audit_log /\ q.org = VerifiedOrg /\ q.id \in Nat
  BY HashedRow
<1>. DEFINE later == {q \in Hashed(audit_log, VerifiedOrg) : q.id > r.id}
            T == {q.id : q \in later}
<1>2. T \subseteq Nat /\ T # {}
  BY <1>1 DEF Followed
<1>3. PICK m \in T : \A n \in T : m <= n
  BY <1>2, LeastNatural
<1>4. PICK p \in later : m = p.id
  BY <1>3
<1>5. \A q \in Hashed(audit_log, VerifiedOrg) : q.id > r.id => p.id <= q.id
  BY <1>3, <1>4
<1>6. p \in Hashed(audit_log, VerifiedOrg) /\ r.id < p.id
  BY <1>1, <1>4
<1>. HIDE DEF later, T
<1>7. \A q \in Hashed(audit_log, VerifiedOrg) : q.id < p.id => q.id <= r.id
  BY <1>1, <1>5, <1>6
<1>8. PICK q \in audit_log : DirectlyBefore(q, p) /\ p.prev = q.hash
  <2>1. p \in audit_log /\ p.org = VerifiedOrg /\ p.hash # Null
    BY <1>6 DEF Hashed
  <2>2. ~ \A s \in Hashed(audit_log, p.org) : p.id <= s.id
    BY <1>1, <1>6, <2>1
  <2>. QED BY <2>1, <2>2 DEF IInv, ChainIntact
<1>9. q \in Hashed(audit_log, VerifiedOrg) /\ q.id < p.id /\ ~ (q.id < r.id /\ r.id < p.id)
  BY <1>1, <1>6, <1>8 DEF DirectlyBefore, Hashed
<1>10. q.id = r.id
  BY <1>1, <1>6, <1>7, <1>9
<1>11. q = r
  BY <1>1, <1>9, <1>10 DEF IInv, OrderInv, HeadExists
<1>. QED BY <1>6, <1>7, <1>8, <1>11

\* An edited body no longer hashes to what is stored.
LEMMA EditRowStep ==
  ASSUME VerifyInv, EditRow
  PROVE  VerifyInv'
<1>0. PICK r \in Hashed(audit_log, VerifiedOrg) : \E b \in Bodies \ {r.body} :
        Changed((audit_log \ {r}) \cup {[r EXCEPT !.body = b]}, TRUE)
  BY DEF EditRow
<1>1. PICK b \in Bodies \ {r.body} :
        Changed((audit_log \ {r}) \cup {[r EXCEPT !.body = b]}, TRUE)
  BY <1>0
<1>2. PICK s : s = [r EXCEPT !.body = b]
  OBVIOUS
<1>3. /\ change = "none" /\ change' = "visible" /\ IInv
      /\ audit_log' = (audit_log \ {r}) \cup {s}
      /\ UNCHANGED <<nextId, clock, lock, tx, dirty, walk>>
  BY <1>1, <1>2 DEF Changed, VerifyInv, ChangeInv
<1>4. /\ r \in audit_log /\ r \in Row /\ r.org = VerifiedOrg /\ r.prev \in Hash /\ r.hash # Null
      /\ ContentOf(r) \in Content /\ r.hash = computeEntryHash(r.prev, ContentOf(r))
  BY <1>3, HashedRow
<1>5. /\ s \in Row /\ s.id = r.id /\ s.org = r.org /\ s.prev = r.prev /\ s.hash = r.hash
      /\ s.body = b /\ b # r.body
  BY <1>2, <1>4 DEF Row
<1>6. ContentOf(s) \in Content /\ ContentOf(s) # ContentOf(r)
  BY <1>5 DEF ContentOf, Content, Row
<1>7. s.hash # computeEntryHash(s.prev, ContentOf(s))
  BY <1>4, <1>5, <1>6, EntryHashInjective
<1>8. s \in WalkedRows' /\ Broken(s)'
  BY <1>3, <1>4, <1>5, <1>7 DEF WalkedRows, Broken
<1>9. /\ audit_log' \subseteq Row
      /\ \A q \in audit_log' : \E p \in audit_log : q.id = p.id /\ q.org = p.org
      /\ \A q, p \in audit_log' : q.org = p.org /\ q.id = p.id => q = p
  BY <1>3, <1>4, <1>5 DEF IInv, OrderInv, TypeOK, HeadExists
<1>. QED BY <1>3, <1>8, <1>9, ChangedKeeps

\* A cleared hash leaves a NULL behind a hash, or a first hash that links to one.
LEMMA ClearHashStep ==
  ASSUME VerifyInv, ClearHash
  PROVE  VerifyInv'
<1>1. PICK r \in Hashed(audit_log, VerifiedOrg) :
        Changed((audit_log \ {r}) \cup {[r EXCEPT !.hash = Null]}, Preceded(r) \/ Followed(r))
  BY DEF ClearHash
<1>2. PICK s : s = [r EXCEPT !.hash = Null]
  OBVIOUS
<1>3. /\ change = "none" /\ IInv
      /\ change' = IF Preceded(r) \/ Followed(r) THEN "visible" ELSE "hidden"
      /\ audit_log' = (audit_log \ {r}) \cup {s}
      /\ UNCHANGED <<nextId, clock, lock, tx, dirty, walk>>
  BY <1>1, <1>2 DEF Changed, VerifyInv, ChangeInv
<1>4. /\ r \in audit_log /\ r \in Row /\ r.org = VerifiedOrg /\ r.hash # Null /\ r.hash # Genesis
      /\ \A q \in Hashed(audit_log, VerifiedOrg) : q.id \in Nat
  BY <1>3, HashedRow
<1>5. s \in Row /\ s.id = r.id /\ s.org = r.org /\ s.hash = Null
  BY <1>2, <1>4, GenesisType DEF Row
<1>6. /\ audit_log' \subseteq Row
      /\ \A q \in audit_log' : \E p \in audit_log : q.id = p.id /\ q.org = p.org
      /\ \A q, p \in audit_log' : q.org = p.org /\ q.id = p.id => q = p
  BY <1>3, <1>4, <1>5 DEF IInv, OrderInv, TypeOK, HeadExists
<1>7. Hashed(audit_log', VerifiedOrg) = Hashed(audit_log, VerifiedOrg) \ {r}
  BY <1>3, <1>4, <1>5 DEF Hashed
<1>8. ASSUME Preceded(r) PROVE \E p \in WalkedRows' : Broken(p)'
  <2>1. PICK q \in Hashed(audit_log, VerifiedOrg) : q.id < r.id
    BY <1>4, <1>8 DEF Preceded
  <2>2. q \in Hashed(audit_log', VerifiedOrg) /\ q.id < s.id
    BY <1>4, <1>5, <1>7, <2>1
  <2>3. Before(s)' # {}
    BY <2>2 DEF Before
  <2>. QED BY <1>3, <1>4, <1>5, <2>3 DEF WalkedRows, Broken
<1>9. ASSUME ~ Preceded(r), Followed(r) PROVE \E p \in WalkedRows' : Broken(p)'
  <2>1. PICK p \in Hashed(audit_log, VerifiedOrg) :
            /\ r.id < p.id /\ p.prev = r.hash
            /\ \A q \in Hashed(audit_log, VerifiedOrg) : q.id < p.id => q.id <= r.id
    BY <1>3, <1>9, NextHashed
  <2>2. ASSUME NEW q \in Hashed(audit_log, VerifiedOrg), q.id < p.id PROVE q = r
    <3>1. q.id = r.id
      BY <1>4, <1>9, <2>1, <2>2 DEF Preceded
    <3>. QED BY <1>3, <1>4, <3>1 DEF IInv, OrderInv, HeadExists, Hashed
  <2>3. Before(p)' = {}
    BY <1>7, <2>2 DEF Before
  <2>4. p \in WalkedRows' /\ p.hash # Null
    BY <1>3, <1>4, <2>1 DEF WalkedRows, Hashed
  <2>. QED BY <1>4, <2>1, <2>3, <2>4 DEF Broken, HashOfLast
<1>. QED BY <1>3, <1>6, <1>8, <1>9, ChangedKeeps

\* A row removed from inside the chain leaves a link to a hash that is gone.
LEMMA RemoveRowStep ==
  ASSUME VerifyInv, RemoveRow
  PROVE  VerifyInv'
<1>1. PICK r \in Hashed(audit_log, VerifiedOrg) : Changed(audit_log \ {r}, Followed(r))
  BY DEF RemoveRow
<1>2. /\ change = "none" /\ IInv
      /\ change' = IF Followed(r) THEN "visible" ELSE "hidden"
      /\ audit_log' = audit_log \ {r}
      /\ UNCHANGED <<nextId, clock, lock, tx, dirty, walk>>
  BY <1>1 DEF Changed, VerifyInv, ChangeInv
<1>3. /\ audit_log' \subseteq Row
      /\ \A q \in audit_log' : \E p \in audit_log : q.id = p.id /\ q.org = p.org
      /\ \A q, p \in audit_log' : q.org = p.org /\ q.id = p.id => q = p
  BY <1>2 DEF IInv, OrderInv, TypeOK, HeadExists
<1>4. ASSUME Followed(r) PROVE \E p \in WalkedRows' : Broken(p)'
  <2>1. PICK p \in Hashed(audit_log, VerifiedOrg) :
            /\ r.id < p.id /\ p.prev = r.hash
            /\ \A q \in Hashed(audit_log, VerifiedOrg) : q.id < p.id => q.id <= r.id
    BY <1>2, <1>4, NextHashed
  <2>2. /\ r.hash # Genesis /\ r.id \in Nat /\ p.hash # Null /\ p \in audit_log /\ p.org = VerifiedOrg
        /\ \A q \in Hashed(audit_log, VerifiedOrg) : q.id \in Nat /\ q \in audit_log
    BY <1>2, HashedRow
  <2>3. p \in WalkedRows'
    BY <1>2, <2>1, <2>2 DEF WalkedRows
  <2>4. PICK S : S = Before(p)'
    OBVIOUS
  <2>5. \A q \in S : q \in Hashed(audit_log, VerifiedOrg) /\ q # r
    BY <1>2, <2>4 DEF Before, Hashed
  <2>6. p.prev # HashOfLast(S)
    <3>1. CASE S = {}
      BY <2>1, <2>2, <3>1 DEF HashOfLast
    <3>2. CASE S # {}
      <4>1. \A q \in S : q.id \in Nat /\ q.id < nextId
        BY <1>2, <2>2, <2>5 DEF IInv, OrderInv, IdsBelowNext
      <4>2. nextId \in Nat
        BY <1>2 DEF IInv, OrderInv, TypeOK
      <4>3. LastOf(S) \in S
        BY <3>2, <4>1, <4>2, LastOfIsLast
      <4>4. LastOf(S).hash # r.hash
        BY <1>2, <2>5, <4>3, HashNamesRow
      <4>. QED BY <2>1, <3>2, <4>4 DEF HashOfLast
    <3>. QED BY <3>1, <3>2
  <2>7. Broken(p)'
    BY <2>2, <2>4, <2>6 DEF Broken, HashOfLast, LastOf
  <2>. QED BY <2>3, <2>7
<1>. QED BY <1>2, <1>3, <1>4, ChangedKeeps

-----------------------------------------------------------------------------
(* The walk: theorems *)

\* At first nothing is walked and nothing changed.
LEMMA VerifyInitInv == VerifyInit => VerifyInv
<1>. SUFFICES ASSUME VerifyInit PROVE VerifyInv
  OBVIOUS
<1>1. IInv /\ OrderInv /\ walk = IdleWalk /\ change = "none"
  BY InitIInv DEF VerifyInit, IInv
<1>2. VerifyTypeOK
  BY <1>1, GenesisType DEF VerifyTypeOK, IdleWalk, Walk, Changes
<1>. QED
  BY <1>1, <1>2 DEF VerifyInv, IdleWalk, WalkInv, ChangeInv, NoFalseAlarm, ChangeReported

\* Every step of the appends, of the walk and of the change preserves it.
LEMMA VerifyNextKeeps == VerifyInv /\ [VerifyNext]_verifyVars => VerifyInv'
<1>. SUFFICES ASSUME VerifyInv, [VerifyNext]_verifyVars PROVE VerifyInv'
  OBVIOUS
<1>1. CASE UNCHANGED verifyVars
  BY <1>1, LogStepKeepsWalk DEF verifyVars
<1>2. CASE Next /\ UNCHANGED <<walk, change>>
  BY <1>2, LogStepKeepsWalk
<1>3. CASE VerifyStart \/ VerifyBatch \/ VerifyAgain
  BY <1>3, VerifyStartStep, VerifyBatchStep, VerifyAgainStep
<1>4. CASE EditRow \/ ClearHash \/ RemoveRow
  BY <1>4, EditRowStep, ClearHashStep, RemoveRowStep
<1>. QED BY <1>1, <1>2, <1>3, <1>4 DEF VerifyNext

\* The walk knows its place in the log, and a visible change leaves a broken
\* row that a later walk has still ahead, in every reachable state.
THEOREM VerifyInvariant == VerifySpec => []VerifyInv
BY VerifyInitInv, VerifyNextKeeps, PTL DEF VerifySpec

\* GET /audit/verify never reports a log that nobody changed, whatever is
\* appended between its batches and however large they are.
THEOREM NeverFalseAlarm == VerifySpec => []NoFalseAlarm
BY VerifyInvariant, PTL DEF VerifyInv

\* Any edit of a hashed row, any cleared hash with a hashed neighbour and any row
\* removed from inside the chain makes every later walk report a break.
THEOREM ChangesAreReported == VerifySpec => []ChangeReported
BY VerifyInvariant, PTL DEF VerifyInv

=============================================================================
