------------------------- MODULE ErrorTriageProofs -------------------------
(***************************************************************************)
(* What JiraIssues promises about the ticket of a failure and ErrorTriage  *)
(* about the group's row and the two being in step, proved for any number  *)
(* of callers, uploads, sweeps, users' changes and webhook events.         *)
(***************************************************************************)
EXTENDS ErrorTriage, TLAPS

-----------------------------------------------------------------------------
(* The ticket of a failure *)

\* A caller between LockIssue and the end of its transaction.
InLock(c) == call[c].pc \in {"recheck", "create", "insert"}

\* It holds the advisory lock of the fingerprint.
LockInv == \A c \in Callers : InLock(c) => issueLock = c

\* Behind Recheck there is no link, for nobody else can record one.
NoLinkBehindRecheck == \A c \in Callers : call[c].pc \in {"create", "insert"} => link = NoTicket

\* Every ticket is an orphan, or the linked one, or the one a caller at insert
\* has just been given.
Accounted ==
  /\ link = NoTicket /\ (\A c \in Callers : call[c].pc # "insert") => tickets <= orphans
  /\ tickets <= 1 + orphans

\* A caller at insert has a ticket, and callers that returned have the linked one.
Issues ==
  \A c \in Callers :
    /\ call[c].pc = "insert" => call[c].issue # NoTicket
    /\ call[c].pc = "returned" => call[c].issue = link /\ link # NoTicket

IssueInv ==
  /\ IssueTypeOK
  /\ LockInv
  /\ NoLinkBehindRecheck
  /\ Accounted
  /\ Issues

-----------------------------------------------------------------------------
\* There are no tickets, links or calls in the beginning.
LEMMA IssueInitInv == IssueInit => IssueInv
<1>. SUFFICES ASSUME IssueInit PROVE IssueInv
  OBVIOUS
<1>. USE DEF IssueInit
<1>1. IssueTypeOK
  BY CallBoundAssumption DEF IssueTypeOK, Call, NoTicket
<1>2. LockInv /\ NoLinkBehindRecheck /\ Issues
  BY DEF LockInv, InLock, NoLinkBehindRecheck, Issues
<1>3. Accounted
  BY DEF Accounted
<1>. QED BY <1>1, <1>2, <1>3 DEF IssueInv

\* Looking for the link without the lock changes only the caller's place.
LEMMA FindIssueStep ==
  ASSUME IssueInv, NEW c \in Callers, FindIssue(c)
  PROVE  IssueInv'
<1>. USE DEF IssueInv, FindIssue, Return
<1>1. IssueTypeOK'
  BY CallBoundAssumption DEF IssueTypeOK, Call, NoTicket
<1>2. LockInv' /\ NoLinkBehindRecheck' /\ Issues'
  BY DEF IssueTypeOK, Call, LockInv, InLock, NoLinkBehindRecheck, Issues
<1>3. Accounted'
  BY DEF IssueTypeOK, Call, Accounted
<1>. QED BY <1>1, <1>2, <1>3

\* The lock is taken only if it is free, so its holder is the caller.
LEMMA LockIssueStep ==
  ASSUME IssueInv, NEW c \in Callers, LockIssue(c)
  PROVE  IssueInv'
<1>. USE DEF IssueInv, LockIssue
<1>1. IssueTypeOK'
  BY DEF IssueTypeOK, Call
<1>2. LockInv' /\ NoLinkBehindRecheck' /\ Issues'
  BY CallerAssumption DEF IssueTypeOK, Call, LockInv, InLock, NoLinkBehindRecheck, Issues
<1>3. Accounted'
  BY DEF IssueTypeOK, Call, Accounted
<1>. QED BY <1>1, <1>2, <1>3

\* Recheck goes on only if there is no link.
LEMMA RecheckStep ==
  ASSUME IssueInv, NEW c \in Callers, Recheck(c)
  PROVE  IssueInv'
<1>. USE DEF IssueInv, Recheck, Return, Unlock
<1>1. IssueTypeOK'
  BY DEF IssueTypeOK, Call
<1>2. LockInv'
  BY DEF IssueTypeOK, Call, LockInv, InLock
<1>3. NoLinkBehindRecheck' /\ Issues'
  BY DEF IssueTypeOK, Call, NoLinkBehindRecheck, Issues
<1>4. Accounted'
  BY DEF IssueTypeOK, Call, Accounted
<1>. QED BY <1>1, <1>2, <1>3, <1>4

\* Nobody but the caller is at create or insert.
LEMMA OneCreator ==
  ASSUME IssueInv, NEW c \in Callers, InLock(c)
  PROVE  \A d \in Callers \ {c} : ~ InLock(d)
BY DEF IssueInv, LockInv

\* The caller that creates a ticket is the only one that may hold one.
LEMMA CreateIssueStep ==
  ASSUME IssueInv, NEW c \in Callers, CreateIssue(c)
  PROVE  IssueInv'
<1>. USE DEF IssueInv, CreateIssue
<1>1. IssueTypeOK'
  BY DEF IssueTypeOK, Call
<1>2. LockInv' /\ NoLinkBehindRecheck' /\ Issues'
  BY DEF IssueTypeOK, Call, LockInv, InLock, NoLinkBehindRecheck, Issues, NoTicket
<1>3. \A d \in Callers : call[d].pc # "insert"
  BY OneCreator DEF InLock
<1>4. tickets <= orphans
  BY <1>3 DEF NoLinkBehindRecheck, Accounted
<1>5. Accounted'
  BY <1>4 DEF IssueTypeOK, Call, Accounted
<1>. QED BY <1>1, <1>2, <1>5

\* The link that is recorded is that of the caller's ticket.
LEMMA RecordIssueStep ==
  ASSUME IssueInv, NEW c \in Callers, RecordIssue(c)
  PROVE  IssueInv'
<1>. USE DEF IssueInv, RecordIssue, Return, Unlock
<1>1. IssueTypeOK'
  BY DEF IssueTypeOK, Call
<1>2. \A d \in Callers \ {c} : ~ InLock(d) /\ call'[d] = call[d]
  BY OneCreator DEF InLock, IssueTypeOK
<1>3. call'[c].pc = "returned" /\ call'[c].issue = link'
  BY DEF IssueTypeOK
<1>4. LockInv' /\ NoLinkBehindRecheck'
  BY <1>2, <1>3 DEF LockInv, InLock, NoLinkBehindRecheck
<1>5. link' # NoTicket
  BY DEF Issues
<1>6. Issues'
  BY <1>2, <1>3, <1>5 DEF Issues, InLock
<1>7. Accounted'
  BY <1>5 DEF Accounted
<1>. QED BY <1>1, <1>4, <1>6, <1>7

\* A rollback before a ticket exists.
LEMMA CallFailsStep ==
  ASSUME IssueInv, NEW c \in Callers, CallFails(c)
  PROVE  IssueInv'
<1>. USE DEF IssueInv, CallFails, Unlock
<1>1. IssueTypeOK'
  BY DEF IssueTypeOK, Call, NoTicket
<1>2. LockInv' /\ NoLinkBehindRecheck' /\ Issues'
  BY CallerAssumption DEF IssueTypeOK, Call, LockInv, InLock, NoLinkBehindRecheck, Issues
<1>3. Accounted'
  BY DEF IssueTypeOK, Call, Accounted
<1>. QED BY <1>1, <1>2, <1>3

\* A rollback after a ticket exists: one ticket more, or one holder less, and in
\* both cases one orphan more.
LEMMA CallOrphansStep ==
  ASSUME IssueInv, NEW c \in Callers, CallOrphans(c)
  PROVE  IssueInv'
<1>. USE DEF IssueInv, CallOrphans, Unlock
<1>1. IssueTypeOK'
  BY CallBoundAssumption DEF IssueTypeOK, Call, NoTicket
<1>2. LockInv' /\ NoLinkBehindRecheck' /\ Issues'
  BY DEF IssueTypeOK, Call, LockInv, InLock, NoLinkBehindRecheck, Issues
<1>3. link = NoTicket
  BY DEF NoLinkBehindRecheck
<1>4. tickets' <= orphans'
  <2>1. CASE call[c].pc = "insert"
    BY <2>1 DEF IssueTypeOK, Accounted
  <2>2. CASE call[c].pc = "create"
    <3>1. \A d \in Callers : call[d].pc # "insert"
      BY <2>2, OneCreator DEF InLock
    <3>. QED BY <2>2, <3>1, <1>3 DEF IssueTypeOK, Accounted
  <2>. QED BY <2>1, <2>2
<1>5. Accounted'
  BY <1>4 DEF IssueTypeOK, Accounted
<1>. QED BY <1>1, <1>2, <1>5

\* Every step keeps the invariant.
LEMMA IssueNextInv == IssueInv /\ [IssueNext]_issueVars => IssueInv'
<1>. SUFFICES ASSUME IssueInv, [IssueNext]_issueVars PROVE IssueInv'
  OBVIOUS
<1>1. CASE UNCHANGED issueVars
  BY <1>1 DEF issueVars, IssueInv, IssueTypeOK, LockInv, InLock, NoLinkBehindRecheck, Accounted, Issues
<1>2. ASSUME NEW c \in Callers,
             FindIssue(c) \/ LockIssue(c) \/ Recheck(c) \/ CreateIssue(c)
             \/ RecordIssue(c) \/ CallFails(c) \/ CallOrphans(c)
      PROVE  IssueInv'
  BY <1>2, FindIssueStep, LockIssueStep, RecheckStep, CreateIssueStep, RecordIssueStep,
     CallFailsStep, CallOrphansStep
<1>. QED BY <1>1, <1>2 DEF IssueNext

-----------------------------------------------------------------------------
\* The invariant that carries the theorems below.
THEOREM IssueInvariant == IssueSpec => []IssueInv
BY IssueInitInv, IssueNextInv, PTL DEF IssueSpec

\* The variables of the ticket protocol keep their types.
THEOREM IssueTypeCorrect == IssueSpec => []IssueTypeOK
<1>1. IssueInv => IssueTypeOK
  BY DEF IssueInv
<1>. QED BY <1>1, IssueInvariant, PTL

\* "Exactly one ticket": however many callers race, a second ticket exists only
\* if Jira created one whose link could not be recorded.
THEOREM OneTicketEver == IssueSpec => []OneTicket
<1>1. IssueInv => OneTicket
  BY DEF IssueInv, Accounted, OneTicket
<1>. QED BY <1>1, IssueInvariant, PTL

\* "The rest reuse its result": every caller that returned has the linked ticket.
THEOREM SameTicketEver == IssueSpec => []SameTicket
<1>1. IssueInv => SameTicket
  BY DEF IssueInv, Issues, SameTicket
<1>. QED BY <1>1, IssueInvariant, PTL

-----------------------------------------------------------------------------
(* The group's row *)

\* Only a recorded upload that found the group fixed holds the row, and as long
\* as it does the group stays fixed.
HolderInv ==
  group.holder # NoUpload => group.status = "fixed" /\ upload[group.holder].pc = "recorded"

\* A fix is used up by at most one recurrence: a fixed group has one to spare.
FixInv ==
  /\ group.recurrences <= past.fixes
  /\ group.status = "fixed" => group.recurrences < past.fixes

\* An upload that still counts on the group being fixed is right, and once
\* recorded it is the one that holds the row.
StaysInv ==
  \A u \in Uploads : upload[u].stays =>
    /\ group.status = "fixed"
    /\ upload[u].pc = "recorded" => group.holder = u

TriageInv ==
  /\ TriageTypeOK
  /\ HolderInv
  /\ FixInv
  /\ StaysInv

-----------------------------------------------------------------------------
(* Types *)

\* The window is a number of days, so ages are naturals.
LEMMA AgeType ==
  /\ Never \in Nat /\ 0 \in 0 .. Window /\ Window \in Nat /\ Never \in 0 .. Never
  /\ \A a \in 0 .. Window : a \in 0 .. Never /\ Older(a) \in 0 .. Window
  /\ \A a \in 0 .. Never : a # Never => Older(a) \in 0 .. Never
BY WindowAssumption DEF Never, Older

\* Charging a bound keeps the counters of the bounds in their ranges.
LEMMA SpendType ==
  ASSUME TriageTypeOK,
         \/ Spend("uploads", MaxUploads) \/ Spend("patches", MaxPatches)
         \/ Spend("edits", MaxEdits) \/ Spend("lost", MaxLost)
  PROVE  spent' \in [uploads : 0 .. MaxUploads, patches : 0 .. MaxPatches,
                     edits : 0 .. MaxEdits, lost : 0 .. MaxLost]
<1>. USE BoundAssumption DEF TriageTypeOK, Spend
<1>1. CASE Spend("uploads", MaxUploads)
  BY <1>1
<1>2. CASE Spend("patches", MaxPatches)
  BY <1>2
<1>3. CASE Spend("edits", MaxEdits)
  BY <1>3
<1>4. CASE Spend("lost", MaxLost)
  BY <1>4
<1>. QED BY <1>1, <1>2, <1>3, <1>4

\* Starting a sync and noting a change keep the types.
LEMMA BecomeType ==
  ASSUME TriageTypeOK, NEW s, NEW synced \in BOOLEAN, Become(s, synced),
         synced => s \in {"fixed", "regressed"}
  PROVE  past' \in Past /\ syncs' \in [Sync -> Nat]
<1>1. past' \in Past
  BY DEF TriageTypeOK, Past, Become
<1>2. CASE synced
  <2>1. [to |-> s, pc |-> "link"] \in Sync
    BY <1>2 DEF Sync
  <2>. QED BY <1>1, <1>2, <2>1 DEF TriageTypeOK, Become
<1>3. CASE ~ synced
  BY <1>1, <1>3 DEF TriageTypeOK, Become
<1>. QED BY <1>2, <1>3

\* Overwriting the status, and the end of an upload, keep the uploads' type.
LEMMA UploadType ==
  ASSUME TriageTypeOK
  PROVE  /\ Idle \in Upload
         /\ Overwritten \in [Uploads -> Upload]
         /\ \A u \in Uploads : /\ Overwritten[u].pc = upload[u].pc
                               /\ ~ Overwritten[u].stays
<1>1. Idle \in Upload
  BY AgeType DEF Idle, Upload
<1>2. \A r \in Upload : /\ [r EXCEPT !.stays = FALSE] \in Upload
                        /\ [r EXCEPT !.stays = FALSE].pc = r.pc
                        /\ ~ [r EXCEPT !.stays = FALSE].stays
  BY DEF Upload
<1>3. \A u \in Uploads : upload[u] \in Upload
  BY DEF TriageTypeOK
<1>. QED BY <1>1, <1>2, <1>3, Zenon DEF Overwritten

-----------------------------------------------------------------------------
(* The invariant is preserved *)

\* At first there is no group, no upload and nothing to sync.
LEMMA TriageInitInv == TriageInit => TriageInv
<1>. SUFFICES ASSUME TriageInit PROVE TriageInv
  OBVIOUS
<1>1. Idle \in Upload /\ ~ Idle.stays
  BY AgeType DEF Idle, Upload
<1>2. TriageTypeOK
  <2>1. group \in [status : Statuses, recurrences : Nat, holder : Uploads \cup {NoUpload}]
    BY DEF TriageInit, Statuses
  <2>2. upload \in [Uploads -> Upload] /\ sweep \in [Sweeps -> BOOLEAN]
    BY <1>1, Zenon DEF TriageInit
  <2>3. syncs \in [Sync -> Nat] /\ closed \in BOOLEAN /\ events \in Nat
    BY DEF TriageInit, NoSyncs
  <2>4. past \in Past /\ seen \in 0 .. Never
    BY AgeType DEF TriageInit, Past
  <2>5. spent \in [uploads : 0 .. MaxUploads, patches : 0 .. MaxPatches,
                   edits : 0 .. MaxEdits, lost : 0 .. MaxLost]
    BY BoundAssumption DEF TriageInit
  <2>. QED BY <2>1, <2>2, <2>3, <2>4, <2>5 DEF TriageTypeOK
<1>3. HolderInv /\ FixInv
  BY DEF TriageInit, HolderInv, FixInv
<1>4. StaysInv
  BY <1>1 DEF TriageInit, StaysInv
<1>. QED BY <1>2, <1>3, <1>4 DEF TriageInv

\* A write of the status on a free row, with what goes with it: no upload counts
\* on the old status, and becoming fixed adds a fix.
LEMMA StatusWritten ==
  ASSUME TriageInv, RowFree, NEW s \in Statuses,
         group' = [group EXCEPT !.status = s],
         past'.fixes = IF s = "fixed" /\ group.status # "fixed" THEN past.fixes + 1
                                                               ELSE past.fixes,
         upload' = Overwritten
  PROVE  HolderInv' /\ FixInv' /\ StaysInv'
<1>. USE DEF TriageInv, TriageTypeOK
<1>1. group'.holder = NoUpload /\ group'.status = s /\ group'.recurrences = group.recurrences
  BY DEF RowFree
<1>2. HolderInv'
  BY <1>1 DEF HolderInv
<1>3. FixInv'
  BY <1>1 DEF FixInv, Past
<1>4. StaysInv'
  BY UploadType DEF StaysInv
<1>. QED BY <1>2, <1>3, <1>4

\* A user's change of the status.
LEMMA PatchStep ==
  ASSUME TriageInv, NEW s \in PatchTo, Patch(s)
  PROVE  TriageInv'
<1>1. s \in Statuses
  BY PatchToAssumption DEF Statuses
<1>2. TriageTypeOK'
  <2>1. past' \in Past /\ syncs' \in [Sync -> Nat]
    BY BecomeType DEF TriageInv, Patch
  <2>2. upload' \in [Uploads -> Upload]
    BY UploadType DEF TriageInv, Patch
  <2>3. spent' \in [uploads : 0 .. MaxUploads, patches : 0 .. MaxPatches,
                    edits : 0 .. MaxEdits, lost : 0 .. MaxLost]
    BY SpendType DEF TriageInv, Patch
  <2>. QED BY <1>1, <2>1, <2>2, <2>3 DEF TriageInv, TriageTypeOK, Patch
<1>3. HolderInv' /\ FixInv' /\ StaysInv'
  BY <1>1, StatusWritten DEF Patch, Become
<1>. QED BY <1>2, <1>3 DEF TriageInv

\* An upload begins; it counts on the status only if the group is fixed now.
LEMMA BeginUploadStep ==
  ASSUME TriageInv, NEW u \in Uploads, BeginUpload(u)
  PROVE  TriageInv'
<1>. DEFINE new == [pc |-> "begun", age |-> 0, stays |-> group.status = "fixed"]
<1>1. new \in Upload /\ new.pc = "begun" /\ (new.stays <=> group.status = "fixed")
  BY AgeType DEF Upload
<1>2. upload' = [upload EXCEPT ![u] = new]
  BY DEF BeginUpload
<1>. HIDE DEF new
<1>3. TriageTypeOK'
  <2>1. spent' \in [uploads : 0 .. MaxUploads, patches : 0 .. MaxPatches,
                    edits : 0 .. MaxEdits, lost : 0 .. MaxLost]
    BY SpendType DEF TriageInv, BeginUpload
  <2>. QED BY <1>1, <1>2, <2>1 DEF TriageInv, TriageTypeOK, BeginUpload
<1>4. HolderInv'
  BY <1>2 DEF TriageInv, TriageTypeOK, HolderInv, BeginUpload
<1>5. FixInv'
  BY DEF TriageInv, FixInv, BeginUpload
<1>6. StaysInv'
  BY <1>1, <1>2 DEF TriageInv, TriageTypeOK, StaysInv, BeginUpload
<1>. QED BY <1>3, <1>4, <1>5, <1>6 DEF TriageInv

\* The UPDATE of an upload: it takes the row of a fixed group.
LEMMA RecordErrorRecurrenceStep ==
  ASSUME TriageInv, NEW u \in Uploads, RecordErrorRecurrence(u)
  PROVE  TriageInv'
<1>. USE DEF TriageInv, TriageTypeOK
<1>1. /\ upload' = [upload EXCEPT ![u].pc = "recorded"]
      /\ upload' \in [Uploads -> Upload]
      /\ upload'[u].pc = "recorded" /\ upload'[u].stays = upload[u].stays
      /\ \A v \in Uploads \ {u} : upload'[v] = upload[v]
  BY DEF RecordErrorRecurrence, Upload
<1>2. TriageTypeOK'
  BY <1>1 DEF RecordErrorRecurrence
<1>3. HolderInv'
  BY <1>1 DEF HolderInv, RecordErrorRecurrence, RowFree
<1>4. FixInv'
  BY DEF FixInv, RecordErrorRecurrence
<1>5. StaysInv'
  BY <1>1, UploadAssumption DEF StaysInv, RecordErrorRecurrence, RowFree
<1>. QED BY <1>2, <1>3, <1>4, <1>5 DEF TriageInv

\* The commit of the upload that holds the row counts one recurrence of a fixed
\* group; any other commit leaves the row alone.
LEMMA CommitUploadStep ==
  ASSUME TriageInv, NEW u \in Uploads, CommitUpload(u)
  PROVE  TriageInv'
<1>. USE DEF TriageInv, TriageTypeOK
<1>1. Idle \in Upload /\ Idle.pc = "idle" /\ ~ Idle.stays
  BY UploadType DEF Idle
<1>2. seen' \in 0 .. Never
  BY AgeType DEF CommitUpload, Upload
<1>3. CASE group.holder = u
  <2>1. group.status = "fixed" /\ u # NoUpload
    BY <1>3, UploadAssumption DEF HolderInv
  <2>2. /\ group' = [status |-> "regressed", recurrences |-> group.recurrences + 1,
                     holder |-> NoUpload]
        /\ Become("regressed", TRUE)
        /\ upload' = [Overwritten EXCEPT ![u] = Idle]
    BY <1>3 DEF CommitUpload
  <2>3. past' \in Past /\ syncs' \in [Sync -> Nat] /\ past'.fixes = past.fixes
    BY <2>2, BecomeType DEF Become
  <2>4. upload' \in [Uploads -> Upload] /\ \A v \in Uploads : ~ upload'[v].stays
    BY <1>1, <2>2, UploadType
  <2>5. TriageTypeOK'
    BY <1>2, <2>2, <2>3, <2>4 DEF CommitUpload, Statuses
  <2>6. HolderInv' /\ FixInv'
    BY <2>1, <2>2, <2>3 DEF HolderInv, FixInv, Past
  <2>7. StaysInv'
    BY <2>4 DEF StaysInv
  <2>. QED BY <2>5, <2>6, <2>7
<1>4. CASE group.holder # u
  <2>1. upload' = [upload EXCEPT ![u] = Idle] /\ UNCHANGED <<group, past, syncs>>
    BY <1>4 DEF CommitUpload
  <2>2. TriageTypeOK'
    BY <1>1, <1>2, <2>1 DEF CommitUpload
  <2>3. HolderInv' /\ FixInv'
    BY <1>4, <2>1 DEF HolderInv, FixInv
  <2>4. StaysInv'
    BY <1>1, <2>1 DEF StaysInv
  <2>. QED BY <2>2, <2>3, <2>4
<1>. QED BY <1>3, <1>4

\* A rollback gives the row back as it was.
LEMMA RollbackUploadStep ==
  ASSUME TriageInv, NEW u \in Uploads, RollbackUpload(u)
  PROVE  TriageInv'
<1>. USE DEF TriageInv, TriageTypeOK
<1>1. Idle \in Upload /\ Idle.pc = "idle" /\ ~ Idle.stays
  BY UploadType DEF Idle
<1>2. upload' = [upload EXCEPT ![u] = Idle]
  BY DEF RollbackUpload
<1>3. /\ group' \in [status : Statuses, recurrences : Nat, holder : Uploads \cup {NoUpload}]
      /\ group'.status = group.status /\ group'.recurrences = group.recurrences
      /\ group'.holder = IF group.holder = u THEN NoUpload ELSE group.holder
  BY DEF RollbackUpload
<1>4. TriageTypeOK'
  BY <1>1, <1>2, <1>3 DEF RollbackUpload
<1>5. HolderInv'
  BY <1>2, <1>3 DEF HolderInv
<1>6. FixInv'
  BY <1>3 DEF FixInv, RollbackUpload
<1>7. StaysInv'
  BY <1>1, <1>2, <1>3 DEF StaysInv
<1>. QED BY <1>4, <1>5, <1>6, <1>7

\* The sweep reads.
LEMMA SweepReadStep ==
  ASSUME TriageInv, NEW w \in Sweeps, SweepRead(w)
  PROVE  TriageInv'
<1>1. TriageTypeOK'
  BY DEF TriageInv, TriageTypeOK, SweepRead
<1>2. HolderInv' /\ FixInv' /\ StaysInv'
  BY DEF TriageInv, HolderInv, FixInv, StaysInv, SweepRead
<1>. QED BY <1>1, <1>2 DEF TriageInv

\* The sweep closes a group that is still eligible, which is a fix.
LEMMA SweepCloseStep ==
  ASSUME TriageInv, NEW w \in Sweeps, SweepClose(w)
  PROVE  TriageInv'
<1>1. sweep' \in [Sweeps -> BOOLEAN]
  BY DEF TriageInv, TriageTypeOK, SweepClose
<1>2. CASE MayClose
  <2>1. /\ group' = [group EXCEPT !.status = "fixed"]
        /\ Become("fixed", TRUE) /\ upload' = Overwritten
    BY <1>2 DEF SweepClose
  <2>2. past' \in Past /\ syncs' \in [Sync -> Nat]
    BY <2>1, BecomeType DEF TriageInv
  <2>3. TriageTypeOK'
    BY <1>1, <2>1, <2>2, UploadType DEF TriageInv, TriageTypeOK, SweepClose, Statuses
  <2>4. "fixed" \in Statuses
    BY DEF Statuses
  <2>5. HolderInv' /\ FixInv' /\ StaysInv'
    BY <2>1, <2>4, StatusWritten DEF SweepClose, Become
  <2>. QED BY <2>3, <2>5 DEF TriageInv
<1>3. CASE ~ MayClose
  <2>1. UNCHANGED <<group, past, syncs, upload, seen, closed, events, spent>>
    BY <1>3 DEF SweepClose
  <2>2. TriageTypeOK'
    BY <1>1, <2>1 DEF TriageInv, TriageTypeOK
  <2>3. HolderInv' /\ FixInv' /\ StaysInv'
    BY <2>1 DEF TriageInv, HolderInv, FixInv, StaysInv
  <2>. QED BY <2>2, <2>3 DEF TriageInv
<1>. QED BY <1>2, <1>3

\* The steps of a sync leave the group and the uploads alone.
LEMMA SyncStep ==
  ASSUME TriageInv, NEW s \in Sync,
         SyncLink(s) \/ SyncLook(s) \/ SyncMove(s) \/ SyncFails(s)
  PROVE  TriageInv'
<1>1. syncs' \in [Sync -> Nat]
  <2>1. syncs[s] > 0
    BY DEF SyncLink, SyncLook, SyncMove, SyncFails, At
  <2>2. Over(s) \in [Sync -> Nat]
    BY <2>1 DEF TriageInv, TriageTypeOK, Over
  <2>3. [s EXCEPT !.pc = "look"] \in Sync /\ [s EXCEPT !.pc = "move"] \in Sync
    BY DEF Sync
  <2>4. Later(s, "look") \in [Sync -> Nat] /\ Later(s, "move") \in [Sync -> Nat]
    BY <2>2, <2>3 DEF Later
  <2>. QED BY <2>2, <2>4 DEF SyncLink, SyncLook, SyncMove, SyncFails
<1>2. past' \in Past /\ past'.fixes = past.fixes
  BY DEF TriageInv, TriageTypeOK, Past, SyncLink, SyncLook, SyncMove, SyncFails
<1>3. spent' \in [uploads : 0 .. MaxUploads, patches : 0 .. MaxPatches,
                  edits : 0 .. MaxEdits, lost : 0 .. MaxLost]
  BY SpendType DEF TriageInv, TriageTypeOK, SyncLink, SyncLook, SyncMove, SyncFails
<1>4. closed' \in BOOLEAN /\ events' \in Nat
  <2>1. Told(closed') \in Nat /\ closed \in BOOLEAN /\ events \in Nat
    BY DEF TriageInv, TriageTypeOK, Told
  <2>2. CASE SyncMove(s)
    BY <2>1, <2>2, Zenon DEF SyncMove
  <2>3. CASE SyncLink(s) \/ SyncLook(s) \/ SyncFails(s)
    BY <2>1, <2>3 DEF SyncLink, SyncLook, SyncFails
  <2>. QED BY <2>2, <2>3
<1>5. UNCHANGED <<group, seen, upload, sweep>>
  BY DEF SyncLink, SyncLook, SyncMove, SyncFails
<1>6. TriageTypeOK'
  BY <1>1, <1>2, <1>3, <1>4, <1>5 DEF TriageInv, TriageTypeOK
<1>7. HolderInv' /\ FixInv' /\ StaysInv'
  BY <1>2, <1>5 DEF TriageInv, HolderInv, FixInv, StaysInv
<1>. QED BY <1>6, <1>7 DEF TriageInv

\* What happens in Jira, or on the way from it, leaves the group and the uploads
\* alone.
LEMMA OutsideStep ==
  ASSUME TriageInv, EditTicket \/ EventLost
  PROVE  TriageInv'
<1>1. past' \in Past /\ past'.fixes = past.fixes
  BY DEF TriageInv, TriageTypeOK, Past, EditTicket, EventLost
<1>2. spent' \in [uploads : 0 .. MaxUploads, patches : 0 .. MaxPatches,
                  edits : 0 .. MaxEdits, lost : 0 .. MaxLost]
  BY SpendType DEF TriageInv, EditTicket, EventLost
<1>3. closed' \in BOOLEAN /\ events' \in Nat
  BY DEF TriageInv, TriageTypeOK, EditTicket, EventLost, Told
<1>4. UNCHANGED <<group, seen, upload, sweep, syncs>>
  BY DEF EditTicket, EventLost
<1>5. TriageTypeOK'
  BY <1>1, <1>2, <1>3, <1>4 DEF TriageInv, TriageTypeOK
<1>6. HolderInv' /\ FixInv' /\ StaysInv'
  BY <1>1, <1>4 DEF TriageInv, HolderInv, FixInv, StaysInv
<1>. QED BY <1>5, <1>6 DEF TriageInv

\* The webhook fixes the group, or finds it fixed.
LEMMA IssueClosedStep ==
  ASSUME TriageInv, IssueClosed
  PROVE  TriageInv'
<1>1. events' \in Nat
  BY DEF TriageInv, TriageTypeOK, IssueClosed
<1>2. CASE LinkKey = "error" /\ group.status # "fixed"
  <2>1. /\ group' = [group EXCEPT !.status = "fixed"]
        /\ past' = [past EXCEPT !.fixes = @ + 1] /\ upload' = Overwritten
    BY <1>2 DEF IssueClosed
  <2>2. past' \in Past /\ past'.fixes = past.fixes + 1
    BY <2>1 DEF TriageInv, TriageTypeOK, Past
  <2>3. "fixed" \in Statuses
    BY DEF Statuses
  <2>4. TriageTypeOK'
    BY <1>1, <2>1, <2>2, <2>3, UploadType DEF TriageInv, TriageTypeOK, IssueClosed
  <2>5. HolderInv' /\ FixInv' /\ StaysInv'
    BY <1>2, <2>1, <2>2, <2>3, StatusWritten DEF IssueClosed
  <2>. QED BY <2>4, <2>5 DEF TriageInv
<1>3. CASE ~ (LinkKey = "error" /\ group.status # "fixed")
  <2>1. UNCHANGED <<group, past, upload, seen, sweep, syncs, closed, spent>>
    BY <1>3 DEF IssueClosed
  <2>2. TriageTypeOK'
    BY <1>1, <2>1 DEF TriageInv, TriageTypeOK
  <2>3. HolderInv' /\ FixInv' /\ StaysInv'
    BY <2>1 DEF TriageInv, HolderInv, FixInv, StaysInv
  <2>. QED BY <2>2, <2>3 DEF TriageInv
<1>. QED BY <1>2, <1>3

\* A day makes the failures older.
LEMMA DayPassesStep ==
  ASSUME TriageInv, DayPasses
  PROVE  TriageInv'
<1>1. seen' \in 0 .. Never
  BY AgeType DEF TriageInv, TriageTypeOK, DayPasses
<1>2. \A u \in Uploads :
        LET r == [upload[u] EXCEPT !.age = Older(@)]
        IN  r \in Upload /\ r.pc = upload[u].pc /\ r.stays = upload[u].stays
  BY AgeType DEF TriageInv, TriageTypeOK, Upload
<1>3. \A u \in Uploads : /\ upload'[u] \in Upload
                         /\ upload'[u].pc = upload[u].pc
                         /\ upload'[u].stays = upload[u].stays
  BY <1>2, Zenon DEF TriageInv, TriageTypeOK, DayPasses
<1>4. upload' \in [Uploads -> Upload]
  BY <1>3, Zenon DEF DayPasses
<1>5. UNCHANGED <<group, sweep, syncs, closed, events, past, spent>>
  BY DEF DayPasses
<1>6. TriageTypeOK'
  BY <1>1, <1>4, <1>5 DEF TriageInv, TriageTypeOK
<1>7. HolderInv' /\ FixInv' /\ StaysInv'
  BY <1>3, <1>5 DEF TriageInv, TriageTypeOK, HolderInv, FixInv, StaysInv
<1>. QED BY <1>6, <1>7 DEF TriageInv

\* Every step keeps the invariant; the steps of JiraIssues do not touch it.
LEMMA TriageNextInv == TriageInv /\ [TriageNext]_allTriageVars => TriageInv'
<1>. SUFFICES ASSUME TriageInv, [TriageNext]_allTriageVars PROVE TriageInv'
  OBVIOUS
<1>1. CASE GroupNext
  BY <1>1, PatchStep, BeginUploadStep, RecordErrorRecurrenceStep, CommitUploadStep,
     RollbackUploadStep, SweepReadStep, SweepCloseStep, SyncStep, OutsideStep,
     IssueClosedStep, DayPassesStep, Zenon
     DEF GroupNext
<1>2. CASE UNCHANGED triageVars
  <2>1. TriageTypeOK'
    BY <1>2 DEF TriageInv, TriageTypeOK, triageVars
  <2>2. HolderInv' /\ FixInv' /\ StaysInv'
    BY <1>2 DEF TriageInv, HolderInv, FixInv, StaysInv, triageVars
  <2>. QED BY <2>1, <2>2 DEF TriageInv
<1>. QED BY <1>1, <1>2 DEF TriageNext, allTriageVars

-----------------------------------------------------------------------------
(* Theorems *)

\* The invariant of the group's row: who holds it, how many fixes are unspent and
\* which uploads may still count on its status.
THEOREM TriageInvariant == TriageSpec => []TriageInv
BY TriageInitInv, TriageNextInv, PTL DEF TriageSpec

\* Every variable keeps its type, with any number of uploads, sweeps and bounds.
THEOREM TriageTypeCorrect == TriageSpec => []TriageTypeOK
<1>1. TriageInv => TriageTypeOK
  BY DEF TriageInv
<1>. QED BY <1>1, TriageInvariant, PTL

\* However many failing uploads race and however the fix came about, a fix is
\* counted as at most one recurrence.
THEOREM FixCountedOnce == TriageSpec => []CountedOncePerFix
<1>1. TriageInv => CountedOncePerFix
  BY DEF TriageInv, FixInv, CountedOncePerFix
<1>. QED BY <1>1, TriageInvariant, PTL

\* Neither the sweep nor an upload moves a group out of known or ignored, even
\* when it read the group before the user changed it.
THEOREM HumanStateStays == TriageSpec => HumanStateKept
<1>1. TriageInv /\ [TriageNext]_allTriageVars
        => [group.status \in {"known", "ignored"} /\ group'.status # group.status =>
              events' < events \/ spent'.patches > spent.patches]_allTriageVars
  <2>. SUFFICES ASSUME TriageInv, TriageNext,
                       group.status \in {"known", "ignored"}, group'.status # group.status
                PROVE  events' < events \/ spent'.patches > spent.patches
    OBVIOUS
  <2>1. CASE GroupNext
    <3>1. CASE \E s \in PatchTo : Patch(s)
      BY <3>1 DEF TriageInv, TriageTypeOK, Patch, Spend
    <3>2. CASE \E u \in Uploads : BeginUpload(u) \/ RecordErrorRecurrence(u) \/ RollbackUpload(u)
      BY <3>2 DEF TriageInv, TriageTypeOK, BeginUpload, RecordErrorRecurrence, RollbackUpload
    <3>3. CASE \E u \in Uploads : CommitUpload(u)
      BY <3>3, UploadAssumption DEF TriageInv, HolderInv, CommitUpload
    <3>4. CASE \E w \in Sweeps : SweepRead(w) \/ SweepClose(w)
      BY <3>4 DEF SweepRead, SweepClose, MayClose, Eligible
    <3>5. CASE \E s \in Sync : SyncLink(s) \/ SyncLook(s) \/ SyncMove(s) \/ SyncFails(s)
      BY <3>5 DEF SyncLink, SyncLook, SyncMove, SyncFails
    <3>6. CASE EditTicket \/ EventLost \/ DayPasses
      BY <3>6 DEF EditTicket, EventLost, DayPasses
    <3>7. CASE IssueClosed
      BY <3>7 DEF TriageInv, TriageTypeOK, IssueClosed
    <3>. QED BY <2>1, <3>1, <3>2, <3>3, <3>4, <3>5, <3>6, <3>7, Zenon DEF GroupNext
  <2>2. CASE UNCHANGED triageVars
    BY <2>2 DEF triageVars
  <2>. QED BY <2>1, <2>2 DEF TriageNext
<1>. QED BY <1>1, TriageInvariant, PTL DEF TriageSpec, HumanStateKept

\* A group that stays fixed throughout a failing upload is regressed by it: the
\* UPDATE found it fixed and its transaction kept the row.
THEOREM ComebackSeen == TriageSpec => ComebackVisible
<1>1. TriageInv =>
        [\A u \in Uploads : upload[u].stays /\ CommitUpload(u) => group'.status # "fixed"]_allTriageVars
  <2>. SUFFICES ASSUME TriageInv, NEW u \in Uploads, upload[u].stays, CommitUpload(u)
                PROVE  group'.status # "fixed"
    OBVIOUS
  <2>1. group.holder = u
    BY DEF TriageInv, StaysInv, CommitUpload
  <2>2. group' = [status |-> "regressed", recurrences |-> group.recurrences + 1,
                  holder |-> NoUpload]
    BY <2>1 DEF CommitUpload
  <2>. QED BY <2>2
<1>. QED BY <1>1, TriageInvariant, PTL DEF TriageSpec, ComebackVisible

\* The group and its syncs never write the tables of JiraIssues, so what is
\* proved of the callers of resolveOrCreateIssue holds beside them.
THEOREM TriageKeepsOneTicket == TriageSpec => [](OneTicket /\ SameTicket)
<1>1. TriageInit => IssueInv
  BY IssueInitInv DEF TriageInit
<1>2. [TriageNext]_allTriageVars => [IssueNext]_issueVars
  BY DEF TriageNext, allTriageVars
<1>3. IssueInv => OneTicket /\ SameTicket
  BY DEF IssueInv, Accounted, OneTicket, Issues, SameTicket
<1>. QED BY <1>1, <1>2, <1>3, IssueNextInv, PTL DEF TriageSpec

-----------------------------------------------------------------------------
(* The group and its ticket *)

\* One sync is under way.
One(s) == [NoSyncs EXCEPT ![s] = 1]

\* Unless it was disturbed, a change of the group is reflected before the next one:
\* all is told, or the ticket that was closed is still to be told of, or one sync is
\* on its way to bring the ticket to the status that the group still has.
InStepInv ==
  ~ past.disturbed =>
    /\ link = NoTicket => group.status = "none" /\ Quiet
    /\ \/ /\ Quiet
          /\ group.status = "regressed" => ~ closed
          /\ group.status = "fixed" => closed
       \/ syncs = NoSyncs /\ events = 1 /\ group.status = "fixed" /\ closed
       \/ /\ events = 0
          /\ \E s \in Sync : /\ syncs = One(s) /\ group.status = s.to
                             /\ s.pc = "move" => closed # (s.to = "fixed")

\* A sync that is alone ends, or goes on alone.
LEMMA Alone ==
  ASSUME NEW s \in Sync, syncs = One(s), NEW r \in Sync, syncs[r] > 0
  PROVE  /\ r = s
         /\ Over(r) = NoSyncs
         /\ \A pc \in {"link", "look", "move"} :
              LET t == [r EXCEPT !.pc = pc]
              IN  t \in Sync /\ t.to = r.to /\ t.pc = pc /\ Later(r, pc) = One(t)
<1>1. r = s
  BY DEF One, NoSyncs
<1>2. Over(r) = NoSyncs
  BY <1>1 DEF Over, One, NoSyncs
<1>3. ASSUME NEW pc \in {"link", "look", "move"}
      PROVE  LET t == [r EXCEPT !.pc = pc]
             IN  t \in Sync /\ t.to = r.to /\ t.pc = pc /\ Later(r, pc) = One(t)
  <2>1. PICK t : t = [r EXCEPT !.pc = pc]
    OBVIOUS
  <2>2. t \in Sync /\ t.to = r.to /\ t.pc = pc
    BY <2>1 DEF Sync
  <2>3. Later(r, pc) = [NoSyncs EXCEPT ![t] = @ + 1]
    BY <1>2, <2>1 DEF Later
  <2>4. [NoSyncs EXCEPT ![t] = @ + 1] = One(t)
    BY <2>2 DEF One, NoSyncs
  <2>. QED BY <2>1, <2>2, <2>3, <2>4
<1>. QED BY <1>1, <1>2, <1>3

\* A change of the status is synced when all was told, or it disturbs.
LEMMA BecomeInStep ==
  ASSUME InStepInv, NEW s \in Statuses, NEW synced \in BOOLEAN, Become(s, synced),
         group'.status = s, UNCHANGED <<closed, events, link>>,
         synced => s \in {"fixed", "regressed"}, s = "fixed" => synced
  PROVE  InStepInv'
<1>. SUFFICES ASSUME ~ past'.disturbed PROVE InStepInv'
  BY DEF InStepInv
<1>1. ~ past.disturbed /\ Quiet /\ link # NoTicket /\ ~ (s = "regressed" /\ ~ synced)
  BY DEF Become
<1>2. CASE synced
  <2>1. PICK n \in Sync : n = [to |-> s, pc |-> "link"]
    BY <1>2 DEF Sync
  <2>2. n.to = s /\ n.pc = "link"
    BY <2>1
  <2>3. syncs' = [NoSyncs EXCEPT ![n] = @ + 1]
    BY <1>1, <1>2, <2>1 DEF Become, Quiet
  <2>4. syncs' = One(n)
    BY <2>3 DEF One, NoSyncs
  <2>5. (\E r \in Sync : /\ syncs = One(r) /\ group.status = r.to
                         /\ r.pc = "move" => closed # (r.to = "fixed"))'
    BY <2>2, <2>4 DEF One, NoSyncs
  <2>. QED BY <1>1, <2>5 DEF InStepInv, Quiet
<1>3. CASE ~ synced
  <2>1. syncs' = syncs
    BY <1>3 DEF Become
  <2>. QED BY <1>1, <1>3, <2>1 DEF InStepInv, Quiet
<1>. QED BY <1>2, <1>3

\* Steps that change neither the status nor the ticket nor what is under way.
LEMMA OthersInStep ==
  ASSUME InStepInv, group'.status = group.status, UNCHANGED <<syncs, closed, events, past>>,
         link' = NoTicket => link = NoTicket
  PROVE  InStepInv'
BY DEF InStepInv, Quiet, One, NoSyncs

\* A sync that nothing disturbs finds the ticket and brings it to the group's status.
LEMMA SyncInStep ==
  ASSUME LinkKey = "error", TriageTypeOK, InStepInv, NEW s \in Sync, link' = link,
         SyncLink(s) \/ SyncLook(s) \/ SyncMove(s) \/ SyncFails(s)
  PROVE  InStepInv'
<1>. SUFFICES ASSUME ~ past'.disturbed PROVE InStepInv'
  BY DEF InStepInv
<1>1. ~ SyncFails(s)
  BY DEF SyncFails, TriageTypeOK, Past
<1>2. ~ past.disturbed /\ past' = past /\ group' = group /\ syncs[s] > 0 /\ closed \in BOOLEAN
  BY <1>1 DEF SyncLink, SyncLook, SyncMove, At, TriageTypeOK
<1>3. events = 0 /\ syncs = One(s) /\ group.status = s.to /\ link # NoTicket
      /\ (s.pc = "move" => closed # (s.to = "fixed"))
  <2>1. syncs # NoSyncs
    BY <1>2 DEF NoSyncs
  <2>2. PICK r \in Sync : /\ events = 0 /\ syncs = One(r) /\ group.status = r.to
                          /\ r.pc = "move" => closed # (r.to = "fixed")
    BY <1>2, <2>1 DEF InStepInv, Quiet
  <2>3. s = r
    BY <1>2, <2>2, Alone
  <2>. QED BY <1>2, <2>1, <2>2, <2>3 DEF InStepInv, Quiet
<1>4. Over(s) = NoSyncs
  BY <1>2, <1>3, Alone
<1>5. s.to \in {"fixed", "regressed"}
  BY DEF Sync
<1>6. ASSUME NEW pc \in {"link", "look", "move"}, syncs' = Later(s, pc), UNCHANGED <<closed, events>>,
             pc = "move" => closed # (s.to = "fixed")
      PROVE  InStepInv'
  <2>0. PICK t : t = [s EXCEPT !.pc = pc]
    OBVIOUS
  <2>1. t \in Sync /\ t.to = s.to /\ t.pc = pc /\ Later(s, pc) = One(t)
    <3>1. LET r == [s EXCEPT !.pc = pc]
          IN  r \in Sync /\ r.to = s.to /\ r.pc = pc /\ Later(s, pc) = One(r)
      BY <1>2, <1>3, Alone
    <3>. QED BY <2>0, <3>1
  <2>2. syncs' = One(t)
    BY <1>6, <2>1
  <2>3. (\E r \in Sync : /\ syncs = One(r) /\ group.status = r.to
                         /\ r.pc = "move" => closed # (r.to = "fixed"))'
    BY <1>2, <1>3, <1>6, <2>1, <2>2 DEF One, NoSyncs
  <2>. QED BY <1>2, <1>3, <1>6, <2>3 DEF InStepInv
<1>7. CASE SyncLink(s)
  <2>1. GroupLink # NoTicket
    BY <1>3 DEF GroupLink
  <2>2. syncs' = Later(s, "look") /\ UNCHANGED <<closed, events>>
    BY <1>7, <2>1 DEF SyncLink
  <2>. QED BY <1>6, <2>2
<1>8. CASE SyncLook(s)
  <2>1. CASE closed = (s.to = "fixed")
    <3>1. syncs' = NoSyncs /\ UNCHANGED <<closed, events>>
      BY <1>4, <1>8, <2>1 DEF SyncLook
    <3>2. Quiet' /\ (closed' <=> s.to = "fixed")
      BY <1>3, <2>1, <3>1 DEF Quiet, NoSyncs
    <3>. QED BY <1>2, <1>3, <3>2 DEF InStepInv
  <2>2. CASE closed # (s.to = "fixed")
    <3>1. syncs' = Later(s, "move") /\ UNCHANGED <<closed, events>>
      BY <1>8, <2>2 DEF SyncLook
    <3>. QED BY <1>6, <2>2, <3>1
  <2>. QED BY <2>1, <2>2
<1>9. CASE SyncMove(s)
  <2>1. /\ closed' = (s.to = "fixed") /\ syncs' = NoSyncs
        /\ events' = IF closed' # closed THEN Told(closed') ELSE events
    BY <1>4, <1>9 DEF SyncMove
  <2>2. events' = IF closed' /\ Webhook THEN 1 ELSE 0
    BY <1>3, <1>9, <2>1 DEF Told, SyncMove, At
  <2>3. CASE events' = 0
    <3>1. Quiet'
      BY <2>1, <2>3 DEF Quiet, NoSyncs
    <3>. QED BY <1>2, <1>3, <2>1, <3>1 DEF InStepInv
  <2>4. CASE events' = 1
    <3>1. closed'
      BY <2>2, <2>4
    <3>2. group'.status = "fixed" /\ syncs' = NoSyncs'
      BY <1>2, <1>3, <2>1, <3>1 DEF NoSyncs
    <3>. QED BY <1>2, <1>3, <2>4, <3>1, <3>2 DEF InStepInv
  <2>. QED BY <2>2, <2>3, <2>4
<1>. QED BY <1>1, <1>7, <1>8, <1>9

\* The end of an undisturbed sync to fixed comes back as an event that finds the
\* group fixed.
LEMMA EventInStep ==
  ASSUME TriageTypeOK, InStepInv, IssueClosed, link' = link
  PROVE  InStepInv'
<1>. SUFFICES ASSUME ~ past'.disturbed PROVE InStepInv'
  BY DEF InStepInv
<1>0. ~ past.disturbed
  BY DEF IssueClosed, TriageTypeOK, Past
<1>1. syncs = NoSyncs /\ events = 1 /\ group.status = "fixed" /\ closed
  BY <1>0 DEF InStepInv, IssueClosed, Quiet
<1>2. UNCHANGED <<group, syncs, closed, past>> /\ events' = 0
  BY <1>1 DEF IssueClosed
<1>3. Quiet' /\ link # NoTicket
  BY <1>0, <1>1, <1>2 DEF Quiet, NoSyncs, InStepInv
<1>. QED BY <1>1, <1>2, <1>3 DEF InStepInv

\* A status changes by a user, by the upload that holds the row or by the sweep.
LEMMA ChangeInStep ==
  ASSUME TriageInv, InStepInv, link' = link,
         \/ \E s \in PatchTo : Patch(s)
         \/ \E u \in Uploads : CommitUpload(u)
         \/ \E w \in Sweeps : SweepClose(w)
  PROVE  InStepInv'
<1>. USE DEF TriageInv, TriageTypeOK
<1>1. ASSUME NEW s \in PatchTo, Patch(s) PROVE InStepInv'
  <2>1. /\ s \in Statuses /\ group'.status = s /\ Become(s, s = "fixed")
        /\ UNCHANGED <<closed, events>>
    BY <1>1, PatchToAssumption DEF Patch, Statuses
  <2>2. PICK b \in BOOLEAN : b = (s = "fixed")
    OBVIOUS
  <2>. QED BY <2>1, <2>2, BecomeInStep
<1>2. ASSUME NEW u \in Uploads, CommitUpload(u) PROVE InStepInv'
  <2>1. CASE group.holder = u
    <3>1. /\ group' = [status |-> "regressed", recurrences |-> group.recurrences + 1,
                       holder |-> NoUpload]
          /\ Become("regressed", TRUE)
          /\ UNCHANGED <<closed, events>>
      BY <1>2, <2>1 DEF CommitUpload
    <3>2. "regressed" \in Statuses /\ group'.status = "regressed"
      BY <3>1 DEF Statuses
    <3>. QED BY <3>1, <3>2, BecomeInStep
  <2>2. CASE group.holder # u
    BY <1>2, <2>2, OthersInStep DEF CommitUpload
  <2>. QED BY <2>1, <2>2
<1>3. ASSUME NEW w \in Sweeps, SweepClose(w) PROVE InStepInv'
  <2>1. CASE MayClose
    <3>1. /\ "fixed" \in Statuses /\ group'.status = "fixed" /\ Become("fixed", TRUE)
          /\ UNCHANGED <<closed, events>>
      BY <1>3, <2>1 DEF SweepClose, Statuses
    <3>. QED BY <3>1, BecomeInStep
  <2>2. CASE ~ MayClose
    BY <1>3, <2>2, OthersInStep DEF SweepClose
  <2>. QED BY <2>1, <2>2
<1>. QED BY <1>1, <1>2, <1>3

\* Steps of the uploads and of the sweep that change no status, and a day.
LEMMA RowInStep ==
  ASSUME TriageInv, InStepInv, link' = link,
         \/ \E u \in Uploads : BeginUpload(u) \/ RecordErrorRecurrence(u) \/ RollbackUpload(u)
         \/ \E w \in Sweeps : SweepRead(w)
         \/ DayPasses
  PROVE  InStepInv'
<1>1. group'.status = group.status /\ UNCHANGED <<syncs, closed, events, past>>
  BY DEF TriageInv, TriageTypeOK, BeginUpload, RecordErrorRecurrence, RollbackUpload, SweepRead, DayPasses
<1>. QED BY <1>1, OthersInStep

\* An edit in Jira and a lost event are what disturbs.
LEMMA OutsideInStep ==
  ASSUME TriageTypeOK, EditTicket \/ EventLost
  PROVE  InStepInv'
<1>1. past'.disturbed
  BY DEF TriageTypeOK, Past, EditTicket, EventLost
<1>. QED BY <1>1 DEF InStepInv

\* A ticket that is linked stays linked.
LEMMA LinkStays == IssueNext => (link' = NoTicket => link = NoTicket)
BY DEF IssueNext, FindIssue, LockIssue, Recheck, CreateIssue, RecordIssue, CallFails, CallOrphans

\* Every step keeps the group and its ticket in step.
LEMMA TriageInStep ==
  ASSUME LinkKey = "error", TriageInv, InStepInv, [TriageNext]_allTriageVars
  PROVE  InStepInv'
<1>1. CASE GroupNext /\ UNCHANGED issueVars
  <2>1. link' = link /\ TriageTypeOK /\ events \in Nat
    BY <1>1 DEF issueVars, TriageInv, TriageTypeOK
  <2>. QED BY <1>1, <2>1, ChangeInStep, RowInStep, SyncInStep, EventInStep, OutsideInStep, Zenon
           DEF GroupNext
<1>2. CASE (IssueNext \/ UNCHANGED issueVars) /\ UNCHANGED triageVars
  <2>1. link' = NoTicket => link = NoTicket
    BY <1>2, LinkStays DEF issueVars
  <2>. QED BY <1>2, <2>1, OthersInStep DEF triageVars
<1>. QED BY <1>1, <1>2 DEF TriageNext, allTriageVars

\* Two-way sync of a group whose ticket is linked under its own fingerprint: as long
\* as one change is reflected before the next, and nothing is lost or edited in
\* Jira, the group and the ticket agree whenever all has been told.
THEOREM UndisturbedInStep ==
  ASSUME LinkKey = "error"
  PROVE  TriageSpec => []InStepUndisturbed
<1>1. TriageInit => InStepInv
  BY DEF TriageInit, IssueInit, InStepInv, Quiet
<1>2. TriageInv /\ InStepInv /\ [TriageNext]_allTriageVars => InStepInv'
  BY TriageInStep
<1>3. InStepInv => InStepUndisturbed
  <2>1. ASSUME NEW s \in Sync, syncs = One(s) PROVE syncs # NoSyncs
    BY <2>1 DEF One, NoSyncs
  <2>. QED BY <2>1 DEF InStepInv, InStepUndisturbed, InStep, Quiet
<1>. QED BY <1>1, <1>2, <1>3, TriageInvariant, PTL DEF TriageSpec

=============================================================================
