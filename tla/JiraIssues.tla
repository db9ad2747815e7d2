---------------------------- MODULE JiraIssues ----------------------------
(***************************************************************************)
(* One Jira ticket per failure: createIssueForFingerprint of               *)
(* backend/src/integrations/jira.ts, called at the same time by parallel   *)
(* shards and by users for one fingerprint of one organisation.            *)
(*                                                                         *)
(* A call looks for the link without a lock, then takes a transaction      *)
(* advisory lock, looks again, creates the ticket and records the link.    *)
(* Jira may create a ticket and the answer be lost (JIRA_TIMEOUT_MS), and  *)
(* the transaction may fail after the ticket exists: both roll back.       *)
(***************************************************************************)
EXTENDS Naturals

CONSTANTS
  Callers,     \* callers of createIssueForFingerprint
  NoCaller,    \* the holder of a free lock
  MaxOrphans,  \* bound: tickets Jira creates whose link is not recorded
  MaxCalls     \* bound: calls begun

ASSUME CallerAssumption == NoCaller \notin Callers
ASSUME CallBoundAssumption == MaxOrphans \in Nat /\ MaxCalls \in Nat

VARIABLES
  tickets,   \* tickets in Jira for the failure; they are numbered from 1
  link,      \* issue_key in failure_jira_issues, or NoTicket
  issueLock, \* holder of the advisory lock of the fingerprint
  call,      \* call[c]: where the call of c is, and what it has returned
  orphans, calls   \* tickets without a link so far, calls begun so far

issueVars == <<tickets, link, issueLock, call, orphans, calls>>

NoTicket == 0

Call == [pc : {"idle", "lock", "recheck", "create", "insert", "returned"}, issue : Nat]

IssueTypeOK ==
  /\ tickets \in Nat /\ link \in Nat
  /\ issueLock \in Callers \cup {NoCaller}
  /\ call \in [Callers -> Call]
  /\ orphans \in 0 .. MaxOrphans /\ calls \in 0 .. MaxCalls

IssueInit ==
  /\ tickets = 0 /\ link = NoTicket /\ issueLock = NoCaller
  /\ call = [c \in Callers |-> [pc |-> "idle", issue |-> NoTicket]]
  /\ orphans = 0 /\ calls = 0

Return(c, issue) == call' = [call EXCEPT ![c] = [pc |-> "returned", issue |-> issue]]

\* The end of the transaction frees the lock.
Unlock(c) == issueLock' = IF issueLock = c THEN NoCaller ELSE issueLock

\* The fast path, without the lock; a caller may call again after a return.
FindIssue(c) ==
  /\ call[c].pc \in {"idle", "returned"}
  /\ calls < MaxCalls
  /\ calls' = calls + 1
  /\ IF link # NoTicket THEN Return(c, link)
     ELSE call' = [call EXCEPT ![c] = [pc |-> "lock", issue |-> NoTicket]]
  /\ UNCHANGED <<tickets, link, issueLock, orphans>>

LockIssue(c) ==
  /\ call[c].pc = "lock"
  /\ issueLock = NoCaller
  /\ issueLock' = c
  /\ call' = [call EXCEPT ![c].pc = "recheck"]
  /\ UNCHANGED <<tickets, link, orphans, calls>>

\* Mutant of Recheck: the link is not looked for again under the lock.
RecheckSkipped(c) ==
  /\ call[c].pc = "recheck"
  /\ call' = [call EXCEPT ![c].pc = "create"]
  /\ UNCHANGED <<tickets, link, issueLock, orphans, calls>>

Recheck(c) ==
  /\ call[c].pc = "recheck"
  /\ IF link # NoTicket THEN Return(c, link) /\ Unlock(c)
     ELSE call' = [call EXCEPT ![c].pc = "create"] /\ UNCHANGED issueLock
  /\ UNCHANGED <<tickets, link, orphans, calls>>

CreateIssue(c) ==
  /\ call[c].pc = "create"
  /\ tickets' = tickets + 1
  /\ call' = [call EXCEPT ![c] = [pc |-> "insert", issue |-> tickets + 1]]
  /\ UNCHANGED <<link, issueLock, orphans, calls>>

\* Mutant of RecordIssue: a failure of the INSERT is swallowed.
RecordSwallowed(c) ==
  /\ call[c].pc = "insert"
  /\ link' \in {link, call[c].issue}
  /\ Return(c, call[c].issue)
  /\ Unlock(c)
  /\ UNCHANGED <<tickets, orphans, calls>>

\* INSERT and COMMIT; the unique index refuses a second link.
RecordIssue(c) ==
  /\ call[c].pc = "insert"
  /\ link = NoTicket
  /\ link' = call[c].issue
  /\ Return(c, call[c].issue)
  /\ Unlock(c)
  /\ UNCHANGED <<tickets, orphans, calls>>

\* ROLLBACK and rethrow: nothing was created yet, or Jira refused.
CallFails(c) ==
  /\ call[c].pc \in {"lock", "recheck", "create"}
  /\ call' = [call EXCEPT ![c] = [pc |-> "idle", issue |-> NoTicket]]
  /\ Unlock(c)
  /\ UNCHANGED <<tickets, link, orphans, calls>>

\* ROLLBACK after Jira has created the ticket: its answer did not arrive, or the
\* link could not be recorded.
CallOrphans(c) ==
  /\ call[c].pc \in {"create", "insert"}
  /\ orphans < MaxOrphans
  /\ tickets' = IF call[c].pc = "create" THEN tickets + 1 ELSE tickets
  /\ orphans' = orphans + 1
  /\ call' = [call EXCEPT ![c] = [pc |-> "idle", issue |-> NoTicket]]
  /\ Unlock(c)
  /\ UNCHANGED <<link, calls>>

IssueNext ==
  \E c \in Callers :
    \/ FindIssue(c) \/ LockIssue(c) \/ Recheck(c) \/ CreateIssue(c)
    \/ RecordIssue(c) \/ CallFails(c) \/ CallOrphans(c)

IssueSpec == IssueInit /\ [][IssueNext]_issueVars

-----------------------------------------------------------------------------
(* Properties *)

\* "Exactly one ticket": however many callers race, a second ticket exists only
\* if Jira created one whose link could not be recorded.
OneTicket == tickets <= 1 + orphans

\* "The rest reuse its result": whoever has an issue has the linked one.
SameTicket == \A c \in Callers : call[c].pc = "returned" => call[c].issue = link

=============================================================================
