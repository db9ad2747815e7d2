---------------------------- MODULE ErrorTriage ----------------------------
(***************************************************************************)
(* The triage state of one error group and the Jira issue linked to it:    *)
(* failing uploads that reopen it (error-recurrence.ts), PATCH of its      *)
(* status (routes/errors.ts), the auto-close sweep (retention.ts), the     *)
(* outbound sync (integrations/jira.ts) and the inbound webhook            *)
(* (routes/jira-webhook.ts).  JiraIssues creates the ticket meanwhile.     *)
(*                                                                         *)
(* Every statement and every call to Jira is an action.  The UPDATE of an  *)
(* upload holds the row until its transaction ends, other writers wait for *)
(* it.  Last_seen of the group is an age, counted up to the auto-close     *)
(* window; all failing uploads of the model fail with the group's error.   *)
(***************************************************************************)
EXTENDS JiraIssues

CONSTANTS
  Uploads,     \* handlers of failing uploads, one at a time each
  NoUpload,    \* the holder of a free row
  Sweeps,      \* nightly sweeps, possibly of several instances
  Window,      \* triage_autoclose_days
  Webhook,     \* JIRA_WEBHOOK_ENABLED and a secret is configured
  LinkKey,     \* fingerprint of the link: the "error"'s (POST /jira/issues), or
               \* the "test"'s that autoCreateIssuesForRun computes
  PatchTo,     \* statuses users set
  MaxUploads, MaxPatches, MaxEdits, MaxLost   \* bounds

ASSUME UploadAssumption == NoUpload \notin Uploads
ASSUME WindowAssumption == Window \in Nat \ {0} /\ Webhook \in BOOLEAN
ASSUME BoundAssumption == {MaxUploads, MaxPatches, MaxEdits, MaxLost} \subseteq Nat
ASSUME PatchToAssumption == PatchTo \subseteq {"open", "investigating", "known", "fixed", "ignored", "regressed"}
ASSUME LinkKeyAssumption == LinkKey \in {"error", "test"}

VARIABLES
  group,    \* the row of error_groups: status, recurrence_count, holder of its lock
  seen,     \* age of the newest committed failure, or Never
  upload,   \* upload[u]: the transaction of u
  sweep,    \* sweep[w]: whether w has read the group as closable
  syncs,    \* syncs[s]: how many outbound syncs s are under way
  closed,   \* the linked ticket is in a done column
  events,   \* events of a closed ticket on their way to the webhook
  past,     \* what has happened so far, see Past
  spent     \* how much of each bound has been used

triageVars == <<group, seen, upload, sweep, syncs, closed, events, past, spent>>

allTriageVars == <<issueVars, triageVars>>

Statuses == {"none", "open", "investigating", "known", "fixed", "ignored", "regressed"}

\* AUTOCLOSE_ELIGIBLE_STATUSES
Eligible == {"open", "investigating", "regressed"}

Never == Window + 1     \* last_seen IS NULL

Sync == [to : {"fixed", "regressed"}, pc : {"link", "look", "move"}]

NoSyncs == [s \in Sync |-> 0]

\* disturbed: Jira was edited, an event or a sync was lost, a user set the group
\* to regressed by hand (which is not synced), or a change came while an earlier
\* one was not reflected yet or there was no ticket.
Past == [fixes : Nat, disturbed : BOOLEAN]

\* A transaction: where it is, the age of its failure, and whether the group has
\* been fixed since it began.
Upload == [pc : {"idle", "begun", "recorded"}, age : 0 .. Window, stays : BOOLEAN]

Idle == [pc |-> "idle", age |-> 0, stays |-> FALSE]

TriageTypeOK ==
  /\ group \in [status : Statuses, recurrences : Nat, holder : Uploads \cup {NoUpload}]
  /\ seen \in 0 .. Never
  /\ upload \in [Uploads -> Upload]
  /\ sweep \in [Sweeps -> BOOLEAN]
  /\ syncs \in [Sync -> Nat]
  /\ closed \in BOOLEAN /\ events \in Nat
  /\ past \in Past
  /\ spent \in [uploads : 0 .. MaxUploads, patches : 0 .. MaxPatches, edits : 0 .. MaxEdits, lost : 0 .. MaxLost]

TriageInit ==
  /\ IssueInit
  /\ group = [status |-> "none", recurrences |-> 0, holder |-> NoUpload]
  /\ seen = Never
  /\ upload = [u \in Uploads |-> Idle]
  /\ sweep = [w \in Sweeps |-> FALSE]
  /\ syncs = NoSyncs /\ closed = FALSE /\ events = 0
  /\ past = [fixes |-> 0, disturbed |-> FALSE]
  /\ spent = [uploads |-> 0, patches |-> 0, edits |-> 0, lost |-> 0]

Spend(bound, most) == spent[bound] < most /\ spent' = [spent EXCEPT ![bound] = @ + 1]

-----------------------------------------------------------------------------
(* Changes of the group's status *)

RowFree == group.holder = NoUpload

\* No sync and no webhook event is under way.
Quiet == syncs = NoSyncs /\ events = 0

\* status becomes s, and the sync that goes with it is started if told so.
Become(s, synced) ==
  /\ past' = [fixes |-> IF s = "fixed" /\ group.status # "fixed" THEN past.fixes + 1
                                                               ELSE past.fixes,
              disturbed |-> past.disturbed \/ ~ Quiet \/ link = NoTicket
                                           \/ (s = "regressed" /\ ~ synced)]
  /\ syncs' = IF synced THEN [syncs EXCEPT ![[to |-> s, pc |-> "link"]] = @ + 1] ELSE syncs

\* No upload under way can count on a status that has just been overwritten.
Overwritten == [u \in Uploads |-> [upload[u] EXCEPT !.stays = FALSE]]

\* PATCH /errors/:fingerprint/status
Patch(s) ==
  /\ RowFree
  /\ Spend("patches", MaxPatches)
  /\ group' = [group EXCEPT !.status = s]
  /\ Become(s, s = "fixed")
  /\ upload' = Overwritten
  /\ UNCHANGED <<seen, sweep, closed, events>>

-----------------------------------------------------------------------------
(* An upload with the group's error, one transaction *)

BeginUpload(u) ==
  /\ upload[u].pc = "idle"
  /\ Spend("uploads", MaxUploads)
  /\ upload' = [upload EXCEPT ![u] = [pc |-> "begun", age |-> 0, stays |-> group.status = "fixed"]]
  /\ UNCHANGED <<group, seen, sweep, syncs, closed, events, past>>

\* Mutant of RecordErrorRecurrence: the UPDATE loses AND status = 'fixed'.
RecordAlways(u) ==
  /\ upload[u].pc = "begun" /\ RowFree
  /\ upload' = [upload EXCEPT ![u].pc = "recorded"]
  /\ group' = IF group.status = "none" THEN group ELSE [group EXCEPT !.holder = u]
  /\ UNCHANGED <<seen, sweep, syncs, closed, events, past, spent>>

\* Mutant of RecordErrorRecurrence: one of the two upload routes leaves it out.
RecordNever(u) ==
  /\ upload[u].pc = "begun"
  /\ upload' = [upload EXCEPT ![u].pc = "recorded"]
  /\ UNCHANGED <<group, seen, sweep, syncs, closed, events, past, spent>>

\* recordErrorRecurrence: the UPDATE finds the group fixed and keeps its row, or
\* does not match.
RecordErrorRecurrence(u) ==
  /\ upload[u].pc = "begun" /\ RowFree
  /\ upload' = [upload EXCEPT ![u].pc = "recorded"]
  /\ group' = IF group.status = "fixed" THEN [group EXCEPT !.holder = u] ELSE group
  /\ UNCHANGED <<seen, sweep, syncs, closed, events, past, spent>>

\* COMMIT, and the sync is started.
CommitUpload(u) ==
  /\ upload[u].pc = "recorded"
  /\ seen' = IF upload[u].age < seen THEN upload[u].age ELSE seen
  /\ IF group.holder = u
     THEN /\ group' = [status |-> "regressed", recurrences |-> group.recurrences + 1,
                       holder |-> NoUpload]
          /\ Become("regressed", TRUE)
          /\ upload' = [Overwritten EXCEPT ![u] = Idle]
     ELSE /\ upload' = [upload EXCEPT ![u] = Idle]
          /\ UNCHANGED <<group, past, syncs>>
  /\ UNCHANGED <<sweep, closed, events, spent>>

RollbackUpload(u) ==
  /\ upload[u].pc # "idle"
  /\ upload' = [upload EXCEPT ![u] = Idle]
  /\ group' = IF group.holder = u THEN [group EXCEPT !.holder = NoUpload] ELSE group
  /\ UNCHANGED <<seen, sweep, syncs, closed, events, past, spent>>

-----------------------------------------------------------------------------
(* autocloseStaleErrorGroups *)

\* isAutocloseEligible on what the SELECT returns.
SweepRead(w) ==
  /\ ~ sweep[w]
  /\ group.status \in Eligible /\ seen = Window
  /\ sweep' = [sweep EXCEPT ![w] = TRUE]
  /\ UNCHANGED <<group, seen, upload, syncs, closed, events, past, spent>>

\* Mutant of MayClose: the status is not checked again in the UPDATE.
MayCloseAny == TRUE

\* The WHERE of the UPDATE: the status is checked again, last_seen is not.
MayClose == group.status \in Eligible

SweepClose(w) ==
  /\ sweep[w] /\ RowFree
  /\ sweep' = [sweep EXCEPT ![w] = FALSE]
  /\ IF MayClose
     THEN /\ group' = [group EXCEPT !.status = "fixed"]
          /\ Become("fixed", TRUE)
          /\ upload' = Overwritten
     ELSE UNCHANGED <<group, past, syncs, upload>>
  /\ UNCHANGED <<seen, closed, events, spent>>

-----------------------------------------------------------------------------
(* Jira *)

Over(s) == [syncs EXCEPT ![s] = @ - 1]

Later(s, pc) == [Over(s) EXCEPT ![[s EXCEPT !.pc = pc]] = @ + 1]

At(s, pc) == s.pc = pc /\ syncs[s] > 0

\* getLinkedIssue, which looks under the fingerprint of the error group.
GroupLink == IF LinkKey = "error" THEN link ELSE NoTicket

\* Without a link there is nothing to do.
SyncLink(s) ==
  /\ At(s, "link")
  /\ syncs' = IF GroupLink = NoTicket THEN Over(s) ELSE Later(s, "look")
  /\ UNCHANGED <<group, seen, upload, sweep, closed, events, past, spent>>

\* fetchIssueTransitions: to where the ticket already is, there is no transition.
SyncLook(s) ==
  /\ At(s, "look")
  /\ syncs' = IF closed = (s.to = "fixed") THEN Over(s) ELSE Later(s, "move")
  /\ UNCHANGED <<group, seen, upload, sweep, closed, events, past, spent>>

\* Jira tells of every event of a ticket that is closed after it.
Told(isClosed) == IF isClosed /\ Webhook THEN events + 1 ELSE events

\* Mutant of SyncMove: resolve and reopen are mixed up.
SyncMoveBack(s) ==
  /\ At(s, "move")
  /\ closed' = (s.to = "regressed")
  /\ events' = Told(closed')
  /\ syncs' = Over(s)
  /\ UNCHANGED <<group, seen, upload, sweep, past, spent>>

\* transitionIssue and the comment; a transition gone meanwhile is refused.
SyncMove(s) ==
  /\ At(s, "move")
  /\ closed' = (s.to = "fixed")
  /\ events' = IF closed' # closed THEN Told(closed') ELSE events
  /\ syncs' = Over(s)
  /\ UNCHANGED <<group, seen, upload, sweep, past, spent>>

\* Jira is down: syncErrorGroupTransition logs and gives up.
SyncFails(s) ==
  /\ syncs[s] > 0
  /\ Spend("lost", MaxLost)
  /\ syncs' = Over(s)
  /\ past' = [past EXCEPT !.disturbed = TRUE]
  /\ UNCHANGED <<group, seen, upload, sweep, closed, events>>

\* Somebody moves or edits the ticket in Jira.
EditTicket ==
  /\ link # NoTicket
  /\ Spend("edits", MaxEdits)
  /\ closed' \in BOOLEAN
  /\ events' = Told(closed')
  /\ past' = [past EXCEPT !.disturbed = TRUE]
  /\ UNCHANGED <<group, seen, upload, sweep, syncs>>

\* POST /jira/webhook: an upsert, whatever the status is now, of the group with
\* the fingerprint of the link.
IssueClosed ==
  /\ events > 0 /\ RowFree
  /\ events' = events - 1
  /\ IF LinkKey = "error" /\ group.status # "fixed"
     THEN /\ group' = [group EXCEPT !.status = "fixed"]
          /\ past' = [past EXCEPT !.fixes = @ + 1]
          /\ upload' = Overwritten
     ELSE UNCHANGED <<group, past, upload>>
  /\ UNCHANGED <<seen, sweep, syncs, closed, spent>>

EventLost ==
  /\ events > 0
  /\ Spend("lost", MaxLost)
  /\ events' = events - 1
  /\ past' = [past EXCEPT !.disturbed = TRUE]
  /\ UNCHANGED <<group, seen, upload, sweep, syncs, closed>>

-----------------------------------------------------------------------------
Older(age) == IF age < Window THEN age + 1 ELSE age

\* A day passes.
DayPasses ==
  /\ seen # Never
  /\ seen' = Older(seen)
  /\ upload' = [u \in Uploads |-> IF upload[u].pc = "idle" THEN upload[u]
                                  ELSE [upload[u] EXCEPT !.age = Older(@)]]
  /\ UNCHANGED <<group, sweep, syncs, closed, events, past, spent>>

GroupNext ==
  \/ \E s \in PatchTo : Patch(s)
  \/ \E u \in Uploads : BeginUpload(u) \/ RecordErrorRecurrence(u) \/ CommitUpload(u)
                        \/ RollbackUpload(u)
  \/ \E w \in Sweeps : SweepRead(w) \/ SweepClose(w)
  \/ \E s \in Sync : SyncLink(s) \/ SyncLook(s) \/ SyncMove(s) \/ SyncFails(s)
  \/ EditTicket \/ IssueClosed \/ EventLost \/ DayPasses

TriageNext ==
  \/ GroupNext /\ UNCHANGED issueVars
  \/ IssueNext /\ UNCHANGED triageVars

TriageSpec == TriageInit /\ [][TriageNext]_allTriageVars

-----------------------------------------------------------------------------
(* Properties *)

\* "known / ignored are deliberate human states (don't touch)": no sweep and no
\* upload moves the group out of them, not even one that read it before.
HumanStateKept ==
  [][group.status \in {"known", "ignored"} /\ group'.status # group.status =>
       events' < events \/ spent'.patches > spent.patches]_allTriageVars

\* "Only the fixed -> regressed edge counts as a recurrence": however many shards
\* of a run fail at once, one fix is counted once.
CountedOncePerFix == group.recurrences <= past.fixes

\* A failure that was declared fixed and comes back is visible: a group that was
\* fixed throughout the upload is not fixed after it.
ComebackVisible ==
  [][\A u \in Uploads : upload[u].stays /\ CommitUpload(u) => group'.status # "fixed"]_allTriageVars

\* Two-way sync: when all has been told, a fixed group's ticket is closed and a
\* regressed group's ticket is open.
InStep ==
  Quiet /\ link # NoTicket =>
    /\ group.status = "regressed" => ~ closed
    /\ group.status = "fixed" => closed

\* As long as one change is reflected before the next one comes.
InStepUndisturbed == ~ past.disturbed => InStep

=============================================================================
