# Flakey: specifications, model checking and proofs

Flakey is a self-hosted dashboard for test results: a TypeScript backend over PostgreSQL
(`backend/`), reporters for several test frameworks (`packages/`), a Svelte frontend, and charts
and infrastructure code. This directory holds TLA+ modules of the parts of it where ordering,
concurrency and failure matter, the TLC configurations that check them, and proofs checked by
TLAPS.

Contents: [Inventory](#inventory) · [Modules](#modules) · [Runs](#runs) · [Counterexamples](#counterexamples) · [Fairness](#fairness) · [Proofs](#proofs) ·
[What is not modelled](#what-is-not-modelled) · [Plan](#plan) · [Working with it](#working-with-it)

## Inventory

Paths are relative to the repository; `B/` is `backend/src/`.

### Audit hash chain: `B/audit.ts`, `B/audit-chain.ts`, `B/db.ts`

*State.* Table `audit_log` (one chain per organisation, `prev_hash`/`entry_hash` columns of
migration 064, rows from before it have neither), the BIGSERIAL id shared by all organisations, a
transaction advisory lock per organisation.
*Operations.* `logAudit` → `appendAuditEntry` (one READ COMMITTED transaction: lock, look up the
head, INSERT, UPDATE with the hash), `verifyAuditChain` (pages of rows, each in a transaction of
its own).
*Hard.* `created_at` is fixed at BEGIN, before the lock, so it is not the chain's order; ids of
rolled-back inserts leave gaps; a failure between INSERT and UPDATE; a walk while rows are appended.
*Correct means.* One unforked chain in id order, legacy rows only in front, rows visible in id
order, no append stuck, no false alarm and no missed change.

### Audit export: `B/audit-export.ts`, `B/routes/audit.ts`

*State.* `audit_export_config` (cursor, enabled, last failure), a single-flight advisory lock, the
receiver's copy.
*Operations.* A tick every minute in every instance (`flushAuditExports` → `flushConfig`:
read a batch past the cursor, deliver, store the cursor), routes that create, switch, delete
destinations.
*Hard.* Delivery and cursor are two systems; overlapping ticks; the starting cursor is read in an
earlier transaction than the INSERT; the cursor is only sound because ids become visible in order,
which is a property of the chain's lock.
*Correct means.* At least once, gap-free past the start, nothing confirmed is sent again, everything
is sent in the end.

### Live ingest: `B/routes/live.ts`, `B/live-events.ts`

*State.* Rows of `runs`, `specs`, `tests`, `live_events`; in each process: `runEventChain` (a
promise chain per run), the bus (`runMeta`, the active set, emitters and their 30 minute timer, the
cleanup 5 s after the end).
*Operations.* `/live/start`, `/events` (acknowledged first, processed on the chain), heartbeats,
`/abort`, the in-memory stale sweeper, `reconcileStaleLiveRuns` from the database, SSE streams.
*Hard.* Everything: handlers race, batches of one reporter overlap and are retried, three parties abort the same run, the bus
forgets, processes die, the end-of-run upload and DELETE arrive in the middle.
*Correct means.* The history of a reporter that waits for its answers in that reporter's order; one row per test; at most one `run.aborted`, never before it is durable, no run aborted whose reporter is alive, no run live for ever.

### Live reporter client: `packages/flakey-live-reporter`

*State.* A queue, a flush timer, POSTs in flight.
*Operations.* `send`, `flush` (timer, heartbeat, end of spec), `stop`; a failed POST puts its batch
back, capped by `MAX_QUEUE`.
*Hard.* Flushes overlap; a POST that timed out may still arrive.
*Correct means.* No event vanishes, the oldest go first, everything arrives in the end.

### Error triage and Jira: `B/error-recurrence.ts`, `B/routes/errors.ts`, `B/error-automation.ts`, `B/retention.ts`, `B/integrations/jira.ts`, `B/routes/jira-webhook.ts`

*State.* `error_groups` (status, recurrence count), `failure_jira_issues` (fingerprint → ticket),
`last_seen` derived from the tests, the tickets in Jira.
*Operations.* Uploads flip `fixed` groups to `regressed`; users set a status; a nightly sweep closes
quiet groups; transitions are reflected onto the ticket without waiting; Jira's webhook sets `fixed`;
tickets are created at most once under an advisory lock.
*Hard.* Five writers of one row, one of them a webhook that echoes our own change; the sweep
works through HTTP calls between its read and its writes; Jira may create a ticket and the answer be
lost.
*Correct means.* One ticket; one count per fix; a failure that comes back is visible; a human's
`known`/`ignored` stays; group and ticket agree once changes are reflected.

### Run uploads and merge: `B/routes/uploads.ts`, `B/routes/runs.ts`, `B/run-merge.ts`, `B/run-status.ts`

*State.* The rows of `runs` and `specs` with their counters, `finished_at`, the rows of `tests`.
*Operations.* An upload is one transaction: `findOrCreateRun` (`INSERT … ON CONFLICT` on
`ci_run_id`), an upsert per spec, tests reconciled by title, `recalculateRunStats` if it merged.
Live events recompute the counters of a spec and then of the run, one statement each.
`classifyRunStatus` is what pipelines are gated on.
*Hard.* Shards upload at once and upload again; a live recompute is two UPDATEs whose subqueries do
not see what commits while they wait; the upload reads the test rows before it replaces them.
*Correct means.* Counters that agree with each other and with the tests, a merged report that stays,
the latest finish time, no reported failure hidden from the gate.

### Scheduled reports: `B/scheduled-reports.ts`, `B/routes/reports.ts`

*State.* `scheduled_reports` (cadence, UTC hour, day of week, active, `last_sent_at`), a try-lock held by
a transaction.
*Operations.* Every task runs a sweep every few minutes: read the clock once, select what is due one
organisation at a time, deliver, stamp. `POST /reports/:id/run` delivers and stamps outside the lock;
POST, PATCH and DELETE edit rows in between.
*Hard.* Delivery and stamp are two systems; the clock of the sweep and `NOW()` of its query are two
clocks; the weekly window is six days, not seven, because a send drifts within its day.
*Correct means.* Once a day at most, nothing counts as sent that was refused, no due day is skipped.

### Releases: `B/routes/releases.ts`

*State.* `releases` (status), the checklist with two items owned by rules, linked runs and manual
tests, sessions with one result row per test in scope and its deferral as a known issue.
*Operations.* Every GET and every sign-off evaluates the rules and writes the items back; sessions are
created, completed (by hand or by their last result), reopened; results are recorded, accepted as known
issues, revoked. Every statement commits on its own.
*Hard.* A handler is a chain of check and act with other requests between any two statements: two
creations, a creation and a reopening, a result and a reset, a stale GET beside a sign-off, two sign-offs.
`DELETE /manual-tests/:id` takes links and result rows away by cascade, in any session.
*Correct means.* One session in progress, it completes when its last test is executed, a deferral
belongs to the failure it was given for, a release is signed once, the rule and the gate mean what they say.

### Quarantine and pull requests: `B/routes/quarantine.ts`, `B/auto-quarantine.ts`, `B/retention.ts`, `B/git-providers/`

*State.* `quarantined_tests` (expiry or none); at the provider a commit status, a check run and a
comment.
*Operations.* People add, renew and remove rows, the end of an upload adds rows for flaky tests, a
nightly sweep in every task lifts expired ones. An upload posts its verdict without waiting: a red run
is softened when every failure is quarantined.
*Hard.* The sweep against a renewal; the posts of two uploads interleave; the comment is looked up and
then written; the provider may have done what it did not answer.
*Correct means.* A quarantine stands until it ends or somebody removes it, a red run passes only on what was
quarantined, what stands on the pull request is of the last upload.

### The rest

| Part | State and operations | Where it could go wrong |
|---|---|---|
| Organisation stream (`live.ts`, `live-events.ts`) | snapshot, then subscription; NOTIFY fan-out | a run that starts between the two |
| Retention, storage | rows first, artifacts after | orphans |
| Manual tests, requirements, views, notes | CRUD in single statements | – |
| Authentication, SSO, SCIM, organisations | tokens, sessions, provisioning | – |
| Normalisers, parsers, formatters | pure | wording and formats |
| AI, webhooks, e-mail, PagerDuty | outgoing calls | – |
| Frontend, chart, infra, other reporters, CLI, MCP server | no shared state of their own | – |

How they interact: every mutating route calls `logAudit`, so uploads, triage, reports and retention
all append to the audit chain, and the export follows it. Reporters drive live ingest through
`LiveClient`; at the end the framework's reporter uploads the full report, which replaces the live
rows. Uploads commit the triage transition, then start the Jira sync and the ticket creation without
waiting, and post to the pull request: `POST /runs` after its auto-quarantine, `POST /runs/upload`, which has
none, at once. A release's checklist reads the runs
that uploads and live ingest finish. The nightly timer runs retention, auto-close and quarantine expiry. Several instances of the
backend share only the database (`docs/architecture.md`, 7a).

## Modules

| Module | What it is |
|---|---|
| `AuditLog` | `appendAuditEntry` statement by statement: `Begin`, `Lock`, `ReadHead`, `Insert`, `SetHash`, `Commit`, `Rollback` |
| `AuditVerify` | extends it by the paged walk and one change of a stored row behind the application's back |
| `DurableFeed` | abstract: what a destination may rely on |
| `AuditExport` | extends `AuditLog` by ticks, deliveries and destination routes; implements `DurableFeed` |
| `AuditProofs` | theorems about the log, the walk and the export |
| `LiveIngest` | one run, any number of server tasks and reporters |
| `LiveClient` | the reporter's queue |
| `LiveProofs` | theorems about the server and the reporter |
| `RunMerge` | the uploads of one CI run's shards beside its live events: counters, tests, status |
| `RunMergeProofs` | theorems about it |
| `JiraIssues` | `createIssueForFingerprint` for one fingerprint |
| `ErrorTriage` | extends it by the group's status and the two-way sync |
| `ErrorTriageProofs` | theorems about the ticket and the triage |
| `ReleaseSessions` | the manual sessions of one release and the rule that reads them |
| `ReleaseSessionsProofs` | theorems about it |
| `ReleaseGate` | its checklist, `refreshAutoItems` and the sign-off |
| `ReleaseGateProofs` | theorems about it |
| `Reports` | sweeps, `POST /:id/run` and the edits of scheduled reports, over a week of hours |
| `ReportsProofs` | theorems about it |
| `Quarantine` | the quarantined tests of one suite: requests, auto-quarantine, sweep |
| `PullRequest` | extends it by what uploads post to the provider |
| `PullRequestProofs` | theorems about both |
| `MC…` | instances for TLC: constants that are functions or sequences, symmetry |

**Granularity.** An action is one database statement with what the handler does up to the next
`await`, or one synchronous stretch of a handler. READ COMMITTED is modelled directly: statements read
what is committed then; a row locked by an UPDATE makes other writers wait (`RowFree`); advisory
locks are variables that the end of the transaction frees. Commit or rollback is a choice wherever
the code may throw.

**AuditLog.** A row is a record; `dirty[w]` is the row a writer has inserted and not committed.
SHA-256 is an ideal hash: the hash of a row is the sequence of contents hashed into it, hence
injective in predecessor and content. Action, target and detail are one opaque body; canonical JSON
is not modelled. Ids come from one sequence for all organisations, so chains have gaps.

**AuditExport.** A tick is one run of `flushAuditExports` (ticks of two instances and overlapping
ticks of one are the same thing). A failed delivery may have reached the receiver. Routes are
interleaved, including deletion in the middle of a tick. The audit entry a route writes about itself
is one of `AuditLog`'s appends.

**AuditVerify.** The walk keeps `verifyAuditChain`'s local variables; a page is the set of the first
`batchSize` rows past `lastId`. `EditRow`, `ClearHash` and `RemoveRow` are not code: they are what the
chain exists to reveal. Removing the newest row, or clearing the only hash, cannot be seen by any walk
and is marked `hidden`.

**LiveIngest.** `bus[p]` is what task `p` holds for the run, `chain[p]["map"]` the promise chain
of `runEventChain`, `chain[p]["orphan"]` the jobs of a chain that `forgetLiveRun` has taken out of the
map while they run on. Jobs have a program counter per statement. `rows[t][s]` counts rows of test `t`
with status `s`, so a duplicate is a count of two. Ages replace wall clock. What the reporters send is
`Script`: a batch has at least one event, for an empty one is a heartbeat, and an event carries its sender
and a place that grows along the sender's batches (`ScriptAssumption`). `post[c].req` are the POSTs a
reporter may have under way at once (`Sockets`): `PostSend` sends the next batch whether or not the one
before has been answered, `PostResend` sends one again after `FLUSH_TIMEOUT_MS` although the first POST may
still arrive, `PostArrive` is the ownership UPDATE, and `PostSync` the rest of the handler, with an answer
that may be lost. Nothing orders the UPDATEs of two POSTs, so their batches join the chain in either order;
`overlapped` remembers that a reporter sent a batch while another was under way. A batch that comes back is
sent again as it was: that `flush` merges it with what has been queued meanwhile is `LiveClient`'s subject.

**LiveClient.** Events are numbered in the order they are sent; `received` is what reached the
backend; an abandoned POST may still arrive. `overlapped` remembers whether two POSTs were ever in
flight together.

**RunMerge.** One run, one spec file per shard, titles unique in a file; files and titles are finitely many. An upload has read what it
will reuse or delete (`seen`) and holds the rows of the run and of its spec; all it writes appears at
`CommitUpload`. Because every upload of a run first takes the run's row, uploads of one run queue up,
and no cycle of waits is possible: live statements hold one row each. `live` is the chain's event and
statement; the subquery of a recompute (`LiveCount`, `LiveSum`) and its write (`LiveSetSpec`,
`LiveSetRun`) are two actions. `specs[f].counts` has no column `total`, which is the sum of the others
in every statement that writes it. `past` remembers which shards have merged, which of their reports
nothing has written over since, and whether a recompute was torn.

**JiraIssues, ErrorTriage.** One fingerprint, one error group. `syncs` counts the outbound syncs at
each of their three steps; `events` are webhook calls on their way. `LinkKey` says under which
fingerprint the ticket was linked. `past` and the flag `stays` of an upload are history variables for
the properties: how often the group was fixed, whether anything disturbed the sync, whether the group
has been fixed since the upload began.

**ReleaseSessions.** A session's id is its number. Results `skipped` and `passed` are one value, as are
`blocked` and `failed`: no guard tells them apart. A session is born without rows and its creator
seeds them one INSERT at a time, so others see it half seeded. `tests` are the manual tests that exist:
`DeleteTest` is what `DELETE /manual-tests/:id` does to links and rows through the foreign keys of migration
027. A creation reads its scope in one SELECT (`CreateLinked`) or in two (`CreateLatest`, `CreateFailures`). The deferral of a row is `raced` when its
handler's unconditional UPDATE came after the failure it had checked was gone. `holes` marks the
situations in which the rule is known not to speak of all linked tests (`gap`) and those in which the
request that would have completed a session died or the last open test of one was deleted (`stuck`); see [Counterexamples](#counterexamples).

**ReleaseGate.** The two rules are read where their SELECTs are; the manual rule in two reads, the rule
of the runs in one, since no property looks inside it. What they read is `signals`, which changes at any
moment: the sessions of `ReleaseSessions` and the runs of `RunMerge` and `LiveIngest` are behind it.
`signature` stands for `signed_off_by` and `signed_off_at`: each writing changes it, so that a second
signature is seen although the status stays what it was. No guard reads it.
`unmet` is what a sign-off's own evaluation found unmet; `seen` is a history variable, what could be
read since a sign-off began.

**Reports.** `last_sent_at` is kept as its age in hours, a week having `DaysPerWeek` days of
`HoursPerDay` hours. Anything older than a week counts as never. A delivery is accepted, refused, or
accepted without an answer; only the first resolves. On the hour itself the minutes decide whether six
days are over, so `late` is a choice.

**Quarantine, PullRequest.** A row is its expiry. A row deleted and added again has another id, which a
sweep that selected the old one has in `gone`; `promised` is a history variable, whether the last that was
done to a test put it in quarantine for good or up to a moment still to come. A call to the provider that
failed, or was not answered in time, may have been carried out. `Annotates` says whether the provider has
check runs, which only GitHub has. The counts of a report and its list of failed tests are independent of
each other. Variables of a post that are not used again are
forgotten. The history variables `removed`, `clean` and `last` say when the surfaces are
promised anything.

## Runs

Each property below has a mutant: a plausible bug (a dropped guard, a wrong order, a forgotten reset)
in a definition that models code, kept in the module beside the definition it mutates, under which TLC
finds the property violated.

| Run | Bounds | Checks | Shows |
|---|---|---|---|
| `audit_export` | 2 organisations, 2 writers, 3 appends behind a legacy row, 2 ticks, batch 1, 2 batches a tick | `ChainIntact` `IdsCommitInOrder` `GapFree` `ConfirmedNeverReshipped` `ImplementsDurableFeed` | the chain holds in any interleaving and with rollbacks anywhere; the export is gap-free, single-flight, and every destination is a `DurableFeed` |
| `audit_export_live` | 1 organisation, 2 writers, 2 appends, 1 tick | `EverythingDelivered` `EveryAppendEnds` | everything is sent in the end, and no append waits for ever |
| `audit_verify` | 2 writers, 3 appends behind a legacy row, pages of 2, one change | `NoFalseAlarm` `ChangeReported` | walks neither cry wolf nor miss a visible change |
| `live_order` | 1 task, 1 reporter, 2 events in 2 batches, 2 POSTs at once, 1 retry, 1 abort request, streams opened at any time | `HistoryInOrder` `OneRowPerTest` `AbortedOnce` `RefetchAfterAbort` | the chain does its work, whether batches wait for each other or overtake each other |
| `live_ends` | 1 task, 1 batch (`run.finished`), 1 heartbeat, 1 crash or failed statement, upload, DELETE | `NoFalseAbort` `EventuallyTerminal` | no false abort, no run live for ever |
| `client` | 4 events, queue of 2, 2 POSTs at a time, 2 failures | `NothingForgotten` `OrderWithoutOverlap` `EverythingArrives` | nothing vanishes; order holds without overlap |
| `triage` | 2 uploads, 2 ticket callers, 1 sweep, 2 status changes, 1 edit in Jira, 1 loss | `OneTicket` `SameTicket` `CountedOncePerFix` `InStepUndisturbed` `HumanStateKept` `ComebackVisible` | five writers of one group and its ticket |
| `run_merge` | 3 shards, 2 of one spec file, 2 uploads of each, 3 live events | `CountersAgree` `ReportKept` `FailureShows` | merging in any order, with retries and rollbacks, beside live events |
| `release_sessions` | 2 requests in flight, 2 tests, 2 sessions | `OneActiveSession` `DeferralsFit` `CompletesItself` `RuleCoversLinkedTests` | creations, reopenings, results and deferrals race, tests are deleted, requests die between statements |
| `release_gate` | 2 requests in flight | `SignOffOnFreshRules` `SignOffOverridesNothing` | a sign-off beside another refresh or sign-off, with every signal changing at any moment |
| `reports` | 2 tasks, 1 report, a week of 3 days of 2 hours | `NoDoubleFire` `SentMeansReceived` `DueDayServed` | sweeps, edits, manual sends, crashes and lost answers over any number of weeks |
| `pull_request` | 2 uploads, 2 tests, 1 sweep | `SoftenedRightly` `SurfacesOfTheLast` `QuarantineStands` | what two uploads leave on the pull request while the quarantine changes under them |

Each module also has a type invariant. It is proved for `AuditLog`, `AuditExport`, `LiveIngest`,
`LiveClient`, `RunMerge`, `JiraIssues`, `ErrorTriage` and `Quarantine`, and for `AuditVerify` inside
`VerifyInvariant`; the other proofs carry a stronger one, which says what each step of a request knows
(`SessionTypes`, `GateTypes`, `ReportTypes`, `Post`). The runs spend their properties on the rest.

**Why the bounds are enough.** The properties are about pairs: two appends of one organisation with
another organisation's id between them, two ticks, two batches of one reporter, two callers. Each
bound admits the pair, one thing that happens in the middle, and one more step after it. Three
appends behind a legacy row of the other organisation let a chain pass a gap and go on; pages of two
over four rows put a page boundary at each place inside the chain; batch size 1 with 2 batches a
tick makes a tick end by its limit and by an empty
read; two batches under way at once and a retry put three POSTs of one reporter in any order; an abort
request, a sweeper and a reconciler are three aborts of one run with a retried batch around them;
dashboards that open a stream (`Watches`) only keep the emitter and its timer busy and are in `live_order`,
DELETE, which ends a run in the middle of anything, is in `live_ends`; a batch of several events is one job that
takes them one by one, which the theorems cover for scripts of any length. A queue of two under four events overflows. In `triage` two patches, two uploads and a
sweep give a group fixed → regressed → fixed with a sync of each still under way. Window is 1: a day
passing is the only difference between a group the sweep may close and one it may not. `triage` uses
symmetry over callers and upload handlers, which no definition tells apart; its properties are
invariants and action properties, for which that is sound.

In `run_merge` two shards of one file and one of another, each with a
retry, upload around three events of both files, so that a recompute is cut by an upload of its own
and of another spec, and a shard that ends earlier merges later.

In `release_sessions` two requests are a creation beside a creation, a result beside a reset or an
accept beside a new result; a third request would only be a second bystander, and the requests without
an intermediate state (complete, revoke, link) interleave with both anyway. Two sessions give a retry of
failures and an older session that is reopened. In `release_gate` a sign-off has one refresh beside it
that began earlier or later; the checklist has an item of each kind. A week of three days of two hours
keeps what the two predicates compare: a day before, a day after, the hour before the report's and the
hour itself. In `pull_request` the second upload overtakes or is overtaken at each of the calls, and one
sweep meets every request between its SELECT and its DELETEs; two sweeps meet only in the guard, for
which the theorem `QuarantineStandsUntilItEnds` covers any number of them.

**Views and a constraint.** Three runs keep TLC from visiting states twice that no property of the run can
tell apart. `release_gate` leaves the signature and what a request found unmet out of the fingerprint: no
guard reads them, no invariant of the run does, and what a step does to the signature is checked on every
step. `pull_request` leaves out, once posts have overlapped or a call has failed, what is on the pull request
and how far an upload is whose status is posted: `SurfacesOfTheLast` then claims nothing for ever and the
other properties read neither. `release_sessions` follows a behaviour only until both kinds of hole have
occurred (`OneKindOfHole`): no guard reads `holes`, `CompletesItself` and `RuleCoversLinkedTests` claim nothing
from there on, and all four properties of the run are proved without this bound.

**Deadlock** is checked in the audit runs; in the other runs whose bounds are finite the system stops
when they are used up, and the configuration says so.

**State the properties speak about.** `RefetchAfterAbort` is promised only if no batch arrives after
the abort was queued, and like `HistoryInOrder` only if no statement fails (a failed insert is logged
and the loop goes on, by design). `HistoryInOrder` speaks of a reporter only as long as it has not sent a batch
while another was under way. `OrderWithoutOverlap` and `InStepUndisturbed` name their conditions;
what happens without them is the subject of the next section. `SurfacesOfTheLast` leaves out posts that
overlap or fail, `DeferralsFit` a deferral written after the failure it was asked for was gone, `CompletesItself`
the two ways a session gets stuck. `CountersAgree` holds between two
recomputes and until one was torn, by an upload that committed between a subquery and its write or by
a statement that failed; `ReportKept` and `FailureShows` until something else writes that spec.

## Counterexamples

Eight configurations beside the runs state a sentence of a comment or document that does not hold as it
stands; TLC answers each with a shortest behaviour (`tlc -config MCX.cfg M` as below). They are
qualifications of the sentences, kept for whoever relies on them, and not part of the runs.

| Configuration, module | Property | The sentence, and the behaviour |
|---|---|---|
| `MCLiveTwoTasksSilence`, `MCLiveIngest` | `NoFalseAbort` | Heartbeats are "proof the reporter is still alive" (`B/routes/live.ts:290`). `getStaleRuns` reads one process' memory: a run started on one task whose POSTs are balanced to another looks silent to the first, which aborts it. One task behaves (`live_ends`). |
| `MCLiveOverlap`, `MCLiveIngest` | `HistoryAsSent` | "Within-run sequential processing matches the LiveClient's own batch-then-await behaviour" (`B/routes/live.ts:321`). `flush` (`packages/flakey-live-reporter/src/index.ts:80`) does not wait for its POST before the next one, and `POST /events` awaits the ownership UPDATE before `enqueueOnRun`, so two batches of one reporter join the chain in either order, in one task and without a failure. A `run.finished` in the second then precedes the results of the first, against `B/routes/live.ts:314`. Rows stay right: `B/routes/live.ts:555` expects a test.started behind its result. |
| `MCLiveUpload`, `MCLiveIngest` | `OneRowPerTest` | A live result is an UPDATE and, if it matched nothing, an INSERT. The end-of-run upload is not on the chain and can commit between the two; the INSERT adds a second row of the test, which stays. |
| `MCErrorTriageAutoCreated`, `MCErrorTriage` | `InStepUndisturbed` | `backend/docs/integrations.md:168` includes auto-created tickets. `autoCreateIssuesForRun` links under a hash of spec and title, the sync looks under the hash of message and suite: such a ticket is never resolved or reopened. One opened by `POST /jira/issues` with the group's fingerprint is (`triage`). |
| `MCRunMergeGate`, `MCRunMerge` | `PassedWhenAllReported` | The gate "won't flip to `passed` until every shard has reported" (`backend/docs/integrations.md:553`). The upsert sets `finished_at` at the first merge and nothing knows how many shards there are, so it answers `passed` after the first green one. A pipeline that asks after its last upload is not affected. |
| `MCPullRequestTwoComments`, `MCPullRequest` | `OneComment` | "they'll update in place if called multiple times for the same run" (`B/routes/runs.ts:185`). Two posts that overlap both find no comment and both create one; so does a post whose lookup was answered with an error, which counts as no comment. |
| `MCReportsMidnight`, `MCReports` | `SentTodayWasToday` | The window looks at the UTC day of `last_sent_at` (`B/scheduled-reports.ts:11`). A send accepted before midnight and stamped after it belongs to the new day, whose daily report is then not sent. |
| `MCReleaseGateOwnRead`, `MCReleaseGate` | `GateReflectsOwnRead` | "so the gate reflects current data" (`B/routes/releases.ts:645`). A GET that read a rule as met before and writes it after the sign-off's own evaluation found it unmet lets the sign-off pass. What it does rest on is `SignOffOnFreshRules`. |

Also seen while modelling, not stated as properties:

* With two tasks, both may pass `abortRun`'s state query before either has written `run.aborted`
  (`AbortedOnce`), and batches of one reporter acknowledged by different tasks may be written in either
  order (`HistoryInOrder`); UPDATEs of one test on two chains may both match nothing and be followed by
  two INSERTs (`OneRowPerTest`), and a batch on the other task's chain may still insert a pending test
  after the abort (`RefetchAfterAbort`): the chain is per process. Instantiating `LiveIngest` with
  `Tasks = {p1, p2}` shows each.
* `flush` of the live client does not wait for the flush before. If both fail, the batch that fails
  last goes in front, whichever is older, and the cap may drop newer events first, although the comment
  (`packages/flakey-live-reporter/src/index.ts:109`) promises chronological order: `QueueInOrder` alone
  is violated in `MCLiveClient`, `OrderWithoutOverlap` holds.
* A live recompute whose subquery ran before an upload committed writes its result over the upload's
  counters (`torn` in `RunMerge`); nothing corrects them until the next event or upload of the run. For
  the same reason a failed recompute leaves counters behind.
* Two shards that report the same spec file replace each other's tests: the last to merge wins.
* The cleanup 5 s after `run.aborted` deletes `runMeta`; a batch acknowledged before it and still on
  the chain is then dropped by the `hasRun` check (`JobForgotten`) although the run exists.
* The auto-close sweep reads `last_seen` once and then makes HTTP calls group by group. A failure
  committed meanwhile does not stop it from closing the group; the next failing upload reopens it.
* Syncs of one ticket may overtake each other, and later webhook events of a closed ticket set the
  group to fixed again even if it has regressed; `InStep` alone is violated, `InStepUndisturbed` holds.
* The manual rule reads the latest session. Reopening an older one neither makes the rule unmet nor is
  seen by it, and revoking a known issue in an older session does not bring the blocker back, although
  the comment at `B/routes/releases.ts:2005` says "revoke a prior acceptance so the result blocks again".
* A session may be completed by hand with tests that have not been executed, a test linked after its
  creation gets no row, and a result may be recorded in a session that is already completed: the rule
  then says nothing of some linked test (`gap`). A request that dies after recording the last result
  leaves the session open with nothing left to execute (`stuck`); any further result completes it.
* Deleting the last manual test of a session that is still open leaves it the same way: the rows go by
  cascade (`backend/migrations/027_manual_test_groups_and_sessions.sql:64`) and `DELETE /manual-tests/:id` looks
  at no session. Somebody has to complete it by hand.
* Who completes a session is told in two ways: by its owner according to `B/routes/releases.ts:249` ("still
  expected to Mark session complete") and `backend/docs/releases.md:120`, by itself according to
  `backend/docs/releases.md:47`. The code does the latter (`B/routes/releases.ts:1537`).
* A second sign-off that passed its guard while the release was a draft writes nothing, but is answered
  `signed_off: true` and audited as a sign-off: the UPDATE at `B/routes/releases.ts:660` does not report its rows.
* A release is visible, and can be signed off, before `POST /releases` has inserted its checklist.
* `POST …/file-bug` twice at once opens two tickets; the row keeps the last.
* A sweep of the reports that crosses midnight compares its old hour and day with the new `NOW()`. A
  report made weekly by PATCH may be left without a day, which POST refuses, and is then never due. A
  manual send suppresses the weekly report of the next six days; `backend/docs/integrations.md:307` still says
  that "Run now" clears `last_sent_at` and runs the scheduler, whereas it delivers and stamps.
* Status, check run and comment are computed from one shard's payload, although the comment at
  `B/git-providers/comment.ts:5` speaks of the run. The comment is looked for among the provider's first
  hundred.
* A quarantine that has expired counts until the nightly sweep lifts it; the auto-quarantine of such a test
  does nothing (`ON CONFLICT DO NOTHING`), and the sweep lifts it although it was just found flaky again. An
  automatic row that somebody renews keeps its source `auto`.
* The header of `B/routes/quarantine.ts:6` ("NOT a server-side gate exemption") does not know of the softened
  commit status and check run, which `B/git-providers/index.ts:85` calls a deliberate asymmetry.
* A POST that is repeated after a lost answer is processed again as a whole: its events are in the history
  twice.

## Fairness

Only what the code's scheduling justifies. An append or job that has begun keeps running (the event
loop drives it), but requests need not come and need not fail: weak fairness on the steps of a begun
append (`AuditExport`), on the chain's jobs, on the reconciler's interval timer and its abort, and on
the passing of time (`LiveIngest`). The in-memory sweeper, reporters, uploads and deletion get none,
so `EventuallyTerminal` rests on the reconciler alone. `AuditExport` assumes that outages end: an
operation tried again and again succeeds again and again, which is strong fairness on the successful
outcome of listing, reading, delivering and storing the cursor; crashes and failures remain possible
at any time. `LiveClient`'s timer fires while the process is up, and a POST ends somehow; failures are
bounded, the bound being the assumption that they end. The modules of releases, reports, quarantine and
pull requests assume no fairness and promise nothing in the end: a request that dies leaves its work
where it is. `DueDayServed` speaks of days in which every hour had a sweep.

## Proofs

A theorem states each safety property of the runs, invariants and action properties, for every value of
the constants that the modules' `ASSUME`s allow; every run of a module evaluates them. Further hypotheses
stand in the theorem and are named below. Each proof has the same layout: facts about operators, an
inductive invariant, one lemma per action or per kind of step, and the theorems.

### The audit log and its readers

`AuditProofs` proves, for any organisations, writers, bodies, legacy rows and number of appends:

| Theorem | Says |
|---|---|
| `InductiveInvariant` | `Spec => []IInv` |
| `TypeCorrect` | `Spec => []TypeOK` |
| `ChainAlwaysIntact` | `Spec => []ChainIntact` |
| `NoForkEver` | `Spec => []NoFork` |
| `LegacyRowsArePrefix` | `Spec => []LegacyIsPrefix` |
| `CommitsInIdOrder` | `Spec => IdsCommitInOrder` |

*Argument.* `ChainIntact` is not inductive: that a commit extends the chain depends on what the writer
read some steps before. The inductive invariant `IInv` adds why it is still true. `LockInv`: a writer
between `Lock` and the end holds its organisation's lock (so there is one: `OneInLock`). `PrevIsHead`:
the predecessor it holds is still the head, since nobody else can commit there. `IdsBelowNext` and
`DirtyInv`: its uncommitted row is above every committed row of the organisation, names that
predecessor, and is hashed before `Commit`. `HeadExists`: ids identify rows and a non-empty chain has
a largest one, so the lookup's `CHOOSE` is defined. There is one lemma per action (`BeginStep` …
`CommitStep`), joined in `NextIInv`; the commit step is the one with content. `NoFork` follows from the
chain in one state: two rows with one predecessor would each be directly behind the same row.
`CommitsInIdOrder` is read off `DirtyInv` in the commit step. Assumed are the module's `ASSUME`s (a
free lock's holder is no writer, legacy owners are organisations, bounds are naturals) and the ideal
hash. `OrderInv` is the part of `IInv` that does not speak of stored hashes, and so survives a change
behind the application's back.

For any destinations, ticks, batch size and number of batches in a tick:

| Theorem | Says |
|---|---|
| `ExportInvariant` | `ExportSpec => []ExportInv` |
| `ExportTypeCorrect` | `ExportSpec => [](TypeOK /\ ExportTypeOK)` |
| `GapFreeEver` | `ExportSpec => []GapFree` |
| `NeverReshipsConfirmed` | `ExportSpec => []ConfirmedNeverReshipped` |
| `ExportIsDurableFeed` | `ExportSpec => ImplementsDurableFeed` |

*Argument.* `ExportInv` is `IInv` with what the ticks and routes keep. `OneTick`: only the holder of the
single-flight lock is past `idle`. `Listed` and `AtCursor`: the cursors it listed, and the one it works
with, are those of the rows unless a route deleted them. `WholeStretch`: the batch it read is the whole
stretch of the organisation's log from its cursor to its last row, and remains so although appends go on,
because a row that commits later has an id above every row of its organisation; this is where the
log's lock carries the export. `Arrived`: the cursor moves only over a batch that the receiver has. So
whatever is behind a cursor has been received. For the refinement each step is mapped to `FeedStep(c)`, a
step of one destination's `Feed` or a stutter.

For the walk, with pages of any size:

| Theorem | Says |
|---|---|
| `VerifyInvariant` | `VerifySpec => []VerifyInv` |
| `NeverFalseAlarm` | `VerifySpec => []NoFalseAlarm` |
| `ChangesAreReported` | `VerifySpec => []ChangeReported` |

*Argument.* `WalkInv`: between two pages the walk remembers where it is, `expectedPrev` being the hash of
the last row it has passed; rows appended meanwhile come behind it. In an unchanged log every row then
fits. `Broken(r)` is a row the walk cannot pass. `ChangeInv`: a change that is visible leaves a broken
row, appends do not mend it, and a walk that began after the change still has one ahead; a walk that ends
has passed everything, so it has stopped there.

### Live ingest

`LiveProofs` proves for the reporter, with any number of events, POSTs in flight and failures, any batch
size and any cap of the queue:

| Theorem | Says |
|---|---|
| `ClientInvariant` | `ClientSpec => []ClientInv` |
| `ClientTypeCorrect` | `ClientSpec => []ClientTypeOK` |
| `NothingForgottenEver` | `ClientSpec => []NothingForgotten` |
| `OldestGoFirst` | `ClientSpec => []OrderWithoutOverlap` |

*Argument.* `Accounted`: an event is received, queued, dropped by the cap, or in a POST that the client
still waits for; the POSTs it has given up are not needed, for their batch is back in the queue. `InTurn`
holds until two POSTs overlap: one is under way, what was dropped before it is older, and what is queued
is newer.

For the server, with any script, ages, bounds and number of reporters:

| Theorem | Says |
|---|---|
| `LiveTypeCorrect` | `Spec => []TypeOK` |
| `NeverFalselyAborted` | `OneTask`: `Spec => []NoFalseAbort` |
| `NeverAbortedTwice` | `OneTask`: `Spec => []AbortedOnce` |
| `RefetchShowsAbort` | `OneTask`: `Spec => []RefetchAfterAbort` |
| `HistoryStaysInOrder` | `OneTask`: `Spec => []HistoryInOrder` |
| `TestsHaveOneRow` | `OneTask`, `~ Uploads`: `Spec => []OneRowPerTest` |

`OneTask` says that there is one server process. It is not a weakness of the proofs: with two, each of
these properties is false, as the section on [counterexamples](#counterexamples) says, and the types, which do not
depend on it, are proved without. `~ Uploads` leaves out the end-of-run upload, which writes beside the
chain and adds the second row in `MCLiveUpload`. The other hazards (crashes, failed statements,
heartbeats, retries, lost answers, DELETE, sweeper, reconciler) are all in.

*Argument.* `LifeInv`, for any number of tasks, says what lives and when. `InLine`: only the head of a
chain in the map has begun. `OneSender`: a job has the events of one reporter. `Orphaned`: a chain taken out of the map
belongs to a run that is deleted. `NothingLeft`: behind the DELETE, and before the run (`Unborn`),
there is nothing that could write. On it rest, one by one:

* `AbortsInv`. `Reasons`: every abort that was queued, asked for or done was asked for by a user, or came
  after silence. `Silence`: the process' own clock of the run is never ahead of the row's while no POST is
  being handled, so what looks stale is.
* `OnceInv`. An abort past its state query is the only one at work, and the history has none yet; it is
  the head of the one chain, so no other can pass the query before `run.aborted` is written.
* `RowsInv`. A test has at most one row, and none while the INSERT of the head is still to come.
* `RefetchInv`. As long as no statement fails and no batch comes after it, an abort is the last job that
  writes (`AbortsLast`); once it has written, nothing pending is left.
* `OrderInv`. The first occurrences in the history are in the order the property asks for, and those of
  one batch always (`FirstsInOrder`); it has nothing of a batch that is still to be sent, and no event without those before it
  in its batch (`HistoryClosed`); a job has the rest of its batch, and, as long as its reporter has not
  overlapped its POSTs, the history has nothing of a later one (`JobInOrder`) and the batches of that reporter
  wait in the order they were sent (`LineInOrder`). A reporter that sends the next batch with all its POSTs
  back has none that could still join the chain behind it; that is where `overlapped` enters.

### Uploads, failures, pull requests

`RunMergeProofs` proves for any finite number of files and titles, and any shards, reports, number of
retries and live events:

| Theorem | Says |
|---|---|
| `MergeInvariant` | `Spec => []MergeInv` |
| `MergeTypeCorrect` | `Spec => []TypeOK` |
| `MergedReportsAreKept` | `Spec => []ReportKept` |
| `FailuresShow` | `Spec => []FailureShows` |
| `CountersStayInSum` | `Spec => []CountersAgree` |

*Argument.* `OneUpload`: the upsert of the run's row admits one upload at a time. `NewRun`, `Within`: what
an upload that inserted the run, and the chain, know. `FailureKept`: a failure of a merged report is in
the run's counters, in those an upload is about to write and in those the chain is about to write.
`InSum` and `UploadInSum` hold until a recompute is torn: counters are the sums over rows and specs but
for the spec that is being counted, and a sum that has been taken and not written is still right. The
lemmas about sums (a sum depends on the values in its set only; changing one of them changes it by the
difference; it is positive if one is) are proved by induction over the subsets of a finite set
(`SubsetInduction`).

`ErrorTriageProofs` proves for any number of callers:

| Theorem | Says |
|---|---|
| `IssueTypeCorrect` | `IssueSpec => []IssueTypeOK` |
| `OneTicketEver` | `IssueSpec => []OneTicket` |
| `SameTicketEver` | `IssueSpec => []SameTicket` |

*Argument.* `LockInv`: a caller past `LockIssue` and before its end holds the advisory lock.
`NoLinkBehindRecheck`: behind its second look there is no link, since only a holder of the lock
records one. So at most one caller has a ticket that is not linked yet, and `Accounted` bounds the
number of tickets in Jira: lost ones, and one more, which is linked or in the hands of that caller.

And for any number of uploads, sweeps and callers, any auto-close window and any bounds:

| Theorem | Says |
|---|---|
| `TriageTypeCorrect` | `TriageSpec => []TriageTypeOK` |
| `FixCountedOnce` | `TriageSpec => []CountedOncePerFix` |
| `HumanStateStays` | `TriageSpec => HumanStateKept` |
| `ComebackSeen` | `TriageSpec => ComebackVisible` |
| `TriageKeepsOneTicket` | `TriageSpec => [](OneTicket /\ SameTicket)` |
| `UndisturbedInStep` | `LinkKey = "error"`: `TriageSpec => []InStepUndisturbed` |

*Argument.* `TriageInv` adds three facts to the types. `HolderInv`: an upload that holds the row has
found the group fixed, and as long as it holds it nobody can change the status, for every other writer
needs the row. `FixInv`: a fixed group has a fix that no recurrence has used, which is why a commit
cannot count one twice. `StaysInv`: an upload that may still count on a fixed group is right, and once
its UPDATE has run it is the one that holds the row, so its commit is the one that regresses the group.
`StatusWritten` says once what the three status writers outside uploads have in common. The tickets
need no new invariant: a step of the triage changes none of their variables, so every step is a step
or a stutter of `IssueNext`. `InStepInv`, for the sync, holds until something disturbs it: all has been
told, or the ticket that was closed is still to be told of, or one sync is on its way to bring the ticket
to the status that the group still has. Its hypothesis is that the ticket is linked under the group's own
fingerprint; under the other key the property is false (`MCErrorTriageAutoCreated`).

`PullRequestProofs` proves for any number of tests, sweeps and uploads:

| Theorem | Says |
|---|---|
| `QuarantineTypeCorrect` | `Spec => []QuarantineTypeOK` |
| `QuarantineStandsUntilItEnds` | `Spec => []QuarantineStands` |
| `SoftensRightly` | `Spec => []SoftenedRightly` |
| `LastUploadShown` | `Spec => []SurfacesOfTheLast` |

*Argument.* For the quarantine, `Standing`: a promised test has a row, and one that has not expired. A sweep
that selected the test earlier, when its row had expired, finds it renewed, or gone and another in its
place, and lifts neither; the other steps that take a row away, or let it expire, end the promise. The ghost
changes with the requests, the evaluation and the clock, never with the sweep. For the gate,
`FlakyCovered` says what the evaluation has achieved before the lookup: the flaky tests are quarantined,
removed since, or still to be inserted, and nothing is left to insert when the lookup comes. `CoverStays`: a row that disappears is in `removed` of every
upload, so what was covered stays so. For the surfaces, `SurfaceInv`: as long as posts neither overlap nor
fail, the last upload is the only one under way, there is one comment at most, and the upload shows as far
as its post has come (`Shown`).

### Releases and reports

`ReleaseSessionsProofs` proves for any number of requests in flight, tests and sessions:

| Theorem | Says |
|---|---|
| `OneSessionInProgress` | `Spec => []OneActiveSession` |
| `DeferralsStayWithFailures` | `Spec => []DeferralsFit` |
| `ExecutedSessionsComplete` | `Spec => []CompletesItself` |
| `RuleSpeaksForAll` | `Spec => []RuleCoversLinkedTests` |

*Argument.* Two invariants. `SessionsInv` always holds: a request works on a session that exists
(`Bound`), any two sessions in progress are one (`OneActive`), and deferrals are on rows
(`DeferralsOnRows`), without which seeding could put a row under a deferral. `GaplessInv` holds until a
gap occurs, and says why reading the latest session is enough: the session in progress is the latest
(`LatestIsActive`); a session that is over, or handed over to its completion, has been executed in full
(`PastExecuted`); a creation leaves out of its scope only tests that are clean in a session that is over
(`ScopeCovers`); so each linked test is, seen from any session, clean in an older one, or has a row in that session,
or is about to be seeded there (`AllTracked`), which a deletion does not disturb, for a deleted test is no
longer linked. The steps are sorted by what they do to the sessions: nothing (`QuietStep`), a
status (`CompletedStep`, `ReopenUpdateStep`), one row (`RowStep`), a whole session; each handler's lemma
shows that it is such a step; a deletion takes one row out of every session (`Without`).

`ReleaseGateProofs` proves for any number of requests:

| Theorem | Says |
|---|---|
| `SignsOffOnFreshRules` | `Spec => []SignOffOnFreshRules` |
| `SignsOffOverNothing` | `Spec => SignOffOverridesNothing` |

*Argument.* `Fresh`: whatever any refresh may still write as met (`Holds`) is something the sign-off
could itself have read since it began, and an item that is checked and that its own refresh will not
write again (`Pending`) was checked by somebody who held it. A step of another request holds only what
it reads, and checks only what it held (`Harmless`); its own steps take an item off the pending ones only by
writing it (`Onward`); `FreshStays` is the step that joins them. For the signature no invariant is needed but the
types: `SignWrites` says that a signature is always a new one, and each step is looked at in turn.

`ReportsProofs` proves for any number of tasks, organisations and reports, days of any length and weeks of
at least two days (the weekly window is a day shorter than the week, and must not be empty):

| Theorem | Says |
|---|---|
| `NeverDoubleFires` | `Spec => []NoDoubleFire` |
| `SentWasReceived` | `Spec => []SentMeansReceived` |
| `DueDaysAreServed` | `HoursPerDay > 1`: `Spec => DueDayServed` |

*Argument.* `OneSweep`: the try-lock admits one sweep, so one batch and one stamp. `Fired`: a delivery of
today that is not lost is stamped, or about to be, or its row is gone, and a report in the batch has had
none; that is what `DueNotSent`, six days being longer than a day, hands to the next selection. `Known`
keeps a report that is created later from inheriting any of it. `Backed`: every stamp, made or pending,
follows an accepted delivery, of this day or of the one whose midnight it crossed. For the days served,
`CalmInv`: a sweep that outlives its hour ends the calm (`Fresh`); during the calm a weekly report is sent
on its day only, so that its last one lies a week back when the next is due (`OnItsDay`); and once an hour
is swept, whatever was due in it is served, in the batch, or still to be looked at (`SweptUp`). Days of one
hour are excluded because the calm that is known of would then be no longer than the window; the code's
have 24.

### Only model-checked

The four liveness properties, `EveryAppendEnds`, `EverythingDelivered`, `EventuallyTerminal` and
`EverythingArrives`: fairness and `ENABLED` are outside the prover's reach, so TLC checks them on the
instances above. The eight properties of the [counterexamples](#counterexamples) are false as they stand.
No module declares a `RECURSIVE` operator. The library's induction theorems take an operator as a
parameter, which no installed backend instantiates; where induction is needed (sums, the first broken row of
a walk, the first occurrence in the history) it is done on a set in place of a predicate, from the
well-foundedness of `<` on the naturals.

## What is not modelled

Accounts, sessions, invitations, SSO, SCIM, organisations and their roles: each request is one or two
statements on one row, the last writer wins, and tokens are cryptography and clocks. The organisation
stream: a snapshot and in-memory fan-out whose only reader is a dashboard that polls again. Normalisers
and parsers (`B/normalizers`): pure translations of formats, which tests on files reach better. The
frontend, which keeps no state of the system. AI analysis, webhooks, e-mail: outgoing calls. Retention of
runs and their artifacts: one DELETE per organisation and then object storage. Of the releases: the
requirements, the notes, the run rule's own conditions, the ticket filed for a failed test. Together these
are most of the repository's lines; what is modelled is where steps of several actors meet.

Also left out: formats, wording, durations and error texts; canonical JSON and SHA-256; HTTP, authentication and row
level security; screenshots, snapshots and videos; runs without a `ci_run_id`, which never merge;
`spec.finished` summaries of reporters that send no tests; the NOTIFY fan-out
between tasks (no run state depends on it). Parts that are CRUD over single statements, pure
translations or outgoing calls without state are listed as not modelled in `PROJECT.json`, with the
reason. `EditTicket`, `EventLost`, `DayPasses`, `TimePasses`, `Crash` of a process and the row changes
of `AuditVerify` stand for the world outside the code.

## Plan

Done, in this order: audit chain and its proofs; export and walk on top of it; live ingest; the
client; tickets and triage and their proofs; uploads and merge; sessions and sign-off of releases;
scheduled reports; quarantine and pull requests; proofs about each of these last three; proofs about the
export, the walk, the merge, the client and live ingest, so that a theorem states every safety property
of the runs.

Next:

1. `OrgStream`: snapshot, subscription, deltas; what a dashboard knows in the end.
2. Composition of `LiveClient` with `LiveIngest`: a batch that comes back and is merged with later events,
   end to end; of
   `ReleaseSessions` with `ReleaseGate`, whose signals it drives.
3. What still holds of live ingest in several tasks when each reporter keeps to one of them, which is
   what a load balancer with sticky sessions would give.

## Working with it

`tlc -config MCAuditExport.cfg MCAuditExport` checks a run (the pairs are in `PROJECT.json`, the longest
takes about two minutes with two workers); `tlapm AuditProofs.tla`, and the same for the other modules
named `…Proofs`, checks the proofs, each in about two minutes, `LiveProofs` in ten to twenty. `map` in `PROJECT.json` names, for every
definition that models code, the lines it stands for; `hazards` lists what is hard to test in this code and which property covers it.
