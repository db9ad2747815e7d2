------------------------------ MODULE RunMerge ------------------------------
(***************************************************************************)
(* One CI run whose shards upload their reports separately: the merge on   *)
(* ci_run_id (run-merge.ts, routes/uploads.ts, routes/runs.ts) beside the  *)
(* live events of the run (routes/live.ts), and the status that a pipeline *)
(* is gated on (run-status.ts).                                            *)
(*                                                                         *)
(* An upload is one transaction: the upsert of the run keeps its row, that *)
(* of a spec keeps the spec's, until it commits; what it writes to tests   *)
(* is shown at its commit, nobody sees it before.  Live events are handled *)
(* one after the other, each statement on its own.  A recompute is a       *)
(* single UPDATE, but its subquery sees what is committed when it starts   *)
(* and its row is written when it is free: two actions.                    *)
(*                                                                         *)
(* A shard reports one spec file, and the titles in a file differ.  The    *)
(* status passed also stands for skipped, which no counter here tells      *)
(* apart; run.aborted is left to LiveIngest.                               *)
(***************************************************************************)
EXTENDS Integers, Sequences, SequencesExt, FiniteSetsExt

CONSTANTS
  Shards,      \* CI jobs that upload a report
  Files,       \* spec files
  Tests,       \* test titles
  FileOf,      \* FileOf[k]: the spec file shard k has run
  Report,      \* Report[k][t]: the final status of test t, or "none"
  EndOf,       \* EndOf[k]: the reporter's clock at the end of shard k
  Events,      \* the live events in the order they are received
  MaxUploads   \* bound on the uploads of a shard, retries included

Statuses == {"passed", "failed", "pending"}

ASSUME ShardAssumption ==
  /\ IsFiniteSet(Files) /\ IsFiniteSet(Tests)
  /\ FileOf \in [Shards -> Files]
  /\ Report \in [Shards -> [Tests -> Statuses \cup {"none"}]]
  /\ EndOf \in [Shards -> Nat \ {0}]
  /\ MaxUploads \in Nat

ASSUME EventAssumption == Events \in Seq([file : Files, test : Tests, to : Statuses])

VARIABLES
  run,      \* the row of runs: there, counts, finished (0 stands for NULL)
  specs,    \* specs[f]: the row of spec file f
  rows,     \* rows[f][t][s]: number of rows of test t with status s in tests
  upload,   \* upload[k]: the transaction of shard k, and how many it has begun
  live,     \* the event the run's chain is at, its next statement, a subquery's result
  past      \* what has happened so far, see Past

vars == <<run, specs, rows, upload, live, past>>

-----------------------------------------------------------------------------
Counts == [Statuses -> Nat]

Zero == [s \in Statuses |-> 0]

\* merged: shards with a committed upload.  clean: those of them whose spec no live
\* event has written since the upload read it, and no later upload.  torn: a live
\* recompute was cut in two, by the commit of an upload or by an error.
Past == [merged : SUBSET Shards, clean : SUBSET Shards, torn : BOOLEAN]

TypeOK ==
  /\ run \in [there : BOOLEAN, counts : Counts, finished : Nat]
  /\ specs \in [Files -> [there : BOOLEAN, counts : Counts]]
  /\ rows \in [Files -> [Tests -> Counts]]
  /\ upload \in [Shards -> [pc : {"idle", "run", "read", "summed"}, inserted : BOOLEAN,
                            seen : SUBSET Tests, counts : Counts, begun : 0 .. MaxUploads]]
  /\ live \in [at : 1 .. Len(Events) + 1, counts : Counts,
               pc : {"spec", "write", "insert", "count", "counted", "sum", "summed"}]
  /\ past \in Past

Init ==
  /\ run = [there |-> FALSE, counts |-> Zero, finished |-> 0]
  /\ specs = [f \in Files |-> [there |-> FALSE, counts |-> Zero]]
  /\ rows = [f \in Files |-> [t \in Tests |-> Zero]]
  /\ upload = [k \in Shards |-> [pc |-> "idle", inserted |-> FALSE, seen |-> {},
                                 counts |-> Zero, begun |-> 0]]
  /\ live = [at |-> 1, pc |-> "spec", counts |-> Zero]
  /\ past = [merged |-> {}, clean |-> {}, torn |-> FALSE]

-----------------------------------------------------------------------------
(* Counting *)

Number(f, t) == rows[f][t]["passed"] + rows[f][t]["failed"] + rows[f][t]["pending"]

\* The subquery of recomputeSpecAndRunStats: COUNT(*) FILTER (WHERE status = s).
CountRows(f) == [s \in Statuses |-> SumFunction([t \in Tests |-> rows[f][t][s]])]

\* The subquery of rollupRunFromSpecs and of recalculateRunStats, on the counts
\* of the specs.
SumSpecs(counts) == [s \in Statuses |-> SumFunction([f \in Files |-> counts[f][s]])]

SpecCounts == [f \in Files |-> specs[f].counts]

\* The stats of the report, of the spec and of the whole upload.
Stats(k) == [s \in Statuses |-> Cardinality({t \in Tests : Report[k][t] = s})]

\* classifyRunStatus
Status ==
  CASE run.counts["failed"] > 0  -> "failed"
    [] run.counts["failed"] = 0 /\ (run.finished = 0 \/ run.counts["pending"] > 0) -> "incomplete"
    [] OTHER -> "passed"

-----------------------------------------------------------------------------
(* Locks *)

\* Mutant of RunFree: the SELECT then INSERT that migration 035 replaced.
RunFreeAlways == TRUE

\* No uncommitted upload has upserted the run.
RunFree == \A k \in Shards : upload[k].pc = "idle"

\* No uncommitted upload has upserted the spec.
SpecFree(f) == \A k \in Shards : FileOf[k] = f => upload[k].pc \notin {"read", "summed"}

-----------------------------------------------------------------------------
(* POST /runs/upload and POST /runs: one transaction *)

\* findOrCreateRun: INSERT ... ON CONFLICT DO UPDATE ... RETURNING xmax = 0.
UpsertRun(k) ==
  /\ upload[k].pc = "idle" /\ upload[k].begun < MaxUploads
  /\ RunFree
  /\ upload' = [upload EXCEPT ![k].pc = "run", ![k].inserted = ~ run.there, ![k].begun = @ + 1]
  /\ UNCHANGED <<run, specs, rows, live, past>>

\* The upsert of the spec, and the SELECT of the rows that the upload will reuse
\* or delete (POST /runs deletes them here).
UpsertSpec(k) ==
  /\ upload[k].pc = "run"
  /\ SpecFree(FileOf[k])
  /\ upload' = [upload EXCEPT ![k].pc = "read",
                              ![k].seen = {t \in Tests : Number(FileOf[k], t) > 0}]
  /\ UNCHANGED <<run, specs, rows, live, past>>

\* Mutant of RunCounts: a merged run is given the counters of the last upload.
RunCountsOfUpload(k) == Stats(k)

\* A run that the upload has inserted got the counters of the upload, a merged
\* one is recalculated from the specs, the upload's own among them.
RunCounts(k) ==
  IF upload[k].inserted THEN Stats(k)
  ELSE SumSpecs([SpecCounts EXCEPT ![FileOf[k]] = Stats(k)])

Recalculate(k) ==
  /\ upload[k].pc = "read"
  /\ upload' = [upload EXCEPT ![k].pc = "summed", ![k].counts = RunCounts(k)]
  /\ UNCHANGED <<run, specs, rows, live, past>>

\* Mutant of Reconciled: rows that the report does not claim are left.
ReconciledKeeping(k, t) ==
  [s \in Statuses |-> IF Report[k][t] = "none" THEN rows[FileOf[k]][t][s]
                      ELSE IF s = Report[k][t] THEN 1 ELSE 0]

\* What the upload leaves of test t: the rows it has read make place for the
\* reported one, a row that came after the SELECT stays.
Reconciled(k, t) ==
  [s \in Statuses |-> (IF s = Report[k][t] THEN 1 ELSE 0)
                      + (IF t \in upload[k].seen THEN 0 ELSE rows[FileOf[k]][t][s])]

\* GREATEST(runs.finished_at, EXCLUDED.finished_at)
Latest(finished, end) == Max({finished, end})

Ended(k) == [upload[k] EXCEPT !.pc = "idle", !.inserted = FALSE, !.seen = {}, !.counts = Zero]

\* Shards whose spec is not file f.
Elsewhere(f) == {k \in Shards : FileOf[k] # f}

\* The commit makes all of it visible.  A second pending row of a test violates the
\* unique index, and the upload has failed.
CommitUpload(k) ==
  LET f == FileOf[k]
  IN  /\ upload[k].pc = "summed"
      /\ \A t \in Tests : Reconciled(k, t)["pending"] <= 1
      /\ run' = [there |-> TRUE, counts |-> upload[k].counts,
                 finished |-> Latest(run.finished, EndOf[k])]
      /\ specs' = [specs EXCEPT ![f] = [there |-> TRUE, counts |-> Stats(k)]]
      /\ rows' = [rows EXCEPT ![f] = [t \in Tests |-> Reconciled(k, t)]]
      /\ upload' = [upload EXCEPT ![k] = Ended(k)]
      /\ past' = [merged |-> past.merged \cup {k},
                  clean |-> (past.clean \cap Elsewhere(f))
                            \cup {j \in {k} : \A t \in Tests \ upload[k].seen : Number(f, t) = 0},
                  torn |-> past.torn \/ live.pc = "summed"
                           \/ (live.pc = "counted" /\ Events[live.at].file = f)]
      /\ UNCHANGED live

RollbackUpload(k) ==
  /\ upload[k].pc # "idle"
  /\ upload' = [upload EXCEPT ![k] = Ended(k)]
  /\ UNCHANGED <<run, specs, rows, live, past>>

-----------------------------------------------------------------------------
(* The live path *)

\* POST /live/start creates the run that the events belong to.
StartLive ==
  /\ ~ run.there /\ RunFree
  /\ run' = [run EXCEPT !.there = TRUE]
  /\ UNCHANGED <<specs, rows, upload, live, past>>

\* The event of the chain and its file, when it is at statement pc.
At(pc) == live.pc = pc /\ live.at \in DOMAIN Events /\ run.there

Event == Events[live.at]

GoTo(pc) == live' = [live EXCEPT !.pc = pc]

NextEvent == live' = [at |-> live.at + 1, pc |-> "spec", counts |-> Zero]

\* The live path writes something of file f.
Written(f) == past' = [past EXCEPT !.clean = @ \cap Elsewhere(f)]

\* findOrCreateSpec
LiveSpec ==
  /\ At("spec") /\ SpecFree(Event.file)
  /\ specs' = [specs EXCEPT ![Event.file].there = TRUE]
  /\ GoTo("write")
  /\ UNCHANGED <<run, rows, upload, past>>

\* upsertPendingTest inserts unless there is a row; the UPDATE of
\* insertLiveTestResult goes over every row of the test.
LiveWrite ==
  /\ At("write")
  /\ LET f == Event.file
         t == Event.test
         n == Number(f, t)
     IN  IF Event.to = "pending"
         THEN IF n > 0 THEN NextEvent /\ UNCHANGED <<rows, past>>
              ELSE /\ rows' = [rows EXCEPT ![f][t]["pending"] = 1]
                   /\ Written(f)
                   /\ GoTo("count")
         ELSE IF n = 0 THEN GoTo("insert") /\ UNCHANGED <<rows, past>>
              ELSE /\ rows' = [rows EXCEPT ![f][t] =
                                 [s \in Statuses |-> IF s = Event.to THEN n ELSE 0]]
                   /\ Written(f)
                   /\ GoTo("count")
  /\ UNCHANGED <<run, specs, upload>>

\* The UPDATE has found no row.
LiveInsert ==
  /\ At("insert")
  /\ rows' = [rows EXCEPT ![Event.file][Event.test][Event.to] = @ + 1]
  /\ Written(Event.file)
  /\ GoTo("count")
  /\ UNCHANGED <<run, specs, upload>>

\* recomputeSpecAndRunStats: the subquery, then the row of the spec.
LiveCount ==
  /\ At("count")
  /\ live' = [live EXCEPT !.pc = "counted", !.counts = CountRows(Event.file)]
  /\ UNCHANGED <<run, specs, rows, upload, past>>

LiveSetSpec ==
  /\ At("counted") /\ SpecFree(Event.file)
  /\ specs' = [specs EXCEPT ![Event.file].counts = live.counts]
  /\ Written(Event.file)
  /\ GoTo("sum")
  /\ UNCHANGED <<run, rows, upload>>

\* rollupRunFromSpecs: the subquery, then the row of the run.
LiveSum ==
  /\ At("sum")
  /\ live' = [live EXCEPT !.pc = "summed", !.counts = SumSpecs(SpecCounts)]
  /\ UNCHANGED <<run, specs, rows, upload, past>>

LiveSetRun ==
  /\ At("summed") /\ RunFree
  /\ run' = [run EXCEPT !.counts = live.counts]
  /\ NextEvent
  /\ UNCHANGED <<specs, rows, upload, past>>

\* A statement fails: it is logged, and the chain goes on with the next event.
LiveFails ==
  /\ At(live.pc)
  /\ NextEvent
  /\ past' = [past EXCEPT !.torn = @ \/ live.pc \in {"count", "counted", "sum", "summed"}]
  /\ UNCHANGED <<run, specs, rows, upload>>

UploadStep(k) ==
  \/ UpsertRun(k) \/ UpsertSpec(k) \/ Recalculate(k) \/ CommitUpload(k) \/ RollbackUpload(k)

LiveStep ==
  \/ StartLive \/ LiveSpec \/ LiveWrite \/ LiveInsert \/ LiveCount \/ LiveSetSpec
  \/ LiveSum \/ LiveSetRun \/ LiveFails

Next == LiveStep \/ \E k \in Shards : UploadStep(k)

Spec == Init /\ [][Next]_vars

-----------------------------------------------------------------------------
(* Properties *)

\* "A merged run's row stays internally consistent": in whatever order the
\* shards merge, and whatever is rolled back, the run's counters are the sums of
\* the specs' and the specs' are those of the rows, unless a live recompute is
\* under way or was torn.
CountersAgree ==
  live.pc = "spec" /\ ~ past.torn =>
    /\ \A f \in Files : specs[f].counts = CountRows(f)
    /\ run.counts = SumSpecs(SpecCounts)

\* "This upload is the authoritative stats snapshot": a merged report is what the
\* run shows, with one row per test, however often it is uploaded and whatever
\* other shards upload, until something else writes that spec.
ReportKept ==
  \A k \in past.clean :
    /\ specs[FileOf[k]].counts = Stats(k)
    /\ \A t \in Tests : rows[FileOf[k]][t] = [s \in Statuses |-> IF s = Report[k][t] THEN 1 ELSE 0]

\* The gate never hides a failure that a shard has reported, not even while live
\* events of other specs are being counted.
FailureShows ==
  \A k \in past.clean : ~ past.torn /\ Stats(k)["failed"] > 0 => Status = "failed"

\* GET /runs/status "won't flip to passed until every shard has reported".
PassedWhenAllReported == Status = "passed" => past.merged = Shards

=============================================================================
