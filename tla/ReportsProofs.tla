--------------------------- MODULE ReportsProofs ---------------------------
(***************************************************************************)
(* What Reports promises of a day, proved for any number of tasks,         *)
(* organisations and reports, and weeks and days of any length.            *)
(***************************************************************************)
EXTENDS Reports, TLAPS

LiveRow == [row : {"live"}, cadence : Cadences, dow : Days \cup {NoDay}, hour : Hours, active : BOOLEAN]
Busy == [pc : {"sweep", "stamp"}, hour : Hours, dow : Days, orgs : SUBSET Orgs,
         batch : SUBSET Reports, report : Reports \cup {None}]
Request == [pc : {"idle"}] \cup [pc : {"deliver", "stamp"}, report : Reports]

ReportTypes ==
  /\ clock \in [dow : Days, hour : Hours]
  /\ report \in [Reports -> {Unused, Gone} \cup LiveRow]
  /\ age \in [Reports -> 0..Never]
  /\ task \in [Tasks -> {Idle} \cup Busy]
  /\ manual \in Request
  /\ fires \in [Reports -> 0..2]

\* The advisory lock: one sweep at a time.
OneSweep == \A t, u \in Tasks : Running(t) /\ Running(u) => t = u

Stamping(r) == \E t \in Tasks : task[t].pc = "stamp" /\ task[t].report = r
Batched(r) == \E t \in Tasks : Running(t) /\ r \in task[t].batch

\* A report the schedule has something to do with has been created.
Known(r) == fires[r] > 0 \/ Batched(r) \/ Stamping(r) => report[r] # Unused

\* A delivery of today that is not lost is stamped, or about to be, or its row is gone;
\* and a report that is going to be delivered has none.
Fired(r) ==
  r \notin lost =>
    /\ fires[r] <= 1
    /\ fires[r] > 0 => SentToday(r) \/ Stamping(r) \/ report[r] = Gone
    /\ Batched(r) => fires[r] = 0

\* A stamp, made or pending, follows a delivery that was accepted, today or before
\* the last midnight.
Backed(r) ==
  SentToday(r) \/ Stamping(r) \/ manual = [pc |-> "stamp", report |-> r] => r \in received \cup crossed

ReportsInv ==
  /\ ReportTypes
  /\ \A t \in Tasks : task[t].pc = "stamp" => task[t].report \in Reports
  /\ OneSweep
  /\ \A r \in Reports : Known(r) /\ Fired(r) /\ Backed(r)

-----------------------------------------------------------------------------
\* Six days are longer than a day: whatever a sweep selects has not been sent today.
LEMMA DueNotSent ==
  ASSUME ReportTypes, NEW r \in Reports, NEW s, NEW late, Due(s, r, late)
  PROVE  ~SentToday(r) /\ Exists(r)
<1>. USE ReportsAssumption
<1>1. Window \in Nat /\ HoursPerDay <= Window
  <2>1. ASSUME NEW d \in Nat, NEW h \in Nat
        PROVE  (d + 1) * h = d * h + h /\ d * h \in Nat
    OBVIOUS
  <2>2. DaysPerWeek - 2 \in Nat /\ DaysPerWeek - 1 = (DaysPerWeek - 2) + 1
    OBVIOUS
  <2>3. ((DaysPerWeek - 2) + 1) * HoursPerDay = (DaysPerWeek - 2) * HoursPerDay + HoursPerDay
        /\ (DaysPerWeek - 2) * HoursPerDay \in Nat
    BY <2>1, <2>2
  <2>. QED BY <2>2, <2>3 DEF Window
<1>2. clock.hour \in Nat /\ clock.hour < HoursPerDay /\ age[r] \in Nat
  <2>1. Never \in Nat
    BY DEF Never, Week
  <2>. QED BY <2>1 DEF ReportTypes, Hours
<1>3. WeeklyNotSentThisWeek(r, late) => ~SentToday(r)
  BY <1>1, <1>2 DEF WeeklyNotSentThisWeek, SentToday
<1>. QED BY <1>3 DEF Due, DailyNotSentToday

\* The numbers of the week.
LEMMA WeekNumbers ==
  /\ Never \in Nat /\ Never > HoursPerDay /\ 0 \in 0..Never
  /\ \A a \in 0..Never : /\ AtMost(a + 1, Never) \in 0..Never
                         /\ AtMost(a + 1, Never) >= 1
                         /\ \A h \in Hours : a <= h => AtMost(a + 1, Never) <= h + 1
<1>. USE ReportsAssumption
<1>1. Never \in Nat /\ Never > HoursPerDay
  <2>1. ASSUME NEW d \in Nat, NEW h \in Nat
        PROVE  (d + 1) * h = d * h + h /\ d * h \in Nat
    OBVIOUS
  <2>2. DaysPerWeek - 1 \in Nat /\ DaysPerWeek = (DaysPerWeek - 1) + 1
    OBVIOUS
  <2>3. DaysPerWeek * HoursPerDay = (DaysPerWeek - 1) * HoursPerDay + HoursPerDay
        /\ (DaysPerWeek - 1) * HoursPerDay \in Nat
    BY <2>1, <2>2
  <2>. QED BY <2>3 DEF Never, Week
<1>2. ASSUME NEW n \in Nat, NEW a \in 0..n, n > 0
      PROVE  /\ AtMost(a + 1, n) \in 0..n /\ AtMost(a + 1, n) >= 1
             /\ \A h \in Nat : a <= h => AtMost(a + 1, n) <= h + 1
  BY <1>2 DEF AtMost
<1>3. Hours \subseteq Nat
  BY DEF Hours
<1>. QED BY <1>1, <1>2, <1>3

\* The rows never look alike.
LEMMA RowKinds ==
  /\ Unused # Gone
  /\ \A x \in LiveRow : x # Unused /\ x # Gone
  /\ \A x \in {Unused, Gone} \cup LiveRow : x.row = "live" <=> x \in LiveRow
<1>1. Unused.row = "unused" /\ Gone.row = "deleted" /\ \A x \in LiveRow : x.row = "live"
  BY DEF Unused, Gone, LiveRow
<1>. QED BY <1>1

\* Steps that touch neither the deliveries nor the stamps nor the clock.
LEMMA RestStep ==
  ASSUME ReportsInv, ReportTypes', UNCHANGED <<clock, age, task, manual, fires, lost, received, crossed>>,
         \A r \in Reports : report[r] # Unused => report'[r] # Unused,
         \A r \in Reports : report[r] = Gone => report'[r] = Gone
  PROVE  ReportsInv'
BY DEF ReportsInv, OneSweep, Running, Known, Fired, Backed, Stamping, Batched, SentToday

-----------------------------------------------------------------------------
(* The sweep.                                                              *)

\* While a task sweeps, what is batched or stamping is so in it.
LEMMA Alone ==
  ASSUME ReportsInv, NEW t \in Tasks, \A u \in Tasks \ {t} : ~Running(u),
         \E s \in {Idle} \cup Busy : Goto(t, s)
  PROVE  /\ task' \in [Tasks -> {Idle} \cup Busy]
         /\ OneSweep'
         /\ \A r : /\ Stamping(r) <=> task[t].pc = "stamp" /\ task[t].report = r
                   /\ Batched(r) <=> task[t].pc # "idle" /\ r \in task[t].batch
                   /\ Stamping(r)' <=> task'[t].pc = "stamp" /\ task'[t].report = r
                   /\ Batched(r)' <=> task'[t].pc # "idle" /\ r \in task'[t].batch
<1>1. PICK s \in {Idle} \cup Busy : task' = [task EXCEPT ![t] = s]
  BY DEF Goto
<1>2. /\ task' \in [Tasks -> {Idle} \cup Busy] /\ task'[t] = s
      /\ \A u \in Tasks \ {t} : task'[u] = task[u] /\ task[u].pc = "idle"
  BY <1>1 DEF ReportsInv, ReportTypes, Running
<1>. QED BY <1>2 DEF OneSweep, Running, Stamping, Batched

\* The lock is free, and the batch of a sweep begins empty.
LEMMA StartSweepStep ==
  ASSUME ReportsInv, NEW t \in Tasks, StartSweep(t)
  PROVE  ReportsInv'
<1>1. Sweeping \in Busy /\ Sweeping.pc = "sweep" /\ Sweeping.batch = {}
  BY DEF ReportsInv, ReportTypes, Sweeping, Busy
<1>2. task'[t] = Sweeping /\ task[t].pc = "idle"
  BY DEF StartSweep, Goto, ReportsInv, ReportTypes, Running
<1>3. \A u \in Tasks \ {t} : ~Running(u)
  BY DEF StartSweep
<1>4. /\ task' \in [Tasks -> {Idle} \cup Busy] /\ OneSweep'
      /\ \A r : ~Stamping(r) /\ ~Batched(r) /\ ~Stamping(r)' /\ ~Batched(r)'
  <2>1. \E s \in {Idle} \cup Busy : Goto(t, s)
    BY <1>1 DEF StartSweep
  <2>. QED BY <1>1, <1>2, <1>3, <2>1, Alone
<1>5. UNCHANGED <<clock, report, age, manual, fires, lost, received, crossed>>
  BY DEF StartSweep, rows
<1>6. \A u \in Tasks : task'[u].pc # "stamp"
  BY <1>1, <1>2, <1>3 DEF StartSweep, Goto, ReportsInv, ReportTypes, Running
<1>. QED BY <1>4, <1>5, <1>6 DEF ReportsInv, ReportTypes, Known, Fired, Backed, SentToday

\* What is selected exists and has not been sent today.
LEMMA SelectDueStep ==
  ASSUME ReportsInv, NEW t \in Tasks, NEW o \in Orgs, NEW late, SelectDue(t, o, late)
  PROVE  ReportsInv'
<1>. DEFINE due == {r \in o : Due(task[t], r, late)}
<1>1. /\ task' = [task EXCEPT ![t] = [task[t] EXCEPT !.orgs = @ \ {o}, !.batch = due]]
      /\ task[t] \in Busy /\ task[t].pc = "sweep" /\ task[t].batch = {}
      /\ UNCHANGED <<clock, report, age, manual, fires, lost, received, crossed>>
  BY DEF SelectDue, Goto, ReportsInv, ReportTypes, Idle, Busy, rows, ghosts
<1>2. due \in SUBSET Reports
  BY DEF Reports
<1>3. \A r \in due : ~SentToday(r) /\ Exists(r)
  BY <1>2, DueNotSent DEF ReportsInv
<1>. HIDE DEF due
<1>4. /\ task'[t] \in Busy /\ task'[t].pc = "sweep" /\ task'[t].batch = due
      /\ Goto(t, task'[t])
  BY <1>1, <1>2 DEF ReportsInv, ReportTypes, Busy, Goto
<1>5. \A u \in Tasks \ {t} : ~Running(u) /\ task'[u] = task[u]
  BY <1>1 DEF ReportsInv, ReportTypes, OneSweep, Running
<1>6. /\ task' \in [Tasks -> {Idle} \cup Busy] /\ OneSweep'
      /\ \A r : ~Stamping(r) /\ ~Batched(r) /\ ~Stamping(r)' /\ (Batched(r)' <=> r \in due)
  BY <1>1, <1>4, <1>5, Alone
<1>7. \A u \in Tasks : task'[u].pc # "stamp"
  BY <1>4, <1>5 DEF ReportsInv, ReportTypes, Running
<1>8. ASSUME NEW r \in Reports
      PROVE  Known(r)' /\ Fired(r)' /\ Backed(r)'
  <2>1. r \in due => report[r] # Unused /\ report[r] # Gone
    BY <1>3, RowKinds DEF Exists, ReportsInv, ReportTypes
  <2>2. Known(r)'
    BY <1>1, <1>6, <2>1 DEF ReportsInv, Known
  <2>3. Fired(r)'
    BY <1>1, <1>3, <1>6, <2>1 DEF ReportsInv, ReportTypes, Fired, SentToday
  <2>. QED BY <1>1, <1>6, <2>2, <2>3 DEF ReportsInv, Backed, SentToday
<1>. QED BY <1>1, <1>6, <1>7, <1>8 DEF ReportsInv, ReportTypes

\* A delivery is the first of the day, unless an earlier one is lost.
LEMMA DeliverStep ==
  ASSUME ReportsInv, NEW t \in Tasks, NEW r \in Reports, NEW outcome \in Outcomes, Deliver(t, r, outcome)
  PROVE  ReportsInv'
<1>1. /\ task' = [task EXCEPT ![t] =
                    [task[t] EXCEPT !.pc = IF outcome = "ok" THEN "stamp" ELSE "sweep",
                                    !.batch = @ \ {r}, !.report = IF outcome = "ok" THEN r ELSE None]]
      /\ task[t] \in Busy /\ task[t].pc = "sweep" /\ r \in task[t].batch
      /\ UNCHANGED <<clock, report, age, manual, crossed>>
  BY DEF Deliver, Resolved, Goto, ReportsInv, ReportTypes, Idle, Busy, rows
<1>2. /\ fires' = IF outcome # "refused" THEN [fires EXCEPT ![r] = AtMost(@ + 1, 2)] ELSE fires
      /\ received' = IF outcome # "refused" THEN received \cup {r} ELSE received
      /\ lost' = IF outcome = "unanswered" THEN lost \cup {r} ELSE lost
  BY DEF Deliver, Accepted
<1>3. /\ task'[t] \in Busy /\ task'[t].pc = IF outcome = "ok" THEN "stamp" ELSE "sweep"
      /\ task'[t].batch = task[t].batch \ {r}
      /\ task'[t].report = IF outcome = "ok" THEN r ELSE None
      /\ Goto(t, task'[t])
  BY <1>1 DEF ReportsInv, ReportTypes, Busy, Goto
<1>4. \A u \in Tasks \ {t} : ~Running(u) /\ task'[u] = task[u]
  BY <1>1 DEF ReportsInv, ReportTypes, OneSweep, Running
<1>5. /\ task' \in [Tasks -> {Idle} \cup Busy] /\ OneSweep'
      /\ \A q : /\ ~Stamping(q) /\ (Batched(q) <=> q \in task[t].batch)
                /\ Stamping(q)' <=> outcome = "ok" /\ q = r
                /\ Batched(q)' <=> q \in task[t].batch \ {r}
  BY <1>1, <1>3, <1>4, Alone
<1>6. \A u \in Tasks : task'[u].pc = "stamp" => task'[u].report \in Reports
  BY <1>3, <1>4 DEF ReportsInv, ReportTypes, Running
<1>7. fires' \in [Reports -> 0..2]
  BY <1>2 DEF ReportsInv, ReportTypes, AtMost
<1>8. ASSUME NEW q \in Reports \ {r}
      PROVE  Known(q)' /\ Fired(q)' /\ Backed(q)'
  <2>1. /\ fires'[q] = fires[q] /\ (q \in lost' <=> q \in lost) /\ (q \in received' <=> q \in received)
        /\ (Stamping(q)' <=> Stamping(q)) /\ (Batched(q)' <=> Batched(q))
    BY <1>2, <1>5 DEF ReportsInv, ReportTypes
  <2>. QED BY <1>1, <2>1 DEF ReportsInv, Known, Fired, Backed, SentToday
<1>9. Known(r)' /\ Fired(r)' /\ Backed(r)'
  <2>1. /\ Batched(r) /\ ~Batched(r)' /\ (Stamping(r)' <=> outcome = "ok")
        /\ fires'[r] = IF outcome # "refused" THEN AtMost(fires[r] + 1, 2) ELSE fires[r]
    BY <1>1, <1>2, <1>5 DEF ReportsInv, ReportTypes
  <2>2. Known(r)'
    BY <1>1, <2>1 DEF ReportsInv, Known
  <2>3. Fired(r)'
    <3>1. r \notin lost => fires[r] = 0
      BY <2>1 DEF ReportsInv, Fired
    <3>2. outcome # "ok" /\ outcome # "refused" => r \in lost'
      BY <1>2 DEF Outcomes
    <3>. QED BY <1>2, <2>1, <3>1, <3>2 DEF Fired, AtMost
  <2>4. Backed(r)'
    BY <1>1, <1>2, <2>1 DEF ReportsInv, Backed, SentToday
  <2>. QED BY <2>2, <2>3, <2>4
<1>. QED BY <1>1, <1>5, <1>6, <1>7, <1>8, <1>9 DEF ReportsInv, ReportTypes

\* A stamp makes the delivery count, or the delivery is lost, or there is no row.
LEMMA StampStep ==
  ASSUME ReportsInv, NEW t \in Tasks, NEW fails \in BOOLEAN, Stamp(t, fails)
  PROVE  ReportsInv'
<1>0. PICK r \in Reports : r = task[t].report
  BY DEF Stamp, ReportsInv
<1>1. /\ task' = [task EXCEPT ![t] = [task[t] EXCEPT !.pc = "sweep", !.report = None]]
      /\ task[t] \in Busy /\ task[t].pc = "stamp"
      /\ UNCHANGED <<clock, report, manual, fires, received, crossed>>
  BY <1>0 DEF Stamp, Goto, ReportsInv, ReportTypes, Idle, Busy
<1>2. /\ age' = IF fails \/ ~Exists(r) THEN age ELSE [age EXCEPT ![r] = 0]
      /\ lost' = IF fails THEN lost \cup {r} ELSE lost
  BY <1>0 DEF Stamp
<1>3. /\ task'[t] \in Busy /\ task'[t].pc = "sweep" /\ task'[t].batch = task[t].batch
      /\ Goto(t, task'[t])
  BY <1>1 DEF ReportsInv, ReportTypes, Busy, Goto
<1>4. \A u \in Tasks \ {t} : ~Running(u) /\ task'[u] = task[u]
  BY <1>1 DEF ReportsInv, ReportTypes, OneSweep, Running
<1>5. /\ task' \in [Tasks -> {Idle} \cup Busy] /\ OneSweep'
      /\ \A q : /\ Stamping(q) <=> q = r
                /\ ~Stamping(q)' /\ (Batched(q)' <=> Batched(q))
  BY <1>0, <1>1, <1>3, <1>4, Alone
<1>6. \A u \in Tasks : task'[u].pc # "stamp"
  BY <1>3, <1>4 DEF ReportsInv, ReportTypes, Running
<1>7. age' \in [Reports -> 0..Never] /\ clock.hour \in Nat
  BY <1>2, WeekNumbers, ReportsAssumption DEF ReportsInv, ReportTypes, Hours
<1>8. ASSUME NEW q \in Reports \ {r}
      PROVE  Known(q)' /\ Fired(q)' /\ Backed(q)'
  <2>1. /\ age'[q] = age[q] /\ (q \in lost' <=> q \in lost)
        /\ (Stamping(q)' <=> Stamping(q)) /\ (Batched(q)' <=> Batched(q))
    BY <1>2, <1>5 DEF ReportsInv, ReportTypes
  <2>. QED BY <1>1, <2>1 DEF ReportsInv, Known, Fired, Backed, SentToday
<1>9. Known(r)' /\ Fired(r)' /\ Backed(r)'
  <2>1. Stamping(r) /\ ~Stamping(r)' /\ (Batched(r)' <=> Batched(r))
    BY <1>5
  <2>2. Known(r)' /\ Backed(r)'
    BY <1>1, <2>1 DEF ReportsInv, Known, Backed
  <2>3. fails \/ SentToday(r)' \/ report[r] = Gone
    <3>1. ~Exists(r) => report[r] = Gone
      BY <1>1, <2>1, RowKinds DEF ReportsInv, ReportTypes, Known, Exists, LiveRow
    <3>2. ~fails /\ Exists(r) => age'[r] = 0
      BY <1>1, <1>2 DEF ReportsInv, ReportTypes
    <3>. QED BY <1>1, <1>7, <3>1, <3>2 DEF SentToday
  <2>4. Fired(r)'
    BY <1>1, <1>2, <2>1, <2>3 DEF ReportsInv, Fired
  <2>. QED BY <2>2, <2>4
<1>. QED BY <1>1, <1>5, <1>6, <1>7, <1>8, <1>9 DEF ReportsInv, ReportTypes

\* A sweep that ends has nothing in hand; one that dies loses what it would stamp.
LEMMA EndStep ==
  ASSUME ReportsInv, NEW t \in Tasks, EndSweep(t) \/ Crash(t)
  PROVE  ReportsInv'
<1>1. /\ Goto(t, Idle) /\ task' = [task EXCEPT ![t] = Idle] /\ Running(t)
      /\ task[t].pc = "stamp" => lost' = lost \cup {task[t].report}
      /\ task[t].pc # "stamp" => lost' = lost
      /\ UNCHANGED <<clock, report, age, manual, fires, received, crossed>>
  BY DEF EndSweep, Crash, Goto, Running, rows, ghosts
<1>2. \A u \in Tasks \ {t} : ~Running(u) /\ task'[u] = task[u]
  BY <1>1 DEF ReportsInv, ReportTypes, OneSweep
<1>3. task'[t] = Idle /\ Idle.pc = "idle"
  BY <1>1 DEF ReportsInv, ReportTypes, Idle
<1>4. /\ task' \in [Tasks -> {Idle} \cup Busy] /\ OneSweep'
      /\ \A q : /\ Stamping(q) <=> task[t].pc = "stamp" /\ task[t].report = q
                /\ ~Stamping(q)' /\ ~Batched(q)'
  BY <1>1, <1>2, <1>3, Alone
<1>5. \A u \in Tasks : task'[u].pc # "stamp"
  BY <1>2, <1>3 DEF Running
<1>6. ASSUME NEW q \in Reports
      PROVE  Known(q)' /\ Fired(q)' /\ Backed(q)'
  <2>1. Stamping(q) => q \in lost'
    BY <1>1, <1>4
  <2>2. q \notin lost' => q \notin lost
    BY <1>1
  <2>. QED BY <1>1, <1>4, <2>1, <2>2 DEF ReportsInv, Known, Fired, Backed, SentToday
<1>. QED BY <1>1, <1>4, <1>5, <1>6 DEF ReportsInv, ReportTypes

-----------------------------------------------------------------------------
(* The other steps.                                                        *)

\* A new row is of its type, and a changed one too.
LEMMA EditStep ==
  ASSUME ReportsInv,
         \/ \E r \in Reports : PatchReport(r) \/ DeleteReport(r)
         \/ \E r \in Reports, c \in Cadences, d \in Days \cup {NoDay}, h \in Hours : CreateReport(r, c, d, h)
  PROVE  ReportsInv'
<1>1. UNCHANGED <<clock, age, task, manual, fires, lost, received, crossed>>
  BY DEF PatchReport, DeleteReport, CreateReport, ghosts
<1>2. ASSUME NEW r \in Reports, NEW x \in {Gone} \cup LiveRow, report' = [report EXCEPT ![r] = x],
             report[r] # Gone
      PROVE  ReportsInv'
  <2>1. report' \in [Reports -> {Unused, Gone} \cup LiveRow]
    BY <1>2 DEF ReportsInv, ReportTypes
  <2>2. ReportTypes'
    BY <1>1, <2>1 DEF ReportsInv, ReportTypes
  <2>3. \A q \in Reports : /\ report[q] # Unused => report'[q] # Unused
                           /\ report[q] = Gone => report'[q] = Gone
    BY <1>2, RowKinds DEF ReportsInv, ReportTypes
  <2>. QED BY <1>1, <2>2, <2>3, RestStep
<1>3. ASSUME NEW r \in Reports, PatchReport(r)
      PROVE  ReportsInv'
  <2>1. report[r] \in LiveRow /\ report[r] # Gone
    BY <1>3, RowKinds DEF PatchReport, Exists, ReportsInv, ReportTypes
  <2>2. \E x \in LiveRow : report' = [report EXCEPT ![r] = x]
    <3>1. ASSUME NEW c \in Cadences, report' = [report EXCEPT ![r].cadence = c]
          PROVE  \E x \in LiveRow : report' = [report EXCEPT ![r] = x]
      <4>1. [report[r] EXCEPT !.cadence = c] \in LiveRow
        BY <2>1 DEF LiveRow
      <4>. QED BY <3>1, <4>1
    <3>2. ASSUME NEW d \in Days \cup {NoDay}, report' = [report EXCEPT ![r].dow = d]
          PROVE  \E x \in LiveRow : report' = [report EXCEPT ![r] = x]
      <4>1. [report[r] EXCEPT !.dow = d] \in LiveRow
        BY <2>1 DEF LiveRow
      <4>. QED BY <3>2, <4>1
    <3>3. ASSUME NEW h \in Hours, report' = [report EXCEPT ![r].hour = h]
          PROVE  \E x \in LiveRow : report' = [report EXCEPT ![r] = x]
      <4>1. [report[r] EXCEPT !.hour = h] \in LiveRow
        BY <2>1 DEF LiveRow
      <4>. QED BY <3>3, <4>1
    <3>4. ASSUME NEW a \in BOOLEAN, report' = [report EXCEPT ![r].active = a]
          PROVE  \E x \in LiveRow : report' = [report EXCEPT ![r] = x]
      <4>1. [report[r] EXCEPT !.active = a] \in LiveRow
        BY <2>1 DEF LiveRow
      <4>. QED BY <3>4, <4>1
    <3>. QED BY <1>3, <3>1, <3>2, <3>3, <3>4 DEF PatchReport
  <2>. QED BY <1>2, <2>1, <2>2
<1>4. ASSUME NEW r \in Reports, DeleteReport(r)
      PROVE  ReportsInv'
  <2>1. report[r] # Gone
    BY <1>4, RowKinds DEF DeleteReport, Exists, ReportsInv, ReportTypes
  <2>. QED BY <1>2, <1>4, <2>1 DEF DeleteReport
<1>5. ASSUME NEW r \in Reports, NEW c \in Cadences, NEW d \in Days \cup {NoDay}, NEW h \in Hours,
             CreateReport(r, c, d, h)
      PROVE  ReportsInv'
  <2>1. Row(c, d, h, TRUE) \in LiveRow
    BY DEF Row, LiveRow
  <2>. QED BY <1>2, <1>5, <2>1, RowKinds DEF CreateReport
<1>. QED BY <1>3, <1>4, <1>5

\* A manual send touches the age of its report and what has been received.
LEMMA ManualStep ==
  ASSUME ReportsInv,
         \/ \E r \in Reports : RunNow(r)
         \/ \E outcome \in Outcomes : DeliverNow(outcome)
         \/ \E fails \in BOOLEAN : StampNow(fails)
  PROVE  ReportsInv'
<1>1. UNCHANGED <<clock, report, task, fires, lost, crossed>>
  BY DEF RunNow, DeliverNow, StampNow, rows
<1>2. \A r : (Stamping(r)' <=> Stamping(r)) /\ (Batched(r)' <=> Batched(r))
  BY <1>1 DEF Stamping, Batched, Running
<1>3. OneSweep' /\ \A u \in Tasks : task'[u].pc = "stamp" => task'[u].report \in Reports
  BY <1>1 DEF ReportsInv, OneSweep, Running
<1>4. ASSUME NEW r \in Reports, RunNow(r)
      PROVE  ReportsInv'
  <2>1. manual' = [pc |-> "deliver", report |-> r] /\ UNCHANGED <<age, received>>
    BY <1>4 DEF RunNow, rows
  <2>2. manual' \in Request /\ \A q : manual' # [pc |-> "stamp", report |-> q]
    BY <2>1 DEF Request
  <2>. QED BY <1>1, <1>2, <1>3, <2>1, <2>2 DEF ReportsInv, ReportTypes, Known, Fired, Backed, SentToday
<1>5. ASSUME NEW outcome \in Outcomes, DeliverNow(outcome)
      PROVE  ReportsInv'
  <2>1. PICK r \in Reports : manual = [pc |-> "deliver", report |-> r]
    BY <1>5 DEF DeliverNow, ReportsInv, ReportTypes, Request
  <2>2. /\ manual' = IF outcome = "ok" THEN [pc |-> "stamp", report |-> r] ELSE [pc |-> "idle"]
        /\ received' = IF outcome # "refused" THEN received \cup {r} ELSE received
        /\ UNCHANGED age
    BY <1>5, <2>1 DEF DeliverNow, Resolved, Accepted, Idle, rows
  <2>3. manual' \in Request /\ \A q : manual' = [pc |-> "stamp", report |-> q] => q = r /\ outcome = "ok"
    <3>1. \A q : [pc |-> "stamp", report |-> r] = [pc |-> "stamp", report |-> q] => q = r
      OBVIOUS
    <3>. QED BY <2>2, <3>1 DEF Request
  <2>4. \A q \in Reports : Backed(q)'
    BY <1>1, <1>2, <2>2, <2>3 DEF ReportsInv, Backed, SentToday
  <2>. QED BY <1>1, <1>2, <1>3, <2>2, <2>3, <2>4 DEF ReportsInv, ReportTypes, Known, Fired, SentToday
<1>6. ASSUME NEW fails \in BOOLEAN, StampNow(fails)
      PROVE  ReportsInv'
  <2>1. PICK r \in Reports : manual = [pc |-> "stamp", report |-> r]
    BY <1>6 DEF StampNow, ReportsInv, ReportTypes, Request
  <2>2. /\ manual' = [pc |-> "idle"] /\ UNCHANGED received
        /\ age' = IF fails \/ ~Exists(r) THEN age ELSE [age EXCEPT ![r] = 0]
    BY <1>6, <2>1 DEF StampNow, Idle
  <2>3. manual' \in Request /\ \A q : manual' # [pc |-> "stamp", report |-> q]
    BY <2>2 DEF Request
  <2>4. age' \in [Reports -> 0..Never] /\ clock.hour \in Nat
    BY <2>2, WeekNumbers, ReportsAssumption DEF ReportsInv, ReportTypes, Hours
  <2>5. \A q \in Reports : /\ SentToday(q) => SentToday(q)'
                           /\ SentToday(q)' => SentToday(q) \/ q = r
    BY <1>1, <2>2, <2>4 DEF ReportsInv, ReportTypes, SentToday
  <2>6. \A q \in Reports : Backed(q)'
    BY <1>1, <1>2, <2>1, <2>2, <2>3, <2>5 DEF ReportsInv, Backed
  <2>7. \A q \in Reports : Known(q)' /\ Fired(q)'
    BY <1>1, <1>2, <2>5 DEF ReportsInv, Known, Fired
  <2>. QED BY <1>1, <1>3, <2>3, <2>4, <2>6, <2>7 DEF ReportsInv, ReportTypes
<1>. QED BY <1>4, <1>5, <1>6

\* An hour passes: within a day what was sent today stays so; at midnight nothing is.
LEMMA TickStep ==
  ASSUME ReportsInv, Tick
  PROVE  ReportsInv'
<1>. USE ReportsAssumption
<1>1. UNCHANGED <<report, task, manual>> /\ age' = [r \in Reports |-> AtMost(age[r] + 1, Never)]
  BY DEF Tick
<1>2. \A r : (Stamping(r)' <=> Stamping(r)) /\ (Batched(r)' <=> Batched(r))
  BY <1>1 DEF Stamping, Batched, Running
<1>3. OneSweep' /\ \A u \in Tasks : task'[u].pc = "stamp" => task'[u].report \in Reports
  BY <1>1 DEF ReportsInv, OneSweep, Running
<1>4. age' \in [Reports -> 0..Never] /\ clock.hour \in Hours /\ clock.dow \in Days
  BY <1>1, WeekNumbers DEF ReportsInv, ReportTypes
<1>5. CASE Midnight
  <2>1. /\ clock' = [dow |-> (clock.dow + 1) % DaysPerWeek, hour |-> 0]
        /\ fires' = [r \in Reports |-> 0] /\ lost' = {} /\ received' = {}
        /\ crossed' = {r \in Reports : Stamping(r) \/ manual = [pc |-> "stamp", report |-> r]}
    BY <1>5 DEF Tick, Stamping
  <2>2. clock' \in [dow : Days, hour : Hours]
    BY <1>4, <2>1 DEF Days, Hours
  <2>3. \A r \in Reports : ~SentToday(r)'
    BY <1>1, <2>1, WeekNumbers DEF ReportsInv, ReportTypes, SentToday
  <2>4. \A r \in Reports : Known(r)' /\ Fired(r)' /\ Backed(r)'
    BY <1>1, <1>2, <2>1, <2>3 DEF ReportsInv, Known, Fired, Backed
  <2>. QED BY <1>1, <1>3, <1>4, <2>1, <2>2, <2>4 DEF ReportsInv, ReportTypes
<1>6. CASE ~Midnight
  <2>1. /\ clock' = [clock EXCEPT !.hour = @ + 1] /\ UNCHANGED <<fires, lost, received, crossed>>
    BY <1>6 DEF Tick
  <2>2. clock' \in [dow : Days, hour : Hours] /\ clock'.hour = clock.hour + 1
    BY <1>4, <1>6, <2>1 DEF Midnight, Hours, ReportsInv, ReportTypes
  <2>3. \A r \in Reports : SentToday(r)' <=> SentToday(r)
    <3>1. ASSUME NEW a \in Nat, NEW n \in Nat, NEW h \in Nat, h + 1 < n
          PROVE  AtMost(a + 1, n) <= h + 1 <=> a <= h
      BY <3>1 DEF AtMost
    <3>2. clock.hour \in Nat /\ clock.hour + 1 < HoursPerDay
      BY <1>4, <2>2 DEF Hours
    <3>3. \A r \in Reports : age[r] \in Nat
      BY WeekNumbers DEF ReportsInv, ReportTypes
    <3>4. Never \in Nat /\ clock.hour + 1 < Never
      BY <3>2, WeekNumbers
    <3>5. ASSUME NEW r \in Reports
          PROVE  SentToday(r)' <=> SentToday(r)
      <4>1. AtMost(age[r] + 1, Never) <= clock.hour + 1 <=> age[r] <= clock.hour
        BY <3>1, <3>2, <3>3, <3>4
      <4>. QED BY <1>1, <2>2, <4>1 DEF SentToday
    <3>. QED BY <3>5
  <2>4. \A r \in Reports : Known(r)' /\ Fired(r)' /\ Backed(r)'
    BY <1>1, <1>2, <2>1, <2>3 DEF ReportsInv, Known, Fired, Backed
  <2>. QED BY <1>1, <1>3, <1>4, <2>1, <2>2, <2>4 DEF ReportsInv, ReportTypes
<1>. QED BY <1>5, <1>6

\* Nothing has happened in the beginning.
LEMMA ReportsInit ==
  ASSUME Init
  PROVE  ReportsInv
<1>. USE ReportsAssumption
<1>1. \A r \in Reports : ~SentToday(r)
  BY WeekNumbers DEF Init, SentToday
<1>2. ReportTypes
  BY WeekNumbers DEF Init, ReportTypes, Days, Hours, Request, Idle
<1>3. \A t \in Tasks : task[t].pc = "idle"
  BY DEF Init, Idle
<1>4. manual.pc = "idle"
  BY DEF Init, Idle
<1>5. \A r \in Reports : ~Stamping(r) /\ ~Batched(r) /\ manual # [pc |-> "stamp", report |-> r]
  BY <1>3, <1>4 DEF Stamping, Batched, Running
<1>. QED BY <1>1, <1>2, <1>3, <1>5 DEF Init, ReportsInv, OneSweep, Running, Known, Fired, Backed

\* Every step keeps the invariant.
LEMMA ReportsStep ==
  ASSUME ReportsInv, [Next]_vars
  PROVE  ReportsInv'
<1>1. CASE UNCHANGED vars
  BY <1>1 DEF vars, rows, ghosts, ReportsInv, ReportTypes, OneSweep, Running, Known, Fired, Backed, Stamping,
              Batched, SentToday
<1>2. ASSUME NEW t \in Tasks, Sweep(t)
      PROVE  ReportsInv'
  BY <1>2, StartSweepStep, SelectDueStep, DeliverStep, StampStep, EndStep DEF Sweep
<1>. QED BY <1>1, <1>2, TickStep, EditStep, ManualStep DEF Next

\* The schedule sends a report once a day, unless a delivery is lost.
THEOREM NeverDoubleFires == Spec => []NoDoubleFire
<1>1. ReportsInv => NoDoubleFire
  BY DEF ReportsInv, Fired, NoDoubleFire
<1>. QED BY <1>1, ReportsInit, ReportsStep, PTL DEF Spec

\* What counts as sent today was received today, or stamped across midnight.
THEOREM SentWasReceived == Spec => []SentMeansReceived
<1>1. ReportsInv => SentMeansReceived
  BY DEF ReportsInv, Backed, SentMeansReceived
<1>. QED BY <1>1, ReportsInit, ReportsStep, PTL DEF Spec

-----------------------------------------------------------------------------
(* The due day of a report that is left to the schedule.                   *)

\* Hours since the last day d of the week began.
DaysSince(d) == IF clock.dow >= d THEN clock.dow - d ELSE clock.dow + DaysPerWeek - d
Elapsed(d) == DaysSince(d) * HoursPerDay + clock.hour

\* A report of age a was sent within the last day d, or the one before.
SentOn(d, a) ==
  \/ a <= Elapsed(d) /\ Elapsed(d) < a + HoursPerDay
  \/ Elapsed(d) + Week < a + HoursPerDay

\* A sweep that outlives its hour ends the calm.
Fresh ==
  \A t \in Tasks : Running(t) =>
    \/ task[t].hour = clock.hour /\ task[t].dow = clock.dow
    \/ \A r \in Reports : calm[r] = 0

\* A weekly report is sent on its day, and was when it was sent since the calm began.
Weekly(r) == Exists(r) /\ report[r].cadence = "weekly"
OnItsDay(r) ==
  calm[r] > 0 /\ Weekly(r) =>
    /\ Batched(r) \/ Stamping(r) => report[r].dow = clock.dow
    /\ age[r] < calm[r] => report[r].dow \in Days /\ SentOn(report[r].dow, age[r])

\* Once an hour is swept, what is left of it is still to be looked at.
Pending(r) ==
  Batched(r) \/ Stamping(r) \/ \E t \in Tasks : Running(t) /\ \E o \in task[t].orgs : r \in o
SweptUp(r) ==
  swept /\ calm[r] > 0 /\ Exists(r) /\ report[r].active /\ report[r].hour <= clock.hour =>
    \/ Pending(r)
    \/ /\ report[r].cadence = "daily" => SentToday(r)
       /\ report[r].cadence = "weekly" /\ report[r].dow = clock.dow => age[r] <= Window

CalmInv ==
  /\ calm \in [Reports -> 0..Week]
  /\ Fresh
  /\ \A r \in Reports : OnItsDay(r) /\ SweptUp(r)

\* A week is a day longer than the window.
LEMMA WeekIsWindowAndDay ==
  Week \in Nat /\ Window \in Nat /\ Week = Window + HoursPerDay /\ HoursPerDay <= Window
<1>. USE ReportsAssumption
<1>1. ASSUME NEW d \in Nat, NEW h \in Nat
      PROVE  (d + 1) * h = d * h + h /\ d * h \in Nat
  OBVIOUS
<1>2. /\ DaysPerWeek - 2 \in Nat /\ DaysPerWeek - 1 = (DaysPerWeek - 2) + 1
      /\ DaysPerWeek - 1 \in Nat /\ DaysPerWeek = (DaysPerWeek - 1) + 1
  OBVIOUS
<1>3. /\ ((DaysPerWeek - 2) + 1) * HoursPerDay = (DaysPerWeek - 2) * HoursPerDay + HoursPerDay
      /\ (DaysPerWeek - 2) * HoursPerDay \in Nat
  BY <1>1, <1>2
<1>4. /\ ((DaysPerWeek - 1) + 1) * HoursPerDay = (DaysPerWeek - 1) * HoursPerDay + HoursPerDay
      /\ (DaysPerWeek - 1) * HoursPerDay \in Nat
  BY <1>1, <1>2
<1>. QED BY <1>2, <1>3, <1>4 DEF Window, Week

\* An hour later one hour more has elapsed, or a week is over.
LEMMA ElapsedTick ==
  ASSUME ReportTypes, Tick, NEW d \in Days
  PROVE  /\ Elapsed(d) \in Nat /\ Elapsed(d)' \in Nat
         /\ \/ Elapsed(d)' = Elapsed(d) + 1
            \/ Elapsed(d) = Week - 1 /\ Elapsed(d)' = 0
<1>. USE ReportsAssumption
<1>1. /\ clock.hour \in Nat /\ clock.hour < HoursPerDay
      /\ clock.dow \in Nat /\ clock.dow < DaysPerWeek /\ d \in Nat /\ d < DaysPerWeek
  BY DEF ReportTypes, Hours, Days
<1>2. PICK k : k = DaysSince(d)
  OBVIOUS
<1>3. k \in Nat /\ k <= DaysPerWeek - 1
  BY <1>1, <1>2 DEF DaysSince
<1>4. ASSUME NEW m \in Nat, NEW h \in Nat
      PROVE  (m + 1) * h = m * h + h /\ m * h \in Nat /\ 0 * h = 0
  OBVIOUS
<1>5. Elapsed(d) = k * HoursPerDay + clock.hour /\ k * HoursPerDay \in Nat
  BY <1>2, <1>3, <1>4 DEF Elapsed
<1>6. CASE ~Midnight
  <2>1. clock'.hour = clock.hour + 1 /\ clock'.dow = clock.dow
    BY <1>6 DEF Tick, ReportTypes
  <2>2. DaysSince(d)' = k
    BY <1>2, <2>1 DEF DaysSince
  <2>3. Elapsed(d)' = k * HoursPerDay + (clock.hour + 1)
    BY <2>1, <2>2 DEF Elapsed
  <2>. QED BY <1>1, <1>5, <2>3
<1>7. CASE Midnight
  <2>1. clock'.hour = 0 /\ clock'.dow = (clock.dow + 1) % DaysPerWeek /\ clock.hour = HoursPerDay - 1
    BY <1>7 DEF Tick, Midnight
  <2>2. ASSUME NEW n \in Nat \ {0}, NEW w \in 0..(n - 1)
        PROVE  (w + 1) % n = IF w + 1 = n THEN 0 ELSE w + 1
    OBVIOUS
  <2>3. clock'.dow = IF clock.dow + 1 = DaysPerWeek THEN 0 ELSE clock.dow + 1
    BY <1>1, <2>1, <2>2
  <2>4. DaysSince(d)' = IF k = DaysPerWeek - 1 THEN 0 ELSE k + 1
    BY <1>1, <1>2, <2>3 DEF DaysSince
  <2>5. Elapsed(d)' = DaysSince(d)' * HoursPerDay + 0
    BY <2>1 DEF Elapsed
  <2>6. CASE k = DaysPerWeek - 1
    <3>1. Elapsed(d)' = 0
      BY <1>4, <2>4, <2>5, <2>6
    <3>2. Elapsed(d) = Window + (HoursPerDay - 1)
      BY <1>5, <2>1, <2>6 DEF Window
    <3>. QED BY <3>1, <3>2, WeekIsWindowAndDay
  <2>7. CASE k # DaysPerWeek - 1
    <3>1. Elapsed(d)' = (k + 1) * HoursPerDay + 0
      BY <2>4, <2>5, <2>7
    <3>2. (k + 1) * HoursPerDay = k * HoursPerDay + HoursPerDay
      BY <1>3, <1>4
    <3>. QED BY <1>5, <2>1, <3>1, <3>2
  <2>. QED BY <2>6, <2>7
<1>. QED BY <1>6, <1>7

\* What was sent on its day stays so when an hour passes, for less than a week.
LEMMA SentOnTick ==
  ASSUME ReportTypes, Tick, NEW d \in Days, NEW a \in Nat, a + 1 < Week, SentOn(d, a)
  PROVE  SentOn(d, a + 1)'
<1>. USE ReportsAssumption
<1>1. PICK e : e = Elapsed(d)
  OBVIOUS
<1>2. PICK f : f = Elapsed(d)'
  OBVIOUS
<1>3. e \in Nat /\ f \in Nat /\ (f = e + 1 \/ (e = Week - 1 /\ f = 0))
  BY <1>1, <1>2, ElapsedTick
<1>4. (a <= e /\ e < a + HoursPerDay) \/ e + Week < a + HoursPerDay
  BY <1>1 DEF SentOn
<1>5. (a + 1 <= f /\ f < (a + 1) + HoursPerDay) \/ f + Week < (a + 1) + HoursPerDay
  BY <1>3, <1>4, WeekIsWindowAndDay
<1>. QED BY <1>2, <1>5 DEF SentOn, Week

\* A report no step touches, and that is as pending as before, keeps what holds of it.
LEMMA LeftAlone ==
  ASSUME CalmInv, NEW r \in Reports, UNCHANGED <<clock, swept>>,
         report'[r] = report[r], age'[r] = age[r], calm'[r] = calm[r],
         Batched(r)' \/ Stamping(r)' => Batched(r) \/ Stamping(r),
         Pending(r) => Pending(r)'
  PROVE  OnItsDay(r)' /\ SweptUp(r)'
<1>1. Weekly(r)' <=> Weekly(r)
  BY DEF Weekly, Exists
<1>2. ASSUME NEW d, NEW a
      PROVE  SentOn(d, a)' <=> SentOn(d, a)
  BY DEF SentOn, Elapsed, DaysSince
<1>3. OnItsDay(r)'
  BY <1>1, <1>2 DEF CalmInv, OnItsDay
<1>4. SweptUp(r)'
  BY DEF CalmInv, SweptUp, Exists, SentToday
<1>. QED BY <1>3, <1>4

\* Of a report that was just touched, or is gone, nothing is asked.
LEMMA Touched ==
  ASSUME NEW r \in Reports, calm'[r] = 0 \/ ~Exists(r)'
  PROVE  OnItsDay(r)' /\ SweptUp(r)'
BY DEF OnItsDay, SweptUp, Weekly

\* Touching reports keeps the ghost a number of hours.
LEMMA TouchCalm ==
  ASSUME CalmInv, NEW S, Touch(S)
  PROVE  /\ calm' \in [Reports -> 0..Week]
         /\ \A r \in Reports : calm'[r] = IF r \in S THEN 0 ELSE calm[r]
<1>1. calm' = [r \in Reports |-> IF r \in S THEN 0 ELSE calm[r]]
  BY DEF Touch
<1>2. 0 \in 0..Week
  BY WeekIsWindowAndDay
<1>. QED BY <1>1, <1>2 DEF CalmInv

\* While one task sweeps, the organisations still to be looked at are its own.
LEMMA PendingAlone ==
  ASSUME ReportsInv, NEW t \in Tasks, \A u \in Tasks \ {t} : ~Running(u), \A u \in Tasks \ {t} : ~Running(u)'
  PROVE  \A r : /\ Pending(r) <=> \/ Batched(r) \/ Stamping(r)
                                  \/ Running(t) /\ \E o \in task[t].orgs : r \in o
                /\ Pending(r)' <=> \/ Batched(r)' \/ Stamping(r)'
                                   \/ Running(t)' /\ \E o \in task'[t].orgs : r \in o
BY DEF Pending, Running

\* A sweep that begins has everything before it.
LEMMA CalmStartSweep ==
  ASSUME ReportsInv, CalmInv, NEW t \in Tasks, StartSweep(t)
  PROVE  CalmInv'
<1>1. /\ task' = [task EXCEPT ![t] = Sweeping] /\ UNCHANGED <<clock, report, age, calm>>
      /\ \A u \in Tasks : ~Running(u)
  BY DEF StartSweep, Goto, rows
<1>2. /\ Sweeping.pc = "sweep" /\ Sweeping.batch = {} /\ Sweeping.orgs = Orgs
      /\ Sweeping.hour = clock.hour /\ Sweeping.dow = clock.dow
  BY DEF Sweeping
<1>3. task'[t] = Sweeping /\ \A u \in Tasks \ {t} : task'[u] = task[u]
  BY <1>1 DEF ReportsInv, ReportTypes
<1>4. Running(t)' /\ \A u \in Tasks \ {t} : ~Running(u)'
  BY <1>1, <1>2, <1>3 DEF Running
<1>5. Fresh'
  BY <1>1, <1>2, <1>3, <1>4 DEF Fresh
<1>6. ASSUME NEW r \in Reports
      PROVE  OnItsDay(r)' /\ SweptUp(r)'
  <2>1. ~Batched(r)' /\ ~Stamping(r)' /\ Pending(r)'
    BY <1>1, <1>2, <1>3, <1>4 DEF Batched, Stamping, Pending, Running, Reports
  <2>2. ASSUME NEW d, NEW a
        PROVE  SentOn(d, a)' <=> SentOn(d, a)
    BY <1>1 DEF SentOn, Elapsed, DaysSince
  <2>3. Weekly(r)' <=> Weekly(r)
    BY <1>1 DEF Weekly, Exists
  <2>. QED BY <1>1, <2>1, <2>2, <2>3 DEF CalmInv, OnItsDay, SweptUp
<1>. QED BY <1>1, <1>5, <1>6 DEF CalmInv

\* What a sweep selects is due on its day; what it leaves out is not due now.
LEMMA CalmSelectDue ==
  ASSUME ReportsInv, CalmInv, NEW t \in Tasks, NEW o \in Orgs, NEW late \in BOOLEAN, SelectDue(t, o, late)
  PROVE  CalmInv'
<1>. DEFINE due == {r \in o : Due(task[t], r, late)}
<1>1. /\ task' = [task EXCEPT ![t] = [task[t] EXCEPT !.orgs = @ \ {o}, !.batch = due]]
      /\ task[t] \in Busy /\ task[t].pc = "sweep" /\ task[t].batch = {}
      /\ UNCHANGED <<clock, report, age, swept, calm>>
  BY DEF SelectDue, Goto, ReportsInv, ReportTypes, Idle, Busy, rows, ghosts
<1>2. \A r : r \in due <=> r \in o /\ Due(task[t], r, late)
  OBVIOUS
<1>. HIDE DEF due
<1>3. /\ task'[t].pc = "sweep" /\ task'[t].batch = due /\ task'[t].orgs = task[t].orgs \ {o}
      /\ task'[t].hour = task[t].hour /\ task'[t].dow = task[t].dow
      /\ \A u \in Tasks \ {t} : task'[u] = task[u]
  BY <1>1 DEF ReportsInv, ReportTypes, Busy
<1>4. Running(t) /\ Running(t)' /\ \A u \in Tasks \ {t} : ~Running(u) /\ ~Running(u)'
  BY <1>1, <1>3 DEF ReportsInv, OneSweep, Running
<1>5. Fresh'
  BY <1>1, <1>3, <1>4 DEF CalmInv, Fresh, Running
<1>6. ASSUME NEW r \in Reports
      PROVE  OnItsDay(r)' /\ SweptUp(r)'
  <2>1. /\ ~Batched(r) /\ ~Stamping(r) /\ ~Stamping(r)' /\ (Batched(r)' <=> r \in due)
        /\ Pending(r) <=> \E p \in task[t].orgs : r \in p
        /\ Pending(r)' <=> r \in due \/ \E p \in task[t].orgs \ {o} : r \in p
    BY <1>1, <1>3, <1>4 DEF Batched, Stamping, Pending, Running
  <2>2. CASE r \notin o
    BY <1>1, <1>2, <2>1, <2>2, LeftAlone
  <2>3. CASE r \in o
    <3>1. calm[r] > 0 => task[t].hour = clock.hour /\ task[t].dow = clock.dow
      BY <1>4 DEF CalmInv, Fresh
    <3>2. r \in due <=> Due(task[t], r, late)
      BY <1>2, <2>3
    <3>3. ASSUME NEW d, NEW a
          PROVE  SentOn(d, a)' <=> SentOn(d, a)
      BY <1>1 DEF SentOn, Elapsed, DaysSince
    <3>4. OnItsDay(r)'
      <4>1. Weekly(r)' <=> Weekly(r)
        BY <1>1 DEF Weekly, Exists
      <4>2. calm[r] > 0 /\ Weekly(r) /\ r \in due => report[r].dow = clock.dow
        BY <3>1, <3>2 DEF Due, Weekly
      <4>. QED BY <1>1, <2>1, <3>3, <4>1, <4>2 DEF CalmInv, OnItsDay
    <3>5. SweptUp(r)'
      <4>1. SUFFICES ASSUME calm[r] > 0, Exists(r), report[r].active, report[r].hour <= clock.hour, r \notin due
                     PROVE  /\ report[r].cadence = "daily" => SentToday(r)
                            /\ report[r].cadence = "weekly" /\ report[r].dow = clock.dow => age[r] <= Window
        BY <1>1, <2>1 DEF SweptUp, Exists, SentToday
      <4>2. report[r].cadence = "daily" => SentToday(r)
        BY <3>1, <3>2, <4>1 DEF Due, DailyNotSentToday
      <4>3. report[r].cadence = "weekly" /\ report[r].dow = clock.dow => ~WeeklyNotSentThisWeek(r, late)
        BY <3>1, <3>2, <4>1 DEF Due
      <4>4. age[r] \in Nat
        BY WeekNumbers DEF ReportsInv, ReportTypes
      <4>. QED BY <4>2, <4>3, <4>4, WeekIsWindowAndDay DEF WeeklyNotSentThisWeek
    <3>. QED BY <3>4, <3>5
  <2>. QED BY <2>2, <2>3
<1>. QED BY <1>1, <1>5, <1>6 DEF CalmInv

\* A report that is delivered waits for its stamp, or was touched.
LEMMA CalmDeliver ==
  ASSUME ReportsInv, CalmInv, NEW t \in Tasks, NEW r \in Reports, NEW outcome \in Outcomes, Deliver(t, r, outcome)
  PROVE  CalmInv'
<1>1. /\ task' = [task EXCEPT ![t] =
                    [task[t] EXCEPT !.pc = IF outcome = "ok" THEN "stamp" ELSE "sweep",
                                    !.batch = @ \ {r}, !.report = IF outcome = "ok" THEN r ELSE None]]
      /\ task[t] \in Busy /\ task[t].pc = "sweep" /\ r \in task[t].batch
      /\ UNCHANGED <<clock, report, age, swept>>
      /\ Touch(IF outcome = "ok" THEN {} ELSE {r})
  BY DEF Deliver, Resolved, Goto, ReportsInv, ReportTypes, Idle, Busy, rows
<1>2. /\ task'[t].pc = IF outcome = "ok" THEN "stamp" ELSE "sweep"
      /\ task'[t].batch = task[t].batch \ {r} /\ task'[t].orgs = task[t].orgs
      /\ task'[t].report = IF outcome = "ok" THEN r ELSE None
      /\ task'[t].hour = task[t].hour /\ task'[t].dow = task[t].dow
      /\ \A u \in Tasks \ {t} : task'[u] = task[u]
  BY <1>1 DEF ReportsInv, ReportTypes, Busy
<1>3. Running(t) /\ Running(t)' /\ \A u \in Tasks \ {t} : ~Running(u) /\ ~Running(u)'
  BY <1>1, <1>2 DEF ReportsInv, OneSweep, Running
<1>4. /\ calm' \in [Reports -> 0..Week]
      /\ \A q \in Reports : calm'[q] = IF outcome # "ok" /\ q = r THEN 0 ELSE calm[q]
  BY <1>1, TouchCalm
<1>5. Fresh'
  BY <1>1, <1>2, <1>3, <1>4 DEF CalmInv, Fresh, Running
<1>6. \A q : /\ ~Stamping(q) /\ (Batched(q) <=> q \in task[t].batch)
             /\ Stamping(q)' <=> outcome = "ok" /\ q = r
             /\ Batched(q)' <=> q \in task[t].batch \ {r}
             /\ Pending(q) <=> Batched(q) \/ \E o \in task[t].orgs : q \in o
             /\ Pending(q)' <=> Batched(q)' \/ Stamping(q)' \/ \E o \in task[t].orgs : q \in o
  BY <1>1, <1>2, <1>3 DEF Batched, Stamping, Pending, Running
<1>7. ASSUME NEW q \in Reports
      PROVE  OnItsDay(q)' /\ SweptUp(q)'
  <2>1. CASE outcome # "ok" /\ q = r
    BY <1>4, <2>1, Touched
  <2>2. CASE ~(outcome # "ok" /\ q = r)
    BY <1>1, <1>4, <1>6, <2>2, LeftAlone
  <2>. QED BY <2>1, <2>2
<1>. QED BY <1>4, <1>5, <1>7 DEF CalmInv

\* A stamp is made on the day of its report.
LEMMA CalmStamp ==
  ASSUME ReportsInv, CalmInv, NEW t \in Tasks, NEW fails \in BOOLEAN, Stamp(t, fails)
  PROVE  CalmInv'
<1>. USE ReportsAssumption
<1>0. PICK r \in Reports : r = task[t].report
  BY DEF Stamp, ReportsInv
<1>1. /\ task' = [task EXCEPT ![t] = [task[t] EXCEPT !.pc = "sweep", !.report = None]]
      /\ task[t] \in Busy /\ task[t].pc = "stamp"
      /\ UNCHANGED <<clock, report, swept>>
      /\ age' = IF fails \/ ~Exists(r) THEN age ELSE [age EXCEPT ![r] = 0]
      /\ Touch(IF fails THEN {r} ELSE {})
  BY <1>0 DEF Stamp, Goto, ReportsInv, ReportTypes, Idle, Busy
<1>2. /\ task'[t].pc = "sweep" /\ task'[t].batch = task[t].batch /\ task'[t].orgs = task[t].orgs
      /\ task'[t].hour = task[t].hour /\ task'[t].dow = task[t].dow
      /\ \A u \in Tasks \ {t} : task'[u] = task[u]
  BY <1>1 DEF ReportsInv, ReportTypes, Busy
<1>3. Running(t) /\ Running(t)' /\ \A u \in Tasks \ {t} : ~Running(u) /\ ~Running(u)'
  BY <1>1, <1>2 DEF ReportsInv, OneSweep, Running
<1>4. /\ calm' \in [Reports -> 0..Week]
      /\ \A q \in Reports : calm'[q] = IF fails /\ q = r THEN 0 ELSE calm[q]
  BY <1>1, TouchCalm
<1>5. Fresh'
  BY <1>1, <1>2, <1>3, <1>4 DEF CalmInv, Fresh, Running
<1>6. \A q : /\ (Stamping(q) <=> q = r) /\ ~Stamping(q)' /\ (Batched(q)' <=> Batched(q))
             /\ Pending(q) <=> Batched(q) \/ q = r \/ \E o \in task[t].orgs : q \in o
             /\ Pending(q)' <=> Batched(q)' \/ \E o \in task[t].orgs : q \in o
  BY <1>0, <1>1, <1>2, <1>3 DEF Batched, Stamping, Pending, Running
<1>7. ASSUME NEW q \in Reports \ {r}
      PROVE  OnItsDay(q)' /\ SweptUp(q)'
  <2>1. age'[q] = age[q]
    BY <1>1 DEF ReportsInv, ReportTypes
  <2>. QED BY <1>1, <1>4, <1>6, <2>1, LeftAlone
<1>8. OnItsDay(r)' /\ SweptUp(r)'
  <2>1. CASE fails \/ ~Exists(r)
    BY <1>1, <1>4, <2>1, Touched DEF Exists
  <2>2. CASE ~fails /\ Exists(r)
    <3>1. age'[r] = 0 /\ calm'[r] = calm[r]
      BY <1>1, <1>4, <2>2 DEF ReportsInv, ReportTypes
    <3>2. clock.hour \in Nat /\ clock.hour < HoursPerDay /\ clock.dow \in Days /\ clock.dow \in Nat
      BY DEF ReportsInv, ReportTypes, Hours, Days
    <3>3. SentOn(clock.dow, 0)'
      <4>1. ASSUME NEW h \in Nat
            PROVE  0 * h = 0
        OBVIOUS
      <4>2. DaysSince(clock.dow) = 0
        BY <3>2 DEF DaysSince
      <4>3. Elapsed(clock.dow) = clock.hour
        BY <3>2, <4>1, <4>2 DEF Elapsed
      <4>4. SentOn(clock.dow, 0)
        BY <3>2, <4>3 DEF SentOn
      <4>. QED BY <1>1, <4>4 DEF SentOn, Elapsed, DaysSince
    <3>4. calm[r] > 0 /\ Weekly(r) => report[r].dow = clock.dow
      BY <1>6 DEF CalmInv, OnItsDay
    <3>5. Weekly(r)' <=> Weekly(r)
      BY <1>1 DEF Weekly, Exists
    <3>6. OnItsDay(r)'
      BY <1>1, <3>1, <3>2, <3>3, <3>4, <3>5 DEF OnItsDay
    <3>7. SweptUp(r)'
      BY <1>1, <3>1, <3>2, WeekIsWindowAndDay DEF SweptUp, SentToday
    <3>. QED BY <3>6, <3>7
  <2>. QED BY <2>1, <2>2
<1>. QED BY <1>4, <1>5, <1>7, <1>8 DEF CalmInv

\* A sweep ends when it has looked at everything; one that dies touches every report.
LEMMA CalmEnd ==
  ASSUME ReportsInv, CalmInv, NEW t \in Tasks, EndSweep(t) \/ Crash(t)
  PROVE  CalmInv'
<1>1. task' = [task EXCEPT ![t] = Idle] /\ Running(t) /\ UNCHANGED <<clock, report, age, swept>>
  BY DEF EndSweep, Crash, Goto, Running, rows, ghosts
<1>2. \A u \in Tasks : ~Running(u)'
  BY <1>1 DEF ReportsInv, ReportTypes, OneSweep, Running, Idle
<1>3. Fresh'
  BY <1>2 DEF Fresh
<1>4. CASE EndSweep(t)
  <2>1. calm' = calm /\ task[t].pc = "sweep" /\ task[t].batch = {} /\ task[t].orgs = {}
    BY <1>4 DEF EndSweep, ghosts
  <2>2. \A u \in Tasks \ {t} : ~Running(u)
    BY <1>1 DEF ReportsInv, OneSweep
  <2>3. \A r : ~Pending(r) /\ ~Batched(r)' /\ ~Stamping(r)'
    BY <1>2, <2>1, <2>2 DEF Pending, Batched, Stamping, Running
  <2>4. \A r \in Reports : OnItsDay(r)' /\ SweptUp(r)'
    BY <1>1, <2>1, <2>3, LeftAlone
  <2>. QED BY <1>3, <2>1, <2>4 DEF CalmInv
<1>5. CASE Crash(t)
  <2>1. calm' \in [Reports -> 0..Week] /\ \A r \in Reports : calm'[r] = 0
    BY <1>5, TouchCalm DEF Crash
  <2>. QED BY <1>3, <2>1, Touched DEF CalmInv
<1>. QED BY <1>4, <1>5

\* Whatever touches a report ends its calm, and leaves the others and the sweep alone.
LEMMA TouchStep ==
  ASSUME ReportsInv, CalmInv, UNCHANGED <<clock, task, swept>>, calm' \in [Reports -> 0..Week],
         \A r \in Reports : \/ calm'[r] = 0 \/ ~Exists(r)'
                            \/ report'[r] = report[r] /\ age'[r] = age[r] /\ calm'[r] = calm[r],
         \A r \in Reports : calm[r] = 0 => calm'[r] = 0
  PROVE  CalmInv'
<1>1. Fresh'
  BY DEF CalmInv, Fresh, Running
<1>2. \A r : (Batched(r)' <=> Batched(r)) /\ (Stamping(r)' <=> Stamping(r)) /\ (Pending(r)' <=> Pending(r))
  BY DEF Batched, Stamping, Pending, Running
<1>3. \A r \in Reports : OnItsDay(r)' /\ SweptUp(r)'
  BY <1>2, LeftAlone, Touched
<1>. QED BY <1>1, <1>3 DEF CalmInv

\* Edits and manual sends touch the report they are about.
LEMMA CalmByHand ==
  ASSUME ReportsInv, CalmInv,
         \/ \E r \in Reports : RunNow(r) \/ PatchReport(r) \/ DeleteReport(r)
         \/ \E outcome \in Outcomes : DeliverNow(outcome)
         \/ \E fails \in BOOLEAN : StampNow(fails)
         \/ \E r \in Reports, c \in Cadences, d \in Days \cup {NoDay}, h \in Hours : CreateReport(r, c, d, h)
  PROVE  CalmInv'
<1>1. UNCHANGED <<clock, task, swept>>
  BY DEF RunNow, PatchReport, DeleteReport, DeliverNow, StampNow, CreateReport, ghosts
<1>2. ASSUME NEW r \in Reports, Touch({r}),
             \A q \in Reports \ {r} : report'[q] = report[q] /\ age'[q] = age[q]
      PROVE  CalmInv'
  <2>1. calm' \in [Reports -> 0..Week] /\ \A q \in Reports : calm'[q] = IF q = r THEN 0 ELSE calm[q]
    BY <1>2, TouchCalm
  <2>. QED BY <1>1, <1>2, <2>1, TouchStep
<1>3. ASSUME NEW r \in Reports, RunNow(r) \/ PatchReport(r)
      PROVE  CalmInv'
  <2>1. Touch({r}) /\ age' = age
    BY <1>3 DEF RunNow, PatchReport, rows
  <2>2. \A q \in Reports \ {r} : report'[q] = report[q]
    BY <1>3 DEF RunNow, PatchReport, rows, ReportsInv, ReportTypes
  <2>. QED BY <1>2, <2>1, <2>2
<1>4. ASSUME NEW r \in Reports, DeleteReport(r)
      PROVE  CalmInv'
  <2>1. age' = age /\ calm' = calm /\ report' = [report EXCEPT ![r] = Gone]
    BY <1>4 DEF DeleteReport, ghosts
  <2>2. ~Exists(r)' /\ \A q \in Reports \ {r} : report'[q] = report[q]
    BY <2>1 DEF ReportsInv, ReportTypes, Exists, Gone
  <2>. QED BY <1>1, <2>1, <2>2, TouchStep DEF CalmInv
<1>5. ASSUME NEW outcome \in Outcomes, DeliverNow(outcome)
      PROVE  CalmInv'
  BY <1>1, <1>5, TouchStep DEF DeliverNow, rows, CalmInv
<1>6. ASSUME NEW fails \in BOOLEAN, StampNow(fails)
      PROVE  CalmInv'
  <2>1. PICK r \in Reports : r = manual.report
    BY <1>6 DEF StampNow, ReportsInv, ReportTypes, Request
  <2>2. /\ Touch({r}) /\ report' = report
        /\ age' = IF fails \/ ~Exists(r) THEN age ELSE [age EXCEPT ![r] = 0]
    BY <1>6, <2>1 DEF StampNow
  <2>3. \A q \in Reports \ {r} : age'[q] = age[q]
    BY <2>2 DEF ReportsInv, ReportTypes
  <2>. QED BY <1>2, <2>2, <2>3
<1>7. ASSUME NEW r \in Reports, NEW c \in Cadences, NEW d \in Days \cup {NoDay}, NEW h \in Hours,
             CreateReport(r, c, d, h)
      PROVE  CalmInv'
  <2>1. Touch({r}) /\ age' = age /\ \A q \in Reports \ {r} : report'[q] = report[q]
    BY <1>7 DEF CreateReport, ReportsInv, ReportTypes
  <2>. QED BY <1>2, <2>1
<1>. QED BY <1>3, <1>4, <1>5, <1>6, <1>7

\* An hour passes: the calm goes on only if its sweep is over.
LEMMA CalmTick ==
  ASSUME ReportsInv, CalmInv, Tick
  PROVE  CalmInv'
<1>. USE ReportsAssumption
<1>1. /\ UNCHANGED <<report, task>> /\ ~swept'
      /\ age' = [r \in Reports |-> AtMost(age[r] + 1, Never)]
      /\ calm' = [r \in Reports |-> IF swept /\ \A t \in Tasks : ~Running(t)
                                    THEN AtMost(calm[r] + 1, Week) ELSE 0]
  BY DEF Tick
<1>2. \A r \in Reports : calm[r] \in 0..Week /\ age[r] \in 0..Never
  BY DEF CalmInv, ReportsInv, ReportTypes
<1>3. calm' \in [Reports -> 0..Week]
  <2>1. ASSUME NEW c \in 0..Week
        PROVE  AtMost(c + 1, Week) \in 0..Week
    BY WeekIsWindowAndDay DEF AtMost
  <2>2. 0 \in 0..Week
    BY WeekIsWindowAndDay
  <2>. QED BY <1>1, <1>2, <2>1, <2>2
<1>4. Fresh'
  BY <1>1 DEF Fresh, Running
<1>5. ASSUME NEW r \in Reports
      PROVE  OnItsDay(r)' /\ SweptUp(r)'
  <2>1. SweptUp(r)'
    BY <1>1 DEF SweptUp
  <2>2. PICK d : d = report[r].dow
    OBVIOUS
  <2>3. PICK a : a = age[r]
    OBVIOUS
  <2>4. PICK c : c = calm[r]
    OBVIOUS
  <2>5. SUFFICES ASSUME calm'[r] > 0, Weekly(r)'
                 PROVE  /\ ~Batched(r)' /\ ~Stamping(r)'
                        /\ age'[r] < calm'[r] => age'[r] = a + 1 /\ d \in Days /\ SentOn(d, a + 1)'
    BY <1>1, <2>1, <2>2 DEF OnItsDay
  <2>6. swept /\ (\A t \in Tasks : ~Running(t)) /\ calm'[r] = AtMost(c + 1, Week)
    BY <1>1, <2>4, <2>5
  <2>7. ~Batched(r)' /\ ~Stamping(r)'
    BY <1>1, <2>6 DEF Batched, Stamping, Running
  <2>8. age'[r] = AtMost(a + 1, Never) /\ a \in 0..Never /\ c \in 0..Week
    BY <1>1, <1>2, <2>3, <2>4
  <2>9. age'[r] < calm'[r] => age'[r] = a + 1 /\ a < c /\ a + 1 < Week /\ c > 0
    BY <2>6, <2>8, WeekIsWindowAndDay DEF AtMost, Never
  <2>10. age'[r] < calm'[r] => d \in Days /\ SentOn(d, a)
    <3>1. Weekly(r)
      BY <1>1, <2>5 DEF Weekly, Exists
    <3>. QED BY <2>2, <2>3, <2>4, <2>9, <3>1 DEF CalmInv, OnItsDay
  <2>11. age'[r] < calm'[r] => SentOn(d, a + 1)'
    <3>1. a \in Nat
      BY <2>8, WeekNumbers
    <3>. QED BY <2>9, <2>10, <3>1, SentOnTick DEF ReportsInv
  <2>. QED BY <2>7, <2>9, <2>10, <2>11
<1>. QED BY <1>3, <1>4, <1>5 DEF CalmInv

\* In the beginning nothing has been calm.
LEMMA CalmInit ==
  ASSUME Init
  PROVE  CalmInv
<1>1. calm = [r \in Reports |-> 0] /\ task = [t \in Tasks |-> Idle] /\ 0 \in 0..Week
  BY WeekIsWindowAndDay DEF Init
<1>. QED BY <1>1 DEF CalmInv, Fresh, OnItsDay, SweptUp

\* Every step keeps it.
LEMMA CalmStep ==
  ASSUME ReportsInv, CalmInv, [Next]_vars
  PROVE  CalmInv'
<1>1. CASE UNCHANGED vars
  BY <1>1 DEF vars, rows, ghosts, CalmInv, Fresh, Running, OnItsDay, SweptUp, Weekly, Exists, Pending, Batched,
              Stamping, SentOn, Elapsed, DaysSince, SentToday
<1>2. ASSUME NEW t \in Tasks, Sweep(t)
      PROVE  CalmInv'
  BY <1>2, CalmStartSweep, CalmSelectDue, CalmDeliver, CalmStamp, CalmEnd DEF Sweep
<1>. QED BY <1>1, <1>2, CalmTick, CalmByHand DEF Next

\* At the end of a day its calm reports have been sent.
LEMMA DayEnd ==
  ASSUME HoursPerDay > 1, ReportsInv, CalmInv, Tick, Midnight, NEW r \in Reports,
         calm'[r] = Week, Exists(r), report[r].active, report[r].cadence = "daily" \/ report[r].dow = clock.dow
  PROVE  SentToday(r)
<1>. USE ReportsAssumption
<1>1. swept /\ (\A t \in Tasks : ~Running(t)) /\ calm'[r] = AtMost(calm[r] + 1, Week)
  BY WeekIsWindowAndDay DEF Tick
<1>2. calm[r] \in 0..Week /\ age[r] \in Nat /\ clock.hour = HoursPerDay - 1 /\ clock.dow \in Nat
  BY WeekNumbers DEF CalmInv, ReportsInv, ReportTypes, Midnight, Days
<1>3. calm[r] > 0 /\ Window < calm[r]
  <2>1. ASSUME NEW c \in Nat, NEW w \in Nat, NEW h \in Nat, h > 1, AtMost(c + 1, w + h) = w + h
        PROVE  c > 0 /\ w < c
    BY <2>1 DEF AtMost
  <2>2. calm[r] \in Nat /\ HoursPerDay \in Nat
    BY <1>2, WeekIsWindowAndDay
  <2>. QED BY <1>1, <2>1, <2>2, WeekIsWindowAndDay
<1>4. report[r] \in LiveRow
  BY RowKinds DEF ReportsInv, ReportTypes, Exists
<1>5. report[r].hour <= clock.hour /\ report[r].cadence \in {"daily", "weekly"}
  BY <1>2, <1>4 DEF LiveRow, Hours, Cadences
<1>6. ~Pending(r)
  BY <1>1 DEF Pending, Batched, Stamping, Running
<1>7. /\ report[r].cadence = "daily" => SentToday(r)
      /\ report[r].cadence = "weekly" => age[r] <= Window
  BY <1>1, <1>3, <1>5, <1>6 DEF CalmInv, SweptUp
<1>8. CASE report[r].cadence = "weekly"
  <2>1. SentOn(clock.dow, age[r])
    BY <1>2, <1>3, <1>7, <1>8, WeekIsWindowAndDay DEF CalmInv, OnItsDay, Weekly
  <2>2. ASSUME NEW h \in Nat
        PROVE  0 * h = 0
    OBVIOUS
  <2>3. DaysSince(clock.dow) = 0
    BY <1>2 DEF DaysSince
  <2>4. Elapsed(clock.dow) = clock.hour
    BY <1>2, <2>2, <2>3 DEF Elapsed
  <2>. QED BY <1>2, <1>7, <1>8, <2>1, <2>4, WeekIsWindowAndDay DEF SentOn, SentToday
<1>. QED BY <1>5, <1>7, <1>8

\* A report left to the schedule is sent on each of its days, by its end.  In a day of
\* one hour the window would be as long as the calm that is known of, so a day has more.
THEOREM DueDaysAreServed ==
  ASSUME HoursPerDay > 1
  PROVE  Spec => DueDayServed
<1>1. ASSUME ReportsInv, CalmInv, [Next]_vars
      PROVE  [Midnight /\ clock' # clock =>
               \A r \in Reports :
                 calm'[r] = Week /\ Exists(r) /\ report[r].active
                   /\ (report[r].cadence = "daily" \/ report[r].dow = clock.dow) => SentToday(r)]_vars
  <2>1. clock' # clock => Tick
    BY <1>1 DEF Next, Sweep, StartSweep, SelectDue, Deliver, Stamp, EndSweep, Crash, RunNow, DeliverNow, StampNow,
                CreateReport, PatchReport, DeleteReport, vars
  <2>. QED BY <1>1, <2>1, DayEnd
<1>. QED BY <1>1, ReportsInit, ReportsStep, CalmInit, CalmStep, PTL DEF Spec, DueDayServed
=============================================================================
