------------------------------ MODULE Reports -------------------------------
(***************************************************************************)
(* Scheduled reports (scheduled-reports.ts, routes/reports.ts): every task *)
(* runs a sweep on a timer, single-flight under an advisory lock held by a *)
(* transaction; the sweep reads the clock once, selects what is due one    *)
(* organisation at a time, delivers each report and then stamps it.  POST  *)
(* /:id/run delivers and stamps outside the lock.                          *)
(*                                                                         *)
(* Time: a week of DaysPerWeek days of HoursPerDay hours.  last_sent_at is *)
(* kept as its age in hours; Never stands for NULL and for everything      *)
(* older than a week, which the two predicates treat alike.  What a report *)
(* says, and over which channel, is left out.                              *)
(***************************************************************************)
EXTENDS Naturals, FiniteSets

CONSTANTS Tasks,          \* server processes
          Orgs,           \* organisations, each the set of its reports
          DaysPerWeek,    \* 7 in the code
          HoursPerDay     \* 24 in the code

ASSUME ReportsAssumption ==
  /\ DaysPerWeek \in Nat \ {0, 1} /\ HoursPerDay \in Nat \ {0}
  /\ \A o, p \in Orgs : o # p => o \cap p = {}

VARIABLES clock,      \* UTC day of the week and hour
          report,     \* rows of scheduled_reports
          age,        \* hours since last_sent_at
          task,       \* sweep of each task and its local variables
          manual,     \* the POST /:id/run in flight
          fires,      \* ghost: deliveries of a report its schedule made today, up to 2
          lost,       \* ghost: reports a delivery of which was accepted but not stamped today
          received,   \* ghost: reports whose receiver accepted one today
          crossed,    \* ghost: reports whose stamp was pending at midnight
          swept,      \* ghost: a sweep began in this hour
          calm        \* ghost: hours since anything but the schedule touched a report

rows == <<report, age>>
ghosts == <<fires, lost, received, crossed, swept, calm>>
vars == <<clock, rows, task, manual, ghosts>>

Reports == UNION Orgs
Days == 0..(DaysPerWeek - 1)
Hours == 0..(HoursPerDay - 1)
Week == DaysPerWeek * HoursPerDay
Window == (DaysPerWeek - 1) * HoursPerDay
Never == Week + 1
None == "none"
Unused == [row |-> "unused"]
Gone == [row |-> "deleted"]
NoDay == DaysPerWeek     \* NULL: no clock shows it
Cadences == {"daily", "weekly"}
Outcomes == {"ok", "refused", "unanswered"}

Idle == [pc |-> "idle"]
Running(t) == task[t].pc # "idle"
Goto(t, s) == task' = [task EXCEPT ![t] = s]
Row(c, d, h, a) == [row |-> "live", cadence |-> c, dow |-> d, hour |-> h, active |-> a]
Exists(r) == report[r].row = "live"
Touch(rs) == calm' = [r \in Reports |-> IF r \in rs THEN 0 ELSE calm[r]]
AtMost(n, m) == IF n > m THEN m ELSE n

-----------------------------------------------------------------------------
(* The schedule.                                                           *)

SentToday(r) == age[r] <= clock.hour
DailyNotSentToday(r) == ~SentToday(r)

\* Mutant of WeeklyNotSentThisWeek: a window of the whole week.
WeeklyNotSentForSevenDays(r, late) == age[r] > Week \/ (age[r] = Week /\ late)

\* "More than six days ago": on the hour itself, the minutes decide.
WeeklyNotSentThisWeek(r, late) == age[r] > Window \/ (age[r] = Window /\ late)

\* What the query selects for a sweep that read the clock as s.hour and s.dow.
Due(s, r, late) ==
  /\ Exists(r) /\ report[r].active /\ report[r].hour <= s.hour
  /\ \/ report[r].cadence = "daily" /\ DailyNotSentToday(r)
     \/ report[r].cadence = "weekly" /\ report[r].dow = s.dow /\ WeeklyNotSentThisWeek(r, late)

-----------------------------------------------------------------------------
(* runScheduledReports on task t.                                          *)

Sweeping == [pc |-> "sweep", hour |-> clock.hour, dow |-> clock.dow, orgs |-> Orgs,
             batch |-> {}, report |-> None]

\* Mutant of StartSweep: no advisory lock.
SweepWithoutLock(t) ==
  /\ ~Running(t) /\ Goto(t, Sweeping) /\ swept' = TRUE
  /\ UNCHANGED <<clock, rows, manual, fires, lost, received, crossed, calm>>

\* A task that does not get the lock returns at once.
StartSweep(t) ==
  /\ \A u \in Tasks : ~Running(u)
  /\ Goto(t, Sweeping)
  /\ swept' = TRUE
  /\ UNCHANGED <<clock, rows, manual, fires, lost, received, crossed, calm>>

SelectDue(t, o, late) ==
  /\ task[t].pc = "sweep" /\ task[t].batch = {} /\ o \in task[t].orgs
  /\ Goto(t, [task[t] EXCEPT !.orgs = @ \ {o}, !.batch = {r \in o : Due(task[t], r, late)}])
  /\ UNCHANGED <<clock, rows, manual, ghosts>>

\* Mutant of Resolved: a failed delivery is swallowed.
ResolvedAlways(outcome) == TRUE

\* A receiver accepts the report, refuses it, or accepts it though the answer is
\* lost.  Only the first lets deliverReport resolve; the others throw.
Resolved(outcome) == outcome = "ok"
Accepted(outcome) == outcome # "refused"

Deliver(t, r, outcome) ==
  /\ task[t].pc = "sweep" /\ r \in task[t].batch
  /\ Goto(t, [task[t] EXCEPT !.pc = IF Resolved(outcome) THEN "stamp" ELSE "sweep",
                             !.batch = @ \ {r},
                             !.report = IF Resolved(outcome) THEN r ELSE None])
  /\ fires' = IF Accepted(outcome) THEN [fires EXCEPT ![r] = AtMost(@ + 1, 2)] ELSE fires
  /\ received' = IF Accepted(outcome) THEN received \cup {r} ELSE received
  /\ lost' = IF outcome = "unanswered" THEN lost \cup {r} ELSE lost
  /\ Touch(IF outcome = "ok" THEN {} ELSE {r})
  /\ UNCHANGED <<clock, rows, manual, crossed, swept>>

\* The UPDATE of a row that was deleted meanwhile touches nothing.
Stamp(t, fails) ==
  /\ task[t].pc = "stamp"
  /\ LET r == task[t].report IN
       /\ age' = IF fails \/ ~Exists(r) THEN age ELSE [age EXCEPT ![r] = 0]
       /\ lost' = IF fails THEN lost \cup {r} ELSE lost
       /\ Touch(IF fails THEN {r} ELSE {})
  /\ Goto(t, [task[t] EXCEPT !.pc = "sweep", !.report = None])
  /\ UNCHANGED <<clock, report, manual, fires, received, crossed, swept>>

\* COMMIT releases the lock.
EndSweep(t) ==
  /\ task[t].pc = "sweep" /\ task[t].batch = {} /\ task[t].orgs = {}
  /\ Goto(t, Idle)
  /\ UNCHANGED <<clock, rows, manual, ghosts>>

\* The process ends, and with its connection the lock; or a query of the sweep
\* itself throws and it rolls back.
Crash(t) ==
  /\ Running(t) /\ Goto(t, Idle)
  /\ lost' = IF task[t].pc = "stamp" THEN lost \cup {task[t].report} ELSE lost
  /\ Touch(Reports)
  /\ UNCHANGED <<clock, rows, manual, fires, received, crossed, swept>>

-----------------------------------------------------------------------------
(* POST /:id/run: sendReportNow.                                           *)

RunNow(r) ==
  /\ manual = Idle /\ Exists(r)
  /\ manual' = [pc |-> "deliver", report |-> r]
  /\ Touch({r})
  /\ UNCHANGED <<clock, rows, task, fires, lost, received, crossed, swept>>

DeliverNow(outcome) ==
  /\ manual.pc = "deliver"
  /\ manual' = IF Resolved(outcome) THEN [manual EXCEPT !.pc = "stamp"] ELSE Idle
  /\ received' = IF Accepted(outcome) THEN received \cup {manual.report} ELSE received
  /\ UNCHANGED <<clock, rows, task, fires, lost, crossed, swept, calm>>

StampNow(fails) ==
  /\ manual.pc = "stamp"
  /\ age' = IF fails \/ ~Exists(manual.report) THEN age ELSE [age EXCEPT ![manual.report] = 0]
  /\ manual' = Idle
  /\ Touch({manual.report})
  /\ UNCHANGED <<clock, report, task, fires, lost, received, crossed, swept>>

-----------------------------------------------------------------------------
(* POST, PATCH and DELETE of a report.                                     *)

\* A weekly report needs a day; a daily one has none.
CreateReport(r, c, d, h) ==
  /\ report[r] = Unused
  /\ (c = "weekly") <=> (d # NoDay)
  /\ report' = [report EXCEPT ![r] = Row(c, d, h, TRUE)]
  /\ Touch({r})
  /\ UNCHANGED <<clock, age, task, manual, fires, lost, received, crossed, swept>>

\* One field at a time, which includes several at once.  A report made weekly may
\* be left with no day.
PatchReport(r) ==
  /\ Exists(r)
  /\ \/ \E c \in Cadences : report' = [report EXCEPT ![r].cadence = c]
     \/ \E d \in Days \cup {NoDay} : report' = [report EXCEPT ![r].dow = d]
     \/ \E h \in Hours : report' = [report EXCEPT ![r].hour = h]
     \/ \E a \in BOOLEAN : report' = [report EXCEPT ![r].active = a]
  /\ report' # report
  /\ Touch({r})
  /\ UNCHANGED <<clock, age, task, manual, fires, lost, received, crossed, swept>>

\* Ids are not used again, and what is in flight for the report goes on.
DeleteReport(r) ==
  /\ Exists(r)
  /\ report' = [report EXCEPT ![r] = Gone]
  /\ UNCHANGED <<clock, age, task, manual, ghosts>>

-----------------------------------------------------------------------------
Midnight == clock.hour = HoursPerDay - 1

Tick ==
  /\ clock' = IF Midnight THEN [dow |-> (clock.dow + 1) % DaysPerWeek, hour |-> 0]
              ELSE [clock EXCEPT !.hour = @ + 1]
  /\ age' = [r \in Reports |-> AtMost(age[r] + 1, Never)]
  /\ calm' = [r \in Reports |-> IF swept /\ \A t \in Tasks : ~Running(t)
                                THEN AtMost(calm[r] + 1, Week) ELSE 0]
  /\ swept' = FALSE
  /\ IF Midnight
     THEN /\ fires' = [r \in Reports |-> 0] /\ lost' = {} /\ received' = {}
          /\ crossed' = {r \in Reports : \/ \E t \in Tasks : task[t].pc = "stamp" /\ task[t].report = r
                                         \/ manual = [pc |-> "stamp", report |-> r]}
     ELSE UNCHANGED <<fires, lost, received, crossed>>
  /\ UNCHANGED <<report, task, manual>>

Init ==
  /\ clock = [dow |-> 0, hour |-> 0]
  /\ report = [r \in Reports |-> Unused] /\ age = [r \in Reports |-> Never]
  /\ task = [t \in Tasks |-> Idle] /\ manual = Idle
  /\ fires = [r \in Reports |-> 0]
  /\ lost = {} /\ received = {} /\ crossed = {}
  /\ swept = FALSE /\ calm = [r \in Reports |-> 0]

Sweep(t) ==
  \/ StartSweep(t) \/ EndSweep(t) \/ Crash(t)
  \/ \E o \in Orgs, late \in BOOLEAN : SelectDue(t, o, late)
  \/ \E r \in Reports, outcome \in Outcomes : Deliver(t, r, outcome)
  \/ \E fails \in BOOLEAN : Stamp(t, fails)

Next ==
  \/ Tick
  \/ \E t \in Tasks : Sweep(t)
  \/ \E r \in Reports : RunNow(r) \/ PatchReport(r) \/ DeleteReport(r)
  \/ \E outcome \in Outcomes : DeliverNow(outcome)
  \/ \E fails \in BOOLEAN : StampNow(fails)
  \/ \E r \in Reports, c \in Cadences, d \in Days \cup {NoDay}, h \in Hours : CreateReport(r, c, d, h)

Spec == Init /\ [][Next]_vars

-----------------------------------------------------------------------------
(* Properties.                                                             *)

\* The schedule sends a report at most once a UTC day, however many tasks run the
\* sweep and whatever is edited; a second one follows only a delivery that was
\* accepted and could not be stamped (scheduled-reports.ts:57, 98).
NoDoubleFire == \A r \in Reports : fires[r] <= 1 \/ r \in lost

\* A report that counts as sent today was accepted by its receiver today; the
\* exception is a stamp that was still pending at midnight.  A refused report is
\* therefore still due at the next sweep (scheduled-reports.ts:240).
SentMeansReceived ==
  \A r \in Reports : SentToday(r) => r \in received \/ r \in crossed

\* A report that nothing but the schedule has touched for a week, with a sweep in
\* every hour that ended in it, has been sent by the end of each of its days: six
\* days of window absorb a send that drifted later in the day the week before
\* (scheduled-reports.ts:38), and one on another day delays it by a week at most.
DueDayServed ==
  [][Midnight /\ clock' # clock =>
       \A r \in Reports :
         calm'[r] = Week /\ Exists(r) /\ report[r].active
           /\ (report[r].cadence = "daily" \/ report[r].dow = clock.dow) => SentToday(r)]_vars

\* What the comment at scheduled-reports.ts:11 says of the window: a report that
\* counts as sent today was sent today.
SentTodayWasToday == \A r \in Reports : SentToday(r) => r \in received
=============================================================================
