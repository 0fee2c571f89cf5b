---------------------------- MODULE WeeklyReport ----------------------------
(***************************************************************************)
(* WeeklyReportScheduler and generate_weekly_report of                     *)
(* watcher/weekly_report.py: one file per week, made on Monday at          *)
(* WEEKLY_REPORT_HOUR, or at start if that has passed, or by hand.  A week *)
(* is cut into slots: 0 is Monday before the hour, the report's time is    *)
(* the beginning of slot 1.                                                *)
(***************************************************************************)
EXTENDS Integers, FiniteSets

CONSTANTS
  Weeks,      \* bound on the calendar: weeks 0 .. Weeks - 1
  Slots,      \* slots of a week
  MaxWeekFaults   \* bound on crashes and failed reports

ASSUME WeeklyAssumption == Weeks \in Nat \ {0} /\ Slots \in Nat \ {0, 1} /\ MaxWeekFaults \in Nat

VARIABLES
  now,      \* [week, slot]
  running,  \* the scheduler's loop runs
  next,     \* the week in which its timer fires, at the beginning of slot 1
  reports,  \* the files: per week the slots whose events are in it, or NoFile
  weekFaults,
  chance,   \* history: weeks in which it ran through a slot after the hour
  harmed    \* history: weeks in which a report failed

weekVars == <<now, running, next, reports, weekFaults, chance, harmed>>

NoFile == {-1}
Week   == now.week
WeekFault  == weekFaults < MaxWeekFaults /\ weekFaults' = weekFaults + 1

WeekInit ==
  /\ now \in [week : {0}, slot : 0..(Slots - 1)]
  /\ running = FALSE
  /\ next = 0
  /\ reports = [w \in 0..(Weeks - 1) |-> NoFile]
  /\ weekFaults = 0
  /\ chance = {} /\ harmed = {}

-----------------------------------------------------------------------------
\* _next_report_time, seen at a moment of this slot: today at the hour, or next Monday.
NextReport == IF now.slot = 0 THEN Week ELSE Week + 1

\* The events between Monday 00:00 and now; the slot that has only begun has none yet.
Events == 0..(now.slot - 1)

\* generate_weekly_report: a week that has a file keeps it, unless forced.
Generated(force) ==
  IF reports[Week] # NoFile /\ ~force THEN reports
  ELSE [reports EXCEPT ![Week] = Events]

\* An exception is logged; or the process dies, between making the file and writing it.
GenerationFails(died) ==
  /\ WeekFault
  /\ harmed' = harmed \cup {Week}
  /\ reports' = IF died /\ reports[Week] = NoFile THEN [reports EXCEPT ![Week] = {}] ELSE reports
  /\ running' = ~died

\* start: what this week has missed is made up for.
Passed == now.slot > 0

\* Mutant: only the days after Monday count as late.
StartLate ==
  /\ ~running
  /\ next' = NextReport
  /\ running' = TRUE
  /\ reports' = IF now.slot > 1 THEN Generated(FALSE) ELSE reports
  /\ UNCHANGED <<now, weekFaults, chance, harmed>>

Start ==
  /\ ~running
  /\ next' = NextReport
  /\ \/ running' = TRUE
        /\ reports' = (IF Passed THEN Generated(FALSE) ELSE reports)
        /\ UNCHANGED <<weekFaults, harmed>>
     \/ Passed /\ GenerationFails(FALSE)
     \/ Passed /\ GenerationFails(TRUE)
  /\ UNCHANGED <<now, chance>>

\* The timer: the loop goes on to the next Monday whether the report failed or not.
TimerDue == running /\ now.slot >= 1 /\ next = Week

Timer ==
  /\ TimerDue
  /\ next' = NextReport
  /\ \/ reports' = Generated(FALSE) /\ UNCHANGED <<running, weekFaults, harmed>>
     \/ \E died \in BOOLEAN : GenerationFails(died)
  /\ UNCHANGED <<now, chance>>

\* POST /debug/trigger-weekly-report.
Trigger(force) ==
  /\ reports' = Generated(force)
  /\ UNCHANGED <<now, running, next, weekFaults, chance, harmed>>

\* stop, or a crash at another moment.
Stop ==
  /\ running
  /\ WeekFault
  /\ running' = FALSE
  /\ UNCHANGED <<now, next, reports, chance, harmed>>

\* Time goes on when the timer is served.
SlotEnds ==
  /\ ~TimerDue
  /\ now' = IF now.slot < Slots - 1 THEN [now EXCEPT !.slot = @ + 1]
            ELSE [week |-> now.week + 1, slot |-> 0]
  /\ now'.week < Weeks
  /\ chance' = IF running /\ now.slot > 0 THEN chance \cup {Week} ELSE chance
  /\ UNCHANGED <<running, next, reports, weekFaults, harmed>>

WeekNext ==
  \/ Start \/ Timer \/ Stop \/ SlotEnds
  \/ \E force \in BOOLEAN : Trigger(force)

WeekSpec == WeekInit /\ [][WeekNext]_weekVars

-----------------------------------------------------------------------------
\* "A Monday that was missed does not leave the week blank": a week after whose hour the
\* scheduler ran at some time has its report, however often the process was started and
\* stopped, unless making it failed: then nobody tries again before the next start.
WeekNotBlank == \A w \in chance \ harmed : reports[w] # NoFile
=============================================================================
