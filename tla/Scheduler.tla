---- MODULE Scheduler ----
(***************************************************************************)
(* maintenance/scheduler.ts: the greedy assignment of maintenance jobs to   *)
(* technicians.  Operators only: the order of the jobs (prioritizeJobs) and *)
(* one round of the loop of scheduleMaintenanceJobs(), which Maintenance    *)
(* runs to its end.  Times are hours since some midnight UTC; the minutes   *)
(* of a shift's start and fractions of hours add nothing to them.           *)
(*                                                                          *)
(* A job is a record: hours is its estimate, due the set of its one due     *)
(* date or {}, criticality what the column of its equipment holds.          *)
(***************************************************************************)
EXTENDS Integers, Sequences, FiniteSets

CalendarDay == 24

CriticalityWeight == [low |-> 0, medium |-> 1, high |-> 2, critical |-> 3]

\* toCriticalityLevel(): anything else counts as medium.
Weight(job) ==
    CriticalityWeight[IF job.criticality \in DOMAIN CriticalityWeight THEN job.criticality
                      ELSE "medium"]

Overdue(job, now) == \E d \in job.due : d < now

DueBefore(a, b) == a.due # {} /\ \A d \in a.due, e \in b.due : d < e

\* The comparator of prioritizeJobs() is negative: a comes before b.
Before(a, b, now) ==
    IF Overdue(a, now) # Overdue(b, now) THEN Overdue(a, now)
    ELSE IF Weight(a) # Weight(b) THEN Weight(a) > Weight(b)
    ELSE DueBefore(a, b)

\* Variant with a defect: the jobs as the query returned them.
Unsorted(jobs, order, now) == TRUE

\* prioritizeJobs(): a stable sort of rows that the query returns in any order.
Prioritized(jobs, order, now) ==
    \A m, n \in DOMAIN order : m < n => ~Before(jobs[order[n]], jobs[order[m]], now)

\* Variant with a defect: a day from where the last job ended.
StartADayLater(anchor, reference) == reference + CalendarDay

\* startOfNextWorkingDay()
StartOfNextWorkingDay(anchor, reference) ==
    (reference \div CalendarDay + 1) * CalendarDay + anchor

----
\* Whether a job still goes into the hours that are left of the day.
Fits(used, hours, workingHours) == used + hours <= workingHours

\* addWorkingHours(): where the job starts, ...
StartOf(cursor, used, hours, option) ==
    IF Fits(used, hours, option.workingHours) THEN cursor
    ELSE StartOfNextWorkingDay(option.horizon % CalendarDay, cursor)

\* ... and the hours of that day in use afterwards.
UsedAfter(used, hours, option) ==
    IF Fits(used, hours, option.workingHours) THEN used + hours ELSE hours

\* The technician who is free first, the first of the list among equals.
FreeFirst(k, technicians, state) ==
    /\ \A m \in DOMAIN technicians :
           state[technicians[m]].cursor >= state[technicians[k]].cursor
    /\ \A m \in 1..(k - 1) : state[technicians[m]].cursor > state[technicians[k]].cursor

\* All technicians are free at the horizon.
FreeAt(technicians, horizon) ==
    [t \in technicians |-> [cursor |-> horizon, used |-> 0]]
====
