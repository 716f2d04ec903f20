---- MODULE Maintenance ----
(***************************************************************************)
(* maintenance/maintenance.service.ts for one tenant: plans are created,    *)
(* moved between their statuses, and booked by schedule(), which reads the  *)
(* approved plans, runs the loop of Scheduler over them, writes the         *)
(* bookings one row at a time and records the whole.  Requests overlap, and *)
(* one may end after any of its awaits.                                     *)
(*                                                                          *)
(* Every request is a planner's (assertPlanner refuses the others at once)  *)
(* for a plan of the tenant; the rows of audit_log are AuditLog's matter,   *)
(* here they are a set.  The loop does not await, but it touches nothing    *)
(* that is shared, so its rounds are steps of their own.                    *)
(***************************************************************************)
EXTENDS Scheduler, SequencesExt

CONSTANTS
    Requests,     \* HTTP requests that may be in progress
    Technicians,  \* users schedule() may book
    Jobs,         \* what a plan is created with: its hours ({} when unknown), due
                  \* date and the criticality of its equipment
    Options,      \* options of schedule(): horizon, workingHours and technicians
    Seeds,        \* the plans a database may start with: <<job, status>> each
    MaxPlans,     \* bound: rows of maintenance_plans
    MaxCalls      \* bound: requests

PlanStatuses == {"draft", "submitted", "approved", "rejected"}

ASSUME MaintenanceAssumption ==
    /\ \A job \in Jobs : job.hours \subseteq Nat \ {0} /\ job.due \subseteq Nat
    /\ \A option \in Options :
           /\ option.horizon \in Nat /\ option.workingHours \in Nat
           /\ option.technicians \subseteq Technicians
    /\ IsFiniteSet(Technicians)
    /\ Seeds \subseteq Seq(Jobs \X PlanStatuses)
    /\ MaxPlans \in Nat /\ MaxCalls \in Nat

VARIABLES
    plans,        \* maintenance_plans
    recorded,     \* audit_log: <<entity id, action>>
    call,         \* the requests in progress
    calls,        \* how many requests there have been
    settled,      \* history: the bookings are those of one undisturbed schedule()
    failed        \* history: a request ended early

vars == <<plans, recorded, call, calls, settled, failed>>

\* A row that was never booked.
NoBooking == [technician |-> {}, start |-> 0, end |-> 0]

Row(job, status) == [job |-> job, status |-> status, booking |-> NoBooking]

\* The entity id 'batch' of the record that schedule() writes.
Batch == 0

IdleCall == [phase |-> "idle"]

\* Plans of earlier days, whose requests are on record.  (The one plan of
\* prisma/seed.ts has no estimate, so nothing ever schedules it, and is left out.)
Init ==
    /\ \E seed \in Seeds :
         /\ plans = [p \in DOMAIN seed |-> Row(seed[p][1], seed[p][2])]
         /\ recorded = {<<p, seed[p][2]>> : p \in DOMAIN seed}
    /\ call = [r \in Requests |-> IdleCall]
    /\ calls = 0
    /\ settled = FALSE /\ failed = FALSE

----
Busy(r) == call[r].phase # "idle"

\* The record() that a request ends with.
Recording(entity, action) == [phase |-> "recording", entry |-> <<entity, action>>]

\* schedule() calls that have read the plans.
Scheduling(r) == call[r].phase \in {"assigning", "writing"}

\* A change of the approved plans or of a booking: what another schedule() has
\* read is no longer so.
Disturbed(c) == [r \in Requests |-> IF c[r].phase \in {"assigning", "writing"}
                                    THEN [c[r] EXCEPT !.clean = FALSE] ELSE c[r]]

\* create()
Create(r, job) ==
    /\ ~Busy(r) /\ calls < MaxCalls /\ Len(plans) < MaxPlans
    /\ plans' = Append(plans, Row(job, "draft"))
    /\ call' = [call EXCEPT ![r] = Recording(Len(plans) + 1, "CREATE")]
    /\ calls' = calls + 1
    /\ UNCHANGED <<recorded, settled, failed>>

\* transition(): whatever the status was.  The read before the update only looks
\* whether the plan exists, and plans are not deleted.
Transition(r, p, status) ==
    /\ ~Busy(r) /\ calls < MaxCalls
    /\ plans' = [plans EXCEPT ![p].status = status]
    /\ LET approves == status = "approved" /\ plans[p].status # "approved"
       IN  /\ call' = [IF approves THEN Disturbed(call) ELSE call
                          EXCEPT ![r] = Recording(p, status)]
           /\ settled' = (settled /\ ~approves)
    /\ calls' = calls + 1
    /\ UNCHANGED <<recorded, failed>>

\* The plans schedule() takes.
Schedulable == {p \in DOMAIN plans : plans[p].status = "approved" /\ plans[p].job.hours # {}}

\* schedule() up to the loop: the two queries, in no particular order of their
\* rows, and prioritizeJobs().
ReadPlans(r, option) ==
    /\ ~Busy(r) /\ calls < MaxCalls
    /\ Schedulable # {} /\ option.technicians # {}
    /\ \E queue \in SetToSeqs(Schedulable), technicians \in SetToSeqs(option.technicians) :
         /\ Prioritized([p \in Schedulable |-> plans[p].job], queue, option.horizon)
         /\ call' = [call EXCEPT ![r] =
              [phase |-> "assigning", option |-> option, technicians |-> technicians,
               queue |-> queue, state |-> FreeAt(Technicians, option.horizon),
               result |-> <<>>, written |-> 0, clean |-> TRUE]]
    /\ calls' = calls + 1
    /\ UNCHANGED <<plans, recorded, settled, failed>>

\* Variant with a defect: an empty queue is noticed one round late.
AssignedOnceMore(c, k, hours) ==
    LET t == c.technicians[k]
        start == StartOf(c.state[t].cursor, c.state[t].used, hours, c.option)
    IN  [c EXCEPT !.state[t] = [cursor |-> start + hours,
                                used |-> UsedAfter(c.state[t].used, hours, c.option)],
                  !.result = Append(@, [plan |-> Head(c.queue), technician |-> t,
                                        start |-> start, end |-> start + hours]),
                  !.queue = Tail(@),
                  !.phase = IF c.queue = <<>> THEN "writing" ELSE "assigning"]

\* Variant with a defect: the technician is free again when the job starts.
AssignedFromStart(c, k, hours) ==
    LET t == c.technicians[k]
        start == StartOf(c.state[t].cursor, c.state[t].used, hours, c.option)
    IN  [c EXCEPT !.state[t] = [cursor |-> start,
                                used |-> UsedAfter(c.state[t].used, hours, c.option)],
                  !.result = Append(@, [plan |-> Head(c.queue), technician |-> t,
                                        start |-> start, end |-> start + hours]),
                  !.queue = Tail(@),
                  !.phase = IF Len(c.queue) = 1 THEN "writing" ELSE "assigning"]

\* What schedule() has in hand after one round of the loop, which gave the next job
\* to technician k of the list.
Assigned(c, k, hours) ==
    LET t == c.technicians[k]
        start == StartOf(c.state[t].cursor, c.state[t].used, hours, c.option)
    IN  [c EXCEPT !.state[t] = [cursor |-> start + hours,
                                used |-> UsedAfter(c.state[t].used, hours, c.option)],
                  !.result = Append(@, [plan |-> Head(c.queue), technician |-> t,
                                        start |-> start, end |-> start + hours]),
                  !.queue = Tail(@),
                  !.phase = IF Len(c.queue) = 1 THEN "writing" ELSE "assigning"]

\* One round of the loop: the next job goes to the technician who is free first.
Assign(r) ==
    /\ call[r].phase = "assigning"
    /\ \E k \in DOMAIN call[r].technicians, hours \in plans[Head(call[r].queue)].job.hours :
         /\ FreeFirst(k, call[r].technicians, call[r].state)
         /\ call' = [call EXCEPT ![r] = Assigned(call[r], k, hours)]
    /\ UNCHANGED <<plans, recorded, calls, settled, failed>>

\* Variant with a defect: a booked plan keeps its booking.
WriteFirstBooking(r) ==
    /\ call[r].phase = "writing"
    /\ LET n == call[r].written + 1
           a == call[r].result[n]
           last == n = Len(call[r].result)
       IN  /\ plans' = [plans EXCEPT ![a.plan].booking =
                          IF @ # NoBooking THEN @
                          ELSE [technician |-> {a.technician}, start |-> a.start, end |-> a.end]]
           /\ call' = [Disturbed(call) EXCEPT ![r] =
                          IF last THEN Recording(Batch, "SCHEDULE")
                          ELSE [call[r] EXCEPT !.written = n]]
           /\ settled' = (last /\ call[r].clean)
    /\ UNCHANGED <<recorded, calls, failed>>

\* Variant with a defect: what was booked is not recorded.
WriteUnrecorded(r) ==
    /\ call[r].phase = "writing"
    /\ LET n == call[r].written + 1
           a == call[r].result[n]
           last == n = Len(call[r].result)
       IN  /\ plans' = [plans EXCEPT ![a.plan].booking =
                          [technician |-> {a.technician}, start |-> a.start, end |-> a.end]]
           /\ call' = [Disturbed(call) EXCEPT ![r] =
                          IF last THEN IdleCall
                          ELSE [call[r] EXCEPT !.written = n]]
           /\ settled' = (last /\ call[r].clean)
    /\ UNCHANGED <<recorded, calls, failed>>

\* The loop of updates: one row, whatever its status is by now.
WriteBooking(r) ==
    /\ call[r].phase = "writing"
    /\ LET n == call[r].written + 1
           a == call[r].result[n]
           last == n = Len(call[r].result)
       IN  /\ plans' = [plans EXCEPT ![a.plan].booking =
                          [technician |-> {a.technician}, start |-> a.start, end |-> a.end]]
           /\ call' = [Disturbed(call) EXCEPT ![r] =
                          IF last THEN Recording(Batch, "SCHEDULE")
                          ELSE [call[r] EXCEPT !.written = n]]
           /\ settled' = (last /\ call[r].clean)
    /\ UNCHANGED <<recorded, calls, failed>>

\* audit.record()
Record(r) ==
    /\ call[r].phase = "recording"
    /\ recorded' = recorded \cup {call[r].entry}
    /\ call' = [call EXCEPT ![r] = IdleCall]
    /\ UNCHANGED <<plans, calls, settled, failed>>

\* A database error or the end of the process.
Fail(r) ==
    /\ Busy(r)
    /\ call' = [call EXCEPT ![r] = IdleCall]
    /\ failed' = TRUE
    /\ UNCHANGED <<plans, recorded, calls, settled>>

Next ==
    \E r \in Requests :
        \/ \E job \in Jobs : Create(r, job)
        \/ \E p \in DOMAIN plans, status \in PlanStatuses : Transition(r, p, status)
        \/ \E option \in Options : ReadPlans(r, option)
        \/ Assign(r) \/ WriteBooking(r) \/ Record(r)
        \/ Fail(r)

Spec == Init /\ [][Next]_vars

----
Idle == \A r \in Requests : ~Busy(r)

\* A round of work under way: what schedule() has in hand.
Rounds == [phase : {"assigning", "writing"}, option : Options, technicians : Seq(Technicians),
           queue : Seq(Nat),
           state : [Technicians -> [cursor : Nat, used : Nat]],
           result : Seq([plan : Nat, technician : Technicians, start : Nat, end : Nat]),
           written : Nat, clean : BOOLEAN]

Entries == Nat \X (PlanStatuses \cup {"CREATE", "SCHEDULE"})

\* The loop is over when the last job is assigned, the updates when the last
\* assignment is written.
RoundOK(c) ==
    /\ c \in Rounds
    /\ \A k \in DOMAIN c.queue : c.queue[k] \in DOMAIN plans
    /\ \A n \in DOMAIN c.result : c.result[n].plan \in DOMAIN plans
    /\ (c.phase = "assigning") <=> (c.queue # <<>>)
    /\ IF c.phase = "assigning" THEN c.written = 0 ELSE c.written < Len(c.result)

TypeOK ==
    /\ plans \in Seq([job : Jobs, status : PlanStatuses,
                      booking : [technician : SUBSET Technicians, start : Nat, end : Nat]])
    /\ recorded \subseteq Entries
    /\ DOMAIN call = Requests
    /\ \A r \in Requests : \/ call[r] = IdleCall
                           \/ call[r] \in [phase : {"recording"}, entry : Entries]
                           \/ RoundOK(call[r])
    /\ calls \in 0..MaxCalls
    /\ {settled, failed} \subseteq BOOLEAN

\* Two bookings leave their technician in one place at a time.
Apart(a, b) == a.technician # b.technician \/ a.end <= b.start \/ b.end <= a.start

\* One call of schedule() never books a technician twice for the same time,
\* whatever the jobs, the length of the day and the start of the shift.
NeverDoubleBooks ==
    \A r \in Requests : Scheduling(r) =>
        \A m, n \in DOMAIN call[r].result : m # n => Apart(call[r].result[m], call[r].result[n])

\* A job of the given hours that starts at s lies within one shift of the option.
InShift(s, hours, option) ==
    /\ s >= option.horizon
    /\ ((s - option.horizon) % CalendarDay) + hours <= option.workingHours

Hours(a) == a.end - a.start

\* No technician works longer than a day has working hours, from the start of the
\* shift on, unless a single job is longer than that.
CapacityKept ==
    \A r \in Requests : Scheduling(r) =>
        \A n \in DOMAIN call[r].result :
            LET a == call[r].result[n]
            IN  Hours(a) <= call[r].option.workingHours => InShift(a.start, Hours(a), call[r].option)

\* What position m of a result leaves to position n: n is no more urgent.
GoesFirst(c, m, n) ==
    LET a == plans[c.result[m].plan].job
        b == plans[c.result[n].plan].job
    IN  Before(a, b, c.option.horizon) \/ (m < n /\ ~Before(b, a, c.option.horizon))

\* The shift ends before midnight and every job fits into it.
PlainDay(c) ==
    /\ (c.option.horizon % CalendarDay) + c.option.workingHours < CalendarDay
    /\ \A n \in DOMAIN c.result : Hours(c.result[n]) <= c.option.workingHours

\* No job could start earlier, with any of the technicians, within a shift and
\* without moving a job that is more urgent.  (The loop compares the technicians
\* by when they are free, not by when the job would start.)
EarliestPossible ==
    \A r \in Requests : call[r].phase = "writing" /\ PlainDay(call[r]) =>
        LET c == call[r]
        IN  \A n \in DOMAIN c.result :
              \A t \in c.option.technicians, s \in c.option.horizon..(c.result[n].start - 1) :
                InShift(s, Hours(c.result[n]), c.option) =>
                    \E m \in DOMAIN c.result :
                        /\ c.result[m].technician = t /\ c.result[m].end > s
                        /\ GoesFirst(c, m, n)

\* The approved plans after a schedule() that no approval and no other schedule()
\* came between are all booked, and no technician twice.
SettledBookings ==
    settled =>
        \A p, q \in Schedulable :
            /\ plans[p].booking # NoBooking
            /\ p # q => Apart(plans[p].booking, plans[q].booking)

\* Whatever overlapped, the audit log names the present status of every plan, and a
\* schedule() when there are bookings, once all requests have come to their end.
ChangesAreRecorded ==
    Idle /\ ~failed =>
        \A p \in DOMAIN plans :
            /\ \/ <<p, plans[p].status>> \in recorded
               \/ plans[p].status = "draft" /\ <<p, "CREATE">> \in recorded
            /\ plans[p].booking # NoBooking => <<Batch, "SCHEDULE">> \in recorded

\* docs/10-roadmap.md says that scheduling keeps bookings from overlapping: so the
\* approved plans of a technician never overlap.
NeverOverlap ==
    Idle /\ ~failed =>
        \A p, q \in Schedulable :
            p # q /\ NoBooking \notin {plans[p].booking, plans[q].booking} =>
                Apart(plans[p].booking, plans[q].booking)
====
