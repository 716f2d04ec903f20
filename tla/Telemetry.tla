---- MODULE Telemetry ----
(***************************************************************************)
(* telemetry/telemetry-ingest.service.ts for one tag: ingest() stores the   *)
(* reading, lets alarm/alarm.service.ts look at it and copies it to the     *)
(* energy meter of the tag.  The MQTT handler starts an ingest() for every  *)
(* message without waiting for the one before, and a CSV import runs beside *)
(* it; readings come late, twice, or corrected.  observeReading() reads the *)
(* active alarm, then returns it, then raises another: three transactions.  *)
(*                                                                          *)
(* Several readings may have the same time (the key of both tables).  The   *)
(* broadcast to browsers is left out, and the alarm's text and priority,    *)
(* which follow from its type.                                              *)
(***************************************************************************)
EXTENDS Integers, Sequences, FiniteSets

CONSTANTS
    Ingests,      \* calls of ingest() that may be in progress
    Times,        \* timestamps of readings
    Values,       \* values of readings
    Limits,       \* the tag's alarm limits: each the set of its one value, or {}
    MaxAlarms     \* bound: rows of alarm_events

ASSUME TelemetryAssumption ==
    /\ Times \subseteq Nat \ {0} /\ Values \subseteq Nat
    /\ DOMAIN Limits = {"ll", "lo", "hi", "hh"}
    /\ \A name \in DOMAIN Limits : Limits[name] \subseteq Nat
    /\ MaxAlarms \in Nat

VARIABLES
    readings,     \* sensor_readings: the values stored per time, none or one
    metered,      \* energy_readings
    alarms,       \* alarm_events
    job,          \* the ingests in progress
    last,         \* history: value of the newest ingest, none if an ingest ended early
    calm,         \* history: a reading within the limits came in
    overlapped,   \* history: two ingests were in progress at once
    failed,       \* history: an ingest ended early
    torn          \* history: times whose newest ingest ended early

vars == <<readings, metered, alarms, job, last, calm, overlapped, failed, torn>>

AlarmTypes == {"ll", "lo", "hi", "hh"}

NotCleared == 0

IdleJob == [phase |-> "idle", time |-> 0, value |-> 0, active |-> 0]

Init ==
    /\ readings = [t \in Times |-> {}]
    /\ metered = [t \in Times |-> {}]
    /\ alarms = <<>>
    /\ job = [i \in Ingests |-> IdleJob]
    /\ last = {}
    /\ calm = FALSE /\ overlapped = FALSE /\ failed = FALSE
    /\ torn = {}

----
\* The limits a value has reached.
Reached(v) ==
    {name \in AlarmTypes : \E l \in Limits[name] : IF name \in {"hi", "hh"} THEN v >= l ELSE v <= l}

\* The outer limits are looked at first, the upper one before the lower one.
EvaluateAlarmLimits(v) ==
    IF "hh" \in Reached(v) THEN "hh"
    ELSE IF "ll" \in Reached(v) THEN "ll"
    ELSE IF "hi" \in Reached(v) THEN "hi"
    ELSE IF "lo" \in Reached(v) THEN "lo"
    ELSE "none"

Busy(i) == job[i].phase # "idle"

Active(k) == k \in DOMAIN alarms /\ alarms[k].state = "active"

ActiveAlarms == {k \in DOMAIN alarms : alarms[k].state = "active"}

\* The bound counts the alarms the ingests in progress may still raise.
RoomLeft(v) ==
    EvaluateAlarmLimits(v) = "none"
    \/ Len(alarms) + Cardinality({i \in Ingests :
                        Busy(i) /\ EvaluateAlarmLimits(job[i].value) # "none"}) < MaxAlarms

\* ingest(): the reading is stored.
Store(i, t, v) ==
    /\ ~Busy(i) /\ RoomLeft(v)
    /\ readings' = [readings EXCEPT ![t] = {v}]
    /\ job' = [job EXCEPT ![i] = [phase |-> "observing", time |-> t, value |-> v, active |-> 0]]
    /\ last' = {v}
    /\ calm' = (calm \/ EvaluateAlarmLimits(v) = "none")
    /\ overlapped' = (overlapped \/ \E j \in Ingests : Busy(j))
    /\ torn' = torn \ {t}
    /\ UNCHANGED <<metered, alarms, failed>>

\* Variant with a defect: the alarm that started last, if it is active.
IsNewestOfAny(k) ==
    \E n \in 0..Len(alarms) :
        /\ IF n = 0 THEN alarms = <<>>
           ELSE \A j \in DOMAIN alarms : alarms[j].startedAt <= alarms[n].startedAt
        /\ k = IF n \in ActiveAlarms THEN n ELSE 0

\* observeReading(): the active alarm that started last, 0 for none.
IsNewestActive(k) ==
    IF k = 0 THEN ActiveAlarms = {}
    ELSE k \in ActiveAlarms /\ \A j \in ActiveAlarms : alarms[j].startedAt <= alarms[k].startedAt

\* Variants with a defect: an active alarm of any type is enough, and a reading
\* within the limits is not told apart.
AfterFindAny(v, k) ==
    IF EvaluateAlarmLimits(v) = "none"
    THEN IF k # 0 THEN "returning" ELSE "metering"
    ELSE IF k = 0 THEN "raising" ELSE "metering"

AfterFindWithoutNone(v, k) ==
    IF k # 0 /\ alarms[k].type # EvaluateAlarmLimits(v) THEN "returning"
    ELSE IF k = 0 THEN "raising"
    ELSE "metering"

\* Where observeReading() goes once it has read alarm k.
AfterFind(v, k) ==
    LET hit == EvaluateAlarmLimits(v)
    IN  IF k # 0 /\ alarms[k].type # hit THEN "returning"
        ELSE IF k = 0 /\ hit # "none" THEN "raising"
        ELSE "metering"

FindActive(i) ==
    /\ job[i].phase = "observing"
    /\ \E k \in 0..Len(alarms) :
         /\ IsNewestActive(k)
         /\ job' = [job EXCEPT ![i].phase = AfterFind(job[i].value, k), ![i].active = k]
    /\ UNCHANGED <<readings, metered, alarms, last, calm, overlapped, failed, torn>>

\* Variant with a defect: the alarm of the other type is returned, the new one is
\* left to the next reading.
ReturnAndStop(i) ==
    /\ job[i].phase = "returning"
    /\ alarms' = [alarms EXCEPT ![job[i].active].state = "returned",
                                ![job[i].active].clearedAt = job[i].time]
    /\ job' = [job EXCEPT ![i].phase = "metering"]
    /\ UNCHANGED <<readings, metered, last, calm, overlapped, failed, torn>>

\* The alarm that was read is returned, by id.
ReturnAlarm(i) ==
    /\ job[i].phase = "returning"
    /\ alarms' = [alarms EXCEPT ![job[i].active].state = "returned",
                                ![job[i].active].clearedAt = job[i].time]
    /\ job' = [job EXCEPT ![i].phase = IF EvaluateAlarmLimits(job[i].value) = "none"
                                       THEN "metering" ELSE "raising"]
    /\ UNCHANGED <<readings, metered, last, calm, overlapped, failed, torn>>

Raise(i) ==
    /\ job[i].phase = "raising"
    /\ alarms' = Append(alarms, [type |-> EvaluateAlarmLimits(job[i].value),
                                 startedAt |-> job[i].time, clearedAt |-> NotCleared,
                                 state |-> "active"])
    /\ job' = [job EXCEPT ![i].phase = "metering"]
    /\ UNCHANGED <<readings, metered, last, calm, overlapped, failed, torn>>

\* Variant with a defect: a meter reading is only ever created.
MeterOnce(i) ==
    /\ job[i].phase = "metering"
    /\ metered' = [metered EXCEPT ![job[i].time] = IF @ = {} THEN {job[i].value} ELSE @]
    /\ job' = [job EXCEPT ![i] = IdleJob]
    /\ UNCHANGED <<readings, alarms, last, calm, overlapped, failed, torn>>

\* energy.observeTagReading(), for a tag that has a meter.
Meter(i) ==
    /\ job[i].phase = "metering"
    /\ metered' = [metered EXCEPT ![job[i].time] = {job[i].value}]
    /\ job' = [job EXCEPT ![i] = IdleJob]
    /\ UNCHANGED <<readings, alarms, last, calm, overlapped, failed, torn>>

\* A database error or the end of the process: the message is not sent again.
Fail(i) ==
    /\ Busy(i)
    /\ job' = [job EXCEPT ![i] = IdleJob]
    /\ failed' = TRUE /\ last' = {}
    /\ torn' = torn \cup {job[i].time}
    /\ UNCHANGED <<readings, metered, alarms, calm, overlapped>>

IngestStep(i) == FindActive(i) \/ ReturnAlarm(i) \/ Raise(i) \/ Meter(i)

Next ==
    \E i \in Ingests :
        \/ \E t \in Times, v \in Values : Store(i, t, v)
        \/ IngestStep(i)
        \/ Fail(i)

Spec == Init /\ [][Next]_vars

\* An ingest in progress goes on; nothing is promised of the next reading.
Fairness == \A i \in Ingests : WF_vars(IngestStep(i))

FairSpec == Spec /\ Fairness

----
AtMostOne(S) == {s \in SUBSET S : Cardinality(s) <= 1}

TypeOK ==
    /\ readings \in [Times -> AtMostOne(Values)]
    /\ metered \in [Times -> AtMostOne(Values)]
    /\ alarms \in Seq([type : AlarmTypes, startedAt : Times, clearedAt : Times \cup {NotCleared},
                       state : {"active", "returned"}])
    /\ job \in [Ingests ->
                  {IdleJob} \cup
                  [phase : {"observing", "returning", "raising", "metering"}, time : Times,
                   value : Values, active : 0..Len(alarms)]]
    /\ last \in AtMostOne(Values)
    /\ {calm, overlapped, failed} \subseteq BOOLEAN
    /\ torn \subseteq Times

Idle == \A i \in Ingests : ~Busy(i)

\* After readings that came one at a time, in whatever order of their times, the
\* tag has exactly the alarm of the last one: none, or one of its type.  An ingest
\* that ended early, between two of its writes, is made good by the next one.
AlarmTracksLast ==
    Idle /\ ~overlapped /\ last # {} =>
        /\ {alarms[k].type : k \in ActiveAlarms} = {EvaluateAlarmLimits(v) : v \in last} \ {"none"}
        /\ Cardinality(ActiveAlarms) <= 1

\* Overlapping ingests may raise an alarm twice, they never lose it: a tag that
\* has been outside its limits all the time has an active alarm.
NeverSilenced ==
    Idle /\ ~calm /\ ~failed /\ last # {} => ActiveAlarms # {}

\* The meter has the value of the tag at every time, after readings one at a time
\* that repeat or correct earlier ones, except where the newest ended early.
MeterFollowsTag ==
    Idle /\ ~overlapped => \A t \in Times \ torn : metered[t] = readings[t]

\* Back to normal for good: readings keep coming in, all within the limits, and
\* ingests no longer fail.  (Metering an unchanged value may look like a failure.)
BackToNormal ==
    /\ <>[](\A i \in Ingests : Busy(i) => EvaluateAlarmLimits(job[i].value) = "none")
    /\ []<>~Idle
    /\ <>[][\A i \in Ingests : Fail(i) => IngestStep(i)]_vars

\* Every alarm returns, the ones that overlapping ingests raised twice too.
AlarmsReturn == BackToNormal => \A k \in 1..MaxAlarms : Active(k) ~> ~Active(k)
====
