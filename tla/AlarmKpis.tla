---- MODULE AlarmKpis ----
(***************************************************************************)
(* computeIsa182 (alarm/isa-18-2.ts) on the alarms that observeReading      *)
(* (alarm/alarm.service.ts) leaves for the tags of a tenant.  A reading     *)
(* comes with a time of its own, which a file or a device may set back, and *)
(* is abstracted to the kind of alarm it reaches.  observeReading reads the *)
(* active alarm, returns it and raises another in three transactions, next  *)
(* to those of other readings; module Telemetry has the rest of an ingest.  *)
(*                                                                          *)
(* Time is in whole units, Slot of which are the ten minutes of the code.   *)
(* kpis() may be asked at any time, so the figures take the end of their    *)
(* window as a parameter.  Averages and ratios are quotients of the counts  *)
(* below and are left out.                                                  *)
(***************************************************************************)
EXTENDS Integers, Sequences, FiniteSets

CONSTANTS
    AlarmTags,        \* tags with limits
    AlarmKinds,       \* types of alarm
    Observers,        \* calls of observeReading that may be in progress
    Slot,             \* ten minutes
    Hours,            \* length of the window
    FloodPer10Min,    \* FLOOD_PER_10_MIN
    ChatterChanges,   \* CHATTER_CHANGES
    MaxAlarms,        \* bound: alarms
    MaxTime           \* bound: time

ASSUME AlarmKpisAssumption ==
    /\ Slot \in Nat \ {0} /\ Hours \in Nat /\ FloodPer10Min \in Nat \ {0}
    /\ ChatterChanges \in Nat /\ MaxTime \in Nat
    /\ "none" \notin AlarmKinds

VARIABLES
    alarms,     \* alarm_events: tag, type, when started, when cleared
    observer,   \* the calls in progress
    setBack,    \* history: tags with a reading from before the start of one of their alarms
    shared      \* history: tags that two calls observed at once

kpiVars == <<alarms, observer, setBack, shared>>

Standing == MaxTime + 1

AtRest == [phase |-> "rest", tag |-> "none", hit |-> "none", time |-> 0, active |-> 0]

KpiInit ==
    /\ alarms = <<>>
    /\ observer = [o \in Observers |-> AtRest]
    /\ setBack = {} /\ shared = {}

----
Observing(o) == observer[o].phase # "rest"

StandsOf(t) == {i \in DOMAIN alarms : alarms[i].tag = t /\ alarms[i].cleared = Standing}

\* findFirst: the tag's active alarm that started last, 0 for none.
IsNewestOf(t, k) ==
    IF k = 0 THEN StandsOf(t) = {}
    ELSE k \in StandsOf(t) /\ \A i \in StandsOf(t) : alarms[i].started <= alarms[k].started

\* Variant with a defect: an alarm of another type is raised next to the active one.
NextPhaseBeside(hit, k) ==
    IF hit = "none" THEN IF k # 0 THEN "returning" ELSE "rest"
    ELSE IF k # 0 /\ alarms[k].kind = hit THEN "rest" ELSE "raising"

\* Where observeReading goes once it has read alarm k.
NextPhase(hit, k) ==
    IF k # 0 /\ alarms[k].kind # hit THEN "returning"
    ELSE IF k = 0 /\ hit # "none" THEN "raising"
    ELSE "rest"

\* The bound counts the alarms the calls in progress may still raise.
RoomForAlarm(hit) ==
    hit = "none"
    \/ Len(alarms) + Cardinality({o \in Observers : observer[o].hit # "none"}) < MaxAlarms

\* A reading of the time s that reaches the limit of an alarm, or none, is observed.
FindActive(o, t, hit, s) ==
    /\ ~Observing(o) /\ RoomForAlarm(hit)
    /\ \E k \in 0..Len(alarms) :
         /\ IsNewestOf(t, k)
         /\ observer' = [observer EXCEPT ![o] =
              IF NextPhase(hit, k) = "rest" THEN AtRest
              ELSE [phase |-> NextPhase(hit, k), tag |-> t, hit |-> hit, time |-> s, active |-> k]]
    /\ setBack' = IF \E i \in DOMAIN alarms : alarms[i].tag = t /\ s < alarms[i].started
                  THEN setBack \cup {t} ELSE setBack
    /\ shared' = IF \E p \in Observers : Observing(p) /\ observer[p].tag = t
                 THEN shared \cup {t} ELSE shared
    /\ UNCHANGED alarms

\* The alarm that was read is returned, by id, at the time of the reading.
ReturnFound(o) ==
    /\ observer[o].phase = "returning"
    /\ alarms' = [alarms EXCEPT ![observer[o].active].cleared = observer[o].time]
    /\ observer' = [observer EXCEPT ![o] = IF observer[o].hit = "none" THEN AtRest
                                           ELSE [@ EXCEPT !.phase = "raising", !.active = 0]]
    /\ UNCHANGED <<setBack, shared>>

\* The alarm is raised, as of the time of the reading.
RaiseAlarm(o) ==
    /\ observer[o].phase = "raising"
    /\ alarms' = Append(alarms, [tag |-> observer[o].tag, kind |-> observer[o].hit,
                                 started |-> observer[o].time, cleared |-> Standing])
    /\ observer' = [observer EXCEPT ![o] = AtRest]
    /\ UNCHANGED <<setBack, shared>>

\* A database error or the end of the process.
FailObserve(o) ==
    /\ Observing(o)
    /\ observer' = [observer EXCEPT ![o] = AtRest]
    /\ UNCHANGED <<alarms, setBack, shared>>

KpiNext ==
    \E o \in Observers :
        \/ \E t \in AlarmTags, hit \in AlarmKinds \cup {"none"}, s \in 0..MaxTime : FindActive(o, t, hit, s)
        \/ ReturnFound(o) \/ RaiseAlarm(o) \/ FailObserve(o)

KpiSpec == KpiInit /\ [][KpiNext]_kpiVars

----
WindowStart(e) == e - Hours

\* where of kpis(), and inWindow: what was open at some time in the window, both of
\* its ends included.
InWindow(e) ==
    {i \in DOMAIN alarms :
       alarms[i].started <= e /\ (alarms[i].cleared = Standing \/ alarms[i].cleared >= WindowStart(e))}

Starts(e) == {i \in InWindow(e) : alarms[i].started >= WindowStart(e) /\ alarms[i].started <= e}

\* The slot of an alarm, from the start of the window; at the very end of the window
\* it is one of its own.
Bucket(i, e) == (alarms[i].started - WindowStart(e)) \div Slot

Slots == 0..(Hours \div Slot)

InSlot(k, e) == Cardinality({i \in Starts(e) : Bucket(i, e) = k})

PeakPer10Min(e) ==
    CHOOSE n \in {InSlot(k, e) : k \in Slots} : \A k \in Slots : InSlot(k, e) <= n

Flood(e) == PeakPer10Min(e) >= FloodPer10Min

ChatteringTags(e) ==
    {t \in AlarmTags : Cardinality({i \in Starts(e) : alarms[i].tag = t}) >= ChatterChanges}

StandingCount(e) == Cardinality({i \in InWindow(e) : alarms[i].cleared = Standing})

----
KpiTypeOK ==
    /\ alarms \in Seq([tag : AlarmTags, kind : AlarmKinds, started : 0..MaxTime, cleared : 0..Standing])
    /\ observer \in [Observers ->
         {AtRest} \cup [phase : {"returning", "raising"}, tag : AlarmTags,
                        hit : AlarmKinds \cup {"none"}, time : 0..MaxTime, active : 0..Len(alarms)]]
    /\ setBack \subseteq AlarmTags /\ shared \subseteq AlarmTags

\* The alarms that started in the ten minutes from time m on, as far as they are over.
InTenMinutes(m, e) == {i \in DOMAIN alarms : alarms[i].started \in m..(m + Slot - 1) /\ alarms[i].started <= e}

\* Tags that stand at time e.
Up(e) == {t \in AlarmTags : \E i \in StandsOf(t) : alarms[i].started <= e}

\* What the panel says of the last hours, whenever it is asked, however observations overlap
\* and fail and whatever times their readings have.  Flood: only if some ten minutes had that
\* many alarms, and certainly if some ten minutes of the window had twice as many less one of
\* tags whose readings were not set back (a reading set back may clear an alarm as of a time
\* before the window, and it drops out of the figures).  Chattering: a tag that no two calls
\* observed at once was cleared between its alarms.  Standing: no tag is forgotten, and none
\* counts twice unless two calls observed it at once.
KpisAgree ==
    \A e \in 0..MaxTime :
        /\ Flood(e) =>
             \E m \in WindowStart(e)..e : Cardinality(InTenMinutes(m, e)) >= FloodPer10Min
        /\ (\E m \in WindowStart(e)..e :
              Cardinality({i \in InTenMinutes(m, e) : alarms[i].tag \notin setBack})
                >= 2 * FloodPer10Min - 1) => Flood(e)
        /\ \A t \in ChatteringTags(e) \ shared :
             Cardinality({i \in InWindow(e) : alarms[i].tag = t /\ alarms[i].cleared # Standing})
               >= ChatterChanges - 1
        /\ Cardinality(Up(e)) <= StandingCount(e)
        /\ Up(e) \cap shared = {} => StandingCount(e) = Cardinality(Up(e))

\* isa-18-2.spec.ts:13: "flags flood when more than 10 alarms start in ten minutes".
FloodIsFlagged ==
    \A e \in 0..MaxTime :
        (\E m \in WindowStart(e)..e :
            m + Slot - 1 <= e /\ Cardinality(InTenMinutes(m, e)) > FloodPer10Min) => Flood(e)
====
