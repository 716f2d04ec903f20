---- MODULE TelemetryProofs ----
(***************************************************************************)
(* Theorems about module Telemetry, for any number of ingests in progress,  *)
(* any readings and any alarm limits.  Each property of a tag at rest needs *)
(* to be said of the ingests that are under way: what each will still write *)
(* is what the property lacks.                                              *)
(***************************************************************************)
EXTENDS Telemetry, FiniteSetTheorems, SequenceTheorems, TLAPS

Alarms == [type : AlarmTypes, startedAt : Times, clearedAt : Times \cup {NotCleared},
           state : {"active", "returned"}]

Phases == {"observing", "returning", "raising", "metering"}

Jobs == [phase : Phases, time : Times, value : Values, active : Nat]

Hit(i) == EvaluateAlarmLimits(job[i].value)

\* What an ingest has in hand makes sense for its next step.
JobsInRange ==
    \A i \in Ingests : /\ job[i].active \in 0..Len(alarms)
                       /\ job[i].phase = "returning" => job[i].active # 0
                       /\ job[i].phase = "raising" => Hit(i) # "none"

TelemetryShape ==
    /\ readings \in [Times -> AtMostOne(Values)]
    /\ metered \in [Times -> AtMostOne(Values)]
    /\ alarms \in Seq(Alarms)
    /\ job \in [Ingests -> {IdleJob} \cup Jobs]
    /\ JobsInRange
    /\ last \in AtMostOne(Values)
    /\ calm \in BOOLEAN /\ overlapped \in BOOLEAN /\ failed \in BOOLEAN
    /\ torn \subseteq Times

(* Whatever overlaps. *)

\* Without a reading within the limits, every ingest has one outside of them.
NoneIsCalm == ~calm => \A i \in Ingests : Busy(i) => Hit(i) # "none"

\* There is an alarm, or an ingest that will see to it that there is.
Watched ==
    ~calm /\ ~failed /\ last # {} =>
        \/ ActiveAlarms # {}
        \/ \E i \in Ingests : job[i].phase \in {"observing", "returning", "raising"}

(* While no two ingests overlap. *)

OneIngest == \A i, j \in Ingests : Busy(i) /\ Busy(j) => i = j

OneAlarm == \A j, k \in ActiveAlarms : j = k

\* The active alarm is the one a reading calls for.
Tracks(hit) ==
    /\ \A k \in ActiveAlarms : alarms[k].type = hit
    /\ hit # "none" => ActiveAlarms # {}

\* How far the ingest in progress has come with the alarm, ...
AlarmInHand ==
    \A i \in Ingests :
        /\ Busy(i) => last = {job[i].value}
        /\ job[i].phase = "returning" => ActiveAlarms = {job[i].active}
        /\ job[i].phase = "raising" => ActiveAlarms = {}
        /\ job[i].phase = "metering" => Tracks(Hit(i))

AlarmAtRest == Idle => \A v \in last : Tracks(EvaluateAlarmLimits(v))

\* ... and with the meter.
MeterInHand ==
    /\ \A i \in Ingests : Busy(i) => readings[job[i].time] = {job[i].value}
    /\ \A t \in Times \ torn :
         metered[t] = readings[t] \/ \E i \in Ingests : Busy(i) /\ job[i].time = t

OneByOne == ~overlapped => OneIngest /\ OneAlarm /\ AlarmInHand /\ AlarmAtRest /\ MeterInHand

TelemetryInv == TelemetryShape /\ NoneIsCalm /\ Watched /\ OneByOne

----
(* Shapes. *)

LEMMA ShapeIsType == TelemetryShape => TypeOK
<1> SUFFICES ASSUME TelemetryShape PROVE TypeOK
  OBVIOUS
<1>1. Len(alarms) \in Nat
  <2> HIDE DEF Alarms
  <2> QED
    BY DEF TelemetryShape
<1>2. ASSUME NEW i \in Ingests
      PROVE  job[i] \in {IdleJob} \cup [phase : Phases, time : Times, value : Values, active : 0..Len(alarms)]
  <2>1. job[i].active \in 0..Len(alarms)
    BY DEF TelemetryShape, JobsInRange
  <2>2. job[i] = IdleJob \/ job[i] \in Jobs
    BY DEF TelemetryShape
  <2> QED
    BY <2>1, <2>2 DEF Jobs
<1>3. job \in [Ingests -> {IdleJob} \cup [phase : Phases, time : Times, value : Values,
                                         active : 0..Len(alarms)]]
  BY <1>2 DEF TelemetryShape
<1>4. {calm, overlapped, failed} \subseteq BOOLEAN
  BY DEF TelemetryShape
<1> QED
  BY <1>3, <1>4 DEF TelemetryShape, TypeOK, Alarms, Phases

LEMMA HitIsType ==
    ASSUME NEW v PROVE EvaluateAlarmLimits(v) \in AlarmTypes \cup {"none"}
  BY DEF EvaluateAlarmLimits, AlarmTypes

LEMMA SmallSets ==
    ASSUME NEW S, NEW v \in S PROVE {v} \in AtMostOne(S) /\ {} \in AtMostOne(S)
<1>1. Cardinality({v}) = 1 /\ Cardinality({}) = 0
  BY FS_Singleton, FS_EmptySet
<1> QED
  BY <1>1 DEF AtMostOne

LEMMA NoSuchPhase == "idle" \notin Phases
  BY DEF Phases

LEMMA BusyJob ==
    ASSUME TelemetryShape, NEW i \in Ingests
    PROVE  /\ Busy(i) <=> job[i].phase \in Phases
           /\ Busy(i) <=> job[i] \in Jobs
           /\ ~Busy(i) <=> job[i] = IdleJob
  BY NoSuchPhase DEF TelemetryShape, Busy, IdleJob, Jobs

LEMMA AlarmNumbers ==
    ASSUME TelemetryShape
    PROVE  /\ DOMAIN alarms = 1..Len(alarms) /\ Len(alarms) \in Nat
           /\ \A k \in DOMAIN alarms : alarms[k] \in Alarms
           /\ ActiveAlarms \subseteq DOMAIN alarms
<1>1. alarms \in Seq(Alarms)
  BY DEF TelemetryShape
<1>2. DOMAIN alarms = 1..Len(alarms) /\ Len(alarms) \in Nat /\ \A k \in DOMAIN alarms : alarms[k] \in Alarms
  <2> HIDE DEF Alarms
  <2> QED
    BY <1>1, LenProperties
<1> QED
  BY <1>2 DEF ActiveAlarms

\* An ingest whose phase changes, ...
Phased(i, ph) == job' = [job EXCEPT ![i].phase = ph]

LEMMA PhasedJob ==
    ASSUME TelemetryShape, NEW i \in Ingests, Busy(i), NEW ph \in Phases, Phased(i, ph)
    PROVE  /\ job' \in [Ingests -> {IdleJob} \cup Jobs]
           /\ job'[i].phase = ph /\ job'[i].time = job[i].time /\ job'[i].value = job[i].value
           /\ job'[i].active = job[i].active
           /\ \A j \in Ingests \ {i} : job'[j] = job[j]
<1>1. job \in [Ingests -> {IdleJob} \cup Jobs] /\ job[i] \in Jobs
  BY BusyJob DEF TelemetryShape
<1> DEFINE r == [job[i] EXCEPT !.phase = ph]
<1>2. r \in Jobs /\ r.phase = ph /\ r.time = job[i].time /\ r.value = job[i].value /\ r.active = job[i].active
  BY <1>1 DEF Jobs
<1>3. job' = [job EXCEPT ![i] = r]
  BY DEF Phased
<1> HIDE DEF r, Jobs
<1> QED
  BY <1>1, <1>2, <1>3

\* ... that has read an alarm, ...
Found(i, ph, k) == job' = [job EXCEPT ![i].phase = ph, ![i].active = k]

LEMMA FoundJob ==
    ASSUME TelemetryShape, NEW i \in Ingests, Busy(i), NEW ph \in Phases, NEW k \in Nat, Found(i, ph, k)
    PROVE  /\ job' \in [Ingests -> {IdleJob} \cup Jobs]
           /\ job'[i].phase = ph /\ job'[i].time = job[i].time /\ job'[i].value = job[i].value
           /\ job'[i].active = k
           /\ \A j \in Ingests \ {i} : job'[j] = job[j]
<1>1. job \in [Ingests -> {IdleJob} \cup Jobs] /\ job[i] \in Jobs
  BY BusyJob DEF TelemetryShape
<1> DEFINE p == [job EXCEPT ![i].phase = ph]
           r == [job[i] EXCEPT !.phase = ph]
           q == [r EXCEPT !.active = k]
<1>2. r \in Jobs /\ r.phase = ph /\ r.time = job[i].time /\ r.value = job[i].value
  BY <1>1 DEF Jobs
<1>3. p = [job EXCEPT ![i] = r]
  OBVIOUS
<1>4. job' = [p EXCEPT ![i].active = k]
  BY DEF Found
<1> HIDE DEF r, p
<1>5. q \in Jobs /\ q.phase = ph /\ q.time = job[i].time /\ q.value = job[i].value /\ q.active = k
  BY <1>2 DEF Jobs
<1>6. p[i] = r /\ DOMAIN p = Ingests /\ \A j \in Ingests \ {i} : p[j] = job[j]
  BY <1>1, <1>3
<1>7. job' = [p EXCEPT ![i] = q]
  BY <1>4, <1>6
<1> HIDE DEF q, Jobs
<1>8. job' = [j \in Ingests |-> IF j = i THEN q ELSE p[j]]
  BY <1>6, <1>7
<1> QED
  BY <1>1, <1>5, <1>6, <1>8

\* ... or that is over.
LEMMA EndedJob ==
    ASSUME TelemetryShape, NEW i \in Ingests, job' = [job EXCEPT ![i] = IdleJob]
    PROVE  /\ job' \in [Ingests -> {IdleJob} \cup Jobs]
           /\ job'[i] = IdleJob /\ job'[i].phase = "idle" /\ job'[i].active = 0 /\ ~Busy(i)'
           /\ \A j \in Ingests \ {i} : job'[j] = job[j]
<1>1. job \in [Ingests -> {IdleJob} \cup Jobs]
  BY DEF TelemetryShape
<1>2. job'[i] = IdleJob
  BY <1>1
<1>3. job'[i].phase = "idle" /\ job'[i].active = 0
  BY <1>2 DEF IdleJob
<1> HIDE DEF Jobs, IdleJob
<1> QED
  BY <1>1, <1>2, <1>3 DEF Busy

\* An alarm whose state changes.
Overwritten(k, st, c) == alarms' = [alarms EXCEPT ![k].state = st, ![k].clearedAt = c]

LEMMA WrittenAlarm ==
    ASSUME TelemetryShape, NEW k \in DOMAIN alarms, NEW st \in {"active", "returned"}, NEW c \in Times,
           Overwritten(k, st, c)
    PROVE  /\ alarms' \in Seq(Alarms) /\ Len(alarms') = Len(alarms) /\ DOMAIN alarms' = DOMAIN alarms
           /\ alarms'[k].state = st
           /\ \A j \in DOMAIN alarms : j # k => alarms'[j] = alarms[j]
<1>1. alarms \in Seq(Alarms) /\ alarms[k] \in Alarms
  BY AlarmNumbers DEF TelemetryShape
<1> DEFINE p == [alarms EXCEPT ![k].state = st]
           r == [alarms[k] EXCEPT !.state = st]
           q == [r EXCEPT !.clearedAt = c]
<1>2. r \in Alarms /\ r.state = st
  BY <1>1 DEF Alarms
<1>3. p = [alarms EXCEPT ![k] = r]
  OBVIOUS
<1>4. alarms' = [p EXCEPT ![k].clearedAt = c]
  BY DEF Overwritten
<1> HIDE DEF r, p
<1>5. q \in Alarms /\ q.state = st
  BY <1>2 DEF Alarms
<1>6. p \in Seq(Alarms) /\ DOMAIN p = DOMAIN alarms /\ Len(p) = Len(alarms) /\ p[k] = r
      /\ \A j \in DOMAIN alarms : j # k => p[j] = alarms[j]
  <2> HIDE DEF Alarms
  <2> QED
    BY <1>1, <1>2, <1>3
<1>7. alarms' = [p EXCEPT ![k] = q]
  BY <1>4, <1>6
<1> HIDE DEF q, Alarms
<1>8. k \in DOMAIN p /\ q \in Alarms
  BY <1>5, <1>6
<1> QED
  BY <1>5, <1>6, <1>7, <1>8

LEMMA AlarmAdded ==
    ASSUME TelemetryShape, NEW r \in Alarms, alarms' = Append(alarms, r)
    PROVE  /\ alarms' \in Seq(Alarms) /\ Len(alarms') = Len(alarms) + 1
           /\ DOMAIN alarms' = DOMAIN alarms \cup {Len(alarms) + 1}
           /\ alarms'[Len(alarms) + 1] = r
           /\ \A j \in DOMAIN alarms : alarms'[j] = alarms[j]
<1>1. alarms \in Seq(Alarms)
  BY DEF TelemetryShape
<1> HIDE DEF Alarms
<1> QED
  BY <1>1

LEMMA ActiveOf ==
    ASSUME NEW k \in DOMAIN alarms
    PROVE  k \in ActiveAlarms <=> alarms[k].state = "active"
  BY DEF ActiveAlarms

----
(* The steps. *)

LEMMA TelemetryInitInv == Init => TelemetryInv
<1> SUFFICES ASSUME Init PROVE TelemetryInv
  OBVIOUS
<1>1. /\ alarms = <<>> /\ job = [i \in Ingests |-> IdleJob] /\ last = {} /\ torn = {}
      /\ calm = FALSE /\ overlapped = FALSE /\ failed = FALSE
      /\ readings = [t \in Times |-> {}] /\ metered = [t \in Times |-> {}]
  BY DEF Init
<1>2. {} \in AtMostOne(Values)
  BY FS_EmptySet DEF AtMostOne
<1>3. Len(alarms) = 0 /\ DOMAIN alarms = {} /\ alarms \in Seq(Alarms)
  BY <1>1
<1>4. \A i \in Ingests : job[i] = IdleJob /\ job[i].phase = "idle" /\ job[i].active = 0
  BY <1>1 DEF IdleJob
<1>5. job \in [Ingests -> {IdleJob} \cup Jobs] /\ JobsInRange
  BY <1>1, <1>3, <1>4 DEF JobsInRange
<1>6. TelemetryShape
  BY <1>1, <1>2, <1>3, <1>5 DEF TelemetryShape
<1>7. NoneIsCalm /\ Watched
  BY <1>1, <1>4 DEF NoneIsCalm, Watched, Busy
<1>8. OneByOne
  <2>1. ActiveAlarms = {}
    BY <1>3 DEF ActiveAlarms
  <2> QED
    BY <1>1, <1>4, <2>1
       DEF OneByOne, OneIngest, OneAlarm, AlarmInHand, AlarmAtRest, MeterInHand, Busy
<1> QED
  BY <1>6, <1>7, <1>8 DEF TelemetryInv

\* A step that leaves the alarms alone.
LEMMA SameAlarms ==
    ASSUME UNCHANGED alarms
    PROVE  ActiveAlarms' = ActiveAlarms /\ \A hit : Tracks(hit)' <=> Tracks(hit)
  BY DEF ActiveAlarms, Tracks

LEMMA StoreKeeps ==
    ASSUME TelemetryInv, NEW i \in Ingests, NEW t \in Times, NEW v \in Values, Store(i, t, v)
    PROVE  TelemetryInv'
<1> DEFINE hit == EvaluateAlarmLimits(v)
           r == [phase |-> "observing", time |-> t, value |-> v, active |-> 0]
<1>0. TelemetryShape
  BY DEF TelemetryInv
<1>1. /\ ~Busy(i) /\ readings' = [readings EXCEPT ![t] = {v}] /\ job' = [job EXCEPT ![i] = r]
      /\ last' = {v} /\ calm' = (calm \/ hit = "none")
      /\ overlapped' = (overlapped \/ \E j \in Ingests : Busy(j))
      /\ torn' = torn \ {t} /\ UNCHANGED <<metered, alarms, failed>>
  BY DEF Store
<1>2. r \in Jobs /\ r.phase = "observing" /\ r.time = t /\ r.value = v /\ r.active = 0
  BY DEF Jobs, Phases
<1> HIDE DEF r, hit
<1>3. /\ job' \in [Ingests -> {IdleJob} \cup Jobs] /\ job'[i] = r /\ \A j \in Ingests \ {i} : job'[j] = job[j]
  BY <1>0, <1>1, <1>2 DEF TelemetryShape
<1>4. /\ readings' \in [Times -> AtMostOne(Values)] /\ readings'[t] = {v}
      /\ \A u \in Times \ {t} : readings'[u] = readings[u]
  <2>1. {v} \in AtMostOne(Values)
    BY SmallSets
  <2> QED
    BY <1>0, <1>1, <2>1 DEF TelemetryShape
<1>5. TelemetryShape'
  <2>1. JobsInRange'
    <3>1. \A j \in Ingests \ {i} : Hit(j)' = Hit(j)
      BY <1>3 DEF Hit, EvaluateAlarmLimits, Reached
    <3> QED
      BY <1>0, <1>1, <1>2, <1>3, <3>1, AlarmNumbers DEF TelemetryShape, JobsInRange
  <2>2. last' \in AtMostOne(Values)
    BY <1>1, SmallSets
  <2>3. torn' \subseteq Times /\ calm' \in BOOLEAN /\ overlapped' \in BOOLEAN
    BY <1>0, <1>1 DEF TelemetryShape
  <2> QED
    BY <1>0, <1>1, <1>3, <1>4, <2>1, <2>2, <2>3 DEF TelemetryShape, Alarms, AlarmTypes, Jobs, IdleJob
<1>6. NoneIsCalm'
  BY <1>1, <1>2, <1>3 DEF TelemetryInv, NoneIsCalm, Busy, Hit, hit
<1>7. Watched'
  BY <1>2, <1>3 DEF Watched
<1>8. ASSUME ~overlapped' PROVE OneIngest' /\ OneAlarm' /\ AlarmInHand' /\ AlarmAtRest' /\ MeterInHand'
  <2>1. \A j \in Ingests : ~Busy(j)
    BY <1>1, <1>8
  <2>2. \A j \in Ingests \ {i} : ~Busy(j)' /\ job'[j].phase = "idle"
    BY <1>3, <2>1 DEF Busy
  <2>3. Busy(i)' /\ ~Idle'
    BY <1>2, <1>3 DEF Busy, Idle
  <2>4. OneIngest' /\ AlarmAtRest'
    BY <2>2, <2>3 DEF OneIngest, AlarmAtRest
  <2>5. OneAlarm'
    BY <1>1, <1>8, SameAlarms DEF TelemetryInv, OneByOne, OneAlarm
  <2>6. AlarmInHand'
    BY <1>1, <1>2, <1>3, <2>2 DEF AlarmInHand
  <2>7. MeterInHand'
    <3>1. \A u \in Times \ torn' : u # t => metered'[u] = readings'[u]
      BY <1>1, <1>4, <1>8, <2>1 DEF TelemetryInv, OneByOne, MeterInHand
    <3>2. job'[i].time = t /\ readings'[job'[i].time] = {job'[i].value}
      BY <1>2, <1>3, <1>4
    <3> QED
      BY <2>2, <2>3, <3>1, <3>2 DEF MeterInHand
  <2> QED
    BY <2>4, <2>5, <2>6, <2>7
<1> QED
  BY <1>5, <1>6, <1>7, <1>8 DEF TelemetryInv, OneByOne

LEMMA FindKeeps ==
    ASSUME TelemetryInv, NEW i \in Ingests, FindActive(i)
    PROVE  TelemetryInv'
<1>0. TelemetryShape
  BY DEF TelemetryInv
<1>1. PICK k \in 0..Len(alarms) : IsNewestActive(k) /\ Found(i, AfterFind(job[i].value, k), k)
  BY DEF FindActive, Found
<1>2. /\ job[i].phase = "observing" /\ Busy(i)
      /\ UNCHANGED <<readings, metered, alarms, last, calm, overlapped, failed, torn>>
  BY DEF FindActive, Busy
<1> DEFINE ph == AfterFind(job[i].value, k)
<1>3. /\ ph \in {"returning", "raising", "metering"}
      /\ ph = "returning" => k # 0 /\ alarms[k].type # Hit(i)
      /\ ph = "raising" => k = 0 /\ Hit(i) # "none"
      /\ ph = "metering" => IF k = 0 THEN Hit(i) = "none" ELSE alarms[k].type = Hit(i)
  BY DEF AfterFind, Hit
<1> HIDE DEF ph
<1>4. /\ job' \in [Ingests -> {IdleJob} \cup Jobs]
      /\ job'[i].phase = ph /\ job'[i].time = job[i].time /\ job'[i].value = job[i].value
      /\ job'[i].active = k
      /\ \A j \in Ingests \ {i} : job'[j] = job[j]
  <2>1. k \in Nat /\ ph \in Phases
    BY <1>0, <1>3, AlarmNumbers DEF Phases
  <2> QED
    BY <1>0, <1>1, <1>2, <2>1, FoundJob DEF ph
<1>5. /\ k = 0 => ActiveAlarms = {}
      /\ k # 0 => k \in ActiveAlarms
  BY <1>1 DEF IsNewestActive
<1>6. \A j \in Ingests : Busy(j)' <=> Busy(j)
  BY <1>2, <1>3, <1>4 DEF Busy
<1>7. \A j \in Ingests : Hit(j)' = Hit(j) /\ job'[j].value = job[j].value /\ job'[j].time = job[j].time
  <2>1. \A j \in Ingests : job'[j].value = job[j].value /\ job'[j].time = job[j].time
    BY <1>4
  <2> QED
    BY <2>1 DEF Hit, EvaluateAlarmLimits, Reached
<1>8. TelemetryShape'
  <2>1. JobsInRange'
    BY <1>0, <1>2, <1>3, <1>4, <1>7 DEF TelemetryShape, JobsInRange
  <2> QED
    BY <1>0, <1>2, <1>4, <2>1 DEF TelemetryShape, Alarms, AlarmTypes, Jobs, IdleJob
<1>9. NoneIsCalm'
  BY <1>2, <1>6, <1>7 DEF TelemetryInv, NoneIsCalm
<1>10. Watched'
  BY <1>2, <1>3, <1>4, <1>5, <1>9, <1>6, <1>7, SameAlarms DEF TelemetryInv, Watched, NoneIsCalm
<1>11. ASSUME ~overlapped PROVE OneIngest' /\ OneAlarm' /\ AlarmInHand' /\ AlarmAtRest' /\ MeterInHand'
  <2>1. OneIngest /\ OneAlarm /\ AlarmInHand /\ MeterInHand
    BY <1>11 DEF TelemetryInv, OneByOne
  <2>2. OneIngest' /\ OneAlarm' /\ AlarmAtRest'
    BY <1>2, <1>6, <2>1, SameAlarms DEF OneIngest, OneAlarm, AlarmAtRest, Idle
  <2>3. MeterInHand'
    BY <1>2, <1>6, <1>7, <2>1 DEF MeterInHand
  <2>4. \A j \in Ingests : j # i => job'[j].phase = "idle"
    BY <1>2, <1>4, <2>1 DEF OneIngest, Busy
  <2>5. ph = "returning" => ActiveAlarms = {k}
    BY <1>3, <1>5, <2>1 DEF OneAlarm
  <2>6. ph = "metering" => Tracks(Hit(i))
    BY <1>3, <1>5, <2>1 DEF OneAlarm, Tracks
  <2>7. AlarmInHand'
    <3>1. ~Busy(i)' \/ last' = {job'[i].value}
      BY <1>2, <1>7, <2>1 DEF AlarmInHand
    <3>2. job'[i].phase = "returning" => ActiveAlarms' = {job'[i].active}
      BY <1>2, <1>4, <2>5, SameAlarms
    <3>3. job'[i].phase = "raising" => ActiveAlarms' = {}
      BY <1>2, <1>3, <1>4, <1>5, SameAlarms
    <3>4. job'[i].phase = "metering" => Tracks(Hit(i))'
      <4>1. Hit(i)' = Hit(i)
        BY <1>7
      <4> QED
        BY <1>2, <1>4, <2>6, <4>1 DEF Tracks, ActiveAlarms
    <3> QED
      BY <2>4, <3>1, <3>2, <3>3, <3>4 DEF AlarmInHand, Busy
  <2> QED
    BY <2>2, <2>3, <2>7
<1> QED
  BY <1>2, <1>8, <1>9, <1>10, <1>11 DEF TelemetryInv, OneByOne

LEMMA ReturnKeeps ==
    ASSUME TelemetryInv, NEW i \in Ingests, ReturnAlarm(i)
    PROVE  TelemetryInv'
<1> DEFINE k == job[i].active
           ph == IF Hit(i) = "none" THEN "metering" ELSE "raising"
<1>0. TelemetryShape
  BY DEF TelemetryInv
<1>1. /\ job[i].phase = "returning" /\ Busy(i) /\ Phased(i, ph)
      /\ Overwritten(k, "returned", job[i].time)
      /\ UNCHANGED <<readings, metered, last, calm, overlapped, failed, torn>>
  BY DEF ReturnAlarm, Busy, Phased, Overwritten, Hit
<1>2. ph \in Phases /\ ph \in {"metering", "raising"}
  BY DEF Phases
<1>3. job[i].time \in Times /\ k \in DOMAIN alarms
  <2>1. k \in 0..Len(alarms) /\ k # 0
    BY <1>0, <1>1 DEF TelemetryShape, JobsInRange
  <2>2. k \in DOMAIN alarms
    BY <1>0, <2>1, AlarmNumbers
  <2>3. job[i].time \in Times
    BY <1>0, <1>1, BusyJob DEF Jobs
  <2> QED
    BY <2>2, <2>3
<1>4. /\ job' \in [Ingests -> {IdleJob} \cup Jobs]
      /\ job'[i].phase = ph /\ job'[i].time = job[i].time /\ job'[i].value = job[i].value
      /\ job'[i].active = k
      /\ \A j \in Ingests \ {i} : job'[j] = job[j]
  <2> HIDE DEF ph
  <2> QED
    BY <1>0, <1>1, <1>2, PhasedJob
<1>5. /\ alarms' \in Seq(Alarms) /\ Len(alarms') = Len(alarms) /\ DOMAIN alarms' = DOMAIN alarms
      /\ alarms'[k].state = "returned"
      /\ \A j \in DOMAIN alarms : j # k => alarms'[j] = alarms[j]
  <2> HIDE DEF k
  <2> QED
    BY <1>0, <1>1, <1>3, WrittenAlarm
<1>6. \A j \in Ingests : /\ Busy(j)' <=> Busy(j)
                         /\ Hit(j)' = Hit(j) /\ job'[j].value = job[j].value /\ job'[j].time = job[j].time
  <2>1. \A j \in Ingests : job'[j].value = job[j].value /\ job'[j].time = job[j].time
    BY <1>4
  <2> QED
    BY <1>1, <1>2, <1>4, <2>1 DEF Busy, Hit, EvaluateAlarmLimits, Reached
<1> HIDE DEF k, ph
<1>7. TelemetryShape'
  <2>1. JobsInRange'
    BY <1>0, <1>1, <1>3, <1>4, <1>5, <1>6 DEF TelemetryShape, JobsInRange, ph
  <2> QED
    BY <1>0, <1>1, <1>4, <1>5, <2>1 DEF TelemetryShape, Alarms, AlarmTypes, Jobs, IdleJob
<1>8. NoneIsCalm'
  BY <1>1, <1>6 DEF TelemetryInv, NoneIsCalm
<1>9. Watched'
  <2>1. ~calm => job'[i].phase = "raising"
    BY <1>1, <1>4 DEF TelemetryInv, NoneIsCalm, ph
  <2> QED
    BY <1>1, <2>1 DEF Watched
<1>10. ASSUME ~overlapped PROVE OneIngest' /\ OneAlarm' /\ AlarmInHand' /\ AlarmAtRest' /\ MeterInHand'
  <2>1. OneIngest /\ OneAlarm /\ AlarmInHand /\ MeterInHand
    BY <1>10 DEF TelemetryInv, OneByOne
  <2>2. ActiveAlarms = {k}
    BY <1>1, <2>1 DEF AlarmInHand, k
  <2>3. ActiveAlarms' = {}
    BY <1>5, <2>2 DEF ActiveAlarms
  <2>4. OneIngest' /\ OneAlarm' /\ AlarmAtRest'
    BY <1>1, <1>6, <2>1, <2>3 DEF OneIngest, OneAlarm, AlarmAtRest, Idle
  <2>5. MeterInHand'
    BY <1>1, <1>6, <2>1 DEF MeterInHand
  <2>6. \A j \in Ingests : j # i => job'[j].phase = "idle"
    BY <1>1, <1>4, <2>1 DEF OneIngest, Busy
  <2>7. AlarmInHand'
    <3>1. last' = {job'[i].value}
      BY <1>1, <1>6, <2>1 DEF AlarmInHand
    <3>2. job'[i].phase = "metering" => Tracks(Hit(i))'
      BY <1>4, <1>6, <2>3 DEF ph, Tracks
    <3> QED
      BY <1>2, <1>4, <2>3, <2>6, <3>1, <3>2 DEF AlarmInHand, Busy
  <2> QED
    BY <2>4, <2>5, <2>7
<1> QED
  BY <1>1, <1>7, <1>8, <1>9, <1>10 DEF TelemetryInv, OneByOne

LEMMA RaiseKeeps ==
    ASSUME TelemetryInv, NEW i \in Ingests, Raise(i)
    PROVE  TelemetryInv'
<1> DEFINE r == [type |-> Hit(i), startedAt |-> job[i].time, clearedAt |-> NotCleared, state |-> "active"]
           new == Len(alarms) + 1
<1>0. TelemetryShape
  BY DEF TelemetryInv
<1>1. /\ job[i].phase = "raising" /\ Busy(i) /\ Phased(i, "metering") /\ alarms' = Append(alarms, r)
      /\ UNCHANGED <<readings, metered, last, calm, overlapped, failed, torn>>
  BY DEF Raise, Busy, Phased, Hit
<1>2. job[i].time \in Times
  BY <1>0, <1>1, BusyJob DEF Jobs
<1>3. /\ job' \in [Ingests -> {IdleJob} \cup Jobs]
      /\ job'[i].phase = "metering" /\ job'[i].time = job[i].time /\ job'[i].value = job[i].value
      /\ job'[i].active = job[i].active
      /\ \A j \in Ingests \ {i} : job'[j] = job[j]
  <2>1. "metering" \in Phases
    BY DEF Phases
  <2> QED
    BY <1>0, <1>1, <2>1, PhasedJob
<1>4. \A j \in Ingests : /\ Busy(j)' <=> Busy(j)
                         /\ Hit(j)' = Hit(j) /\ job'[j].value = job[j].value /\ job'[j].time = job[j].time
  <2>1. \A j \in Ingests : job'[j].value = job[j].value /\ job'[j].time = job[j].time
    BY <1>3
  <2> QED
    BY <1>1, <1>3, <2>1 DEF Busy, Hit, EvaluateAlarmLimits, Reached
<1>5. /\ alarms' \in Seq(Alarms) /\ DOMAIN alarms' = DOMAIN alarms \cup {new}
      /\ Len(alarms') = new /\ Len(alarms) \in Nat
      /\ alarms'[new].type = Hit(i) /\ Hit(i) # "none"
      /\ \A j \in DOMAIN alarms : alarms'[j] = alarms[j]
      /\ ActiveAlarms' = ActiveAlarms \cup {new}
  <2>1. Hit(i) # "none" /\ Len(alarms) \in Nat
    <3>1. JobsInRange
      BY <1>0 DEF TelemetryShape
    <3>2. Hit(i) # "none"
      BY <1>1, <3>1 DEF JobsInRange
    <3> QED
      BY <1>0, <3>2, AlarmNumbers
  <2>2. r \in Alarms /\ r.state = "active" /\ r.type = Hit(i)
    BY <1>2, <2>1, HitIsType DEF Alarms, Hit
  <2> HIDE DEF r
  <2>3. /\ alarms' \in Seq(Alarms) /\ DOMAIN alarms' = DOMAIN alarms \cup {new}
        /\ Len(alarms') = new /\ alarms'[new] = r
        /\ \A j \in DOMAIN alarms : alarms'[j] = alarms[j]
    BY <1>0, <1>1, <2>2, AlarmAdded
  <2>4. ActiveAlarms' = ActiveAlarms \cup {new}
    BY <2>2, <2>3 DEF ActiveAlarms
  <2> QED
    BY <2>1, <2>2, <2>3, <2>4
<1> HIDE DEF r
<1>6. TelemetryShape'
  <2>1. JobsInRange'
    BY <1>0, <1>3, <1>4, <1>5 DEF TelemetryShape, JobsInRange
  <2> QED
    BY <1>0, <1>1, <1>3, <1>5, <2>1 DEF TelemetryShape, Alarms, AlarmTypes, Jobs, IdleJob
<1>7. NoneIsCalm'
  BY <1>1, <1>4 DEF TelemetryInv, NoneIsCalm
<1>8. Watched'
  BY <1>5 DEF Watched
<1>9. ASSUME ~overlapped PROVE OneIngest' /\ OneAlarm' /\ AlarmInHand' /\ AlarmAtRest' /\ MeterInHand'
  <2>1. OneIngest /\ AlarmInHand /\ MeterInHand
    BY <1>9 DEF TelemetryInv, OneByOne
  <2>2. ActiveAlarms' = {new}
    BY <1>1, <1>5, <2>1 DEF AlarmInHand
  <2>3. OneIngest' /\ OneAlarm' /\ AlarmAtRest'
    BY <1>1, <1>4, <2>1, <2>2 DEF OneIngest, OneAlarm, AlarmAtRest, Idle
  <2>4. MeterInHand'
    BY <1>1, <1>4, <2>1 DEF MeterInHand
  <2>5. \A j \in Ingests : j # i => job'[j].phase = "idle"
    BY <1>1, <1>3, <2>1 DEF OneIngest, Busy
  <2>6. last' = {job'[i].value}
    BY <1>1, <1>4, <2>1 DEF AlarmInHand
  <2>7. Tracks(Hit(i))'
    BY <1>4, <1>5, <2>2 DEF Tracks
  <2>8. AlarmInHand'
    BY <1>3, <2>5, <2>6, <2>7 DEF AlarmInHand, Busy
  <2> QED
    BY <2>3, <2>4, <2>8
<1> QED
  BY <1>1, <1>6, <1>7, <1>8, <1>9 DEF TelemetryInv, OneByOne

LEMMA MeterKeeps ==
    ASSUME TelemetryInv, NEW i \in Ingests, Meter(i)
    PROVE  TelemetryInv'
<1>0. TelemetryShape
  BY DEF TelemetryInv
<1>1. /\ job[i].phase = "metering" /\ Busy(i) /\ job' = [job EXCEPT ![i] = IdleJob]
      /\ metered' = [metered EXCEPT ![job[i].time] = {job[i].value}]
      /\ UNCHANGED <<readings, alarms, last, calm, overlapped, failed, torn>>
  BY DEF Meter, Busy
<1>2. job[i].time \in Times /\ job[i].value \in Values
  BY <1>0, <1>1, BusyJob DEF Jobs
<1>3. /\ job' \in [Ingests -> {IdleJob} \cup Jobs]
      /\ job'[i].phase = "idle" /\ job'[i].active = 0 /\ ~Busy(i)'
      /\ \A j \in Ingests \ {i} : job'[j] = job[j]
  BY <1>0, <1>1, EndedJob
<1>4. \A j \in Ingests \ {i} : (Busy(j)' <=> Busy(j)) /\ Hit(j)' = Hit(j)
  BY <1>3 DEF Busy, Hit, EvaluateAlarmLimits, Reached
<1>5. /\ metered' \in [Times -> AtMostOne(Values)] /\ metered'[job[i].time] = {job[i].value}
      /\ \A t \in Times : t # job[i].time => metered'[t] = metered[t]
  <2>1. {job[i].value} \in AtMostOne(Values)
    BY <1>2, SmallSets
  <2> QED
    BY <1>0, <1>1, <1>2, <2>1 DEF TelemetryShape
<1>6. TelemetryShape'
  <2>1. JobsInRange'
    BY <1>0, <1>1, <1>3, <1>4, AlarmNumbers DEF TelemetryShape, JobsInRange
  <2> QED
    BY <1>0, <1>1, <1>3, <1>5, <2>1 DEF TelemetryShape, Alarms, AlarmTypes, Jobs, IdleJob
<1>7. NoneIsCalm'
  BY <1>1, <1>3, <1>4 DEF TelemetryInv, NoneIsCalm
<1>8. Watched'
  <2>1. \A j \in Ingests : job[j].phase \in {"observing", "returning", "raising"} => job'[j].phase = job[j].phase
    BY <1>1, <1>3
  <2> QED
    BY <1>1, <2>1, SameAlarms DEF TelemetryInv, Watched
<1>9. ASSUME ~overlapped PROVE OneIngest' /\ OneAlarm' /\ AlarmInHand' /\ AlarmAtRest' /\ MeterInHand'
  <2>1. OneIngest /\ OneAlarm /\ AlarmInHand /\ MeterInHand
    BY <1>9 DEF TelemetryInv, OneByOne
  <2>2. \A j \in Ingests : ~Busy(j)' /\ job'[j].phase = "idle"
    BY <1>1, <1>3, <2>1 DEF OneIngest, Busy
  <2>3. OneIngest' /\ OneAlarm' /\ AlarmInHand'
    BY <1>1, <2>1, <2>2, SameAlarms DEF OneIngest, OneAlarm, AlarmInHand
  <2>4. AlarmAtRest'
    <3>1. last = {job[i].value} /\ Tracks(Hit(i))
      BY <1>1, <2>1 DEF AlarmInHand
    <3> QED
      BY <1>1, <3>1 DEF AlarmAtRest, Tracks, ActiveAlarms, Hit, EvaluateAlarmLimits, Reached
  <2>5. MeterInHand'
    <3>1. readings[job[i].time] = {job[i].value}
      BY <1>1, <2>1 DEF MeterInHand
    <3>2. ASSUME NEW t \in Times \ torn PROVE metered'[t] = readings[t]
      <4>1. CASE t = job[i].time
        BY <1>5, <3>1, <4>1
      <4>2. CASE t # job[i].time
        BY <1>1, <1>5, <2>1, <4>2 DEF MeterInHand, OneIngest
      <4> QED
        BY <4>1, <4>2
    <3> QED
      BY <1>1, <2>2, <3>2 DEF MeterInHand
  <2> QED
    BY <2>3, <2>4, <2>5
<1> QED
  BY <1>1, <1>6, <1>7, <1>8, <1>9 DEF TelemetryInv, OneByOne

LEMMA FailKeeps ==
    ASSUME TelemetryInv, NEW i \in Ingests, Fail(i)
    PROVE  TelemetryInv'
<1>0. TelemetryShape
  BY DEF TelemetryInv
<1>1. /\ Busy(i) /\ job' = [job EXCEPT ![i] = IdleJob]
      /\ failed' = TRUE /\ last' = {} /\ torn' = torn \cup {job[i].time}
      /\ UNCHANGED <<readings, metered, alarms, calm, overlapped>>
  BY DEF Fail
<1>2. job[i].time \in Times
  BY <1>0, <1>1, BusyJob DEF Jobs
<1>3. /\ job' \in [Ingests -> {IdleJob} \cup Jobs]
      /\ job'[i].phase = "idle" /\ job'[i].active = 0 /\ ~Busy(i)'
      /\ \A j \in Ingests \ {i} : job'[j] = job[j]
  BY <1>0, <1>1, EndedJob
<1>4. \A j \in Ingests \ {i} : (Busy(j)' <=> Busy(j)) /\ Hit(j)' = Hit(j)
  BY <1>3 DEF Busy, Hit, EvaluateAlarmLimits, Reached
<1>5. TelemetryShape'
  <2>1. JobsInRange'
    BY <1>0, <1>1, <1>3, <1>4, AlarmNumbers DEF TelemetryShape, JobsInRange
  <2>2. torn' \subseteq Times /\ last' \in AtMostOne(Values) /\ failed' \in BOOLEAN
    BY <1>0, <1>1, <1>2, FS_EmptySet DEF TelemetryShape, AtMostOne
  <2> QED
    BY <1>0, <1>1, <1>3, <2>1, <2>2 DEF TelemetryShape, Alarms, AlarmTypes, Jobs, IdleJob
<1>6. NoneIsCalm' /\ Watched'
  BY <1>1, <1>3, <1>4 DEF TelemetryInv, NoneIsCalm, Watched
<1>7. ASSUME ~overlapped PROVE OneIngest' /\ OneAlarm' /\ AlarmInHand' /\ AlarmAtRest' /\ MeterInHand'
  <2>1. OneIngest /\ OneAlarm /\ MeterInHand
    BY <1>7 DEF TelemetryInv, OneByOne
  <2>2. \A j \in Ingests : ~Busy(j)' /\ job'[j].phase = "idle"
    BY <1>1, <1>3, <2>1 DEF OneIngest, Busy
  <2>3. OneIngest' /\ OneAlarm' /\ AlarmInHand' /\ AlarmAtRest'
    BY <1>1, <2>1, <2>2, SameAlarms DEF OneIngest, OneAlarm, AlarmInHand, AlarmAtRest
  <2>4. MeterInHand'
    BY <1>1, <2>1, <2>2 DEF MeterInHand, OneIngest
  <2> QED
    BY <2>3, <2>4
<1> QED
  BY <1>1, <1>5, <1>6, <1>7 DEF TelemetryInv, OneByOne

LEMMA TelemetryStep == TelemetryInv /\ [Next]_vars => TelemetryInv'
<1> SUFFICES ASSUME TelemetryInv, [Next]_vars PROVE TelemetryInv'
  OBVIOUS
<1>1. CASE UNCHANGED vars
  BY <1>1 DEF vars, TelemetryInv, TelemetryShape, JobsInRange, NoneIsCalm, Watched, OneByOne,
              OneIngest, OneAlarm, AlarmInHand, AlarmAtRest, MeterInHand, Tracks, ActiveAlarms, Busy,
              Idle, Hit, EvaluateAlarmLimits, Reached, Alarms, AlarmTypes, Jobs, IdleJob
<1> QED
  BY <1>1, StoreKeeps, FindKeeps, ReturnKeeps, RaiseKeeps, MeterKeeps, FailKeeps DEF Next, IngestStep

----
(* The theorems. *)

\* Types of the state of ingest, observeReading and observeTagReading.
THEOREM TelemetryTyped == Spec => []TypeOK
<1>1. TelemetryInv => TypeOK
  BY ShapeIsType DEF TelemetryInv
<1> QED
  BY TelemetryInitInv, TelemetryStep, <1>1, PTL DEF Spec

\* observeReading, ingest after ingest: the tag has exactly the alarm that its last
\* reading calls for, whatever limits it has and whatever failed before.
THEOREM AlarmsTrackLast == Spec => []AlarmTracksLast
<1>1. TelemetryInv => AlarmTracksLast
  <2> SUFFICES ASSUME TelemetryInv, Idle, ~overlapped, last # {}
               PROVE  /\ {alarms[k].type : k \in ActiveAlarms} =
                              {EvaluateAlarmLimits(v) : v \in last} \ {"none"}
                      /\ Cardinality(ActiveAlarms) <= 1
    BY DEF AlarmTracksLast
  <2>1. TelemetryShape /\ OneAlarm /\ \A v \in last : Tracks(EvaluateAlarmLimits(v))
    BY DEF TelemetryInv, OneByOne, AlarmAtRest
  <2>2. \A k \in ActiveAlarms : alarms[k].type # "none"
    BY <2>1, AlarmNumbers DEF Alarms, AlarmTypes
  <2>3. PICK v \in last : TRUE
    OBVIOUS
  <2>4. {alarms[k].type : k \in ActiveAlarms} = {EvaluateAlarmLimits(w) : w \in last} \ {"none"}
    BY <2>1, <2>2, <2>3 DEF Tracks
  <2>5. Cardinality(ActiveAlarms) <= 1
    <3>1. ActiveAlarms = {} \/ \E k : ActiveAlarms = {k}
      BY <2>1 DEF OneAlarm
    <3>2. CASE ActiveAlarms = {}
      BY <3>2, FS_EmptySet
    <3>3. ASSUME NEW k, ActiveAlarms = {k} PROVE Cardinality(ActiveAlarms) <= 1
      <4>1. Cardinality({k}) = 1
        BY FS_Singleton
      <4> QED
        BY <3>3, <4>1
    <3> QED
      BY <3>1, <3>2, <3>3
  <2> QED
    BY <2>4, <2>5
<1> QED
  BY TelemetryInitInv, TelemetryStep, <1>1, PTL DEF Spec

\* observeReading under overlapping ingests: a tag that was never within its limits
\* has an active alarm once they are over.
THEOREM NotSilenced == Spec => []NeverSilenced
<1>1. TelemetryInv => NeverSilenced
  BY DEF TelemetryInv, Watched, NeverSilenced, Idle, Busy
<1> QED
  BY TelemetryInitInv, TelemetryStep, <1>1, PTL DEF Spec

\* ingest stores a reading and observeTagReading copies it: after ingests one at a
\* time the meter has what the tag has, except where the newest ended early.
THEOREM MetersFollowTag == Spec => []MeterFollowsTag
<1>1. TelemetryInv => MeterFollowsTag
  BY DEF TelemetryInv, OneByOne, MeterInHand, MeterFollowsTag, Idle
<1> QED
  BY TelemetryInitInv, TelemetryStep, <1>1, PTL DEF Spec
====
