---- MODULE MaintenanceProofs ----
(***************************************************************************)
(* What holds of schedule() for every number of plans, technicians and      *)
(* overlapping requests, every length of the working day and every start of *)
(* the shift.                                                               *)
(***************************************************************************)
EXTENDS Maintenance, FiniteSetTheorems, SequenceTheorems, TLAPS

Cells == [cursor : Nat, used : Nat]

Assignments == [plan : Nat, technician : Technicians, start : Nat, end : Nat]

\* A technician is free k days after the horizon, after the hours used that day.
OnShift(cell, option) ==
    \E k \in Nat : cell.cursor = option.horizon + k * CalendarDay + cell.used

\* The loop's own invariant: technicians are on a shift, their assignments are over
\* by the time they are free, apart from each other and within the day.
LoopOK(c) ==
    /\ \A t \in Technicians : OnShift(c.state[t], c.option)
    /\ \A n \in DOMAIN c.result :
           /\ c.result[n].end <= c.state[c.result[n].technician].cursor
           /\ Hours(c.result[n]) <= c.option.workingHours =>
                  InShift(c.result[n].start, Hours(c.result[n]), c.option)
    /\ \A m, n \in DOMAIN c.result : m # n => Apart(c.result[m], c.result[n])

----
\* startOfNextWorkingDay() is later than what it is computed from, and a number of
\* whole days after the horizon.
LEMMA NextDayIsLater ==
    ASSUME NEW horizon \in Nat, NEW cursor \in Nat, cursor >= horizon
    PROVE  LET next == StartOfNextWorkingDay(horizon % CalendarDay, cursor)
           IN  /\ next \in Nat /\ next >= cursor
               /\ \E k \in Nat : next = horizon + k * CalendarDay
<1> DEFINE q == horizon \div 24
           m == horizon % 24
           d == cursor \div 24
           e == cursor % 24
<1>1. /\ q \in Nat /\ m \in 0..23 /\ horizon = q * 24 + m
      /\ d \in Nat /\ e \in 0..23 /\ cursor = d * 24 + e
  OBVIOUS
<1>2. StartOfNextWorkingDay(horizon % CalendarDay, cursor) = (d + 1) * 24 + m
  BY DEF StartOfNextWorkingDay, CalendarDay
<1>3. d + 1 - q \in Nat
  <2> HIDE DEF q, m, d, e
  <2> QED BY <1>1
<1>4. (d + 1) * 24 + m = horizon + (d + 1 - q) * 24
  <2> HIDE DEF q, m, d, e
  <2> QED BY <1>1
<1>5. (d + 1) * 24 + m >= cursor
  <2> HIDE DEF q, m, d, e
  <2> QED BY <1>1
<1>6. \E k \in Nat : (d + 1) * 24 + m = horizon + k * 24
  BY <1>3, <1>4
<1>7. (d + 1) * 24 + m \in Nat
  <2> HIDE DEF q, m, d, e
  <2> QED BY <1>1
<1> HIDE DEF q, m, d, e
<1> QED BY <1>2, <1>5, <1>6, <1>7 DEF CalendarDay

\* addWorkingHours(): the job starts when the technician is free or later, he stays on
\* a shift, and the job lies within it.
LEMMA JobStaysOnShift ==
    ASSUME NEW option \in Options, NEW cell \in Cells, OnShift(cell, option),
           NEW hours \in Nat
    PROVE  LET start == StartOf(cell.cursor, cell.used, hours, option)
           IN  /\ start \in Nat /\ start >= cell.cursor
               /\ OnShift([cursor |-> start + hours,
                           used |-> UsedAfter(cell.used, hours, option)], option)
               /\ hours <= option.workingHours => InShift(start, hours, option)
<1> DEFINE horizon == option.horizon
           start == StartOf(cell.cursor, cell.used, hours, option)
           used == UsedAfter(cell.used, hours, option)
           next == StartOfNextWorkingDay(horizon % CalendarDay, cell.cursor)
<1>1. horizon \in Nat /\ option.workingHours \in Nat
  BY MaintenanceAssumption
<1>2. cell.cursor \in Nat /\ cell.used \in Nat
  BY DEF Cells
<1>3. PICK k \in Nat : cell.cursor = horizon + k * 24 + cell.used
  BY DEF OnShift, CalendarDay
<1>4. CASE Fits(cell.used, hours, option.workingHours)
  <2>1. start = cell.cursor /\ used = cell.used + hours
    BY <1>4 DEF StartOf, UsedAfter
  <2>2. start + hours = horizon + k * 24 + used
    BY <1>1, <1>2, <1>3, <2>1
  <2>3. used \in Nat
    BY <1>2, <2>1
  <2>4. OnShift([cursor |-> start + hours, used |-> used], option)
    BY <2>2, <2>3 DEF OnShift, CalendarDay
  <2>5. InShift(start, hours, option)
    <3>1. start - horizon = k * 24 + cell.used
      BY <1>1, <1>2, <1>3, <2>1
    <3>2. start >= horizon
      BY <1>1, <1>2, <1>3, <2>1
    <3>3. (k * 24 + cell.used) % 24 <= cell.used
      BY <1>2
    <3>4. cell.used + hours <= option.workingHours
      BY <1>4 DEF Fits
    <3>5. (start - horizon) % 24 \in Nat
      BY <3>1, <1>2
    <3>6. ((start - horizon) % 24) + hours <= option.workingHours
      BY <1>1, <1>2, <3>1, <3>3, <3>4, <3>5
    <3> QED BY <3>2, <3>6 DEF InShift, CalendarDay
  <2> QED BY <1>2, <2>1, <2>4, <2>5
<1>5. CASE ~Fits(cell.used, hours, option.workingHours)
  <2>1. start = next /\ used = hours
    BY <1>5 DEF StartOf, UsedAfter
  <2>2. cell.cursor >= horizon
    BY <1>1, <1>2, <1>3
  <2>3. /\ next \in Nat /\ next >= cell.cursor
        /\ \E j \in Nat : next = horizon + j * CalendarDay
    BY <1>1, <1>2, <2>2, NextDayIsLater
  <2>4. PICK j \in Nat : next = horizon + j * 24
    BY <2>3 DEF CalendarDay
  <2>5. start + hours = horizon + j * 24 + used
    BY <1>1, <2>1, <2>4
  <2>6. OnShift([cursor |-> start + hours, used |-> used], option)
    BY <2>5, <2>1 DEF OnShift, CalendarDay
  <2>7. ASSUME hours <= option.workingHours
        PROVE  InShift(start, hours, option)
    <3>1. start - horizon = j * 24 /\ start >= horizon
      BY <1>1, <2>1, <2>4
    <3>2. (start - horizon) % 24 = 0
      BY <3>1
    <3> QED BY <2>7, <3>1, <3>2 DEF InShift, CalendarDay
  <2> QED BY <2>1, <2>3, <2>6, <2>7
<1> QED BY <1>4, <1>5

----
\* RoundOK and the shape of any request, when P is the set of plan ids there are.
RoundIn(c, P) ==
    /\ c \in Rounds
    /\ \A k \in DOMAIN c.queue : c.queue[k] \in P
    /\ \A n \in DOMAIN c.result : c.result[n].plan \in P
    /\ (c.phase = "assigning") <=> (c.queue # <<>>)
    /\ IF c.phase = "assigning" THEN c.written = 0 ELSE c.written < Len(c.result)

CallIn(c, P) == \/ c = IdleCall
                \/ c \in [phase : {"recording"}, entry : Entries]
                \/ RoundIn(c, P) /\ LoopOK(c)

CallsIn(calling, P) ==
    DOMAIN calling = Requests /\ \A r \in Requests : CallIn(calling[r], P)

Rows == [job : Jobs, status : PlanStatuses,
         booking : [technician : SUBSET Technicians, start : Nat, end : Nat]]

Plans == Seq(Rows)

\* The inductive invariant: TypeOK, and the loop's own for every schedule().
LoopInv ==
    /\ plans \in Plans
    /\ recorded \subseteq Entries
    /\ CallsIn(call, DOMAIN plans)
    /\ calls \in 0..MaxCalls
    /\ settled \in BOOLEAN /\ failed \in BOOLEAN

\* A request that has recorded something in the tenant's log is in shape.
LEMMA RecordingIn ==
    ASSUME NEW p \in Nat, NEW action \in PlanStatuses \cup {"CREATE", "SCHEDULE"}, NEW P
    PROVE  CallIn(Recording(p, action), P)
BY DEF CallIn, Recording, Entries

\* More plans, or the mark that a round is disturbed, leave a request in shape.
LEMMA RoundsKeep ==
    ASSUME NEW P, NEW Q, P \subseteq Q, NEW c, CallIn(c, P)
    PROVE  /\ CallIn(c, Q)
           /\ c.phase \in {"assigning", "writing"} => CallIn([c EXCEPT !.clean = FALSE], Q)
<1>1. CASE c = IdleCall \/ c \in [phase : {"recording"}, entry : Entries]
  BY <1>1 DEF CallIn, IdleCall
<1>2. CASE RoundIn(c, P) /\ LoopOK(c)
  <2>1. c \in Rounds
    BY <1>2 DEF RoundIn
  <2>2. [c EXCEPT !.clean = FALSE] \in Rounds
    BY <2>1 DEF Rounds
  <2>3. RoundIn(c, Q) /\ RoundIn([c EXCEPT !.clean = FALSE], Q)
    BY <1>2, <2>1, <2>2 DEF RoundIn, Rounds
  <2>4. LoopOK([c EXCEPT !.clean = FALSE])
    BY <1>2, <2>1 DEF LoopOK, Rounds
  <2> QED BY <1>2, <2>3, <2>4 DEF CallIn
<1> QED BY <1>1, <1>2 DEF CallIn

\* Disturbed() keeps every request in its shape.
LEMMA DisturbedKeeps ==
    ASSUME NEW P, NEW calling, CallsIn(calling, P)
    PROVE  CallsIn(Disturbed(calling), P)
<1>1. \A r \in Requests : CallIn(Disturbed(calling)[r], P)
  BY RoundsKeep DEF CallsIn, Disturbed
<1> QED BY <1>1 DEF CallsIn, Disturbed

\* The step of request r leaves the shapes of the others.
LEMMA CallsKeep ==
    ASSUME NEW P, NEW Q, P \subseteq Q, NEW calling, CallsIn(calling, P),
           NEW r \in Requests, NEW c, CallIn(c, Q)
    PROVE  CallsIn([calling EXCEPT ![r] = c], Q)
<1>1. \A s \in Requests : CallIn(calling[s], Q)
  BY RoundsKeep DEF CallsIn
<1> QED BY <1>1 DEF CallsIn

\* It holds before the first request.
LEMMA InitLoopInv == Init => LoopInv
<1> SUFFICES ASSUME Init PROVE LoopInv
  OBVIOUS
<1>1. PICK seed \in Seeds : /\ plans = [p \in DOMAIN seed |-> Row(seed[p][1], seed[p][2])]
                            /\ recorded = {<<p, seed[p][2]>> : p \in DOMAIN seed}
  BY DEF Init
<1>2. seed \in Seq(Jobs \X PlanStatuses)
  BY MaintenanceAssumption
<1>3. \A p \in DOMAIN seed : seed[p][1] \in Jobs /\ seed[p][2] \in PlanStatuses /\ p \in Nat
  BY <1>2
<1>4. plans \in Plans
  <2>1. \A p \in DOMAIN seed : plans[p] \in Rows
    BY <1>1, <1>3 DEF Row, NoBooking, Rows
  <2>2. DOMAIN plans = 1..Len(seed)
    BY <1>1, <1>2
  <2>3. Len(seed) \in Nat
    BY <1>2
  <2> QED BY <1>1, <2>1, <2>2, <2>3 DEF Plans
<1>5. recorded \subseteq Entries
  BY <1>1, <1>3 DEF Entries
<1>6. CallsIn(call, DOMAIN plans)
  BY DEF Init, CallsIn, CallIn
<1>7. calls \in 0..MaxCalls
  BY MaintenanceAssumption DEF Init
<1>8. settled \in BOOLEAN /\ failed \in BOOLEAN
  BY DEF Init
<1> QED BY <1>4, <1>5, <1>6, <1>7, <1>8 DEF LoopInv

\* What schedule() has in hand when it has read the plans.
LEMMA FirstRound ==
    ASSUME plans \in Plans, NEW option \in Options, NEW queue \in SetToSeqs(Schedulable),
           NEW technicians \in SetToSeqs(option.technicians), Schedulable # {}
    PROVE  CallIn([phase |-> "assigning", option |-> option, technicians |-> technicians,
                   queue |-> queue, state |-> FreeAt(Technicians, option.horizon),
                   result |-> <<>>, written |-> 0, clean |-> TRUE], DOMAIN plans)
<1>1. plans \in Plans
  OBVIOUS
<1>2. DOMAIN plans = 1..Len(plans) /\ Len(plans) \in Nat
  BY <1>1 DEF Plans
<1>3. IsFiniteSet(Schedulable) /\ Schedulable \subseteq DOMAIN plans
  <2>1. IsFiniteSet(1..Len(plans))
    BY <1>2, FS_Interval
  <2>2. Schedulable \subseteq 1..Len(plans)
    BY <1>2 DEF Schedulable
  <2> QED BY <1>2, <2>1, <2>2, FS_Subset
<1>4. Cardinality(Schedulable) \in Nat /\ Cardinality(Schedulable) # 0
  BY <1>3, FS_CardinalityType, FS_EmptySet
<1>5. queue \in [1..Cardinality(Schedulable) -> Schedulable]
  BY DEF SetToSeqs
<1>6. queue \in Seq(Nat) /\ queue # <<>> /\ \A k \in DOMAIN queue : queue[k] \in DOMAIN plans
  <2>1. \A k \in DOMAIN queue : queue[k] \in DOMAIN plans /\ queue[k] \in Nat
    BY <1>2, <1>3, <1>5
  <2>2. queue \in Seq(Nat) /\ Len(queue) = Cardinality(Schedulable)
    BY <1>4, <1>5, <2>1
  <2> QED BY <1>4, <2>1, <2>2
<1>7. technicians \in Seq(Technicians)
  <2>1. IsFiniteSet(option.technicians) /\ option.technicians \subseteq Technicians
    BY MaintenanceAssumption, FS_Subset
  <2>2. Cardinality(option.technicians) \in Nat
    BY <2>1, FS_CardinalityType
  <2>3. technicians \in [1..Cardinality(option.technicians) -> option.technicians]
    BY DEF SetToSeqs
  <2> QED BY <2>1, <2>2, <2>3
<1>8. FreeAt(Technicians, option.horizon) \in [Technicians -> Cells]
  BY MaintenanceAssumption DEF FreeAt, Cells
<1> DEFINE c == [phase |-> "assigning", option |-> option, technicians |-> technicians,
                 queue |-> queue, state |-> FreeAt(Technicians, option.horizon),
                 result |-> <<>>, written |-> 0, clean |-> TRUE]
<1>9. c \in Rounds
  <2>1. c.result \in Seq(Assignments)
    OBVIOUS
  <2> QED BY <1>6, <1>7, <1>8, <2>1 DEF Rounds, Cells, Assignments
<1>10. DOMAIN c.result = {}
  OBVIOUS
<1>11. \A t \in Technicians : OnShift(c.state[t], option)
  <2>1. option.horizon \in Nat
    BY MaintenanceAssumption
  <2>2. option.horizon = option.horizon + 0 * 24 + 0
    BY <2>1
  <2> QED BY <2>2 DEF OnShift, FreeAt, CalendarDay
<1>12. LoopOK(c)
  BY <1>10, <1>11 DEF LoopOK
<1>13. RoundIn(c, DOMAIN plans)
  BY <1>6, <1>9, <1>10 DEF RoundIn
<1> QED BY <1>12, <1>13 DEF CallIn

\* One round of the loop, for technician k of the list.
LEMMA NextRound ==
    ASSUME NEW P, NEW c, RoundIn(c, P), c.phase = "assigning",
           NEW k \in DOMAIN c.technicians, NEW hours \in Nat, LoopOK(c)
    PROVE  CallIn(Assigned(c, k, hours), P)
<1> DEFINE t == c.technicians[k]
           start == StartOf(c.state[t].cursor, c.state[t].used, hours, c.option)
           cell == [cursor |-> start + hours, used |-> UsedAfter(c.state[t].used, hours, c.option)]
           a == [plan |-> Head(c.queue), technician |-> t, start |-> start, end |-> start + hours]
           after == Assigned(c, k, hours)
<1>1. c \in Rounds /\ c.queue # <<>>
  BY DEF RoundIn
<1>2. t \in Technicians /\ c.state[t] \in Cells /\ c.option \in Options
  BY <1>1 DEF Rounds, Cells
<1>3. /\ start \in Nat /\ start >= c.state[t].cursor
      /\ OnShift(cell, c.option)
      /\ hours <= c.option.workingHours => InShift(start, hours, c.option)
  <2>1. OnShift(c.state[t], c.option)
    BY <1>2 DEF LoopOK
  <2> QED BY <1>2, <2>1, JobStaysOnShift
<1>4. cell \in Cells
  BY <1>2, <1>3 DEF Cells, UsedAfter
<1>5. c.queue \in Seq(Nat) /\ c.result \in Seq(Assignments)
  BY <1>1 DEF Rounds, Assignments
<1>6. /\ Head(c.queue) \in Nat /\ Head(c.queue) \in P
      /\ Tail(c.queue) \in Seq(Nat)
      /\ \A n \in DOMAIN Tail(c.queue) : Tail(c.queue)[n] \in P
      /\ Len(c.queue) = 1 <=> Tail(c.queue) = <<>>
  <2>1. \A n \in DOMAIN c.queue : c.queue[n] \in P
    BY DEF RoundIn
  <2>2. Len(c.queue) \in Nat \ {0} /\ DOMAIN c.queue = 1..Len(c.queue)
    BY <1>1, <1>5
  <2>3. Head(c.queue) = c.queue[1] /\ Head(c.queue) \in Nat
    BY <1>1, <1>5
  <2>4. Tail(c.queue) \in Seq(Nat) /\ Len(Tail(c.queue)) = Len(c.queue) - 1
    BY <1>1, <1>5
  <2>5. ASSUME NEW n \in DOMAIN Tail(c.queue)
        PROVE  Tail(c.queue)[n] \in P
    <3>1. n \in 1..(Len(c.queue) - 1) /\ Tail(c.queue)[n] = c.queue[n + 1]
      BY <1>1, <1>5, <2>4
    <3> QED BY <2>1, <2>2, <3>1
  <2>6. Len(c.queue) = 1 <=> Tail(c.queue) = <<>>
    <3>1. Tail(c.queue) # <<>> => Len(Tail(c.queue)) \in Nat \ {0}
      BY <2>4, EmptySeq
    <3>2. Len(<<>>) = 0
      BY EmptySeq
    <3> DEFINE lc == Len(c.queue)
               lt == Len(Tail(c.queue))
    <3>3. lc \in Nat \ {0} /\ lt = lc - 1
      BY <2>2, <2>4
    <3>4. Tail(c.queue) = <<>> => lt = 0
      BY <3>2
    <3>5. Tail(c.queue) # <<>> => lt # 0
      BY <3>1
    <3> HIDE DEF lc, lt
    <3>6. lc = 1 <=> lt = 0
      BY <3>3
    <3> QED BY <3>4, <3>5, <3>6 DEF lc, lt
  <2>7. Head(c.queue) \in P
    BY <2>1, <2>2, <2>3
  <2> QED BY <2>3, <2>4, <2>5, <2>6, <2>7
<1>7. a \in Assignments
  BY <1>2, <1>3, <1>6 DEF Assignments
<1>8. /\ Append(c.result, a) \in Seq(Assignments)
      /\ Len(Append(c.result, a)) = Len(c.result) + 1
      /\ \A n \in DOMAIN Append(c.result, a) : Append(c.result, a)[n].plan \in P
  <2>1. \A n \in DOMAIN c.result : c.result[n].plan \in P
    BY DEF RoundIn
  <2>2. Append(c.result, a) \in Seq(Assignments) /\ Len(Append(c.result, a)) = Len(c.result) + 1
    BY <1>5, <1>7
  <2>3. ASSUME NEW n \in DOMAIN Append(c.result, a)
        PROVE  Append(c.result, a)[n].plan \in P
    <3>1. \/ n \in DOMAIN c.result /\ Append(c.result, a)[n] = c.result[n]
          \/ Append(c.result, a)[n] = a
      BY <1>5, <1>7
    <3> QED BY <1>6, <2>1, <3>1
  <2> QED BY <2>2, <2>3
<1>9. [c.state EXCEPT ![t] = cell] \in [Technicians -> Cells]
  BY <1>1, <1>4 DEF Rounds, Cells
<1>10. /\ after \in Rounds
       /\ after.queue = Tail(c.queue)
       /\ after.result = Append(c.result, a)
       /\ after.phase = IF Len(c.queue) = 1 THEN "writing" ELSE "assigning"
       /\ after.written = c.written
       /\ after.option = c.option
       /\ after.state = [c.state EXCEPT ![t] = cell]
  BY <1>1, <1>6, <1>8, <1>9 DEF Assigned, Rounds, Cells, Assignments
<1>11. after.written = 0 /\ after.written < Len(after.result)
  <2>1. c.written = 0 /\ Len(c.result) \in Nat
    BY <1>5 DEF RoundIn
  <2> QED BY <1>8, <1>10, <2>1
<1>12. RoundIn(after, P)
  BY <1>6, <1>8, <1>10, <1>11 DEF RoundIn
<1>13. LoopOK(after)
  <2> DEFINE all == Append(c.result, a)
             end == Len(all)
  <2>1. \A s \in Technicians : OnShift(after.state[s], after.option)
    BY <1>1, <1>2, <1>3, <1>10 DEF LoopOK, Rounds
  <2>2. cell.cursor = start + hours /\ cell.cursor >= c.state[t].cursor
    BY <1>2, <1>3 DEF Cells
  <2>3. Hours(a) = hours /\ a.technician = t /\ a.start = start /\ a.end = cell.cursor
    BY <1>3 DEF Hours
  <2>4. /\ end = Len(c.result) + 1 /\ Len(c.result) \in Nat /\ DOMAIN all = 1..end
        /\ all[end] = a
        /\ \A n \in DOMAIN c.result : all[n] = c.result[n] /\ c.result[n] \in Assignments
        /\ DOMAIN all = DOMAIN c.result \cup {end}
    BY <1>5, <1>7
  <2>5. ASSUME NEW n \in DOMAIN c.result
        PROVE  /\ c.result[n].end <= after.state[c.result[n].technician].cursor
               /\ c.result[n].technician = t => c.result[n].end <= start
    <3>1. c.result[n].end <= c.state[c.result[n].technician].cursor
      BY DEF LoopOK
    <3>2. c.result[n] \in Assignments
      BY <2>4
    <3>3. c.state[c.result[n].technician] \in Cells
      BY <1>1, <3>2 DEF Rounds, Cells, Assignments
    <3>4. CASE c.result[n].technician = t
      <4>1. after.state[t] = cell
        BY <1>1, <1>2, <1>10 DEF Rounds
      <4> HIDE DEF cell, start, t, a, after
      <4> QED BY <1>2, <1>3, <1>4, <2>2, <3>1, <3>2, <3>4, <4>1 DEF Cells, Assignments
    <3>5. CASE c.result[n].technician # t
      <4>1. after.state[c.result[n].technician] = c.state[c.result[n].technician]
        BY <1>1, <1>10, <3>2, <3>5 DEF Rounds, Assignments
      <4> QED BY <3>1, <3>5, <4>1
    <3> QED BY <3>4, <3>5
  <2>6. a.end <= after.state[a.technician].cursor
    <3>1. after.state[t] = cell
      BY <1>1, <1>2, <1>10 DEF Rounds
    <3> QED BY <1>4, <2>3, <3>1 DEF Cells
  <2>7. ASSUME NEW n \in DOMAIN all
        PROVE  /\ all[n].end <= after.state[all[n].technician].cursor
               /\ Hours(all[n]) <= after.option.workingHours =>
                      InShift(all[n].start, Hours(all[n]), after.option)
    <3>1. CASE n \in DOMAIN c.result
      BY <1>10, <2>4, <2>5, <3>1 DEF LoopOK
    <3>2. CASE n = end
      BY <1>3, <1>10, <2>3, <2>4, <2>6, <3>2
    <3> QED BY <2>4, <3>1, <3>2
  <2>8. ASSUME NEW n \in DOMAIN c.result
        PROVE  Apart(c.result[n], a) /\ Apart(a, c.result[n])
    BY <2>3, <2>5 DEF Apart
  <2>9. ASSUME NEW m \in DOMAIN all, NEW n \in DOMAIN all, m # n
        PROVE  Apart(all[m], all[n])
    <3>1. CASE m \in DOMAIN c.result /\ n \in DOMAIN c.result
      BY <2>4, <2>9, <3>1 DEF LoopOK
    <3>2. CASE m = end /\ n \in DOMAIN c.result
      BY <2>4, <2>8, <3>2
    <3>3. CASE m \in DOMAIN c.result /\ n = end
      BY <2>4, <2>8, <3>3
    <3> QED BY <2>4, <2>9, <3>1, <3>2, <3>3
  <2> HIDE DEF all, after
  <2> QED BY <1>10, <2>1, <2>7, <2>9 DEF LoopOK, all, after
<1> QED BY <1>12, <1>13 DEF CallIn

\* Writing a booking and the mark of it leave a round in shape.
LEMMA WrittenIn ==
    ASSUME NEW P, NEW c, RoundIn(c, P), LoopOK(c), c.phase = "writing",
           c.written + 1 # Len(c.result)
    PROVE  CallIn([c EXCEPT !.written = c.written + 1], P)
<1> DEFINE d == [c EXCEPT !.written = c.written + 1]
<1>1. c \in Rounds
  BY DEF RoundIn
<1>2. c.written \in Nat /\ c.result \in Seq(Assignments) /\ Len(c.result) \in Nat
  BY <1>1 DEF Rounds, Assignments
<1>3. c.written + 1 \in Nat /\ c.written + 1 < Len(c.result)
  BY <1>2 DEF RoundIn
<1>4. d \in Rounds
  BY <1>1, <1>3 DEF Rounds
<1>5. RoundIn(d, P)
  BY <1>1, <1>3, <1>4 DEF RoundIn, Rounds
<1>6. LoopOK(d)
  BY <1>1 DEF LoopOK, Rounds
<1> QED BY <1>5, <1>6 DEF CallIn

\* The job a round is about has an estimate, in whole hours.
LEMMA HoursKnown ==
    ASSUME plans \in Plans, NEW c, RoundIn(c, DOMAIN plans), c.phase = "assigning",
           NEW hours \in plans[Head(c.queue)].job.hours
    PROVE  hours \in Nat
<1>1. c.queue \in Seq(Nat) /\ c.queue # <<>>
  BY DEF RoundIn, Rounds
<1>2. Head(c.queue) = c.queue[1] /\ 1 \in DOMAIN c.queue
  BY <1>1, EmptySeq
<1>3. Head(c.queue) \in DOMAIN plans
  BY <1>2 DEF RoundIn
<1> DEFINE h == Head(c.queue)
<1> HIDE DEF h
<1>4. plans \in Seq(Rows) /\ h \in 1..Len(plans)
  BY <1>3 DEF Plans, h
<1>5. plans[h] \in Rows
  BY <1>4, ElementOfSeq
<1>6. plans[h].job \in Jobs
  BY <1>5 DEF Rows
<1> QED BY <1>6, MaintenanceAssumption DEF h

\* Every step keeps the invariant.
LEMMA NextLoopInv == LoopInv /\ [Next]_vars => LoopInv'
<1> SUFFICES ASSUME LoopInv, [Next]_vars PROVE LoopInv'
  OBVIOUS
<1>0. /\ plans \in Plans /\ recorded \subseteq Entries /\ calls \in 0..MaxCalls
      /\ settled \in BOOLEAN /\ failed \in BOOLEAN
      /\ CallsIn(call, DOMAIN plans) /\ CallsIn(Disturbed(call), DOMAIN plans)
      /\ Len(plans) \in Nat /\ DOMAIN plans = 1..Len(plans) /\ MaxCalls \in Nat
  BY DisturbedKeeps, MaintenanceAssumption DEF LoopInv, Plans
<1>1. ASSUME NEW r \in Requests, NEW job \in Jobs, Create(r, job)
      PROVE  LoopInv'
  <2>1. Row(job, "draft") \in Rows
    BY DEF Row, NoBooking, PlanStatuses, Rows
  <2>2. plans' \in Plans /\ DOMAIN plans \subseteq DOMAIN plans'
    BY <1>0, <1>1, <2>1 DEF Create, Plans
  <2>3. CallIn(Recording(Len(plans) + 1, "CREATE"), DOMAIN plans')
    BY <1>0, RecordingIn
  <2>4. CallsIn(call', DOMAIN plans')
    BY <1>0, <1>1, <2>2, <2>3, CallsKeep DEF Create
  <2> QED BY <1>0, <1>1, <2>2, <2>4 DEF Create, LoopInv
<1>2. ASSUME NEW r \in Requests, NEW p \in DOMAIN plans, NEW status \in PlanStatuses,
             Transition(r, p, status)
      PROVE  LoopInv'
  <2>1. plans' \in Plans /\ DOMAIN plans' = DOMAIN plans
    <3>1. plans[p] \in Rows
      BY <1>0, ElementOfSeq DEF Plans
    <3>2. [plans[p] EXCEPT !.status = status] \in Rows
      BY <3>1 DEF Rows
    <3>3. plans' = [plans EXCEPT ![p] = [plans[p] EXCEPT !.status = status]]
      BY <1>2 DEF Transition
    <3> QED BY <1>0, <3>2, <3>3, ExceptSeq DEF Plans
  <2>2. CallIn(Recording(p, status), DOMAIN plans)
    BY <1>0, RecordingIn
  <2>3. \/ call' = [call EXCEPT ![r] = Recording(p, status)]
        \/ call' = [Disturbed(call) EXCEPT ![r] = Recording(p, status)]
    BY <1>2 DEF Transition
  <2>4. CallsIn(call', DOMAIN plans)
    BY <1>0, <2>2, <2>3, CallsKeep
  <2>5. settled' \in BOOLEAN /\ calls' \in 0..MaxCalls
    BY <1>0, <1>2 DEF Transition
  <2> QED BY <1>0, <1>2, <2>1, <2>4, <2>5 DEF Transition, LoopInv
<1>3. ASSUME NEW r \in Requests, NEW option \in Options, ReadPlans(r, option)
      PROVE  LoopInv'
  <2>1. PICK queue \in SetToSeqs(Schedulable), technicians \in SetToSeqs(option.technicians) :
          call' = [call EXCEPT ![r] =
              [phase |-> "assigning", option |-> option, technicians |-> technicians,
               queue |-> queue, state |-> FreeAt(Technicians, option.horizon),
               result |-> <<>>, written |-> 0, clean |-> TRUE]]
    BY <1>3 DEF ReadPlans
  <2>2. CallIn([phase |-> "assigning", option |-> option, technicians |-> technicians,
                queue |-> queue, state |-> FreeAt(Technicians, option.horizon),
                result |-> <<>>, written |-> 0, clean |-> TRUE], DOMAIN plans)
    BY <1>0, <1>3, FirstRound DEF ReadPlans
  <2>3. CallsIn(call', DOMAIN plans)
    BY <1>0, <2>1, <2>2, CallsKeep
  <2>4. calls' \in 0..MaxCalls
    BY <1>0, <1>3 DEF ReadPlans
  <2> QED BY <1>0, <1>3, <2>3, <2>4 DEF ReadPlans, LoopInv
<1>4. ASSUME NEW r \in Requests, Assign(r)
      PROVE  LoopInv'
  <2>1. RoundIn(call[r], DOMAIN plans) /\ LoopOK(call[r]) /\ call[r].phase = "assigning"
    BY <1>0, <1>4 DEF Assign, CallsIn, CallIn, IdleCall
  <2>2. PICK k \in DOMAIN call[r].technicians, hours \in plans[Head(call[r].queue)].job.hours :
          call' = [call EXCEPT ![r] = Assigned(call[r], k, hours)]
    BY <1>4 DEF Assign
  <2>3. hours \in Nat
    BY <1>0, <2>1, <2>2, HoursKnown
  <2>4. CallIn(Assigned(call[r], k, hours), DOMAIN plans)
    BY <2>1, <2>3, NextRound
  <2>5. CallsIn(call', DOMAIN plans)
    BY <1>0, <2>2, <2>4, CallsKeep
  <2> QED BY <1>0, <1>4, <2>5 DEF Assign, LoopInv
<1>5. ASSUME NEW r \in Requests, WriteBooking(r)
      PROVE  LoopInv'
  <2>1. RoundIn(call[r], DOMAIN plans) /\ LoopOK(call[r]) /\ call[r].phase = "writing"
    BY <1>0, <1>5 DEF WriteBooking, CallsIn, CallIn, IdleCall
  <2> DEFINE n == call[r].written + 1
             a == call[r].result[n]
  <2>2. a \in Assignments
    <3>1. call[r].result \in Seq(Assignments) /\ call[r].written \in Nat
          /\ call[r].written < Len(call[r].result)
      BY <2>1 DEF RoundIn, Rounds, Assignments
    <3>2. n \in 1..Len(call[r].result)
      BY <3>1
    <3> QED BY <3>1, <3>2
  <2>3. plans' = [plans EXCEPT ![a.plan].booking =
                     [technician |-> {a.technician}, start |-> a.start, end |-> a.end]]
    BY <1>5 DEF WriteBooking
  <2>4. [technician |-> {a.technician}, start |-> a.start, end |-> a.end]
           \in [technician : SUBSET Technicians, start : Nat, end : Nat]
    BY <2>2 DEF Assignments
  <2>5. plans' \in Plans /\ DOMAIN plans' = DOMAIN plans
    <3> DEFINE booking == [technician |-> {a.technician}, start |-> a.start, end |-> a.end]
    <3>1. a.plan \in DOMAIN plans
      <4>1. call[r].result \in Seq(Assignments) /\ call[r].written \in Nat
            /\ call[r].written < Len(call[r].result)
        BY <2>1 DEF RoundIn, Rounds, Assignments
      <4>2. n \in DOMAIN call[r].result
        BY <4>1
      <4> QED BY <2>1, <4>2 DEF RoundIn
    <3>2. plans[a.plan] \in Rows
      BY <1>0, <3>1, ElementOfSeq DEF Plans
    <3> HIDE DEF booking, a
    <3>3. booking \in [technician : SUBSET Technicians, start : Nat, end : Nat]
      BY <2>4 DEF booking
    <3>4. [plans[a.plan] EXCEPT !.booking = booking] \in Rows
      BY <3>2, <3>3 DEF Rows
    <3>5. plans' = [plans EXCEPT ![a.plan] = [plans[a.plan] EXCEPT !.booking = booking]]
      BY <2>3 DEF booking
    <3> QED BY <1>0, <3>1, <3>4, <3>5, ExceptSeq DEF Plans
  <2>6. CASE n = Len(call[r].result)
    <3>1. call' = [Disturbed(call) EXCEPT ![r] = Recording(Batch, "SCHEDULE")]
      BY <1>5, <2>6 DEF WriteBooking
    <3>2. CallIn(Recording(Batch, "SCHEDULE"), DOMAIN plans)
      BY RecordingIn DEF Batch
    <3>3. CallsIn(call', DOMAIN plans)
      BY <1>0, <3>1, <3>2, CallsKeep
    <3> QED BY <1>0, <1>5, <2>1, <2>5, <2>6, <3>3 DEF WriteBooking, LoopInv, RoundIn, Rounds
  <2>7. CASE n # Len(call[r].result)
    <3>1. call' = [Disturbed(call) EXCEPT ![r] = [call[r] EXCEPT !.written = n]]
      BY <1>5, <2>7 DEF WriteBooking
    <3>2. CallIn([call[r] EXCEPT !.written = n], DOMAIN plans)
      BY <2>1, <2>7, WrittenIn
    <3>3. CallsIn(call', DOMAIN plans)
      BY <1>0, <3>1, <3>2, CallsKeep
    <3> QED BY <1>0, <1>5, <2>1, <2>5, <2>7, <3>3 DEF WriteBooking, LoopInv, RoundIn, Rounds
  <2> QED BY <2>6, <2>7
<1>6. ASSUME NEW r \in Requests, Record(r)
      PROVE  LoopInv'
  <2>1. call[r].entry \in Entries
    BY <1>0, <1>6 DEF Record, CallsIn, CallIn, RoundIn, Rounds, IdleCall
  <2>2. CallIn(IdleCall, DOMAIN plans)
    BY DEF CallIn
  <2>3. CallsIn(call', DOMAIN plans)
    BY <1>0, <1>6, <2>2, CallsKeep DEF Record
  <2> QED BY <1>0, <1>6, <2>1, <2>3 DEF Record, LoopInv
<1>7. ASSUME NEW r \in Requests, Fail(r)
      PROVE  LoopInv'
  <2>1. CallIn(IdleCall, DOMAIN plans)
    BY DEF CallIn
  <2>2. CallsIn(call', DOMAIN plans)
    BY <1>0, <1>7, <2>1, CallsKeep DEF Fail
  <2> QED BY <1>0, <1>7, <2>2 DEF Fail, LoopInv
<1>8. CASE UNCHANGED vars
  BY <1>0, <1>8 DEF vars, LoopInv, CallsIn, CallIn, RoundIn, Rounds, Entries
<1> QED BY <1>1, <1>2, <1>3, <1>4, <1>5, <1>6, <1>7, <1>8 DEF Next

----
(* What a round has in hand, against the plans there are. *)

\* Position p comes before position q: another plan, and one that is not less urgent.
Precedes(p, q, rows, horizon) == p # q /\ ~Before(rows[q].job, rows[p].job, horizon)

\* The plans a call assigned, then those it still has to assign, each once and in
\* order of urgency.
InOrder(c, rows) ==
    /\ \A m, n \in DOMAIN c.result :
           m < n => Precedes(c.result[m].plan, c.result[n].plan, rows, c.option.horizon)
    /\ \A m \in DOMAIN c.result, k \in DOMAIN c.queue :
           Precedes(c.result[m].plan, c.queue[k], rows, c.option.horizon)
    /\ \A m, n \in DOMAIN c.queue :
           m < n => Precedes(c.queue[m], c.queue[n], rows, c.option.horizon)

\* The list of technicians is a list of all of them.
AllListed(c) ==
    /\ \A k \in DOMAIN c.technicians : c.technicians[k] \in c.option.technicians
    /\ \A t \in c.option.technicians : \E k \in DOMAIN c.technicians : c.technicians[k] = t

\* A technician is busy up to the moment he is free, and no job so far could have
\* started earlier.
NoneEarlier(c) ==
    PlainDay(c) =>
        /\ \A t \in Technicians : c.state[t].used <= c.option.workingHours
        /\ \A t \in c.option.technicians :
             \/ c.state[t].cursor = c.option.horizon
             \/ \E m \in DOMAIN c.result : /\ c.result[m].technician = t
                                           /\ c.result[m].end = c.state[t].cursor
        /\ \A n \in DOMAIN c.result, t \in c.option.technicians :
             \A s \in c.option.horizon..(c.result[n].start - 1) :
               InShift(s, Hours(c.result[n]), c.option) =>
                 \E m \in DOMAIN c.result :
                    m < n /\ c.result[m].technician = t /\ c.result[m].end > s

SchedulableIn(rows) == {p \in DOMAIN rows : rows[p].status = "approved" /\ rows[p].job.hours # {}}

BookingOf(a) == [technician |-> {a.technician}, start |-> a.start, end |-> a.end]

\* While nothing came between, the call has every plan that is to be scheduled, and
\* the rows have what it wrote.
Undisturbed(c, rows) ==
    c.clean =>
        /\ \A p \in SchedulableIn(rows) :
             (\E k \in DOMAIN c.queue : c.queue[k] = p) \/ \E n \in DOMAIN c.result : c.result[n].plan = p
        /\ \A n \in DOMAIN c.result :
             n <= c.written => rows[c.result[n].plan].booking = BookingOf(c.result[n])

UnderWay(c) == c.phase \in {"assigning", "writing"}

RoundFine(c, rows) == InOrder(c, rows) /\ AllListed(c) /\ NoneEarlier(c) /\ Undisturbed(c, rows)

\* The jobs of plans are never changed.
SameJobs(rows, new) ==
    DOMAIN rows \subseteq DOMAIN new /\ \A p \in DOMAIN rows : new[p].job = rows[p].job

SameBookings(rows, new) == \A p \in DOMAIN rows : new[p].booking = rows[p].booking

\* When plans change, a round is as fine as before, if it is disturbed by what
\* concerns it.
LEMMA RowsMove ==
    ASSUME NEW rows, NEW new, NEW c, RoundIn(c, DOMAIN rows), RoundFine(c, rows), SameJobs(rows, new),
           c.clean => SchedulableIn(new) \subseteq SchedulableIn(rows) /\ SameBookings(rows, new)
    PROVE  RoundFine(c, new)
<1>1. /\ \A k \in DOMAIN c.queue : c.queue[k] \in DOMAIN rows
      /\ \A n \in DOMAIN c.result : c.result[n].plan \in DOMAIN rows
  BY DEF RoundIn
<1>2. \A p, q \in DOMAIN rows : \A h : Precedes(p, q, rows, h) => Precedes(p, q, new, h)
  BY DEF Precedes, SameJobs
<1>3. InOrder(c, new)
  BY <1>1, <1>2 DEF RoundFine, InOrder
<1>4. Undisturbed(c, new)
  BY <1>1 DEF RoundFine, Undisturbed, SameBookings
<1> QED BY <1>3, <1>4 DEF RoundFine

\* A round that is disturbed is fine all the same.
LEMMA DisturbedFine ==
    ASSUME NEW rows, NEW P, NEW c, RoundIn(c, P), RoundFine(c, rows)
    PROVE  /\ RoundFine([c EXCEPT !.clean = FALSE], rows) /\ ~[c EXCEPT !.clean = FALSE].clean
           /\ RoundIn([c EXCEPT !.clean = FALSE], P)
<1> DEFINE d == [c EXCEPT !.clean = FALSE]
<1>1. c \in Rounds
  BY DEF RoundIn
<1>2. /\ d \in Rounds /\ d.option = c.option /\ d.technicians = c.technicians /\ d.queue = c.queue
      /\ d.state = c.state /\ d.result = c.result /\ ~d.clean /\ d.phase = c.phase /\ d.written = c.written
  BY <1>1 DEF Rounds
<1> HIDE DEF d
<1>3. RoundFine(d, rows)
  BY <1>2 DEF RoundFine, InOrder, AllListed, NoneEarlier, PlainDay, Undisturbed
<1>4. RoundIn(d, P)
  BY <1>2 DEF RoundIn
<1> QED BY <1>2, <1>3, <1>4 DEF d

\* SetToSeqs gives lists of all elements, each once.
LEMMA ListsAreComplete ==
    ASSUME NEW S, IsFiniteSet(S), NEW list \in SetToSeqs(S)
    PROVE  /\ \A k \in DOMAIN list : list[k] \in S
           /\ \A m, n \in DOMAIN list : m # n => list[m] # list[n]
           /\ \A e \in S : \E k \in DOMAIN list : list[k] = e
<1> DEFINE D == 1..Cardinality(S)
<1>1. list \in [D -> S] /\ \A m, n \in D : m # n => list[m] # list[n]
  BY DEF SetToSeqs
<1>2. Cardinality(S) \in Nat
  BY FS_CardinalityType
<1>3. IsFiniteSet(D) /\ Cardinality(D) = Cardinality(S)
  BY <1>2, FS_Interval
<1>4. list \in Injection(D, S)
  BY <1>1 DEF Injection, IsInjective
<1>5. list \in Surjection(D, S)
  BY <1>3, <1>4, FS_Injection
<1> QED BY <1>1, <1>5 DEF Surjection

LEMMA WholeDays ==
    ASSUME NEW n \in Nat
    PROVE  n \div 24 \in Nat /\ n % 24 \in 0..23 /\ n = (n \div 24) * 24 + (n % 24)
  OBVIOUS

\* A technician who is free within a day starts the next job there, or the day has no
\* room for it.
LEMMA NoRoomBefore ==
    ASSUME NEW option \in Options, (option.horizon % CalendarDay) + option.workingHours < CalendarDay,
           NEW cell \in Cells, OnShift(cell, option), cell.used <= option.workingHours,
           NEW hours \in Nat, NEW s \in Nat, cell.cursor <= s,
           s < StartOf(cell.cursor, cell.used, hours, option)
    PROVE  ~InShift(s, hours, option)
<1> DEFINE h == option.horizon
           w == option.workingHours
           cur == cell.cursor
           u == cell.used
           q == h \div 24
           m == h % 24
           d == cur \div 24
           e == cur % 24
<1>1. h \in Nat /\ w \in Nat /\ cur \in Nat /\ u \in Nat /\ u <= w
  BY MaintenanceAssumption DEF Cells
<1>2. PICK k \in Nat : cur = h + k * 24 + u
  BY DEF OnShift, CalendarDay
<1>3. m + w < 24
  BY DEF CalendarDay
<1>4. /\ q \in Nat /\ m \in 0..23 /\ h = q * 24 + m
      /\ d \in Nat /\ e \in 0..23 /\ cur = d * 24 + e
  BY <1>1, WholeDays
<1>5. d = q + k
  <2> HIDE DEF h, w, cur, u, q, m, d, e
  <2> QED BY <1>1, <1>2, <1>3, <1>4
<1>6. u + hours > w /\ StartOf(cell.cursor, cell.used, hours, option) = (d + 1) * 24 + m
  <2>1. ~Fits(u, hours, w)
    BY <1>1 DEF StartOf, Cells
  <2>2. u + hours > w
    BY <1>1, <2>1 DEF Fits
  <2> QED BY <2>1, <2>2 DEF StartOf, StartOfNextWorkingDay, CalendarDay
<1> DEFINE x == s - h - k * 24
<1>7. x \in Nat /\ x >= u /\ x < 24 /\ s - h = k * 24 + x
  <2>1. s < (d + 1) * 24 + m
    BY <1>6
  <2> HIDE DEF h, w, cur, u, q, m, d, e
  <2> QED BY <1>1, <1>2, <1>4, <1>5, <2>1 DEF cur
<1>8. (s - h) % 24 = x
  <2> DEFINE y == s - h
             dd == y \div 24
             ee == y % 24
  <2>1. y \in Nat
    BY <1>7
  <2> HIDE DEF y
  <2>2. dd \in Nat /\ ee \in 0..23 /\ y = dd * 24 + ee
    BY <2>1
  <2>3. y = k * 24 + x
    BY <1>7 DEF y
  <2> HIDE DEF dd, ee, x, h
  <2>4. ee = x
    BY <1>7, <2>2, <2>3
  <2> QED BY <2>4 DEF ee, y
<1>9. x + hours > w
  <2> HIDE DEF x, u, w, h
  <2> QED BY <1>1, <1>6, <1>7
<1> QED BY <1>1, <1>8, <1>9 DEF InShift, CalendarDay

\* schedule() begins with a fine round: all plans in the queue, in order.
LEMMA FirstRoundFine ==
    ASSUME plans \in Plans, NEW option \in Options, NEW queue \in SetToSeqs(Schedulable),
           NEW technicians \in SetToSeqs(option.technicians),
           Prioritized([p \in Schedulable |-> plans[p].job], queue, option.horizon),
           NEW c, c = [phase |-> "assigning", option |-> option, technicians |-> technicians,
                       queue |-> queue, state |-> FreeAt(Technicians, option.horizon),
                       result |-> <<>>, written |-> 0, clean |-> TRUE]
    PROVE  RoundFine(c, plans)
<1>1. /\ c.option = option /\ c.technicians = technicians /\ c.queue = queue
      /\ c.state = FreeAt(Technicians, option.horizon) /\ c.result = <<>>
  OBVIOUS
<1>2. DOMAIN c.result = {}
  BY <1>1
<1>3. IsFiniteSet(Schedulable)
  <2>1. DOMAIN plans = 1..Len(plans) /\ Len(plans) \in Nat
    BY DEF Plans
  <2>2. IsFiniteSet(1..Len(plans)) /\ Schedulable \subseteq 1..Len(plans)
    BY <2>1, FS_Interval DEF Schedulable
  <2> QED BY <2>2, FS_Subset
<1>4. IsFiniteSet(option.technicians) /\ option.technicians \subseteq Technicians
  BY MaintenanceAssumption, FS_Subset
<1>5. /\ \A k \in DOMAIN queue : queue[k] \in Schedulable
      /\ \A m, n \in DOMAIN queue : m # n => queue[m] # queue[n]
      /\ \A p \in Schedulable : \E k \in DOMAIN queue : queue[k] = p
  BY <1>3, ListsAreComplete
<1>6. DOMAIN queue \subseteq Nat
  BY DEF SetToSeqs
<1>7. InOrder(c, plans)
  <2>1. ASSUME NEW m \in DOMAIN queue, NEW n \in DOMAIN queue, m < n
        PROVE  Precedes(queue[m], queue[n], plans, option.horizon)
    <3>1. m # n
      BY <1>6, <2>1
    <3> QED BY <1>5, <2>1, <3>1 DEF Precedes, Prioritized
  <2> QED BY <1>1, <1>2, <2>1 DEF InOrder
<1>8. AllListed(c)
  BY <1>1, <1>4, ListsAreComplete DEF AllListed
<1>9. NoneEarlier(c)
  <2>1. option.workingHours \in Nat
    BY MaintenanceAssumption
  <2>2. \A t \in Technicians : c.state[t].used = 0 /\ c.state[t].cursor = option.horizon
    BY <1>1 DEF FreeAt
  <2> QED BY <1>1, <1>2, <1>4, <2>1, <2>2 DEF NoneEarlier
<1>10. Undisturbed(c, plans)
  BY <1>1, <1>2, <1>5 DEF Undisturbed, SchedulableIn, Schedulable
<1> QED BY <1>7, <1>8, <1>9, <1>10 DEF RoundFine

\* d is what a round makes of the call c that gives its next job to t.
RoundOf(c, t, start, hours, d) ==
    /\ t \in Technicians /\ c.option \in Options /\ c.state \in [Technicians -> Cells]
    /\ start \in Nat
    /\ d.option = c.option /\ d.technicians = c.technicians /\ d.clean = c.clean
    /\ d.written = 0 /\ c.written = 0
    /\ DOMAIN d.state = Technicians
    /\ \A u \in Technicians \ {t} : d.state[u] = c.state[u]
    /\ d.state[t].cursor = start + hours
    /\ d.state[t].used = UsedAfter(c.state[t].used, hours, c.option)
    /\ Len(c.result) \in Nat /\ DOMAIN c.result = 1..Len(c.result)
    /\ DOMAIN d.result = DOMAIN c.result \cup {Len(c.result) + 1}
    /\ \A n \in DOMAIN c.result : d.result[n] = c.result[n] /\ c.result[n] \in Assignments
    /\ d.result[Len(c.result) + 1] =
           [plan |-> c.queue[1], technician |-> t, start |-> start, end |-> start + hours]
    /\ Len(c.queue) \in Nat \ {0} /\ DOMAIN c.queue = 1..Len(c.queue)
    /\ DOMAIN d.queue = 1..(Len(c.queue) - 1)
    /\ \A n \in DOMAIN d.queue : d.queue[n] = c.queue[n + 1]

\* What a round makes of the call.
LEMMA RoundParts ==
    ASSUME NEW P, NEW c, RoundIn(c, P), c.phase = "assigning", LoopOK(c),
           NEW k \in DOMAIN c.technicians, NEW hours \in Nat,
           NEW t, t = c.technicians[k],
           NEW start, start = StartOf(c.state[t].cursor, c.state[t].used, hours, c.option),
           NEW d, d = Assigned(c, k, hours)
    PROVE  RoundOf(c, t, start, hours, d)
<1> DEFINE cell == [cursor |-> start + hours, used |-> UsedAfter(c.state[t].used, hours, c.option)]
           a == [plan |-> Head(c.queue), technician |-> t, start |-> start, end |-> start + hours]
<1>1. c \in Rounds /\ c.queue # <<>> /\ c.written = 0
  BY DEF RoundIn
<1>2. t \in Technicians /\ c.state[t] \in Cells /\ c.option \in Options /\ c.state \in [Technicians -> Cells]
  BY <1>1 DEF Rounds, Cells
<1>3. start \in Nat
  <2>1. OnShift(c.state[t], c.option)
    BY <1>2 DEF LoopOK
  <2> QED BY <1>2, <2>1, JobStaysOnShift
<1>4. c.queue \in Seq(Nat) /\ c.result \in Seq(Assignments)
  BY <1>1 DEF Rounds, Assignments
<1>5. /\ d.queue = Tail(c.queue) /\ d.result = Append(c.result, a) /\ d.written = c.written
      /\ d.option = c.option /\ d.technicians = c.technicians /\ d.clean = c.clean
      /\ d.state = [c.state EXCEPT ![t] = cell]
  BY <1>1 DEF Assigned, Rounds
<1>6. Len(c.queue) \in Nat \ {0} /\ DOMAIN c.queue = 1..Len(c.queue) /\ Head(c.queue) = c.queue[1]
  BY <1>1, <1>4
<1>7. /\ DOMAIN d.queue = 1..(Len(c.queue) - 1)
      /\ \A n \in DOMAIN d.queue : d.queue[n] = c.queue[n + 1]
  BY <1>1, <1>4, <1>5, <1>6
<1>8. a \in Assignments
  BY <1>2, <1>3, <1>4, <1>6 DEF Assignments
<1>9. /\ Len(c.result) \in Nat /\ DOMAIN c.result = 1..Len(c.result)
      /\ DOMAIN d.result = DOMAIN c.result \cup {Len(c.result) + 1}
      /\ \A n \in DOMAIN c.result : d.result[n] = c.result[n] /\ c.result[n] \in Assignments
      /\ d.result[Len(c.result) + 1] = a
  <2> HIDE DEF a, Assignments
  <2> QED BY <1>4, <1>5, <1>8
<1>10. /\ DOMAIN d.state = Technicians
       /\ \A u \in Technicians \ {t} : d.state[u] = c.state[u]
       /\ d.state[t] = cell
  <2> HIDE DEF cell
  <2> QED BY <1>2, <1>5
<1>11. d.state[t].cursor = start + hours /\ d.state[t].used = UsedAfter(c.state[t].used, hours, c.option)
  BY <1>10
<1>12. d.result[Len(c.result) + 1] =
         [plan |-> c.queue[1], technician |-> t, start |-> start, end |-> start + hours]
  BY <1>6, <1>9
<1>13. d.written = 0
  BY <1>1, <1>5
<1> HIDE DEF cell, a
<1> QED BY <1>1, <1>2, <1>3, <1>5, <1>6, <1>7, <1>9, <1>10, <1>11, <1>12, <1>13 DEF RoundOf

\* One round of the loop keeps it fine: the job goes to the technician who is free
\* first, so every other one is busy longer.
LEMMA NextRoundFine ==
    ASSUME NEW P, NEW rows, NEW c, RoundIn(c, P), c.phase = "assigning", LoopOK(c), RoundFine(c, rows),
           NEW k \in DOMAIN c.technicians, FreeFirst(k, c.technicians, c.state), NEW hours \in Nat
    PROVE  RoundFine(Assigned(c, k, hours), rows)
<1>0. PICK t, start, d, new :
        /\ t = c.technicians[k]
        /\ start = StartOf(c.state[t].cursor, c.state[t].used, hours, c.option)
        /\ d = Assigned(c, k, hours) /\ new = Len(c.result) + 1
  OBVIOUS
<1>r. RoundOf(c, t, start, hours, d)
  BY <1>0, RoundParts
<1> DEFINE a == [plan |-> c.queue[1], technician |-> t, start |-> start, end |-> start + hours]
<1>1. /\ t \in Technicians /\ c.option \in Options /\ c.state \in [Technicians -> Cells]
      /\ start \in Nat
      /\ d.option = c.option /\ d.technicians = c.technicians /\ d.clean = c.clean
      /\ d.written = 0 /\ c.written = 0
      /\ DOMAIN d.state = Technicians
      /\ \A u \in Technicians \ {t} : d.state[u] = c.state[u]
      /\ d.state[t].cursor = start + hours
      /\ d.state[t].used = UsedAfter(c.state[t].used, hours, c.option)
  BY <1>r DEF RoundOf
<1>2. /\ new \in Nat \ {0} /\ new \notin DOMAIN c.result /\ \A n \in DOMAIN c.result : n \in Nat \ {0} /\ n < new
      /\ DOMAIN d.result = DOMAIN c.result \cup {new}
      /\ \A n \in DOMAIN c.result : d.result[n] = c.result[n] /\ c.result[n] \in Assignments
      /\ d.result[new] = a
  <2>1. /\ Len(c.result) \in Nat /\ DOMAIN c.result = 1..Len(c.result)
        /\ DOMAIN d.result = DOMAIN c.result \cup {new}
        /\ \A n \in DOMAIN c.result : d.result[n] = c.result[n] /\ c.result[n] \in Assignments
        /\ d.result[new] = a
    BY <1>0, <1>r DEF RoundOf
  <2> QED BY <1>0, <2>1
<1>3. /\ 1 \in DOMAIN c.queue
      /\ \A n \in DOMAIN d.queue : n \in Nat \ {0} /\ n + 1 \in DOMAIN c.queue /\ d.queue[n] = c.queue[n + 1]
      /\ \A n \in DOMAIN c.queue : n # 1 => n - 1 \in DOMAIN d.queue /\ d.queue[n - 1] = c.queue[n]
  <2>1. /\ Len(c.queue) \in Nat \ {0} /\ DOMAIN c.queue = 1..Len(c.queue)
        /\ DOMAIN d.queue = 1..(Len(c.queue) - 1)
        /\ \A n \in DOMAIN d.queue : d.queue[n] = c.queue[n + 1]
    BY <1>r DEF RoundOf
  <2>2. \A n \in DOMAIN c.queue : n # 1 => n - 1 \in DOMAIN d.queue /\ (n - 1) + 1 = n
    BY <2>1
  <2> QED BY <2>1, <2>2
<1>4. InOrder(d, rows)
  <2>1. \A m, n \in DOMAIN d.result :
           m < n => Precedes(d.result[m].plan, d.result[n].plan, rows, c.option.horizon)
    <3> SUFFICES ASSUME NEW m \in DOMAIN d.result, NEW n \in DOMAIN d.result, m < n
                 PROVE  Precedes(d.result[m].plan, d.result[n].plan, rows, c.option.horizon)
      OBVIOUS
    <3>1. m \in DOMAIN c.result
      BY <1>2
    <3>2. CASE n \in DOMAIN c.result
      BY <1>2, <3>1, <3>2 DEF RoundFine, InOrder
    <3>3. CASE n = new
      BY <1>2, <1>3, <3>1, <3>3 DEF RoundFine, InOrder
    <3> QED BY <1>2, <3>2, <3>3
  <2>2. \A m \in DOMAIN d.result, n \in DOMAIN d.queue :
           Precedes(d.result[m].plan, d.queue[n], rows, c.option.horizon)
    <3> SUFFICES ASSUME NEW m \in DOMAIN d.result, NEW n \in DOMAIN d.queue
                 PROVE  Precedes(d.result[m].plan, d.queue[n], rows, c.option.horizon)
      OBVIOUS
    <3>1. n \in Nat \ {0} /\ n + 1 \in DOMAIN c.queue /\ d.queue[n] = c.queue[n + 1] /\ 1 < n + 1
      BY <1>3
    <3>2. CASE m \in DOMAIN c.result
      BY <1>2, <3>1, <3>2 DEF RoundFine, InOrder
    <3>3. CASE m = new
      BY <1>2, <1>3, <3>1, <3>3 DEF RoundFine, InOrder
    <3> QED BY <1>2, <3>2, <3>3
  <2>3. \A m, n \in DOMAIN d.queue :
           m < n => Precedes(d.queue[m], d.queue[n], rows, c.option.horizon)
    <3> SUFFICES ASSUME NEW m \in DOMAIN d.queue, NEW n \in DOMAIN d.queue, m < n
                 PROVE  Precedes(d.queue[m], d.queue[n], rows, c.option.horizon)
      OBVIOUS
    <3>1. m + 1 \in DOMAIN c.queue /\ n + 1 \in DOMAIN c.queue /\ m + 1 < n + 1
      BY <1>3
    <3> QED BY <1>3, <3>1 DEF RoundFine, InOrder
  <2> QED BY <1>1, <2>1, <2>2, <2>3 DEF InOrder
<1>5. AllListed(d)
  BY <1>1 DEF RoundFine, AllListed
<1>6. Undisturbed(d, rows)
  <2> SUFFICES ASSUME c.clean
               PROVE  /\ \A p \in SchedulableIn(rows) :
                            \/ \E j \in DOMAIN d.queue : d.queue[j] = p
                            \/ \E n \in DOMAIN d.result : d.result[n].plan = p
                      /\ \A n \in DOMAIN d.result : ~(n <= d.written)
    BY <1>1 DEF Undisturbed
  <2>1. ASSUME NEW p \in SchedulableIn(rows)
        PROVE  \/ \E j \in DOMAIN d.queue : d.queue[j] = p
               \/ \E n \in DOMAIN d.result : d.result[n].plan = p
    <3>1. CASE \E n \in DOMAIN c.result : c.result[n].plan = p
      BY <1>2, <3>1
    <3>2. ASSUME NEW j \in DOMAIN c.queue, c.queue[j] = p
          PROVE  \/ \E i \in DOMAIN d.queue : d.queue[i] = p
                 \/ \E n \in DOMAIN d.result : d.result[n].plan = p
      <4>1. CASE j = 1
        BY <1>2, <3>2, <4>1
      <4>2. CASE j # 1
        BY <1>3, <3>2, <4>2
      <4> QED BY <4>1, <4>2
    <3> QED BY <3>1, <3>2 DEF RoundFine, Undisturbed
  <2>2. \A n \in DOMAIN d.result : ~(n <= 0)
    BY <1>2
  <2> QED BY <1>1, <2>1, <2>2
<1>7. NoneEarlier(d)
  <2> SUFFICES ASSUME PlainDay(d)
               PROVE  /\ \A u \in Technicians : d.state[u].used <= c.option.workingHours
                      /\ \A u \in c.option.technicians :
                           \/ d.state[u].cursor = c.option.horizon
                           \/ \E m \in DOMAIN d.result : /\ d.result[m].technician = u
                                                         /\ d.result[m].end = d.state[u].cursor
                      /\ \A n \in DOMAIN d.result, u \in c.option.technicians :
                           \A s \in c.option.horizon..(d.result[n].start - 1) :
                             InShift(s, Hours(d.result[n]), c.option) =>
                               \E m \in DOMAIN d.result :
                                  m < n /\ d.result[m].technician = u /\ d.result[m].end > s
    BY <1>1 DEF NoneEarlier
  <2>1. PlainDay(c) /\ hours <= c.option.workingHours /\ Hours(a) = hours
    <3>1. Hours(a) = hours
      BY <1>1 DEF Hours
    <3> QED BY <1>1, <1>2, <3>1 DEF PlainDay
  <2>2. /\ \A u \in Technicians : c.state[u].used <= c.option.workingHours
        /\ \A u \in c.option.technicians :
             \/ c.state[u].cursor = c.option.horizon
             \/ \E m \in DOMAIN c.result : /\ c.result[m].technician = u
                                           /\ c.result[m].end = c.state[u].cursor
        /\ \A n \in DOMAIN c.result, u \in c.option.technicians :
             \A s \in c.option.horizon..(c.result[n].start - 1) :
               InShift(s, Hours(c.result[n]), c.option) =>
                 \E m \in DOMAIN c.result :
                    m < n /\ c.result[m].technician = u /\ c.result[m].end > s
    BY <2>1 DEF RoundFine, NoneEarlier
  <2>3. c.option.technicians \subseteq Technicians /\ c.option.horizon \in Nat /\ c.option.workingHours \in Nat
    BY <1>1, MaintenanceAssumption
  <2>4. ASSUME NEW u \in Technicians
        PROVE  d.state[u].used <= c.option.workingHours
    <3>1. CASE u = t
      <4>1. c.state[t].used \in Nat
        BY <1>1 DEF Cells
      <4> QED BY <1>1, <2>1, <2>3, <3>1, <4>1 DEF UsedAfter, Fits
    <3>2. CASE u # t
      BY <1>1, <2>2, <3>2
    <3> QED BY <3>1, <3>2
  <2>5. ASSUME NEW u \in c.option.technicians
        PROVE  \/ d.state[u].cursor = c.option.horizon
               \/ \E m \in DOMAIN d.result : /\ d.result[m].technician = u
                                             /\ d.result[m].end = d.state[u].cursor
    <3>1. CASE u = t
      BY <1>1, <1>2, <3>1
    <3>2. CASE u # t
      <4>1. d.state[u] = c.state[u]
        BY <1>1, <2>3, <3>2
      <4> QED BY <1>2, <2>2, <4>1
    <3> QED BY <3>1, <3>2
  <2>6. ASSUME NEW u \in c.option.technicians, NEW s \in c.option.horizon..(start - 1),
               InShift(s, hours, c.option)
        PROVE  \E m \in DOMAIN c.result : c.result[m].technician = u /\ c.result[m].end > s
    <3>1. c.state[t] \in Cells /\ c.state[u] \in Cells /\ OnShift(c.state[t], c.option)
      BY <1>1, <2>3 DEF LoopOK
    <3>2. s \in Nat /\ s < start /\ s >= c.option.horizon
      BY <1>1, <2>3
    <3>3. s < c.state[t].cursor
      <4>1. c.state[t].used <= c.option.workingHours
        BY <1>1, <2>2
      <4>2. (c.option.horizon % CalendarDay) + c.option.workingHours < CalendarDay
        BY <2>1 DEF PlainDay
      <4>3. ~(c.state[t].cursor <= s)
        BY <1>0, <1>1, <2>6, <3>1, <3>2, <4>1, <4>2, NoRoomBefore
      <4>4. c.state[t].cursor \in Nat
        BY <3>1 DEF Cells
      <4> QED BY <3>2, <4>3, <4>4
    <3>4. c.state[u].cursor >= c.state[t].cursor
      BY <1>0, <2>6 DEF RoundFine, AllListed, FreeFirst
    <3>5. c.state[u].cursor > s /\ c.state[u].cursor # c.option.horizon
      BY <2>3, <3>1, <3>2, <3>3, <3>4 DEF Cells
    <3> QED BY <2>2, <3>5
  <2>7. ASSUME NEW n \in DOMAIN d.result, NEW u \in c.option.technicians,
               NEW s \in c.option.horizon..(d.result[n].start - 1),
               InShift(s, Hours(d.result[n]), c.option)
        PROVE  \E m \in DOMAIN d.result :
                  m < n /\ d.result[m].technician = u /\ d.result[m].end > s
    <3>1. CASE n \in DOMAIN c.result
      BY <1>2, <2>2, <2>7, <3>1
    <3>2. CASE n = new
      <4>1. d.result[n].start = start /\ Hours(d.result[n]) = hours
        BY <1>2, <2>1, <3>2
      <4>2. PICK m \in DOMAIN c.result : c.result[m].technician = u /\ c.result[m].end > s
        BY <2>6, <2>7, <4>1
      <4> QED BY <1>2, <3>2, <4>2
    <3> QED BY <1>2, <3>1, <3>2
  <2> QED BY <2>4, <2>5, <2>7
<1> QED BY <1>0, <1>4, <1>5, <1>6, <1>7 DEF RoundFine

\* The rows have the first n assignments of the call.
HasWritten(c, n, rows) ==
    \A m \in DOMAIN c.result : m <= n => rows[c.result[m].plan].booking = BookingOf(c.result[m])

\* One more booking is written: what was written before stays, since no plan is in
\* the result twice.
WrittenUpTo(c, n) == [c EXCEPT !.written = n]

LEMMA WrittenFine ==
    ASSUME NEW rows, NEW new, NEW c, RoundIn(c, DOMAIN rows), RoundFine(c, rows), c.phase = "writing",
           NEW n, n = c.written + 1, n \in DOMAIN c.result,
           SameJobs(rows, new), SchedulableIn(new) = SchedulableIn(rows),
           new[c.result[n].plan].booking = BookingOf(c.result[n]),
           \A p \in DOMAIN rows : p # c.result[n].plan => new[p].booking = rows[p].booking,
           NEW d, d = WrittenUpTo(c, n)
    PROVE  /\ RoundFine(d, new) /\ d.result = c.result /\ d.clean = c.clean
           /\ c.clean => HasWritten(c, n, new)
<1>1. c \in Rounds /\ c.result \in Seq(Assignments) /\ c.written \in Nat
  BY DEF RoundIn, Rounds, Assignments
<1>2. /\ d.option = c.option /\ d.technicians = c.technicians /\ d.queue = c.queue
      /\ d.state = c.state /\ d.result = c.result /\ d.clean = c.clean /\ d.written = n
  BY <1>1 DEF Rounds, WrittenUpTo
<1>3. /\ \A k \in DOMAIN c.queue : c.queue[k] \in DOMAIN rows
      /\ \A m \in DOMAIN c.result : c.result[m].plan \in DOMAIN rows
  BY DEF RoundIn
<1>4. \A p, q \in DOMAIN rows : \A h : Precedes(p, q, rows, h) => Precedes(p, q, new, h)
  BY DEF Precedes, SameJobs
<1>5. InOrder(d, new)
  BY <1>2, <1>3, <1>4 DEF RoundFine, InOrder
<1>6. ASSUME c.clean, NEW m \in DOMAIN c.result, m <= n
      PROVE  new[c.result[m].plan].booking = BookingOf(c.result[m])
  <2>1. CASE m = n
    BY <2>1
  <2>2. CASE m # n
    <3>1. m \in Nat /\ m < n /\ m <= c.written
      BY <1>1, <1>6, <2>2
    <3>2. c.result[m].plan # c.result[n].plan
      BY <3>1 DEF RoundFine, InOrder, Precedes
    <3>3. rows[c.result[m].plan].booking = BookingOf(c.result[m])
      BY <1>6, <3>1 DEF RoundFine, Undisturbed
    <3> QED BY <1>3, <3>2, <3>3
  <2> QED BY <2>1, <2>2
<1>7. Undisturbed(d, new)
  BY <1>2, <1>6 DEF RoundFine, Undisturbed
<1>8. AllListed(d) /\ NoneEarlier(d)
  BY <1>2 DEF RoundFine, AllListed, NoneEarlier, PlainDay
<1> QED BY <1>2, <1>5, <1>6, <1>7, <1>8 DEF RoundFine, HasWritten

RoundsFine(calling, rows) ==
    \A r \in Requests : UnderWay(calling[r]) => RoundFine(calling[r], rows)

\* What Disturbed() leaves to a request.
LEMMA DisturbedParts ==
    ASSUME NEW P, NEW calling, CallsIn(calling, P), NEW s \in Requests
    PROVE  /\ UnderWay(calling[s]) => Disturbed(calling)[s] = [calling[s] EXCEPT !.clean = FALSE]
           /\ ~UnderWay(calling[s]) => Disturbed(calling)[s] = calling[s]
           /\ Disturbed(calling)[s].phase = calling[s].phase
           /\ DOMAIN Disturbed(calling) = Requests
<1>1. /\ UnderWay(calling[s]) => Disturbed(calling)[s] = [calling[s] EXCEPT !.clean = FALSE]
      /\ ~UnderWay(calling[s]) => Disturbed(calling)[s] = calling[s]
      /\ DOMAIN Disturbed(calling) = Requests
  BY ZenonT(30) DEF Disturbed, UnderWay
<1>2. UnderWay(calling[s]) => calling[s] \in Rounds
  BY DEF CallsIn, CallIn, RoundIn, IdleCall, UnderWay
<1>3. UnderWay(calling[s]) => [calling[s] EXCEPT !.clean = FALSE].phase = calling[s].phase
  BY <1>2 DEF Rounds
<1> QED BY <1>1, <1>3

\* A call that is under way is in shape.
LEMMA UnderWayIn ==
    ASSUME NEW P, NEW calling, CallsIn(calling, P), NEW s \in Requests, UnderWay(calling[s])
    PROVE  RoundIn(calling[s], P) /\ LoopOK(calling[s])
BY DEF CallsIn, CallIn, IdleCall, UnderWay

\* A step that changes plans, or the approval of one, and that disturbs the rounds
\* it concerns leaves the rounds of the others fine.
LEMMA OthersFine ==
    ASSUME NEW rows, NEW new, SameJobs(rows, new), NEW before, CallsIn(before, DOMAIN rows),
           RoundsFine(before, rows), NEW r \in Requests, NEW c, UnderWay(c) => RoundFine(c, new),
           NEW after, \/ /\ after = [before EXCEPT ![r] = c]
                         /\ SchedulableIn(new) \subseteq SchedulableIn(rows) /\ SameBookings(rows, new)
                      \/ after = [Disturbed(before) EXCEPT ![r] = c]
    PROVE  RoundsFine(after, new)
<1> SUFFICES ASSUME NEW s \in Requests, UnderWay(after[s]) PROVE RoundFine(after[s], new)
  BY DEF RoundsFine
<1>1. DOMAIN before = Requests /\ DOMAIN Disturbed(before) = Requests
  BY DisturbedParts DEF CallsIn
<1>2. CASE s = r
  BY <1>1, <1>2
<1>3. CASE s # r
  <2>1. UnderWay(before[s])
    BY <1>1, <1>3, DisturbedParts DEF UnderWay
  <2>2. RoundIn(before[s], DOMAIN rows) /\ RoundFine(before[s], rows)
    BY <2>1, UnderWayIn DEF RoundsFine
  <2>3. CASE after = [before EXCEPT ![r] = c] /\ SchedulableIn(new) \subseteq SchedulableIn(rows)
             /\ SameBookings(rows, new)
    BY <1>1, <1>3, <2>2, <2>3, RowsMove
  <2>4. CASE after = [Disturbed(before) EXCEPT ![r] = c]
    <3> DEFINE d == [before[s] EXCEPT !.clean = FALSE]
    <3>1. after[s] = d
      BY <1>1, <1>3, <2>1, <2>4, DisturbedParts
    <3>2. RoundFine(d, rows) /\ ~d.clean /\ RoundIn(d, DOMAIN rows)
      BY <2>2, DisturbedFine
    <3> HIDE DEF d
    <3>3. RoundFine(d, new)
      BY <3>2, RowsMove
    <3> QED BY <3>1, <3>3
  <2> QED BY <2>3, <2>4
<1> QED BY <1>2, <1>3

----
(* The steps of a round, and of what comes between. *)

\* A new plan is a draft, which nothing schedules.
LEMMA CreatedRows ==
    ASSUME NEW rows \in Plans, NEW job \in Jobs, NEW new, new = Append(rows, Row(job, "draft"))
    PROVE  /\ SameJobs(rows, new) /\ SameBookings(rows, new)
           /\ SchedulableIn(new) \subseteq SchedulableIn(rows)
           /\ \A p \in DOMAIN rows : new[p] = rows[p]
           /\ DOMAIN new = DOMAIN rows \cup {Len(rows) + 1}
           /\ new[Len(rows) + 1] = Row(job, "draft")
<1>1. Row(job, "draft") \in Rows
  BY DEF Row, NoBooking, PlanStatuses, Rows
<1>2. /\ \A p \in DOMAIN rows : new[p] = rows[p]
      /\ DOMAIN new = DOMAIN rows \cup {Len(rows) + 1}
      /\ new[Len(rows) + 1] = Row(job, "draft")
  <2> DEFINE row == Row(job, "draft")
  <2> HIDE DEF row
  <2>1. row \in Rows /\ rows \in Seq(Rows) /\ new = Append(rows, row)
    BY <1>1 DEF row, Plans
  <2> QED BY <2>1 DEF row
<1>3. Row(job, "draft").status # "approved"
  BY DEF Row
<1> QED BY <1>2, <1>3 DEF SameJobs, SameBookings, SchedulableIn

\* A transition changes the status of one row.
Moved(rows, p, status) == [rows EXCEPT ![p].status = status]

LEMMA MovedRows ==
    ASSUME NEW rows \in Plans, NEW p \in DOMAIN rows, NEW status \in PlanStatuses,
           NEW new, new = Moved(rows, p, status)
    PROVE  /\ SameJobs(rows, new) /\ SameBookings(rows, new) /\ DOMAIN new = DOMAIN rows
           /\ \A q \in DOMAIN rows : q # p => new[q] = rows[q]
           /\ new[p].status = status
           /\ ~(status = "approved" /\ rows[p].status # "approved") =>
                  SchedulableIn(new) \subseteq SchedulableIn(rows)
<1>1. rows[p] \in Rows
  BY ElementOfSeq DEF Plans
<1>2. /\ DOMAIN new = DOMAIN rows /\ \A q \in DOMAIN rows : q # p => new[q] = rows[q]
      /\ new[p] = [rows[p] EXCEPT !.status = status]
  BY DEF Plans, Moved
<1>3. new[p].status = status /\ new[p].job = rows[p].job /\ new[p].booking = rows[p].booking
  BY <1>1, <1>2 DEF Rows
<1> QED BY <1>2, <1>3 DEF SameJobs, SameBookings, SchedulableIn

\* An update of schedule() changes the booking of one row.
Booked(rows, p, booking) == [rows EXCEPT ![p].booking = booking]

LEMMA BookedRows ==
    ASSUME NEW rows \in Plans, NEW p \in DOMAIN rows, NEW booking,
           NEW new, new = Booked(rows, p, booking)
    PROVE  /\ SameJobs(rows, new) /\ SchedulableIn(new) = SchedulableIn(rows)
           /\ DOMAIN new = DOMAIN rows
           /\ \A q \in DOMAIN rows : q # p => new[q] = rows[q]
           /\ new[p].booking = booking /\ \A q \in DOMAIN rows : new[q].status = rows[q].status
<1>1. rows[p] \in Rows
  BY ElementOfSeq DEF Plans
<1>2. /\ DOMAIN new = DOMAIN rows /\ \A q \in DOMAIN rows : q # p => new[q] = rows[q]
      /\ new[p] = [rows[p] EXCEPT !.booking = booking]
  BY DEF Plans, Booked
<1>3. new[p].status = rows[p].status /\ new[p].job = rows[p].job /\ new[p].booking = booking
  BY <1>1, <1>2 DEF Rows
<1>4. \A q \in DOMAIN rows : new[q].status = rows[q].status /\ new[q].job = rows[q].job
  BY <1>2, <1>3
<1>5. SchedulableIn(new) = SchedulableIn(rows) /\ SameJobs(rows, new)
  BY <1>2, <1>4 DEF SameJobs, SchedulableIn
<1> QED BY <1>2, <1>3, <1>4, <1>5

\* The plans that are to be scheduled are booked, and no technician twice.
AllBooked(rows) ==
    \A p, q \in SchedulableIn(rows) :
        /\ rows[p].booking # NoBooking
        /\ p # q => Apart(rows[p].booking, rows[q].booking)

\* It stays so while plans only cease to be scheduled.
LEMMA BookedStay ==
    ASSUME NEW rows, NEW new, AllBooked(rows), SameBookings(rows, new),
           SchedulableIn(new) \subseteq SchedulableIn(rows)
    PROVE  AllBooked(new)
BY DEF AllBooked, SameBookings, SchedulableIn

\* The rows of assignments that are apart are.
LEMMA BookingsApart ==
    ASSUME NEW a, NEW b, Apart(a, b)
    PROVE  Apart(BookingOf(a), BookingOf(b))
<1>1. a.technician # b.technician => {a.technician} # {b.technician}
  OBVIOUS
<1> QED BY <1>1 DEF Apart, BookingOf

\* When the last booking of an undisturbed call is written, all are booked.
LEMMA AllWritten ==
    ASSUME NEW rows, NEW c, LoopOK(c), RoundFine(c, rows), c.clean, c.queue = <<>>,
           NEW new, SchedulableIn(new) = SchedulableIn(rows),
           \A m \in DOMAIN c.result : new[c.result[m].plan].booking = BookingOf(c.result[m])
    PROVE  AllBooked(new)
<1> SUFFICES ASSUME NEW p \in SchedulableIn(new), NEW q \in SchedulableIn(new)
             PROVE  /\ new[p].booking # NoBooking
                    /\ p # q => Apart(new[p].booking, new[q].booking)
  BY DEF AllBooked
<1>1. DOMAIN c.queue = {}
  OBVIOUS
<1>2. \A o \in SchedulableIn(rows) : \E n \in DOMAIN c.result : c.result[n].plan = o
  BY <1>1 DEF RoundFine, Undisturbed
<1>3. PICK m \in DOMAIN c.result : c.result[m].plan = p
  BY <1>2
<1>4. PICK n \in DOMAIN c.result : c.result[n].plan = q
  BY <1>2
<1>5. new[p].booking = BookingOf(c.result[m]) /\ new[q].booking = BookingOf(c.result[n])
  BY <1>3, <1>4
<1>6. BookingOf(c.result[m]) # NoBooking
  BY DEF BookingOf, NoBooking
<1>7. ASSUME p # q PROVE Apart(new[p].booking, new[q].booking)
  <2>1. Apart(c.result[m], c.result[n])
    BY <1>3, <1>4, <1>7 DEF LoopOK
  <2> QED BY <1>5, <2>1, BookingsApart
<1> QED BY <1>5, <1>6, <1>7

\* Assignments in hand fit the plans, and settled bookings are all there.
FineInv == RoundsFine(call, plans) /\ (settled => AllBooked(plans))

LEMMA InitFineInv == Init => FineInv
BY DEF Init, FineInv, RoundsFine, UnderWay, IdleCall

LEMMA NextFineInv == LoopInv /\ FineInv /\ [Next]_vars => FineInv'
<1> SUFFICES ASSUME LoopInv, FineInv, [Next]_vars PROVE FineInv'
  OBVIOUS
<1>0. /\ plans \in Plans /\ CallsIn(call, DOMAIN plans) /\ DOMAIN call = Requests
      /\ RoundsFine(call, plans) /\ (settled => AllBooked(plans))
      /\ SameJobs(plans, plans) /\ SameBookings(plans, plans)
  BY DEF LoopInv, CallsIn, FineInv, SameJobs, SameBookings
<1>1. ASSUME NEW r \in Requests, NEW job \in Jobs, Create(r, job)
      PROVE  FineInv'
  <2>1. /\ SameJobs(plans, plans') /\ SameBookings(plans, plans')
        /\ SchedulableIn(plans') \subseteq SchedulableIn(plans)
    BY <1>0, <1>1, CreatedRows DEF Create
  <2>2. /\ call' = [call EXCEPT ![r] = Recording(Len(plans) + 1, "CREATE")]
        /\ ~UnderWay(Recording(Len(plans) + 1, "CREATE")) /\ settled' = settled
    BY <1>1 DEF Create, UnderWay, Recording
  <2>3. RoundsFine(call', plans')
    BY <1>0, <2>1, <2>2, OthersFine
  <2> QED BY <1>0, <2>1, <2>2, <2>3, BookedStay DEF FineInv
<1>2. ASSUME NEW r \in Requests, NEW p \in DOMAIN plans, NEW status \in PlanStatuses,
             Transition(r, p, status)
      PROVE  FineInv'
  <2> DEFINE approves == status = "approved" /\ plans[p].status # "approved"
  <2>1. /\ SameJobs(plans, plans') /\ SameBookings(plans, plans')
        /\ ~approves => SchedulableIn(plans') \subseteq SchedulableIn(plans)
    <3>1. PICK new : new = plans'
      OBVIOUS
    <3>2. new = Moved(plans, p, status)
      BY <1>2, <3>1 DEF Transition, Moved
    <3>3. /\ SameJobs(plans, new) /\ SameBookings(plans, new)
          /\ ~approves => SchedulableIn(new) \subseteq SchedulableIn(plans)
      BY <1>0, <3>2, MovedRows
    <3> QED BY <3>1, <3>3
  <2>2. /\ approves => call' = [Disturbed(call) EXCEPT ![r] = Recording(p, status)]
        /\ ~approves => call' = [call EXCEPT ![r] = Recording(p, status)]
        /\ ~UnderWay(Recording(p, status)) /\ settled' = (settled /\ ~approves)
    BY <1>2 DEF Transition, UnderWay, Recording
  <2> HIDE DEF approves
  <2>3. RoundsFine(call', plans')
    BY <1>0, <2>1, <2>2, OthersFine
  <2> QED BY <1>0, <2>1, <2>2, <2>3, BookedStay DEF FineInv
<1>3. ASSUME NEW r \in Requests, NEW option \in Options, ReadPlans(r, option)
      PROVE  FineInv'
  <2>1. PICK queue \in SetToSeqs(Schedulable), technicians \in SetToSeqs(option.technicians) :
          /\ Prioritized([p \in Schedulable |-> plans[p].job], queue, option.horizon)
          /\ call' = [call EXCEPT ![r] =
              [phase |-> "assigning", option |-> option, technicians |-> technicians,
               queue |-> queue, state |-> FreeAt(Technicians, option.horizon),
               result |-> <<>>, written |-> 0, clean |-> TRUE]]
    BY <1>3 DEF ReadPlans
  <2>2. PICK c : c = [phase |-> "assigning", option |-> option, technicians |-> technicians,
                      queue |-> queue, state |-> FreeAt(Technicians, option.horizon),
                      result |-> <<>>, written |-> 0, clean |-> TRUE]
    OBVIOUS
  <2>3. RoundFine(c, plans)
    BY <1>0, <2>1, <2>2, FirstRoundFine
  <2>4. call' = [call EXCEPT ![r] = c] /\ plans' = plans /\ settled' = settled
    BY <1>3, <2>1, <2>2 DEF ReadPlans
  <2>5. RoundsFine(call', plans')
    BY <1>0, <2>3, <2>4, OthersFine
  <2> QED BY <1>0, <2>4, <2>5 DEF FineInv
<1>4. ASSUME NEW r \in Requests, Assign(r)
      PROVE  FineInv'
  <2>1. RoundIn(call[r], DOMAIN plans) /\ LoopOK(call[r]) /\ call[r].phase = "assigning"
        /\ RoundFine(call[r], plans)
    BY <1>0, <1>4, UnderWayIn DEF Assign, UnderWay, RoundsFine
  <2>2. PICK k \in DOMAIN call[r].technicians, hours \in plans[Head(call[r].queue)].job.hours :
          /\ FreeFirst(k, call[r].technicians, call[r].state)
          /\ call' = [call EXCEPT ![r] = Assigned(call[r], k, hours)]
    BY <1>4 DEF Assign
  <2>3. hours \in Nat
    BY <1>0, <2>1, <2>2, HoursKnown
  <2>4. RoundFine(Assigned(call[r], k, hours), plans)
    BY <2>1, <2>2, <2>3, NextRoundFine
  <2>5. plans' = plans /\ settled' = settled
    BY <1>4 DEF Assign
  <2>6. RoundsFine(call', plans')
    BY <1>0, <2>2, <2>4, <2>5, OthersFine
  <2> QED BY <1>0, <2>5, <2>6 DEF FineInv
<1>5. ASSUME NEW r \in Requests, WriteBooking(r)
      PROVE  FineInv'
  <2>1. PICK c, n, a : c = call[r] /\ n = c.written + 1 /\ a = c.result[n]
    OBVIOUS
  <2>2. RoundIn(c, DOMAIN plans) /\ LoopOK(c) /\ c.phase = "writing" /\ RoundFine(c, plans)
    BY <1>0, <1>5, <2>1, UnderWayIn DEF WriteBooking, UnderWay, RoundsFine
  <2>3. c.result \in Seq(Assignments) /\ c.written \in Nat /\ c.written < Len(c.result) /\ c.queue = <<>>
        /\ c.clean \in BOOLEAN
    BY <2>2 DEF RoundIn, Rounds, Assignments
  <2>4. n \in DOMAIN c.result /\ a.plan \in DOMAIN plans
    <3>1. n \in DOMAIN c.result
      BY <2>1, <2>3
    <3> QED BY <2>1, <2>2, <3>1 DEF RoundIn
  <2>5. /\ plans' = Booked(plans, a.plan, BookingOf(a))
        /\ settled' = (n = Len(c.result) /\ c.clean)
        /\ n = Len(c.result) => call' = [Disturbed(call) EXCEPT ![r] = Recording(Batch, "SCHEDULE")]
        /\ n # Len(c.result) => call' = [Disturbed(call) EXCEPT ![r] = WrittenUpTo(c, n)]
    BY <1>5, <2>1 DEF WriteBooking, BookingOf, Booked, WrittenUpTo
  <2>6. PICK new, d, p, booking : /\ new = plans' /\ d = WrittenUpTo(c, n)
                                  /\ p = a.plan /\ booking = BookingOf(a)
    OBVIOUS
  <2>a. p \in DOMAIN plans /\ new = Booked(plans, p, booking)
    BY <2>4, <2>5, <2>6
  <2>b. /\ SameJobs(plans, new) /\ SchedulableIn(new) = SchedulableIn(plans)
        /\ new[p].booking = booking
        /\ \A q \in DOMAIN plans : q # p => new[q] = plans[q]
    BY <1>0, <2>a, BookedRows
  <2>7. /\ SameJobs(plans, new) /\ SchedulableIn(new) = SchedulableIn(plans)
        /\ new[c.result[n].plan].booking = BookingOf(c.result[n])
        /\ \A q \in DOMAIN plans : q # c.result[n].plan => new[q].booking = plans[q].booking
    BY <2>1, <2>6, <2>b
  <2>8. /\ RoundFine(d, new)
        /\ c.clean => HasWritten(c, n, new)
    BY <2>1, <2>2, <2>4, <2>6, <2>7, WrittenFine
  <2>9. RoundsFine(call', new)
    <3>1. ~UnderWay(Recording(Batch, "SCHEDULE"))
      BY DEF UnderWay, Recording
    <3>2. CASE n = Len(c.result)
      BY <1>0, <2>5, <2>7, <3>1, <3>2, OthersFine
    <3>3. CASE n # Len(c.result)
      <4>1. call' = [Disturbed(call) EXCEPT ![r] = d]
        BY <2>5, <2>6, <3>3
      <4> QED BY <1>0, <2>7, <2>8, <4>1, OthersFine
    <3> QED BY <3>2, <3>3
  <2>10. ASSUME n = Len(c.result), c.clean
         PROVE  AllBooked(new)
    <3>1. \A m \in DOMAIN c.result : m <= n
      BY <2>3, <2>10
    <3>2. \A m \in DOMAIN c.result : new[c.result[m].plan].booking = BookingOf(c.result[m])
      BY <2>8, <2>10, <3>1 DEF HasWritten
    <3> QED BY <2>2, <2>3, <2>7, <2>10, <3>2, AllWritten
  <2> QED BY <2>5, <2>6, <2>9, <2>10 DEF FineInv
<1>6. ASSUME NEW r \in Requests, Record(r) \/ Fail(r)
      PROVE  FineInv'
  <2>1. call' = [call EXCEPT ![r] = IdleCall] /\ plans' = plans /\ settled' = settled
        /\ ~UnderWay(IdleCall)
    BY <1>6 DEF Record, Fail, UnderWay, IdleCall
  <2>2. RoundsFine(call', plans')
    BY <1>0, <2>1, OthersFine
  <2> QED BY <1>0, <2>1, <2>2 DEF FineInv
<1>7. CASE UNCHANGED vars
  BY <1>0, <1>7 DEF vars, FineInv
<1> QED BY <1>1, <1>2, <1>3, <1>4, <1>5, <1>6, <1>7 DEF Next

----
(* What becomes of the records. *)

\* An entry is on record, or a request is about to record it.
Told(e) == e \in recorded \/ \E r \in Requests : call[r].phase = "recording" /\ call[r].entry = e

\* A plan's status is told, and that there are bookings, or a call has yet to come to
\* its last one.
PlanTold(p) ==
    /\ \/ Told(<<p, plans[p].status>>)
       \/ plans[p].status = "draft" /\ Told(<<p, "CREATE">>)
    /\ plans[p].booking # NoBooking =>
           Told(<<Batch, "SCHEDULE">>) \/ \E r \in Requests : call[r].phase = "writing"

RecordsInv == ~failed => \A p \in DOMAIN plans : PlanTold(p)

\* What one request leaves to be told when another, or it itself, goes on.
LEMMA ToldStays ==
    ASSUME NEW r \in Requests, ~(call[r].phase = "recording"), recorded' = recorded,
           \A s \in Requests \ {r} : call'[s].phase = call[s].phase
                                     /\ (call[s].phase = "recording" => call'[s] = call[s])
    PROVE  \A e : Told(e) => Told(e)'
BY DEF Told

\* A request that has recorded has told what it had to.
LEMMA RecordTells ==
    ASSUME NEW r \in Requests, Record(r), DOMAIN call = Requests
    PROVE  \A e : Told(e) => Told(e)'
BY DEF Told, Record

LEMMA InitRecordsInv == Init => RecordsInv
<1> SUFFICES ASSUME Init, NEW p \in DOMAIN plans PROVE PlanTold(p)
  BY DEF RecordsInv
<1>1. PICK seed \in Seeds : /\ plans = [q \in DOMAIN seed |-> Row(seed[q][1], seed[q][2])]
                            /\ recorded = {<<q, seed[q][2]>> : q \in DOMAIN seed}
  BY DEF Init
<1>2. plans[p].status = seed[p][2] /\ plans[p].booking = NoBooking /\ <<p, seed[p][2]>> \in recorded
  BY <1>1 DEF Row
<1> QED BY <1>2 DEF PlanTold, Told

LEMMA NextRecordsInv == LoopInv /\ RecordsInv /\ [Next]_vars => RecordsInv'
<1> SUFFICES ASSUME LoopInv, RecordsInv, [Next]_vars, ~failed', NEW p \in DOMAIN plans'
             PROVE  PlanTold(p)'
  BY DEF RecordsInv
<1>0. /\ plans \in Plans /\ CallsIn(call, DOMAIN plans) /\ DOMAIN call = Requests
      /\ DOMAIN Disturbed(call) = Requests
      /\ \A s \in Requests : /\ Disturbed(call)[s].phase = call[s].phase
                             /\ ~UnderWay(call[s]) => Disturbed(call)[s] = call[s]
  BY DisturbedParts DEF LoopInv, CallsIn, Disturbed
<1>1. ~failed /\ \A q \in DOMAIN plans : PlanTold(q)
  <2>1. failed => failed'
    BY DEF Next, vars, Create, Transition, ReadPlans, Assign, WriteBooking, Record, Fail
  <2> QED BY <2>1 DEF RecordsInv
<1>2. ASSUME NEW r \in Requests, NEW job \in Jobs, Create(r, job)
      PROVE  PlanTold(p)'
  <2>1. PICK new, last : /\ new = plans' /\ last = Len(plans) + 1
    OBVIOUS
  <2>2. /\ \A q \in DOMAIN plans : new[q] = plans[q]
        /\ DOMAIN new = DOMAIN plans \cup {last}
        /\ new[last] = Row(job, "draft")
    BY <1>0, <1>2, <2>1, CreatedRows DEF Create
  <2>3. /\ call' = [call EXCEPT ![r] = Recording(last, "CREATE")] /\ recorded' = recorded
        /\ call[r].phase = "idle"
    BY <1>2, <2>1 DEF Create, Busy
  <2>4. \A e : Told(e) => Told(e)'
    BY <1>0, <2>3, ToldStays
  <2>5. CASE p \in DOMAIN plans
    <3>1. PlanTold(p) /\ plans'[p] = plans[p]
      BY <1>1, <2>1, <2>2, <2>5
    <3>2. \A s \in Requests : call[s].phase = "writing" => call'[s].phase = "writing"
      BY <1>0, <2>3
    <3> QED BY <2>4, <3>1, <3>2 DEF PlanTold
  <2>6. CASE p = last
    <3>1. plans'[p].status = "draft" /\ plans'[p].booking = NoBooking
      BY <2>1, <2>2, <2>6 DEF Row
    <3>2. call'[r].phase = "recording" /\ call'[r].entry = <<p, "CREATE">>
      BY <1>0, <2>3, <2>6 DEF Recording
    <3>3. Told(<<p, "CREATE">>)'
      BY <3>2 DEF Told
    <3> QED BY <3>1, <3>3 DEF PlanTold
  <2> QED BY <2>1, <2>2, <2>5, <2>6
<1>3. ASSUME NEW r \in Requests, NEW q \in DOMAIN plans, NEW status \in PlanStatuses,
             Transition(r, q, status)
      PROVE  PlanTold(p)'
  <2>1. PICK new : new = plans'
    OBVIOUS
  <2>a. new = Moved(plans, q, status)
    BY <1>3, <2>1 DEF Transition, Moved
  <2>2. /\ SameBookings(plans, new) /\ DOMAIN new = DOMAIN plans
        /\ \A o \in DOMAIN plans : o # q => new[o] = plans[o]
        /\ new[q].status = status
    BY <1>0, <2>a, MovedRows
  <2>3. /\ \/ call' = [call EXCEPT ![r] = Recording(q, status)]
           \/ call' = [Disturbed(call) EXCEPT ![r] = Recording(q, status)]
        /\ call[r].phase = "idle" /\ recorded' = recorded
    BY <1>3 DEF Transition, Busy
  <2>4. /\ \A s \in Requests \ {r} : call'[s].phase = call[s].phase
                                     /\ (call[s].phase = "recording" => call'[s] = call[s])
        /\ call'[r].phase = "recording" /\ call'[r].entry = <<q, status>>
    BY <1>0, <2>3 DEF UnderWay, Recording
  <2>5. \A e : Told(e) => Told(e)'
    BY <2>3, <2>4, ToldStays
  <2>6. PlanTold(p) /\ plans'[p].booking = plans[p].booking
    BY <1>1, <2>1, <2>2 DEF SameBookings
  <2>7. \A s \in Requests : call[s].phase = "writing" => call'[s].phase = "writing"
    BY <2>3, <2>4
  <2>8. CASE p = q
    <3>1. Told(<<p, status>>)' /\ plans'[p].status = status
      BY <2>1, <2>2, <2>4, <2>8 DEF Told
    <3> QED BY <2>5, <2>6, <2>7, <3>1 DEF PlanTold
  <2>9. CASE p # q
    <3>1. plans'[p] = plans[p]
      BY <2>1, <2>2, <2>9
    <3> QED BY <2>5, <2>6, <2>7, <3>1 DEF PlanTold
  <2> QED BY <2>8, <2>9
<1>4. ASSUME NEW r \in Requests, NEW option \in Options, ReadPlans(r, option)
      PROVE  PlanTold(p)'
  <2>1. PICK c : call' = [call EXCEPT ![r] = c]
    BY <1>4 DEF ReadPlans
  <2>2. call[r].phase = "idle" /\ recorded' = recorded /\ plans' = plans
    BY <1>4 DEF ReadPlans, Busy
  <2>3. \A e : Told(e) => Told(e)'
    BY <1>0, <2>1, <2>2, ToldStays
  <2>4. \A s \in Requests : call[s].phase = "writing" => call'[s].phase = "writing"
    BY <1>0, <2>1, <2>2
  <2> QED BY <1>1, <2>2, <2>3, <2>4 DEF PlanTold
<1>5. ASSUME NEW r \in Requests, Assign(r)
      PROVE  PlanTold(p)'
  <2>1. PICK c : call' = [call EXCEPT ![r] = c]
    BY <1>5 DEF Assign
  <2>2. call[r].phase = "assigning" /\ recorded' = recorded /\ plans' = plans
    BY <1>5 DEF Assign
  <2>3. \A e : Told(e) => Told(e)'
    BY <1>0, <2>1, <2>2, ToldStays
  <2>4. \A s \in Requests : call[s].phase = "writing" => call'[s].phase = "writing"
    BY <1>0, <2>1, <2>2
  <2> QED BY <1>1, <2>2, <2>3, <2>4 DEF PlanTold
<1>6. ASSUME NEW r \in Requests, WriteBooking(r)
      PROVE  PlanTold(p)'
  <2>1. PICK c, n, q, booking : /\ c = call[r] /\ n = c.written + 1 /\ q = c.result[n].plan
                                /\ booking = BookingOf(c.result[n])
    OBVIOUS
  <2>2. RoundIn(c, DOMAIN plans) /\ c.phase = "writing"
    BY <1>0, <1>6, <2>1, UnderWayIn DEF WriteBooking, UnderWay
  <2>3. c.result \in Seq(Assignments) /\ c.written \in Nat /\ c.written < Len(c.result) /\ c \in Rounds
    BY <2>2 DEF RoundIn, Rounds, Assignments
  <2>4. q \in DOMAIN plans
    <3>1. n \in DOMAIN c.result
      BY <2>1, <2>3
    <3> QED BY <2>1, <2>2, <3>1 DEF RoundIn
  <2>5. /\ plans' = Booked(plans, q, booking) /\ recorded' = recorded
        /\ \/ call' = [Disturbed(call) EXCEPT ![r] = Recording(Batch, "SCHEDULE")]
           \/ call' = [Disturbed(call) EXCEPT ![r] = WrittenUpTo(c, n)]
    BY <1>6, <2>1 DEF WriteBooking, BookingOf, Booked, WrittenUpTo
  <2>6. PICK new : new = plans'
    OBVIOUS
  <2>7. /\ DOMAIN new = DOMAIN plans /\ \A o \in DOMAIN plans : new[o].status = plans[o].status
    <3>1. new = Booked(plans, q, booking)
      BY <2>5, <2>6
    <3> QED BY <1>0, <2>4, <3>1, BookedRows
  <2>8. \A s \in Requests \ {r} : call'[s].phase = call[s].phase
                                  /\ (call[s].phase = "recording" => call'[s] = call[s])
    BY <1>0, <2>5 DEF UnderWay
  <2>9. \A e : Told(e) => Told(e)'
    BY <2>1, <2>2, <2>5, <2>8, ToldStays
  <2>10. Told(<<Batch, "SCHEDULE">>)' \/ call'[r].phase = "writing"
    <3>1. CASE call' = [Disturbed(call) EXCEPT ![r] = Recording(Batch, "SCHEDULE")]
      <4>1. call'[r].phase = "recording" /\ call'[r].entry = <<Batch, "SCHEDULE">>
        BY <1>0, <3>1 DEF Recording
      <4> QED BY <4>1 DEF Told
    <3>2. CASE call' = [Disturbed(call) EXCEPT ![r] = WrittenUpTo(c, n)]
      <4>1. WrittenUpTo(c, n).phase = "writing"
        BY <2>2, <2>3 DEF WrittenUpTo, Rounds
      <4> QED BY <1>0, <3>2, <4>1
    <3> QED BY <2>5, <3>1, <3>2
  <2>11. PlanTold(p) /\ plans'[p].status = plans[p].status
    BY <1>1, <2>6, <2>7
  <2> QED BY <2>9, <2>10, <2>11 DEF PlanTold
<1>7. ASSUME NEW r \in Requests, Record(r)
      PROVE  PlanTold(p)'
  <2>1. \A e : Told(e) => Told(e)'
    BY <1>0, <1>7, RecordTells
  <2>2. plans' = plans /\ \A s \in Requests : call[s].phase = "writing" => call'[s].phase = "writing"
    BY <1>0, <1>7 DEF Record
  <2> QED BY <1>1, <2>1, <2>2 DEF PlanTold
<1>8. ASSUME NEW r \in Requests, Fail(r)
      PROVE  FALSE
  BY <1>8 DEF Fail
<1>9. CASE UNCHANGED vars
  BY <1>1, <1>9 DEF vars, PlanTold, Told
<1> QED BY <1>2, <1>3, <1>4, <1>5, <1>6, <1>7, <1>8, <1>9 DEF Next

----
\* It holds always.
LEMMA LoopInvHolds == Spec => []LoopInv
BY InitLoopInv, NextLoopInv, PTL DEF Spec

LEMMA RoundsFineHold == Spec => []FineInv
BY InitFineInv, NextFineInv, LoopInvHolds, PTL DEF Spec

\* Type correctness of maintenance.service.ts: the plans, the records and what the
\* requests have in hand keep their shape, whatever overlaps or fails.
THEOREM MaintenanceTypeCorrect == Spec => []TypeOK
<1>1. LoopInv => TypeOK
  BY DEF LoopInv, TypeOK, Plans, Rows, CallsIn, CallIn, RoundIn, RoundOK
<1> QED BY <1>1, LoopInvHolds, PTL

\* No call of schedule() books a technician twice for the same time, for any number
\* of jobs and technicians and any length of the jobs, the day and the shift.
THEOREM NoTechnicianTwice == Spec => []NeverDoubleBooks
<1>1. LoopInv => NeverDoubleBooks
  BY DEF LoopInv, NeverDoubleBooks, CallsIn, CallIn, LoopOK, Scheduling, IdleCall
<1> QED BY <1>1, LoopInvHolds, PTL

\* A job that is no longer than a working day lies within one shift, also when the
\* shift crosses midnight or a job before it was longer than a day.
THEOREM ShiftsAreKept == Spec => []CapacityKept
<1>1. LoopInv => CapacityKept
  BY DEF LoopInv, CapacityKept, CallsIn, CallIn, LoopOK, Scheduling, IdleCall
<1> QED BY <1>1, LoopInvHolds, PTL

\* The loop finds the earliest hour: on a plain day no job could start before it does,
\* with any technician, without moving a job that is at least as urgent, for any
\* number of jobs and technicians, any hours of them and any day.
THEOREM NothingEarlier == Spec => []EarliestPossible
<1>1. RoundsFine(call, plans) => EarliestPossible
  <2> SUFFICES ASSUME RoundsFine(call, plans), NEW r \in Requests, call[r].phase = "writing",
                      PlainDay(call[r]), NEW n \in DOMAIN call[r].result,
                      NEW t \in call[r].option.technicians,
                      NEW s \in call[r].option.horizon..(call[r].result[n].start - 1),
                      InShift(s, Hours(call[r].result[n]), call[r].option)
               PROVE  \E m \in DOMAIN call[r].result :
                          /\ call[r].result[m].technician = t /\ call[r].result[m].end > s
                          /\ GoesFirst(call[r], m, n)
    BY DEF EarliestPossible
  <2>1. NoneEarlier(call[r]) /\ InOrder(call[r], plans)
    BY DEF RoundsFine, RoundFine, UnderWay
  <2>2. PICK m \in DOMAIN call[r].result :
          m < n /\ call[r].result[m].technician = t /\ call[r].result[m].end > s
    BY <2>1 DEF NoneEarlier
  <2>3. GoesFirst(call[r], m, n)
    BY <2>1, <2>2 DEF InOrder, Precedes, GoesFirst
  <2> QED BY <2>2, <2>3
<1> QED BY <1>1, RoundsFineHold, PTL DEF FineInv

\* After a schedule() that nothing came between, every plan that is to be scheduled is
\* booked and no technician is booked twice, whatever requests overlapped with it and
\* whichever transitions away from approval followed.
THEOREM SettledAreBooked == Spec => []SettledBookings
<1>1. FineInv => SettledBookings
  BY DEF FineInv, SettledBookings, AllBooked, Schedulable, SchedulableIn
<1> QED BY <1>1, RoundsFineHold, PTL

\* Once all requests have come to their end, none of them early, the audit log names
\* the status of every plan and, if there are bookings, that schedule() was called.
THEOREM ChangesRecorded == Spec => []ChangesAreRecorded
<1>1. RecordsInv => ChangesAreRecorded
  BY DEF RecordsInv, ChangesAreRecorded, PlanTold, Told, Idle, Busy
<1>2. LoopInv /\ RecordsInv /\ [Next]_vars => RecordsInv'
  BY NextRecordsInv
<1> QED BY <1>1, <1>2, InitRecordsInv, LoopInvHolds, PTL DEF Spec

----
(* The comparator of prioritizeJobs(). *)

\* A job's due date, if it has one.
DueOnce(job) == job.due = {} \/ \E d \in Int : job.due = {d}

LEMMA WeightIsNumber == ASSUME NEW job PROVE Weight(job) \in Int
  BY DEF Weight, CriticalityWeight

\* The last of the three criteria by itself.
LEMMA DueIsWeakOrder ==
    ASSUME NEW a, NEW b, NEW c, DueOnce(a), DueOnce(b), DueOnce(c)
    PROVE  /\ ~DueBefore(a, a)
           /\ DueBefore(a, b) => ~DueBefore(b, a)
           /\ DueBefore(a, c) => DueBefore(a, b) \/ DueBefore(b, c)
  <1>1. \A x, y \in {a, b, c} : x.due = {} => ~DueBefore(x, y)
    BY DEF DueBefore
  <1>2. \A x, y \in {a, b, c} : x.due # {} /\ y.due = {} => DueBefore(x, y)
    BY DEF DueBefore
  <1>3. ASSUME NEW x \in {a, b, c}, NEW y \in {a, b, c}, NEW d, NEW e, x.due = {d}, y.due = {e}
        PROVE  DueBefore(x, y) <=> d < e
    BY <1>3 DEF DueBefore
  <1>4. CASE a.due = {}
    BY <1>1, <1>4
  <1>5. CASE \E d \in Int : a.due = {d}
    <2>1. PICK d \in Int : a.due = {d}
      BY <1>5
    <2>2. ~DueBefore(a, a)
      BY <1>3, <2>1
    <2>3. CASE b.due = {}
      BY <1>1, <1>2, <2>1, <2>2, <2>3
    <2>4. CASE \E e \in Int : b.due = {e}
      <3>1. PICK e \in Int : b.due = {e}
        BY <2>4
      <3>2. (DueBefore(a, b) <=> d < e) /\ (DueBefore(b, a) <=> e < d)
        BY <1>3, <2>1, <3>1
      <3>3. CASE c.due = {}
        BY <1>2, <2>2, <3>1, <3>2, <3>3
      <3>4. CASE \E f \in Int : c.due = {f}
        <4>1. PICK f \in Int : c.due = {f}
          BY <3>4
        <4>2. (DueBefore(a, c) <=> d < f) /\ (DueBefore(b, c) <=> e < f)
          BY <1>3, <2>1, <3>1, <4>1
        <4> QED
          BY <2>2, <3>2, <4>2
      <3> QED
        BY <3>3, <3>4 DEF DueOnce
    <2> QED
      BY <2>3, <2>4 DEF DueOnce
  <1> QED
    BY <1>4, <1>5 DEF DueOnce

\* prioritizeJobs() at any time, for any jobs with or without a due date: the comparator
\* never contradicts itself.  No job comes before itself, no two before each other; what
\* comes before a job comes before all that it comes before; and of a third job, one of two
\* that are not level is always told apart.  So the sort has one result, up to level jobs.
THEOREM UrgencyIsWeakOrder ==
    ASSUME NEW now, NEW a, NEW b, NEW c, DueOnce(a), DueOnce(b), DueOnce(c)
    PROVE  /\ ~Before(a, a, now)
           /\ Before(a, b, now) => ~Before(b, a, now)
           /\ Before(a, b, now) /\ Before(b, c, now) => Before(a, c, now)
           /\ Before(a, c, now) => Before(a, b, now) \/ Before(b, c, now)
  <1> DEFINE o(x) == Overdue(x, now)
             w(x) == Weight(x)
  <1>1. \A x, y : Before(x, y, now) <=> \/ o(x) /\ ~o(y)
                                        \/ (o(x) <=> o(y)) /\ w(x) # w(y) /\ w(x) > w(y)
                                        \/ (o(x) <=> o(y)) /\ w(x) = w(y) /\ DueBefore(x, y)
    BY DEF Before, Overdue
  <1>2. w(a) \in Int /\ w(b) \in Int /\ w(c) \in Int
    BY WeightIsNumber
  <1>3. /\ ~DueBefore(a, a)
        /\ DueBefore(a, b) => ~DueBefore(b, a)
        /\ DueBefore(a, c) => DueBefore(a, b) \/ DueBefore(b, c)
        /\ DueBefore(b, c) => ~DueBefore(c, b)
        /\ DueBefore(a, b) => DueBefore(a, c) \/ DueBefore(c, b)
    BY DueIsWeakOrder
  <1> HIDE DEF o, w
  <1>4. ~Before(a, a, now) /\ (Before(a, b, now) => ~Before(b, a, now))
    BY <1>1, <1>2, <1>3
  <1>5. Before(a, b, now) /\ Before(b, c, now) => Before(a, c, now)
    BY <1>1, <1>2, <1>3
  <1>6. Before(a, c, now) => Before(a, b, now) \/ Before(b, c, now)
    BY <1>1, <1>2, <1>3
  <1> QED
    BY <1>4, <1>5, <1>6
====
