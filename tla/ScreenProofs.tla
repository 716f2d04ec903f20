---- MODULE ScreenProofs ----
(***************************************************************************)
(* Theorems about what the screens show.                                    *)
(*                                                                          *)
(* Feed, for any number of scans, acknowledgements and events: what a scan  *)
(* that is about to create an event has found, nothing, must still be so    *)
(* when it creates it; the invariant of OneLiveEvent says that it is, as    *)
(* only another scan's create or the acknowledgement of a closed event      *)
(* could change it, both of which are what irregular records.               *)
(*                                                                          *)
(* For FeedAgrees the invariant says that what is to be told is true, and   *)
(* of each event not in doubt that it is about to be told, or that the last *)
(* message under way about it says its status, or that the list and the     *)
(* newest answer show it.                                                   *)
(*                                                                          *)
(* Pages, for every page, any number of loads, changes and other users'     *)
(* changes: a change that is answered starts a load, so the newest load     *)
(* reads what it finds after all of the page's own changes; that holds of   *)
(* the answers it has so far, and of the page once it shows them.           *)
(***************************************************************************)
EXTENDS Feed, Pages, Functions, FiniteSetTheorems, SequenceTheorems, TLAPS

----
(* Feed. *)

EventRecords == [status : Live \cup {"closed"}, fresh : BOOLEAN]

\* The fields of a scan, whatever is in them.
IsScan(r) == r = [phase |-> r.phase, todo |-> r.todo, status |-> r.status]

FeedShape ==
    /\ events \in Seq(EventRecords)
    /\ DOMAIN scan = Scans /\ \A s \in Scans : IsScan(scan[s])
    /\ irregular \in BOOLEAN

LiveAndFresh == {e \in DOMAIN events : events[e].fresh /\ events[e].status # "closed"}

AtMostOne(S) == \A a, b \in S : a = b

Creating == {s \in Scans : scan[s].phase = "create"}

OneInv ==
    /\ FeedShape
    /\ ~irregular => /\ AtMostOne(LiveAndFresh)
                     /\ Creating # {} => LiveAndFresh = {}

----
LEMMA AtMostOneIsOne ==
    ASSUME NEW S, AtMostOne(S)
    PROVE  Cardinality(S) <= 1
<1>1. CASE S = {}
  BY <1>1, FS_EmptySet
<1>2. ASSUME NEW a \in S
      PROVE  Cardinality(S) <= 1
  <2>1. S = {a}
    BY <1>2 DEF AtMostOne
  <2>2. Cardinality({a}) = 1
    BY FS_Singleton
  <2> QED
    BY <2>1, <2>2
<1> QED
  BY <1>1, <1>2

\* What findFirst of scoreOne looks for is what the property counts.
LEMMA RecentIsLiveAndFresh ==
    ASSUME FeedShape
    PROVE  Recent = LiveAndFresh
<1>1. \A e \in DOMAIN events : events[e] \in EventRecords
  BY ElementOfSeq, LenProperties DEF FeedShape
<1>2. \A e \in DOMAIN events : events[e].status \in Live <=> events[e].status # "closed"
  BY <1>1 DEF EventRecords, Live
<1> QED
  BY <1>2 DEF Recent, LiveAndFresh

\* A step that creates no event, revives none and does not send a scan to create.
LEMMA NoNewEvent ==
    ASSUME OneInv, FeedShape', ~irregular' => ~irregular,
           ~irregular' => LiveAndFresh' \subseteq LiveAndFresh,
           Creating' \subseteq Creating
    PROVE  OneInv'
  BY DEF OneInv, AtMostOne

\* One scan goes on, to no create.
LEMMA ScanGoesOn ==
    ASSUME FeedShape, NEW s \in Scans, NEW r, IsScan(r), r.phase # "create",
           scan' = [scan EXCEPT ![s] = r]
    PROVE  /\ DOMAIN scan' = Scans /\ \A o \in Scans : IsScan(scan'[o])
           /\ Creating' \subseteq Creating
  BY DEF FeedShape, Creating

\* One event changes, to one that is live and fresh only if it was.
LEMMA EventChanges ==
    ASSUME FeedShape, NEW e, NEW ev \in EventRecords,
           events' = [events EXCEPT ![e] = ev],
           e \in DOMAIN events /\ ev.fresh /\ ev.status # "closed" => e \in LiveAndFresh
    PROVE  events' \in Seq(EventRecords) /\ LiveAndFresh' \subseteq LiveAndFresh
<1>1. events \in Seq(EventRecords) /\ DOMAIN events = 1..Len(events)
  BY LenProperties DEF FeedShape
<1>2. CASE e \in DOMAIN events
  <2>1. events' \in Seq(EventRecords)
    BY <1>1, <1>2, ExceptSeq
  <2> QED
    BY <1>1, <1>2, <2>1 DEF LiveAndFresh
<1>3. CASE e \notin DOMAIN events
  <2>1. events' = events
    BY <1>1, <1>3
  <2> QED
    BY <1>1, <2>1 DEF LiveAndFresh
<1> QED
  BY <1>2, <1>3

LEMMA FeedInitInv == FeedInit => OneInv
<1> SUFFICES ASSUME FeedInit PROVE OneInv
  OBVIOUS
<1> DEFINE first == [status |-> "open", fresh |-> TRUE]
<1>1. first \in EventRecords
  BY DEF EventRecords, Live
<1>2. <<>> \in Seq(EventRecords) /\ DOMAIN <<>> = {}
  BY EmptySeq
<1>3. <<first>> \in Seq(EventRecords) /\ DOMAIN <<first>> = {1}
  BY <1>1
<1>4. events = <<>> \/ events = <<first>>
  BY DEF FeedInit
<1> HIDE DEF first
<1>5. events \in Seq(EventRecords) /\ AtMostOne(LiveAndFresh)
  <2>1. events \in Seq(EventRecords) /\ DOMAIN events \subseteq {1}
    BY <1>2, <1>3, <1>4
  <2>2. LiveAndFresh \subseteq {1}
    BY <2>1 DEF LiveAndFresh
  <2> QED
    BY <2>1, <2>2 DEF AtMostOne
<1>6. DOMAIN scan = Scans /\ (\A s \in Scans : IsScan(scan[s])) /\ Creating = {}
  BY DEF FeedInit, NoScan, IsScan, Creating
<1> QED
  BY <1>5, <1>6 DEF FeedInit, OneInv, FeedShape

LEMMA FindRecentKeeps ==
    ASSUME OneInv, NEW s \in Scans, FindRecent(s)
    PROVE  OneInv'
<1>1. UNCHANGED <<events, irregular>> /\ FeedShape /\ LiveAndFresh' = LiveAndFresh
  BY DEF FindRecent, OneInv, LiveAndFresh
<1>2. CASE Recent = {} /\ scan' = [scan EXCEPT ![s] = [NoScan EXCEPT !.phase = "create"]]
  <2>1. LiveAndFresh = {}
    BY <1>1, <1>2, RecentIsLiveAndFresh
  <2>2. FeedShape'
    BY <1>1, <1>2 DEF FeedShape, IsScan, NoScan
  <2> QED
    BY <1>1, <2>1, <2>2 DEF OneInv, AtMostOne
<1>3. ASSUME NEW e \in Recent,
             scan' = [scan EXCEPT ![s] =
                        [phase |-> "retell", todo |-> <<e>>, status |-> events[e].status]]
      PROVE  OneInv'
  <2> DEFINE r == [phase |-> "retell", todo |-> <<e>>, status |-> events[e].status]
  <2>1. scan' = [scan EXCEPT ![s] = r]
    BY <1>3
  <2>2. IsScan(r) /\ r.phase # "create"
    BY DEF IsScan
  <2> HIDE DEF r
  <2>3. DOMAIN scan' = Scans /\ (\A o \in Scans : IsScan(scan'[o])) /\ Creating' \subseteq Creating
    BY <1>1, <2>1, <2>2, ScanGoesOn
  <2>4. FeedShape'
    BY <1>1, <2>3 DEF FeedShape
  <2> QED
    BY <1>1, <2>3, <2>4, NoNewEvent
<1> QED
  BY <1>2, <1>3 DEF FindRecent

\* The scan found nothing, and nothing came in between unless it is irregular: the new
\* event is the only one.
LEMMA CreateEventKeeps ==
    ASSUME OneInv, NEW s \in Scans, CreateEvent(s)
    PROVE  OneInv'
<1> DEFINE first == [status |-> "open", fresh |-> TRUE]
           n == Len(events) + 1
<1>1. /\ FeedShape /\ events \in Seq(EventRecords) /\ first \in EventRecords
      /\ events' = Append(events, first)
      /\ scan[s].phase = "create"
  BY DEF OneInv, FeedShape, CreateEvent, EventRecords, Live
<1>2. /\ events' \in Seq(EventRecords) /\ DOMAIN events' = DOMAIN events \cup {n}
      /\ \A e \in DOMAIN events : events'[e] = events[e]
  <2> HIDE DEF first
  <2>1. /\ Append(events, first) \in Seq(EventRecords)
        /\ Len(Append(events, first)) = Len(events) + 1
        /\ \A i \in 1..Len(events) : Append(events, first)[i] = events[i]
    BY <1>1, AppendProperties
  <2>2. /\ DOMAIN events = 1..Len(events) /\ Len(events) \in Nat
        /\ DOMAIN events' = 1..Len(events')
    BY <1>1, <2>1, LenProperties
  <2> QED
    BY <1>1, <2>1, <2>2
<1>3. /\ irregular' = (irregular \/ \E o \in Scans \ {s} : scan[o].phase = "create")
      /\ irregular \in BOOLEAN
  BY DEF CreateEvent, OneInv, FeedShape
<1> DEFINE r == [phase |-> "tell", todo |-> <<n>>, status |-> "open"]
<1>4. scan' = [scan EXCEPT ![s] = r]
  BY DEF CreateEvent
<1>5. IsScan(r) /\ r.phase # "create"
  BY DEF IsScan
<1> HIDE DEF n, r
<1>6. DOMAIN scan' = Scans /\ \A o \in Scans : IsScan(scan'[o])
  BY <1>1, <1>4, <1>5, ScanGoesOn
<1>7. FeedShape'
  BY <1>2, <1>3, <1>6 DEF FeedShape
<1>8. ASSUME ~irregular'
      PROVE  AtMostOne(LiveAndFresh') /\ Creating' = {}
  <2>1. ~irregular /\ \A o \in Scans \ {s} : scan[o].phase # "create"
    BY <1>3, <1>8
  <2>2. Creating' = {}
    BY <1>1, <1>4, <1>5, <2>1 DEF Creating, FeedShape
  <2>3. LiveAndFresh = {}
    BY <1>1, <2>1 DEF OneInv, Creating
  <2>4. LiveAndFresh' \subseteq {n}
    BY <1>2, <2>3 DEF LiveAndFresh
  <2> QED
    BY <2>2, <2>4 DEF AtMostOne
<1> QED
  BY <1>7, <1>8 DEF OneInv

LEMMA AcknowledgeKeeps ==
    ASSUME OneInv, NEW k \in Acks, Acknowledge(k)
    PROVE  OneInv'
<1>1. PICK e \in DOMAIN events :
         /\ events' = [events EXCEPT ![e].status = "acknowledged"]
         /\ irregular' = (irregular \/ events[e].status = "closed")
  BY DEF Acknowledge
<1>2. scan' = scan /\ FeedShape
  BY DEF Acknowledge, OneInv
<1> DEFINE ev == [events[e] EXCEPT !.status = "acknowledged"]
<1>3. events[e] \in EventRecords
  BY <1>2, ElementOfSeq, LenProperties DEF FeedShape
<1>4. ev \in EventRecords /\ ev.fresh = events[e].fresh
  BY <1>3 DEF EventRecords, Live
<1>5. events' = [events EXCEPT ![e] = ev]
  BY <1>1
<1> HIDE DEF ev
<1>6. irregular' \in BOOLEAN /\ (~irregular' => ~irregular /\ events[e].status # "closed")
  BY <1>1, <1>2 DEF FeedShape
<1>7. CASE events[e].status # "closed"
  <2>1. ev.fresh => e \in LiveAndFresh
    BY <1>4, <1>7 DEF LiveAndFresh
  <2>2. events' \in Seq(EventRecords) /\ LiveAndFresh' \subseteq LiveAndFresh
    BY <1>2, <1>4, <1>5, <2>1, EventChanges
  <2>3. FeedShape' /\ Creating' = Creating
    BY <1>2, <1>6, <2>2 DEF FeedShape, Creating
  <2> QED
    BY <1>6, <2>2, <2>3, NoNewEvent
<1>8. CASE events[e].status = "closed"
  <2>1. events' \in Seq(EventRecords)
    BY <1>2, <1>4, <1>5, ExceptSeq, LenProperties DEF FeedShape
  <2>2. FeedShape'
    BY <1>2, <1>6, <2>1 DEF FeedShape
  <2> QED
    BY <1>6, <1>8, <2>2 DEF OneInv
<1> QED
  BY <1>7, <1>8

\* CloseEvent and Age.
LEMMA CloseEventKeeps ==
    ASSUME OneInv, NEW s \in Scans, CloseEvent(s)
    PROVE  OneInv'
<1> DEFINE e == Head(scan[s].todo)
           ev == [events[e] EXCEPT !.status = "closed"]
           r == [scan[s] EXCEPT !.phase = "tell"]
<1>1. /\ FeedShape /\ UNCHANGED irregular
      /\ events' = [events EXCEPT ![e].status = "closed"]
      /\ scan' = [scan EXCEPT ![s].phase = "tell"]
  BY DEF CloseEvent, OneInv
<1>2. events' = [events EXCEPT ![e] = ev] /\ scan' = [scan EXCEPT ![s] = r]
  BY <1>1
<1>3. IsScan(scan[s])
  BY <1>1 DEF FeedShape
<1>4. IsScan(r) /\ r.phase # "create"
  BY <1>3 DEF IsScan
<1> HIDE DEF e, r
<1>5. DOMAIN scan' = Scans /\ (\A o \in Scans : IsScan(scan'[o])) /\ Creating' \subseteq Creating
  BY <1>1, <1>2, <1>4, ScanGoesOn
<1>6. events' \in Seq(EventRecords) /\ LiveAndFresh' \subseteq LiveAndFresh
  <2>1. CASE e \in DOMAIN events
    <3>1. events[e] \in EventRecords
      BY <1>1, <2>1, ElementOfSeq, LenProperties DEF FeedShape
    <3>2. ev \in EventRecords /\ ev.status = "closed"
      BY <3>1 DEF EventRecords
    <3> HIDE DEF ev
    <3> QED
      BY <1>1, <1>2, <3>2, EventChanges
  <2>2. CASE e \notin DOMAIN events
    <3>1. events' = events
      BY <1>1, <2>2 DEF FeedShape
    <3> QED
      BY <1>1, <3>1 DEF FeedShape, LiveAndFresh
  <2> QED
    BY <2>1, <2>2
<1>7. FeedShape'
  BY <1>1, <1>5, <1>6 DEF FeedShape
<1> QED
  BY <1>1, <1>5, <1>6, <1>7, NoNewEvent

LEMMA AgeKeeps ==
    ASSUME OneInv, NEW e \in DOMAIN events, Age(e)
    PROVE  OneInv'
<1> DEFINE ev == [events[e] EXCEPT !.fresh = FALSE]
<1>1. FeedShape /\ UNCHANGED <<scan, irregular>> /\ events' = [events EXCEPT ![e] = ev]
  BY DEF Age, OneInv
<1>2. events[e] \in EventRecords
  BY <1>1, ElementOfSeq, LenProperties DEF FeedShape
<1>3. ev \in EventRecords /\ ~ev.fresh
  BY <1>2 DEF EventRecords
<1> HIDE DEF ev
<1>4. events' \in Seq(EventRecords) /\ LiveAndFresh' \subseteq LiveAndFresh
  BY <1>1, <1>3, EventChanges
<1>5. FeedShape' /\ Creating' = Creating
  BY <1>1, <1>4 DEF FeedShape, Creating
<1> QED
  BY <1>1, <1>4, <1>5, NoNewEvent

\* The steps of a scan that touch no event and create none.
LEMMA ScanOnlyKeeps ==
    ASSUME OneInv, NEW s \in Scans, FindLive(s) \/ TellRoom(s) \/ ScanEnds(s)
    PROVE  OneInv'
<1>1. FeedShape /\ UNCHANGED <<events, irregular>>
  BY DEF FindLive, TellRoom, ScanEnds, OneInv
<1>2. IsScan(NoScan) /\ NoScan.phase # "create" /\ IsScan(scan[s])
  BY <1>1 DEF NoScan, IsScan, FeedShape
<1>3. PICK r : IsScan(r) /\ r.phase # "create" /\ scan' = [scan EXCEPT ![s] = r]
  <2>1. CASE FindLive(s)
    <3>1. PICK todo : scan' = [scan EXCEPT ![s] = IF todo = <<>> THEN NoScan
                         ELSE [phase |-> "close", todo |-> todo, status |-> "closed"]]
      BY <2>1 DEF FindLive
    <3> DEFINE closing == [phase |-> "close", todo |-> todo, status |-> "closed"]
    <3>2. IsScan(closing) /\ closing.phase # "create"
      BY DEF IsScan
    <3>3. scan' = [scan EXCEPT ![s] = IF todo = <<>> THEN NoScan ELSE closing]
      BY <3>1
    <3> HIDE DEF closing
    <3> QED
      BY <1>2, <3>2, <3>3
  <2>2. CASE TellRoom(s)
    <3> DEFINE next == [phase |-> "close", todo |-> Tail(scan[s].todo), status |-> scan[s].status]
    <3>1. scan' = [scan EXCEPT ![s] = IF Len(scan[s].todo) > 1 THEN next ELSE NoScan]
      BY <2>2 DEF TellRoom
    <3>2. IsScan(next) /\ next.phase # "create"
      BY DEF IsScan
    <3> HIDE DEF next
    <3> QED
      BY <1>2, <3>1, <3>2
  <2>3. CASE ScanEnds(s)
    BY <1>2, <2>3 DEF ScanEnds
  <2> QED
    BY <2>1, <2>2, <2>3
<1>4. DOMAIN scan' = Scans /\ (\A o \in Scans : IsScan(scan'[o])) /\ Creating' \subseteq Creating
  BY <1>1, <1>3, ScanGoesOn
<1>5. FeedShape' /\ LiveAndFresh' = LiveAndFresh
  BY <1>1, <1>4 DEF FeedShape, LiveAndFresh
<1> QED
  BY <1>1, <1>4, <1>5, NoNewEvent

----
LEMMA FeedStep == OneInv /\ [FeedNext]_feedVars => OneInv'
<1> SUFFICES ASSUME OneInv, [FeedNext]_feedVars
             PROVE  OneInv'
  OBVIOUS
<1>1. CASE UNCHANGED <<events, scan, irregular>>
  BY <1>1 DEF OneInv, FeedShape, LiveAndFresh, AtMostOne, Creating
<1>2. CASE UNCHANGED feedVars
  BY <1>1, <1>2 DEF feedVars
<1>3. CASE \/ \E k \in Acks : TellAcknowledged(k)
           \/ GetList \/ JoinRoom \/ LeaveRoom \/ Update
           \/ \E i \in DOMAIN gets : ReadList(i) \/ TakeList(i) \/ GetFails(i)
  <2>1. UNCHANGED <<events, scan, irregular>>
    BY <1>3 DEF TellAcknowledged, GetList, JoinRoom, LeaveRoom, Update, ReadList, TakeList, GetFails
  <2> QED
    BY <1>1, <2>1
<1> QED
  BY <1>2, <1>3, FindRecentKeeps, CreateEventKeeps, AcknowledgeKeeps, CloseEventKeeps, AgeKeeps,
     ScanOnlyKeeps DEF FeedNext

\* AnomalyDetectionService.scoreOne: an anomaly that lasts has one event, unless two
\* scans of the equipment met or a closed event was acknowledged.
THEOREM OneEventAtATime == FeedSpec => []OneLiveEvent
<1>1. OneInv => OneLiveEvent
  BY AtMostOneIsOne DEF OneInv, FeedShape, OneLiveEvent, LiveAndFresh
<1> QED
  BY FeedInitInv, FeedStep, <1>1, PTL DEF FeedSpec

----
(* Pages. *)

\* The shape of the state, as far as steps depend on it: which fields there are, and
\* that changes are numbered.
IsSeq(s) == s \in Seq(Range(s))

IsView == view = [page |-> view.page, shown |-> view.shown, canEdit |-> view.canEdit,
                  inOrder |-> view.inOrder, failed |-> view.failed]

IsLoad(r) ==
    /\ r = [done |-> r.done, after |-> r.after, answers |-> r.answers]
    /\ DOMAIN r.answers \subseteq Tables
    /\ \A t \in DOMAIN r.answers : r.answers[t].at \in Nat \ {0}

IsPost(p) ==
    /\ p = [table |-> p.table, what |-> p.what, phase |-> p.phase, at |-> p.at]
    /\ p.table \in Tables /\ p.at \in Nat

StoreShape == DOMAIN store = Tables /\ \A t \in Tables : store[t].at \in Nat \ {0}

LoadsShape == IsSeq(loads) /\ loads # <<>> /\ \A i \in DOMAIN loads : IsLoad(loads[i])

\* What the page has changed is in the tables.
ChangesAreIn ==
    /\ \A p \in posts : IsPost(p) /\ p.at <= store[p.table].at
    /\ own \in [Tables -> Nat] /\ \A t \in Tables : own[t] <= store[t].at

\* The newest load knows of the page's own changes.
NewestKnows ==
    \A t \in DOMAIN loads[Len(loads)].answers : loads[Len(loads)].answers[t].at >= own[t]

ShownKnows ==
    view.inOrder => \A t \in Reads[view.page] : view.shown[t].at >= 1 /\ view.shown[t].at >= own[t]

PagesInv == IsView /\ StoreShape /\ LoadsShape /\ ChangesAreIn /\ NewestKnows /\ ShownKnows

----
\* Sequences of anything.
LEMMA AppendIsSeq ==
    ASSUME NEW s, NEW e, IsSeq(s)
    PROVE  /\ IsSeq(Append(s, e))
           /\ Len(Append(s, e)) = Len(s) + 1 /\ Len(s) \in Nat
           /\ DOMAIN Append(s, e) = 1..(Len(s) + 1)
           /\ Append(s, e)[Len(s) + 1] = e
           /\ \A i \in DOMAIN s : Append(s, e)[i] = s[i]
<1> DEFINE S == Range(s) \cup {e}
<1>1. s \in Seq(S)
  <2>1. s \in Seq(Range(s)) /\ Range(s) \subseteq S
    BY DEF IsSeq
  <2> HIDE DEF S
  <2> QED
    BY <2>1
<1>2. e \in S
  OBVIOUS
<1> HIDE DEF S
<1>3. /\ Append(s, e) \in Seq(S) /\ Len(Append(s, e)) = Len(s) + 1
      /\ Append(s, e)[Len(s) + 1] = e
      /\ \A i \in 1..Len(s) : Append(s, e)[i] = s[i]
  BY <1>1, <1>2, AppendProperties
<1>4. IsSeq(Append(s, e))
  BY <1>3, SeqOfRange DEF IsSeq
<1> QED
  BY <1>1, <1>3, <1>4, LenProperties

LEMMA ExceptIsSeq ==
    ASSUME NEW s, NEW e, NEW i \in DOMAIN s, IsSeq(s)
    PROVE  /\ IsSeq([s EXCEPT ![i] = e])
           /\ Len([s EXCEPT ![i] = e]) = Len(s)
           /\ [s EXCEPT ![i] = e] # <<>>
           /\ Len(s) \in DOMAIN s
<1> DEFINE S == Range(s) \cup {e}
<1>1. s \in Seq(S)
  <2>1. s \in Seq(Range(s)) /\ Range(s) \subseteq S
    BY DEF IsSeq
  <2> HIDE DEF S
  <2> QED
    BY <2>1
<1>2. e \in S
  OBVIOUS
<1> HIDE DEF S
<1>3. i \in 1..Len(s) /\ DOMAIN s = 1..Len(s) /\ Len(s) \in Nat
  BY <1>1, LenProperties
<1>4. [s EXCEPT ![i] = e] \in Seq(S) /\ Len([s EXCEPT ![i] = e]) = Len(s)
  BY <1>1, <1>2, <1>3, ExceptSeq
<1>5. IsSeq([s EXCEPT ![i] = e])
  BY <1>4, SeqOfRange DEF IsSeq
<1>6. [s EXCEPT ![i] = e] # <<>>
  BY <1>3, <1>4, EmptySeq
<1> QED
  BY <1>3, <1>4, <1>5, <1>6

LEMMA LoadsHaveLast ==
    ASSUME LoadsShape
    PROVE  Len(loads) \in DOMAIN loads /\ Len(loads) \in Nat /\ DOMAIN loads = 1..Len(loads)
<1>1. Len(loads) \in Nat /\ DOMAIN loads = 1..Len(loads) /\ (Len(loads) = 0 <=> loads = <<>>)
  BY LenProperties, EmptySeq DEF LoadsShape, IsSeq
<1> QED
  BY <1>1 DEF LoadsShape

\* A load that has begun or is over has no answers.
LEMMA NewLoads ==
    ASSUME NEW a
    PROVE  /\ IsLoad([Asked EXCEPT !.after = a]) /\ DOMAIN [Asked EXCEPT !.after = a].answers = {}
           /\ IsLoad(Asked) /\ DOMAIN Asked.answers = {}
           /\ IsLoad([Asked EXCEPT !.done = TRUE]) /\ DOMAIN [Asked EXCEPT !.done = TRUE].answers = {}
<1> DEFINE none == [t \in {} |-> NotYet]
<1>1. DOMAIN none = {}
  OBVIOUS
<1>2. Asked = [done |-> FALSE, after |-> "open", answers |-> none]
  BY DEF Asked
<1> HIDE DEF none
<1>3. /\ [Asked EXCEPT !.after = a] = [done |-> FALSE, after |-> a, answers |-> none]
      /\ [Asked EXCEPT !.done = TRUE] = [done |-> TRUE, after |-> "open", answers |-> none]
  <2>1. ASSUME NEW q, NEW x, q = [done |-> q.done, after |-> q.after, answers |-> q.answers]
        PROVE  [q EXCEPT !.after = x] = [done |-> q.done, after |-> x, answers |-> q.answers]
    BY <2>1
  <2>2. ASSUME NEW q, NEW x, q = [done |-> q.done, after |-> q.after, answers |-> q.answers]
        PROVE  [q EXCEPT !.done = x] = [done |-> x, after |-> q.after, answers |-> q.answers]
    BY <2>2
  <2>3. Asked.done = FALSE /\ Asked.after = "open" /\ Asked.answers = none
    BY <1>2
  <2>4. Asked = [done |-> Asked.done, after |-> Asked.after, answers |-> Asked.answers]
    BY <1>2, <2>3
  <2>5. [Asked EXCEPT !.done = TRUE] = [done |-> TRUE, after |-> Asked.after, answers |-> Asked.answers]
    BY <2>4, <2>2
  <2>6. [Asked EXCEPT !.after = a] = [done |-> Asked.done, after |-> a, answers |-> Asked.answers]
    BY <2>1, <2>4
  <2> QED
    BY <2>3, <2>5, <2>6
<1>4. ASSUME NEW d, NEW w
      PROVE  IsLoad([done |-> d, after |-> w, answers |-> none])
  BY <1>1 DEF IsLoad
<1> QED
  BY <1>1, <1>2, <1>3, <1>4

LEMMA PagesInitInv == PagesInit => PagesInv
<1> SUFFICES ASSUME PagesInit PROVE PagesInv
  OBVIOUS
<1>1. PICK p \in DOMAIN Reads, edit \in BOOLEAN : view = Opened(p, edit) /\ loads = <<Asked>>
  BY DEF PagesInit
<1>2. IsView /\ ~view.inOrder
  BY <1>1 DEF IsView, Opened
<1>3. StoreShape /\ ChangesAreIn
  BY DEF PagesInit, StoreShape, ChangesAreIn
<1>4. loads \in Seq({Asked}) /\ Len(loads) = 1 /\ loads[1] = Asked /\ DOMAIN loads = {1} /\ loads # <<>>
  BY <1>1
<1>5. LoadsShape
  BY <1>4, NewLoads, SeqOfRange DEF LoadsShape, IsSeq
<1>6. NewestKnows
  BY <1>4, NewLoads DEF NewestKnows
<1> QED
  BY <1>2, <1>3, <1>5, <1>6 DEF PagesInv, ShownKnows

----
\* Steps that change only posts and the error shown.
LEMMA PostsOnly ==
    ASSUME PagesInv, NEW x, view' = [view EXCEPT !.failed = x],
           UNCHANGED <<store, loads, own>>,
           \A p \in posts' : IsPost(p) /\ p.at <= store[p.table].at
    PROVE  PagesInv'
<1>1. /\ view' = [page |-> view.page, shown |-> view.shown, canEdit |-> view.canEdit,
                  inOrder |-> view.inOrder, failed |-> x]
  BY DEF PagesInv, IsView
<1>2. IsView'
  BY <1>1 DEF IsView
<1>3. ShownKnows'
  BY <1>1 DEF PagesInv, ShownKnows
<1> QED
  BY <1>2, <1>3 DEF PagesInv, StoreShape, LoadsShape, ChangesAreIn, NewestKnows

\* Steps that change a row.
LEMMA StoreGrows ==
    ASSUME PagesInv, NEW t \in Tables, NEW v, store' = [store EXCEPT ![t] = Stamp(t, v)]
    PROVE  /\ StoreShape'
           /\ store'[t].at = store[t].at + 1
           /\ \A x \in Tables : store[x].at <= store'[x].at
<1>1. /\ DOMAIN store = Tables
      /\ \A x \in Tables : store[x].at \in Nat \ {0}
  BY DEF PagesInv, StoreShape
<1>2. Stamp(t, v).at = store[t].at + 1
  BY DEF Stamp
<1>3. /\ DOMAIN store' = Tables /\ store'[t] = Stamp(t, v)
      /\ \A x \in Tables \ {t} : store'[x] = store[x]
  BY <1>1
<1> QED
  BY <1>1, <1>2, <1>3 DEF StoreShape

LEMMA RowsOnly ==
    ASSUME PagesInv, NEW t \in Tables, NEW v, store' = [store EXCEPT ![t] = Stamp(t, v)],
           UNCHANGED <<view, loads, own>>,
           \A p \in posts' : IsPost(p) /\ p.at <= store'[p.table].at
    PROVE  PagesInv'
<1>1. /\ StoreShape' /\ StoreShape
      /\ \A x \in Tables : store[x].at <= store'[x].at
  BY StoreGrows DEF PagesInv
<1>2. ChangesAreIn'
  <2>1. own \in [Tables -> Nat] /\ \A x \in Tables : own[x] <= store[x].at
    BY DEF PagesInv, ChangesAreIn
  <2>2. \A x \in Tables : own[x] <= store'[x].at
    BY <1>1, <2>1 DEF StoreShape
  <2> QED
    BY <2>1, <2>2 DEF ChangesAreIn
<1> QED
  BY <1>1, <1>2 DEF PagesInv, IsView, LoadsShape, NewestKnows, ShownKnows

\* Steps that change one load, and perhaps what is shown.
LEMMA OneLoad ==
    ASSUME PagesInv, NEW i \in DOMAIN loads, NEW r, IsLoad(r),
           loads' = [loads EXCEPT ![i] = r], UNCHANGED <<store, posts, own>>,
           i = Len(loads) => \A t \in DOMAIN r.answers : r.answers[t].at >= own[t],
           IsView', ShownKnows'
    PROVE  PagesInv'
<1>1. IsSeq(loads) /\ \A j \in DOMAIN loads : IsLoad(loads[j])
  BY DEF PagesInv, LoadsShape
<1>2. IsSeq(loads') /\ Len(loads') = Len(loads) /\ loads' # <<>> /\ Len(loads) \in DOMAIN loads
  BY <1>1, ExceptIsSeq
<1>3. DOMAIN loads' = DOMAIN loads /\ loads'[i] = r /\ \A j \in DOMAIN loads \ {i} : loads'[j] = loads[j]
  OBVIOUS
<1>4. LoadsShape'
  BY <1>1, <1>2, <1>3 DEF LoadsShape
<1>5. NewestKnows'
  <2>1. CASE i = Len(loads)
    BY <1>2, <1>3, <2>1 DEF NewestKnows
  <2>2. CASE i # Len(loads)
    BY <1>2, <1>3, <2>2 DEF NewestKnows, PagesInv
  <2> QED
    BY <2>1, <2>2
<1> QED
  BY <1>4, <1>5 DEF PagesInv, StoreShape, ChangesAreIn

----
\* Every button is about a table.
LEMMA ButtonsHaveTables == \A b \in Buttons : b.table \in Tables
<1> SUFFICES ASSUME NEW b \in Buttons PROVE b.table \in Tables
  OBVIOUS
<1>1. \A x \in OrdersButtons : x.table \in Tables
  BY DEF OrdersButtons, Tables
<1>2. \A x \in DetailButtons : x.table \in Tables
  BY DEF DetailButtons, Tables
<1>3. \A x \in PlansButtons : x.table \in Tables
  BY DEF PlansButtons, Tables
<1>4. \A x \in AssetsButtons : x.table \in Tables
  BY DEF AssetsButtons, Tables
<1> QED
  BY <1>1, <1>2, <1>3, <1>4 DEF Buttons

LEMMA PressKeeps ==
    ASSUME PagesInv, NEW b \in Buttons, Press(b)
    PROVE  PagesInv'
<1> DEFINE p == [table |-> b.table, what |-> b.what, phase |-> "sent", at |-> 0]
<1>1. /\ posts' = posts \cup {p} /\ view' = [view EXCEPT !.failed = FALSE]
      /\ UNCHANGED <<store, loads, own>>
  BY DEF Press
<1>2. IsPost(p) /\ p.at = 0 /\ p.table \in Tables
  BY ButtonsHaveTables DEF IsPost
<1> HIDE DEF p
<1>3. store[p.table].at \in Nat
  BY <1>2 DEF PagesInv, StoreShape
<1>4. \A q \in posts' : IsPost(q) /\ q.at <= store[q.table].at
  BY <1>1, <1>2, <1>3 DEF PagesInv, ChangesAreIn
<1> QED
  BY <1>1, <1>4, PostsOnly

LEMMA RefuseKeeps ==
    ASSUME PagesInv, NEW p \in posts, Refuse(p)
    PROVE  PagesInv'
<1>1. \A q \in posts' : IsPost(q) /\ q.at <= store[q.table].at
  BY DEF Refuse, PagesInv, ChangesAreIn
<1> QED
  BY <1>1, PostsOnly DEF Refuse

\* A change that goes on, to another phase, with a number that is in the table.
LEMMA GoesOn ==
    ASSUME PagesInv, NEW t \in Tables, NEW v, store' = [store EXCEPT ![t] = Stamp(t, v)],
           NEW p \in posts, NEW phase, NEW at \in Nat, To(p, phase, at),
           at <= store'[p.table].at
    PROVE  \A q \in posts' : IsPost(q) /\ q.at <= store'[q.table].at
<1> DEFINE n == [p EXCEPT !.phase = phase, !.at = at]
<1>1. posts' = (posts \ {p}) \cup {n}
  BY DEF To
<1>2. IsPost(p) /\ \A q \in posts : IsPost(q) /\ q.at <= store[q.table].at
  BY DEF PagesInv, ChangesAreIn
<1>3. n = [table |-> p.table, what |-> p.what, phase |-> phase, at |-> at]
  <2> DEFINE m == [p EXCEPT !.phase = phase]
  <2>1. m = [table |-> p.table, what |-> p.what, phase |-> phase, at |-> p.at]
    BY <1>2 DEF IsPost
  <2>2. n = [m EXCEPT !.at = at]
    OBVIOUS
  <2> HIDE DEF m, n
  <2>3. /\ m = [table |-> m.table, what |-> m.what, phase |-> m.phase, at |-> m.at]
        /\ m.table = p.table /\ m.what = p.what /\ m.phase = phase
    BY <2>1
  <2> QED
    BY <2>2, <2>3
<1> HIDE DEF n
<1>4. IsPost(n) /\ n.at <= store'[n.table].at
  BY <1>2, <1>3 DEF IsPost
<1>5. /\ \A x \in Tables : store[x].at <= store'[x].at
      /\ \A x \in Tables : store[x].at \in Nat /\ store'[x].at \in Nat
  BY StoreGrows DEF PagesInv, StoreShape
<1>6. ASSUME NEW q \in posts
      PROVE  IsPost(q) /\ q.at <= store'[q.table].at
  <2>1. IsPost(q) /\ q.at <= store[q.table].at /\ q.table \in Tables /\ q.at \in Nat
    BY <1>2 DEF IsPost
  <2> QED
    BY <1>5, <2>1
<1> QED
  BY <1>1, <1>4, <1>6

LEMMA PerformKeeps ==
    ASSUME PagesInv, NEW p \in posts, Perform(p)
    PROVE  PagesInv'
<1>1. PICK v : /\ store' = [store EXCEPT ![p.table] = Stamp(p.table, v)]
               /\ To(p, "performed", store[p.table].at + 1)
  BY DEF Perform
<1>2. p.table \in Tables /\ store[p.table].at \in Nat /\ UNCHANGED <<view, loads, own>>
  BY DEF PagesInv, ChangesAreIn, IsPost, StoreShape, Perform
<1>3. /\ store[p.table].at + 1 \in Nat
      /\ store[p.table].at + 1 <= store'[p.table].at
  <2>1. store'[p.table].at = store[p.table].at + 1
    BY <1>1, <1>2, StoreGrows
  <2> QED
    BY <1>2, <2>1
<1>4. \A q \in posts' : IsPost(q) /\ q.at <= store'[q.table].at
  BY <1>1, <1>2, <1>3, GoesOn
<1> QED
  BY <1>1, <1>2, <1>4, RowsOnly

LEMMA RecordKeeps ==
    ASSUME PagesInv, NEW p \in posts, RecordPost(p)
    PROVE  PagesInv'
<1>1. /\ store' = [store EXCEPT !["trail"] = Stamp("trail", NoRow)] /\ "trail" \in Tables
      /\ To(p, "recorded", p.at) /\ UNCHANGED <<view, loads, own>>
  BY DEF RecordPost, Tables
<1>2. /\ p.table \in Tables /\ p.at \in Nat /\ p.at <= store[p.table].at
      /\ store[p.table].at \in Nat
  BY DEF PagesInv, ChangesAreIn, IsPost, StoreShape
<1>3. StoreShape' /\ store[p.table].at <= store'[p.table].at
  BY <1>1, <1>2, StoreGrows
<1>4. p.at <= store'[p.table].at
  BY <1>2, <1>3 DEF StoreShape
<1>5. \A q \in posts' : IsPost(q) /\ q.at <= store'[q.table].at
  BY <1>1, <1>2, <1>4, GoesOn
<1> QED
  BY <1>1, <1>5, RowsOnly

LEMMA OtherChangeKeeps ==
    ASSUME PagesInv, NEW t \in Tables, OtherChange(t)
    PROVE  PagesInv'
<1>1. PICK v : store' = [store EXCEPT ![t] = Stamp(t, v)]
  BY DEF OtherChange
<1>2. UNCHANGED <<view, loads, posts, own>>
  BY DEF OtherChange
<1>3. /\ \A x \in Tables : store[x].at <= store'[x].at
      /\ \A x \in Tables : store[x].at \in Nat /\ store'[x].at \in Nat
  BY <1>1, StoreGrows DEF PagesInv, StoreShape
<1>4. ASSUME NEW q \in posts'
      PROVE  IsPost(q) /\ q.at <= store'[q.table].at
  <2>1. IsPost(q) /\ q.at <= store[q.table].at /\ q.table \in Tables /\ q.at \in Nat
    BY <1>2 DEF IsPost, PagesInv, ChangesAreIn
  <2> QED
    BY <1>3, <2>1
<1> QED
  BY <1>1, <1>2, <1>4, RowsOnly

\* The load that a change starts has no answers yet: it cannot lack the change.
LEMMA AnswerKeeps ==
    ASSUME PagesInv, NEW p \in posts, Answer(p)
    PROVE  PagesInv'
<1> DEFINE r == [Asked EXCEPT !.after = p.what]
<1>1. /\ posts' = posts \ {p} /\ loads' = Append(loads, r)
      /\ view' = [view EXCEPT !.inOrder = FALSE]
      /\ own' = [own EXCEPT ![p.table] = IF p.at > own[p.table] THEN p.at ELSE own[p.table]]
      /\ UNCHANGED store
  BY DEF Answer
<1>2. IsLoad(r) /\ DOMAIN r.answers = {}
  BY NewLoads
<1> HIDE DEF r
<1>3. IsView' /\ ~view'.inOrder
  <2>1. view' = [page |-> view.page, shown |-> view.shown, canEdit |-> view.canEdit,
                 inOrder |-> FALSE, failed |-> view.failed]
    BY <1>1 DEF PagesInv, IsView
  <2> QED
    BY <2>1 DEF IsView
<1>4. /\ IsSeq(loads') /\ Len(loads') = Len(loads) + 1 /\ Len(loads) \in Nat
      /\ DOMAIN loads' = 1..(Len(loads) + 1) /\ loads'[Len(loads) + 1] = r
      /\ \A i \in DOMAIN loads : loads'[i] = loads[i]
  BY <1>1, AppendIsSeq DEF PagesInv, LoadsShape
<1>5. LoadsShape'
  <2>1. DOMAIN loads = 1..Len(loads) /\ \A i \in DOMAIN loads : IsLoad(loads[i])
    BY LoadsHaveLast DEF PagesInv, LoadsShape
  <2>2. loads' # <<>>
    BY <1>4
  <2>3. \A i \in DOMAIN loads' : IsLoad(loads'[i])
    BY <1>2, <1>4, <2>1
  <2> QED
    BY <1>4, <2>2, <2>3 DEF LoadsShape
<1>6. NewestKnows'
  BY <1>2, <1>4 DEF NewestKnows
<1>7. ChangesAreIn'
  <2>1. /\ IsPost(p) /\ p.at <= store[p.table].at
        /\ own \in [Tables -> Nat] /\ \A t \in Tables : own[t] <= store[t].at
    BY DEF PagesInv, ChangesAreIn
  <2>2. p.table \in Tables /\ p.at \in Nat
    BY <2>1 DEF IsPost
  <2>3. own' \in [Tables -> Nat] /\ \A t \in Tables : own'[t] <= store[t].at
    BY <1>1, <2>1, <2>2
  <2> QED
    BY <1>1, <2>3 DEF ChangesAreIn, PagesInv
<1> QED
  BY <1>1, <1>3, <1>5, <1>6, <1>7 DEF PagesInv, StoreShape, ShownKnows

LEMMA ReadKeeps ==
    ASSUME PagesInv, NEW i \in DOMAIN loads, NEW t \in Tables, ReadTable(i, t)
    PROVE  PagesInv'
<1> DEFINE old == loads[i].answers
           answers == [x \in DOMAIN old \cup {t} |-> IF x = t THEN store[t] ELSE old[x]]
           r == [loads[i] EXCEPT !.answers = answers]
<1>1. loads' = [loads EXCEPT ![i] = r] /\ UNCHANGED <<store, view, posts, own>>
  BY DEF ReadTable
<1>2. IsLoad(loads[i])
  BY DEF PagesInv, LoadsShape
<1>3. /\ DOMAIN old \subseteq Tables /\ \A x \in DOMAIN old : old[x].at \in Nat \ {0}
  BY <1>2 DEF IsLoad
<1>4. /\ DOMAIN answers \subseteq Tables /\ \A x \in DOMAIN answers : answers[x].at \in Nat \ {0}
  BY <1>3 DEF PagesInv, StoreShape
<1>5. r = [done |-> loads[i].done, after |-> loads[i].after, answers |-> answers]
  BY <1>2 DEF IsLoad
<1>6. \A x \in DOMAIN answers : \/ x \in Tables /\ answers[x] = store[x]
                                \/ x \in DOMAIN old /\ answers[x] = old[x]
  <2>1. \A x \in DOMAIN answers : answers[x] = IF x = t THEN store[t] ELSE old[x]
    OBVIOUS
  <2>2. \A x \in DOMAIN answers : x = t \/ x \in DOMAIN old
    OBVIOUS
  <2> HIDE DEF answers, old
  <2> QED
    BY <2>1, <2>2
<1> HIDE DEF answers, r
<1>7. IsLoad(r)
  BY <1>4, <1>5 DEF IsLoad
<1>8. ASSUME i = Len(loads), NEW x \in DOMAIN r.answers
      PROVE  r.answers[x].at >= own[x]
  <2>1. \A y \in Tables : own[y] \in Nat /\ store[y].at \in Nat /\ own[y] <= store[y].at
    BY DEF PagesInv, ChangesAreIn, StoreShape
  <2>2. \A y \in DOMAIN old : old[y].at >= own[y]
    BY <1>8 DEF PagesInv, NewestKnows
  <2>3. r.answers = answers
    BY <1>5
  <2> QED
    BY <1>6, <1>8, <2>1, <2>2, <2>3
<1>9. IsView' /\ ShownKnows'
  BY <1>1 DEF PagesInv, IsView, ShownKnows
<1> QED
  BY <1>1, <1>7, <1>8, <1>9, OneLoad

LEMMA ShowKeeps ==
    ASSUME PagesInv, NEW i \in DOMAIN loads, Show(i)
    PROVE  PagesInv'
<1> DEFINE r == [Asked EXCEPT !.done = TRUE]
<1>1. /\ loads' = [loads EXCEPT ![i] = r] /\ UNCHANGED <<store, posts, own>>
      /\ view' = [view EXCEPT !.shown = loads[i].answers, !.inOrder = i = Len(loads)]
      /\ DOMAIN loads[i].answers = Reads[view.page]
  BY DEF Show
<1>2. IsLoad(r) /\ DOMAIN r.answers = {}
  BY NewLoads
<1> HIDE DEF r
<1>3. view' = [page |-> view.page, shown |-> loads[i].answers, canEdit |-> view.canEdit,
               inOrder |-> (i = Len(loads)), failed |-> view.failed]
  BY <1>1 DEF PagesInv, IsView
<1>4. IsView'
  BY <1>3 DEF IsView
<1>5. \A t \in DOMAIN loads[i].answers : loads[i].answers[t].at \in Nat \ {0}
  BY DEF PagesInv, LoadsShape, IsLoad
<1>6. ASSUME i = Len(loads), NEW t \in Reads[view.page]
      PROVE  loads[i].answers[t].at >= 1 /\ loads[i].answers[t].at >= own[t]
  BY <1>1, <1>5, <1>6 DEF PagesInv, NewestKnows
<1>7. ShownKnows'
  BY <1>1, <1>3, <1>6 DEF ShownKnows
<1> QED
  BY <1>1, <1>2, <1>4, <1>7, OneLoad

LEMMA LoadFailsKeeps ==
    ASSUME PagesInv, NEW i \in DOMAIN loads, LoadFails(i)
    PROVE  PagesInv'
<1> DEFINE r == [Asked EXCEPT !.done = TRUE]
<1>1. /\ loads' = [loads EXCEPT ![i] = r] /\ UNCHANGED <<store, posts, own>>
      /\ view' = [view EXCEPT !.failed = TRUE]
  BY DEF LoadFails
<1>2. IsLoad(r) /\ DOMAIN r.answers = {}
  BY NewLoads
<1> HIDE DEF r
<1>3. view' = [page |-> view.page, shown |-> view.shown, canEdit |-> view.canEdit,
               inOrder |-> view.inOrder, failed |-> TRUE]
  BY <1>1 DEF PagesInv, IsView
<1>4. IsView'
  BY <1>3 DEF IsView
<1>5. ShownKnows'
  BY <1>1, <1>3 DEF PagesInv, ShownKnows
<1> QED
  BY <1>1, <1>2, <1>4, <1>5, OneLoad

----
LEMMA PagesStep == PagesInv /\ [PagesNext]_pagesVars => PagesInv'
<1> SUFFICES ASSUME PagesInv, [PagesNext]_pagesVars
             PROVE  PagesInv'
  OBVIOUS
<1>1. CASE UNCHANGED pagesVars
  BY <1>1 DEF pagesVars, PagesInv, IsView, StoreShape, LoadsShape, ChangesAreIn, NewestKnows, ShownKnows
<1> QED
  BY <1>1, PressKeeps, PerformKeeps, RecordKeeps, AnswerKeeps, RefuseKeeps, ShowKeeps, LoadFailsKeeps,
     ReadKeeps, OtherChangeKeeps DEF PagesNext

\* The pages' load() after a POST: when nothing is under way, the last load to be shown
\* was the last one begun and nothing failed, each table is shown at least as new as the
\* user's own last change to it.
THEOREM OwnChangesAreShown == PagesSpec => []OwnChangeShown
<1>1. PagesInv => OwnChangeShown
  BY DEF PagesInv, ShownKnows, OwnChangeShown
<1> QED
  BY PagesInitInv, PagesStep, <1>1, PTL DEF PagesSpec

----
(* Feed: the list. *)

Statuses == Live \cup {"closed", Unknown}

RoomMessages == [event : DOMAIN events, status : Statuses]

\* A scan has events to do in the phases that take the first one; more than one, and
\* one to be closed, only if it closes.
ScanOK(r) ==
    /\ IsScan(r) /\ r.todo \in Seq(DOMAIN events) /\ r.status \in Statuses
    /\ r.phase \in {"close", "tell", "retell"} => r.todo # <<>>
    /\ r.phase = "close" => r.status = "closed"
    /\ r.phase \in {"tell", "retell"} /\ Len(r.todo) > 1 => r.status = "closed"

AckOK(r) ==
    /\ r = [phase |-> r.phase, event |-> r.event]
    /\ r.phase = "sending" => r.event \in DOMAIN events

IsGet(r) == r = [phase |-> r.phase, shown |-> r.shown, gap |-> r.gap] /\ r.gap \in BOOLEAN

ListShape ==
    /\ events \in Seq(EventRecords)
    /\ DOMAIN scan = Scans /\ \A s \in Scans : ScanOK(scan[s])
    /\ DOMAIN ack = Acks /\ \A k \in Acks : AckOK(ack[k])
    /\ told \in Seq(RoomMessages)
    /\ IsSeq(gets) /\ gets # <<>> /\ \A i \in DOMAIN gets : IsGet(gets[i])
    /\ list = [shown |-> list.shown, inOrder |-> list.inOrder, gap |-> list.gap]
    /\ list.inOrder \in BOOLEAN /\ list.gap \in BOOLEAN

\* What is going to be told is so.
ScanTellsTruth(r) ==
    r.phase \in {"tell", "retell"} =>
        Head(r.todo) \in doubt \/ r.status = events[Head(r.todo)].status

AckTellsTruth(r) == r.phase = "sending" => r.event \in doubt \/ events[r.event].status = "acknowledged"

TruthIsTold ==
    /\ \A s \in Scans : ScanTellsTruth(scan[s])
    /\ \A k \in Acks : AckTellsTruth(ack[k])

\* A change of the event has yet to be told.
Telling(e) ==
    \/ \E s \in Scans : scan[s].phase = "tell" /\ Head(scan[s].todo) = e
    \/ \E k \in Acks : ack[k].phase = "sending" /\ ack[k].event = e

\* No message under way is about the event, or the last that is says what is so.
Silent(e) == \A n \in DOMAIN told : told[n].event # e

LastSays(e) ==
    \E n \in DOMAIN told :
        /\ told[n].event = e /\ told[n].status = events[e].status
        /\ \A j \in DOMAIN told : j > n => told[j].event # e

Heard(e) == Telling(e) \/ LastSays(e)

\* The event is shown as it is, or will be once all that is under way has come.
Confirmed(e, shown) ==
    Heard(e) \/ (Silent(e) /\ e \in DOMAIN shown /\ shown[e] = events[e].status)

LastGet == gets[Len(gets)]

EventAgrees(e) ==
    /\ Heard(e) \/ Silent(e)
    /\ list.inOrder /\ ~list.gap => Confirmed(e, list.shown)
    /\ LastGet.phase = "read" /\ ~LastGet.gap => Confirmed(e, LastGet.shown)

EventsAgree == \A e \in DOMAIN events \ doubt : EventAgrees(e)

AnswersInOrder == list.inOrder => LastGet.phase = "done"

ListInv == ListShape /\ TruthIsTold /\ AnswersInOrder /\ EventsAgree

----
LEMMA EventsAreNumbered ==
    ASSUME ListShape
    PROVE  /\ DOMAIN events = 1..Len(events) /\ Len(events) \in Nat
           /\ \A e \in DOMAIN events : events[e] \in EventRecords /\ events[e].status \in Statuses
<1>1. DOMAIN events = 1..Len(events) /\ Len(events) \in Nat
  BY LenProperties DEF ListShape
<1>2. \A e \in DOMAIN events : events[e] \in EventRecords
  BY <1>1, ElementOfSeq DEF ListShape
<1> QED
  BY <1>1, <1>2 DEF EventRecords, Statuses

LEMMA GetsHaveLast ==
    ASSUME ListShape
    PROVE  Len(gets) \in DOMAIN gets /\ Len(gets) \in Nat /\ DOMAIN gets = 1..Len(gets)
<1>1. Len(gets) \in Nat /\ DOMAIN gets = 1..Len(gets) /\ (Len(gets) = 0 <=> gets = <<>>)
  BY LenProperties, EmptySeq DEF ListShape, IsSeq
<1> QED
  BY <1>1 DEF ListShape

\* No message and no answer comes or goes: it is enough that an event keeps its status
\* and that nobody forgets to tell of it, or that somebody is going to tell of it.
LEMMA EventsKeepAgreeing ==
    ASSUME AnswersInOrder, EventsAgree, UNCHANGED <<told, list, gets>>, doubt \subseteq doubt',
           \A e \in DOMAIN events' \ doubt' :
               \/ Telling(e)'
               \/ /\ e \in DOMAIN events /\ events'[e].status = events[e].status
                  /\ Telling(e) => Telling(e)'
    PROVE  AnswersInOrder' /\ EventsAgree'
<1>1. AnswersInOrder'
  BY DEF AnswersInOrder, LastGet
<1>2. ASSUME NEW e \in DOMAIN events' \ doubt'
      PROVE  EventAgrees(e)'
  <2>1. CASE Telling(e)'
    BY <2>1 DEF EventAgrees, Confirmed, Heard
  <2>2. CASE e \in DOMAIN events /\ events'[e].status = events[e].status /\ (Telling(e) => Telling(e)')
    <3>1. EventAgrees(e)
      BY <1>2, <2>2 DEF EventsAgree
    <3>2. LastSays(e)' <=> LastSays(e)
      BY <2>2 DEF LastSays
    <3>3. Silent(e)' <=> Silent(e)
      BY DEF Silent
    <3> QED
      BY <2>2, <3>1, <3>2, <3>3 DEF EventAgrees, Confirmed, Heard, LastGet
  <2> QED
    BY <1>2, <2>1, <2>2
<1> QED
  BY <1>1, <1>2 DEF EventsAgree

\* A scan goes on without a change of an event and without one to tell.
LEMMA ScanGoesOnAgreeing ==
    ASSUME ListInv, NEW s \in Scans, NEW r, ScanOK(r), ScanTellsTruth(r), r.phase # "tell",
           scan' = [scan EXCEPT ![s] = r], UNCHANGED <<events, ack, told, list, gets>>,
           doubt \subseteq doubt', scan[s].phase = "tell" => Head(scan[s].todo) \in doubt'
    PROVE  ListInv'
<1>1. \A o \in Scans : scan'[o] = IF o = s THEN r ELSE scan[o]
  BY DEF ListInv, ListShape
<1>2. ListShape'
  <2>1. DOMAIN scan' = Scans /\ \A o \in Scans : ScanOK(scan[o])
    BY DEF ListInv, ListShape
  <2>2. \A o \in Scans : ScanOK(scan[o])'
    BY <1>1, <2>1 DEF ScanOK
  <2> QED
    BY <2>1, <2>2 DEF ListInv, ListShape, AckOK, RoomMessages
<1>3. TruthIsTold'
  <2>1. \A o \in Scans : ScanTellsTruth(scan[o])'
    BY <1>1 DEF ListInv, TruthIsTold, ScanTellsTruth
  <2> QED
    BY <2>1 DEF ListInv, TruthIsTold, AckTellsTruth
<1>4. \A e \in DOMAIN events' \ doubt' : Telling(e) => Telling(e)'
  BY <1>1 DEF Telling
<1> QED
  BY <1>2, <1>3, <1>4, EventsKeepAgreeing DEF ListInv

LEMMA FindRecentAgrees ==
    ASSUME ListInv, NEW s \in Scans, FindRecent(s)
    PROVE  ListInv'
<1>1. UNCHANGED <<events, ack, told, list, gets, doubt>> /\ scan[s].phase = "idle"
  BY DEF FindRecent, pageVars
<1>2. CASE scan' = [scan EXCEPT ![s] = [NoScan EXCEPT !.phase = "create"]]
  <2> DEFINE r == [NoScan EXCEPT !.phase = "create"]
  <2>1. ScanOK(r) /\ ScanTellsTruth(r) /\ r.phase # "tell" /\ scan' = [scan EXCEPT ![s] = r]
    BY <1>2 DEF NoScan, ScanOK, ScanTellsTruth, IsScan, Statuses
  <2> HIDE DEF r
  <2> QED
    BY <1>1, <2>1, ScanGoesOnAgreeing
<1>3. ASSUME NEW e \in Recent,
             scan' = [scan EXCEPT ![s] =
                        [phase |-> "retell", todo |-> <<e>>, status |-> events[e].status]]
      PROVE  ListInv'
  <2> DEFINE r == [phase |-> "retell", todo |-> <<e>>, status |-> events[e].status]
  <2>1. e \in DOMAIN events /\ events[e].status \in Statuses
    BY EventsAreNumbered DEF ListInv, Recent
  <2>2. <<e>> \in Seq(DOMAIN events) /\ Len(<<e>>) = 1 /\ Head(<<e>>) = e /\ <<e>> # <<>>
    BY <2>1
  <2>3. ScanOK(r) /\ ScanTellsTruth(r) /\ r.phase # "tell"
    BY <2>1, <2>2 DEF ScanOK, ScanTellsTruth, IsScan
  <2>4. scan' = [scan EXCEPT ![s] = r]
    BY <1>3
  <2> HIDE DEF r
  <2> QED
    BY <1>1, <2>3, <2>4, ScanGoesOnAgreeing
<1> QED
  BY <1>2, <1>3 DEF FindRecent

LEMMA FindLiveAgrees ==
    ASSUME ListInv, NEW s \in Scans, FindLive(s)
    PROVE  ListInv'
<1> DEFINE live == {e \in DOMAIN events : events[e].status \in Live}
<1>1. UNCHANGED <<events, ack, told, list, gets, doubt>> /\ scan[s].phase = "idle"
  BY DEF FindLive, pageVars
<1>2. PICK todo \in SetToSeqs(live) :
         scan' = [scan EXCEPT ![s] = IF todo = <<>> THEN NoScan
                                     ELSE [phase |-> "close", todo |-> todo, status |-> "closed"]]
  BY DEF FindLive
<1>3. todo \in Seq(DOMAIN events)
  <2>1. live \subseteq 1..Len(events) /\ Len(events) \in Nat
    BY EventsAreNumbered DEF ListInv
  <2>2. IsFiniteSet(live)
    BY <2>1, FS_Interval, FS_Subset
  <2>3. Cardinality(live) \in Nat
    BY <2>2, FS_CardinalityType
  <2>4. todo \in [1..Cardinality(live) -> live]
    BY <1>2 DEF SetToSeqs
  <2>5. todo \in Seq(live)
    BY <2>3, <2>4, SeqDef
  <2>6. live \subseteq DOMAIN events
    OBVIOUS
  <2> HIDE DEF live
  <2> QED
    BY <2>5, <2>6
<1> DEFINE closing == [phase |-> "close", todo |-> todo, status |-> "closed"]
<1>4. ScanOK(NoScan) /\ ScanTellsTruth(NoScan) /\ NoScan.phase # "tell"
  BY DEF NoScan, ScanOK, ScanTellsTruth, IsScan, Statuses
<1>5. todo # <<>> => ScanOK(closing) /\ ScanTellsTruth(closing) /\ closing.phase # "tell"
  BY <1>3 DEF ScanOK, ScanTellsTruth, IsScan, Statuses
<1>6. scan' = [scan EXCEPT ![s] = IF todo = <<>> THEN NoScan ELSE closing]
  BY <1>2
<1> HIDE DEF closing, live
<1> QED
  BY <1>1, <1>4, <1>5, <1>6, ScanGoesOnAgreeing

\* What the scan had to tell is in doubt from now on.
LEMMA ScanEndsAgrees ==
    ASSUME ListInv, NEW s \in Scans, ScanEnds(s)
    PROVE  ListInv'
<1>1. ScanOK(NoScan) /\ ScanTellsTruth(NoScan) /\ NoScan.phase # "tell"
  BY DEF NoScan, ScanOK, ScanTellsTruth, IsScan, Statuses
<1>2. /\ UNCHANGED <<events, ack, told, list, gets>> /\ scan' = [scan EXCEPT ![s] = NoScan]
      /\ doubt' = doubt \cup (IF scan[s].phase = "tell" THEN {Head(scan[s].todo)} ELSE {})
  BY DEF ScanEnds, pageVars
<1> QED
  BY <1>1, <1>2, ScanGoesOnAgreeing

LEMMA CreateEventAgrees ==
    ASSUME ListInv, NEW s \in Scans, CreateEvent(s)
    PROVE  ListInv'
<1> PICK n : n = Len(events) + 1
  OBVIOUS
<1> DEFINE first == [status |-> "open", fresh |-> TRUE]
           r == [phase |-> "tell", todo |-> <<n>>, status |-> "open"]
<1>1. /\ events' = Append(events, first) /\ scan[s].phase = "create"
      /\ scan' = [scan EXCEPT ![s] = r] /\ UNCHANGED <<ack, told, list, gets, doubt>>
  BY DEF CreateEvent, pageVars
<1>2. /\ events' \in Seq(EventRecords) /\ DOMAIN events' = DOMAIN events \cup {n}
      /\ events'[n].status = "open" /\ \A e \in DOMAIN events : events'[e] = events[e]
  <2>1. first \in EventRecords /\ first.status = "open"
    BY DEF EventRecords, Live
  <2>2. events \in Seq(EventRecords) /\ DOMAIN events = 1..Len(events) /\ Len(events) \in Nat
    BY EventsAreNumbered DEF ListInv, ListShape
  <2> HIDE DEF first
  <2>3. /\ events' \in Seq(EventRecords) /\ Len(events') = Len(events) + 1
        /\ events'[n] = first /\ \A e \in 1..Len(events) : events'[e] = events[e]
    BY <1>1, <2>1, <2>2, AppendProperties
  <2> QED
    BY <2>1, <2>2, <2>3, LenProperties
<1>3. ScanOK(r)' /\ Head(r.todo) = n /\ r.phase = "tell" /\ r.status = "open"
  <2>1. <<n>> \in Seq(DOMAIN events') /\ Len(<<n>>) = 1 /\ Head(<<n>>) = n /\ <<n>> # <<>>
    BY <1>2
  <2> QED
    BY <2>1 DEF ScanOK, IsScan, Statuses, Live
<1>4. \A o \in Scans : scan'[o] = IF o = s THEN r ELSE scan[o]
  BY <1>1 DEF ListInv, ListShape
<1> HIDE DEF r
<1>5. \A o \in Scans : ScanOK(scan[o])'
  <2>1. ASSUME NEW o \in Scans, o # s
        PROVE  ScanOK(scan[o])'
    <3>1. scan'[o] = scan[o] /\ ScanOK(scan[o])
      BY <1>4, <2>1 DEF ListInv, ListShape
    <3>2. scan[o].todo \in Seq(DOMAIN events')
      BY <1>2, <3>1 DEF ScanOK
    <3> QED
      BY <3>1, <3>2 DEF ScanOK
  <2> QED
    BY <1>3, <1>4, <2>1
<1>6. ListShape'
  <2>1. told' \in Seq(RoomMessages')
    <3>1. RoomMessages \subseteq RoomMessages'
      BY <1>2 DEF RoomMessages
    <3>2. told \in Seq(RoomMessages)
      BY DEF ListInv, ListShape
    <3> QED
      BY <1>1, <3>1, <3>2
  <2>2. \A k \in Acks : AckOK(ack[k])'
    BY <1>1, <1>2 DEF ListInv, ListShape, AckOK
  <2> QED
    BY <1>1, <1>2, <1>5, <2>1, <2>2 DEF ListInv, ListShape
<1>7. TruthIsTold'
  <2>1. ASSUME NEW o \in Scans, o # s
        PROVE  ScanTellsTruth(scan[o])'
    <3>1. scan'[o] = scan[o] /\ ScanOK(scan[o]) /\ ScanTellsTruth(scan[o])
      BY <1>4, <2>1 DEF ListInv, ListShape, TruthIsTold
    <3>2. scan[o].phase \in {"tell", "retell"} => Head(scan[o].todo) \in DOMAIN events
      BY <3>1, HeadTailProperties DEF ScanOK
    <3> QED
      BY <1>1, <1>2, <3>1, <3>2 DEF ScanTellsTruth
  <2>2. ScanTellsTruth(scan[s])'
    BY <1>2, <1>3, <1>4 DEF ScanTellsTruth
  <2>3. \A k \in Acks : AckTellsTruth(ack[k])'
    BY <1>1, <1>2 DEF ListInv, ListShape, AckOK, TruthIsTold, AckTellsTruth
  <2> QED
    BY <2>1, <2>2, <2>3 DEF TruthIsTold
<1>8. Telling(n)'
  BY <1>3, <1>4 DEF Telling
<1>9. \A e \in DOMAIN events : Telling(e) => Telling(e)'
  BY <1>1, <1>4 DEF Telling
<1> QED
  BY <1>1, <1>2, <1>6, <1>7, <1>8, <1>9, EventsKeepAgreeing DEF ListInv

\* One event changes its status, or keeps it; who is to tell of it tells the new one.
LEMMA StatusChanges ==
    ASSUME ListInv, NEW e \in DOMAIN events, NEW ev \in EventRecords,
           events' = [events EXCEPT ![e] = ev], UNCHANGED <<told, list, gets>>,
           doubt \subseteq doubt',
           DOMAIN scan' = Scans, \A s \in Scans : ScanOK(scan'[s]),
           DOMAIN ack' = Acks, \A k \in Acks : AckOK(ack'[k]),
           TruthIsTold',
           \A x \in DOMAIN events :
               /\ Telling(x) => Telling(x)'
               /\ x = e => Telling(x)' \/ ev.status = events[e].status
    PROVE  ListInv'
<1>1. /\ events' \in Seq(EventRecords) /\ DOMAIN events' = DOMAIN events
      /\ \A x \in DOMAIN events : events'[x] = IF x = e THEN ev ELSE events[x]
  <2>1. events \in Seq(EventRecords) /\ DOMAIN events = 1..Len(events)
    BY EventsAreNumbered DEF ListInv, ListShape
  <2>2. events' \in Seq(EventRecords)
    BY <2>1, ExceptSeq
  <2> QED
    BY <2>2
<1>2. ListShape'
  <2>1. (\A s \in Scans : ScanOK(scan[s])') /\ (\A k \in Acks : AckOK(ack[k])')
    BY <1>1 DEF ScanOK, AckOK
  <2>2. RoomMessages' = RoomMessages
    BY <1>1 DEF RoomMessages
  <2> QED
    BY <1>1, <2>1, <2>2 DEF ListInv, ListShape
<1>3. \A x \in DOMAIN events' \ doubt' :
        \/ Telling(x)'
        \/ /\ x \in DOMAIN events /\ events'[x].status = events[x].status
           /\ Telling(x) => Telling(x)'
  BY <1>1
<1> QED
  BY <1>2, <1>3, EventsKeepAgreeing DEF ListInv

LEMMA CloseEventAgrees ==
    ASSUME ListInv, NEW s \in Scans, CloseEvent(s)
    PROVE  ListInv'
<1> PICK e : e = Head(scan[s].todo)
  OBVIOUS
<1> PICK ev : ev = [events[e] EXCEPT !.status = "closed"]
  OBVIOUS
<1> PICK r : r = [scan[s] EXCEPT !.phase = "tell"]
  OBVIOUS
<1>1. /\ scan[s].phase = "close" /\ events' = [events EXCEPT ![e].status = "closed"]
      /\ scan' = [scan EXCEPT ![s].phase = "tell"]
      /\ doubt' = doubt \cup {x \in {e} : Others(s, e)}
      /\ UNCHANGED <<ack, told, list, gets>>
  BY DEF CloseEvent, pageVars
<1>2. /\ ScanOK(scan[s]) /\ e \in DOMAIN events /\ DOMAIN scan = Scans /\ DOMAIN ack = Acks
      /\ scan[s].status = "closed" /\ events[e] \in EventRecords
      /\ scan[s] = [phase |-> "close", todo |-> scan[s].todo, status |-> "closed"]
  <2>1. ScanOK(scan[s]) /\ DOMAIN scan = Scans /\ DOMAIN ack = Acks
    BY DEF ListInv, ListShape
  <2>2. e \in DOMAIN events
    BY <1>1, <2>1, HeadTailProperties DEF ScanOK
  <2>3. events[e] \in EventRecords
    BY <2>2, EventsAreNumbered DEF ListInv
  <2> QED
    BY <1>1, <2>1, <2>2, <2>3 DEF ScanOK, IsScan
<1>3. ev \in EventRecords /\ ev.status = "closed" /\ events' = [events EXCEPT ![e] = ev]
  BY <1>1, <1>2 DEF EventRecords
<1>4. /\ r = [phase |-> "tell", todo |-> scan[s].todo, status |-> "closed"]
      /\ scan' = [scan EXCEPT ![s] = r]
  <2>1. r = [phase |-> "tell", todo |-> scan[s].todo, status |-> "closed"]
    BY <1>2
  <2> QED
    BY <1>1, <2>1
<1>5. ScanOK(r)
  BY <1>1, <1>2, <1>4 DEF ScanOK, IsScan
<1>6. \A o \in Scans : scan'[o] = IF o = s THEN r ELSE scan[o]
  BY <1>2, <1>4
<1>7. DOMAIN scan' = Scans /\ \A o \in Scans : ScanOK(scan'[o])
  BY <1>2, <1>4, <1>5, <1>6 DEF ListInv, ListShape
<1>8. \A k \in Acks : AckOK(ack'[k])
  BY <1>1 DEF ListInv, ListShape
<1>9. ASSUME NEW o \in Scans \ {s}, scan[o].phase \in {"tell", "retell"}, Head(scan[o].todo) = e
      PROVE  e \in doubt'
  <2>1. e \in Range(scan[o].todo)
    <3>1. scan[o].todo \in Seq(DOMAIN events) /\ scan[o].todo # <<>>
      BY <1>9 DEF ListInv, ListShape, ScanOK
    <3>2. 1 \in DOMAIN scan[o].todo /\ scan[o].todo[1] = Head(scan[o].todo)
      BY <3>1, LenProperties, EmptySeq, HeadTailProperties
    <3> QED
      BY <1>9, <3>2 DEF Range
  <2>2. Busy(o) /\ e \in Held(o)
    BY <1>9, <2>1 DEF Busy, Held
  <2>3. Others(s, e)
    BY <2>2 DEF Others
  <2> QED
    BY <1>1, <2>3
<1>10. ASSUME NEW k \in Acks, ack[k].phase = "sending", ack[k].event = e
       PROVE  e \in doubt'
  <2>1. k \notin Scans
    BY FeedAssumption
  <2>2. e # NoEvent
    BY <1>2, EventsAreNumbered DEF NoEvent, ListInv
  <2>3. Busy(k) /\ e \in Held(k)
    BY <1>10, <2>1, <2>2 DEF Busy, Held
  <2>4. Others(s, e)
    BY <2>1, <2>3 DEF Others
  <2> QED
    BY <1>1, <2>4
<1>11. \A x \in DOMAIN events :
         /\ Telling(x) => Telling(x)'
         /\ x = e => Telling(x)' \/ ev.status = events[e].status
  <2>1. scan'[s].phase = "tell" /\ Head(scan'[s].todo) = e
    BY <1>4, <1>6
  <2>2. ASSUME NEW x \in DOMAIN events, x = e
        PROVE  Telling(x)'
    BY <2>1, <2>2 DEF Telling
  <2>3. \A x \in DOMAIN events : Telling(x) => Telling(x)'
    BY <1>1, <1>6 DEF Telling
  <2> QED
    BY <2>2, <2>3
<1>12. \A o \in Scans : ScanTellsTruth(scan[o])'
  <2>1. ScanTellsTruth(scan[s])'
    BY <1>1, <1>2, <1>4, <1>6 DEF ScanTellsTruth
  <2>2. ASSUME NEW o \in Scans \ {s}
        PROVE  ScanTellsTruth(scan[o])'
    <3>1. scan'[o] = scan[o] /\ ScanOK(scan[o]) /\ ScanTellsTruth(scan[o])
      BY <1>6 DEF ListInv, ListShape, TruthIsTold
    <3> SUFFICES ASSUME scan[o].phase \in {"tell", "retell"}, Head(scan[o].todo) # e
                 PROVE  scan[o].status = events'[Head(scan[o].todo)].status \/ Head(scan[o].todo) \in doubt'
      BY <1>9, <3>1 DEF ScanTellsTruth
    <3>2. Head(scan[o].todo) \in DOMAIN events
      BY <3>1, HeadTailProperties DEF ScanOK
    <3> QED
      BY <1>1, <3>1, <3>2 DEF ScanTellsTruth
  <2> QED
    BY <2>1, <2>2
<1>13. \A k \in Acks : AckTellsTruth(ack[k])'
  <2>1. ASSUME NEW k \in Acks, ack[k].phase = "sending"
        PROVE  ack[k].event \in doubt' \/ events'[ack[k].event].status = "acknowledged"
    <3>1. AckTellsTruth(ack[k]) /\ ack[k].event \in DOMAIN events
      BY <2>1 DEF ListInv, ListShape, AckOK, TruthIsTold
    <3> QED
      BY <1>1, <1>10, <2>1, <3>1 DEF AckTellsTruth
  <2> QED
    BY <1>1, <2>1 DEF AckTellsTruth
<1>14. /\ e \in DOMAIN events /\ ev \in EventRecords /\ events' = [events EXCEPT ![e] = ev]
       /\ UNCHANGED <<told, list, gets>> /\ DOMAIN ack' = Acks /\ doubt \subseteq doubt'
  BY <1>1, <1>2, <1>3
<1> QED
  BY <1>7, <1>8, <1>11, <1>12, <1>13, <1>14, StatusChanges DEF TruthIsTold

LEMMA AgeAgrees ==
    ASSUME ListInv, NEW e \in DOMAIN events, Age(e)
    PROVE  ListInv'
<1> PICK ev : ev = [events[e] EXCEPT !.fresh = FALSE]
  OBVIOUS
<1>1. /\ events' = [events EXCEPT ![e].fresh = FALSE]
      /\ UNCHANGED <<scan, ack, told, list, gets, doubt>>
  BY DEF Age, pageVars
<1>2. events[e] \in EventRecords
  BY EventsAreNumbered DEF ListInv
<1>3. ev \in EventRecords /\ ev.status = events[e].status /\ events' = [events EXCEPT ![e] = ev]
  BY <1>1, <1>2 DEF EventRecords
<1>4. DOMAIN events' = DOMAIN events /\ \A x \in DOMAIN events : events'[x].status = events[x].status
  BY <1>3
<1>5. /\ DOMAIN scan' = Scans /\ \A s \in Scans : ScanOK(scan'[s])
      /\ DOMAIN ack' = Acks /\ \A k \in Acks : AckOK(ack'[k])
  BY <1>1 DEF ListInv, ListShape
<1>6. TruthIsTold'
  <2>1. \A s \in Scans : scan[s].phase \in {"tell", "retell"} => Head(scan[s].todo) \in DOMAIN events
    BY HeadTailProperties DEF ListInv, ListShape, ScanOK
  <2>2. \A k \in Acks : ack[k].phase = "sending" => ack[k].event \in DOMAIN events
    BY DEF ListInv, ListShape, AckOK
  <2> QED
    BY <1>1, <1>4, <2>1, <2>2 DEF ListInv, TruthIsTold, ScanTellsTruth, AckTellsTruth
<1>7. \A x \in DOMAIN events :
         /\ Telling(x) => Telling(x)'
         /\ x = e => Telling(x)' \/ ev.status = events[e].status
  BY <1>1, <1>3 DEF Telling
<1>8. UNCHANGED <<told, list, gets>> /\ doubt \subseteq doubt'
  BY <1>1
<1> QED
  BY <1>3, <1>5, <1>6, <1>7, <1>8, StatusChanges

LEMMA AcknowledgeAgrees ==
    ASSUME ListInv, NEW k \in Acks, Acknowledge(k)
    PROVE  ListInv'
<1>1. PICK e \in DOMAIN events :
         /\ events' = [events EXCEPT ![e].status = "acknowledged"]
         /\ ack' = [ack EXCEPT ![k] = [phase |-> "sending", event |-> e]]
         /\ doubt' = doubt \cup {x \in {e} : Others(k, e)}
  BY DEF Acknowledge
<1> PICK ev : ev = [events[e] EXCEPT !.status = "acknowledged"]
  OBVIOUS
<1>2. UNCHANGED <<scan, told, list, gets>> /\ e # NoEvent
  BY EventsAreNumbered DEF Acknowledge, pageVars, ListInv, NoEvent
<1>3. ev \in EventRecords /\ ev.status = "acknowledged" /\ events' = [events EXCEPT ![e] = ev]
  <2>1. events[e] \in EventRecords
    BY EventsAreNumbered DEF ListInv
  <2> QED
    BY <1>1, <2>1 DEF EventRecords, Live
<1>4. \A o \in Acks : ack'[o] = IF o = k THEN [phase |-> "sending", event |-> e] ELSE ack[o]
  BY <1>1 DEF ListInv, ListShape
<1>5. /\ DOMAIN scan' = Scans /\ \A s \in Scans : ScanOK(scan'[s])
      /\ DOMAIN ack' = Acks /\ \A o \in Acks : AckOK(ack'[o])
  <2>1. AckOK([phase |-> "sending", event |-> e])
    BY DEF AckOK
  <2> QED
    BY <1>1, <1>2, <1>4, <2>1 DEF ListInv, ListShape
<1>6. ASSUME NEW s \in Scans, scan[s].phase \in {"tell", "retell"}, Head(scan[s].todo) = e
      PROVE  e \in doubt'
  <2>1. e \in Range(scan[s].todo)
    <3>1. scan[s].todo \in Seq(DOMAIN events) /\ scan[s].todo # <<>>
      BY <1>6 DEF ListInv, ListShape, ScanOK
    <3>2. 1 \in DOMAIN scan[s].todo /\ scan[s].todo[1] = Head(scan[s].todo)
      BY <3>1, LenProperties, EmptySeq, HeadTailProperties
    <3> QED
      BY <1>6, <3>2 DEF Range
  <2>2. Busy(s) /\ e \in Held(s) /\ s # k
    BY <1>6, <2>1, FeedAssumption DEF Busy, Held
  <2>3. Others(k, e)
    BY <2>2 DEF Others
  <2> QED
    BY <1>1, <2>3
<1>7. \A s \in Scans : ScanTellsTruth(scan[s])'
  <2>1. ASSUME NEW s \in Scans, scan[s].phase \in {"tell", "retell"}, Head(scan[s].todo) # e
        PROVE  scan[s].status = events'[Head(scan[s].todo)].status \/ Head(scan[s].todo) \in doubt'
    <3>1. ScanOK(scan[s]) /\ ScanTellsTruth(scan[s])
      BY DEF ListInv, ListShape, TruthIsTold
    <3>2. Head(scan[s].todo) \in DOMAIN events
      BY <2>1, <3>1, HeadTailProperties DEF ScanOK
    <3> QED
      BY <1>1, <2>1, <3>1, <3>2 DEF ScanTellsTruth
  <2> QED
    BY <1>2, <1>6, <2>1 DEF ScanTellsTruth
<1>8. \A o \in Acks : AckTellsTruth(ack[o])'
  <2>1. AckTellsTruth(ack[k])'
    BY <1>3, <1>4 DEF AckTellsTruth
  <2>2. ASSUME NEW o \in Acks \ {k}, ack[o].phase = "sending"
        PROVE  ack[o].event \in doubt' \/ events'[ack[o].event].status = "acknowledged"
    <3>1. AckTellsTruth(ack[o]) /\ ack[o].event \in DOMAIN events
      BY <2>2 DEF ListInv, ListShape, AckOK, TruthIsTold
    <3> QED
      BY <1>1, <1>3, <2>2, <3>1 DEF AckTellsTruth
  <2> QED
    BY <1>4, <2>1, <2>2 DEF AckTellsTruth
<1>9. \A x \in DOMAIN events :
         /\ Telling(x) => Telling(x)'
         /\ x = e => Telling(x)' \/ ev.status = events[e].status
  <2>1. ack'[k].phase = "sending" /\ ack'[k].event = e
    BY <1>4
  <2>2. ASSUME NEW x \in DOMAIN events, x = e
        PROVE  Telling(x)'
    BY <2>1, <2>2 DEF Telling
  <2>3. ack[k].phase = "idle"
    BY DEF Acknowledge
  <2>4. \A x \in DOMAIN events : Telling(x) => Telling(x)'
    BY <1>2, <1>4, <2>3 DEF Telling
  <2> QED
    BY <2>2, <2>4
<1>10. UNCHANGED <<told, list, gets>> /\ doubt \subseteq doubt'
  BY <1>1, <1>2
<1> QED
  BY <1>3, <1>5, <1>7, <1>8, <1>9, <1>10, StatusChanges DEF TruthIsTold

----
\* The last message under way, if it is true, is what the event will be shown as.
LEMMA MessageIsSent ==
    ASSUME ListShape, AnswersInOrder, EventsAgree, NEW m \in RoomMessages, told' = Append(told, m),
           m.event \in doubt \/ m.status = events[m.event].status,
           UNCHANGED <<events, doubt, list, gets>>,
           \A e \in DOMAIN events : e # m.event /\ Telling(e) => Telling(e)'
    PROVE  told' \in Seq(RoomMessages) /\ AnswersInOrder' /\ EventsAgree'
<1>1. /\ told \in Seq(RoomMessages) /\ DOMAIN told = 1..Len(told) /\ Len(told) \in Nat
      /\ told' \in Seq(RoomMessages) /\ DOMAIN told' = 1..(Len(told) + 1)
      /\ told'[Len(told) + 1] = m /\ \A n \in DOMAIN told : told'[n] = told[n]
  BY AppendProperties, LenProperties DEF ListShape
<1>2. ASSUME NEW e \in DOMAIN events \ doubt
      PROVE  EventAgrees(e)'
  <2>1. CASE e = m.event
    <3>1. Len(told) + 1 \in DOMAIN told' /\ \A j \in DOMAIN told' : ~(j > Len(told) + 1)
      BY <1>1
    <3>2. told'[Len(told) + 1].event = e /\ told'[Len(told) + 1].status = events'[e].status
      BY <1>1, <1>2, <2>1
    <3>3. LastSays(e)'
      BY <3>1, <3>2 DEF LastSays
    <3> QED
      BY <3>3 DEF EventAgrees, Confirmed, Heard
  <2>2. CASE e # m.event
    <3>1. LastSays(e) => LastSays(e)'
      <4> SUFFICES ASSUME LastSays(e) PROVE LastSays(e)'
        OBVIOUS
      <4>1. PICK n \in DOMAIN told : /\ told[n].event = e /\ told[n].status = events[e].status
                                    /\ \A j \in DOMAIN told : j > n => told[j].event # e
        BY DEF LastSays
      <4>2. n \in DOMAIN told' /\ told'[n].event = e /\ told'[n].status = events'[e].status
        BY <1>1, <4>1
      <4>3. \A j \in DOMAIN told' : j > n => told'[j].event # e
        BY <1>1, <2>2, <4>1
      <4> QED
        BY <4>2, <4>3 DEF LastSays
    <3>2. Silent(e) => Silent(e)'
      BY <1>1, <2>2 DEF Silent
    <3>3. EventAgrees(e) /\ (Telling(e) => Telling(e)')
      BY <2>2 DEF EventsAgree
    <3> QED
      BY <3>1, <3>2, <3>3 DEF EventAgrees, Confirmed, Heard, LastGet
  <2> QED
    BY <2>1, <2>2
<1>3. EventsAgree'
  BY <1>2 DEF EventsAgree
<1> QED
  BY <1>1, <1>3 DEF AnswersInOrder, LastGet

LEMMA TellRoomAgrees ==
    ASSUME ListInv, NEW s \in Scans, TellRoom(s)
    PROVE  ListInv'
<1> PICK m : m = [event |-> Head(scan[s].todo), status |-> scan[s].status]
  OBVIOUS
<1> PICK r : r = IF Len(scan[s].todo) > 1
                 THEN [phase |-> "close", todo |-> Tail(scan[s].todo), status |-> scan[s].status]
                 ELSE NoScan
  OBVIOUS
<1>1. /\ scan[s].phase \in {"tell", "retell"} /\ told' = Append(told, m)
      /\ scan' = [scan EXCEPT ![s] = r] /\ UNCHANGED <<events, ack, list, gets, doubt>>
  BY DEF TellRoom, pageVars
<1>2. ScanOK(scan[s]) /\ ScanTellsTruth(scan[s]) /\ ListShape /\ DOMAIN scan = Scans
  BY DEF ListInv, ListShape, TruthIsTold
<1>3. /\ scan[s].todo \in Seq(DOMAIN events) /\ Head(scan[s].todo) \in DOMAIN events
      /\ Tail(scan[s].todo) \in Seq(DOMAIN events)
      /\ Len(scan[s].todo) > 1 => Tail(scan[s].todo) # <<>>
  <2>1. scan[s].todo \in Seq(DOMAIN events) /\ scan[s].todo # <<>>
    BY <1>1, <1>2 DEF ScanOK
  <2>2. /\ Head(scan[s].todo) \in DOMAIN events /\ Tail(scan[s].todo) \in Seq(DOMAIN events)
        /\ Len(Tail(scan[s].todo)) = Len(scan[s].todo) - 1 /\ Len(scan[s].todo) \in Nat
    BY <2>1, HeadTailProperties, LenProperties
  <2>3. Len(scan[s].todo) > 1 => Tail(scan[s].todo) # <<>>
    BY <2>2, EmptySeq
  <2> QED
    BY <2>1, <2>2, <2>3
<1>4. m \in RoomMessages /\ (m.event \in doubt \/ m.status = events[m.event].status)
  BY <1>1, <1>2, <1>3 DEF RoomMessages, ScanOK, ScanTellsTruth
<1>5. ScanOK(r) /\ r.phase \notin {"tell", "retell"}
  <2>1. CASE Len(scan[s].todo) > 1
    <3>1. r = [phase |-> "close", todo |-> Tail(scan[s].todo), status |-> scan[s].status]
      BY <2>1
    <3>2. r.phase = "close" /\ r.status = "closed" /\ r.todo = Tail(scan[s].todo) /\ IsScan(r)
      BY <1>1, <1>2, <2>1, <3>1 DEF ScanOK, IsScan
    <3>3. r.todo \in Seq(DOMAIN events) /\ r.todo # <<>>
      BY <1>3, <2>1, <3>2
    <3> QED
      BY <3>2, <3>3 DEF ScanOK, Statuses
  <2>2. CASE ~(Len(scan[s].todo) > 1)
    <3>1. ScanOK(NoScan) /\ NoScan.phase = "done"
      BY DEF NoScan, ScanOK, IsScan, Statuses
    <3> QED
      BY <2>2, <3>1
  <2> QED
    BY <2>1, <2>2
<1>6. \A o \in Scans : scan'[o] = IF o = s THEN r ELSE scan[o]
  BY <1>1, <1>2
<1>7. \A e \in DOMAIN events : e # m.event /\ Telling(e) => Telling(e)'
  BY <1>1, <1>6 DEF Telling
<1>8. told' \in Seq(RoomMessages) /\ AnswersInOrder' /\ EventsAgree'
  BY <1>1, <1>2, <1>4, <1>7, MessageIsSent DEF ListInv
<1>9. ListShape'
  <2>1. \A o \in Scans : ScanOK(scan[o])'
    BY <1>1, <1>2, <1>5, <1>6 DEF ListShape, ScanOK
  <2>2. RoomMessages' = RoomMessages /\ \A k \in Acks : AckOK(ack[k])'
    BY <1>1, <1>2 DEF RoomMessages, ListShape, AckOK
  <2> QED
    BY <1>1, <1>2, <1>8, <2>1, <2>2 DEF ListShape
<1>10. TruthIsTold'
  BY <1>1, <1>5, <1>6 DEF ListInv, TruthIsTold, ScanTellsTruth, AckTellsTruth
<1> QED
  BY <1>8, <1>9, <1>10 DEF ListInv

LEMMA TellAcknowledgedAgrees ==
    ASSUME ListInv, NEW k \in Acks, TellAcknowledged(k)
    PROVE  ListInv'
<1> PICK m : m = [event |-> ack[k].event, status |-> "acknowledged"]
  OBVIOUS
<1>1. /\ ack[k].phase = "sending" /\ told' = Append(told, m)
      /\ ack' = [ack EXCEPT ![k] = [phase |-> "done", event |-> NoEvent]]
      /\ UNCHANGED <<events, scan, list, gets, doubt>>
  BY DEF TellAcknowledged, pageVars
<1>2. AckOK(ack[k]) /\ AckTellsTruth(ack[k]) /\ ListShape /\ DOMAIN ack = Acks
  BY DEF ListInv, ListShape, TruthIsTold
<1>3. m \in RoomMessages /\ (m.event \in doubt \/ m.status = events[m.event].status)
  BY <1>1, <1>2 DEF RoomMessages, AckOK, AckTellsTruth, Statuses, Live
<1>4. \A o \in Acks : ack'[o] = IF o = k THEN [phase |-> "done", event |-> NoEvent] ELSE ack[o]
  BY <1>1, <1>2
<1>5. \A e \in DOMAIN events : e # m.event /\ Telling(e) => Telling(e)'
  BY <1>1, <1>4 DEF Telling
<1>6. told' \in Seq(RoomMessages) /\ AnswersInOrder' /\ EventsAgree'
  BY <1>1, <1>2, <1>3, <1>5, MessageIsSent DEF ListInv
<1>7. ListShape'
  <2>1. \A o \in Acks : AckOK(ack[o])'
    BY <1>1, <1>2, <1>4 DEF ListShape, AckOK
  <2>2. RoomMessages' = RoomMessages /\ \A s \in Scans : ScanOK(scan[s])'
    BY <1>1, <1>2 DEF RoomMessages, ListShape, ScanOK
  <2> QED
    BY <1>1, <1>2, <1>6, <2>1, <2>2 DEF ListShape
<1>8. TruthIsTold'
  BY <1>1, <1>4 DEF ListInv, TruthIsTold, ScanTellsTruth, AckTellsTruth
<1> QED
  BY <1>6, <1>7, <1>8 DEF ListInv

----
\* A request for the list goes on.
LEMMA OneGet ==
    ASSUME ListShape, NEW i \in DOMAIN gets, NEW r, IsGet(r), gets' = [gets EXCEPT ![i] = r]
    PROVE  /\ IsSeq(gets') /\ gets' # <<>> /\ \A j \in DOMAIN gets' : IsGet(gets'[j])
           /\ LastGet' = IF i = Len(gets) THEN r ELSE LastGet
<1>1. IsSeq(gets') /\ gets' # <<>> /\ Len(gets') = Len(gets)
  BY ExceptIsSeq DEF ListShape
<1>2. \A j \in DOMAIN gets' : j \in DOMAIN gets /\ gets'[j] = IF j = i THEN r ELSE gets[j]
  OBVIOUS
<1>3. \A j \in DOMAIN gets' : IsGet(gets'[j])
  BY <1>2 DEF ListShape
<1>4. Len(gets) \in DOMAIN gets
  BY GetsHaveLast
<1> QED
  BY <1>1, <1>3, <1>4 DEF LastGet

LEMMA GetChanges ==
    ASSUME NEW q, IsGet(q), NEW p
    PROVE  [q EXCEPT !.phase = p] = [phase |-> p, shown |-> q.shown, gap |-> q.gap]
  BY DEF IsGet

LEMMA GetListAgrees ==
    ASSUME ListInv, GetList
    PROVE  ListInv'
<1> DEFINE r == [NoGet EXCEPT !.phase = "sent"]
<1>1. /\ gets' = Append(gets, r) /\ list' = [list EXCEPT !.inOrder = FALSE]
      /\ UNCHANGED <<events, scan, ack, told, doubt>>
  BY DEF GetList
<1>2. IsGet(r) /\ r.phase = "sent"
  <2>1. IsGet(NoGet)
    BY DEF IsGet, NoGet
  <2>2. r = [phase |-> "sent", shown |-> NoGet.shown, gap |-> NoGet.gap]
    BY <2>1, GetChanges
  <2> HIDE DEF r
  <2> QED
    BY <2>1, <2>2 DEF IsGet
<1> HIDE DEF r
<1>3. /\ IsSeq(gets') /\ Len(gets') = Len(gets) + 1 /\ Len(gets) \in Nat
      /\ DOMAIN gets' = 1..(Len(gets) + 1) /\ gets'[Len(gets) + 1] = r
      /\ \A i \in DOMAIN gets : gets'[i] = gets[i]
  BY <1>1, AppendIsSeq DEF ListInv, ListShape
<1>4. gets' # <<>> /\ \A i \in DOMAIN gets' : IsGet(gets'[i])
  <2>1. DOMAIN gets = 1..Len(gets) /\ \A i \in DOMAIN gets : IsGet(gets[i])
    BY GetsHaveLast DEF ListInv, ListShape
  <2> QED
    BY <1>2, <1>3, <2>1
<1>5. list' = [shown |-> list.shown, inOrder |-> FALSE, gap |-> list.gap]
  BY <1>1 DEF ListInv, ListShape
<1>6. ListShape'
  BY <1>1, <1>3, <1>4, <1>5 DEF ListInv, ListShape, RoomMessages, ScanOK, AckOK
<1>7. TruthIsTold'
  BY <1>1 DEF ListInv, TruthIsTold, ScanTellsTruth, AckTellsTruth
<1>8. LastGet'.phase = "sent" /\ ~list'.inOrder
  BY <1>2, <1>3, <1>5 DEF LastGet
<1>9. ASSUME NEW e \in DOMAIN events \ doubt
      PROVE  EventAgrees(e)'
  <2>1. Telling(e)' <=> Telling(e)
    BY <1>1 DEF Telling
  <2>2. (LastSays(e)' <=> LastSays(e)) /\ (Silent(e)' <=> Silent(e))
    BY <1>1 DEF LastSays, Silent
  <2>3. EventAgrees(e)
    BY DEF ListInv, EventsAgree
  <2> QED
    BY <1>8, <2>1, <2>2, <2>3 DEF EventAgrees, Heard
<1>10. EventsAgree'
  BY <1>1, <1>9 DEF EventsAgree
<1> QED
  BY <1>6, <1>7, <1>8, <1>10 DEF ListInv, AnswersInOrder

\* The answer has what is stored, so what is under way leads to it.
LEMMA ReadListAgrees ==
    ASSUME ListInv, NEW i \in DOMAIN gets, ReadList(i)
    PROVE  ListInv'
<1> PICK shown : shown = [e \in DOMAIN events |-> events[e].status]
  OBVIOUS
<1> PICK r : r = [phase |-> "read", shown |-> shown, gap |-> gets[i].gap]
  OBVIOUS
<1>1. /\ gets[i].phase = "sent" /\ UNCHANGED <<events, scan, ack, told, list>>
      /\ gets' = [gets EXCEPT ![i].phase = "read", ![i].shown = shown]
      /\ \/ doubt' = doubt
         \/ /\ i = Len(gets) /\ told = <<>> /\ doubt' = {}
            /\ ~\E who \in Scans \cup Acks : Busy(who)
  BY DEF ReadList
<1>2. IsGet(gets[i]) /\ ListShape
  BY DEF ListInv, ListShape
<1>3. gets' = [gets EXCEPT ![i] = r] /\ IsGet(r)
  <2>1. [gets[i] EXCEPT !.phase = "read", !.shown = shown] = r
    <3>1. PICK q : q = gets[i]
      OBVIOUS
    <3>2. PICK z : z = [q EXCEPT !.phase = "read"]
      OBVIOUS
    <3>3. z = [phase |-> "read", shown |-> q.shown, gap |-> q.gap]
      BY <1>2, <3>1, <3>2 DEF IsGet
    <3>4. [z EXCEPT !.shown = shown] = [phase |-> "read", shown |-> shown, gap |-> q.gap]
      BY <3>3
    <3>5. [q EXCEPT !.phase = "read", !.shown = shown] = [z EXCEPT !.shown = shown]
      BY <3>2
    <3> QED
      BY <3>1, <3>4, <3>5
  <2>2. gets' = [gets EXCEPT ![i] = [gets[i] EXCEPT !.phase = "read", !.shown = shown]]
    BY <1>1
  <2> QED
    BY <1>2, <2>1, <2>2 DEF IsGet
<1>4. /\ IsSeq(gets') /\ gets' # <<>> /\ \A j \in DOMAIN gets' : IsGet(gets'[j])
      /\ LastGet' = IF i = Len(gets) THEN r ELSE LastGet
  BY <1>2, <1>3, OneGet
<1>5. ListShape'
  BY <1>1, <1>2, <1>4 DEF ListShape, RoomMessages, ScanOK, AckOK
<1>6. AnswersInOrder' /\ (i = Len(gets) => ~list'.inOrder)
  BY <1>1, <1>4 DEF ListInv, AnswersInOrder, LastGet
<1>7. \A e \in DOMAIN events : e \in DOMAIN shown /\ shown[e] = events[e].status
  OBVIOUS
<1>8. ASSUME NEW e \in DOMAIN events, Heard(e) \/ Silent(e),
             list.inOrder /\ ~list.gap => Confirmed(e, list.shown),
             i # Len(gets) => (LastGet.phase = "read" /\ ~LastGet.gap => Confirmed(e, LastGet.shown))
      PROVE  EventAgrees(e)'
  <2>1. (Telling(e)' <=> Telling(e)) /\ (LastSays(e)' <=> LastSays(e)) /\ (Silent(e)' <=> Silent(e))
    BY <1>1 DEF Telling, LastSays, Silent
  <2>2. CASE i = Len(gets)
    <3>1. LastGet'.shown = shown
      BY <1>4, <2>2
    <3>2. Confirmed(e, LastGet.shown)'
      BY <1>1, <1>7, <1>8, <2>1, <3>1 DEF Confirmed, Heard
    <3> QED
      BY <1>6, <1>8, <2>1, <2>2, <3>2 DEF EventAgrees, Heard
  <2>3. CASE i # Len(gets)
    BY <1>1, <1>4, <1>8, <2>1, <2>3 DEF EventAgrees, Confirmed, Heard
  <2> QED
    BY <2>2, <2>3
<1>9. CASE doubt' = doubt
  <2>1. TruthIsTold'
    BY <1>1, <1>9 DEF ListInv, TruthIsTold, ScanTellsTruth, AckTellsTruth
  <2>2. EventsAgree'
    BY <1>1, <1>8, <1>9 DEF ListInv, EventsAgree, EventAgrees
  <2> QED
    BY <1>5, <1>6, <2>1, <2>2 DEF ListInv
<1>10. CASE /\ i = Len(gets) /\ told = <<>> /\ doubt' = {}
            /\ ~\E who \in Scans \cup Acks : Busy(who)
  <2>1. \A s \in Scans : scan[s].phase \in {"idle", "done"}
    BY <1>10 DEF Busy
  <2>2. \A k \in Acks : ack[k].phase # "sending"
    BY <1>10, FeedAssumption DEF Busy
  <2>3. TruthIsTold'
    BY <1>1, <2>1, <2>2 DEF TruthIsTold, ScanTellsTruth, AckTellsTruth
  <2>4. ~list.inOrder /\ \A e \in DOMAIN events : Silent(e)
    <3>1. DOMAIN told = {}
      BY <1>2, <1>10, LenProperties, EmptySeq DEF ListShape
    <3> QED
      BY <1>6, <1>1, <1>10, <3>1 DEF Silent
  <2>5. \A e \in DOMAIN events : EventAgrees(e)'
    BY <1>8, <1>10, <2>4
  <2>6. EventsAgree'
    BY <1>1, <2>5 DEF EventsAgree
  <2> QED
    BY <1>5, <1>6, <2>3, <2>6 DEF ListInv
<1> QED
  BY <1>1, <1>9, <1>10

LEMMA TakeListAgrees ==
    ASSUME ListInv, NEW i \in DOMAIN gets, TakeList(i) \/ GetFails(i)
    PROVE  ListInv'
<1>1. /\ gets[i].phase = "read" /\ gets' = [gets EXCEPT ![i] = NoGet]
      /\ UNCHANGED <<events, scan, ack, told, doubt>>
      /\ \/ list' = [shown |-> gets[i].shown, inOrder |-> i = Len(gets), gap |-> gets[i].gap]
         \/ list' = list
  BY DEF TakeList, GetFails
<1>2. ListShape /\ IsGet(gets[i]) /\ IsGet(NoGet) /\ NoGet.phase = "done"
  BY DEF ListInv, ListShape, IsGet, NoGet
<1>3. /\ IsSeq(gets') /\ gets' # <<>> /\ \A j \in DOMAIN gets' : IsGet(gets'[j])
      /\ LastGet' = IF i = Len(gets) THEN NoGet ELSE LastGet
  BY <1>1, <1>2, OneGet
<1>4. ListShape'
  <2>1. list' = [shown |-> list'.shown, inOrder |-> list'.inOrder, gap |-> list'.gap]
    BY <1>1, <1>2 DEF ListShape
  <2>2. list'.inOrder \in BOOLEAN /\ list'.gap \in BOOLEAN
    <3>1. CASE list' = [shown |-> gets[i].shown, inOrder |-> i = Len(gets), gap |-> gets[i].gap]
      <4>1. list'.inOrder = (i = Len(gets)) /\ list'.gap = gets[i].gap /\ gets[i].gap \in BOOLEAN
        BY <1>2, <3>1 DEF IsGet
      <4> QED
        BY <4>1
    <3>2. CASE list' = list
      BY <1>2, <3>2 DEF ListShape
    <3> QED
      BY <1>1, <3>1, <3>2
  <2> QED
    BY <1>1, <1>2, <1>3, <2>1, <2>2 DEF ListShape, RoomMessages, ScanOK, AckOK
<1>5. TruthIsTold'
  BY <1>1 DEF ListInv, TruthIsTold, ScanTellsTruth, AckTellsTruth
<1>6. AnswersInOrder'
  <2>1. CASE i = Len(gets)
    BY <1>2, <1>3, <2>1 DEF AnswersInOrder
  <2>2. CASE i # Len(gets) /\ list' = list
    BY <1>3, <2>2 DEF ListInv, AnswersInOrder
  <2>3. CASE /\ i # Len(gets)
             /\ list' = [shown |-> gets[i].shown, inOrder |-> i = Len(gets), gap |-> gets[i].gap]
    BY <2>3 DEF AnswersInOrder
  <2> QED
    BY <1>1, <2>1, <2>2, <2>3
<1>7. \A e \in DOMAIN events : /\ Telling(e)' <=> Telling(e)
                               /\ LastSays(e)' <=> LastSays(e)
                               /\ Silent(e)' <=> Silent(e)
  BY <1>1 DEF Telling, LastSays, Silent
<1>8. ASSUME NEW e \in DOMAIN events \ doubt
      PROVE  EventAgrees(e)'
  <2>1. EventAgrees(e)
    BY DEF ListInv, EventsAgree
  <2>2. LastGet'.phase = "read" /\ ~LastGet'.gap => Confirmed(e, LastGet.shown)'
    BY <1>1, <1>2, <1>3, <1>7, <2>1 DEF EventAgrees, Confirmed, Heard
  <2>3. list'.inOrder /\ ~list'.gap => Confirmed(e, list.shown)'
    <3>1. CASE list' = [shown |-> gets[i].shown, inOrder |-> i = Len(gets), gap |-> gets[i].gap]
      <4> SUFFICES ASSUME i = Len(gets), ~gets[i].gap
                   PROVE  Confirmed(e, list.shown)'
        BY <3>1
      <4>1. Confirmed(e, gets[i].shown) /\ list'.shown = gets[i].shown
        BY <1>1, <2>1, <3>1 DEF EventAgrees, LastGet
      <4> QED
        BY <1>1, <1>7, <4>1 DEF Confirmed, Heard
    <3>2. CASE list' = list
      BY <1>1, <1>7, <2>1, <3>2 DEF EventAgrees, Confirmed, Heard
    <3> QED
      BY <1>1, <3>1, <3>2
  <2> QED
    BY <1>7, <2>1, <2>2, <2>3 DEF EventAgrees, Heard
<1>9. EventsAgree'
  BY <1>1, <1>8 DEF EventsAgree
<1> QED
  BY <1>4, <1>5, <1>6, <1>9 DEF ListInv

----
\* Messages that came while an answer was under way: unless it is outdated, it says the same.
LEMMA AnswersOutdated ==
    ASSUME ListShape, NEW M, gets' = Outdated(M)
    PROVE  /\ IsSeq(gets') /\ gets' # <<>> /\ \A i \in DOMAIN gets' : IsGet(gets'[i])
           /\ LastGet'.phase = LastGet.phase /\ LastGet'.shown = LastGet.shown
           /\ LastGet.phase = "read" /\ ~LastGet'.gap =>
                  ~LastGet.gap /\ \A m \in M : /\ m.event \in DOMAIN LastGet.shown
                                             /\ LastGet.shown[m.event] = m.status
<1> DEFINE Late(q) == q.phase = "read" /\ \E m \in M :
                          m.event \notin DOMAIN q.shown \/ q.shown[m.event] # m.status
           After(q) == [phase |-> q.phase, shown |-> q.shown, gap |-> q.gap \/ Late(q)]
<1>1. gets' = [i \in DOMAIN gets |-> [gets[i] EXCEPT !.gap = @ \/ Late(gets[i])]]
  BY DEF Outdated
<1>2. \A i \in DOMAIN gets : IsGet(gets[i])
  BY DEF ListShape
<1> HIDE DEF Late
<1>3. \A i \in DOMAIN gets : [gets[i] EXCEPT !.gap = @ \/ Late(gets[i])] = After(gets[i])
  <2>1. ASSUME NEW q, IsGet(q)
        PROVE  [q EXCEPT !.gap = @ \/ Late(q)] = After(q)
    BY <2>1 DEF IsGet
  <2> QED
    BY <1>2, <2>1
<1>4. DOMAIN gets' = DOMAIN gets /\ \A i \in DOMAIN gets : gets'[i] = After(gets[i])
  BY <1>1, <1>3
<1>5. Len(gets) \in DOMAIN gets /\ Len(gets) \in Nat /\ DOMAIN gets = 1..Len(gets)
  BY GetsHaveLast
<1>6. IsSeq(gets') /\ Len(gets') = Len(gets) /\ gets' # <<>>
  <2>1. gets' \in [1..Len(gets) -> Range(gets')]
    BY <1>1, <1>5 DEF Range
  <2>2. gets' \in Seq(Range(gets'))
    BY <1>5, <2>1, SeqDef
  <2>3. Len(gets') = Len(gets)
    BY <1>4, <1>5, <2>2, LenProperties
  <2> QED
    BY <1>5, <2>2, <2>3, EmptySeq DEF IsSeq
<1>7. \A i \in DOMAIN gets' : IsGet(gets'[i])
  <2>1. ASSUME NEW q, NEW p, NEW x, NEW g \in BOOLEAN, q = [phase |-> p, shown |-> x, gap |-> g]
        PROVE  IsGet(q)
    BY <2>1 DEF IsGet
  <2>2. \A i \in DOMAIN gets : (gets[i].gap \/ Late(gets[i])) \in BOOLEAN
    OBVIOUS
  <2> QED
    BY <1>4, <2>1, <2>2
<1>8. LastGet' = After(LastGet)
  BY <1>4, <1>5, <1>6 DEF LastGet
<1>9. LastGet.gap \in BOOLEAN
  BY <1>2, <1>5 DEF LastGet, IsGet
<1> QED
  BY <1>6, <1>7, <1>8, <1>9 DEF Late

\* What is not heard is as if it had not been said: the page has a gap from then on.
LEMMA JoinRoomAgrees ==
    ASSUME ListInv, JoinRoom
    PROVE  ListInv'
<1>1. /\ told' = <<>> /\ list' = [list EXCEPT !.gap = @ \/ told # <<>>]
      /\ gets' = Outdated(Range(told)) /\ UNCHANGED <<events, scan, ack, doubt>>
  BY DEF JoinRoom
<1>2. ListShape
  BY DEF ListInv
<1>3. list' = [shown |-> list.shown, inOrder |-> list.inOrder, gap |-> list.gap \/ told # <<>>]
  BY <1>1, <1>2 DEF ListShape
<1> PICK M : M = Range(told)
  OBVIOUS
<1>4. /\ IsSeq(gets') /\ gets' # <<>> /\ \A i \in DOMAIN gets' : IsGet(gets'[i])
      /\ LastGet'.phase = LastGet.phase /\ LastGet'.shown = LastGet.shown
      /\ LastGet.phase = "read" /\ ~LastGet'.gap =>
             ~LastGet.gap /\ \A m \in M : /\ m.event \in DOMAIN LastGet.shown
                                        /\ LastGet.shown[m.event] = m.status
  BY <1>1, <1>2, AnswersOutdated
<1>5. ListShape'
  <2>1. <<>> \in Seq(RoomMessages')
    OBVIOUS
  <2>2. list'.inOrder \in BOOLEAN /\ list'.gap \in BOOLEAN
    BY <1>2, <1>3 DEF ListShape
  <2>3. list' = [shown |-> list'.shown, inOrder |-> list'.inOrder, gap |-> list'.gap]
    BY <1>3
  <2> QED
    BY <1>1, <1>2, <1>4, <2>1, <2>2, <2>3 DEF ListShape, ScanOK, AckOK
<1>6. TruthIsTold' /\ AnswersInOrder'
  BY <1>1, <1>3, <1>4 DEF ListInv, TruthIsTold, ScanTellsTruth, AckTellsTruth, AnswersInOrder
<1>7. ASSUME NEW e \in DOMAIN events \ doubt
      PROVE  EventAgrees(e)'
  <2>1. EventAgrees(e) /\ (Telling(e)' <=> Telling(e))
    BY <1>1 DEF ListInv, EventsAgree, Telling
  <2>2. DOMAIN told' = {}
    BY <1>1, EmptySeq, LenProperties
  <2>3. Silent(e)'
    BY <2>2 DEF Silent
  <2>4. LastGet'.phase = "read" /\ ~LastGet'.gap => Confirmed(e, LastGet.shown)'
    <3> SUFFICES ASSUME LastGet.phase = "read", ~LastGet'.gap
                 PROVE  Confirmed(e, LastGet.shown)'
      BY <1>4
    <3>1. Confirmed(e, LastGet.shown)
      BY <1>4, <2>1 DEF EventAgrees
    <3>2. CASE Telling(e)
      BY <2>1, <3>2 DEF Confirmed, Heard
    <3>3. CASE LastSays(e)
      <4>1. PICK n \in DOMAIN told : told[n].event = e /\ told[n].status = events[e].status
        BY <3>3 DEF LastSays
      <4>2. told[n] \in M
        BY DEF Range
      <4>3. e \in DOMAIN LastGet.shown /\ LastGet.shown[e] = events[e].status
        BY <1>4, <4>1, <4>2
      <4> QED
        BY <1>1, <1>4, <2>3, <4>3 DEF Confirmed
    <3>4. CASE e \in DOMAIN LastGet.shown /\ LastGet.shown[e] = events[e].status
      BY <1>1, <1>4, <2>3, <3>4 DEF Confirmed
    <3> QED
      BY <3>1, <3>2, <3>3, <3>4 DEF Confirmed, Heard
  <2>5. list'.inOrder /\ ~list'.gap => Confirmed(e, list.shown)'
    <3> SUFFICES ASSUME list.inOrder, ~list.gap, told = <<>>
                 PROVE  Confirmed(e, list.shown)'
      BY <1>2, <1>3 DEF ListShape
    <3>1. Confirmed(e, list.shown)
      BY <2>1 DEF EventAgrees
    <3>2. ~LastSays(e)
      BY <1>1, <2>2 DEF LastSays
    <3> QED
      BY <1>1, <1>3, <2>1, <2>3, <3>1, <3>2 DEF Confirmed, Heard
  <2> QED
    BY <2>3, <2>4, <2>5 DEF EventAgrees
<1>8. EventsAgree'
  BY <1>1, <1>7 DEF EventsAgree
<1> QED
  BY <1>5, <1>6, <1>8 DEF ListInv

\* A message comes: the list takes it, an answer under way knows it or is outdated.
LEMMA UpdateAgrees ==
    ASSUME ListInv, Update
    PROVE  ListInv'
<1> PICK m : m = Head(told)
  OBVIOUS
<1> PICK shown : shown = With(list.shown, m)
  OBVIOUS
<1>1. /\ told # <<>> /\ told' = Tail(told) /\ list' = [list EXCEPT !.shown = shown]
      /\ gets' = Outdated({m}) /\ UNCHANGED <<events, scan, ack, doubt>>
  BY DEF Update
<1>2. ListShape
  BY DEF ListInv
<1>3. list' = [shown |-> shown, inOrder |-> list.inOrder, gap |-> list.gap]
  BY <1>1, <1>2 DEF ListShape
<1>4. /\ IsSeq(gets') /\ gets' # <<>> /\ \A i \in DOMAIN gets' : IsGet(gets'[i])
      /\ LastGet'.phase = LastGet.phase /\ LastGet'.shown = LastGet.shown
      /\ LastGet.phase = "read" /\ ~LastGet'.gap =>
             ~LastGet.gap /\ \A x \in {m} : /\ x.event \in DOMAIN LastGet.shown
                                          /\ LastGet.shown[x.event] = x.status
  BY <1>1, <1>2, AnswersOutdated
<1>5. /\ told' \in Seq(RoomMessages) /\ m = told[1] /\ 1 \in DOMAIN told
      /\ DOMAIN told = 1..Len(told) /\ Len(told) \in Nat
      /\ DOMAIN told' = 1..(Len(told) - 1) /\ \A n \in DOMAIN told' : told'[n] = told[n + 1]
  <2>1. told \in Seq(RoomMessages) /\ told # <<>>
    BY <1>1, <1>2 DEF ListShape
  <2>2. /\ Tail(told) \in Seq(RoomMessages) /\ Len(Tail(told)) = Len(told) - 1
        /\ Len(told) \in Nat \ {0} /\ DOMAIN told = 1..Len(told)
        /\ \A i \in 1..Len(Tail(told)) : Tail(told)[i] = told[i + 1]
    BY <2>1, HeadTailProperties, LenProperties, EmptySeq
  <2> QED
    BY <1>1, <2>1, <2>2, HeadTailProperties, LenProperties
<1>6. ListShape'
  <2>1. RoomMessages' = RoomMessages
    BY <1>1 DEF RoomMessages
  <2>2. list'.inOrder \in BOOLEAN /\ list'.gap \in BOOLEAN
    BY <1>2, <1>3 DEF ListShape
  <2>3. list' = [shown |-> list'.shown, inOrder |-> list'.inOrder, gap |-> list'.gap]
    BY <1>3
  <2> QED
    BY <1>1, <1>2, <1>4, <1>5, <2>1, <2>2, <2>3 DEF ListShape, ScanOK, AckOK
<1>7. TruthIsTold' /\ AnswersInOrder'
  BY <1>1, <1>3, <1>4 DEF ListInv, TruthIsTold, ScanTellsTruth, AckTellsTruth, AnswersInOrder
<1>8. /\ m.event \in DOMAIN shown /\ shown[m.event] = m.status
      /\ \A e \in DOMAIN list.shown : e # m.event => e \in DOMAIN shown /\ shown[e] = list.shown[e]
  BY DEF With
<1>9. ASSUME NEW e \in DOMAIN events \ doubt
      PROVE  EventAgrees(e)'
  <2>1. EventAgrees(e) /\ (Telling(e)' <=> Telling(e))
    BY <1>1 DEF ListInv, EventsAgree, Telling
  <2>2. CASE Telling(e)
    BY <2>1, <2>2 DEF EventAgrees, Confirmed, Heard
  <2>3. CASE LastSays(e)
    <3>1. PICK n \in DOMAIN told : /\ told[n].event = e /\ told[n].status = events[e].status
                                  /\ \A j \in DOMAIN told : j > n => told[j].event # e
      BY <2>3 DEF LastSays
    <3>2. CASE n = 1
      <4>1. Silent(e)'
        BY <1>5, <3>1, <3>2 DEF Silent
      <4>2. m.event = e /\ m.status = events'[e].status
        BY <1>1, <1>5, <3>1, <3>2
      <4> QED
        BY <1>3, <1>4, <1>8, <4>1, <4>2 DEF EventAgrees, Confirmed
    <3>3. CASE n # 1
      <4>1. n - 1 \in DOMAIN told' /\ told'[n - 1] = told[n]
        BY <1>5, <3>3
      <4>2. \A j \in DOMAIN told' : j > n - 1 => told'[j].event # e
        BY <1>5, <3>1
      <4>3. LastSays(e)'
        BY <1>1, <3>1, <4>1, <4>2 DEF LastSays
      <4> QED
        BY <4>3 DEF EventAgrees, Confirmed, Heard
    <3> QED
      BY <3>2, <3>3
  <2>4. CASE ~Heard(e)
    <3>1. Silent(e)
      BY <2>1, <2>4 DEF EventAgrees
    <3>2. Silent(e)' /\ m.event # e
      BY <1>5, <3>1 DEF Silent
    <3>3. LastGet'.phase = "read" /\ ~LastGet'.gap => Confirmed(e, LastGet.shown)'
      BY <1>1, <1>4, <2>1, <2>4, <3>2 DEF EventAgrees, Confirmed
    <3>4. list'.inOrder /\ ~list'.gap => Confirmed(e, list.shown)'
      BY <1>1, <1>3, <1>8, <2>1, <2>4, <3>2 DEF EventAgrees, Confirmed
    <3> QED
      BY <3>2, <3>3, <3>4 DEF EventAgrees
  <2> QED
    BY <2>2, <2>3, <2>4 DEF Heard
<1>10. EventsAgree'
  BY <1>1, <1>9 DEF EventsAgree
<1> QED
  BY <1>6, <1>7, <1>10 DEF ListInv

----
LEMMA FeedInitAgrees == FeedInit => ListInv
<1> SUFFICES ASSUME FeedInit PROVE ListInv
  OBVIOUS
<1>1. events \in Seq(EventRecords)
  BY FeedInitInv DEF OneInv, FeedShape
<1>2. DOMAIN scan = Scans /\ \A s \in Scans : ScanOK(scan[s]) /\ scan[s].phase = "idle"
  <2>1. \A s \in Scans : scan[s] = [phase |-> "idle", todo |-> <<>>, status |-> Unknown]
    BY DEF FeedInit, NoScan
  <2>2. ScanOK([phase |-> "idle", todo |-> <<>>, status |-> Unknown])
    BY DEF ScanOK, IsScan, Statuses
  <2> QED
    BY <2>1, <2>2 DEF FeedInit
<1>3. DOMAIN ack = Acks /\ \A k \in Acks : AckOK(ack[k]) /\ ack[k].phase = "idle"
  BY DEF FeedInit, AckOK
<1>4. told \in Seq(RoomMessages) /\ DOMAIN told = {}
  BY EmptySeq, LenProperties DEF FeedInit
<1> DEFINE first == [NoGet EXCEPT !.phase = "sent"]
<1>5. IsGet(first) /\ first.phase = "sent"
  <2>1. IsGet(NoGet)
    BY DEF IsGet, NoGet
  <2>2. first = [phase |-> "sent", shown |-> NoGet.shown, gap |-> NoGet.gap]
    BY <2>1, GetChanges
  <2> HIDE DEF first
  <2> QED
    BY <2>1, <2>2 DEF IsGet
<1>6. gets = <<first>>
  BY DEF FeedInit
<1> HIDE DEF first
<1>7. IsSeq(gets) /\ gets # <<>> /\ Len(gets) = 1 /\ DOMAIN gets = {1} /\ gets[1] = first
  BY <1>6 DEF IsSeq, Range
<1>8. list = [shown |-> <<>>, inOrder |-> FALSE, gap |-> FALSE]
  BY DEF FeedInit
<1>9. list.inOrder = FALSE /\ list = [shown |-> list.shown, inOrder |-> list.inOrder, gap |-> list.gap]
      /\ list.gap = FALSE
  BY <1>8
<1>10. ListShape
  BY <1>1, <1>2, <1>3, <1>4, <1>5, <1>7, <1>9 DEF ListShape
<1>11. TruthIsTold
  BY <1>2, <1>3 DEF TruthIsTold, ScanTellsTruth, AckTellsTruth
<1>12. AnswersInOrder /\ EventsAgree
  BY <1>4, <1>5, <1>7, <1>9 DEF AnswersInOrder, EventsAgree, EventAgrees, Silent, LastGet
<1> QED
  BY <1>10, <1>11, <1>12 DEF ListInv

LEMMA ListStep == ListInv /\ [FeedNext]_feedVars => ListInv'
<1> SUFFICES ASSUME ListInv, [FeedNext]_feedVars
             PROVE  ListInv'
  OBVIOUS
<1>1. CASE UNCHANGED feedVars \/ LeaveRoom
  <2>1. UNCHANGED <<events, scan, ack, told, list, gets, doubt>>
    BY <1>1 DEF feedVars, LeaveRoom
  <2>2. ListShape' /\ TruthIsTold' /\ AnswersInOrder'
    BY <2>1 DEF ListInv, ListShape, RoomMessages, ScanOK, AckOK, TruthIsTold, ScanTellsTruth,
                AckTellsTruth, AnswersInOrder, LastGet
  <2>3. EventsAgree'
    BY <2>1 DEF ListInv, EventsAgree, EventAgrees, Confirmed, Heard, Telling, LastSays, Silent, LastGet
  <2> QED
    BY <2>2, <2>3 DEF ListInv
<1>2. CASE \E s \in Scans : \/ FindRecent(s) \/ CreateEvent(s) \/ FindLive(s)
                           \/ CloseEvent(s) \/ TellRoom(s) \/ ScanEnds(s)
  BY <1>2, FindRecentAgrees, CreateEventAgrees, FindLiveAgrees, CloseEventAgrees, TellRoomAgrees,
     ScanEndsAgrees
<1>3. CASE \/ \E e \in DOMAIN events : Age(e)
           \/ \E k \in Acks : Acknowledge(k) \/ TellAcknowledged(k)
  BY <1>3, AgeAgrees, AcknowledgeAgrees, TellAcknowledgedAgrees
<1>4. CASE \E i \in DOMAIN gets : ReadList(i) \/ TakeList(i) \/ GetFails(i)
  BY <1>4, ReadListAgrees, TakeListAgrees
<1> QED
  BY <1>1, <1>2, <1>3, <1>4, GetListAgrees, JoinRoomAgrees, UpdateAgrees DEF FeedNext

\* AiPage.tsx and the broadcasts of scans and acknowledgements: once nothing is under
\* way the list has every event with its status, unless a message was lost or overtaken
\* or two had the event in hand at once.
THEOREM ListsAgree == FeedSpec => []FeedAgrees
<1>1. ListInv => FeedAgrees
  <2> SUFFICES ASSUME ListInv, ~\E who \in Scans \cup Acks : Busy(who), told = <<>>,
                      list.inOrder, ~list.gap, NEW e \in DOMAIN events \ doubt
               PROVE  e \in DOMAIN list.shown /\ list.shown[e] = events[e].status
    BY DEF FeedAgrees
  <2>1. (\A s \in Scans : scan[s].phase # "tell") /\ \A k \in Acks : ack[k].phase # "sending"
    BY FeedAssumption DEF Busy
  <2>2. DOMAIN told = {}
    BY LenProperties, EmptySeq DEF ListInv, ListShape
  <2>3. ~Telling(e) /\ ~LastSays(e)
    BY <2>1, <2>2 DEF Telling, LastSays
  <2> QED
    BY <2>3 DEF ListInv, EventsAgree, EventAgrees, Confirmed, Heard
<1> QED
  BY FeedInitAgrees, ListStep, <1>1, PTL DEF FeedSpec

----
(* Feed: the shape of its state. *)

ScanPhases == {"idle", "create", "close", "tell", "retell", "done"}

\* What ListShape leaves open: phases, bounds, and that nobody knows of an event that
\* is not there.
FeedRest ==
    /\ Len(events) <= MaxEvents
    /\ \A s \in Scans : scan[s].phase \in ScanPhases
    /\ \A k \in Acks : ack[k].event \in DOMAIN events \cup {NoEvent}
    /\ DOMAIN list.shown \subseteq DOMAIN events
    /\ \A i \in DOMAIN gets : DOMAIN gets[i].shown \subseteq DOMAIN events
    /\ line \in BOOLEAN /\ doubt \subseteq DOMAIN events

LEMMA FeedInitRest == FeedInit => FeedRest
<1> SUFFICES ASSUME FeedInit PROVE FeedRest
  OBVIOUS
<1> DEFINE first == [status |-> "open", fresh |-> TRUE]
<1>1. Len(events) <= MaxEvents
  <2>1. events = <<>> \/ events = <<first>>
    BY DEF FeedInit
  <2> HIDE DEF first
  <2>2. Len(events) \in 0..1
    BY <2>1
  <2>3. \A n \in 0..1, m \in Nat \ {0} : n <= m
    OBVIOUS
  <2> QED
    BY <2>2, <2>3, FeedAssumption
<1> HIDE DEF first
<1>2. \A s \in Scans : scan[s].phase \in ScanPhases
  BY DEF FeedInit, NoScan, ScanPhases
<1>3. DOMAIN <<>> = {}
  OBVIOUS
<1>4. list.shown = <<>> /\ \A i \in DOMAIN gets : gets[i].shown = <<>>
  BY DEF FeedInit, NoGet
<1> QED
  BY <1>1, <1>2, <1>3, <1>4 DEF FeedInit, FeedRest

\* Steps that add no event: what is known of events stays within them.
LEMMA NoEventAdded ==
    ASSUME ListInv, FeedRest,
           DOMAIN events' = DOMAIN events, Len(events') = Len(events),
           \A s \in Scans : scan'[s].phase \in ScanPhases,
           \A k \in Acks : ack'[k].event \in DOMAIN events \cup {NoEvent},
           DOMAIN list'.shown \subseteq DOMAIN events,
           \A i \in DOMAIN gets' : DOMAIN gets'[i].shown \subseteq DOMAIN events,
           line' \in BOOLEAN, doubt' \subseteq DOMAIN events
    PROVE  FeedRest'
  BY DEF FeedRest

\* The first event of a scan that has one is an event.
LEMMA HeadIsEvent ==
    ASSUME ListShape, NEW s \in Scans, scan[s].phase \in {"close", "tell", "retell"}
    PROVE  Head(scan[s].todo) \in DOMAIN events
<1>1. scan[s].todo \in Seq(DOMAIN events) /\ scan[s].todo # <<>>
  BY DEF ListShape, ScanOK
<1> QED
  BY <1>1, HeadTailProperties

LEMMA ScansKeepRest ==
    ASSUME ListInv, FeedRest, NEW s \in Scans,
           \/ FindRecent(s) \/ FindLive(s) \/ CloseEvent(s) \/ TellRoom(s) \/ ScanEnds(s)
    PROVE  FeedRest'
<1>1. DOMAIN scan = Scans /\ IsScan(scan[s]) /\ events \in Seq(EventRecords)
  BY DEF ListInv, ListShape, ScanOK
<1>2. UNCHANGED <<ack, list, gets, line>>
  BY DEF FindRecent, FindLive, CloseEvent, TellRoom, ScanEnds, pageVars
<1>3. DOMAIN events' = DOMAIN events /\ Len(events') = Len(events)
  <2>1. CASE CloseEvent(s)
    <3>1. DOMAIN events' = DOMAIN events /\ DOMAIN events = 1..Len(events)
      BY <1>1, <2>1, LenProperties DEF CloseEvent
    <3>2. PICK v : events' = [events EXCEPT ![Head(scan[s].todo)] = v]
      BY <2>1 DEF CloseEvent
    <3>3. Len(events') = Len(events)
      BY <1>1, <3>1, <3>2
    <3> QED
      BY <3>1, <3>3
  <2>2. CASE ~CloseEvent(s)
    BY <2>2 DEF FindRecent, FindLive, TellRoom, ScanEnds
  <2> QED
    BY <2>1, <2>2
<1>4. scan'[s].phase \in ScanPhases /\ \A o \in Scans \ {s} : scan'[o] = scan[o]
  <2>1. NoScan.phase = "done"
    BY DEF NoScan
  <2>2. CASE FindRecent(s)
    BY <1>1, <2>1, <2>2 DEF FindRecent, ScanPhases, NoScan
  <2>3. CASE FindLive(s)
    BY <1>1, <2>1, <2>3 DEF FindLive, ScanPhases, NoScan
  <2>4. CASE CloseEvent(s)
    BY <1>1, <2>4 DEF CloseEvent, ScanPhases, IsScan
  <2>5. CASE TellRoom(s)
    BY <1>1, <2>1, <2>5 DEF TellRoom, ScanPhases
  <2>6. CASE ScanEnds(s)
    BY <1>1, <2>1, <2>6 DEF ScanEnds, ScanPhases
  <2> QED
    BY <2>2, <2>3, <2>4, <2>5, <2>6
<1>5. doubt' \subseteq DOMAIN events
  BY HeadIsEvent DEF ListInv, FeedRest, FindRecent, FindLive, CloseEvent, TellRoom, ScanEnds
<1> QED
  BY <1>2, <1>3, <1>4, <1>5, NoEventAdded DEF FeedRest

LEMMA CreateEventKeepsRest ==
    ASSUME ListInv, FeedRest, NEW s \in Scans, CreateEvent(s)
    PROVE  FeedRest'
<1>1. DOMAIN scan = Scans /\ events \in Seq(EventRecords) /\ Len(events) < MaxEvents
  BY DEF ListInv, ListShape, CreateEvent
<1>2. PICK v : events' = Append(events, v)
  BY DEF CreateEvent
<1>3. /\ Len(events') = Len(events) + 1 /\ Len(events) \in Nat
      /\ DOMAIN events = 1..Len(events) /\ DOMAIN events' = 1..(Len(events) + 1)
  <2>1. IsSeq(events)
    BY <1>1, SeqOfRange DEF IsSeq
  <2> QED
    BY <1>1, <1>2, <2>1, AppendIsSeq, LenProperties
<1>4. DOMAIN events \subseteq DOMAIN events' /\ Len(events') <= MaxEvents
  BY <1>1, <1>3, FeedAssumption
<1>5. \A o \in Scans : scan'[o].phase \in ScanPhases
  BY <1>1 DEF CreateEvent, FeedRest, ScanPhases
<1> QED
  BY <1>4, <1>5 DEF CreateEvent, FeedRest, pageVars

LEMMA OperatorsKeepRest ==
    ASSUME ListInv, FeedRest,
           \/ \E e \in DOMAIN events : Age(e)
           \/ \E k \in Acks : Acknowledge(k) \/ TellAcknowledged(k)
    PROVE  FeedRest'
<1>1. UNCHANGED <<scan, list, gets, line>>
  BY DEF Age, Acknowledge, TellAcknowledged, pageVars
<1>2. /\ events \in Seq(EventRecords) /\ DOMAIN ack = Acks
      /\ \A k \in Acks : AckOK(ack[k])
  BY DEF ListInv, ListShape
<1>3. DOMAIN events' = DOMAIN events /\ Len(events') = Len(events)
  <2>1. ASSUME NEW e, NEW v, events' = [events EXCEPT ![e] = v]
        PROVE  DOMAIN events' = DOMAIN events /\ Len(events') = Len(events)
    BY <1>2, <2>1
  <2>2. (\E e, v : events' = [events EXCEPT ![e] = v]) \/ UNCHANGED events
    BY DEF Age, Acknowledge, TellAcknowledged
  <2> QED
    BY <2>1, <2>2
<1>4. \A k \in Acks : ack'[k].event \in DOMAIN events \cup {NoEvent}
  <2>1. CASE \E k \in Acks : Acknowledge(k)
    <3>1. PICK k \in Acks, e \in DOMAIN events : ack' = [ack EXCEPT ![k] = [phase |-> "sending", event |-> e]]
      BY <2>1 DEF Acknowledge
    <3> QED
      BY <1>2, <3>1 DEF FeedRest
  <2>2. CASE \E k \in Acks : TellAcknowledged(k)
    BY <1>2, <2>2 DEF TellAcknowledged, FeedRest
  <2>3. CASE UNCHANGED ack
    BY <2>3 DEF FeedRest
  <2> QED
    BY <2>1, <2>2, <2>3 DEF Age
<1>5. doubt' \subseteq DOMAIN events
  BY DEF Age, Acknowledge, TellAcknowledged, FeedRest
<1> QED
  BY <1>1, <1>3, <1>4, <1>5, NoEventAdded DEF FeedRest

LEMMA PageKeepsRest ==
    ASSUME ListInv, FeedRest,
           \/ GetList \/ JoinRoom \/ LeaveRoom \/ Update
           \/ \E i \in DOMAIN gets : ReadList(i) \/ TakeList(i) \/ GetFails(i)
    PROVE  FeedRest'
<1>1. UNCHANGED <<events, scan, ack>>
  BY DEF GetList, JoinRoom, LeaveRoom, Update, ReadList, TakeList, GetFails
<1>2. /\ ListShape /\ IsSeq(gets) /\ \A i \in DOMAIN gets : IsGet(gets[i])
      /\ list = [shown |-> list.shown, inOrder |-> list.inOrder, gap |-> list.gap]
  BY DEF ListInv, ListShape
<1>3. DOMAIN NoGet.shown = {} /\ \A x : [NoGet EXCEPT !.phase = x].shown = NoGet.shown
  BY DEF NoGet
<1>4. \A i \in DOMAIN gets' : DOMAIN gets'[i].shown \subseteq DOMAIN events
  <2>1. CASE UNCHANGED gets
    BY <2>1 DEF FeedRest
  <2>2. CASE GetList
    BY <1>2, <1>3, <2>2, AppendIsSeq, GetsHaveLast DEF GetList, FeedRest
  <2>3. CASE \E i \in DOMAIN gets : ReadList(i)
    <3>1. PICK i \in DOMAIN gets :
            gets' = [gets EXCEPT ![i].phase = "read", ![i].shown = [e \in DOMAIN events |-> events[e].status]]
      BY <2>3 DEF ReadList
    <3>2. \A x : [[gets[i] EXCEPT !.phase = "read"] EXCEPT !.shown = x].shown = x
      BY <1>2 DEF IsGet
    <3>3. gets'[i].shown = [e \in DOMAIN events |-> events[e].status]
      BY <3>1, <3>2
    <3> QED
      BY <3>1, <3>3 DEF FeedRest
  <2>4. CASE \E i \in DOMAIN gets : TakeList(i) \/ GetFails(i)
    BY <1>3, <2>4 DEF TakeList, GetFails, FeedRest
  <2>5. CASE JoinRoom \/ Update
    BY <1>2, <2>5 DEF JoinRoom, Update, Outdated, FeedRest, IsGet
  <2> QED
    BY <2>1, <2>2, <2>3, <2>4, <2>5 DEF LeaveRoom
<1>5. DOMAIN list'.shown \subseteq DOMAIN events
  <2>1. CASE Update
    <3>1. told \in Seq(RoomMessages) /\ told # <<>>
      BY <2>1 DEF ListInv, ListShape, Update
    <3>2. Head(told).event \in DOMAIN events
      <4>1. Head(told) \in RoomMessages
        BY <3>1, HeadTailProperties
      <4> QED
        BY <4>1 DEF RoomMessages
    <3>3. list'.shown = With(list.shown, Head(told))
      BY <1>2, <2>1 DEF Update
    <3> QED
      BY <3>2, <3>3 DEF With, FeedRest
  <2>2. CASE \E i \in DOMAIN gets : TakeList(i)
    BY <2>2 DEF TakeList, FeedRest
  <2>3. CASE GetList \/ JoinRoom
    BY <1>2, <2>3 DEF GetList, JoinRoom, FeedRest
  <2>4. CASE UNCHANGED list
    BY <2>4 DEF FeedRest
  <2> QED
    BY <2>1, <2>2, <2>3, <2>4 DEF LeaveRoom, ReadList, GetFails
<1>6. line' \in BOOLEAN /\ doubt' \subseteq DOMAIN events
  BY DEF GetList, JoinRoom, LeaveRoom, Update, ReadList, TakeList, GetFails, FeedRest
<1> QED
  BY <1>1, <1>4, <1>5, <1>6, NoEventAdded DEF FeedRest

\* AnomalyDetectionService, acknowledge() and AiPage.tsx, types: nobody, not the scans,
\* the acknowledgements, the messages or the page, has an event that is not in the table.
THEOREM FeedTyped == FeedSpec => []FeedTypeOK
<1>1. ListInv /\ FeedRest /\ [FeedNext]_feedVars => FeedRest'
  <2> SUFFICES ASSUME ListInv, FeedRest, [FeedNext]_feedVars
               PROVE  FeedRest'
    OBVIOUS
  <2>1. CASE UNCHANGED feedVars
    BY <2>1 DEF feedVars, FeedRest
  <2> QED
    BY <2>1, ScansKeepRest, CreateEventKeepsRest, OperatorsKeepRest, PageKeepsRest DEF FeedNext
<1>2. ListInv /\ FeedRest => FeedTypeOK
  <2> SUFFICES ASSUME ListInv, FeedRest PROVE FeedTypeOK
    OBVIOUS
  <2>1. \A e \in DOMAIN events : events[e].status \in Live \cup {"closed"} /\ events[e].fresh \in BOOLEAN
    BY EventsAreNumbered DEF ListInv, EventRecords
  <2>2. \A s \in Scans :
         /\ scan[s].phase \in {"idle", "create", "close", "tell", "retell", "done"}
         /\ Range(scan[s].todo) \subseteq DOMAIN events
         /\ scan[s].phase \in {"close", "tell", "retell"} => scan[s].todo # <<>>
    <3> SUFFICES ASSUME NEW s \in Scans
                 PROVE  /\ scan[s].phase \in {"idle", "create", "close", "tell", "retell", "done"}
                        /\ Range(scan[s].todo) \subseteq DOMAIN events
                        /\ scan[s].phase \in {"close", "tell", "retell"} => scan[s].todo # <<>>
      OBVIOUS
    <3>1. ScanOK(scan[s])
      BY DEF ListInv, ListShape
    <3>2. scan[s].phase \in {"idle", "create", "close", "tell", "retell", "done"}
      BY DEF FeedRest, ScanPhases
    <3>3. Range(scan[s].todo) \subseteq DOMAIN events
      BY <3>1, ElementOfSeq, LenProperties DEF ScanOK, Range
    <3> QED
      BY <3>1, <3>2, <3>3 DEF ScanOK
  <2>3. \A n \in DOMAIN told : told[n].event \in DOMAIN events
    <3>1. \A n \in DOMAIN told : told[n] \in RoomMessages
      BY ElementOfSeq, LenProperties DEF ListInv, ListShape
    <3> QED
      BY <3>1 DEF RoomMessages
  <2>4. /\ Len(events) <= MaxEvents
        /\ \A k \in Acks : ack[k].event \in DOMAIN events \cup {NoEvent}
        /\ DOMAIN list.shown \subseteq DOMAIN events
        /\ line \in BOOLEAN /\ doubt \subseteq DOMAIN events
    BY DEF FeedRest
  <2> QED
    BY <2>1, <2>2, <2>3, <2>4, Zenon DEF FeedTypeOK
<1> QED
  BY FeedInitAgrees, FeedInitRest, ListStep, <1>1, <1>2, PTL DEF FeedSpec

----
(* Pages: the shape of its state. *)

PostPhases == {"sent", "performed", "recorded"}

\* What PagesInv leaves open: no table is changed more often than the bound says, the
\* page that was opened stays and has answers about its own tables only.
PagesRest ==
    /\ \A t \in Tables : store[t].at <= MaxChanges
    /\ view.page \in DOMAIN Reads /\ DOMAIN view.shown = Reads[view.page]
    /\ \A i \in DOMAIN loads : DOMAIN loads[i].answers \subseteq Reads[view.page]
    /\ \A p \in posts : p.phase \in PostPhases

LEMMA PagesInitRest == PagesInit => PagesRest
<1> SUFFICES ASSUME PagesInit PROVE PagesRest
  OBVIOUS
<1>1. PICK p \in DOMAIN Reads, edit \in BOOLEAN : view = Opened(p, edit) /\ loads = <<Asked>>
  BY DEF PagesInit
<1>2. view.page = p /\ DOMAIN view.shown = Reads[p]
  BY <1>1 DEF Opened
<1>3. DOMAIN loads = {1} /\ loads[1] = Asked /\ DOMAIN Asked.answers = {}
  <2>1. DOMAIN loads = {1} /\ loads[1] = Asked
    BY <1>1
  <2> QED
    BY <2>1, NewLoads
<1>4. 1 <= MaxChanges
  BY PagesAssumption
<1>5. \A t \in Tables : store[t].at = 1
  BY DEF PagesInit
<1> QED
  BY <1>2, <1>3, <1>4, <1>5 DEF PagesInit, PagesRest

LEMMA StoreKeepsBound ==
    ASSUME PagesInv, PagesRest, PagesNext
    PROVE  \A t \in Tables : store'[t].at <= MaxChanges
<1>1. \/ UNCHANGED store
      \/ \E t \in Tables : \E v : store' = [store EXCEPT ![t] = Stamp(t, v)] /\ store[t].at < MaxChanges
  <2>1. \A p \in posts : p.table \in Tables
    BY DEF PagesInv, ChangesAreIn, IsPost
  <2>2. \A p \in posts : Perform(p) =>
          \E t \in Tables : \E v : store' = [store EXCEPT ![t] = Stamp(t, v)] /\ store[t].at < MaxChanges
    BY <2>1 DEF Perform
  <2>3. \A p \in posts : RecordPost(p) =>
          \E t \in Tables : \E v : store' = [store EXCEPT ![t] = Stamp(t, v)] /\ store[t].at < MaxChanges
    BY DEF RecordPost, Tables
  <2>4. \A t \in Tables : OtherChange(t) =>
          \E v : store' = [store EXCEPT ![t] = Stamp(t, v)] /\ store[t].at < MaxChanges
    BY DEF OtherChange
  <2> QED
    BY <2>2, <2>3, <2>4 DEF PagesNext, Press, Answer, Refuse, Show, LoadFails, ReadTable
<1>2. ASSUME NEW t \in Tables, NEW v, store' = [store EXCEPT ![t] = Stamp(t, v)], store[t].at < MaxChanges
      PROVE  \A x \in Tables : store'[x].at <= MaxChanges
  <2>1. store'[t].at = store[t].at + 1
    BY <1>2, StoreGrows
  <2>2. \A x \in Tables \ {t} : store'[x] = store[x]
    BY <1>2 DEF PagesInv, StoreShape
  <2>3. store[t].at + 1 <= MaxChanges
    BY <1>2, PagesAssumption DEF PagesInv, StoreShape
  <2> QED
    BY <2>1, <2>2, <2>3 DEF PagesRest
<1> QED
  BY <1>1, <1>2 DEF PagesRest

LEMMA PageStays ==
    ASSUME PagesInv, PagesRest, PagesNext
    PROVE  view'.page = view.page /\ DOMAIN view'.shown = Reads[view.page]
<1> USE DEF PagesInv, IsView, PagesRest
<1>1. CASE UNCHANGED view
  BY <1>1
<1>2. CASE \E x : view' = [view EXCEPT !.failed = x] \/ view' = [view EXCEPT !.inOrder = x]
  BY <1>2
<1>3. CASE \E i \in DOMAIN loads : Show(i)
  <2>1. PICK i \in DOMAIN loads :
          /\ DOMAIN loads[i].answers = Reads[view.page]
          /\ view' = [view EXCEPT !.shown = loads[i].answers, !.inOrder = i = Len(loads)]
    BY <1>3 DEF Show
  <2>2. view' = [page |-> view.page, shown |-> loads[i].answers, canEdit |-> view.canEdit,
                 inOrder |-> (i = Len(loads)), failed |-> view.failed]
    BY <2>1
  <2> QED
    BY <2>1, <2>2
<1> QED
  BY <1>1, <1>2, <1>3 DEF PagesNext, Press, Perform, RecordPost, Answer, Refuse, LoadFails, ReadTable,
                          OtherChange

LEMMA AnswersOfPage ==
    ASSUME PagesInv, PagesRest, PagesNext
    PROVE  \A i \in DOMAIN loads' : DOMAIN loads'[i].answers \subseteq Reads[view.page]
<1>1. IsSeq(loads) /\ \A i \in DOMAIN loads : IsLoad(loads[i])
  BY DEF PagesInv, LoadsShape
<1>2. ASSUME NEW i \in DOMAIN loads, NEW r, loads' = [loads EXCEPT ![i] = r],
             DOMAIN r.answers \subseteq Reads[view.page]
      PROVE  \A j \in DOMAIN loads' : DOMAIN loads'[j].answers \subseteq Reads[view.page]
  BY <1>2 DEF PagesRest
<1>3. CASE UNCHANGED loads
  BY <1>3 DEF PagesRest
<1>4. CASE \E p \in posts : Answer(p)
  <2>1. PICK w : loads' = Append(loads, [Asked EXCEPT !.after = w])
    BY <1>4 DEF Answer
  <2>2. DOMAIN [Asked EXCEPT !.after = w].answers = {}
    BY NewLoads
  <2> QED
    BY <1>1, <2>1, <2>2, AppendIsSeq, LoadsHaveLast DEF PagesInv, PagesRest
<1>5. CASE \E i \in DOMAIN loads : Show(i) \/ LoadFails(i)
  <2>1. PICK i \in DOMAIN loads : loads' = [loads EXCEPT ![i] = [Asked EXCEPT !.done = TRUE]]
    BY <1>5 DEF Show, LoadFails
  <2>2. DOMAIN [Asked EXCEPT !.done = TRUE].answers = {}
    BY NewLoads
  <2> QED
    BY <1>2, <2>1, <2>2
<1>6. CASE \E i \in DOMAIN loads, t \in Tables : ReadTable(i, t)
  <2>1. PICK i \in DOMAIN loads, t \in Tables : ReadTable(i, t)
    BY <1>6
  <2> DEFINE old == loads[i].answers
             answers == [x \in DOMAIN old \cup {t} |-> IF x = t THEN store[t] ELSE old[x]]
  <2>2. t \in Reads[view.page] /\ loads' = [loads EXCEPT ![i] = [loads[i] EXCEPT !.answers = answers]]
    BY <2>1 DEF ReadTable
  <2>3. DOMAIN answers = DOMAIN old \cup {t}
    OBVIOUS
  <2>4. [loads[i] EXCEPT !.answers = answers].answers = answers
    BY <1>1 DEF IsLoad
  <2>5. DOMAIN old \subseteq Reads[view.page]
    BY DEF PagesRest
  <2> DEFINE r == [loads[i] EXCEPT !.answers = answers]
  <2>6. loads' = [loads EXCEPT ![i] = r] /\ r.answers = answers
    BY <2>2, <2>4
  <2> HIDE DEF r, answers, old
  <2>7. DOMAIN r.answers \subseteq Reads[view.page]
    BY <2>2, <2>3, <2>5, <2>6
  <2> QED
    BY <1>2, <2>6, <2>7
<1> QED
  BY <1>3, <1>4, <1>5, <1>6 DEF PagesNext, Press, Perform, RecordPost, Refuse, OtherChange

LEMMA PostsGoOn ==
    ASSUME PagesInv, PagesRest, PagesNext
    PROVE  \A p \in posts' : p.phase \in PostPhases
<1>1. \A p \in posts : IsPost(p) /\ p.phase \in PostPhases
  BY DEF PagesInv, ChangesAreIn, PagesRest
<1>2. ASSUME NEW p \in posts, NEW phase \in PostPhases, NEW at, To(p, phase, at)
      PROVE  \A q \in posts' : q.phase \in PostPhases
  <2> DEFINE m == [p EXCEPT !.phase = phase]
             n == [m EXCEPT !.at = at]
  <2>1. posts' = (posts \ {p}) \cup {n}
    BY <1>2 DEF To
  <2>2. m = [table |-> p.table, what |-> p.what, phase |-> phase, at |-> p.at]
    BY <1>1 DEF IsPost
  <2> HIDE DEF m
  <2>3. n.phase = phase
    BY <2>2
  <2> HIDE DEF n
  <2> QED
    BY <1>1, <2>1, <2>3
<1>3. CASE \E p \in posts : Perform(p) \/ RecordPost(p)
  BY <1>2, <1>3 DEF Perform, RecordPost, PostPhases
<1>4. CASE \E b \in Buttons : Press(b)
  BY <1>1, <1>4 DEF Press, PostPhases
<1>5. CASE \E p \in posts : Answer(p) \/ Refuse(p)
  BY <1>1, <1>5 DEF Answer, Refuse
<1> QED
  BY <1>1, <1>3, <1>4, <1>5 DEF PagesNext, Show, LoadFails, ReadTable, OtherChange

\* The pages' load() and buttons, types: a page that is opened stays that page, its
\* answers are about its tables, and no change is numbered ahead of its table.
THEOREM PagesTyped == PagesSpec => []PagesTypeOK
<1>1. PagesInv /\ PagesRest /\ [PagesNext]_pagesVars => PagesRest'
  <2> SUFFICES ASSUME PagesInv, PagesRest, [PagesNext]_pagesVars
               PROVE  PagesRest'
    OBVIOUS
  <2>1. CASE UNCHANGED pagesVars
    BY <2>1 DEF pagesVars, PagesRest
  <2> QED
    BY <2>1, StoreKeepsBound, PageStays, AnswersOfPage, PostsGoOn DEF PagesRest
<1>2. PagesInv /\ PagesRest => PagesTypeOK
  <2> SUFFICES ASSUME PagesInv, PagesRest PROVE PagesTypeOK
    OBVIOUS
  <2>1. \A t \in Tables : store[t].at \in 1..MaxChanges /\ own[t] \in 0..MaxChanges
    BY PagesAssumption DEF PagesInv, StoreShape, ChangesAreIn, PagesRest
  <2>2. \A p \in posts : p.table \in Tables /\ p.at \in 0..store[p.table].at
    BY DEF PagesInv, StoreShape, ChangesAreIn, IsPost
  <2> QED
    BY <2>1, <2>2 DEF PagesRest, PagesTypeOK, PostPhases
<1> QED
  BY PagesInitInv, PagesInitRest, PagesStep, <1>1, <1>2, PTL DEF PagesSpec
====
