---- MODULE AnomalyProofs ----
(***************************************************************************)
(* Theorems about modules Outbox and Anomaly, for any number of overlapping *)
(* flushes and scans, of events and of items.  The invariants of the outbox *)
(* are kept by the steps of the flushes and by every new item, whoever adds *)
(* it; so they hold of Outbox by itself and of Anomaly, where the scans add *)
(* the items.                                                               *)
(***************************************************************************)
EXTENDS Anomaly, TLAPS, SequenceTheorems, FiniteSetTheorems

----
(* The outbox, whatever overlaps and fails. *)

\* A flush has a batch in hand exactly while it sends.
BatchesInHand ==
    \A f \in Flushes : flush[f].phase \in {"idle", "fetching"} <=> flush[f].batch = <<>>

\* What a flush is about to mark as delivered, or as notified, SafeOps has.
PostedIsReceived ==
    \A f \in Flushes : flush[f].phase \in {"posted", "notifying"} => Current(f).id \in received

OutboxInv ==
    /\ OutboxTypeOK
    /\ BatchesInHand
    /\ PostedIsReceived
    /\ ClaimsAreTrue
    /\ GivenUpAtLimit

(* The outbox while nothing overlaps or fails. *)

\* Every item is waiting, delivered, or just posted.
NothingStuck ==
    /\ \A f \in Flushes : flush[f].phase # "erring"
    /\ \A i \in DOMAIN outbox : outbox[i].status # "failed"
    /\ \A i \in received : \/ outbox[i].status = "delivered"
                           \/ \E f \in Flushes : flush[f].phase = "posted" /\ Current(f).id = i

OneFlush == \A f, g \in Flushes : Running(f) /\ Running(g) => f = g

\* Nothing is skipped while a flush runs.
FlushSeesAll ==
    \A f \in Flushes : Running(f) => enabled /\ \A i \in DOMAIN outbox : outbox[i].status # "skipped"

\* SafeOps has the items up to some point.
OldestReceived == \A i \in received : \A j \in 1..i : j \in received

\* The batch is the items after that point, in order.
BatchIsNext ==
    \A f \in Flushes : \A n \in DOMAIN flush[f].batch :
        /\ \A m \in 1..(n - 1) : flush[f].batch[m].id < flush[f].batch[n].id
        /\ \A j \in 1..(flush[f].batch[n].id - 1) :
             j \in received \/ \E m \in 1..(n - 1) : flush[f].batch[m].id = j
        /\ n > 1 \/ flush[f].phase = "sending" => flush[f].batch[n].id \notin received

\* SafeOps holds the newest notice it was sent.
NewestHeld ==
    \A i \in received :
        \/ peer[outbox[i].event] = outbox[i].kind
        \/ \E j \in received : j > i /\ outbox[j].event = outbox[i].event

Orderly ==
    NothingStuck /\ OneFlush /\ FlushSeesAll /\ OldestReceived /\ BatchIsNext /\ NewestHeld

OrderInv == ~disturbed => Orderly

----
(* The events of one equipment. *)

EventsInv == AnomalyTypeOK /\ ClosureIsAnnounced

\* While scans do not meet, nobody else is at the event of a scan, ...
OneScan == \A s, t \in Scans : scan[s].phase # "idle" /\ scan[t].phase # "idle" => s = t

\* ... so that what a scan announces is live, ...
AnnouncedIsLive ==
    \A s \in Scans : scan[s].phase = "announcing" => events[scan[s].event].status \in Live

\* ... and the last notice of a closed event says so, or is about to be written.
LastNotice(e, kind) ==
    \E i \in DOMAIN outbox :
        /\ outbox[i].event = e /\ outbox[i].kind = kind
        /\ \A j \in DOMAIN outbox : outbox[j].event = e => j <= i

ClosedIsLast ==
    \A e \in DOMAIN events : events[e].status = "closed" =>
        LastNotice(e, "closed") \/ e \in unsaid \/ \E s \in Scans : e \in Unwritten(s)

ScansInv == ~scansMet => OneScan /\ AnnouncedIsLive /\ ClosedIsLast

AnomalyInv == OutboxInv /\ OrderInv /\ EventsInv /\ ScansInv

----
(* Sequences and the shape of the state. *)

Items == [event : EventIds, kind : {"open", "closed"}, status : ItemStatuses,
          attempts : 0..MaxAttempts]

Copies == [id : Nat \ {0}, attempts : 0..(MaxAttempts - 1)]

FlushStates == [phase : {"idle", "fetching", "sending", "posted", "notifying", "erring"},
                batch : Seq(Copies)]

LEMMA ShapeOfOutbox ==
    OutboxTypeOK <=>
        /\ outbox \in Seq(Items)
        /\ enabled \in BOOLEAN
        /\ flush \in [Flushes -> FlushStates]
        /\ \A f \in Flushes : \A n \in DOMAIN flush[f].batch : flush[f].batch[n].id \in DOMAIN outbox
        /\ notified \subseteq EventIds
        /\ peer \in [EventIds -> {"none", "open", "closed"}]
        /\ received \subseteq DOMAIN outbox
        /\ disturbed \in BOOLEAN
  BY DEF OutboxTypeOK, Items, Copies, FlushStates

\* A row that is overwritten.
LEMMA ItemReplaced ==
    ASSUME outbox \in Seq(Items), NEW i \in DOMAIN outbox, NEW r \in Items,
           outbox' = [outbox EXCEPT ![i] = r]
    PROVE  /\ outbox' \in Seq(Items) /\ DOMAIN outbox' = DOMAIN outbox
           /\ outbox'[i] = r
           /\ \A j \in DOMAIN outbox : j # i => outbox'[j] = outbox[j]
<1> HIDE DEF Items
<1> QED
  OBVIOUS

\* A row that is added.
LEMMA ItemAdded ==
    ASSUME outbox \in Seq(Items), NEW r \in Items, outbox' = Append(outbox, r)
    PROVE  /\ outbox' \in Seq(Items) /\ Len(outbox') = Len(outbox) + 1 /\ Len(outbox) \in Nat
           /\ DOMAIN outbox = 1..Len(outbox)
           /\ DOMAIN outbox' = DOMAIN outbox \cup {Len(outbox) + 1}
           /\ outbox'[Len(outbox) + 1] = r
           /\ \A j \in DOMAIN outbox : outbox'[j] = outbox[j]
<1> HIDE DEF Items
<1> QED
  OBVIOUS

\* The item a flush is at.
LEMMA CurrentItem ==
    ASSUME OutboxTypeOK, BatchesInHand, NEW f \in Flushes, flush[f].phase \notin {"idle", "fetching"}
    PROVE  /\ flush[f].batch \in Seq(Copies) /\ flush[f].batch # <<>>
           /\ Len(flush[f].batch) \in Nat \ {0} /\ 1 \in DOMAIN flush[f].batch
           /\ Current(f) \in Copies /\ Current(f).id \in DOMAIN outbox
           /\ Current(f).attempts \in 0..(MaxAttempts - 1)
           /\ outbox[Current(f).id] \in Items
<1>1. flush[f].batch \in Seq(Copies) /\ flush[f].batch # <<>> /\ outbox \in Seq(Items)
  BY ShapeOfOutbox DEF BatchesInHand, FlushStates
<1>2. Len(flush[f].batch) \in Nat \ {0} /\ 1 \in DOMAIN flush[f].batch
  <2> HIDE DEF Copies
  <2> QED
    BY <1>1, EmptySeq, LenProperties
<1>3. Current(f) \in Copies
  <2> HIDE DEF Copies
  <2> QED
    BY <1>1, <1>2 DEF Current
<1>4. Current(f).id \in DOMAIN outbox
  BY <1>2, ShapeOfOutbox DEF Current
<1> QED
  BY <1>1, <1>2, <1>3, <1>4 DEF Copies

\* The rest of the batch.
LEMMA Advanced ==
    ASSUME OutboxTypeOK, BatchesInHand, NEW f \in Flushes, flush[f].phase \notin {"idle", "fetching"},
           Advance(f)
    PROVE  /\ flush' \in [Flushes -> FlushStates]
           /\ \A g \in Flushes \ {f} : flush'[g] = flush[g]
           /\ flush'[f].phase \in {"idle", "sending"}
           /\ flush'[f].phase = "idle" <=> flush'[f].batch = <<>>
           /\ \A n \in DOMAIN flush'[f].batch :
                /\ n \in Nat \ {0}
                /\ n + 1 \in DOMAIN flush[f].batch /\ flush'[f].batch[n] = flush[f].batch[n + 1]
           /\ BatchesInHand'
<1> DEFINE b == flush[f].batch
<1>1. b \in Seq(Copies) /\ Len(b) \in Nat \ {0} /\ flush \in [Flushes -> FlushStates] /\ b # <<>>
  BY CurrentItem, ShapeOfOutbox
<1>2. \A g \in Flushes \ {f} : flush'[g] = flush[g]
  BY <1>1 DEF Advance
<1>3. flush'[f] = IF Len(b) = 1 THEN IdleFlush ELSE [phase |-> "sending", batch |-> Tail(b)]
  BY <1>1 DEF Advance
<1>4. CASE Len(b) = 1
  <2>1. flush'[f] = IdleFlush
    BY <1>3, <1>4
  <2>2. IdleFlush \in FlushStates
    BY DEF IdleFlush, FlushStates
  <2>3. flush' \in [Flushes -> FlushStates]
    BY <1>1, <2>1, <2>2, <1>4 DEF Advance
  <2> QED
    BY <1>2, <2>1, <2>3 DEF IdleFlush, BatchesInHand
<1>5. CASE Len(b) # 1
  <2>1. Tail(b) \in Seq(Copies) /\ Tail(b) # <<>> /\ Len(Tail(b)) = Len(b) - 1
    <3> HIDE DEF Copies, b
    <3>1. Tail(b) \in Seq(Copies) /\ Len(Tail(b)) = Len(b) - 1
      BY <1>1
    <3>2. Len(Tail(b)) # 0
      BY <1>1, <1>5, <3>1
    <3> QED
      BY <3>1, <3>2, EmptySeq
  <2>2. \A n \in DOMAIN Tail(b) : n \in Nat \ {0} /\ n + 1 \in DOMAIN b /\ Tail(b)[n] = b[n + 1]
    <3> HIDE DEF Copies, b
    <3> QED
      BY <1>1, <2>1
  <2>3. flush'[f] = [phase |-> "sending", batch |-> Tail(b)]
    BY <1>3, <1>5
  <2>4. flush' \in [Flushes -> FlushStates]
    <3>1. [phase |-> "sending", batch |-> Tail(b)] \in FlushStates
      BY <2>1 DEF FlushStates
    <3> QED
      BY <1>1, <1>5, <3>1 DEF Advance
  <2> QED
    BY <1>2, <2>1, <2>2, <2>3, <2>4 DEF BatchesInHand
<1> QED
  BY <1>4, <1>5

LEMMA PhaseChanged ==
    ASSUME flush \in [Flushes -> FlushStates], NEW f \in Flushes,
           NEW ph \in {"idle", "fetching", "sending", "posted", "notifying", "erring"},
           flush' = [flush EXCEPT ![f].phase = ph]
    PROVE  /\ flush' \in [Flushes -> FlushStates]
           /\ flush'[f].phase = ph /\ flush'[f].batch = flush[f].batch
           /\ \A g \in Flushes \ {f} : flush'[g] = flush[g]
<1>1. flush[f] \in FlushStates
  OBVIOUS
<1>2. /\ [flush[f] EXCEPT !.phase = ph] \in FlushStates
      /\ [flush[f] EXCEPT !.phase = ph].phase = ph
      /\ [flush[f] EXCEPT !.phase = ph].batch = flush[f].batch
  BY <1>1 DEF FlushStates
<1>3. flush' = [flush EXCEPT ![f] = [flush[f] EXCEPT !.phase = ph]]
  OBVIOUS
<1> HIDE DEF FlushStates
<1> QED
  BY <1>2, <1>3

----
(* The steps of the outbox keep what holds whatever overlaps. *)

LEMMA OutboxInitInv == OutboxInit => OutboxInv
<1> SUFFICES ASSUME OutboxInit PROVE OutboxInv
  OBVIOUS
<1>1. outbox = <<>> /\ DOMAIN outbox = {} /\ outbox \in Seq(Items)
  BY DEF OutboxInit
<1>2. flush \in [Flushes -> FlushStates] /\ \A f \in Flushes : flush[f].phase = "idle" /\ flush[f].batch = <<>>
  BY DEF OutboxInit, IdleFlush, FlushStates
<1>3. OutboxTypeOK
  BY <1>1, <1>2, ShapeOfOutbox DEF OutboxInit
<1>4. PostedIsReceived /\ BatchesInHand
  BY <1>2 DEF PostedIsReceived, BatchesInHand
<1>5. ClaimsAreTrue /\ GivenUpAtLimit
  BY <1>1 DEF ClaimsAreTrue, GivenUpAtLimit, OutboxInit
<1> QED
  BY <1>3, <1>4, <1>5 DEF OutboxInv

\* Steps that change neither items nor what is known of their delivery: what is
\* left is the shape of the flushes.
LEMMA FlushesOnly ==
    ASSUME OutboxInv, UNCHANGED <<outbox, notified, peer, received>>,
           enabled' \in BOOLEAN, disturbed' \in BOOLEAN,
           flush' \in [Flushes -> FlushStates],
           \A f \in Flushes : \A n \in DOMAIN flush'[f].batch : flush'[f].batch[n].id \in DOMAIN outbox,
           BatchesInHand', PostedIsReceived'
    PROVE  OutboxInv'
<1>1. OutboxTypeOK'
  BY ShapeOfOutbox DEF OutboxInv, OutboxTypeOK, Items, Copies, FlushStates
<1> QED
  BY <1>1 DEF OutboxInv, ClaimsAreTrue, GivenUpAtLimit

\* What was delivered, and what was notified, stays so.
LEMMA ClaimsKept ==
    ASSUME OutboxTypeOK, ClaimsAreTrue, DOMAIN outbox \subseteq DOMAIN outbox',
           \A i \in DOMAIN outbox : outbox'[i].event = outbox[i].event,
           received \subseteq received',
           \A i \in DOMAIN outbox' : outbox'[i].status = "delivered" => i \in received',
           \A e \in notified' : e \in notified \/ \E i \in received' : outbox'[i].event = e
    PROVE  ClaimsAreTrue'
<1>1. \A e \in notified : \E i \in received' : outbox'[i].event = e
  BY ShapeOfOutbox DEF ClaimsAreTrue
<1> QED
  BY <1>1 DEF ClaimsAreTrue

LEMMA RequeueKeeps ==
    ASSUME OutboxInv, NEW f \in Flushes, Requeue(f)
    PROVE  OutboxInv'
<1> DEFINE new(i) == IF outbox[i].status = "skipped" THEN [outbox[i] EXCEPT !.status = "pending"]
                     ELSE outbox[i]
<1>1. /\ outbox \in Seq(Items) /\ Len(outbox) \in Nat /\ DOMAIN outbox = 1..Len(outbox)
      /\ flush \in [Flushes -> FlushStates]
  BY ShapeOfOutbox, LenProperties DEF OutboxInv
<1>2. \A i \in DOMAIN outbox :
        /\ new(i) \in Items /\ new(i).event = outbox[i].event /\ new(i).attempts = outbox[i].attempts
        /\ new(i).status = IF outbox[i].status = "skipped" THEN "pending" ELSE outbox[i].status
  <2> SUFFICES ASSUME NEW i \in DOMAIN outbox
               PROVE  /\ new(i) \in Items /\ new(i).event = outbox[i].event
                      /\ new(i).attempts = outbox[i].attempts
                      /\ new(i).status = IF outbox[i].status = "skipped" THEN "pending" ELSE outbox[i].status
    OBVIOUS
  <2>1. outbox[i] \in Items
    BY <1>1
  <2> QED
    BY <2>1 DEF Items, ItemStatuses
<1>3. /\ outbox' = [i \in DOMAIN outbox |-> new(i)] /\ flush' = [flush EXCEPT ![f].phase = "fetching"]
      /\ UNCHANGED <<enabled, notified, peer, received>> /\ flush[f].phase = "idle"
      /\ disturbed' = (disturbed \/ \E g \in Flushes : Running(g))
  BY DEF Requeue, Running
<1> HIDE DEF new
<1>4. outbox' \in Seq(Items) /\ DOMAIN outbox' = DOMAIN outbox /\ \A i \in DOMAIN outbox : outbox'[i] = new(i)
  BY <1>1, <1>2, <1>3
<1>5. /\ flush' \in [Flushes -> FlushStates] /\ flush'[f].phase = "fetching"
      /\ flush'[f].batch = flush[f].batch /\ \A g \in Flushes \ {f} : flush'[g] = flush[g]
  BY <1>1, <1>3, PhaseChanged
<1>6. OutboxTypeOK'
  <2>1. disturbed' \in BOOLEAN
    BY <1>3, ShapeOfOutbox DEF OutboxInv
  <2>2. \A g \in Flushes : flush'[g].batch = flush[g].batch
    BY <1>5
  <2>3. \A g \in Flushes : \A n \in DOMAIN flush'[g].batch : flush'[g].batch[n].id \in DOMAIN outbox'
    BY <1>4, <2>2, ShapeOfOutbox DEF OutboxInv
  <2> QED
    BY <1>3, <1>4, <1>5, <2>1, <2>3, ShapeOfOutbox DEF OutboxInv, OutboxTypeOK, Items, Copies, FlushStates
<1>7. BatchesInHand' /\ PostedIsReceived'
  BY <1>3, <1>5 DEF OutboxInv, BatchesInHand, PostedIsReceived, Current
<1>8. ClaimsAreTrue'
  BY <1>2, <1>3, <1>4, ClaimsKept DEF OutboxInv, ClaimsAreTrue
<1>9. GivenUpAtLimit'
  BY <1>2, <1>4 DEF OutboxInv, GivenUpAtLimit
<1> QED
  BY <1>6, <1>7, <1>8, <1>9 DEF OutboxInv

LEMMA FetchKeeps ==
    ASSUME OutboxInv, NEW f \in Flushes, Fetch(f)
    PROVE  OutboxInv'
<1>0. PICK n \in 0..Batch : \E ids \in [1..n -> PendingItems] :
        flush' = [flush EXCEPT ![f] =
              IF n = 0 THEN IdleFlush
              ELSE [phase |-> "sending",
                    batch |-> [k \in 1..n |-> [id |-> ids[k],
                                               attempts |-> outbox[ids[k]].attempts]]]]
  BY DEF Fetch
<1>1. PICK ids \in [1..n -> PendingItems] :
        flush' = [flush EXCEPT ![f] =
              IF n = 0 THEN IdleFlush
              ELSE [phase |-> "sending",
                    batch |-> [k \in 1..n |-> [id |-> ids[k],
                                               attempts |-> outbox[ids[k]].attempts]]]]
  BY <1>0
<1>2. UNCHANGED <<outbox, enabled, notified, peer, received, disturbed>>
  BY DEF Fetch
<1> DEFINE copies == [k \in 1..n |-> [id |-> ids[k], attempts |-> outbox[ids[k]].attempts]]
           new == IF n = 0 THEN IdleFlush ELSE [phase |-> "sending", batch |-> copies]
<1>3. /\ outbox \in Seq(Items) /\ Len(outbox) \in Nat /\ DOMAIN outbox = 1..Len(outbox)
      /\ flush \in [Flushes -> FlushStates] /\ enabled \in BOOLEAN /\ disturbed \in BOOLEAN
      /\ \A g \in Flushes : \A k \in DOMAIN flush[g].batch : flush[g].batch[k].id \in DOMAIN outbox
  BY ShapeOfOutbox, LenProperties DEF OutboxInv
<1>4. \A k \in 1..n : /\ ids[k] \in DOMAIN outbox
                      /\ [id |-> ids[k], attempts |-> outbox[ids[k]].attempts] \in Copies
  <2> SUFFICES ASSUME NEW k \in 1..n
               PROVE  /\ ids[k] \in DOMAIN outbox
                      /\ [id |-> ids[k], attempts |-> outbox[ids[k]].attempts] \in Copies
    OBVIOUS
  <2>1. ids[k] \in DOMAIN outbox /\ outbox[ids[k]].status = "pending"
    BY DEF PendingItems
  <2>2. outbox[ids[k]] \in Items /\ ids[k] \in Nat \ {0}
    BY <1>3, <2>1
  <2>3. outbox[ids[k]].attempts < MaxAttempts
    BY <2>1 DEF OutboxInv, GivenUpAtLimit
  <2> QED
    BY <2>1, <2>2, <2>3, OutboxAssumption DEF Items, Copies
<1>5. /\ copies \in Seq(Copies) /\ DOMAIN copies = 1..n /\ n \in Nat
      /\ \A k \in 1..n : copies[k].id = ids[k]
  BY <1>4, OutboxAssumption
<1>6. /\ new \in FlushStates
      /\ \A k \in DOMAIN new.batch : new.batch[k].id \in DOMAIN outbox
      /\ new.phase \in {"idle", "sending"} /\ (new.phase = "idle" <=> new.batch = <<>>)
  <2>1. CASE n = 0
    BY <2>1 DEF IdleFlush, FlushStates
  <2>2. CASE n # 0
    <3>1. new = [phase |-> "sending", batch |-> copies]
      BY <2>2
    <3> HIDE DEF new, copies
    <3>2. copies # <<>>
      BY <1>5, <2>2
    <3>3. new.phase = "sending" /\ new.batch = copies
      BY <3>1
    <3>4. new \in FlushStates
      BY <1>5, <3>1 DEF FlushStates
    <3> QED
      BY <1>4, <1>5, <3>2, <3>3, <3>4
  <2> QED
    BY <2>1, <2>2
<1>7. flush' = [flush EXCEPT ![f] = new]
  BY <1>1
<1> HIDE DEF new, copies
<1>8. /\ flush' \in [Flushes -> FlushStates] /\ flush'[f] = new
      /\ \A g \in Flushes \ {f} : flush'[g] = flush[g]
  BY <1>3, <1>6, <1>7
<1>9. \A g \in Flushes : \A k \in DOMAIN flush'[g].batch : flush'[g].batch[k].id \in DOMAIN outbox
  BY <1>3, <1>6, <1>8
<1>10. BatchesInHand' /\ PostedIsReceived'
  BY <1>2, <1>6, <1>8 DEF OutboxInv, BatchesInHand, PostedIsReceived, Current
<1> QED
  BY <1>2, <1>3, <1>8, <1>9, <1>10, FlushesOnly

\* A notice is taken in, or may be: more is received, and SafeOps holds it.
LEMMA TakenIn ==
    ASSUME OutboxTypeOK, NEW i \in DOMAIN outbox, TakeIn(i)
    PROVE  /\ received' = received \cup {i} /\ received' \subseteq DOMAIN outbox
           /\ peer' \in [EventIds -> {"none", "open", "closed"}]
           /\ outbox[i].event \in EventIds /\ peer'[outbox[i].event] = outbox[i].kind
           /\ \A e \in EventIds : e # outbox[i].event => peer'[e] = peer[e]
<1>1. outbox[i] \in Items /\ peer \in [EventIds -> {"none", "open", "closed"}] /\ received \subseteq DOMAIN outbox
  BY ShapeOfOutbox
<1> QED
  BY <1>1 DEF TakeIn, Items

LEMMA PostKeeps ==
    ASSUME OutboxInv, NEW f \in Flushes, Post(f)
    PROVE  OutboxInv'
<1>1. flush[f].phase = "sending" /\ UNCHANGED <<outbox, enabled, notified>> /\ disturbed' \in BOOLEAN
  BY ShapeOfOutbox DEF OutboxInv, Post, PostOk, PostError
<1>2. Current(f).id \in DOMAIN outbox
  BY <1>1, CurrentItem DEF OutboxInv
<1>3. /\ received \subseteq received' /\ received' \subseteq DOMAIN outbox
      /\ peer' \in [EventIds -> {"none", "open", "closed"}]
      /\ flush' = [flush EXCEPT ![f].phase = "posted"] => Current(f).id \in received'
  <2>1. CASE PostOk(f)
    BY <1>2, <2>1, TakenIn DEF PostOk, OutboxInv
  <2>2. CASE PostError(f)
    <3>1. flush' = [flush EXCEPT ![f].phase = "erring"] /\ flush \in [Flushes -> FlushStates]
      BY <2>2, ShapeOfOutbox DEF PostError, OutboxInv
    <3>2. flush'[f].phase = "erring"
      BY <3>1, PhaseChanged
    <3>3. flush' # [flush EXCEPT ![f].phase = "posted"]
      <4> SUFFICES ASSUME flush' = [flush EXCEPT ![f].phase = "posted"] PROVE FALSE
        OBVIOUS
      <4>1. flush'[f].phase = "posted"
        BY <3>1, PhaseChanged
      <4> QED
        BY <3>2, <4>1
    <3>4. CASE TakeIn(Current(f).id)
      BY <1>2, <3>3, <3>4, TakenIn DEF OutboxInv
    <3>5. CASE UNCHANGED <<peer, received>>
      BY <3>3, <3>5, ShapeOfOutbox DEF OutboxInv
    <3> QED
      BY <2>2, <3>4, <3>5 DEF PostError
  <2> QED
    BY <2>1, <2>2 DEF Post
<1>4. PICK ph \in {"posted", "erring"} : flush' = [flush EXCEPT ![f].phase = ph]
  BY DEF Post, PostOk, PostError
<1>5. /\ flush \in [Flushes -> FlushStates] /\ flush' \in [Flushes -> FlushStates]
      /\ flush'[f].phase = ph /\ flush'[f].batch = flush[f].batch
      /\ \A g \in Flushes \ {f} : flush'[g] = flush[g]
  <2>1. flush \in [Flushes -> FlushStates]
    BY ShapeOfOutbox DEF OutboxInv
  <2> QED
    BY <1>4, <2>1, PhaseChanged
<1>6. OutboxTypeOK'
  <2>1. \A g \in Flushes : \A n \in DOMAIN flush'[g].batch : flush'[g].batch[n].id \in DOMAIN outbox
    <3>1. \A g \in Flushes : flush'[g].batch = flush[g].batch
      BY <1>5
    <3> QED
      BY <3>1, ShapeOfOutbox DEF OutboxInv
  <2> QED
    BY <1>1, <1>3, <1>5, <2>1, ShapeOfOutbox DEF OutboxInv, OutboxTypeOK, Items, Copies, FlushStates
<1>7. BatchesInHand'
  BY <1>1, <1>5 DEF OutboxInv, BatchesInHand
<1>8. PostedIsReceived'
  BY <1>3, <1>4, <1>5 DEF OutboxInv, PostedIsReceived, Current
<1>9. ClaimsAreTrue'
  BY <1>1, <1>3, ClaimsKept DEF OutboxInv, ClaimsAreTrue
<1> QED
  BY <1>1, <1>6, <1>7, <1>8, <1>9 DEF OutboxInv, GivenUpAtLimit

\* A flush that only changes its phase, not to one that claims a delivery.
LEMMA PhaseKeeps ==
    ASSUME OutboxInv, NEW f \in Flushes, flush[f].phase \notin {"idle", "fetching"},
           flush' = [flush EXCEPT ![f].phase = "erring"], disturbed' \in BOOLEAN,
           UNCHANGED <<outbox, enabled, notified, peer, received>>
    PROVE  OutboxInv'
<1>1. /\ flush \in [Flushes -> FlushStates] /\ enabled \in BOOLEAN
      /\ \A g \in Flushes : \A n \in DOMAIN flush[g].batch : flush[g].batch[n].id \in DOMAIN outbox
  BY ShapeOfOutbox DEF OutboxInv
<1>2. /\ flush' \in [Flushes -> FlushStates]
      /\ flush'[f].phase = "erring" /\ flush'[f].batch = flush[f].batch
      /\ \A g \in Flushes \ {f} : flush'[g] = flush[g]
  BY <1>1, PhaseChanged
<1>3. BatchesInHand' /\ PostedIsReceived'
  BY <1>2 DEF OutboxInv, BatchesInHand, PostedIsReceived, Current
<1>4. \A g \in Flushes : \A n \in DOMAIN flush'[g].batch : flush'[g].batch[n].id \in DOMAIN outbox
  <2>1. \A g \in Flushes : flush'[g].batch = flush[g].batch
    BY <1>2
  <2> QED
    BY <1>1, <2>1
<1> QED
  BY <1>1, <1>2, <1>3, <1>4, FlushesOnly

LEMMA UpdateErrorKeeps ==
    ASSUME OutboxInv, NEW f \in Flushes, UpdateError(f)
    PROVE  OutboxInv'
  BY PhaseKeeps DEF UpdateError

\* Some flushes end, with nothing in hand.
LEMMA EndedFlushesKeep ==
    ASSUME OutboxInv, flush' \in [Flushes -> FlushStates],
           \A f \in Flushes : flush'[f] \in {flush[f], IdleFlush},
           enabled' \in BOOLEAN, disturbed' \in BOOLEAN,
           UNCHANGED <<outbox, notified, peer, received>>
    PROVE  OutboxInv'
<1>1. BatchesInHand' /\ PostedIsReceived'
  BY DEF OutboxInv, BatchesInHand, PostedIsReceived, Current, IdleFlush
<1>2. \A g \in Flushes : \A n \in DOMAIN flush'[g].batch : flush'[g].batch[n].id \in DOMAIN outbox
  BY ShapeOfOutbox DEF OutboxInv, IdleFlush
<1> QED
  BY <1>1, <1>2, FlushesOnly

LEMMA AbortFlushKeeps ==
    ASSUME OutboxInv, NEW f \in Flushes, AbortFlush(f)
    PROVE  OutboxInv'
<1>1. flush \in [Flushes -> FlushStates] /\ enabled \in BOOLEAN /\ IdleFlush \in FlushStates
  BY ShapeOfOutbox DEF OutboxInv, IdleFlush, FlushStates
<1>2. flush' \in [Flushes -> FlushStates] /\ \A g \in Flushes : flush'[g] \in {flush[g], IdleFlush}
  BY <1>1 DEF AbortFlush
<1> QED
  BY <1>1, <1>2, EndedFlushesKeep DEF AbortFlush

LEMMA RestartFlushesKeeps ==
    ASSUME OutboxInv, RestartFlushes
    PROVE  OutboxInv'
<1>1. IdleFlush \in FlushStates /\ disturbed' \in BOOLEAN
  BY ShapeOfOutbox DEF OutboxInv, IdleFlush, FlushStates, RestartFlushes
<1>2. flush' \in [Flushes -> FlushStates] /\ \A g \in Flushes : flush'[g] \in {flush[g], IdleFlush}
  BY <1>1 DEF RestartFlushes
<1> QED
  BY <1>1, <1>2, EndedFlushesKeep DEF RestartFlushes

\* A row that a flush writes: its event and notice stay, and it keeps to what the
\* outbox may say of an item.
Overwritten(i, status, attempts) ==
    \/ outbox' = [outbox EXCEPT ![i].status = status, ![i].attempts = attempts]
    \/ outbox' = [outbox EXCEPT ![i].attempts = attempts, ![i].status = status]

LEMMA WrittenItem ==
    ASSUME OutboxInv, NEW i \in DOMAIN outbox, NEW status \in ItemStatuses,
           NEW attempts \in 0..MaxAttempts,
           Overwritten(i, status, attempts)
    PROVE  /\ outbox' \in Seq(Items) /\ DOMAIN outbox' = DOMAIN outbox
           /\ outbox'[i].event = outbox[i].event /\ outbox'[i].kind = outbox[i].kind
           /\ outbox'[i].status = status /\ outbox'[i].attempts = attempts
           /\ \A j \in DOMAIN outbox : j # i => outbox'[j] = outbox[j]
<1>1. outbox \in Seq(Items) /\ outbox[i] \in Items
  BY ShapeOfOutbox DEF OutboxInv
<1> DEFINE r == [event |-> outbox[i].event, kind |-> outbox[i].kind, status |-> status,
                 attempts |-> attempts]
<1>2. r \in Items
  BY <1>1 DEF Items
<1>3. /\ outbox[i] = [event |-> outbox[i].event, kind |-> outbox[i].kind,
                      status |-> outbox[i].status, attempts |-> outbox[i].attempts]
  BY <1>1 DEF Items
<1>4. CASE outbox' = [outbox EXCEPT ![i].status = status, ![i].attempts = attempts]
  <2> DEFINE p == [outbox EXCEPT ![i].status = status]
  <2>1. p[i] = [outbox[i] EXCEPT !.status = status] /\ DOMAIN p = DOMAIN outbox
    OBVIOUS
  <2>2. p[i] = [event |-> outbox[i].event, kind |-> outbox[i].kind, status |-> status,
                attempts |-> outbox[i].attempts]
    BY <1>3, <2>1
  <2>3. outbox' = [p EXCEPT ![i] = [p[i] EXCEPT !.attempts = attempts]]
    BY <1>4
  <2> HIDE DEF p
  <2>4. [p[i] EXCEPT !.attempts = attempts] = r
    <3>1. /\ p[i] = [event |-> p[i].event, kind |-> p[i].kind, status |-> p[i].status,
                     attempts |-> p[i].attempts]
          /\ p[i].event = outbox[i].event /\ p[i].kind = outbox[i].kind /\ p[i].status = status
      BY <2>2
    <3> QED
      BY <3>1
  <2>5. outbox' = [outbox EXCEPT ![i] = r]
    BY <2>3, <2>4 DEF p
  <2> QED
    BY <1>1, <1>2, <2>5, ItemReplaced
<1>5. CASE outbox' = [outbox EXCEPT ![i].attempts = attempts, ![i].status = status]
  <2> DEFINE p == [outbox EXCEPT ![i].attempts = attempts]
  <2>1. p[i] = [outbox[i] EXCEPT !.attempts = attempts] /\ DOMAIN p = DOMAIN outbox
    OBVIOUS
  <2>2. p[i] = [event |-> outbox[i].event, kind |-> outbox[i].kind, status |-> outbox[i].status,
                attempts |-> attempts]
    BY <1>3, <2>1
  <2>3. outbox' = [p EXCEPT ![i] = [p[i] EXCEPT !.status = status]]
    BY <1>5
  <2> HIDE DEF p
  <2>4. [p[i] EXCEPT !.status = status] = r
    <3>1. /\ p[i] = [event |-> p[i].event, kind |-> p[i].kind, status |-> p[i].status,
                     attempts |-> p[i].attempts]
          /\ p[i].event = outbox[i].event /\ p[i].kind = outbox[i].kind /\ p[i].attempts = attempts
      BY <2>2
    <3> QED
      BY <3>1
  <2>5. outbox' = [outbox EXCEPT ![i] = r]
    BY <2>3, <2>4 DEF p
  <2> QED
    BY <1>1, <1>2, <2>5, ItemReplaced
<1> QED
  BY <1>4, <1>5 DEF Overwritten

\* The update of the current item, and what the flush is at after it.
LEMMA WritesKeep ==
    ASSUME OutboxInv, NEW i \in DOMAIN outbox, NEW status \in ItemStatuses,
           NEW attempts \in 0..MaxAttempts,
           Overwritten(i, status, attempts),
           status = "delivered" => i \in received,
           status = "failed" => attempts = MaxAttempts,
           status \in {"pending", "skipped"} => attempts < MaxAttempts,
           flush' \in [Flushes -> FlushStates],
           \A f \in Flushes : \A n \in DOMAIN flush'[f].batch : flush'[f].batch[n].id \in DOMAIN outbox,
           BatchesInHand', PostedIsReceived', UNCHANGED <<enabled, notified, peer, received, disturbed>>
    PROVE  OutboxInv'
<1>1. /\ outbox' \in Seq(Items) /\ DOMAIN outbox' = DOMAIN outbox
      /\ outbox'[i].event = outbox[i].event
      /\ outbox'[i].status = status /\ outbox'[i].attempts = attempts
      /\ \A j \in DOMAIN outbox : j # i => outbox'[j] = outbox[j]
  BY WrittenItem
<1>2. OutboxTypeOK'
  BY <1>1, ShapeOfOutbox DEF OutboxInv, OutboxTypeOK, Items, Copies, FlushStates
<1>3. ClaimsAreTrue'
  BY <1>1, ClaimsKept DEF OutboxInv, ClaimsAreTrue
<1>4. GivenUpAtLimit'
  BY <1>1 DEF OutboxInv, GivenUpAtLimit
<1> QED
  BY <1>2, <1>3, <1>4 DEF OutboxInv

LEMMA MarkDeliveredKeeps ==
    ASSUME OutboxInv, NEW f \in Flushes, MarkDelivered(f)
    PROVE  OutboxInv'
<1>1. /\ flush[f].phase = "posted" /\ flush' = [flush EXCEPT ![f].phase = "notifying"]
      /\ UNCHANGED <<enabled, notified, peer, received, disturbed>>
      /\ outbox' = [outbox EXCEPT ![Current(f).id].status = "delivered",
                                  ![Current(f).id].attempts = Current(f).attempts + 1]
  BY DEF MarkDelivered
<1>2. /\ Current(f).id \in DOMAIN outbox /\ Current(f).attempts + 1 \in 0..MaxAttempts
      /\ Current(f).id \in received
  BY <1>1, CurrentItem, OutboxAssumption DEF OutboxInv, PostedIsReceived
<1>3. /\ flush \in [Flushes -> FlushStates] /\ flush' \in [Flushes -> FlushStates]
      /\ flush'[f].phase = "notifying" /\ flush'[f].batch = flush[f].batch
      /\ \A g \in Flushes \ {f} : flush'[g] = flush[g]
  <2>1. flush \in [Flushes -> FlushStates]
    BY ShapeOfOutbox DEF OutboxInv
  <2> QED
    BY <1>1, <2>1, PhaseChanged
<1>4. \A g \in Flushes : \A n \in DOMAIN flush'[g].batch : flush'[g].batch[n].id \in DOMAIN outbox
  <2>1. \A g \in Flushes : flush'[g].batch = flush[g].batch
    BY <1>3
  <2> QED
    BY <2>1, ShapeOfOutbox DEF OutboxInv
<1>5. BatchesInHand' /\ PostedIsReceived'
  BY <1>1, <1>3 DEF OutboxInv, BatchesInHand, PostedIsReceived, Current
<1>6. "delivered" \in ItemStatuses /\ Overwritten(Current(f).id, "delivered", Current(f).attempts + 1)
  BY <1>1 DEF ItemStatuses, Overwritten
<1> QED
  BY <1>1, <1>2, <1>3, <1>4, <1>5, <1>6, WritesKeep

LEMMA MarkErrorKeeps ==
    ASSUME OutboxInv, NEW f \in Flushes, MarkError(f)
    PROVE  OutboxInv'
<1> DEFINE n == Current(f).attempts + 1
           status == IF GivenUp(n) THEN "failed" ELSE "pending"
<1>1. /\ flush[f].phase = "erring" /\ Advance(f)
      /\ UNCHANGED <<enabled, notified, peer, received, disturbed>>
      /\ outbox' = [outbox EXCEPT ![Current(f).id].attempts = n, ![Current(f).id].status = status]
  BY DEF MarkError
<1>2. /\ Current(f).id \in DOMAIN outbox /\ n \in 0..MaxAttempts
      /\ status \in ItemStatuses /\ status # "delivered" /\ status # "skipped"
      /\ status = "failed" => n = MaxAttempts
      /\ status = "pending" => n < MaxAttempts
  BY <1>1, CurrentItem, OutboxAssumption DEF OutboxInv, ItemStatuses, GivenUp
<1> HIDE DEF n, status
<1>3. /\ flush' \in [Flushes -> FlushStates] /\ BatchesInHand'
      /\ flush'[f].phase \in {"idle", "sending"}
      /\ \A g \in Flushes \ {f} : flush'[g] = flush[g]
      /\ \A k \in DOMAIN flush'[f].batch :
           k + 1 \in DOMAIN flush[f].batch /\ flush'[f].batch[k] = flush[f].batch[k + 1]
  BY <1>1, Advanced DEF OutboxInv
<1>4. \A g \in Flushes : \A k \in DOMAIN flush'[g].batch : flush'[g].batch[k].id \in DOMAIN outbox
  BY <1>3, ShapeOfOutbox DEF OutboxInv
<1>5. PostedIsReceived'
  BY <1>1, <1>3 DEF OutboxInv, PostedIsReceived, Current
<1>6. Overwritten(Current(f).id, status, n)
  BY <1>1 DEF Overwritten
<1> QED
  BY <1>1, <1>2, <1>3, <1>4, <1>5, <1>6, WritesKeep

LEMMA MarkNotifiedKeeps ==
    ASSUME OutboxInv, NEW f \in Flushes, MarkNotified(f)
    PROVE  OutboxInv'
<1>1. /\ flush[f].phase = "notifying" /\ Advance(f)
      /\ UNCHANGED <<outbox, enabled, peer, received, disturbed>>
      /\ notified' = notified \cup {outbox[Current(f).id].event}
  BY DEF MarkNotified
<1>2. /\ Current(f).id \in received /\ outbox[Current(f).id] \in Items
  BY <1>1, CurrentItem DEF OutboxInv, PostedIsReceived
<1>3. /\ flush' \in [Flushes -> FlushStates] /\ BatchesInHand'
      /\ flush'[f].phase \in {"idle", "sending"}
      /\ \A g \in Flushes \ {f} : flush'[g] = flush[g]
      /\ \A k \in DOMAIN flush'[f].batch :
           k + 1 \in DOMAIN flush[f].batch /\ flush'[f].batch[k] = flush[f].batch[k + 1]
  BY <1>1, Advanced DEF OutboxInv
<1>4. \A g \in Flushes : \A k \in DOMAIN flush'[g].batch : flush'[g].batch[k].id \in DOMAIN outbox
  BY <1>3, ShapeOfOutbox DEF OutboxInv
<1>5. PostedIsReceived'
  BY <1>1, <1>3 DEF OutboxInv, PostedIsReceived, Current
<1>6. notified' \subseteq EventIds
  BY <1>1, <1>2, ShapeOfOutbox DEF OutboxInv, Items
<1>7. OutboxTypeOK'
  BY <1>1, <1>3, <1>4, <1>6, ShapeOfOutbox DEF OutboxInv, OutboxTypeOK, Items, Copies, FlushStates
<1>8. ClaimsAreTrue'
  BY <1>1, <1>2 DEF OutboxInv, ClaimsAreTrue
<1> QED
  BY <1>1, <1>3, <1>5, <1>7, <1>8 DEF OutboxInv, GivenUpAtLimit

\* A new item has no attempts and is nobody's yet.
LEMMA EnqueueKeeps ==
    ASSUME OutboxInv, NEW e \in EventIds, NEW status, Enqueue(e, status),
           UNCHANGED <<enabled, flush, notified, peer, received, disturbed>>
    PROVE  OutboxInv'
<1> DEFINE r == [event |-> e, kind |-> IF status = "open" THEN "open" ELSE "closed",
                 status |-> IF enabled THEN "pending" ELSE "skipped", attempts |-> 0]
<1>1. outbox \in Seq(Items) /\ outbox' = Append(outbox, r)
  BY ShapeOfOutbox DEF OutboxInv, Enqueue
<1>2. r \in Items /\ r.status \in {"pending", "skipped"} /\ r.attempts = 0
  BY OutboxAssumption DEF Items, ItemStatuses
<1> HIDE DEF r
<1>3. /\ outbox' \in Seq(Items) /\ DOMAIN outbox' = DOMAIN outbox \cup {Len(outbox) + 1}
      /\ outbox'[Len(outbox) + 1] = r
      /\ \A j \in DOMAIN outbox : outbox'[j] = outbox[j]
  BY <1>1, <1>2, ItemAdded
<1>4. OutboxTypeOK'
  BY <1>3, ShapeOfOutbox DEF OutboxInv, OutboxTypeOK, Items, Copies, FlushStates
<1>5. ClaimsAreTrue'
  BY <1>2, <1>3, ClaimsKept DEF OutboxInv, ClaimsAreTrue
<1>6. GivenUpAtLimit'
  BY <1>2, <1>3, OutboxAssumption DEF OutboxInv, GivenUpAtLimit
<1> QED
  BY <1>4, <1>5, <1>6 DEF OutboxInv, BatchesInHand, PostedIsReceived, Current

LEMMA OutboxStep == OutboxInv /\ [OutboxNext]_outboxVars => OutboxInv'
<1> SUFFICES ASSUME OutboxInv, [OutboxNext]_outboxVars PROVE OutboxInv'
  OBVIOUS
<1>1. CASE UNCHANGED outboxVars
  BY <1>1 DEF outboxVars, OutboxInv, OutboxTypeOK, BatchesInHand, PostedIsReceived, ClaimsAreTrue,
              GivenUpAtLimit, Current
<1>2. ASSUME NEW f \in Flushes, Requeue(f) \/ FlushStep(f) \/ UpdateError(f) \/ AbortFlush(f)
      PROVE  OutboxInv'
  BY <1>2, RequeueKeeps, FetchKeeps, PostKeeps, MarkDeliveredKeeps, MarkNotifiedKeeps, MarkErrorKeeps,
     UpdateErrorKeeps, AbortFlushKeeps DEF FlushStep
<1> QED
  BY <1>1, <1>2, EnqueueKeeps, RestartFlushesKeeps DEF OutboxNext, Submit

----
(* The order of the notices, while nothing overlaps or fails. *)

LEMMA OrderInitInv == OutboxInit => OrderInv
<1> SUFFICES ASSUME OutboxInit PROVE Orderly
  BY DEF OrderInv
<1>1. \A f \in Flushes : flush[f].phase = "idle" /\ flush[f].batch = <<>>
  BY DEF OutboxInit, IdleFlush
<1>2. received = {} /\ DOMAIN outbox = {}
  BY DEF OutboxInit
<1> QED
  BY <1>1, <1>2 DEF Orderly, NothingStuck, OneFlush, Running, FlushSeesAll, OldestReceived,
                    BatchIsNext, NewestHeld

\* What is in the outbox, as arithmetic needs it.
LEMMA ItemNumbers ==
    ASSUME OutboxTypeOK
    PROVE  /\ DOMAIN outbox = 1..Len(outbox) /\ Len(outbox) \in Nat
           /\ received \subseteq 1..Len(outbox) /\ received \subseteq DOMAIN outbox
           /\ \A i \in DOMAIN outbox : outbox[i].status \in ItemStatuses /\ outbox[i].event \in EventIds
  <1>1. outbox \in Seq(Items) /\ received \subseteq DOMAIN outbox
    BY ShapeOfOutbox
  <1>2. DOMAIN outbox = 1..Len(outbox) /\ Len(outbox) \in Nat
    BY <1>1, LenProperties
  <1>3. \A i \in DOMAIN outbox : outbox[i] \in Items
    BY <1>1, <1>2
  <1> QED
    BY <1>1, <1>2, <1>3 DEF Items

\* Notices do not change: what SafeOps holds stays the newest it was sent.
LEMMA SameNotices ==
    ASSUME OutboxTypeOK, NewestHeld, UNCHANGED <<received, peer>>,
           \A i \in DOMAIN outbox : outbox'[i].event = outbox[i].event /\ outbox'[i].kind = outbox[i].kind
    PROVE  NewestHeld'
<1>1. received \subseteq DOMAIN outbox
  BY ItemNumbers
<1> QED
  BY <1>1 DEF NewestHeld

LEMMA RequeueInOrder ==
    ASSUME OutboxInv, Orderly, NEW f \in Flushes, Requeue(f), ~disturbed'
    PROVE  Orderly'
<1>1. /\ flush' = [flush EXCEPT ![f].phase = "fetching"] /\ enabled /\ UNCHANGED <<enabled, received, peer>>
      /\ \A g \in Flushes : ~Running(g)
      /\ outbox' = [i \in DOMAIN outbox |->
                      IF outbox[i].status = "skipped" THEN [outbox[i] EXCEPT !.status = "pending"]
                      ELSE outbox[i]]
  BY DEF Requeue
<1>2. \A g \in Flushes : flush[g].phase = "idle" /\ flush[g].batch = <<>>
  BY <1>1 DEF Running, OutboxInv, BatchesInHand
<1>3. /\ flush'[f].phase = "fetching" /\ flush'[f].batch = flush[f].batch
      /\ \A g \in Flushes \ {f} : flush'[g] = flush[g]
  BY <1>1, PhaseChanged, ShapeOfOutbox DEF OutboxInv
<1>4. \A i \in DOMAIN outbox : outbox[i] \in Items
  BY ShapeOfOutbox DEF OutboxInv
<1>5. /\ DOMAIN outbox' = DOMAIN outbox
      /\ \A i \in DOMAIN outbox :
           /\ outbox'[i].event = outbox[i].event /\ outbox'[i].kind = outbox[i].kind
           /\ outbox'[i].status = IF outbox[i].status = "skipped" THEN "pending" ELSE outbox[i].status
  BY <1>1, <1>4 DEF Items
<1>6. NothingStuck'
  <2>1. \A i \in received : outbox[i].status = "delivered" /\ i \in DOMAIN outbox
    BY <1>2, ItemNumbers DEF Orderly, NothingStuck, OutboxInv
  <2> QED
    BY <1>1, <1>2, <1>3, <1>5, <2>1 DEF Orderly, NothingStuck
<1>7. OneFlush' /\ FlushSeesAll'
  BY <1>1, <1>2, <1>3, <1>5 DEF OneFlush, FlushSeesAll, Running
<1>8. OldestReceived' /\ BatchIsNext'
  BY <1>1, <1>2, <1>3 DEF Orderly, OldestReceived, BatchIsNext
<1>9. NewestHeld'
  BY <1>1, <1>5, SameNotices DEF Orderly, OutboxInv
<1> QED
  BY <1>6, <1>7, <1>8, <1>9 DEF Orderly

LEMMA FetchInOrder ==
    ASSUME OutboxInv, Orderly, NEW f \in Flushes, Fetch(f)
    PROVE  Orderly'
<1>1. /\ flush[f].phase = "fetching"
      /\ UNCHANGED <<outbox, enabled, notified, peer, received, disturbed>>
  BY DEF Fetch
<1>2. PICK n \in 0..Batch : \E ids \in [1..n -> PendingItems] :
         /\ TakesOldest(ids)
         /\ flush' = [flush EXCEPT ![f] =
              IF n = 0 THEN IdleFlush
              ELSE [phase |-> "sending",
                    batch |-> [k \in 1..n |-> [id |-> ids[k],
                                               attempts |-> outbox[ids[k]].attempts]]]]
  BY DEF Fetch
<1>3. PICK ids \in [1..n -> PendingItems] :
         /\ TakesOldest(ids)
         /\ flush' = [flush EXCEPT ![f] =
              IF n = 0 THEN IdleFlush
              ELSE [phase |-> "sending",
                    batch |-> [k \in 1..n |-> [id |-> ids[k],
                                               attempts |-> outbox[ids[k]].attempts]]]]
  BY <1>2
<1> DEFINE copies == [k \in 1..n |-> [id |-> ids[k], attempts |-> outbox[ids[k]].attempts]]
<1>4. /\ \A g \in Flushes \ {f} : flush'[g] = flush[g]
      /\ flush'[f] = IF n = 0 THEN IdleFlush ELSE [phase |-> "sending", batch |-> copies]
      /\ n \in Nat
  BY <1>3, ShapeOfOutbox, OutboxAssumption DEF OutboxInv
<1>5. flush'[f].phase \in {"idle", "sending"} /\ \A k \in DOMAIN flush'[f].batch :
        k \in 1..n /\ flush'[f].batch[k].id = ids[k]
  BY <1>4 DEF IdleFlush
<1> HIDE DEF copies
<1>6. \A g \in Flushes \ {f} : flush[g].phase = "idle" /\ flush[g].batch = <<>>
  BY <1>1 DEF Orderly, OneFlush, Running, OutboxInv, BatchesInHand
<1>7. \A i \in received : outbox[i].status = "delivered"
  BY <1>1, <1>6 DEF Orderly, NothingStuck
<1>8. NothingStuck' /\ OneFlush' /\ FlushSeesAll' /\ OldestReceived' /\ NewestHeld'
  BY <1>1, <1>4, <1>5, <1>6, <1>7
     DEF Orderly, NothingStuck, OneFlush, FlushSeesAll, OldestReceived, NewestHeld, Running
<1>9. \A j \in DOMAIN outbox : j \in received \/ j \in PendingItems
  BY <1>1, ItemNumbers DEF Orderly, NothingStuck, FlushSeesAll, Running, ItemStatuses, OutboxInv,
                           ClaimsAreTrue, PendingItems
<1>10. \A k \in 1..n : ids[k] \in DOMAIN outbox /\ ids[k] \notin received
  BY <1>7 DEF PendingItems
<1>11. /\ \A k, m \in 1..n : m < k => ids[m] < ids[k]
       /\ \A i \in PendingItems : (\E k \in 1..n : ids[k] = i) \/ \A k \in 1..n : ids[k] < i
  BY <1>3 DEF TakesOldest
<1>12. ASSUME NEW k \in 1..n, NEW j \in 1..(ids[k] - 1), j \notin received
       PROVE  \E m \in 1..(k - 1) : ids[m] = j
  <2>1. DOMAIN outbox = 1..Len(outbox) /\ Len(outbox) \in Nat /\ ids[k] \in DOMAIN outbox
    BY <1>10, ItemNumbers DEF OutboxInv
  <2>2. j \in DOMAIN outbox /\ j < ids[k] /\ ids[k] \in Nat /\ j \in Nat
    BY <2>1
  <2>3. j \in PendingItems
    BY <1>9, <1>12, <2>2
  <2>4. PICK m \in 1..n : ids[m] = j
    BY <1>11, <2>2, <2>3
  <2>5. m < k
    BY <1>4, <1>11, <2>2, <2>4
  <2> QED
    BY <1>4, <2>4, <2>5
<1>13. BatchIsNext'
  <2>1. ASSUME NEW g \in Flushes, NEW k \in DOMAIN flush'[g].batch
        PROVE  /\ \A m \in 1..(k - 1) : flush'[g].batch[m].id < flush'[g].batch[k].id
               /\ \A j \in 1..(flush'[g].batch[k].id - 1) :
                     j \in received \/ \E m \in 1..(k - 1) : flush'[g].batch[m].id = j
               /\ flush'[g].batch[k].id \notin received
    <3>1. g = f
      BY <1>4, <1>6
    <3>2. k \in 1..n /\ flush'[f].batch[k].id = ids[k]
      BY <1>5, <3>1
    <3>3. \A m \in 1..(k - 1) : m \in 1..n /\ flush'[f].batch[m].id = ids[m]
      <4>1. n # 0 /\ flush'[f].batch = copies
        BY <1>4, <3>2
      <4> QED
        BY <1>4, <3>2, <4>1 DEF copies
    <3>4. \A m \in 1..(k - 1) : ids[m] < ids[k]
      BY <1>4, <1>11, <3>2
    <3> QED
      BY <1>10, <1>12, <3>1, <3>2, <3>3, <3>4
  <2> QED
    BY <1>1, <2>1 DEF BatchIsNext
<1> QED
  BY <1>8, <1>13 DEF Orderly

\* SafeOps takes in the first item of the batch.
LEMMA PostInOrder ==
    ASSUME OutboxInv, Orderly, NEW f \in Flushes, PostOk(f)
    PROVE  Orderly'
<1> DEFINE c == Current(f).id
<1>1. /\ flush[f].phase = "sending" /\ TakeIn(c) /\ flush' = [flush EXCEPT ![f].phase = "posted"]
      /\ UNCHANGED <<outbox, enabled, notified, disturbed>>
  BY DEF PostOk
<1>2. /\ c \in DOMAIN outbox /\ 1 \in DOMAIN flush[f].batch /\ c = flush[f].batch[1].id
  BY <1>1, CurrentItem DEF OutboxInv, Current
<1>3. /\ received' = received \cup {c}
      /\ outbox[c].event \in EventIds /\ peer'[outbox[c].event] = outbox[c].kind
      /\ \A e \in EventIds : e # outbox[c].event => peer'[e] = peer[e]
  BY <1>1, <1>2, TakenIn DEF OutboxInv
<1>4. /\ flush'[f].phase = "posted" /\ flush'[f].batch = flush[f].batch
      /\ \A g \in Flushes \ {f} : flush'[g] = flush[g]
  BY <1>1, PhaseChanged, ShapeOfOutbox DEF OutboxInv
<1>5. \A g \in Flushes \ {f} : flush[g].phase = "idle" /\ flush[g].batch = <<>>
  BY <1>1 DEF Orderly, OneFlush, Running, OutboxInv, BatchesInHand
<1>6. /\ DOMAIN outbox = 1..Len(outbox) /\ Len(outbox) \in Nat /\ received \subseteq DOMAIN outbox
      /\ \A i \in DOMAIN outbox : outbox[i].event \in EventIds
  BY ItemNumbers DEF OutboxInv
<1>7. c \notin received /\ \A j \in 1..(c - 1) : j \in received
  BY <1>1, <1>2 DEF Orderly, BatchIsNext
<1> HIDE DEF c
<1>8. NothingStuck'
  <2>1. \A i \in received : outbox[i].status = "delivered"
    BY <1>1, <1>5 DEF Orderly, NothingStuck
  <2>2. Current(f)' = Current(f)
    BY <1>4 DEF Current
  <2> QED
    BY <1>1, <1>3, <1>4, <1>5, <2>1, <2>2 DEF Orderly, NothingStuck, c
<1>9. OneFlush' /\ FlushSeesAll'
  BY <1>1, <1>4, <1>5 DEF Orderly, OneFlush, FlushSeesAll, Running
<1>10. OldestReceived'
  <2>1. ASSUME NEW j \in 1..c PROVE j \in received'
    <3>1. c \in Nat /\ (j = c \/ j \in 1..(c - 1))
      BY <1>2, <1>6
    <3> QED
      BY <1>3, <1>7, <3>1
  <2>2. \A i \in received : \A j \in 1..i : j \in received'
    BY <1>3 DEF Orderly, OldestReceived
  <2> QED
    BY <1>3, <2>1, <2>2 DEF OldestReceived
<1>11. BatchIsNext'
  <2>1. \A g \in Flushes : flush'[g].batch = flush[g].batch
    BY <1>4
  <2>2. ASSUME NEW g \in Flushes, NEW n \in DOMAIN flush[g].batch,
               n > 1 \/ flush'[g].phase = "sending"
        PROVE  flush[g].batch[n].id \notin received'
    <3>1. g = f /\ n > 1
      BY <1>4, <1>5, <2>2
    <3>2. flush[f].batch \in Seq(Copies)
      BY <1>1, CurrentItem DEF OutboxInv
    <3>3. n \in Nat /\ 1 \in 1..(n - 1)
      BY <3>1, <3>2
    <3>4. flush[f].batch[1].id < flush[f].batch[n].id /\ flush[f].batch[n].id \notin received
      BY <2>2, <3>1, <3>3 DEF Orderly, BatchIsNext
    <3>5. c < flush[f].batch[n].id /\ c \in Nat
      BY <1>2, <1>6, <3>4
    <3>6. c # flush[f].batch[n].id
      BY <3>5
    <3> QED
      BY <1>3, <3>1, <3>4, <3>6
  <2> QED
    BY <1>3, <2>1, <2>2 DEF Orderly, BatchIsNext
<1>12. NewestHeld'
  <2> SUFFICES ASSUME NEW i \in received'
               PROVE  \/ peer'[outbox[i].event] = outbox[i].kind
                      \/ \E j \in received' : j > i /\ outbox[j].event = outbox[i].event
    BY <1>1 DEF NewestHeld
  <2>1. CASE i = c
    BY <1>3, <2>1
  <2>2. CASE i # c /\ outbox[i].event = outbox[c].event
    <3>1. i \in received /\ i \in 1..Len(outbox)
      BY <1>3, <1>6, <2>2
    <3>2. c > i
      BY <1>2, <1>6, <1>7, <2>2, <3>1 DEF Orderly, OldestReceived
    <3> QED
      BY <1>3, <2>2, <3>2
  <2>3. CASE i # c /\ outbox[i].event # outbox[c].event
    BY <1>3, <1>6, <2>3 DEF Orderly, NewestHeld
  <2> QED
    BY <2>1, <2>2, <2>3
<1> QED
  BY <1>8, <1>9, <1>10, <1>11, <1>12 DEF Orderly

LEMMA DeliveredInOrder ==
    ASSUME OutboxInv, Orderly, NEW f \in Flushes, MarkDelivered(f)
    PROVE  Orderly'
<1> DEFINE c == Current(f).id
<1>1. /\ flush[f].phase = "posted" /\ flush' = [flush EXCEPT ![f].phase = "notifying"]
      /\ UNCHANGED <<enabled, notified, peer, received, disturbed>>
      /\ Overwritten(c, "delivered", Current(f).attempts + 1)
  BY DEF MarkDelivered, Overwritten
<1>2. c \in DOMAIN outbox /\ Current(f).attempts + 1 \in 0..MaxAttempts
  BY <1>1, CurrentItem, OutboxAssumption DEF OutboxInv
<1>3. /\ DOMAIN outbox' = DOMAIN outbox
      /\ outbox'[c].event = outbox[c].event /\ outbox'[c].kind = outbox[c].kind
      /\ outbox'[c].status = "delivered"
      /\ \A j \in DOMAIN outbox : j # c => outbox'[j] = outbox[j]
  <2>1. "delivered" \in ItemStatuses
    BY DEF ItemStatuses
  <2> HIDE DEF c
  <2> QED
    BY <1>1, <1>2, <2>1, WrittenItem
<1>4. /\ flush'[f].phase = "notifying" /\ flush'[f].batch = flush[f].batch
      /\ \A g \in Flushes \ {f} : flush'[g] = flush[g]
  BY <1>1, PhaseChanged, ShapeOfOutbox DEF OutboxInv
<1>5. \A g \in Flushes \ {f} : flush[g].phase = "idle" /\ flush[g].batch = <<>>
  BY <1>1 DEF Orderly, OneFlush, Running, OutboxInv, BatchesInHand
<1>6. NothingStuck'
  <2>1. \A i \in received : i \in DOMAIN outbox /\ (outbox[i].status = "delivered" \/ i = c)
    BY <1>5, ItemNumbers DEF Orderly, NothingStuck, OutboxInv
  <2> HIDE DEF c
  <2> QED
    BY <1>1, <1>3, <1>4, <1>5, <2>1 DEF Orderly, NothingStuck
<1> HIDE DEF c
<1>7. OneFlush' /\ FlushSeesAll'
  <2>1. \A i \in DOMAIN outbox : outbox'[i].status # "skipped"
    BY <1>1, <1>3 DEF Orderly, FlushSeesAll, Running
  <2> QED
    BY <1>1, <1>3, <1>4, <1>5, <2>1 DEF Orderly, OneFlush, FlushSeesAll, Running
<1>8. OldestReceived' /\ BatchIsNext'
  <2>1. \A g \in Flushes : flush'[g].batch = flush[g].batch /\ (flush'[g].phase = "sending" => flush[g].phase = "sending")
    BY <1>4
  <2> QED
    BY <1>1, <2>1 DEF Orderly, OldestReceived, BatchIsNext
<1>9. NewestHeld'
  <2>1. \A i \in DOMAIN outbox : outbox'[i].event = outbox[i].event /\ outbox'[i].kind = outbox[i].kind
    BY <1>3
  <2> QED
    BY <1>1, <2>1, SameNotices DEF Orderly, OutboxInv
<1> QED
  BY <1>6, <1>7, <1>8, <1>9 DEF Orderly

LEMMA NotifiedInOrder ==
    ASSUME OutboxInv, Orderly, NEW f \in Flushes, MarkNotified(f)
    PROVE  Orderly'
<1>1. /\ flush[f].phase = "notifying" /\ Advance(f)
      /\ UNCHANGED <<outbox, enabled, peer, received, disturbed>>
  BY DEF MarkNotified
<1>2. /\ flush'[f].phase \in {"idle", "sending"}
      /\ \A g \in Flushes \ {f} : flush'[g] = flush[g]
      /\ \A n \in DOMAIN flush'[f].batch :
           /\ n \in Nat \ {0}
           /\ n + 1 \in DOMAIN flush[f].batch /\ flush'[f].batch[n] = flush[f].batch[n + 1]
      /\ flush'[f].batch \in Seq(Copies)
  <2>1. flush' \in [Flushes -> FlushStates]
    BY <1>1, Advanced DEF OutboxInv
  <2> QED
    BY <1>1, <2>1, Advanced DEF OutboxInv, FlushStates
<1>3. \A g \in Flushes \ {f} : flush[g].phase = "idle" /\ flush[g].batch = <<>>
  BY <1>1 DEF Orderly, OneFlush, Running, OutboxInv, BatchesInHand
<1>4. flush[f].batch[1].id \in received
  BY <1>1 DEF OutboxInv, PostedIsReceived, Current
<1>5. NothingStuck'
  <2>1. \A i \in received : outbox[i].status = "delivered"
    BY <1>1, <1>3 DEF Orderly, NothingStuck
  <2> QED
    BY <1>1, <1>2, <1>3, <2>1 DEF Orderly, NothingStuck
<1>6. OneFlush' /\ FlushSeesAll' /\ OldestReceived' /\ NewestHeld'
  BY <1>1, <1>2, <1>3 DEF Orderly, OneFlush, FlushSeesAll, OldestReceived, NewestHeld, Running
<1>7. BatchIsNext'
  <2>1. ASSUME NEW n \in DOMAIN flush'[f].batch
        PROVE  /\ \A m \in 1..(n - 1) : flush'[f].batch[m].id < flush'[f].batch[n].id
               /\ \A j \in 1..(flush'[f].batch[n].id - 1) :
                     j \in received \/ \E m \in 1..(n - 1) : flush'[f].batch[m].id = j
               /\ flush'[f].batch[n].id \notin received
    <3>1. n \in Nat \ {0} /\ n + 1 \in DOMAIN flush[f].batch /\ flush'[f].batch[n] = flush[f].batch[n + 1]
      BY <1>2
    <3>2. \A m \in 1..(n - 1) : m \in DOMAIN flush'[f].batch /\ m + 1 \in 1..(n + 1 - 1)
      BY <1>2, <3>1
    <3>3. \A m \in 1..(n - 1) : flush'[f].batch[m] = flush[f].batch[m + 1]
      BY <1>2, <3>2
    <3>4. /\ \A m \in 1..(n + 1 - 1) : flush[f].batch[m].id < flush[f].batch[n + 1].id
          /\ \A j \in 1..(flush[f].batch[n + 1].id - 1) :
               j \in received \/ \E m \in 1..(n + 1 - 1) : flush[f].batch[m].id = j
          /\ flush[f].batch[n + 1].id \notin received
      BY <3>1 DEF Orderly, BatchIsNext
    <3>5. ASSUME NEW j \in 1..(flush[f].batch[n + 1].id - 1), j \notin received
          PROVE  \E m \in 1..(n - 1) : flush'[f].batch[m].id = j
      <4>1. PICK m \in 1..(n + 1 - 1) : flush[f].batch[m].id = j
        BY <3>4, <3>5
      <4>2. m # 1 /\ m - 1 \in 1..(n - 1) /\ (m - 1) + 1 = m
        BY <1>4, <3>1, <3>5, <4>1
      <4> QED
        BY <3>3, <4>1, <4>2
    <3> QED
      BY <3>1, <3>2, <3>3, <3>4, <3>5
  <2>2. \A g \in Flushes : g # f => DOMAIN flush'[g].batch = {}
    BY <1>2, <1>3
  <2>3. \A g \in Flushes : \A n \in DOMAIN flush'[g].batch : g = f
    BY <2>2
  <2>4. received' = received
    BY <1>1
  <2> SUFFICES ASSUME NEW g \in Flushes, NEW n \in DOMAIN flush'[g].batch
               PROVE  /\ \A m \in 1..(n - 1) : flush'[g].batch[m].id < flush'[g].batch[n].id
                      /\ \A j \in 1..(flush'[g].batch[n].id - 1) :
                           j \in received' \/ \E m \in 1..(n - 1) : flush'[g].batch[m].id = j
                      /\ flush'[g].batch[n].id \notin received'
    BY DEF BatchIsNext
  <2> QED
    BY <2>1, <2>3, <2>4
<1> QED
  BY <1>5, <1>6, <1>7 DEF Orderly

LEMMA EnqueueInOrder ==
    ASSUME OutboxInv, Orderly, NEW e \in EventIds, NEW status, Enqueue(e, status),
           UNCHANGED <<enabled, flush, notified, peer, received, disturbed>>
    PROVE  Orderly'
<1> DEFINE r == [event |-> e, kind |-> IF status = "open" THEN "open" ELSE "closed",
                 status |-> IF enabled THEN "pending" ELSE "skipped", attempts |-> 0]
<1>1. outbox \in Seq(Items) /\ outbox' = Append(outbox, r)
  BY ShapeOfOutbox DEF OutboxInv, Enqueue
<1>2. r \in Items /\ r.status = IF enabled THEN "pending" ELSE "skipped"
  BY OutboxAssumption DEF Items, ItemStatuses
<1> HIDE DEF r
<1>3. /\ DOMAIN outbox' = DOMAIN outbox \cup {Len(outbox) + 1}
      /\ outbox'[Len(outbox) + 1] = r
      /\ \A j \in DOMAIN outbox : outbox'[j] = outbox[j]
  BY <1>1, <1>2, ItemAdded
<1>4. received \subseteq DOMAIN outbox
  BY ItemNumbers DEF OutboxInv
<1>5. NothingStuck' /\ FlushSeesAll' /\ NewestHeld'
  BY <1>2, <1>3, <1>4 DEF Orderly, NothingStuck, FlushSeesAll, NewestHeld, Running, Current
<1> QED
  BY <1>5 DEF Orderly, OneFlush, OldestReceived, BatchIsNext, Running

LEMMA RestartInOrder ==
    ASSUME OutboxInv, Orderly, RestartFlushes, ~disturbed'
    PROVE  Orderly'
<1>1. /\ UNCHANGED <<outbox, received, peer>> /\ \A f \in Flushes : flush'[f] = IdleFlush
      /\ \A f \in Flushes : flush[f].phase = "idle"
  BY DEF RestartFlushes, Running
<1>2. \A f \in Flushes : flush'[f].phase = "idle" /\ flush'[f].batch = <<>>
  BY <1>1 DEF IdleFlush
<1> QED
  BY <1>1, <1>2 DEF Orderly, NothingStuck, OneFlush, FlushSeesAll, OldestReceived, BatchIsNext,
                    NewestHeld, Running

\* A flush step that leaves no trace of an overlap or a failure.
LEMMA FlushInOrder ==
    ASSUME OutboxInv, OrderInv, NEW f \in Flushes,
           Requeue(f) \/ FlushStep(f) \/ UpdateError(f) \/ AbortFlush(f)
    PROVE  OrderInv'
<1> SUFFICES ASSUME ~disturbed' PROVE Orderly'
  BY DEF OrderInv
<1>1. ~disturbed /\ ~UpdateError(f) /\ ~AbortFlush(f) /\ ~PostError(f)
  <2>1. ~UpdateError(f) /\ ~AbortFlush(f) /\ ~PostError(f)
    BY DEF UpdateError, AbortFlush, PostError
  <2>2. CASE Requeue(f)
    BY <2>1, <2>2 DEF Requeue
  <2>3. CASE FlushStep(f)
    BY <2>1, <2>3 DEF FlushStep, Fetch, Post, PostOk, MarkDelivered, MarkNotified, MarkError
  <2> QED
    BY <2>1, <2>2, <2>3
<1>2. Orderly
  BY <1>1 DEF OrderInv
<1>3. ~MarkError(f)
  BY <1>2 DEF Orderly, NothingStuck, MarkError
<1> QED
  BY <1>1, <1>2, <1>3, RequeueInOrder, FetchInOrder, PostInOrder, DeliveredInOrder, NotifiedInOrder
     DEF FlushStep, Post

LEMMA OrderStep == OutboxInv /\ OrderInv /\ [OutboxNext]_outboxVars => OrderInv'
<1> SUFFICES ASSUME OutboxInv, OrderInv, [OutboxNext]_outboxVars PROVE OrderInv'
  OBVIOUS
<1>1. CASE UNCHANGED outboxVars
  BY <1>1 DEF outboxVars, OrderInv, Orderly, NothingStuck, OneFlush, FlushSeesAll, OldestReceived,
              BatchIsNext, NewestHeld, Running, Current
<1>2. CASE RestartFlushes
  BY <1>2, RestartInOrder DEF OrderInv, RestartFlushes
<1>3. ASSUME NEW e \in EventIds, NEW status, Submit(e, status)
      PROVE  OrderInv'
  BY <1>3, EnqueueInOrder DEF OrderInv, Submit
<1> QED
  BY <1>1, <1>2, <1>3, FlushInOrder DEF OutboxNext

----
(* The scans and the operator. *)

\* What a step does to the outbox, seen from the events: the notices stay.
NoticesStay ==
    /\ DOMAIN outbox' = DOMAIN outbox
    /\ \A i \in DOMAIN outbox : outbox'[i].event = outbox[i].event /\ outbox'[i].kind = outbox[i].kind

LEMMA FlushKeepsNotices ==
    ASSUME OutboxInv, NEW f \in Flushes,
           Requeue(f) \/ FlushStep(f) \/ UpdateError(f) \/ AbortFlush(f)
    PROVE  NoticesStay
<1>1. CASE UNCHANGED outbox
  BY <1>1 DEF NoticesStay
<1>2. CASE Requeue(f)
  <2> DEFINE new(i) == IF outbox[i].status = "skipped" THEN [outbox[i] EXCEPT !.status = "pending"]
                       ELSE outbox[i]
  <2>1. outbox' = [i \in DOMAIN outbox |-> new(i)]
    BY <1>2 DEF Requeue
  <2>2. ASSUME NEW i \in DOMAIN outbox
        PROVE  new(i).event = outbox[i].event /\ new(i).kind = outbox[i].kind
    <3>1. outbox[i] \in Items
      BY ShapeOfOutbox DEF OutboxInv
    <3> QED
      BY <3>1 DEF Items
  <2> HIDE DEF new
  <2> QED
    BY <2>1, <2>2 DEF NoticesStay
<1>3. CASE MarkDelivered(f)
  <2>1. Overwritten(Current(f).id, "delivered", Current(f).attempts + 1) /\ flush[f].phase = "posted"
    BY <1>3 DEF MarkDelivered, Overwritten
  <2>2. Current(f).id \in DOMAIN outbox /\ Current(f).attempts + 1 \in 0..MaxAttempts
    BY <2>1, CurrentItem, OutboxAssumption DEF OutboxInv
  <2>3. "delivered" \in ItemStatuses
    BY DEF ItemStatuses
  <2> QED
    BY <2>1, <2>2, <2>3, WrittenItem DEF NoticesStay
<1>4. CASE MarkError(f)
  <2> DEFINE n == Current(f).attempts + 1
             st == IF GivenUp(n) THEN "failed" ELSE "pending"
  <2>1. Overwritten(Current(f).id, st, n) /\ flush[f].phase = "erring"
    BY <1>4 DEF MarkError, Overwritten
  <2>2. Current(f).id \in DOMAIN outbox /\ n \in 0..MaxAttempts
    BY <2>1, CurrentItem, OutboxAssumption DEF OutboxInv
  <2>3. st \in ItemStatuses
    BY DEF ItemStatuses
  <2> HIDE DEF n, st
  <2> QED
    BY <2>1, <2>2, <2>3, WrittenItem DEF NoticesStay
<1> QED
  BY <1>1, <1>2, <1>3, <1>4
     DEF FlushStep, Fetch, Post, PostOk, PostError, MarkNotified, UpdateError, AbortFlush

LEMMA EnqueueAdds ==
    ASSUME OutboxInv, NEW e \in EventIds, NEW status, Enqueue(e, status)
    PROVE  /\ DOMAIN outbox' = DOMAIN outbox \cup {Len(outbox) + 1}
           /\ Len(outbox) \in Nat /\ DOMAIN outbox = 1..Len(outbox)
           /\ outbox'[Len(outbox) + 1].event = e
           /\ outbox'[Len(outbox) + 1].kind = IF status = "open" THEN "open" ELSE "closed"
           /\ \A i \in DOMAIN outbox : outbox'[i] = outbox[i]
<1> DEFINE r == [event |-> e, kind |-> IF status = "open" THEN "open" ELSE "closed",
                 status |-> IF enabled THEN "pending" ELSE "skipped", attempts |-> 0]
<1>1. outbox \in Seq(Items) /\ outbox' = Append(outbox, r)
  BY ShapeOfOutbox DEF OutboxInv, Enqueue
<1>2. r \in Items /\ r.event = e /\ r.kind = IF status = "open" THEN "open" ELSE "closed"
  BY OutboxAssumption DEF Items, ItemStatuses
<1> HIDE DEF r
<1> QED
  BY <1>1, <1>2, ItemAdded

EventStates == [status : {"open", "acknowledged", "closed"}, fresh : BOOLEAN]

ScanStates == [phase : {"idle", "creating", "announcing", "closing", "withdrawing"},
               event : Nat, todo : SUBSET EventIds]

\* Scans that hold events there are.
ScansHoldEvents ==
    \A s \in Scans : /\ scan[s].todo \subseteq DOMAIN events
                     /\ scan[s].phase \in {"announcing", "withdrawing"} => scan[s].event \in DOMAIN events

LEMMA ShapeOfAnomaly ==
    AnomalyTypeOK <=>
        /\ anomalous \in BOOLEAN
        /\ events \in Seq(EventStates)
        /\ Len(events) <= MaxEvents
        /\ scan \in [Scans -> ScanStates]
        /\ ScansHoldEvents
        /\ unsaid \subseteq DOMAIN events
        /\ scansMet \in BOOLEAN
        /\ OutboxTypeOK
  BY DEF AnomalyTypeOK, EventStates, ScanStates, ScansHoldEvents

LEMMA EventNumbers ==
    ASSUME AnomalyTypeOK
    PROVE  /\ Len(events) \in Nat /\ DOMAIN events = 1..Len(events) /\ DOMAIN events \subseteq EventIds
           /\ \A e \in DOMAIN events : events[e].status \in {"open", "acknowledged", "closed"}
           /\ LiveEvents \subseteq DOMAIN events
<1>1. events \in Seq(EventStates) /\ Len(events) <= MaxEvents
  BY ShapeOfAnomaly
<1>2. Len(events) \in Nat /\ DOMAIN events = 1..Len(events) /\ \A e \in DOMAIN events : events[e] \in EventStates
  <2> HIDE DEF EventStates
  <2> QED
    BY <1>1, LenProperties
<1> QED
  BY <1>1, <1>2, OutboxAssumption DEF EventStates, LiveEvents, EventIds

\* An event is overwritten.
LEMMA EventReplaced ==
    ASSUME AnomalyTypeOK, NEW e \in DOMAIN events, NEW r \in EventStates,
           events' = [events EXCEPT ![e] = r]
    PROVE  /\ events' \in Seq(EventStates) /\ Len(events') = Len(events)
           /\ DOMAIN events' = DOMAIN events /\ events'[e] = r
           /\ \A d \in DOMAIN events : d # e => events'[d] = events[d]
<1>1. events \in Seq(EventStates)
  BY ShapeOfAnomaly
<1> HIDE DEF EventStates
<1> QED
  BY <1>1

LEMMA StatusChanged ==
    ASSUME AnomalyTypeOK, NEW e \in DOMAIN events, NEW st \in {"open", "acknowledged", "closed"},
           events' = [events EXCEPT ![e].status = st]
    PROVE  /\ events' \in Seq(EventStates) /\ Len(events') = Len(events)
           /\ DOMAIN events' = DOMAIN events
           /\ events'[e].status = st
           /\ \A d \in DOMAIN events : d # e => events'[d] = events[d]
<1>1. events[e] \in EventStates
  BY ShapeOfAnomaly
<1> DEFINE r == [events[e] EXCEPT !.status = st]
<1>2. r \in EventStates /\ r.status = st
  BY <1>1 DEF EventStates
<1>3. events' = [events EXCEPT ![e] = r]
  OBVIOUS
<1> HIDE DEF r
<1> QED
  BY <1>2, <1>3, EventReplaced

LEMMA Aged ==
    ASSUME AnomalyTypeOK, NEW e \in DOMAIN events, NEW b \in BOOLEAN,
           events' = [events EXCEPT ![e].fresh = b]
    PROVE  /\ events' \in Seq(EventStates) /\ Len(events') = Len(events)
           /\ DOMAIN events' = DOMAIN events
           /\ \A d \in DOMAIN events : events'[d].status = events[d].status
<1>1. events[e] \in EventStates
  BY ShapeOfAnomaly
<1> DEFINE r == [events[e] EXCEPT !.fresh = b]
<1>2. r \in EventStates /\ r.status = events[e].status
  BY <1>1 DEF EventStates
<1>3. events' = [events EXCEPT ![e] = r]
  OBVIOUS
<1> HIDE DEF r
<1> QED
  BY <1>2, <1>3, EventReplaced

LEMMA EventAdded ==
    ASSUME AnomalyTypeOK, events' = Append(events, [status |-> "open", fresh |-> TRUE])
    PROVE  /\ events' \in Seq(EventStates) /\ Len(events') = Len(events) + 1
           /\ DOMAIN events' = DOMAIN events \cup {Len(events) + 1}
           /\ events'[Len(events) + 1].status = "open"
           /\ \A d \in DOMAIN events : events'[d] = events[d]
<1> DEFINE r == [status |-> "open", fresh |-> TRUE]
<1>1. events \in Seq(EventStates) /\ r \in EventStates /\ r.status = "open"
  BY ShapeOfAnomaly DEF EventStates
<1> HIDE DEF EventStates, r
<1> QED
  BY <1>1 DEF r

LEMMA Began ==
    ASSUME AnomalyTypeOK, NEW s \in Scans,
           NEW ph \in {"idle", "creating", "announcing", "closing", "withdrawing"},
           NEW e \in Nat, NEW todo \in SUBSET EventIds, Begin(s, ph, e, todo)
    PROVE  /\ scan' \in [Scans -> ScanStates]
           /\ scan'[s].phase = ph /\ scan'[s].event = e /\ scan'[s].todo = todo
           /\ \A t \in Scans \ {s} : scan'[t] = scan[t]
<1>1. scan \in [Scans -> ScanStates] /\ [phase |-> ph, event |-> e, todo |-> todo] \in ScanStates
  BY ShapeOfAnomaly DEF ScanStates
<1> QED
  BY <1>1 DEF Begin

\* Every step of Anomaly is a step of Outbox, or none.
LEMMA AnomalyIsOutbox == AnomalyTypeOK /\ [Next]_vars => [OutboxNext]_outboxVars
<1> SUFFICES ASSUME AnomalyTypeOK, [Next]_vars PROVE [OutboxNext]_outboxVars
  OBVIOUS
<1>1. ASSUME NEW s \in Scans, Announce(s) \/ Withdraw(s) PROVE OutboxNext
  <2>1. scan[s].event \in EventIds
    BY <1>1, EventNumbers, ShapeOfAnomaly DEF Announce, Withdraw, ScansHoldEvents
  <2>2. Submit(scan[s].event, "open") \/ Submit(scan[s].event, "closed")
    BY <1>1 DEF Announce, Withdraw, Submit
  <2> QED
    BY <2>1, <2>2 DEF OutboxNext
<1>2. ASSUME NEW s \in Scans, ScanStart(s) \/ CreateEvent(s) \/ CloseEvent(s) \/ AbortScan(s)
      PROVE  UNCHANGED outboxVars
  BY <1>2 DEF ScanStart, ScanRefresh, ScanMiss, ScanClear, CreateEvent, CloseEvent, AbortScan
<1>3. ASSUME NEW f \in Flushes, FlushNext(f) PROVE OutboxNext
  BY <1>3 DEF FlushNext, OutboxNext
<1>4. CASE PlantChanges \/ \E e \in DOMAIN events : Ages(e) \/ Acknowledge(e)
  BY <1>4 DEF PlantChanges, Ages, Acknowledge
<1>5. CASE Restart
  BY <1>5 DEF Restart, OutboxNext
<1>6. CASE UNCHANGED vars
  BY <1>6 DEF vars, outboxVars
<1> QED
  BY <1>1, <1>2, <1>3, <1>4, <1>5, <1>6 DEF Next, ScanStep

----
(* Closures are announced, and last. *)

\* Steps that add no notice.
ClosuresCarried ==
    /\ NoticesStay
    /\ unsaid \subseteq unsaid'
    /\ \A e \in DOMAIN events' : events'[e].status = "closed" =>
         \/ e \in DOMAIN events /\ events[e].status = "closed"
         \/ \E s \in Scans : e \in Unwritten(s)'
    /\ \A s \in Scans : \A e \in Unwritten(s) : e \in unsaid' \/ \E t \in Scans : e \in Unwritten(t)'

LEMMA ClosuresKept ==
    ASSUME ClosuresCarried
    PROVE  /\ ClosureIsAnnounced => ClosureIsAnnounced'
           /\ ClosedIsLast => ClosedIsLast'
<1>1. ASSUME ClosureIsAnnounced, NEW e \in DOMAIN events', events'[e].status = "closed"
      PROVE  \/ \E i \in DOMAIN outbox' : outbox'[i].event = e /\ outbox'[i].kind = "closed"
             \/ e \in unsaid'
             \/ \E s \in Scans : e \in Unwritten(s)'
  BY <1>1 DEF ClosuresCarried, ClosureIsAnnounced, NoticesStay
<1>2. ASSUME NEW e PROVE LastNotice(e, "closed") => LastNotice(e, "closed")'
  BY DEF ClosuresCarried, NoticesStay, LastNotice
<1>3. ASSUME ClosedIsLast, NEW e \in DOMAIN events', events'[e].status = "closed"
      PROVE  LastNotice(e, "closed")' \/ e \in unsaid' \/ \E s \in Scans : e \in Unwritten(s)'
  BY <1>2, <1>3 DEF ClosuresCarried, ClosedIsLast
<1> QED
  BY <1>1, <1>3 DEF ClosureIsAnnounced, ClosedIsLast

\* A scan that has written its notice.
LEMMA NoticeWritten ==
    ASSUME AnomalyTypeOK, OutboxInv, NEW s \in Scans, NEW status \in {"open", "closed"},
           Enqueue(scan[s].event, status), scan[s].event \in DOMAIN events,
           UNCHANGED <<events, unsaid>>,
           \A t \in Scans \ {s} : scan'[t] = scan[t],
           status = "open" => scan[s].phase = "announcing"
    PROVE  /\ ClosureIsAnnounced => ClosureIsAnnounced'
           /\ ClosedIsLast /\ (status = "open" => events[scan[s].event].status \in Live) => ClosedIsLast'
<1>0. PICK e \in EventIds : e = scan[s].event
  BY EventNumbers
<1> DEFINE new == Len(outbox) + 1
<1>1. /\ DOMAIN outbox' = DOMAIN outbox \cup {new} /\ Len(outbox) \in Nat
      /\ DOMAIN outbox = 1..Len(outbox)
      /\ outbox'[new].event = e /\ outbox'[new].kind = status
      /\ \A i \in DOMAIN outbox : outbox'[i] = outbox[i]
  BY <1>0, EnqueueAdds
<1>2. \A t \in Scans : \A d \in Unwritten(t) : d \in Unwritten(t)' \/ t = s
  BY DEF Unwritten
<1>3. \A d \in Unwritten(s) : d = e /\ status = "closed"
  BY <1>0 DEF Unwritten
<1>4. ASSUME ClosureIsAnnounced, NEW d \in DOMAIN events, events[d].status = "closed"
      PROVE  \/ \E i \in DOMAIN outbox' : outbox'[i].event = d /\ outbox'[i].kind = "closed"
             \/ d \in unsaid
             \/ \E t \in Scans : d \in Unwritten(t)'
  BY <1>1, <1>2, <1>3, <1>4 DEF ClosureIsAnnounced
<1>5. ASSUME NEW d, d # e, LastNotice(d, "closed") PROVE LastNotice(d, "closed")'
  BY <1>1, <1>5 DEF LastNotice
<1>6. status = "closed" => LastNotice(e, "closed")'
  <2>1. \A i \in DOMAIN outbox' : i <= new
    BY <1>1
  <2> QED
    BY <1>1, <2>1 DEF LastNotice
<1>7. ASSUME ClosedIsLast, status = "open" => events[e].status \in Live,
             NEW d \in DOMAIN events, events[d].status = "closed"
      PROVE  LastNotice(d, "closed")' \/ d \in unsaid \/ \E t \in Scans : d \in Unwritten(t)'
  <2>1. CASE d = e
    <3>1. status = "closed"
      BY <1>7, <2>1 DEF Live
    <3> QED
      BY <1>6, <2>1, <3>1
  <2>2. CASE d # e
    BY <1>2, <1>3, <1>5, <1>7, <2>2 DEF ClosedIsLast
  <2> QED
    BY <2>1, <2>2
<1> QED
  BY <1>0, <1>4, <1>7 DEF ClosureIsAnnounced, ClosedIsLast

LEMMA AnomalyInitInv == Init => OutboxInv /\ OrderInv /\ EventsInv /\ ScansInv
<1> SUFFICES ASSUME Init PROVE OutboxInv /\ OrderInv /\ EventsInv /\ ScansInv
  OBVIOUS
<1>1. OutboxInv /\ OrderInv
  BY OutboxInitInv, OrderInitInv DEF Init
<1>2. events = <<>> /\ DOMAIN events = {} /\ Len(events) = 0 /\ events \in Seq(EventStates)
  BY DEF Init
<1>3. scan = [s \in Scans |-> IdleScan] /\ IdleScan \in ScanStates /\ IdleScan.phase = "idle" /\ IdleScan.todo = {}
  BY DEF Init, IdleScan, ScanStates
<1>4. scan \in [Scans -> ScanStates] /\ \A s \in Scans : scan[s].phase = "idle" /\ scan[s].todo = {}
  BY <1>3
<1>5. AnomalyTypeOK
  <2>1. anomalous \in BOOLEAN /\ scansMet \in BOOLEAN /\ unsaid \subseteq DOMAIN events
    BY DEF Init
  <2>2. ScansHoldEvents
    BY <1>4 DEF ScansHoldEvents
  <2>3. Len(events) <= MaxEvents
    BY <1>2, OutboxAssumption
  <2> QED
    BY <1>1, <1>2, <1>4, <2>1, <2>2, <2>3, ShapeOfAnomaly DEF OutboxInv
<1>6. ClosureIsAnnounced /\ ScansInv
  BY <1>2, <1>4 DEF ClosureIsAnnounced, ScansInv, OneScan, AnnouncedIsLive, ClosedIsLast
<1> QED
  BY <1>1, <1>5, <1>6 DEF EventsInv

\* Nobody's scan moves.
LEMMA ScansStand ==
    ASSUME EventsInv, ScansInv, OutboxTypeOK', ClosuresCarried,
           UNCHANGED <<scan, unsaid, scansMet>>, anomalous' \in BOOLEAN,
           events' \in Seq(EventStates), Len(events') = Len(events), DOMAIN events' = DOMAIN events,
           \A e \in DOMAIN events : events[e].status \in Live => events'[e].status \in Live
    PROVE  EventsInv' /\ ScansInv'
<1>1. AnomalyTypeOK'
  <2>1. /\ Len(events') <= MaxEvents /\ scan' \in [Scans -> ScanStates] /\ ScansHoldEvents'
        /\ unsaid' \subseteq DOMAIN events' /\ scansMet' \in BOOLEAN
    BY ShapeOfAnomaly DEF EventsInv, ScansHoldEvents
  <2> QED
    BY <2>1, ShapeOfAnomaly DEF AnomalyTypeOK, EventStates, ScanStates, ScansHoldEvents
<1>2. ScansInv'
  <2> SUFFICES ASSUME ~scansMet PROVE OneScan' /\ AnnouncedIsLive' /\ ClosedIsLast'
    BY DEF ScansInv
  <2>1. OneScan' /\ AnnouncedIsLive'
    BY ShapeOfAnomaly DEF ScansInv, OneScan, AnnouncedIsLive, EventsInv, ScansHoldEvents
  <2> QED
    BY <2>1, ClosuresKept DEF ScansInv
<1> QED
  BY <1>1, <1>2, ClosuresKept DEF EventsInv

\* A scan begins to act on live events, or stops; what it had in hand is in unsaid.
LEMMA ScanMoves ==
    ASSUME EventsInv, ScansInv, OutboxTypeOK', ClosuresCarried, NEW s \in Scans,
           scan' \in [Scans -> ScanStates], \A t \in Scans \ {s} : scan'[t] = scan[t],
           UNCHANGED <<anomalous, events>>,
           scan'[s].todo \subseteq DOMAIN events, scan'[s].phase # "withdrawing",
           scan'[s].phase = "announcing" => scan'[s].event \in LiveEvents,
           unsaid' \subseteq DOMAIN events, scansMet' \in BOOLEAN, scansMet => scansMet',
           scansMet' \/ scan'[s].phase = "idle" \/ \A t \in Scans \ {s} : scan[t].phase = "idle"
    PROVE  EventsInv' /\ ScansInv'
<1>1. AnomalyTypeOK'
  <2>1. ScansHoldEvents'
    BY ShapeOfAnomaly DEF EventsInv, ScansHoldEvents, LiveEvents
  <2> QED
    BY <2>1, ShapeOfAnomaly DEF EventsInv, AnomalyTypeOK, EventStates, ScanStates, ScansHoldEvents
<1>2. ScansInv'
  <2> SUFFICES ASSUME ~scansMet' PROVE OneScan' /\ AnnouncedIsLive' /\ ClosedIsLast'
    BY DEF ScansInv
  <2>1. OneScan'
    BY DEF ScansInv, OneScan
  <2>2. AnnouncedIsLive'
    BY DEF ScansInv, AnnouncedIsLive, LiveEvents
  <2> QED
    BY <2>1, <2>2, ClosuresKept DEF ScansInv
<1> QED
  BY <1>1, <1>2, ClosuresKept DEF EventsInv

\* Every scan: the step of one scan, given what the outbox keeps.
LEMMA StartKeeps ==
    ASSUME EventsInv, ScansInv, OutboxTypeOK', NEW s \in Scans, ScanStart(s)
    PROVE  EventsInv' /\ ScansInv'
<1>1. AnomalyTypeOK /\ scansMet \in BOOLEAN /\ unsaid \subseteq DOMAIN events
  BY ShapeOfAnomaly DEF EventsInv
<1>2. /\ UNCHANGED <<anomalous, events, unsaid, outbox>> /\ MeetScans(s) /\ scan[s].phase = "idle"
  BY DEF ScanStart, ScanRefresh, ScanMiss, ScanClear, outboxVars
<1>3. PICK ph \in {"announcing", "creating", "closing"}, e \in Nat, todo \in SUBSET EventIds :
        /\ Begin(s, ph, e, todo) /\ todo \subseteq DOMAIN events
        /\ ph = "announcing" => e \in LiveEvents
  <2>1. CASE ScanRefresh(s)
    <3>1. PICK e \in DOMAIN events : Recent(e) /\ Begin(s, "announcing", e, {})
      BY <2>1 DEF ScanRefresh
    <3>2. e \in Nat /\ e \in LiveEvents
      BY <1>1, <3>1, EventNumbers DEF Recent
    <3> QED
      BY <3>1, <3>2
  <2>2. CASE ScanMiss(s)
    BY <2>2 DEF ScanMiss
  <2>3. CASE ScanClear(s)
    <3>1. LiveEvents \in SUBSET EventIds /\ LiveEvents \subseteq DOMAIN events
      BY <1>1, EventNumbers
    <3>2. Begin(s, "closing", 0, LiveEvents)
      BY <2>3 DEF ScanClear
    <3> QED
      BY <3>1, <3>2
  <2> QED
    BY <2>1, <2>2, <2>3 DEF ScanStart
<1>4. /\ scan' \in [Scans -> ScanStates] /\ scan'[s].phase = ph /\ scan'[s].event = e
      /\ scan'[s].todo = todo /\ \A t \in Scans \ {s} : scan'[t] = scan[t]
  BY <1>1, <1>3, Began
<1>5. /\ scansMet' \in BOOLEAN /\ (scansMet => scansMet')
      /\ scansMet' \/ \A t \in Scans \ {s} : scan[t].phase = "idle"
  BY <1>1, <1>2 DEF MeetScans
<1>6. ClosuresCarried
  BY <1>2, <1>4 DEF ClosuresCarried, NoticesStay, Unwritten
<1> QED
  BY <1>1, <1>2, <1>3, <1>4, <1>5, <1>6, ScanMoves

LEMMA AbortKeeps ==
    ASSUME EventsInv, ScansInv, OutboxTypeOK', NEW s \in Scans, AbortScan(s)
    PROVE  EventsInv' /\ ScansInv'
<1>1. AnomalyTypeOK /\ scansMet \in BOOLEAN /\ unsaid \subseteq DOMAIN events /\ ScansHoldEvents
  BY ShapeOfAnomaly DEF EventsInv
<1>2. /\ UNCHANGED <<anomalous, events, scansMet, outbox>> /\ unsaid' = unsaid \cup Unwritten(s)
      /\ Begin(s, "idle", 0, {})
  BY DEF AbortScan, outboxVars
<1>3. /\ scan' \in [Scans -> ScanStates] /\ scan'[s].phase = "idle" /\ scan'[s].todo = {}
      /\ \A t \in Scans \ {s} : scan'[t] = scan[t]
  BY <1>1, <1>2, Began
<1>4. unsaid' \subseteq DOMAIN events
  BY <1>1, <1>2 DEF Unwritten, ScansHoldEvents
<1>5. ClosuresCarried
  BY <1>2, <1>3 DEF ClosuresCarried, NoticesStay, Unwritten
<1> QED
  BY <1>1, <1>2, <1>3, <1>4, <1>5, ScanMoves

LEMMA CreateKeeps ==
    ASSUME EventsInv, ScansInv, OutboxTypeOK', NEW s \in Scans, CreateEvent(s)
    PROVE  EventsInv' /\ ScansInv'
<1>1. AnomalyTypeOK /\ ScansHoldEvents /\ unsaid \subseteq DOMAIN events
  BY ShapeOfAnomaly DEF EventsInv
<1>2. /\ scan[s].phase = "creating" /\ Len(events) < MaxEvents /\ UNCHANGED <<anomalous, unsaid, scansMet, outbox>>
      /\ events' = Append(events, [status |-> "open", fresh |-> TRUE])
      /\ Begin(s, "announcing", Len(events) + 1, {})
  BY DEF CreateEvent, outboxVars
<1>3. /\ events' \in Seq(EventStates) /\ Len(events') = Len(events) + 1
      /\ DOMAIN events' = DOMAIN events \cup {Len(events) + 1}
      /\ events'[Len(events) + 1].status = "open"
      /\ \A d \in DOMAIN events : events'[d] = events[d]
  BY <1>1, <1>2, EventAdded
<1>4. Len(events) \in Nat /\ Len(events) + 1 \in Nat
  BY <1>1, EventNumbers
<1>5. /\ scan' \in [Scans -> ScanStates] /\ scan'[s].phase = "announcing"
      /\ scan'[s].event = Len(events) + 1 /\ scan'[s].todo = {}
      /\ \A t \in Scans \ {s} : scan'[t] = scan[t]
  BY <1>1, <1>2, <1>4, Began
<1>6. ClosuresCarried
  BY <1>2, <1>3, <1>5 DEF ClosuresCarried, NoticesStay, Unwritten
<1>7. AnomalyTypeOK'
  <2>1. ScansHoldEvents'
    BY <1>1, <1>3, <1>5 DEF ScansHoldEvents
  <2>2. Len(events') <= MaxEvents
    BY <1>2, <1>3, <1>4, OutboxAssumption
  <2> QED
    BY <1>1, <1>2, <1>3, <1>5, <2>1, <2>2, ShapeOfAnomaly
       DEF EventsInv, AnomalyTypeOK, EventStates, ScanStates, ScansHoldEvents
<1>8. ASSUME ~scansMet PROVE OneScan' /\ AnnouncedIsLive' /\ ClosedIsLast'
  <2>1. OneScan'
    BY <1>2, <1>5, <1>8 DEF ScansInv, OneScan
  <2>2. AnnouncedIsLive'
    BY <1>1, <1>3, <1>5, <1>8 DEF ScansInv, AnnouncedIsLive, Live, ScansHoldEvents
  <2> QED
    BY <1>6, <1>8, <2>1, <2>2, ClosuresKept DEF ScansInv
<1> QED
  BY <1>2, <1>6, <1>7, <1>8, ClosuresKept DEF EventsInv, ScansInv

LEMMA CloseKeeps ==
    ASSUME EventsInv, ScansInv, OutboxTypeOK', NEW s \in Scans, CloseEvent(s)
    PROVE  EventsInv' /\ ScansInv'
<1>1. AnomalyTypeOK /\ ScansHoldEvents /\ unsaid \subseteq DOMAIN events
  BY ShapeOfAnomaly DEF EventsInv
<1>2. PICK e \in scan[s].todo : /\ events' = [events EXCEPT ![e].status = "closed"]
                                /\ Begin(s, "withdrawing", e, scan[s].todo \ {e})
  BY DEF CloseEvent
<1>3. scan[s].phase = "closing" /\ UNCHANGED <<anomalous, unsaid, scansMet, outbox>>
  BY DEF CloseEvent, outboxVars
<1>4. e \in DOMAIN events /\ e \in Nat /\ scan[s].todo \ {e} \in SUBSET EventIds /\ scan[s].todo \subseteq DOMAIN events
  BY <1>1, <1>2, EventNumbers DEF ScansHoldEvents
<1>5. /\ events' \in Seq(EventStates) /\ Len(events') = Len(events) /\ DOMAIN events' = DOMAIN events
      /\ events'[e].status = "closed" /\ \A d \in DOMAIN events : d # e => events'[d] = events[d]
  BY <1>1, <1>2, <1>4, StatusChanged
<1>6. /\ scan' \in [Scans -> ScanStates] /\ scan'[s].phase = "withdrawing"
      /\ scan'[s].event = e /\ scan'[s].todo = scan[s].todo \ {e}
      /\ \A t \in Scans \ {s} : scan'[t] = scan[t]
  BY <1>1, <1>2, <1>4, Began
<1>7. ClosuresCarried
  <2>1. e \in Unwritten(s)'
    BY <1>6 DEF Unwritten
  <2> QED
    BY <1>3, <1>5, <1>6, <2>1 DEF ClosuresCarried, NoticesStay, Unwritten
<1>8. AnomalyTypeOK'
  <2>1. ScansHoldEvents'
    BY <1>1, <1>4, <1>5, <1>6 DEF ScansHoldEvents
  <2>2. Len(events') <= MaxEvents
    BY <1>1, <1>5, ShapeOfAnomaly
  <2> QED
    BY <1>1, <1>3, <1>5, <1>6, <2>1, <2>2, ShapeOfAnomaly
       DEF EventsInv, AnomalyTypeOK, EventStates, ScanStates, ScansHoldEvents
<1>9. ASSUME ~scansMet PROVE OneScan' /\ AnnouncedIsLive' /\ ClosedIsLast'
  <2>1. OneScan'
    BY <1>3, <1>6, <1>9 DEF ScansInv, OneScan
  <2>2. \A t \in Scans : scan'[t].phase # "announcing"
    BY <1>3, <1>6, <1>9 DEF ScansInv, OneScan
  <2> QED
    BY <1>7, <1>9, <2>1, <2>2, ClosuresKept DEF ScansInv, AnnouncedIsLive
<1> QED
  BY <1>3, <1>7, <1>8, <1>9, ClosuresKept DEF EventsInv, ScansInv

\* Announce and Withdraw: a notice is written, and the scan goes on to the events
\* it had left, or ends.
LEMMA WriteKeeps ==
    ASSUME OutboxInv, EventsInv, ScansInv, OutboxTypeOK', NEW s \in Scans, Announce(s) \/ Withdraw(s)
    PROVE  EventsInv' /\ ScansInv'
<1>1. /\ AnomalyTypeOK /\ ScansHoldEvents /\ unsaid \subseteq DOMAIN events
      /\ scan[s].todo \in SUBSET EventIds
  BY ShapeOfAnomaly DEF EventsInv, ScanStates
<1>2. /\ scan[s].phase \in {"announcing", "withdrawing"} /\ UNCHANGED <<anomalous, events, unsaid, scansMet>>
      /\ scan[s].event \in DOMAIN events
  BY <1>1 DEF Announce, Withdraw, ScansHoldEvents
<1>3. PICK status \in {"open", "closed"} :
        /\ Enqueue(scan[s].event, status) /\ (status = "open" => scan[s].phase = "announcing")
  BY DEF Announce, Withdraw
<1>4. /\ scan' \in [Scans -> ScanStates] /\ scan'[s].phase \in {"idle", "closing"}
      /\ scan'[s].todo \subseteq scan[s].todo /\ \A t \in Scans \ {s} : scan'[t] = scan[t]
  <2>1. PICK ph \in {"idle", "closing"}, todo \in SUBSET EventIds :
          Begin(s, ph, 0, todo) /\ todo \subseteq scan[s].todo
    BY <1>1 DEF Announce, Withdraw, NextToClose
  <2> QED
    BY <1>1, <2>1, Began
<1>5. /\ ClosureIsAnnounced'
      /\ ClosedIsLast /\ (status = "open" => events[scan[s].event].status \in Live) => ClosedIsLast'
  BY <1>1, <1>2, <1>3, <1>4, NoticeWritten DEF EventsInv
<1>6. AnomalyTypeOK'
  <2>1. ScansHoldEvents'
    BY <1>1, <1>2, <1>4 DEF ScansHoldEvents
  <2> QED
    BY <1>1, <1>2, <1>4, <2>1, ShapeOfAnomaly
       DEF EventsInv, AnomalyTypeOK, EventStates, ScanStates, ScansHoldEvents
<1>7. ASSUME ~scansMet PROVE OneScan' /\ AnnouncedIsLive' /\ ClosedIsLast'
  <2>1. OneScan'
    BY <1>2, <1>4, <1>7 DEF ScansInv, OneScan
  <2>2. AnnouncedIsLive'
    BY <1>2, <1>4, <1>7 DEF ScansInv, AnnouncedIsLive
  <2>3. status = "open" => events[scan[s].event].status \in Live
    BY <1>3, <1>7 DEF ScansInv, AnnouncedIsLive
  <2> QED
    BY <1>5, <1>7, <2>1, <2>2, <2>3 DEF ScansInv
<1> QED
  BY <1>2, <1>5, <1>6, <1>7 DEF EventsInv, ScansInv

LEMMA RestartKeeps ==
    ASSUME EventsInv, ScansInv, OutboxTypeOK', Restart
    PROVE  EventsInv' /\ ScansInv'
<1>1. AnomalyTypeOK /\ ScansHoldEvents /\ unsaid \subseteq DOMAIN events
  BY ShapeOfAnomaly DEF EventsInv
<1>2. /\ UNCHANGED <<anomalous, events, scansMet, outbox>> /\ scan' = [s \in Scans |-> IdleScan]
      /\ unsaid' = unsaid \cup UNION {Unwritten(s) : s \in Scans}
  BY DEF Restart, RestartFlushes
<1>3. IdleScan \in ScanStates /\ IdleScan.phase = "idle" /\ IdleScan.todo = {}
  BY DEF IdleScan, ScanStates
<1>4. scan' \in [Scans -> ScanStates] /\ \A s \in Scans : scan'[s].phase = "idle" /\ scan'[s].todo = {}
  BY <1>2, <1>3
<1>5. \A s \in Scans : Unwritten(s) \subseteq unsaid' /\ Unwritten(s) \subseteq DOMAIN events
  BY <1>1, <1>2 DEF Unwritten, ScansHoldEvents
<1>6. unsaid' \subseteq DOMAIN events
  BY <1>1, <1>2, <1>5
<1>7. ClosuresCarried
  BY <1>2, <1>5 DEF ClosuresCarried, NoticesStay
<1>8. AnomalyTypeOK'
  <2>1. ScansHoldEvents'
    BY <1>4 DEF ScansHoldEvents
  <2> QED
    BY <1>1, <1>2, <1>4, <1>6, <2>1, ShapeOfAnomaly
       DEF EventsInv, AnomalyTypeOK, EventStates, ScanStates, ScansHoldEvents
<1>9. OneScan' /\ AnnouncedIsLive'
  BY <1>4 DEF OneScan, AnnouncedIsLive
<1> QED
  BY <1>2, <1>7, <1>8, <1>9, ClosuresKept DEF EventsInv, ScansInv

LEMMA EventsStep == OutboxInv /\ OutboxTypeOK' /\ EventsInv /\ ScansInv /\ [Next]_vars => EventsInv' /\ ScansInv'
<1> SUFFICES ASSUME OutboxInv, OutboxTypeOK', EventsInv, ScansInv, [Next]_vars PROVE EventsInv' /\ ScansInv'
  OBVIOUS
<1>1. /\ AnomalyTypeOK /\ events \in Seq(EventStates) /\ anomalous \in BOOLEAN
  BY ShapeOfAnomaly DEF EventsInv
<1>2. ASSUME UNCHANGED <<events, scan, unsaid, scansMet>>, NoticesStay, anomalous' \in BOOLEAN
      PROVE  EventsInv' /\ ScansInv'
  <2>1. ClosuresCarried
    BY <1>2 DEF ClosuresCarried, Unwritten
  <2> QED
    BY <1>1, <1>2, <2>1, ScansStand
<1>3. CASE PlantChanges \/ UNCHANGED vars
  BY <1>1, <1>2, <1>3 DEF PlantChanges, vars, outboxVars, NoticesStay
<1>4. ASSUME NEW f \in Flushes, FlushNext(f) PROVE EventsInv' /\ ScansInv'
  BY <1>1, <1>2, <1>4, FlushKeepsNotices DEF FlushNext, anomalyVars
<1>5. ASSUME NEW e \in DOMAIN events, Ages(e) \/ Acknowledge(e) PROVE EventsInv' /\ ScansInv'
  <2>1. UNCHANGED <<anomalous, scan, unsaid, scansMet, outbox>>
    BY <1>5 DEF Ages, Acknowledge, outboxVars
  <2>2. /\ events' \in Seq(EventStates) /\ Len(events') = Len(events) /\ DOMAIN events' = DOMAIN events
        /\ \A d \in DOMAIN events : events'[d].status \in {events[d].status, "acknowledged"}
    <3>1. CASE events' = [events EXCEPT ![e].fresh = FALSE]
      BY <1>1, <3>1, Aged, Zenon
    <3>2. CASE events' = [events EXCEPT ![e].status = "acknowledged"]
      BY <1>1, <3>2, StatusChanged
    <3> QED
      BY <1>5, <3>1, <3>2 DEF Ages, Acknowledge
  <2>3. ClosuresCarried
    BY <2>1, <2>2 DEF ClosuresCarried, NoticesStay, Unwritten
  <2>4. \A d \in DOMAIN events : events[d].status \in Live => events'[d].status \in Live
    BY <2>2 DEF Live
  <2> QED
    BY <1>1, <2>1, <2>2, <2>3, <2>4, ScansStand
<1> QED
  BY <1>3, <1>4, <1>5, StartKeeps, AbortKeeps, CreateKeeps, CloseKeeps, WriteKeeps, RestartKeeps
     DEF Next, ScanStep

----
(* The notices of an event come to an end. *)

\* A notice is about an event there is.
NoticesOfEvents == \A i \in DOMAIN outbox : outbox[i].event \in DOMAIN events

LEMMA NotifiedExist ==
    ASSUME OutboxInv, NoticesOfEvents
    PROVE  notified \subseteq DOMAIN events
  BY ShapeOfOutbox DEF OutboxInv, ClaimsAreTrue, NoticesOfEvents

\* What a step of Anomaly does to the outbox: the notices stay, or a scan writes one of
\* an event there is.
LEMMA StepNotices ==
    ASSUME OutboxInv, EventsInv, [Next]_vars
    PROVE  NoticesStay \/ \E s \in Scans : Announce(s) \/ Withdraw(s)
<1>1. CASE UNCHANGED outbox
  BY <1>1 DEF NoticesStay
<1> QED
  BY <1>1, FlushKeepsNotices
     DEF Next, vars, PlantChanges, Ages, Acknowledge, outboxVars, ScanStart, ScanRefresh, ScanMiss,
         ScanClear, ScanStep, CreateEvent, CloseEvent, AbortScan, Restart, RestartFlushes, FlushNext

\* Events are never removed.
LEMMA EventsStay ==
    ASSUME EventsInv, [Next]_vars
    PROVE  DOMAIN events \subseteq DOMAIN events'
<1>1. AnomalyTypeOK /\ events \in Seq(EventStates)
  BY ShapeOfAnomaly DEF EventsInv
<1>2. ASSUME NEW e \in DOMAIN events, Ages(e) \/ Acknowledge(e) PROVE DOMAIN events' = DOMAIN events
  BY <1>2 DEF Ages, Acknowledge
<1>3. ASSUME NEW s \in Scans, CreateEvent(s) PROVE DOMAIN events \subseteq DOMAIN events'
  BY <1>1, <1>3, EventAdded DEF CreateEvent
<1>4. ASSUME NEW s \in Scans, CloseEvent(s) PROVE DOMAIN events' = DOMAIN events
  BY <1>4 DEF CloseEvent
<1>5. CASE UNCHANGED events
  BY <1>5
<1> QED
  BY <1>2, <1>3, <1>4, <1>5
     DEF Next, vars, anomalyVars, PlantChanges, ScanStart, ScanRefresh, ScanMiss, ScanClear, ScanStep,
         Announce, Withdraw, AbortScan, Restart, FlushNext

\* The scans that write are at an event there is.
LEMMA WritersHoldEvents ==
    ASSUME EventsInv, NEW s \in Scans, Announce(s) \/ Withdraw(s)
    PROVE  scan[s].event \in DOMAIN events /\ scan[s].event \in EventIds
  BY ShapeOfAnomaly, EventNumbers DEF EventsInv, ScansHoldEvents, Announce, Withdraw

LEMMA NoticesOfEventsStep ==
    ASSUME OutboxInv, EventsInv, NoticesOfEvents, [Next]_vars
    PROVE  NoticesOfEvents'
<1>1. DOMAIN events \subseteq DOMAIN events'
  BY EventsStay
<1>2. CASE NoticesStay
  BY <1>1, <1>2 DEF NoticesStay, NoticesOfEvents
<1>3. ASSUME NEW s \in Scans, Announce(s) \/ Withdraw(s) PROVE NoticesOfEvents'
  <2>1. scan[s].event \in DOMAIN events /\ scan[s].event \in EventIds
    BY <1>3, WritersHoldEvents
  <2>2. Enqueue(scan[s].event, "open") \/ Enqueue(scan[s].event, "closed")
    BY <1>3 DEF Announce, Withdraw
  <2>3. /\ DOMAIN outbox' = DOMAIN outbox \cup {Len(outbox) + 1}
        /\ outbox'[Len(outbox) + 1].event = scan[s].event
        /\ \A i \in DOMAIN outbox : outbox'[i] = outbox[i]
    BY <2>1, <2>2, EnqueueAdds
  <2> QED
    BY <1>1, <2>1, <2>3 DEF NoticesOfEvents
<1> QED
  BY <1>2, <1>3, StepNotices

\* A scan that is not, or no longer, about to announce e.
LEMMA AnnouncersLeft ==
    ASSUME NEW e, NEW s \in Scans, \A t \in Scans \ {s} : scan'[t] = scan[t],
           ~(scan'[s].phase = "announcing" /\ scan'[s].event = e)
    PROVE  Announcers(e)' = Announcers(e) \ {s}
  BY DEF Announcers

\* No step but that of a writing scan makes more scans announce a notified event.
LEMMA NobodyJoins ==
    ASSUME OutboxInv, EventsInv, NoticesOfEvents, [Next]_vars, NEW e \in notified
    PROVE  Announcers(e)' \subseteq Announcers(e)
<1>1. /\ AnomalyTypeOK /\ scan \in [Scans -> ScanStates] /\ e \in DOMAIN events
      /\ DOMAIN events = 1..Len(events) /\ Len(events) \in Nat
  BY ShapeOfAnomaly, EventNumbers, NotifiedExist DEF EventsInv
<1>2. CASE UNCHANGED scan
  BY <1>2 DEF Announcers
<1>3. ASSUME NEW s \in Scans, NEW ph, NEW d, NEW todo, Begin(s, ph, d, todo),
             ph = "announcing" => d # e
      PROVE  Announcers(e)' \subseteq Announcers(e)
  <2>1. /\ \A t \in Scans \ {s} : scan'[t] = scan[t]
        /\ scan'[s].phase = ph /\ scan'[s].event = d
    BY <1>1, <1>3 DEF Begin
  <2> QED
    BY <1>3, <2>1, AnnouncersLeft
<1>4. ASSUME NEW s \in Scans, ScanStart(s) PROVE Announcers(e)' \subseteq Announcers(e)
  BY <1>3, <1>4 DEF ScanStart, ScanRefresh, ScanMiss, ScanClear
<1>5. ASSUME NEW s \in Scans, ScanStep(s) PROVE Announcers(e)' \subseteq Announcers(e)
  <2>1. Len(events) + 1 # e
    BY <1>1
  <2>2. PICK ph, d, todo : Begin(s, ph, d, todo) /\ (ph = "announcing" => d # e)
    <3>1. CASE CreateEvent(s)
      BY <2>1, <3>1 DEF CreateEvent
    <3>2. CASE Announce(s)
      BY <3>2 DEF Announce
    <3>3. CASE CloseEvent(s)
      BY <3>3 DEF CloseEvent
    <3>4. CASE Withdraw(s)
      BY <3>4 DEF Withdraw, NextToClose
    <3> QED
      BY <1>5, <3>1, <3>2, <3>3, <3>4 DEF ScanStep
  <2> QED
    BY <1>3, <2>2
<1>6. ASSUME NEW s \in Scans, AbortScan(s) PROVE Announcers(e)' \subseteq Announcers(e)
  BY <1>3, <1>6 DEF AbortScan
<1>7. CASE Restart
  BY <1>7 DEF Restart, IdleScan, Announcers
<1> QED
  BY <1>2, <1>4, <1>5, <1>6, <1>7
     DEF Next, vars, PlantChanges, Ages, Acknowledge, FlushNext, anomalyVars

\* A scan that writes leaves the announcers, and adds one notice, of the event it announced.
LEMMA WriterLeaves ==
    ASSUME OutboxInv, EventsInv, NEW s \in Scans, Announce(s) \/ Withdraw(s), NEW e
    PROVE  /\ Announcers(e)' = Announcers(e) \ {s}
           /\ \/ OpenNotices(e)' = OpenNotices(e)
              \/ /\ OpenNotices(e)' = OpenNotices(e) \cup {Len(outbox) + 1}
                 /\ s \in Announcers(e)
<1>1. /\ scan \in [Scans -> ScanStates]
      /\ scan[s].event \in DOMAIN events /\ scan[s].event \in EventIds
  BY ShapeOfAnomaly, WritersHoldEvents DEF EventsInv
<1>2. PICK status \in {"open", "closed"} :
        /\ Enqueue(scan[s].event, status) /\ (status = "open" => scan[s].phase = "announcing")
  BY DEF Announce, Withdraw
<1>3. PICK ph, todo : ph \in {"idle", "closing"} /\ Begin(s, ph, 0, todo)
  BY DEF Announce, Withdraw, NextToClose
<1>4. scan'[s].phase = ph /\ \A t \in Scans \ {s} : scan'[t] = scan[t]
  BY <1>1, <1>3 DEF Begin
<1>5. /\ DOMAIN outbox' = DOMAIN outbox \cup {Len(outbox) + 1}
      /\ outbox'[Len(outbox) + 1].event = scan[s].event
      /\ outbox'[Len(outbox) + 1].kind = status
      /\ \A i \in DOMAIN outbox : outbox'[i] = outbox[i]
  BY <1>1, <1>2, EnqueueAdds
<1>6. Announcers(e)' = Announcers(e) \ {s}
  BY <1>3, <1>4, AnnouncersLeft
<1>7. CASE status = "open" /\ scan[s].event = e
  BY <1>2, <1>5, <1>6, <1>7 DEF OpenNotices, Announcers
<1>8. CASE ~(status = "open" /\ scan[s].event = e)
  BY <1>5, <1>6, <1>8 DEF OpenNotices
<1> QED
  BY <1>7, <1>8, <1>6

LEMMA NoticesStep ==
    ASSUME IsFiniteSet(Scans), OutboxInv, OutboxInv', EventsInv, NoticesOfEvents, [Next]_vars,
           NEW e \in notified
    PROVE  Cardinality(OpenNotices(e)') + Cardinality(Announcers(e)') <=
               Cardinality(OpenNotices(e)) + Cardinality(Announcers(e))
<1>1. IsFiniteSet(Announcers(e)) /\ IsFiniteSet(OpenNotices(e))
  <2>1. Announcers(e) \subseteq Scans /\ OpenNotices(e) \subseteq 1..Len(outbox) /\ Len(outbox) \in Nat
    BY ItemNumbers DEF Announcers, OpenNotices, OutboxInv
  <2>2. IsFiniteSet(1..Len(outbox))
    BY <2>1, FS_Interval
  <2> QED
    BY <2>1, <2>2, FS_Subset
<1>2. /\ Cardinality(Announcers(e)) \in Nat /\ Cardinality(OpenNotices(e)) \in Nat
  BY <1>1, FS_CardinalityType
<1>3. CASE NoticesStay
  <2>1. OpenNotices(e)' = OpenNotices(e)
    BY <1>3 DEF NoticesStay, OpenNotices
  <2>2. Announcers(e)' \subseteq Announcers(e)
    BY NobodyJoins
  <2>3. Cardinality(Announcers(e)') \in Nat /\ Cardinality(Announcers(e)') <= Cardinality(Announcers(e))
    BY <1>1, <2>2, FS_Subset, FS_CardinalityType
  <2> QED
    BY <1>2, <2>1, <2>3
<1>4. ASSUME NEW s \in Scans, Announce(s) \/ Withdraw(s)
      PROVE  Cardinality(OpenNotices(e)') + Cardinality(Announcers(e)') <=
                 Cardinality(OpenNotices(e)) + Cardinality(Announcers(e))
  <2>1. /\ Announcers(e)' = Announcers(e) \ {s}
        /\ \/ OpenNotices(e)' = OpenNotices(e)
           \/ OpenNotices(e)' = OpenNotices(e) \cup {Len(outbox) + 1} /\ s \in Announcers(e)
    BY <1>4, WriterLeaves
  <2>2. Cardinality(Announcers(e)') = IF s \in Announcers(e) THEN Cardinality(Announcers(e)) - 1
                                      ELSE Cardinality(Announcers(e))
    BY <1>1, <2>1, FS_RemoveElement
  <2>3. ASSUME NEW n
        PROVE  /\ Cardinality(OpenNotices(e) \cup {n}) \in Nat
               /\ Cardinality(OpenNotices(e) \cup {n}) <= Cardinality(OpenNotices(e)) + 1
    <3>1. Cardinality(OpenNotices(e) \cup {n}) = Cardinality(OpenNotices(e))
          \/ Cardinality(OpenNotices(e) \cup {n}) = Cardinality(OpenNotices(e)) + 1
      BY <1>1, FS_AddElement
    <3> QED
      BY <1>2, <3>1
  <2>4. CASE OpenNotices(e)' = OpenNotices(e)
    BY <1>2, <2>2, <2>4
  <2>5. CASE OpenNotices(e)' = OpenNotices(e) \cup {Len(outbox) + 1} /\ s \in Announcers(e)
    <3>1. Cardinality(OpenNotices(e)') \in Nat
          /\ Cardinality(OpenNotices(e)') <= Cardinality(OpenNotices(e)) + 1
      BY <2>3, <2>5
    <3>2. Cardinality(Announcers(e)') = Cardinality(Announcers(e)) - 1
      BY <2>2, <2>5
    <3> QED
      BY <1>2, <3>1, <3>2
  <2> QED
    BY <2>1, <2>4, <2>5
<1> QED
  BY <1>3, <1>4, StepNotices

----
(* The theorems. *)

\* enqueueAnomaly, flush, restarts: an item marked delivered has been taken in by
\* SafeOps, and an event stamped notified_safeops_at had a notice taken in.
THEOREM ClaimsStayTrue == OutboxSpec => []ClaimsAreTrue
<1>1. OutboxInv => ClaimsAreTrue
  BY DEF OutboxInv
<1> QED
  BY OutboxInitInv, OutboxStep, <1>1, PTL DEF OutboxSpec

\* The catch block of flush: a failed item has used up its attempts, a waiting one
\* has not, whatever copies overlapping flushes write back.
THEOREM GivenUpExactly == OutboxSpec => []GivenUpAtLimit
<1>1. OutboxInv => GivenUpAtLimit
  BY DEF OutboxInv
<1> QED
  BY OutboxInitInv, OutboxStep, <1>1, PTL DEF OutboxSpec

\* flush, ordered by createdAt: without overlaps and failures SafeOps holds the
\* newest notice it was sent of each event.
THEOREM NoticesInOrder == OutboxSpec => []OrderKept
<1>1. OrderInv => OrderKept
  BY DEF OrderInv, Orderly, NewestHeld, OrderKept
<1> QED
  BY OutboxInitInv, OutboxStep, OrderInitInv, OrderStep, <1>1, PTL DEF OutboxSpec

LEMMA AnomalyStep ==
    OutboxInv /\ OrderInv /\ EventsInv /\ ScansInv /\ [Next]_vars =>
        OutboxInv' /\ OrderInv' /\ EventsInv' /\ ScansInv'
<1> SUFFICES ASSUME OutboxInv, OrderInv, EventsInv, ScansInv, [Next]_vars
             PROVE  OutboxInv' /\ OrderInv' /\ EventsInv' /\ ScansInv'
  OBVIOUS
<1>1. [OutboxNext]_outboxVars
  BY AnomalyIsOutbox DEF EventsInv
<1>2. OutboxInv' /\ OrderInv'
  BY <1>1, OutboxStep, OrderStep
<1> QED
  BY <1>2, EventsStep DEF OutboxInv

\* The scans do to the outbox what any caller of enqueueAnomaly may do: Anomaly
\* implements Outbox, so what holds of Outbox holds under the scans.
THEOREM ScansFeedOutbox == Spec => OutboxSpec
<1>1. EventsInv => AnomalyTypeOK
  BY DEF EventsInv
<1>2. Init => OutboxInit
  BY DEF Init
<1> QED
  BY AnomalyInitInv, AnomalyStep, AnomalyIsOutbox, <1>1, <1>2, PTL DEF Spec, OutboxSpec

\* Types of the state of scan, acknowledge and flush.
THEOREM AnomalyTyped == Spec => []AnomalyTypeOK
<1>1. EventsInv => AnomalyTypeOK
  BY DEF EventsInv
<1> QED
  BY AnomalyInitInv, AnomalyStep, <1>1, PTL DEF Spec

\* releaseIfClear writes twice: every closed event has its notice, or is in the
\* hands of the scan that will write it, or that scan was cut off in between.
THEOREM ClosuresAnnounced == Spec => []ClosureIsAnnounced
<1>1. EventsInv => ClosureIsAnnounced
  BY DEF EventsInv
<1> QED
  BY AnomalyInitInv, AnomalyStep, <1>1, PTL DEF Spec

\* Scan, outbox and flush together: without overlaps, failures and cut-offs, once
\* all is delivered SafeOps has a hold only where an event is live.
THEOREM HoldsSettled == Spec => []HoldsSettle
<1>1. OutboxInv /\ OrderInv /\ EventsInv /\ ScansInv => HoldsSettle
  <2> SUFFICES ASSUME OutboxInv, OrderInv, EventsInv, ScansInv,
                      Quiet, ~disturbed, ~scansMet, unsaid = {},
                      NEW e \in DOMAIN events, events[e].status \notin Live, peer[e] = "open"
               PROVE  FALSE
    BY DEF HoldsSettle
  <2>1. events[e].status = "closed"
    BY EventNumbers DEF EventsInv, Live
  <2>2. \A s \in Scans : Unwritten(s) = {}
    BY DEF Quiet, Unwritten
  <2>3. PICK i \in DOMAIN outbox : /\ outbox[i].event = e /\ outbox[i].kind = "closed"
                                   /\ \A j \in DOMAIN outbox : outbox[j].event = e => j <= i
    BY <2>1, <2>2 DEF ScansInv, ClosedIsLast, LastNotice
  <2>4. i \in received /\ received \subseteq DOMAIN outbox /\ DOMAIN outbox = 1..Len(outbox)
    BY <2>3, ItemNumbers DEF Quiet, OutboxInv, ClaimsAreTrue
  <2>5. PICK j \in received : j > i /\ outbox[j].event = e
    BY <2>3, <2>4 DEF OrderInv, Orderly, NewestHeld
  <2> QED
    BY <2>3, <2>4, <2>5
<1> QED
  BY AnomalyInitInv, AnomalyStep, <1>1, PTL DEF Spec

\* scoreOne and flush, any overlaps, failures and restarts: once SafeOps was told of an
\* event, no scan that starts later adds a notice of it, and each that had read it before
\* adds one at most.
THEOREM NoticesComeToAnEnd == ASSUME IsFiniteSet(Scans) PROVE Spec => NoticesEnd
<1>1. Init => NoticesOfEvents
  BY DEF Init, OutboxInit, NoticesOfEvents
<1>2. OutboxInv /\ EventsInv /\ NoticesOfEvents /\ [Next]_vars => NoticesOfEvents'
  BY NoticesOfEventsStep
<1>3. OutboxInv /\ OutboxInv' /\ EventsInv /\ NoticesOfEvents /\ [Next]_vars =>
        \A e \in notified :
            Cardinality(OpenNotices(e)') + Cardinality(Announcers(e)') <=
                Cardinality(OpenNotices(e)) + Cardinality(Announcers(e))
  BY NoticesStep
<1> QED
  BY AnomalyInitInv, AnomalyStep, <1>1, <1>2, <1>3, PTL DEF Spec, NoticesEnd
====
