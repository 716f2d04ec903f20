---- MODULE Outbox ----
(***************************************************************************)
(* integration/safeops-integration.service.ts: the outbox that carries      *)
(* anomaly notices to the sister system SafeOps.  enqueueAnomaly inserts a   *)
(* row; flush, a cron job of every minute, sends the pending rows.  Nothing  *)
(* keeps two flushes apart: twenty rows at eight seconds each outlast the    *)
(* minute, so a flush works on a batch that another flush may be sending     *)
(* too, and writes attempts and status from the copy it read.                *)
(*                                                                           *)
(* An item's position is its id and its createdAt order.  An item with       *)
(* status "skipped" always has lastError 'SAFEOPS_ENABLED=false'.  SafeOps   *)
(* itself is external: it remembers, per anomaly event, the last notice it   *)
(* took in.                                                                  *)
(***************************************************************************)
EXTENDS Integers, Sequences, FiniteSets

CONSTANTS
    Flushes,      \* runs of flush() that may overlap
    MaxEvents,    \* bound: anomaly events ever created
    MaxItems,     \* bound: rows of the outbox
    Batch,        \* rows one flush takes (20)
    MaxAttempts   \* attempts after which a row is given up (8)

ASSUME OutboxAssumption ==
    /\ MaxEvents \in Nat /\ MaxItems \in Nat
    /\ Batch \in Nat \ {0} /\ MaxAttempts \in Nat \ {0}

VARIABLES
    outbox,       \* integration_deliveries
    enabled,      \* isEnabled(): the environment of the running process
    flush,        \* the state of each flush
    notified,     \* anomaly_events.notified_safeops_at is set
    peer,         \* SafeOps: the last notice it took in, per event
    received,     \* history: the items SafeOps took in
    disturbed     \* history: a flush overlapped another, failed, or was cut off

outboxVars == <<outbox, enabled, flush, notified, peer, received, disturbed>>

EventIds == 1..MaxEvents

ItemStatuses == {"pending", "skipped", "delivered", "failed"}

IdleFlush == [phase |-> "idle", batch |-> <<>>]

OutboxInit ==
    /\ outbox = <<>>
    /\ enabled \in BOOLEAN
    /\ flush = [f \in Flushes |-> IdleFlush]
    /\ notified = {}
    /\ peer = [e \in EventIds |-> "none"]
    /\ received = {}
    /\ disturbed = FALSE

----
\* enqueueAnomaly: everything that is not 'open' goes out as 'closed'.
Enqueue(e, status) ==
    /\ Len(outbox) < MaxItems
    /\ outbox' = Append(outbox, [event |-> e,
                                 kind |-> IF status = "open" THEN "open" ELSE "closed",
                                 status |-> IF enabled THEN "pending" ELSE "skipped",
                                 attempts |-> 0])

----
Running(f) == flush[f].phase # "idle"

\* flush(): rows skipped while the integration was off become pending.
Requeue(f) ==
    /\ ~Running(f) /\ enabled
    /\ outbox' = [i \in DOMAIN outbox |->
                    IF outbox[i].status = "skipped" THEN [outbox[i] EXCEPT !.status = "pending"]
                    ELSE outbox[i]]
    /\ flush' = [flush EXCEPT ![f].phase = "fetching"]
    /\ disturbed' = (disturbed \/ \E g \in Flushes : Running(g))
    /\ UNCHANGED <<enabled, notified, peer, received>>

\* Variant with a defect: what failed once is not taken again.
UntriedItems == {i \in DOMAIN outbox : outbox[i].status = "pending" /\ outbox[i].attempts = 0}

PendingItems == {i \in DOMAIN outbox : outbox[i].status = "pending"}

\* Variant with a defect: no orderBy.
TakesAny(ids) ==
    /\ \A n \in DOMAIN ids : ids[n] \in PendingItems
    /\ \A m, n \in DOMAIN ids : m # n => ids[m] # ids[n]
    /\ \A i \in PendingItems : (\E n \in DOMAIN ids : ids[n] = i) \/ Len(ids) = Batch

\* Oldest first, at most Batch of them: ids is the taken rows in order.
TakesOldest(ids) ==
    /\ \A n \in DOMAIN ids : ids[n] \in PendingItems
    /\ \A m, n \in DOMAIN ids : m < n => ids[m] < ids[n]
    /\ \A i \in PendingItems :
         \/ \E n \in DOMAIN ids : ids[n] = i
         \/ Len(ids) = Batch /\ \A n \in DOMAIN ids : ids[n] < i

Fetch(f) ==
    /\ flush[f].phase = "fetching"
    /\ \E n \in 0..Batch : \E ids \in [1..n -> PendingItems] :
         /\ TakesOldest(ids)
         /\ flush' = [flush EXCEPT ![f] =
              IF n = 0 THEN IdleFlush
              ELSE [phase |-> "sending",
                    batch |-> [k \in 1..n |-> [id |-> ids[k],
                                               attempts |-> outbox[ids[k]].attempts]]]]
    /\ UNCHANGED <<outbox, enabled, notified, peer, received, disturbed>>

Current(f) == flush[f].batch[1]

\* The rest of the loop, after the current item.
Advance(f) ==
    flush' = [flush EXCEPT ![f] = IF Len(flush[f].batch) = 1 THEN IdleFlush
                                  ELSE [phase |-> "sending", batch |-> Tail(flush[f].batch)]]

TakeIn(i) ==
    /\ peer' = [peer EXCEPT ![outbox[i].event] = outbox[i].kind]
    /\ received' = received \cup {i}

\* fetch(): SafeOps answers 2xx.
PostOk(f) ==
    /\ flush[f].phase = "sending"
    /\ TakeIn(Current(f).id)
    /\ flush' = [flush EXCEPT ![f].phase = "posted"]
    /\ UNCHANGED <<outbox, enabled, notified, disturbed>>

\* fetch(): another status, a network error or the timeout.  The notice may have
\* been taken in all the same.
PostError(f) ==
    /\ flush[f].phase = "sending"
    /\ TakeIn(Current(f).id) \/ UNCHANGED <<peer, received>>
    /\ flush' = [flush EXCEPT ![f].phase = "erring"]
    /\ disturbed' = TRUE
    /\ UNCHANGED <<outbox, enabled, notified>>

\* Variant with a defect: response.ok is not looked at.
PostIgnoringStatus(f) ==
    /\ flush[f].phase = "sending"
    /\ TakeIn(Current(f).id) \/ UNCHANGED <<peer, received>>
    /\ flush' = [flush EXCEPT ![f].phase = "posted"]
    /\ UNCHANGED <<outbox, enabled, notified, disturbed>>

Post(f) == PostOk(f) \/ PostError(f)

MarkDelivered(f) ==
    /\ flush[f].phase = "posted"
    /\ outbox' = [outbox EXCEPT ![Current(f).id].status = "delivered",
                                ![Current(f).id].attempts = Current(f).attempts + 1]
    /\ flush' = [flush EXCEPT ![f].phase = "notifying"]
    /\ UNCHANGED <<enabled, notified, peer, received, disturbed>>

MarkNotified(f) ==
    /\ flush[f].phase = "notifying"
    /\ notified' = notified \cup {outbox[Current(f).id].event}
    /\ Advance(f)
    /\ UNCHANGED <<outbox, enabled, peer, received, disturbed>>

\* A database error in either update lands in the catch block of the send.
UpdateError(f) ==
    /\ flush[f].phase \in {"posted", "notifying"}
    /\ flush' = [flush EXCEPT ![f].phase = "erring"]
    /\ disturbed' = TRUE
    /\ UNCHANGED <<outbox, enabled, notified, peer, received>>

GivenUp(attempts) == attempts >= MaxAttempts

\* Variant with a defect: the attempts are counted in the row, the status comes
\* from the copy.
MarkErrorCountingInRow(f) ==
    /\ flush[f].phase = "erring"
    /\ LET i == Current(f).id
       IN  outbox' = [outbox EXCEPT ![i].attempts = @ + 1,
                                    ![i].status = IF GivenUp(Current(f).attempts + 1)
                                                  THEN "failed" ELSE "pending"]
    /\ Advance(f)
    /\ UNCHANGED <<enabled, notified, peer, received, disturbed>>

\* The catch block.
MarkError(f) ==
    /\ flush[f].phase = "erring"
    /\ LET n == Current(f).attempts + 1
       IN  outbox' = [outbox EXCEPT ![Current(f).id].attempts = n,
                                    ![Current(f).id].status =
                                        IF GivenUp(n) THEN "failed" ELSE "pending"]
    /\ Advance(f)
    /\ UNCHANGED <<enabled, notified, peer, received, disturbed>>

\* An error outside the send's try, or in its catch block, ends the flush.
AbortFlush(f) ==
    /\ flush[f].phase \in {"fetching", "erring"}
    /\ flush' = [flush EXCEPT ![f] = IdleFlush]
    /\ disturbed' = TRUE
    /\ UNCHANGED <<outbox, enabled, notified, peer, received>>

FlushStep(f) == Fetch(f) \/ Post(f) \/ MarkDelivered(f) \/ MarkNotified(f) \/ MarkError(f)

\* The process ends and starts again, with the integration on or off.
RestartFlushes ==
    /\ enabled' \in BOOLEAN
    /\ flush' = [f \in Flushes |-> IdleFlush]
    /\ disturbed' = (disturbed \/ \E f \in Flushes : Running(f))
    /\ UNCHANGED <<outbox, notified, peer, received>>

\* A caller of enqueueAnomaly.
Submit(e, status) ==
    /\ Enqueue(e, status)
    /\ UNCHANGED <<enabled, flush, notified, peer, received, disturbed>>

OutboxNext ==
    \/ \E e \in EventIds, status \in {"open", "closed"} : Submit(e, status)
    \/ \E f \in Flushes : Requeue(f) \/ FlushStep(f) \/ UpdateError(f) \/ AbortFlush(f)
    \/ RestartFlushes

OutboxSpec == OutboxInit /\ [][OutboxNext]_outboxVars

\* The cron job keeps firing and a flush that runs goes on: every send ends, by
\* its timeout at the latest.
OutboxFairness ==
    \A f \in Flushes : WF_outboxVars(Requeue(f)) /\ WF_outboxVars(FlushStep(f))

\* From some point on the process stays up, with the integration on, and the
\* database answers outside the sends.  Sends and their updates may still fail.  (A
\* flush that finds nothing ends the way an aborted one does: that is no abort.)
Stable ==
    /\ <>[]enabled
    /\ <>[][RestartFlushes \/ (\E f \in Flushes : AbortFlush(f))
                => \E f \in Flushes : FlushStep(f)]_outboxVars

OutboxFairSpec == OutboxSpec /\ OutboxFairness

----
OutboxTypeOK ==
    /\ outbox \in Seq([event : EventIds, kind : {"open", "closed"},
                       status : ItemStatuses, attempts : 0..MaxAttempts])
    /\ enabled \in BOOLEAN
    /\ flush \in [Flushes -> [phase : {"idle", "fetching", "sending", "posted", "notifying",
                                       "erring"},
                              batch : Seq([id : Nat \ {0}, attempts : 0..(MaxAttempts - 1)])]]
    /\ \A f \in Flushes : \A n \in DOMAIN flush[f].batch :
           flush[f].batch[n].id \in DOMAIN outbox
    /\ notified \subseteq EventIds
    /\ peer \in [EventIds -> {"none", "open", "closed"}]
    /\ received \subseteq DOMAIN outbox
    /\ disturbed \in BOOLEAN

\* An item marked delivered has been taken in by SafeOps, and an event stamped
\* notified_safeops_at has had one of its notices taken in: no overlap of
\* flushes, error or restart makes the outbox claim a delivery that never was.
ClaimsAreTrue ==
    /\ \A i \in DOMAIN outbox : outbox[i].status = "delivered" => i \in received
    /\ \A e \in notified : \E i \in received : outbox[i].event = e

\* An item is given up exactly when an attempt that counts as the last one
\* failed, although overlapping flushes write attempts from stale copies; an
\* item that is still pending has attempts left.
GivenUpAtLimit ==
    \A i \in DOMAIN outbox :
        /\ outbox[i].status = "failed" => outbox[i].attempts = MaxAttempts
        /\ outbox[i].status \in {"pending", "skipped"} => outbox[i].attempts < MaxAttempts

\* While no flush overlaps another and no send fails, SafeOps takes the notices
\* of an event in the order they were written: what it holds is the newest
\* notice it was sent.
OrderKept ==
    ~disturbed =>
        \A i \in received :
            \/ peer[outbox[i].event] = outbox[i].kind
            \/ \E j \in received : j > i /\ outbox[j].event = outbox[i].event

HasStatus(i, S) == i \in DOMAIN outbox /\ outbox[i].status \in S

\* No item is left pending for ever: once the process stays up, overlapping
\* flushes deliver or give up every item, although each may put back an older
\* count of attempts and a newer batch may come in.
PendingSettles ==
    Stable => \A i \in 1..MaxItems :
        HasStatus(i, {"pending", "skipped"}) ~> HasStatus(i, {"delivered", "failed"})
====
