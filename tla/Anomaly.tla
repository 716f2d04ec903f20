---- MODULE Anomaly ----
(***************************************************************************)
(* anomaly/anomaly-detection.service.ts on one equipment, with the outbox   *)
(* it feeds (Outbox) and the operator's acknowledge endpoint.  scan() is a  *)
(* cron job of every twenty seconds that nothing keeps from overlapping     *)
(* itself.  It opens an event when the equipment scores as an anomaly and   *)
(* no event of the last fifteen minutes is live, asks again for a notice    *)
(* while the live event has not been notified, and closes every live event  *)
(* when the score is clear.  Each database call is a transaction of its     *)
(* own; a scan acts on the event it read.                                   *)
(*                                                                          *)
(* The score, the summary and the broadcasts to browsers are left out: no   *)
(* decision depends on them.                                                *)
(***************************************************************************)
EXTENDS Outbox

CONSTANT Scans    \* runs of scan() that may overlap

VARIABLES
    anomalous,    \* what the isolation forest says of the newest readings
    events,       \* anomaly_events of the equipment, oldest first
    scan,         \* the state of each scan
    unsaid,       \* history: closed events whose notice died with its scan
    scansMet      \* history: a scan began while another was running

anomalyVars == <<anomalous, events, scan, unsaid, scansMet>>

vars == <<anomalous, events, scan, unsaid, scansMet,
          outbox, enabled, flush, notified, peer, received, disturbed>>

Live == {"open", "acknowledged"}

LiveEvents == {e \in DOMAIN events : events[e].status \in Live}

IdleScan == [phase |-> "idle", event |-> 0, todo |-> {}]

Init ==
    /\ anomalous = FALSE
    /\ events = <<>>
    /\ scan = [s \in Scans |-> IdleScan]
    /\ unsaid = {}
    /\ scansMet = FALSE
    /\ OutboxInit

----
\* The plant becomes anomalous, or normal again.
PlantChanges ==
    /\ anomalous' = ~anomalous
    /\ UNCHANGED <<events, scan, unsaid, scansMet>> /\ UNCHANGED outboxVars

\* Fifteen minutes have passed since the event was detected, and since every
\* older event was.
Ages(e) ==
    /\ events[e].fresh
    /\ \A d \in 1..(e - 1) : ~events[d].fresh
    /\ events' = [events EXCEPT ![e].fresh = FALSE]
    /\ UNCHANGED <<anomalous, scan, unsaid, scansMet>> /\ UNCHANGED outboxVars

\* findFirst in scoreOne: the newest live event of the last fifteen minutes.
Recent(e) ==
    /\ e \in LiveEvents /\ events[e].fresh
    /\ \A d \in LiveEvents : events[d].fresh => d <= e

Begin(s, phase, e, todo) == scan' = [scan EXCEPT ![s] = [phase |-> phase, event |-> e,
                                                         todo |-> todo]]

MeetScans(s) ==
    scansMet' = (scansMet \/ \E other \in Scans \ {s} : scan[other].phase # "idle")

\* Variant with a defect: a notice is asked for as long as the event is live.
ScanRefreshAlways(s) ==
    /\ scan[s].phase = "idle" /\ anomalous
    /\ \E e \in DOMAIN events : Recent(e) /\ Begin(s, "announcing", e, {})
    /\ MeetScans(s)
    /\ UNCHANGED <<anomalous, events, unsaid>> /\ UNCHANGED outboxVars

\* scoreOne on an anomaly, an event is live: its score is updated, and a notice is
\* asked for if the event as read was not notified.
ScanRefresh(s) ==
    /\ scan[s].phase = "idle" /\ anomalous
    /\ \E e \in DOMAIN events :
         /\ Recent(e)
         /\ e \notin notified
         /\ Begin(s, "announcing", e, {})
    /\ MeetScans(s)
    /\ UNCHANGED <<anomalous, events, unsaid>> /\ UNCHANGED outboxVars

\* scoreOne on an anomaly, no live event of the last fifteen minutes.
ScanMiss(s) ==
    /\ scan[s].phase = "idle" /\ anomalous
    /\ ~\E e \in DOMAIN events : Recent(e)
    /\ Begin(s, "creating", 0, {})
    /\ MeetScans(s)
    /\ UNCHANGED <<anomalous, events, unsaid>> /\ UNCHANGED outboxVars

CreateEvent(s) ==
    /\ scan[s].phase = "creating"
    /\ Len(events) < MaxEvents
    /\ events' = Append(events, [status |-> "open", fresh |-> TRUE])
    /\ Begin(s, "announcing", Len(events) + 1, {})
    /\ UNCHANGED <<anomalous, unsaid, scansMet>> /\ UNCHANGED outboxVars

Announce(s) ==
    /\ scan[s].phase = "announcing"
    /\ Enqueue(scan[s].event, "open")
    /\ Begin(s, "idle", 0, {})
    /\ UNCHANGED <<anomalous, events, unsaid, scansMet, enabled, flush, notified, peer,
                   received, disturbed>>

\* scoreOne on a clear score: releaseIfClear reads the live events of any age.
ScanClear(s) ==
    /\ scan[s].phase = "idle" /\ ~anomalous
    /\ LiveEvents # {}
    /\ Begin(s, "closing", 0, LiveEvents)
    /\ MeetScans(s)
    /\ UNCHANGED <<anomalous, events, unsaid>> /\ UNCHANGED outboxVars

\* Variant with a defect: the event gets the closing state of an alarm.
CloseEventAsAlarm(s) ==
    /\ scan[s].phase = "closing"
    /\ \E e \in scan[s].todo :
         /\ events' = [events EXCEPT ![e].status = "returned"]
         /\ Begin(s, "withdrawing", e, scan[s].todo \ {e})
    /\ UNCHANGED <<anomalous, unsaid, scansMet>> /\ UNCHANGED outboxVars

CloseEvent(s) ==
    /\ scan[s].phase = "closing"
    /\ \E e \in scan[s].todo :
         /\ events' = [events EXCEPT ![e].status = "closed"]
         /\ Begin(s, "withdrawing", e, scan[s].todo \ {e})
    /\ UNCHANGED <<anomalous, unsaid, scansMet>> /\ UNCHANGED outboxVars

NextToClose(s) ==
    IF scan[s].todo = {} THEN Begin(s, "idle", 0, {}) ELSE Begin(s, "closing", 0, scan[s].todo)

\* Variant with a defect: only an event that SafeOps was told of is withdrawn.
WithdrawNotified(s) ==
    /\ scan[s].phase = "withdrawing"
    /\ IF scan[s].event \in notified THEN Enqueue(scan[s].event, "closed") ELSE UNCHANGED outbox
    /\ NextToClose(s)
    /\ UNCHANGED <<anomalous, events, unsaid, scansMet, enabled, flush, notified, peer,
                   received, disturbed>>

Withdraw(s) ==
    /\ scan[s].phase = "withdrawing"
    /\ Enqueue(scan[s].event, "closed")
    /\ NextToClose(s)
    /\ UNCHANGED <<anomalous, events, unsaid, scansMet, enabled, flush, notified, peer,
                   received, disturbed>>

\* The events whose withdrawal a scan still has to write.
Unwritten(s) == IF scan[s].phase = "withdrawing" THEN {scan[s].event} ELSE {}

\* A database error ends the scan of this equipment (the catch in scan()).
AbortScan(s) ==
    /\ scan[s].phase # "idle"
    /\ unsaid' = unsaid \cup Unwritten(s)
    /\ Begin(s, "idle", 0, {})
    /\ UNCHANGED <<anomalous, events, scansMet>> /\ UNCHANGED outboxVars

ScanStep(s) == CreateEvent(s) \/ Announce(s) \/ CloseEvent(s) \/ Withdraw(s)

ScanStart(s) == ScanRefresh(s) \/ ScanMiss(s) \/ ScanClear(s)

\* POST /anomaly-events/:id/acknowledge: the event exists; its status is not read.
Acknowledge(e) ==
    /\ events' = [events EXCEPT ![e].status = "acknowledged"]
    /\ UNCHANGED <<anomalous, scan, unsaid, scansMet>> /\ UNCHANGED outboxVars

Restart ==
    /\ RestartFlushes
    /\ scan' = [s \in Scans |-> IdleScan]
    /\ unsaid' = unsaid \cup UNION {Unwritten(s) : s \in Scans}
    /\ UNCHANGED <<anomalous, events, scansMet>>

FlushNext(f) ==
    /\ Requeue(f) \/ FlushStep(f) \/ UpdateError(f) \/ AbortFlush(f)
    /\ UNCHANGED anomalyVars

Next ==
    \/ PlantChanges
    \/ \E e \in DOMAIN events : Ages(e) \/ Acknowledge(e)
    \/ \E s \in Scans : ScanStart(s) \/ ScanStep(s) \/ AbortScan(s)
    \/ \E f \in Flushes : FlushNext(f)
    \/ Restart

Spec == Init /\ [][Next]_vars

----
AnomalyTypeOK ==
    /\ anomalous \in BOOLEAN
    /\ events \in Seq([status : {"open", "acknowledged", "closed"}, fresh : BOOLEAN])
    /\ Len(events) <= MaxEvents
    /\ scan \in [Scans -> [phase : {"idle", "creating", "announcing", "closing", "withdrawing"},
                           event : Nat, todo : SUBSET EventIds]]
    /\ \A s \in Scans : /\ scan[s].todo \subseteq DOMAIN events
                        /\ scan[s].phase \in {"announcing", "withdrawing"} =>
                             scan[s].event \in DOMAIN events
    /\ unsaid \subseteq DOMAIN events
    /\ scansMet \in BOOLEAN
    /\ OutboxTypeOK

\* An event does not leave the screen without its notice: the outbox holds a
\* "closed" item for every closed event, or a scan is about to write it, or that
\* scan was cut off between its two writes.
ClosureIsAnnounced ==
    \A e \in DOMAIN events :
        events[e].status = "closed" =>
            \/ \E i \in DOMAIN outbox : outbox[i].event = e /\ outbox[i].kind = "closed"
            \/ e \in unsaid
            \/ \E s \in Scans : e \in Unwritten(s)

OpenNotices(e) == {i \in DOMAIN outbox : outbox[i].event = e /\ outbox[i].kind = "open"}

\* The scans that will still ask for a notice of an event.
Announcers(e) == {s \in Scans : scan[s].phase = "announcing" /\ scan[s].event = e}

\* Every scan adds another "open" item for an event that is not notified, however long
\* SafeOps is out of reach.  Once it is notified this ends: only scans that had read the
\* event before write an item yet, one each.
NoticesEnd ==
    [][\A e \in notified :
         Cardinality(OpenNotices(e)') + Cardinality(Announcers(e)') <=
             Cardinality(OpenNotices(e)) + Cardinality(Announcers(e))]_vars

\* Everything is at rest: no scan and no flush runs, and no item is left to send.
Quiet ==
    /\ \A s \in Scans : scan[s].phase = "idle"
    /\ \A f \in Flushes : ~Running(f)
    /\ \A i \in DOMAIN outbox : outbox[i].status = "delivered"

\* While nothing was cut off, neither scans nor flushes overlapped and every send
\* went through, SafeOps holds exactly what the events say once all is delivered:
\* a notice "open" only for an event that is live.
HoldsSettle ==
    Quiet /\ ~disturbed /\ ~scansMet /\ unsaid = {} =>
        \A e \in DOMAIN events : peer[e] = "open" => events[e].status \in Live

\* docs/reports/08-sister-system-integration.md:18: "open anomalies create holds
\* that block SafeOps PTW/MOC on that tag".  With every item delivered and no
\* notice lost, a hold stands only for an anomaly that is live.
HoldsMatchAnomalies ==
    Quiet /\ unsaid = {} =>
        \A e \in DOMAIN events : peer[e] = "open" => events[e].status \in Live
====
