---- MODULE Feed ----
(***************************************************************************)
(* The list of anomaly events on AiPage.tsx and what feeds it: the scans of *)
(* one equipment and the operators' acknowledgements change the events and  *)
(* tell the tenant's room after a further await or two; the page asks for   *)
(* the list when it is opened and after its own acknowledgement or work     *)
(* order, and takes messages into the list meanwhile.  The answer replaces  *)
(* the list, a message the status of its event.  What a scan scores, and    *)
(* SafeOps' outbox, are in module Anomaly.                                  *)
(***************************************************************************)
EXTENDS Naturals, Sequences, FiniteSets, SequencesExt

CONSTANTS
    Scans,       \* scans of the equipment
    Acks,        \* acknowledgements, by this page or another operator's
    MaxEvents,   \* bound: events
    MaxLists     \* bound: requests for the list

ASSUME FeedAssumption == Scans \cap Acks = {} /\ MaxEvents \in Nat \ {0}

VARIABLES
    events,   \* the table: status, and whether detected in the last fifteen minutes
    scan,     \* each scan: phase, the events it still has to do, the status it read
    ack,      \* each acknowledgement: phase and event
    told,     \* what was sent to the room and has not come to the page, in order
    list,     \* the page: the status shown of each event, and what is known about it
    gets,     \* requests for the list, in the order they were made
    line,     \* the page's socket is up
    doubt,    \* history: events that two changed at once, or whose change was not sent
    irregular \* history: two scans met, or an acknowledgement revived a closed event

feedVars == <<events, scan, ack, told, list, gets, line, doubt, irregular>>

NoEvent == 0

Live == {"open", "acknowledged"}

Unknown == "unknown"

NoScan == [phase |-> "done", todo |-> <<>>, status |-> Unknown]

NoGet == [phase |-> "done", shown |-> <<>>, gap |-> FALSE]

FeedInit ==
    /\ events \in {<<>>, <<[status |-> "open", fresh |-> TRUE]>>}
    /\ scan = [s \in Scans |-> [NoScan EXCEPT !.phase = "idle"]]
    /\ ack = [k \in Acks |-> [phase |-> "idle", event |-> NoEvent]]
    /\ told = <<>>
    /\ list = [shown |-> <<>>, inOrder |-> FALSE, gap |-> FALSE]
    /\ gets = <<[NoGet EXCEPT !.phase = "sent"]>>
    /\ line = FALSE
    /\ doubt = {} /\ irregular = FALSE

----
pageVars == <<list, gets, line>>

\* The events that a scan or an acknowledgement is at.
Held(who) ==
    IF who \in Scans THEN Range(scan[who].todo) ELSE {ack[who].event} \ {NoEvent}

Busy(who) == IF who \in Scans THEN scan[who].phase \notin {"idle", "done"}
             ELSE ack[who].phase = "sending"

Others(who, e) == \E o \in (Scans \cup Acks) \ {who} : Busy(o) /\ e \in Held(o)

\* Variant with a defect: acknowledged events are not looked for.
RecentOpen == {e \in DOMAIN events : events[e].status = "open" /\ events[e].fresh}

\* where of findFirst: live and detected in the last quarter of an hour.
Recent == {e \in DOMAIN events : events[e].status \in Live /\ events[e].fresh}

\* scoreOne finds an anomaly and looks for its event, the newest.  If there is one,
\* its score and summary are written; the status told later is the one read here.
FindRecent(s) ==
    /\ scan[s].phase = "idle"
    /\ \/ /\ Recent = {}
          /\ scan' = [scan EXCEPT ![s] = [NoScan EXCEPT !.phase = "create"]]
       \/ \E e \in Recent :
            /\ \A o \in Recent : o <= e
            /\ scan' = [scan EXCEPT ![s] =
                 [phase |-> "retell", todo |-> <<e>>, status |-> events[e].status]]
    /\ UNCHANGED <<events, ack, told, pageVars, doubt, irregular>>

CreateEvent(s) ==
    /\ scan[s].phase = "create" /\ Len(events) < MaxEvents
    /\ events' = Append(events, [status |-> "open", fresh |-> TRUE])
    /\ scan' = [scan EXCEPT ![s] =
         [phase |-> "tell", todo |-> <<Len(events) + 1>>, status |-> "open"]]
    /\ irregular' = (irregular \/ \E o \in Scans \ {s} : scan[o].phase = "create")
    /\ UNCHANGED <<ack, told, pageVars, doubt>>

\* scoreOne finds none: releaseIfClear reads the live events, old ones too, which
\* come in any order.
FindLive(s) ==
    /\ scan[s].phase = "idle"
    /\ \E todo \in SetToSeqs({e \in DOMAIN events : events[e].status \in Live}) :
         scan' = [scan EXCEPT ![s] = IF todo = <<>> THEN NoScan
                                     ELSE [phase |-> "close", todo |-> todo, status |-> "closed"]]
    /\ UNCHANGED <<events, ack, told, pageVars, doubt, irregular>>

CloseEvent(s) ==
    /\ scan[s].phase = "close"
    /\ LET e == Head(scan[s].todo)
       IN  /\ events' = [events EXCEPT ![e].status = "closed"]
           /\ doubt' = doubt \cup {x \in {e} : Others(s, e)}
    /\ scan' = [scan EXCEPT ![s].phase = "tell"]
    /\ UNCHANGED <<ack, told, pageVars, irregular>>

\* The outbox has it: the room hears of it, with the status the scan knows.
TellRoom(s) ==
    /\ scan[s].phase \in {"tell", "retell"}
    /\ told' = Append(told, [event |-> Head(scan[s].todo), status |-> scan[s].status])
    /\ scan' = [scan EXCEPT ![s] =
         IF Len(scan[s].todo) > 1
         THEN [phase |-> "close", todo |-> Tail(scan[s].todo), status |-> scan[s].status]
         ELSE NoScan]
    /\ UNCHANGED <<events, ack, pageVars, doubt, irregular>>

\* A failed await: the rest of the scan of this equipment is left out.
ScanEnds(s) ==
    /\ Busy(s)
    /\ scan' = [scan EXCEPT ![s] = NoScan]
    /\ doubt' = doubt \cup (IF scan[s].phase = "tell" THEN {Head(scan[s].todo)} ELSE {})
    /\ UNCHANGED <<events, ack, told, pageVars, irregular>>

Age(e) ==
    /\ events[e].fresh
    /\ events' = [events EXCEPT ![e].fresh = FALSE]
    /\ UNCHANGED <<scan, ack, told, pageVars, doubt, irregular>>

----
\* acknowledge(): the event is found and written, whatever its status.
Acknowledge(k) ==
    /\ ack[k].phase = "idle"
    /\ \E e \in DOMAIN events :
         /\ events' = [events EXCEPT ![e].status = "acknowledged"]
         /\ ack' = [ack EXCEPT ![k] = [phase |-> "sending", event |-> e]]
         /\ doubt' = doubt \cup {x \in {e} : Others(k, e)}
         /\ irregular' = (irregular \/ events[e].status = "closed")
    /\ UNCHANGED <<scan, told, pageVars>>

\* Variant with a defect: the others are not told.
AcknowledgeUntold(k) ==
    /\ ack[k].phase = "sending"
    /\ ack' = [ack EXCEPT ![k] = [phase |-> "done", event |-> NoEvent]]
    /\ UNCHANGED <<events, scan, told, pageVars, doubt, irregular>>

TellAcknowledged(k) ==
    /\ ack[k].phase = "sending"
    /\ told' = Append(told, [event |-> ack[k].event, status |-> "acknowledged"])
    /\ ack' = [ack EXCEPT ![k] = [phase |-> "done", event |-> NoEvent]]
    /\ UNCHANGED <<events, scan, pageVars, doubt, irregular>>

----
\* load(): after an acknowledgement or a work order of this page, both of which may
\* be of any event it shows as open.
GetList ==
    /\ Len(gets) < MaxLists
    /\ gets' = Append(gets, [NoGet EXCEPT !.phase = "sent"])
    /\ list' = [list EXCEPT !.inOrder = FALSE]
    /\ UNCHANGED <<events, scan, ack, told, line, doubt, irregular>>

\* GET anomaly-events.  If nobody is at an event and no message is under way, what
\* was in doubt before no longer matters to who gets this answer.
ReadList(i) ==
    /\ gets[i].phase = "sent"
    /\ gets' = [gets EXCEPT ![i].phase = "read", ![i].shown = [e \in DOMAIN events |-> events[e].status]]
    /\ doubt' = IF i = Len(gets) /\ told = <<>> /\ ~\E who \in Scans \cup Acks : Busy(who)
                THEN {} ELSE doubt
    /\ UNCHANGED <<events, scan, ack, told, list, line, irregular>>

\* setEvents(list.items): the whole list.
TakeList(i) ==
    /\ gets[i].phase = "read"
    /\ list' = [shown |-> gets[i].shown, inOrder |-> i = Len(gets), gap |-> gets[i].gap]
    /\ gets' = [gets EXCEPT ![i] = NoGet]
    /\ UNCHANGED <<events, scan, ack, told, line, doubt, irregular>>

GetFails(i) ==
    /\ gets[i].phase = "read"
    /\ gets' = [gets EXCEPT ![i] = NoGet]
    /\ UNCHANGED <<events, scan, ack, told, list, line, doubt, irregular>>

\* History: lists under way that a message of messages is not part of.
Outdated(messages) ==
    [i \in DOMAIN gets |-> [gets[i] EXCEPT !.gap = @ \/
        (gets[i].phase = "read" /\ \E m \in messages :
            m.event \notin DOMAIN gets[i].shown \/ gets[i].shown[m.event] # m.status)]]

\* The room is joined: what was told before never comes.
JoinRoom ==
    /\ ~line /\ line' = TRUE
    /\ told' = <<>>
    /\ list' = [list EXCEPT !.gap = @ \/ told # <<>>]
    /\ gets' = Outdated(Range(told))
    /\ UNCHANGED <<events, scan, ack, doubt, irregular>>

LeaveRoom ==
    /\ line /\ line' = FALSE
    /\ UNCHANGED <<events, scan, ack, told, list, gets, doubt, irregular>>

\* A list, as a function of the events in it, with one more or one changed.
With(shown, m) == [e \in DOMAIN shown \cup {m.event} |-> IF e = m.event THEN m.status ELSE shown[e]]

\* anomaly:update: a new event is put in front, of a known one the status is set.
Update ==
    /\ line /\ told # <<>>
    /\ told' = Tail(told)
    /\ list' = [list EXCEPT !.shown = With(@, Head(told))]
    /\ gets' = Outdated({Head(told)})
    /\ UNCHANGED <<events, scan, ack, line, doubt, irregular>>

FeedNext ==
    \/ \E s \in Scans :
         \/ FindRecent(s) \/ CreateEvent(s) \/ FindLive(s)
         \/ CloseEvent(s) \/ TellRoom(s) \/ ScanEnds(s)
    \/ \E e \in DOMAIN events : Age(e)
    \/ \E k \in Acks : Acknowledge(k) \/ TellAcknowledged(k)
    \/ GetList \/ JoinRoom \/ LeaveRoom \/ Update
    \/ \E i \in DOMAIN gets : ReadList(i) \/ TakeList(i) \/ GetFails(i)

FeedSpec == FeedInit /\ [][FeedNext]_feedVars

----
FeedTypeOK ==
    /\ Len(events) <= MaxEvents
    /\ \A e \in DOMAIN events : events[e].status \in Live \cup {"closed"} /\ events[e].fresh \in BOOLEAN
    /\ \A s \in Scans :
         /\ scan[s].phase \in {"idle", "create", "close", "tell", "retell", "done"}
         /\ Range(scan[s].todo) \subseteq DOMAIN events
         /\ scan[s].phase \in {"close", "tell", "retell"} => scan[s].todo # <<>>
    /\ \A k \in Acks : ack[k].event \in DOMAIN events \cup {NoEvent}
    /\ DOMAIN list.shown \subseteq DOMAIN events
    /\ line \in BOOLEAN /\ \A n \in DOMAIN told : told[n].event \in DOMAIN events
    /\ doubt \subseteq DOMAIN events

\* AiPage.tsx:50 and ai-gateway.controller.ts:76: without a reload the page shows
\* what scans and other operators did.  When nothing is under way, the last list to
\* come was the one asked for last, and no message was lost or overwritten by it,
\* every event is shown with its status, unless two had it in hand at once or a scan
\* failed before it told.
FeedAgrees ==
    /\ \A i \in DOMAIN gets : gets[i].phase = "done"
    /\ ~\E who \in Scans \cup Acks : Busy(who)
    /\ line /\ told = <<>>
    /\ list.inOrder /\ ~list.gap
    => \A e \in DOMAIN events \ doubt : e \in DOMAIN list.shown /\ list.shown[e] = events[e].status

\* An anomaly that lasts has one event: of the events of the last quarter of an hour
\* at most one is live, unless two scans of the equipment met or an operator
\* acknowledged an event that was closed.
OneLiveEvent ==
    irregular \/ Cardinality({e \in DOMAIN events : events[e].fresh /\ events[e].status # "closed"}) <= 1
====
