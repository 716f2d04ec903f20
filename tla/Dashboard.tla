---- MODULE Dashboard ----
(***************************************************************************)
(* The chart of DashboardPage.tsx on top of module Import.  Choosing a tag, *)
(* and an import from the page, ask for the readings of the tag; the answer *)
(* replaces the chart whenever it comes.  Each choice closes the socket and *)
(* opens a new one, whose messages are added to the end of the chart if     *)
(* they are of the tag.  Messages come in the order they were sent; those   *)
(* sent while the socket is down never come.  The server answers with the   *)
(* oldest readings up to a limit.                                           *)
(***************************************************************************)
EXTENDS Import, FiniteSets, FiniteSetsExt

CONSTANTS
    FirstTag,   \* the first tag of the list
    Take,       \* readings(): take 2000
    MaxAsks     \* bound: requests for readings

ASSUME DashboardAssumption == FirstTag \in Tags /\ Take \in Nat \ {0} /\ MaxAsks \in Nat

VARIABLES
    chart,    \* the tag, the points shown, and what is known about them
    asks,     \* the requests for readings, in the order they were made
    socket    \* whether it is up, how many messages it is past, and imports noticed

dashVars == <<importVars, chart, asks, socket>>

NoTag == "no tag"

DashInit ==
    /\ ImportInit
    /\ chart = [tag |-> NoTag, points |-> <<>>, inOrder |-> FALSE, gap |-> FALSE]
    /\ asks = <<>>
    /\ socket = [up |-> FALSE, past |-> 0, noticed |-> {}]

----
\* The stored readings of a tag by time, the first Take of them.
StoredTimes(t) == {x \in Times : reading[<<t, x>>] # Missing}

Older(t, x) == {y \in StoredTimes(t) : y < x}

Oldest(t) ==
    LET stored == Cardinality(StoredTimes(t))
        at(n) == CHOOSE x \in StoredTimes(t) : Cardinality(Older(t, x)) = n - 1
    IN  [n \in 1..(IF stored < Take THEN stored ELSE Take) |->
            [tag |-> t, time |-> at(n), value |-> reading[<<t, at(n)>>]]]

Ask(t) == Append(asks, [tag |-> t, phase |-> "sent", points |-> <<>>, gap |-> FALSE])

\* The list of tags has come: the first one, if none is chosen.  Or another one is
\* chosen.  The points stay until the answer.
Select(t) ==
    /\ Len(asks) < MaxAsks
    /\ IF chart.tag = NoTag THEN t = FirstTag ELSE t # chart.tag
    /\ chart' = [chart EXCEPT !.tag = t, !.inOrder = FALSE]
    /\ asks' = Ask(t)
    /\ socket' = [socket EXCEPT !.up = FALSE]
    /\ UNCHANGED importVars

\* The page's own import succeeded.
Refresh(j) ==
    /\ Len(asks) < MaxAsks /\ chart.tag # NoTag
    /\ j \in Uploads /\ job[j].phase = "ended" /\ j \notin socket.noticed
    /\ chart' = [chart EXCEPT !.inOrder = FALSE]
    /\ asks' = Ask(chart.tag)
    /\ socket' = [socket EXCEPT !.noticed = @ \cup {j}]
    /\ UNCHANGED importVars

\* GET telemetry/readings on the server.
ReadReadings(i) ==
    /\ asks[i].phase = "sent"
    /\ asks' = [asks EXCEPT ![i].phase = "read", ![i].points = Oldest(asks[i].tag)]
    /\ UNCHANGED <<importVars, chart, socket>>

\* setReadings(answer), whatever tag is chosen by now.
TakeAnswer(i) ==
    /\ asks[i].phase = "read"
    /\ chart' = [chart EXCEPT !.points = asks[i].points, !.gap = asks[i].gap,
                              !.inOrder = i = Len(asks)]
    /\ asks' = [asks EXCEPT ![i].phase = "done", ![i].points = <<>>]
    /\ UNCHANGED <<importVars, socket>>

AskFails(i) ==
    /\ asks[i].phase \in {"sent", "read"}
    /\ asks' = [asks EXCEPT ![i].phase = "done", ![i].points = <<>>]
    /\ UNCHANGED <<importVars, chart, socket>>

\* History: answers on their way that lack these messages leave a gap.
Lacking(messages) ==
    [i \in DOMAIN asks |->
        [asks[i] EXCEPT !.gap = @ \/ (asks[i].phase = "read" /\ \E m \in messages :
                                        m.tag = asks[i].tag /\ m \notin Range(asks[i].points))]]

\* Up, at first or again: what was sent before never comes.
Connect ==
    LET lost == {sent[n] : n \in (socket.past + 1)..Len(sent)}
    IN  /\ chart.tag # NoTag /\ ~socket.up
        /\ socket' = [socket EXCEPT !.up = TRUE, !.past = Len(sent)]
        /\ chart' = [chart EXCEPT !.gap = @ \/ \E m \in lost : m.tag = chart.tag]
        /\ asks' = Lacking(lost)
        /\ UNCHANGED importVars

Disconnect ==
    /\ socket.up
    /\ socket' = [socket EXCEPT !.up = FALSE]
    /\ UNCHANGED <<importVars, chart, asks>>

\* Variant with a defect: the messages of all tags.
DeliverAll ==
    /\ socket.up /\ socket.past < Len(sent)
    /\ socket' = [socket EXCEPT !.past = @ + 1]
    /\ chart' = [chart EXCEPT !.points = Append(@, sent[socket.past + 1])]
    /\ asks' = Lacking({sent[socket.past + 1]})
    /\ UNCHANGED importVars

\* tag:update: added to the end if it is of the tag.
Deliver ==
    /\ socket.up /\ socket.past < Len(sent)
    /\ socket' = [socket EXCEPT !.past = @ + 1]
    /\ LET m == sent[socket.past + 1]
       IN  /\ chart' = [chart EXCEPT !.points = IF m.tag = chart.tag THEN Append(@, m) ELSE @]
           /\ asks' = Lacking({m})
    /\ UNCHANGED importVars

DashNext ==
    \/ ImportNext /\ UNCHANGED <<chart, asks, socket>>
    \/ \E t \in Tags : Select(t)
    \/ \E j \in Uploads : Refresh(j)
    \/ \E i \in DOMAIN asks : ReadReadings(i) \/ TakeAnswer(i) \/ AskFails(i)
    \/ Connect \/ Disconnect \/ Deliver

DashSpec == DashInit /\ [][DashNext]_dashVars

----
DashTypeOK ==
    /\ ImportTypeOK
    /\ chart.tag \in Tags \cup {NoTag} /\ {chart.inOrder, chart.gap} \subseteq BOOLEAN
    /\ \A i \in DOMAIN asks : /\ asks[i].tag \in Tags /\ asks[i].gap \in BOOLEAN
                              /\ asks[i].phase \in {"sent", "read", "done"}
                              /\ Len(asks[i].points) <= Take
    /\ socket.up \in BOOLEAN /\ socket.past \in 0..Len(sent) /\ socket.noticed \subseteq Uploads

\* Nothing is under way to the page, nor between the table and the room.
Quiet ==
    /\ \A i \in DOMAIN asks : asks[i].phase = "done"
    /\ \A j \in DOMAIN job : job[j].phase # "stored"
    /\ socket.up /\ socket.past = Len(sent)

\* When the answer asked for last was also the last to come, the chart shows points
\* of the chosen tag only; and unless a message was lost since that answer was read,
\* or came before the answer and was replaced by it, the oldest readings up to the
\* limit are there and the last point at each time is the stored reading.
ChartFollowsTag ==
    Quiet /\ chart.inOrder =>
        /\ \A i \in DOMAIN chart.points : chart.points[i].tag = chart.tag
        /\ ~chart.gap => \A m \in Range(Oldest(chart.tag)) :
             <<m.tag, m.time>> \in raced \/
             LET at == {i \in DOMAIN chart.points : chart.points[i].time = m.time}
             IN  at # {} /\ chart.points[Max(at)] = m
====
