---- MODULE MCBackground ----
(***************************************************************************)
(* Instance for TLC of the work in the background that must come to an end: *)
(* overlapping flushes of the outbox, and overlapping ingests of a tag with *)
(* the upper limits 2 and 3, as the vibration tag of the demo catalog has   *)
(* them, and values below, between and above.  All readings have one time:  *)
(* no decision but the order of the active alarms looks at it, and among    *)
(* equals any one may come first.  The two share no state: each behaviour   *)
(* is one of one part, chosen at the start.                                 *)
(***************************************************************************)
EXTENDS Outbox, Telemetry

CONSTANTS f1, f2, i1, i2

VARIABLE part   \* the part that moves

backgroundVars == <<part, outboxVars, vars>>

MCFlushes == {f1, f2}

MCLimits == [ll |-> {}, lo |-> {}, hi |-> {2}, hh |-> {3}]

\* At rest and with the integration off no flush can do anything: the fairness of the
\* part that does not move asks for nothing.
BackgroundInit ==
    /\ part \in {"outbox", "ingest"}
    /\ OutboxInit /\ Init
    /\ part = "ingest" => ~enabled

BackgroundNext ==
    /\ UNCHANGED part
    /\ \/ part = "outbox" /\ OutboxNext /\ UNCHANGED vars
       \/ part = "ingest" /\ Next /\ UNCHANGED outboxVars

BackgroundFairSpec ==
    BackgroundInit /\ [][BackgroundNext]_backgroundVars /\ OutboxFairness /\ Fairness
====
