---- MODULE MCHistory ----
(***************************************************************************)
(* Instance for TLC of the two tables the API reads whole to judge the      *)
(* past: the audit log and the alarms with their figures.  They share no    *)
(* state: each behaviour is one of one part, chosen at the start.           *)
(***************************************************************************)
EXTENDS MCAuditLog, AlarmKpis

VARIABLE part   \* the part that moves

historyVars == <<part, auditVars, kpiVars>>

MCSymmetry == Permutations(AlarmTags) \cup Permutations(AlarmKinds) \cup Permutations(Observers)

\* Alarms, tags, types and observations together: three alarms of one tag and type and a
\* call, two alarms and two overlapping calls, or three alarms of two tags or two types.
AlarmBound ==
    LET busy == {o \in Observers : Observing(o)}
        tags == {alarms[i].tag : i \in DOMAIN alarms} \cup {observer[o].tag : o \in busy}
        kinds == {alarms[i].kind : i \in DOMAIN alarms} \cup {observer[o].hit : o \in busy}
    IN  Len(alarms) + Cardinality(busy) + Cardinality(tags) + Cardinality(kinds \ {"none"}) < 7

HistoryInit == part \in {"audit", "alarms"} /\ AuditInit /\ KpiInit

HistoryNext ==
    /\ UNCHANGED part
    /\ \/ part = "audit" /\ AuditNext /\ UNCHANGED kpiVars
       \/ part = "alarms" /\ KpiNext /\ AlarmBound' /\ UNCHANGED auditVars

HistorySpec == HistoryInit /\ [][HistoryNext]_historyVars
====
