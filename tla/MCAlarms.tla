---- MODULE MCAlarms ----
(* Instance of AlarmKpis for TLC: alarms of four tags, one reading at a time. *)
EXTENDS AlarmKpis, TLC

MCSymmetry == Permutations(AlarmTags)
====
