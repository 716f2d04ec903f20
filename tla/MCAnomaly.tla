---- MODULE MCAnomaly ----
(* Instance of Anomaly for TLC: two scans that may overlap, one flush. *)
EXTENDS Anomaly, TLC

CONSTANTS s1, s2, f1

MCScans == {s1, s2}
MCOneScan == {s1}
MCFlushes == {f1}
MCSymmetry == Permutations(MCScans)
====
