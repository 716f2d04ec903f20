---- MODULE MCAuditLog ----
(* Instance of AuditLog for TLC: two callers, two tenants, five ids. *)
EXTENDS AuditLog, TLC

CONSTANTS w1, w2, ta, tb, e1

MCWriters == {w1, w2}
MCTenants == {ta, tb}
MCEntries == {e1}

Symmetry == Permutations(MCWriters) \cup Permutations(MCTenants)
====
