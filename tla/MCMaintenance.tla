---- MODULE MCMaintenance ----
(* Small databases of maintenance plans for TLC. *)
EXTENDS Maintenance

CONSTANTS r1, r2, t1, t2

MCRequests == {r1, r2}

MCOneRequest == {r1}

MCTechnicians == {t1, t2}

Overhaul == [hours |-> {6}, due |-> {}, criticality |-> "none"]
Urgent == [hours |-> {3}, due |-> {48}, criticality |-> "critical"]
Late == [hours |-> {5}, due |-> {0}, criticality |-> "low"]
Long == [hours |-> {9}, due |-> {24}, criticality |-> "medium"]
Unknown == [hours |-> {}, due |-> {}, criticality |-> "high"]

MCJobs == {Overhaul, Urgent, Late, Long, Unknown}

\* A day shift of both technicians, and a night shift of one.
MCOptions == {[horizon |-> 6, workingHours |-> 8, technicians |-> MCTechnicians]}
             \cup {[horizon |-> 20, workingHours |-> 8, technicians |-> {t}] : t \in MCTechnicians}

MCSeeds == {<< <<Overhaul, "approved">>, <<Overhaul, "approved">>, <<Urgent, "submitted">> >>,
            << <<Overhaul, "approved">>, <<Urgent, "approved">>, <<Late, "approved">> >>,
            << <<Long, "approved">>, <<Overhaul, "approved">> >>}

MCSymmetry == Permutations(MCRequests) \cup Permutations(MCTechnicians)
====
