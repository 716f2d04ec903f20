---- MODULE MCWorkOrder ----
(* Instances of WorkOrder for TLC. *)
EXTENDS WorkOrder, TLC

CONSTANTS p1, p2

\* Two requests that may overlap, on an order one of them creates; the users are
\* an administrator, who may send every event, and a technician.
MCRequests == {p1, p2}
MCSymmetry == Permutations(MCRequests)
MCOrders == {"order"}
MCUsers == {"admin", "tech"}
MCRolesOf == ("admin" :> {"ADMIN"}) @@ ("tech" :> {"TECHNICIAN"})
MCTenantOf == [u \in MCUsers |-> "A"]
MCTenants == {"A"}

\* One request at a time; a planner and a technician of one tenant and the
\* administrator of another.
MCOneRequest == {p1}
MCStaff == {"planner", "tech", "admin"}
MCStaffRoles == ("planner" :> {"PLANNER"}) @@ ("tech" :> {"TECHNICIAN"})
             @@ ("admin" :> {"ADMIN"})
MCStaffTenants == [u \in MCStaff |-> IF u = "admin" THEN "B" ELSE "A"]
MCTwoTenants == {"A", "B"}
====
