---- MODULE WorkOrderMachine ----
(***************************************************************************)
(* What the work-order service promises, one step per operation: an order   *)
(* is created in "draft", moves only along the machine's edges, is moved    *)
(* only by a user the CASL rules allow, keeps its assignee once assigned,   *)
(* and stays in a final state.  WorkOrder is shown to implement this        *)
(* specification when its requests do not overlap.                          *)
(***************************************************************************)
EXTENDS WorkOrderRules

CONSTANTS Orders, Tenants

VARIABLES
    state,        \* the machine's state, or "absent"
    tenant,       \* the order's tenant
    assignee      \* who may start and submit it

machineVars == <<state, tenant, assignee>>

\* Orders that exist at the start are drafts of prisma/seed.ts, which may
\* already name a technician.
MachineInit ==
    /\ state \in [Orders -> {"absent", "draft"}]
    /\ tenant \in [Orders -> Tenants \cup {None}]
    /\ assignee \in [Orders -> Users \cup {None}]

MachineCreate(o, u) ==
    /\ state[o] = "absent"
    /\ state' = [state EXCEPT ![o] = "draft"]
    /\ tenant' = [tenant EXCEPT ![o] = TenantOf[u]]
    /\ assignee' = [assignee EXCEPT ![o] = None]

MachineSend(o, u, e, technician) ==
    /\ tenant[o] = TenantOf[u]
    /\ Able(u, e, tenant[o], assignee[o])
    /\ \E target \in Statuses :
         /\ Goes(state[o], e, target)
         /\ state' = [state EXCEPT ![o] = target]
    /\ assignee' = IF e = "ASSIGN" THEN [assignee EXCEPT ![o] = technician] ELSE assignee
    /\ UNCHANGED tenant

MachineNext ==
    \E o \in Orders, u \in Users :
        \/ MachineCreate(o, u)
        \/ \E e \in Events, technician \in Users : MachineSend(o, u, e, technician)

MachineSpec == MachineInit /\ [][MachineNext]_machineVars
====
