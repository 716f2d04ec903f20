---- MODULE WorkOrderRules ----
(***************************************************************************)
(* The pure part of the work-order component: the XState machine            *)
(* (work-order.machine.ts) as a set of edges, and the CASL rules            *)
(* (casl-ability.factory.ts) as a predicate on a user, an event and the     *)
(* record the user acts on.  Nothing here changes state; the service        *)
(* (WorkOrder) and the abstract specification (WorkOrderMachine) both use   *)
(* these operators.                                                         *)
(***************************************************************************)

CONSTANTS
    Users,        \* user ids
    RolesOf,      \* the roles in a user's token
    TenantOf      \* the tenant in a user's token

RoleNames == {"ADMIN", "PLANNER", "RELIABILITY_ENGINEER", "ENERGY_MANAGER", "TECHNICIAN"}

ASSUME UsersAssumption ==
    /\ DOMAIN RolesOf = Users
    /\ \A u \in Users : RolesOf[u] \subseteq RoleNames
    /\ DOMAIN TenantOf = Users

\* What the database holds where a nullable column is NULL.
None == "null"

ASSUME NoneAssumption == None \notin Users

Statuses == {"draft", "assigned", "inProgress", "pendingApproval", "approved",
             "closed", "cancelled"}

Final == {"closed", "cancelled"}

Events == {"ASSIGN", "START", "SUBMIT_FOR_APPROVAL", "APPROVE", "REJECT", "CLOSE",
           "CANCEL"}

\* The machine's transitions: <<state, event, target>>.
Edges == {<<"draft", "ASSIGN", "assigned">>,
          <<"draft", "CANCEL", "cancelled">>,
          <<"assigned", "START", "inProgress">>,
          <<"assigned", "CANCEL", "cancelled">>,
          <<"inProgress", "SUBMIT_FOR_APPROVAL", "pendingApproval">>,
          <<"pendingApproval", "APPROVE", "approved">>,
          <<"pendingApproval", "REJECT", "inProgress">>,
          <<"approved", "CLOSE", "closed">>}

\* snapshot.can(e) and, when it can, the state after send(e).
Goes(s, e, target) == <<s, e, target>> \in Edges

\* hydrateWorkOrder: a row without a snapshot gets a fresh actor in "draft".
Hydrate(snapshot) == IF snapshot = None THEN "draft" ELSE snapshot

\* createForUser + WORK_ORDER_EVENT_TO_ACTION: may u send e to a record of
\* this tenant assigned to this user?
Able(u, e, tenant, assignedTo) ==
    \/ "ADMIN" \in RolesOf[u]
    \/ /\ RolesOf[u] \cap {"PLANNER", "RELIABILITY_ENGINEER"} # {}
       /\ e \in {"ASSIGN", "APPROVE", "REJECT", "CLOSE", "CANCEL"}
       /\ tenant = TenantOf[u]
    \/ /\ "TECHNICIAN" \in RolesOf[u]
       /\ e \in {"START", "SUBMIT_FOR_APPROVAL"}
       /\ tenant = TenantOf[u]
       /\ assignedTo = u

\* RolesGuard + PoliciesGuard on POST /work-orders.
MayCreate(u) ==
    RolesOf[u] \cap {"ADMIN", "PLANNER", "RELIABILITY_ENGINEER"} # {}
====
