---- MODULE WorkOrder ----
(***************************************************************************)
(* The work-order service (work-order.service.ts) under concurrent HTTP     *)
(* requests, together with the audit log it writes (AuditLog).              *)
(*                                                                          *)
(* A request runs to its next await without interruption, so an action is   *)
(* the code between two awaits.  transition() reads the row, decides on     *)
(* what it read, writes the whole row by id and then calls audit.record();  *)
(* create() inserts the row, writes its first snapshot in a second update   *)
(* and then calls audit.record().  Nothing spans these steps: no lock, no   *)
(* version column, no transaction.                                          *)
(*                                                                          *)
(* The requests that change nothing (404, 403, 422) are the requests that   *)
(* the guards of Load and Create keep out.  The snapshot is abstracted to   *)
(* the state it holds (no code reads its context back), the reason of a     *)
(* rejection to its presence.                                               *)
(***************************************************************************)
EXTENDS WorkOrderRules, Integers, Sequences, FiniteSets

CONSTANTS
    Requests,     \* requests the API is serving at the same time
    Orders,       \* ids of work orders
    Tenants,
    NoCall,
    MaxRows       \* bound: rows of the audit log

ASSUME UserTenantsAssumption == \A u \in Users : TenantOf[u] \in Tenants

ASSUME NoTenantAssumption == None \notin Tenants

VARIABLES
    row,          \* work_orders
    req,          \* requests in progress
    passed,       \* history: states each order has been in, "absent" among them
    lost,         \* history: orders with a stored change that was never audited
    log, call, overlapped

auditState == <<log, call, overlapped>>

vars == <<row, req, passed, lost, log, call, overlapped>>

\* A row of the audit log says which order and which action it is about.
TrailEntry == [order : Orders, action : Events \cup {"CREATE"}]

ASSUME AuditAssumption == MaxRows \in Nat /\ NoCall \notin Tenants /\ NoCall \notin TrailEntry

Audit == INSTANCE AuditLog WITH Writers <- Requests, Entries <- TrailEntry

AbsentRow == [status |-> "absent", snapshot |-> None, tenant |-> None,
              assignedTo |-> None, rejected |-> FALSE]

\* Variant with a defect: the insert forgets the tenant.
DraftRowWithoutTenant(t) == [AbsentRow EXCEPT !.status = "draft"]

DraftRow(t) == [status |-> "draft", snapshot |-> None, tenant |-> t, assignedTo |-> None,
                rejected |-> FALSE]

\* prisma/seed.ts: a draft with its snapshot and, already, a technician.
SeedRow(t, technician) == [status |-> "draft", snapshot |-> "draft", tenant |-> t,
                           assignedTo |-> technician, rejected |-> FALSE]

\* What a request holds between two awaits: phase "created" after the insert of
\* create(), "loaded" after transition() has read, checked and computed.
IdleRequest == [phase |-> "idle", user |-> None, order |-> None, event |-> None,
                write |-> AbsentRow]

Init ==
    /\ row \in [Orders -> {AbsentRow}
                            \cup {SeedRow(TenantOf[u], u) : u \in
                                   {v \in Users : "TECHNICIAN" \in RolesOf[v]}}]
    /\ req = [p \in Requests |-> IdleRequest]
    /\ passed = [o \in Orders |-> {row[o].status}]
    /\ lost = {}
    /\ Audit!AuditInit

----
Free(p) == req[p].phase = "idle" /\ ~Audit!InFlight(p)

\* POST /work-orders (guarded by role and policy) and POST
\* /anomaly-events/:id/work-order (any user of the tenant) both end in create().
Create(p, u, o) ==
    /\ Free(p)
    /\ row[o] = AbsentRow
    /\ \E route \in {"form", "anomaly"} : route = "form" => MayCreate(u)
    /\ row' = [row EXCEPT ![o] = DraftRow(TenantOf[u])]
    /\ passed' = [passed EXCEPT ![o] = @ \cup {"draft"}]
    /\ req' = [req EXCEPT ![p] = [phase |-> "created", user |-> u, order |-> o, event |-> None,
                                  write |-> AbsentRow]]
    /\ UNCHANGED <<lost, log, call, overlapped>>

\* create(): the second update stores the snapshot of a fresh actor, whatever
\* the row has become, and record() is called.
StoreFirstSnapshot(p) ==
    /\ req[p].phase = "created"
    /\ row' = [row EXCEPT ![req[p].order].snapshot = "draft"]
    /\ req' = [req EXCEPT ![p] = IdleRequest]
    /\ Audit!Record(p, row[req[p].order].tenant, [order |-> req[p].order, action |-> "CREATE"])
    /\ UNCHANGED <<passed, lost>>

----
\* Variants with a defect.  The assignee is only taken from the event; it is left
\* out of the data of every other event.
WrittenDroppingAssignee(r, e, target, technician) ==
    [status |-> target, snapshot |-> target, tenant |-> r.tenant,
     assignedTo |-> technician, rejected |-> r.rejected \/ e = "REJECT"]

\* The status column is updated, the snapshot is stored as it was read.
WrittenKeepingSnapshot(r, e, target, technician) ==
    [status |-> target, snapshot |-> r.snapshot, tenant |-> r.tenant,
     assignedTo |-> IF e = "ASSIGN" THEN technician ELSE r.assignedTo,
     rejected |-> r.rejected \/ e = "REJECT"]

\* The data of the update: r is the row as it was read.
Written(r, e, target, technician) ==
    [status |-> target, snapshot |-> target, tenant |-> r.tenant,
     assignedTo |-> IF e = "ASSIGN" THEN technician ELSE r.assignedTo,
     rejected |-> r.rejected \/ e = "REJECT"]

\* Variants with a defect.  transition() without the can() check: an event the
\* state has no edge for is taken at its target anyway.
LoadWithoutCan(p, u, o, e, technician) ==
    /\ Free(p)
    /\ row[o] # AbsentRow
    /\ row[o].tenant = TenantOf[u]
    /\ Able(u, e, row[o].tenant, row[o].assignedTo)
    /\ \E edge \in Edges :
         /\ edge[2] = e
         /\ req' = [req EXCEPT ![p] = [phase |-> "loaded", user |-> u, order |-> o, event |-> e,
                                       write |-> Written(row[o], e, edge[3], technician)]]
    /\ UNCHANGED <<row, passed, lost, log, call, overlapped>>

\* transition() up to the update: findFirst in the user's tenant, assertCanSend,
\* can(), send().
Load(p, u, o, e, technician) ==
    /\ Free(p)
    /\ row[o] # AbsentRow
    /\ row[o].tenant = TenantOf[u]
    /\ Able(u, e, row[o].tenant, row[o].assignedTo)
    /\ \E target \in Statuses :
         /\ Goes(Hydrate(row[o].snapshot), e, target)
         /\ req' = [req EXCEPT ![p] = [phase |-> "loaded", user |-> u, order |-> o, event |-> e,
                                       write |-> Written(row[o], e, target, technician)]]
    /\ UNCHANGED <<row, passed, lost, log, call, overlapped>>

\* Variants with a defect.  Only the columns of the event are written: the rest of
\* the row stays as other requests left it.
StoreEventColumns(p) ==
    /\ req[p].phase = "loaded"
    /\ row' = [row EXCEPT ![req[p].order] =
                 [req[p].write EXCEPT !.assignedTo = IF req[p].event = "ASSIGN" THEN @
                                                     ELSE row[req[p].order].assignedTo]]
    /\ passed' = [passed EXCEPT ![req[p].order] = @ \cup {req[p].write.status}]
    /\ req' = [req EXCEPT ![p] = IdleRequest]
    /\ Audit!Record(p, req[p].write.tenant, [order |-> req[p].order, action |-> req[p].event])
    /\ UNCHANGED lost

\* record() is called before the update, which may then never happen.
AuditBeforeStore(p) ==
    /\ req[p].phase = "loaded"
    /\ \/ /\ ~Audit!InFlight(p)
          /\ Audit!Record(p, req[p].write.tenant,
                          [order |-> req[p].order, action |-> req[p].event])
          /\ UNCHANGED <<row, req, passed, lost>>
       \/ /\ row' = [row EXCEPT ![req[p].order] = req[p].write]
          /\ passed' = [passed EXCEPT ![req[p].order] = @ \cup {req[p].write.status}]
          /\ req' = [req EXCEPT ![p] = IdleRequest]
          /\ UNCHANGED <<lost, log, call, overlapped>>

\* update where id, then record() is called.
Store(p) ==
    /\ req[p].phase = "loaded"
    /\ row' = [row EXCEPT ![req[p].order] = req[p].write]
    /\ passed' = [passed EXCEPT ![req[p].order] = @ \cup {req[p].write.status}]
    /\ req' = [req EXCEPT ![p] = IdleRequest]
    /\ Audit!Record(p, req[p].write.tenant, [order |-> req[p].order, action |-> req[p].event])
    /\ UNCHANGED lost

\* The awaits of record().
AuditStep(p) ==
    /\ Audit!ReadLast(p) \/ Audit!Insert(p) \/ Audit!Commit(p)
    /\ UNCHANGED <<row, req, passed, lost>>

\* A database error or the end of the process between two awaits: what was
\* written stays, the rest of the request never happens.
FailBeforeStore(p) ==
    /\ req[p].phase # "idle"
    /\ req' = [req EXCEPT ![p] = IdleRequest]
    /\ lost' = IF req[p].phase = "created" THEN lost \cup {req[p].order} ELSE lost
    /\ UNCHANGED <<row, passed, log, call, overlapped>>

FailInRecord(p) ==
    /\ Audit!Fail(p)
    /\ lost' = lost \cup {call[p].entry.order}
    /\ UNCHANGED <<row, req, passed>>

Next ==
    \E p \in Requests :
        \/ \E u \in Users, o \in Orders : Create(p, u, o)
        \/ StoreFirstSnapshot(p)
        \/ \E u \in Users, o \in Orders, e \in Events :
             \E technician \in IF e = "ASSIGN" THEN Users ELSE {None} :
                Load(p, u, o, e, technician)
        \/ Store(p)
        \/ AuditStep(p)
        \/ FailBeforeStore(p)
        \/ FailInRecord(p)

Spec == Init /\ [][Next]_vars

----
TypeOK ==
    /\ row \in [Orders -> {AbsentRow} \cup
                 [status : Statuses, snapshot : Statuses \cup {None}, tenant : Tenants,
                  assignedTo : Users \cup {None}, rejected : BOOLEAN]]
    /\ req \in [Requests -> {IdleRequest} \cup
                 [phase : {"created"}, user : Users, order : Orders, event : {None},
                  write : {AbsentRow}] \cup
                 [phase : {"loaded"}, user : Users, order : Orders, event : Events,
                  write : [status : Statuses, snapshot : Statuses, tenant : Tenants,
                           assignedTo : Users \cup {None}, rejected : BOOLEAN]]]
    /\ passed \in [Orders -> SUBSET (Statuses \cup {"absent"})]
    /\ lost \subseteq Orders
    /\ Audit!AuditTypeOK

\* Every state past "draft" and "cancelled" is work on an order somebody was
\* assigned to, in the status column and in the snapshot, whatever requests
\* overtake each other between their read and their update.
AssignedBeforeWork ==
    \A o \in Orders :
        \A s \in {row[o].status, row[o].snapshot} :
            s \in Statuses \ {"draft", "cancelled"} => row[o].assignedTo \in Users

\* The status column and the snapshot are written together; they differ only
\* where the second update of create() came after a transition and put the
\* snapshot back to "draft".
SnapshotFollowsStatus ==
    \A o \in Orders :
        /\ row[o].snapshot = None => row[o].status \in {"absent", "draft"}
        /\ row[o].snapshot \in Statuses \ {"draft"} => row[o].status = row[o].snapshot

\* The stage each state follows.
Before(s) ==
    {edge[1] : edge \in {x \in Edges : x[3] = s /\ x[2] \notin {"REJECT", "CANCEL"}}}

\* Lost updates can move an order back, never past a stage: an order that is
\* approved was submitted, one that is closed was approved, one with a
\* rejection reason has been up for approval.
NoStageSkipped ==
    \A o \in Orders :
        /\ \A s \in passed[o] : Before(s) \subseteq passed[o]
        /\ row[o].status \in passed[o]
        /\ row[o].rejected => "pendingApproval" \in passed[o]

\* The audit trail is written after the change it reports: it never shows a
\* transition between states the order was not in.
TrailIsPassed ==
    \A i \in 1..Len(log) :
        log[i].entry.action # "CREATE" =>
            \E edge \in Edges :
                /\ edge[2] = log[i].entry.action
                /\ {edge[1], edge[3]} \subseteq passed[log[i].entry.order]

\* However stale the row it was decided on, a change that is stored is one its user
\* may make to the row that it leaves: the order stays in his tenant, his roles allow
\* the event (a technician's START or SUBMIT leaves the order his, although another
\* request may have assigned it to someone else since it was read), and the new status
\* follows by the event from one the order has been in.
OnlyAllowedChanges ==
    [][\A p \in Requests : req[p].phase = "loaded" /\ call'[p] # call[p] =>
         LET o == req[p].order
         IN  /\ row[o].tenant = TenantOf[req[p].user] /\ row'[o].tenant = row[o].tenant
             /\ Able(req[p].user, req[p].event, row'[o].tenant, row'[o].assignedTo)
             /\ \E s \in passed[o] : Goes(s, req[p].event, row'[o].status)]_vars

\* docs/en/03-bpms-workflow.md:17: "closed / cancelled | final".
FinalIsFinal ==
    [][\A o \in Orders : row[o].status \in Final => row'[o].status = row[o].status]_vars

----
(* One request at a time. *)

\* The abstract state of an order is the one the next request hydrates.
Machine == INSTANCE WorkOrderMachine WITH
    state <- [o \in Orders |-> IF row[o] = AbsentRow THEN "absent"
                               ELSE Hydrate(row[o].snapshot)],
    tenant <- [o \in Orders |-> row[o].tenant],
    assignee <- [o \in Orders |-> row[o].assignedTo]

\* Requests that do not overlap implement the machine and its access rules.
ImplementsMachine == Machine!MachineSpec

\* The state an order's audit trail leads to, read as the events of the machine.
Replayed(o) ==
    LET after[i \in 0..Len(log)] ==
          IF i = 0 THEN IF "absent" \in passed[o] THEN "absent" ELSE "draft"
          ELSE IF log[i].state # "committed" \/ log[i].entry.order # o THEN after[i - 1]
          ELSE IF log[i].entry.action = "CREATE" /\ after[i - 1] = "absent" THEN "draft"
          ELSE IF \E t \in Statuses : Goes(after[i - 1], log[i].entry.action, t)
               THEN CHOOSE t \in Statuses : Goes(after[i - 1], log[i].entry.action, t)
          ELSE "illegal"
    IN  after[Len(log)]

\* Between requests that did not overlap, the audit trail of an order replays to
\* its status, unless a request failed between the update and the audit row.
TrailReplays ==
    (\A p \in Requests : Free(p)) =>
        \A o \in Orders \ lost : Replayed(o) = row[o].status
====
