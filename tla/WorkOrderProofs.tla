---- MODULE WorkOrderProofs ----
(***************************************************************************)
(* Proofs about WorkOrder, for any number of requests, orders, users and   *)
(* tenants.  The inductive invariant says what a request that has loaded an *)
(* order may still write: a whole row computed from an old one, which is    *)
(* consistent in itself and whose state follows a state the order has been  *)
(* in.  The facts about the audit log come from AuditLogProofs.             *)
(***************************************************************************)
EXTENDS WorkOrder, SequenceTheorems, WellFoundedInduction, TLAPS

AuditP == INSTANCE AuditLogProofs WITH Writers <- Requests, Entries <- TrailEntry

Work == Statuses \ {"draft", "cancelled"}

StoredRow == [status : Statuses, snapshot : Statuses \cup {None}, tenant : Tenants,
              assignedTo : Users \cup {None}, rejected : BOOLEAN]

WrittenRow == [status : Statuses, snapshot : Statuses, tenant : Tenants,
               assignedTo : Users \cup {None}, rejected : BOOLEAN]

CreatedRequest == [phase : {"created"}, user : Users, order : Orders, event : {None},
                   write : {AbsentRow}]

LoadedRequest == [phase : {"loaded"}, user : Users, order : Orders, event : Events,
                  write : WrittenRow]

Types ==
    /\ row \in [Orders -> {AbsentRow} \cup StoredRow]
    /\ req \in [Requests -> {IdleRequest} \cup CreatedRequest \cup LoadedRequest]
    /\ passed \in [Orders -> SUBSET (Statuses \cup {"absent"})]
    /\ lost \subseteq Orders

\* The machine's edges, one by one.
LEMMA GoesCases ==
    ASSUME NEW s, NEW e, NEW t, Goes(s, e, t)
    PROVE  \/ s = "draft" /\ e = "ASSIGN" /\ t = "assigned"
           \/ s = "draft" /\ e = "CANCEL" /\ t = "cancelled"
           \/ s = "assigned" /\ e = "START" /\ t = "inProgress"
           \/ s = "assigned" /\ e = "CANCEL" /\ t = "cancelled"
           \/ s = "inProgress" /\ e = "SUBMIT_FOR_APPROVAL" /\ t = "pendingApproval"
           \/ s = "pendingApproval" /\ e = "APPROVE" /\ t = "approved"
           \/ s = "pendingApproval" /\ e = "REJECT" /\ t = "inProgress"
           \/ s = "approved" /\ e = "CLOSE" /\ t = "closed"
  BY DEF Goes, Edges

\* The stage each state follows.
LEMMA BeforeCases ==
    ASSUME NEW s, NEW b \in Before(s)
    PROVE  \/ s = "assigned" /\ b = "draft"
           \/ s = "inProgress" /\ b = "assigned"
           \/ s = "pendingApproval" /\ b = "inProgress"
           \/ s = "approved" /\ b = "pendingApproval"
           \/ s = "closed" /\ b = "approved"
  <1>1. PICK edge \in Edges : edge[3] = s /\ edge[2] \notin {"REJECT", "CANCEL"} /\ edge[1] = b
    BY DEF Before
  <1>2. Goes(edge[1], edge[2], edge[3])
    BY DEF Goes, Edges
  <1> QED
    BY <1>1, <1>2, GoesCases

LEMMA BeforeRejection == "inProgress" \in Before("pendingApproval")
  <1>1. <<"inProgress", "SUBMIT_FOR_APPROVAL", "pendingApproval">>
            \in {x \in Edges : x[3] = "pendingApproval" /\ x[2] \notin {"REJECT", "CANCEL"}}
    BY DEF Edges
  <1> QED
    BY <1>1 DEF Before

LEMMA NoneIsNoStatus == None \notin Statuses /\ "absent" \notin Statuses /\ None # "absent"
  BY DEF None, Statuses

LEMMA AbsentIsNotStored == AbsentRow \notin StoredRow /\ AbsentRow.status = "absent"
  BY NoneIsNoStatus DEF AbsentRow, StoredRow

----
\* What every row of work_orders satisfies.
RowOK(o) ==
    /\ \A s \in {row[o].status, row[o].snapshot} : s \in Work => row[o].assignedTo \in Users
    /\ row[o].snapshot = None => row[o].status \in {"absent", "draft"}
    /\ row[o].snapshot \in Statuses \ {"draft"} => row[o].status = row[o].snapshot

\* What the history of an order satisfies.
PassedOK(o) ==
    /\ \A s \in passed[o] : Before(s) \subseteq passed[o]
    /\ row[o].status \in passed[o]
    /\ row[o] # AbsentRow => "draft" \in passed[o]
    /\ row[o].rejected => "pendingApproval" \in passed[o]

\* What a request that has loaded an order is about to write.
WriteOK(p) ==
    req[p].phase = "loaded" =>
        LET w == req[p].write
            o == req[p].order
        IN  /\ w.snapshot = w.status
            /\ w.status \in Work => w.assignedTo \in Users
            /\ Before(w.status) \subseteq passed[o]
            /\ "draft" \in passed[o]
            /\ w.rejected => "pendingApproval" \in passed[o]

CreatedOK(p) == req[p].phase # "idle" => row[req[p].order] # AbsentRow

WInv ==
    /\ Types
    /\ \A o \in Orders : RowOK(o) /\ PassedOK(o)
    /\ \A p \in Requests : WriteOK(p) /\ CreatedOK(p)

LEMMA SeedFields ==
    ASSUME NEW t, NEW u
    PROVE  SeedRow(t, u).status = "draft" /\ SeedRow(t, u).snapshot = "draft"
  BY DEF SeedRow

LEMMA InitWInv == Init => WInv
  <1> SUFFICES ASSUME Init PROVE WInv
    OBVIOUS
  <1>1. \A u \in Users : SeedRow(TenantOf[u], u) \in StoredRow
    BY UserTenantsAssumption DEF SeedRow, DraftRow, AbsentRow, StoredRow, Statuses
  <1>2. row \in [Orders -> {AbsentRow} \cup StoredRow]
    BY <1>1 DEF Init
  <1>3. \A o \in Orders : row[o] = AbsentRow \/ \E u \in Users : row[o] = SeedRow(TenantOf[u], u)
    BY DEF Init
  <1>4. \A o \in Orders : row[o].status \in {"absent", "draft"} /\ row[o].snapshot \in {None, "draft"}
                          /\ ~row[o].rejected
    <2> SUFFICES ASSUME NEW o \in Orders
                 PROVE  /\ row[o].status \in {"absent", "draft"}
                        /\ row[o].snapshot \in {None, "draft"} /\ ~row[o].rejected
      OBVIOUS
    <2>1. CASE row[o] = AbsentRow
      BY <2>1 DEF AbsentRow
    <2>2. ASSUME NEW u \in Users, row[o] = SeedRow(TenantOf[u], u)
          PROVE  /\ row[o].status \in {"absent", "draft"}
                 /\ row[o].snapshot \in {None, "draft"} /\ ~row[o].rejected
      BY <2>2 DEF SeedRow
    <2> QED
      BY <1>3, <2>1, <2>2
  <1>5. passed = [o \in Orders |-> {row[o].status}] /\ req = [p \in Requests |-> IdleRequest]
        /\ lost = {}
    BY DEF Init
  <1>6. Types
    BY <1>2, <1>4, <1>5 DEF Types, Statuses
  <1>7. \A o \in Orders : RowOK(o)
    <2> SUFFICES ASSUME NEW o \in Orders PROVE RowOK(o)
      OBVIOUS
    <2>1. \/ row[o] = AbsentRow
          \/ row[o].status = "draft" /\ row[o].snapshot = "draft"
      BY <1>3, SeedFields
    <2> QED
      BY <2>1 DEF RowOK, Work, AbsentRow, None, Statuses
  <1>8. \A o \in Orders : PassedOK(o)
    <2> SUFFICES ASSUME NEW o \in Orders PROVE PassedOK(o)
      OBVIOUS
    <2>1. passed[o] = {row[o].status}
      BY <1>5
    <2>2. \A s \in passed[o] : Before(s) = {}
      BY <1>4, <2>1, BeforeCases
    <2>3. row[o] # AbsentRow => row[o].status = "draft"
      BY <1>3, SeedFields
    <2> QED
      BY <1>4, <2>1, <2>2, <2>3 DEF PassedOK
  <1>9. \A p \in Requests : req[p].phase = "idle"
    BY <1>5 DEF IdleRequest
  <1> QED
    BY <1>6, <1>7, <1>8, <1>9 DEF WInv, WriteOK, CreatedOK

----
\* One step per action.
LEMMA CreateKeepsWInv ==
    ASSUME WInv, NEW p \in Requests, NEW u \in Users, NEW o \in Orders, Create(p, u, o)
    PROVE  WInv'
  <1> DEFINE d == DraftRow(TenantOf[u])
             c == [phase |-> "created", user |-> u, order |-> o, event |-> None,
                   write |-> AbsentRow]
  <1>1. d \in StoredRow /\ d.status = "draft" /\ d.snapshot = None /\ ~d.rejected
    BY UserTenantsAssumption DEF DraftRow, StoredRow, Statuses
  <1>2. c \in CreatedRequest /\ c.phase = "created" /\ c.order = o
    BY DEF CreatedRequest
  <1>3. /\ row' = [row EXCEPT ![o] = d] /\ row[o] = AbsentRow
        /\ passed' = [passed EXCEPT ![o] = @ \cup {"draft"}]
        /\ req' = [req EXCEPT ![p] = c] /\ lost' = lost
    BY DEF Create
  <1> HIDE DEF d, c
  <1>4. Types
    BY DEF WInv
  <1>5. /\ row'[o] = d /\ \A x \in Orders \ {o} : row'[x] = row[x]
        /\ passed'[o] = passed[o] \cup {"draft"} /\ \A x \in Orders \ {o} : passed'[x] = passed[x]
        /\ req'[p] = c /\ \A q \in Requests \ {p} : req'[q] = req[q]
    BY <1>3, <1>4 DEF Types
  <1>6. Types'
    BY <1>1, <1>2, <1>3, <1>4 DEF Types, Statuses
  <1>7. ASSUME NEW x \in Orders PROVE RowOK(x)' /\ PassedOK(x)'
    <2>1. CASE x # o
      BY <1>5, <2>1 DEF WInv, RowOK, PassedOK
    <2>2. CASE x = o
      <3>1. RowOK(x)'
        BY <1>1, <1>5, <2>2, NoneIsNoStatus DEF RowOK, Work
      <3>2. \A s \in passed'[o] : Before(s) \subseteq passed'[o]
        BY <1>5, BeforeCases DEF WInv, PassedOK
      <3> QED
        BY <1>1, <1>5, <2>2, <3>1, <3>2 DEF PassedOK
    <2> QED
      BY <2>1, <2>2
  <1>8. d # AbsentRow
    BY <1>1 DEF AbsentRow
  <1>9. ASSUME NEW q \in Requests PROVE WriteOK(q)' /\ CreatedOK(q)'
    <2>1. CASE q = p
      BY <1>2, <1>5, <1>8, <2>1 DEF WriteOK, CreatedOK
    <2>2. CASE q # p
      <3>1. req'[q] = req[q] /\ WriteOK(q) /\ CreatedOK(q)
        BY <1>5, <2>2 DEF WInv
      <3>2. req[q].phase # "idle" => req[q].order \in Orders
        BY <1>4 DEF Types, IdleRequest, CreatedRequest, LoadedRequest
      <3>3. \A x \in Orders : passed[x] \subseteq passed'[x]
        BY <1>5
      <3>4. \A x \in Orders : row[x] # AbsentRow => row'[x] # AbsentRow
        BY <1>5, <1>8
      <3> QED
        BY <3>1, <3>2, <3>3, <3>4 DEF WriteOK, CreatedOK
    <2> QED
      BY <2>1, <2>2
  <1> QED
    BY <1>6, <1>7, <1>9 DEF WInv

\* A request that ends, or fails before its update, writes nothing any more.
LEMMA RequestEnds ==
    ASSUME Types, NEW p \in Requests, req' = [req EXCEPT ![p] = IdleRequest]
    PROVE  /\ req' \in [Requests -> {IdleRequest} \cup CreatedRequest \cup LoadedRequest]
           /\ req'[p].phase = "idle"
           /\ \A q \in Requests \ {p} : req'[q] = req[q]
  BY DEF Types, IdleRequest

LEMMA OrderOfRequest ==
    ASSUME Types, NEW p \in Requests, req[p].phase # "idle"
    PROVE  req[p].order \in Orders /\ req[p].user \in Users
  BY DEF Types, IdleRequest, CreatedRequest, LoadedRequest

LEMMA StoreFirstSnapshotKeepsWInv ==
    ASSUME WInv, NEW p \in Requests, StoreFirstSnapshot(p)
    PROVE  WInv'
  <1>1. Types /\ req[p].phase = "created"
    BY DEF WInv, StoreFirstSnapshot
  <1>2. PICK o \in Orders : o = req[p].order
    BY <1>1, OrderOfRequest
  <1>3. row[o] # AbsentRow /\ row[o] \in StoredRow
    BY <1>1, <1>2 DEF WInv, CreatedOK, Types
  <1>4. /\ row' = [row EXCEPT ![o].snapshot = "draft"]
        /\ req' = [req EXCEPT ![p] = IdleRequest] /\ passed' = passed /\ lost' = lost
    BY <1>2 DEF StoreFirstSnapshot
  <1>5. /\ row'[o] \in StoredRow /\ row'[o].snapshot = "draft" /\ row'[o].status = row[o].status
        /\ row'[o].assignedTo = row[o].assignedTo /\ (row'[o].rejected <=> row[o].rejected)
        /\ \A x \in Orders \ {o} : row'[x] = row[x]
    BY <1>1, <1>3, <1>4 DEF Types, StoredRow, Statuses
  <1>6. /\ req' \in [Requests -> {IdleRequest} \cup CreatedRequest \cup LoadedRequest]
        /\ req'[p].phase = "idle" /\ \A q \in Requests \ {p} : req'[q] = req[q]
    BY <1>1, <1>4, RequestEnds
  <1>7. Types'
    BY <1>1, <1>4, <1>5, <1>6 DEF Types
  <1>8. ASSUME NEW x \in Orders PROVE RowOK(x)' /\ PassedOK(x)'
    <2>1. CASE x # o
      BY <1>4, <1>5, <2>1 DEF WInv, RowOK, PassedOK
    <2>2. CASE x = o
      <3>1. RowOK(o) /\ PassedOK(o)
        BY DEF WInv
      <3>2. RowOK(x)'
        BY <1>5, <2>2, <3>1, NoneIsNoStatus DEF RowOK, Work, None, Statuses
      <3>3. PassedOK(x)'
        BY <1>3, <1>4, <1>5, <2>2, <3>1 DEF PassedOK
      <3> QED
        BY <3>2, <3>3
    <2> QED
      BY <2>1, <2>2
  <1>9. row'[o] # AbsentRow
    BY <1>5, AbsentIsNotStored
  <1>10. ASSUME NEW q \in Requests PROVE WriteOK(q)' /\ CreatedOK(q)'
    <2>1. CASE q = p
      BY <1>6, <2>1 DEF WriteOK, CreatedOK
    <2>2. CASE q # p
      <3>1. req'[q] = req[q] /\ WriteOK(q) /\ CreatedOK(q)
        BY <1>6, <2>2 DEF WInv
      <3>2. req[q].phase # "idle" => req[q].order \in Orders
        BY <1>1, OrderOfRequest
      <3> QED
        BY <1>4, <1>5, <1>9, <3>1, <3>2 DEF WriteOK, CreatedOK
    <2> QED
      BY <2>1, <2>2
  <1> QED
    BY <1>7, <1>8, <1>10 DEF WInv

\* What hydrating a stored row gives is a state the order has been in.
LEMMA HydratedPassed ==
    ASSUME WInv, NEW o \in Orders, row[o] # AbsentRow
    PROVE  /\ Hydrate(row[o].snapshot) \in passed[o]
           /\ Hydrate(row[o].snapshot) \in Statuses
           /\ Hydrate(row[o].snapshot) \in Work => row[o].assignedTo \in Users
  <1>1. row[o] \in StoredRow /\ RowOK(o) /\ PassedOK(o)
    BY DEF WInv, Types
  <1>2. "draft" \in passed[o]
    BY <1>1 DEF PassedOK
  <1>3. CASE row[o].snapshot = None
    BY <1>2, <1>3 DEF Hydrate, Statuses, Work
  <1>4. CASE row[o].snapshot # None
    <2>1. Hydrate(row[o].snapshot) = row[o].snapshot /\ row[o].snapshot \in Statuses
      BY <1>1, <1>4 DEF Hydrate, StoredRow
    <2>2. row[o].snapshot = "draft" \/ row[o].snapshot = row[o].status
      BY <1>1, <2>1 DEF RowOK
    <2> QED
      BY <1>1, <1>2, <2>1, <2>2 DEF RowOK, PassedOK
  <1> QED
    BY <1>3, <1>4

LEMMA LoadKeepsWInv ==
    ASSUME WInv, NEW p \in Requests, NEW u \in Users, NEW o \in Orders, NEW e \in Events,
           NEW technician \in Users \cup {None}, e = "ASSIGN" => technician \in Users,
           Load(p, u, o, e, technician)
    PROVE  WInv'
  <1>1. Types /\ row[o] # AbsentRow /\ row[o] \in StoredRow
    BY DEF WInv, Load, Types
  <1>2. PICK target \in Statuses :
            /\ Goes(Hydrate(row[o].snapshot), e, target)
            /\ req' = [req EXCEPT ![p] = [phase |-> "loaded", user |-> u, order |-> o, event |-> e,
                                          write |-> Written(row[o], e, target, technician)]]
    BY DEF Load
  <1> DEFINE w == Written(row[o], e, target, technician)
             l == [phase |-> "loaded", user |-> u, order |-> o, event |-> e, write |-> w]
             h == Hydrate(row[o].snapshot)
  <1>3. /\ w \in WrittenRow /\ w.status = target /\ w.snapshot = target
        /\ w.rejected <=> (row[o].rejected \/ e = "REJECT")
        /\ w.assignedTo = IF e = "ASSIGN" THEN technician ELSE row[o].assignedTo
    BY <1>1 DEF Written, WrittenRow, StoredRow
  <1>4. l \in LoadedRequest /\ l.phase = "loaded" /\ l.order = o /\ l.write = w
    BY <1>3 DEF LoadedRequest
  <1>5. h \in passed[o] /\ (h \in Work => row[o].assignedTo \in Users)
    BY <1>1, HydratedPassed
  <1>6. Goes(h, e, target) /\ req' = [req EXCEPT ![p] = l]
        /\ row' = row /\ passed' = passed /\ lost' = lost
    BY <1>2 DEF Load
  <1> HIDE DEF w, l, h
  <1>7. req'[p] = l /\ \A q \in Requests \ {p} : req'[q] = req[q]
    BY <1>1, <1>6 DEF Types
  <1>8. Types'
    BY <1>1, <1>4, <1>6 DEF Types
  <1>9. \A x \in Orders : RowOK(x)' /\ PassedOK(x)'
    BY <1>6 DEF WInv, RowOK, PassedOK
  <1>10. PassedOK(o) /\ "draft" \in passed[o]
    BY <1>1 DEF WInv, PassedOK
  <1>11. target \in Work => w.assignedTo \in Users
    BY <1>3, <1>5, <1>6, GoesCases DEF Work, Statuses
  <1>12. Before(target) \subseteq passed[o]
    <2> SUFFICES ASSUME NEW b \in Before(target) PROVE b \in passed[o]
      OBVIOUS
    <2>1. CASE e = "REJECT"
      <3>1. h = "pendingApproval" /\ target = "inProgress"
        BY <1>6, <2>1, GoesCases
      <3>2. "inProgress" \in passed[o]
        BY <1>5, <1>10, <3>1, BeforeRejection DEF PassedOK
      <3> QED
        BY <1>10, <3>1, <3>2 DEF PassedOK
    <2>2. CASE e # "REJECT"
      <3>1. b = h
        BY <1>6, <2>2, GoesCases, BeforeCases
      <3> QED
        BY <1>5, <3>1
    <2> QED
      BY <2>1, <2>2
  <1>13. w.rejected => "pendingApproval" \in passed[o]
    <2>1. e = "REJECT" => h = "pendingApproval"
      BY <1>6, GoesCases
    <2> QED
      BY <1>3, <1>5, <1>10, <2>1 DEF PassedOK
  <1>14. ASSUME NEW q \in Requests PROVE WriteOK(q)' /\ CreatedOK(q)'
    <2>1. CASE q = p
      BY <1>1, <1>3, <1>4, <1>6, <1>7, <1>10, <1>11, <1>12, <1>13, <2>1 DEF WriteOK, CreatedOK
    <2>2. CASE q # p
      BY <1>6, <1>7, <2>2 DEF WInv, WriteOK, CreatedOK
    <2> QED
      BY <2>1, <2>2
  <1> QED
    BY <1>8, <1>9, <1>14 DEF WInv

LEMMA StoreKeepsWInv ==
    ASSUME WInv, NEW p \in Requests, Store(p)
    PROVE  WInv'
  <1>1. Types /\ req[p].phase = "loaded" /\ req[p] \in LoadedRequest
    BY DEF WInv, Store, Types, IdleRequest, CreatedRequest
  <1>2. PICK o \in Orders : o = req[p].order
    BY <1>1, OrderOfRequest
  <1>3. PICK w \in WrittenRow : w = req[p].write
    BY <1>1 DEF LoadedRequest
  <1>4. /\ row' = [row EXCEPT ![o] = w] /\ lost' = lost
        /\ passed' = [passed EXCEPT ![o] = @ \cup {w.status}]
        /\ req' = [req EXCEPT ![p] = IdleRequest]
    BY <1>2, <1>3 DEF Store
  <1>5. /\ w.snapshot = w.status /\ (w.status \in Work => w.assignedTo \in Users)
        /\ Before(w.status) \subseteq passed[o] /\ "draft" \in passed[o]
        /\ w.rejected => "pendingApproval" \in passed[o]
    BY <1>1, <1>2, <1>3 DEF WInv, WriteOK
  <1>6. /\ row'[o] = w /\ \A x \in Orders \ {o} : row'[x] = row[x]
        /\ passed'[o] = passed[o] \cup {w.status}
        /\ \A x \in Orders \ {o} : passed'[x] = passed[x]
    BY <1>1, <1>4 DEF Types
  <1>7. /\ req' \in [Requests -> {IdleRequest} \cup CreatedRequest \cup LoadedRequest]
        /\ req'[p].phase = "idle" /\ \A q \in Requests \ {p} : req'[q] = req[q]
    BY <1>1, <1>4, RequestEnds
  <1>8. w \in StoredRow /\ w.status \in Statuses /\ w.snapshot \in Statuses
    BY DEF WrittenRow, StoredRow
  <1>9. Types'
    BY <1>1, <1>4, <1>7, <1>8 DEF Types
  <1>10. ASSUME NEW x \in Orders PROVE RowOK(x)' /\ PassedOK(x)'
    <2>1. CASE x # o
      BY <1>6, <2>1 DEF WInv, RowOK, PassedOK
    <2>2. CASE x = o
      <3>1. RowOK(x)'
        BY <1>5, <1>6, <1>8, <2>2, NoneIsNoStatus DEF RowOK
      <3>2. PassedOK(o)
        BY DEF WInv
      <3>3. PassedOK(x)'
        BY <1>5, <1>6, <2>2, <3>2 DEF PassedOK
      <3> QED
        BY <3>1, <3>3
    <2> QED
      BY <2>1, <2>2
  <1>11. w # AbsentRow
    BY <1>8, AbsentIsNotStored
  <1>12. ASSUME NEW q \in Requests PROVE WriteOK(q)' /\ CreatedOK(q)'
    <2>1. CASE q = p
      BY <1>7, <2>1 DEF WriteOK, CreatedOK
    <2>2. CASE q # p
      <3>1. req'[q] = req[q] /\ WriteOK(q) /\ CreatedOK(q)
        BY <1>7, <2>2 DEF WInv
      <3>2. req[q].phase # "idle" => req[q].order \in Orders
        BY <1>1, OrderOfRequest
      <3>3. \A x \in Orders : passed[x] \subseteq passed'[x]
        BY <1>6
      <3>4. \A x \in Orders : row[x] # AbsentRow => row'[x] # AbsentRow
        BY <1>6, <1>11
      <3> QED
        BY <3>1, <3>2, <3>3, <3>4 DEF WriteOK, CreatedOK
    <2> QED
      BY <2>1, <2>2
  <1> QED
    BY <1>9, <1>10, <1>12 DEF WInv

LEMMA FailKeepsWInv ==
    ASSUME WInv, NEW p \in Requests, FailBeforeStore(p)
    PROVE  WInv'
  <1>1. Types /\ req[p].phase # "idle" /\ req[p].order \in Orders
    BY OrderOfRequest DEF WInv, FailBeforeStore
  <1>2. /\ req' = [req EXCEPT ![p] = IdleRequest] /\ row' = row /\ passed' = passed
        /\ lost' \subseteq lost \cup {req[p].order}
    BY DEF FailBeforeStore
  <1>3. /\ req' \in [Requests -> {IdleRequest} \cup CreatedRequest \cup LoadedRequest]
        /\ req'[p].phase = "idle" /\ \A q \in Requests \ {p} : req'[q] = req[q]
    BY <1>1, <1>2, RequestEnds
  <1>4. Types'
    BY <1>1, <1>2, <1>3 DEF Types
  <1>5. \A x \in Orders : RowOK(x)' /\ PassedOK(x)'
    BY <1>2 DEF WInv, RowOK, PassedOK
  <1>6. \A q \in Requests : WriteOK(q)' /\ CreatedOK(q)'
    BY <1>2, <1>3 DEF WInv, WriteOK, CreatedOK
  <1> QED
    BY <1>4, <1>5, <1>6 DEF WInv

----
(* The audit log of the service is the one of AuditLogProofs. *)

LEMMA SameEnter ==
    ASSUME NEW p, NEW t, NEW e, Audit!Record(p, t, e)
    PROVE  AuditP!Enter(p, t, e)
  BY DEF Audit!Record, Audit!Enter, AuditP!Enter, Audit!InFlight, AuditP!InFlight, Audit!Genesis,
         AuditP!Genesis

LEMMA SameSteps ==
    ASSUME NEW p
    PROVE  /\ Audit!ReadLast(p) => AuditP!ReadLast(p)
           /\ Audit!Insert(p) => AuditP!Insert(p)
           /\ Audit!Commit(p) => AuditP!Commit(p)
           /\ Audit!Fail(p) => AuditP!Fail(p)
  BY DEF Audit!ReadLast, AuditP!ReadLast, Audit!Insert, AuditP!Insert, Audit!Commit, AuditP!Commit,
         Audit!Fail, AuditP!Fail, Audit!InFlight, AuditP!InFlight, Audit!IdleCall, AuditP!IdleCall,
         Audit!Genesis, AuditP!Genesis, Audit!IsLast, AuditP!IsLast, Audit!Committed,
         AuditP!Committed

LEMMA SameInit == Audit!AuditInit => AuditP!AuditInit
  BY DEF Audit!AuditInit, AuditP!AuditInit, Audit!IdleCall, AuditP!IdleCall, Audit!Genesis,
         AuditP!Genesis

LEMMA SameType == AuditP!AuditTypeOK => Audit!AuditTypeOK
  BY DEF Audit!AuditTypeOK, AuditP!AuditTypeOK, Audit!InFlight, AuditP!InFlight, Audit!Phases,
         AuditP!Phases

LEMMA RecordKeepsAudit ==
    ASSUME AuditP!RootInv, NEW p \in Requests, NEW t \in Tenants, NEW e \in TrailEntry,
           Audit!Record(p, t, e)
    PROVE  AuditP!RootInv'
  BY SameEnter, AuditP!EnterKeepsRootInv, AuditAssumption

----
\* The entry tells of an edge between states the order has been in.
EntryPassed(entry) ==
    entry.action # "CREATE" =>
        \E edge \in Edges :
            /\ edge[2] = entry.action
            /\ {edge[1], edge[3]} \subseteq passed[entry.order]

\* What a request that has loaded an order will write and then record.
EventPassed(p) ==
    req[p].phase = "loaded" =>
        \E edge \in Edges :
            /\ edge[2] = req[p].event
            /\ edge[1] \in passed[req[p].order]
            /\ edge[3] = req[p].write.status

TrailInv ==
    /\ \A i \in 1..Len(log) : EntryPassed(log[i].entry)
    /\ \A p \in Requests : AuditP!InFlight(p) => EntryPassed(call[p].entry)
    /\ \A p \in Requests : EventPassed(p)

SInv == WInv /\ AuditP!RootInv /\ TrailInv

\* Entries stay true, for the history of an order only grows.
LEMMA EntryStays ==
    ASSUME NEW entry \in TrailEntry, EntryPassed(entry),
           \A o \in Orders : passed[o] \subseteq passed'[o]
    PROVE  EntryPassed(entry)'
  BY DEF EntryPassed, TrailEntry

LEMMA EventStays ==
    ASSUME Types, NEW p \in Requests, EventPassed(p), req'[p] = req[p],
           \A o \in Orders : passed[o] \subseteq passed'[o]
    PROVE  EventPassed(p)'
  <1>1. CASE req[p].phase = "loaded"
    BY <1>1, OrderOfRequest DEF EventPassed
  <1>2. CASE req[p].phase # "loaded"
    BY <1>2 DEF EventPassed
  <1> QED
    BY <1>1, <1>2

LEMMA AuditTypes ==
    ASSUME AuditP!RootInv
    PROVE  /\ log \in Seq(AuditP!Rows) /\ call \in [Requests -> AuditP!Calls]
           /\ \A i \in 1..Len(log) : log[i].entry \in TrailEntry
           /\ \A p \in Requests : AuditP!InFlight(p) => call[p].entry \in TrailEntry
  <1>1. AuditP!AuditTypeOK
    BY DEF AuditP!RootInv
  <1>2. log \in Seq(AuditP!Rows) /\ call \in [Requests -> AuditP!Calls]
    BY <1>1, AuditP!TypeOfLog, AuditAssumption
  <1>3. \A i \in 1..Len(log) : log[i].entry \in TrailEntry
    BY <1>2, AuditP!RowAt, AuditAssumption
  <1> QED
    BY <1>1, <1>2, <1>3 DEF AuditP!AuditTypeOK

\* A request that calls record() records something that happened.
LEMMA CallKeepsTrailInv ==
    ASSUME SInv, NEW p \in Requests, NEW t \in Tenants, NEW entry \in TrailEntry,
           Audit!Record(p, t, entry),
           \A o \in Orders : passed[o] \subseteq passed'[o],
           EntryPassed(entry)',
           req' = [req EXCEPT ![p] = IdleRequest]
    PROVE  TrailInv'
  <1>1. Types /\ TrailInv /\ AuditP!RootInv
    BY DEF SInv, WInv
  <1>2. AuditP!Enter(p, t, entry)
    BY SameEnter
  <1>3. /\ log' = log /\ call'[p].entry = entry
        /\ \A q \in Requests \ {p} : call'[q] = call[q]
    BY <1>1, <1>2, AuditTypes DEF AuditP!Enter
  <1>4. req'[p].phase = "idle" /\ \A q \in Requests \ {p} : req'[q] = req[q]
    BY <1>1, RequestEnds
  <1>5. \A i \in 1..Len(log) : EntryPassed(log[i].entry)'
    <2> SUFFICES ASSUME NEW i \in 1..Len(log) PROVE EntryPassed(log[i].entry)'
      BY <1>3
    <2>1. PICK x \in TrailEntry : x = log[i].entry /\ x = log'[i].entry /\ EntryPassed(x)
      BY <1>1, <1>3, AuditTypes DEF TrailInv
    <2>2. EntryPassed(x)'
      BY <2>1, EntryStays
    <2> QED
      BY <2>1, <2>2
  <1>6. ASSUME NEW q \in Requests, AuditP!InFlight(q)' PROVE EntryPassed(call[q].entry)'
    <2>1. CASE q = p
      BY <1>3, <2>1
    <2>2. CASE q # p
      <3>1. AuditP!InFlight(q) /\ call'[q] = call[q]
        BY <1>3, <1>6, <2>2 DEF AuditP!InFlight
      <3>2. PICK x \in TrailEntry : x = call[q].entry /\ x = call'[q].entry /\ EntryPassed(x)
        BY <1>1, <3>1, AuditTypes DEF TrailInv
      <3>3. EntryPassed(x)'
        BY <3>2, EntryStays
      <3> QED
        BY <3>2, <3>3
    <2> QED
      BY <2>1, <2>2
  <1>7. ASSUME NEW q \in Requests PROVE EventPassed(q)'
    <2>1. CASE q = p
      BY <1>4, <2>1 DEF EventPassed
    <2>2. CASE q # p
      BY <1>1, <1>4, <2>2, EventStays DEF TrailInv
    <2> QED
      BY <2>1, <2>2
  <1> QED
    BY <1>3, <1>5, <1>6, <1>7 DEF TrailInv

\* The other steps leave the log, the calls or both alone.
LEMMA QuietKeepsTrailInv ==
    ASSUME SInv, NEW p \in Requests, log' = log, call' = call,
           \A q \in Requests \ {p} : req'[q] = req[q],
           \A o \in Orders : passed[o] \subseteq passed'[o],
           EventPassed(p)'
    PROVE  TrailInv'
  <1>1. Types /\ TrailInv /\ AuditP!RootInv
    BY DEF SInv, WInv
  <1>2. \A i \in 1..Len(log) : EntryPassed(log[i].entry)'
    <2> SUFFICES ASSUME NEW i \in 1..Len(log) PROVE EntryPassed(log[i].entry)'
      OBVIOUS
    <2>1. PICK x \in TrailEntry : x = log[i].entry /\ x = log'[i].entry /\ EntryPassed(x)
      BY <1>1, AuditTypes DEF TrailInv
    <2> QED
      BY <2>1, EntryStays
  <1>3. ASSUME NEW q \in Requests, AuditP!InFlight(q)' PROVE EntryPassed(call[q].entry)'
    <2>1. AuditP!InFlight(q)
      BY <1>3 DEF AuditP!InFlight
    <2>2. PICK x \in TrailEntry : x = call[q].entry /\ x = call'[q].entry /\ EntryPassed(x)
      BY <1>1, <2>1, AuditTypes DEF TrailInv
    <2> QED
      BY <2>2, EntryStays
  <1>4. ASSUME NEW q \in Requests PROVE EventPassed(q)'
    BY <1>1, EventStays DEF TrailInv
  <1> QED
    BY <1>2, <1>3, <1>4 DEF TrailInv

\* What the steps of record() do to the entries.
LEMMA AuditEntries ==
    ASSUME AuditP!RootInv, NEW p \in Requests,
           AuditP!ReadLast(p) \/ AuditP!Insert(p) \/ AuditP!Commit(p) \/ AuditP!Fail(p)
    PROVE  /\ \A i \in 1..Len(log') : \/ i \in 1..Len(log) /\ log'[i].entry = log[i].entry
                                      \/ AuditP!InFlight(p) /\ log'[i].entry = call[p].entry
           /\ \A q \in Requests : AuditP!InFlight(q)' =>
                AuditP!InFlight(q) /\ call'[q].entry = call[q].entry
  <1>1. AuditP!AuditTypeOK
    BY DEF AuditP!RootInv
  <1>2. /\ log \in Seq(AuditP!Rows) /\ call \in [Requests -> AuditP!Calls]
        /\ Len(log) \in Nat
    BY <1>1, AuditP!TypeOfLog, AuditAssumption
  <1>3. \A q \in Requests : AuditP!InFlight(q)' =>
           AuditP!InFlight(q) /\ call'[q].entry = call[q].entry
    <2>1. ASSUME AuditP!ReadLast(p)
          PROVE  call'[p].entry = call[p].entry /\ call[p].phase = "reading"
                 /\ \A q \in Requests \ {p} : call'[q] = call[q]
      BY <1>2, <2>1 DEF AuditP!ReadLast, AuditP!Calls
    <2>2. ASSUME AuditP!Insert(p)
          PROVE  call'[p].entry = call[p].entry /\ call[p].phase = "computed"
                 /\ \A q \in Requests \ {p} : call'[q] = call[q]
      <3>1. call' = [call EXCEPT ![p].phase = "inserted", ![p].id = Len(log) + 1]
            /\ call[p].phase = "computed"
        BY <2>2 DEF AuditP!Insert
      <3> QED
        BY <1>2, <3>1 DEF AuditP!Calls
    <2>3. ASSUME AuditP!Commit(p) \/ AuditP!Fail(p)
          PROVE  call'[p].phase = "idle" /\ \A q \in Requests \ {p} : call'[q] = call[q]
      BY <1>2, <2>3 DEF AuditP!Commit, AuditP!Fail, AuditP!IdleCall
    <2> QED
      BY <2>1, <2>2, <2>3 DEF AuditP!InFlight
  <1>4. CASE log' = log
    BY <1>3, <1>4
  <1>5. CASE AuditP!Insert(p)
    <2> DEFINE r == [tenant |-> call[p].tenant, entry |-> call[p].entry, prev |-> call[p].prev,
                     state |-> "open"]
    <2>1. call[p].phase = "computed" /\ log' = Append(log, r)
      BY <1>5 DEF AuditP!Insert
    <2>2. AuditP!InFlight(p)
      BY <2>1 DEF AuditP!InFlight
    <2>3. r \in AuditP!Rows /\ r.entry = call[p].entry
      BY <1>1, <1>2, <2>2 DEF AuditP!AuditTypeOK, AuditP!Rows, AuditP!Calls
    <2> HIDE DEF r
    <2>4. /\ Len(log') = Len(log) + 1 /\ log'[Len(log) + 1] = r
          /\ \A j \in 1..Len(log) : log'[j] = log[j]
      BY <1>2, <2>1, <2>3, AuditP!AppendRow, AuditAssumption
    <2>5. \A i \in 1..Len(log') : i \in 1..Len(log) \/ i = Len(log) + 1
      BY <1>2, <2>4
    <2> QED
      BY <1>3, <2>2, <2>3, <2>4, <2>5
  <1>6. ASSUME call[p].phase = "inserted", NEW s \in {"committed", "void"},
               log' = [log EXCEPT ![call[p].id].state = s]
        PROVE  \A i \in 1..Len(log') : i \in 1..Len(log) /\ log'[i].entry = log[i].entry
    <2>1. PICK k \in 1..Len(log) : k = call[p].id
      BY <1>1, <1>6 DEF AuditP!AuditTypeOK
    <2>2. /\ Len(log') = Len(log) /\ log'[k] = [log[k] EXCEPT !.state = s]
          /\ \A j \in 1..Len(log) : j # k => log'[j] = log[j]
      BY <1>2, <1>6, <2>1, AuditP!SetState, AuditAssumption
    <2>3. log'[k].entry = log[k].entry
      BY <2>2
    <2> QED
      BY <2>2, <2>3
  <1>7. CASE AuditP!Commit(p)
    BY <1>3, <1>6, <1>7 DEF AuditP!Commit
  <1>8. CASE AuditP!Fail(p)
    <2>1. CASE call[p].phase = "inserted"
      BY <1>3, <1>6, <1>8, <2>1 DEF AuditP!Fail
    <2>2. CASE call[p].phase # "inserted"
      BY <1>4, <1>8, <2>2 DEF AuditP!Fail
    <2> QED
      BY <2>1, <2>2
  <1>9. CASE AuditP!ReadLast(p)
    BY <1>4, <1>9 DEF AuditP!ReadLast
  <1> QED
    BY <1>5, <1>7, <1>8, <1>9

LEMMA AuditKeepsTrailInv ==
    ASSUME SInv, NEW p \in Requests,
           AuditP!ReadLast(p) \/ AuditP!Insert(p) \/ AuditP!Commit(p) \/ AuditP!Fail(p),
           req' = req, passed' = passed
    PROVE  TrailInv'
  <1>1. TrailInv /\ AuditP!RootInv
    BY DEF SInv
  <1>2. ASSUME NEW x, EntryPassed(x) PROVE EntryPassed(x)'
    BY <1>2 DEF EntryPassed
  <1>3. ASSUME NEW i \in 1..Len(log') PROVE EntryPassed(log[i].entry)'
    <2>1. PICK x : x = log'[i].entry /\ EntryPassed(x)
      BY <1>1, AuditEntries DEF TrailInv
    <2> QED
      BY <1>2, <2>1
  <1>4. ASSUME NEW q \in Requests, AuditP!InFlight(q)' PROVE EntryPassed(call[q].entry)'
    <2>1. PICK x : x = call'[q].entry /\ EntryPassed(x)
      BY <1>1, <1>4, AuditEntries DEF TrailInv
    <2> QED
      BY <1>2, <2>1
  <1>5. \A q \in Requests : EventPassed(q)'
    BY <1>1 DEF TrailInv, EventPassed
  <1> QED
    BY <1>3, <1>4, <1>5 DEF TrailInv

----
LEMMA InitSInv == Init => SInv
  <1> SUFFICES ASSUME Init PROVE SInv
    OBVIOUS
  <1>1. WInv
    BY InitWInv
  <1>2. AuditP!RootInv
    BY SameInit, AuditP!InitRootInv, AuditAssumption DEF Init
  <1>3. log = <<>> /\ (\A p \in Requests : call[p].phase = "idle" /\ req[p].phase = "idle")
    BY DEF Init, Audit!AuditInit, Audit!IdleCall, IdleRequest
  <1> QED
    BY <1>1, <1>2, <1>3 DEF SInv, TrailInv, AuditP!InFlight, EventPassed

LEMMA SameAudit ==
    ASSUME AuditP!RootInv, log' = log, call' = call, overlapped' = overlapped
    PROVE  AuditP!RootInv'
  BY AuditP!NextKeepsRootInv, AuditAssumption DEF AuditP!auditVars

LEMMA AuditStepKeeps ==
    ASSUME AuditP!RootInv, NEW p \in Requests,
           AuditP!ReadLast(p) \/ AuditP!Insert(p) \/ AuditP!Commit(p) \/ AuditP!Fail(p)
    PROVE  AuditP!RootInv'
  BY AuditP!ReadLastKeepsRootInv, AuditP!InsertKeepsRootInv, AuditP!CommitKeepsRootInv,
     AuditP!FailKeepsRootInv, AuditAssumption

LEMMA CreateKeepsSInv ==
    ASSUME SInv, NEW p \in Requests, NEW u \in Users, NEW o \in Orders, Create(p, u, o)
    PROVE  SInv'
  <1>1. WInv' /\ AuditP!RootInv'
    BY CreateKeepsWInv, SameAudit DEF SInv, Create
  <1>2. Types
    BY DEF SInv, WInv
  <1>3. /\ req'[p].phase = "created" /\ \A q \in Requests \ {p} : req'[q] = req[q]
        /\ log' = log /\ call' = call
    BY <1>2 DEF Create, Types
  <1>4. \A x \in Orders : passed[x] \subseteq passed'[x]
    BY <1>2 DEF Create, Types
  <1>5. EventPassed(p)'
    BY <1>3 DEF EventPassed
  <1> QED
    BY <1>1, <1>3, <1>4, <1>5, QuietKeepsTrailInv DEF SInv

LEMMA StoreFirstSnapshotKeepsSInv ==
    ASSUME SInv, NEW p \in Requests, StoreFirstSnapshot(p)
    PROVE  SInv'
  <1>1. Types /\ req[p].phase = "created" /\ CreatedOK(p)
    BY DEF SInv, WInv, StoreFirstSnapshot
  <1>2. PICK o \in Orders : o = req[p].order
    BY <1>1, OrderOfRequest
  <1> DEFINE entry == [order |-> o, action |-> "CREATE"]
  <1>3. row[o].tenant \in Tenants
    BY <1>1, <1>2 DEF Types, CreatedOK, StoredRow
  <1>4. entry \in TrailEntry /\ entry.action = "CREATE"
    BY DEF TrailEntry
  <1>5. Audit!Record(p, row[o].tenant, entry) /\ req' = [req EXCEPT ![p] = IdleRequest]
        /\ passed' = passed
    BY <1>2 DEF StoreFirstSnapshot
  <1> HIDE DEF entry
  <1>6. PICK x \in TrailEntry : x = entry
    BY <1>4
  <1>7. EntryPassed(x)'
    BY <1>4, <1>6 DEF EntryPassed
  <1>8. TrailInv'
    BY <1>3, <1>5, <1>6, <1>7, CallKeepsTrailInv
  <1>9. AuditP!RootInv'
    BY <1>3, <1>4, <1>5, RecordKeepsAudit DEF SInv
  <1> QED
    BY <1>8, <1>9, StoreFirstSnapshotKeepsWInv DEF SInv

LEMMA LoadKeepsSInv ==
    ASSUME SInv, NEW p \in Requests, NEW u \in Users, NEW o \in Orders, NEW e \in Events,
           NEW technician \in Users \cup {None}, e = "ASSIGN" => technician \in Users,
           Load(p, u, o, e, technician)
    PROVE  SInv'
  <1>1. WInv' /\ AuditP!RootInv'
    BY LoadKeepsWInv, SameAudit DEF SInv, Load
  <1>2. Types /\ WInv /\ row[o] # AbsentRow
    BY DEF SInv, WInv, Load
  <1>3. PICK target \in Statuses :
            /\ Goes(Hydrate(row[o].snapshot), e, target)
            /\ req' = [req EXCEPT ![p] = [phase |-> "loaded", user |-> u, order |-> o, event |-> e,
                                          write |-> Written(row[o], e, target, technician)]]
    BY DEF Load
  <1>4. /\ req'[p].order = o /\ req'[p].event = e
        /\ req'[p].write.status = target
        /\ \A q \in Requests \ {p} : req'[q] = req[q]
    BY <1>2, <1>3 DEF Types, Written
  <1>5. log' = log /\ call' = call /\ passed' = passed
    BY DEF Load
  <1>6. EventPassed(p)'
    <2>1. PICK edge \in Edges : edge = <<Hydrate(row[o].snapshot), e, target>>
      BY <1>3 DEF Goes
    <2>2. edge[1] \in passed[o] /\ edge[2] = e /\ edge[3] = target
      BY <1>2, <2>1, HydratedPassed
    <2> QED
      BY <1>4, <1>5, <2>2 DEF EventPassed
  <1> QED
    BY <1>1, <1>4, <1>5, <1>6, QuietKeepsTrailInv DEF SInv

LEMMA StoreKeepsSInv ==
    ASSUME SInv, NEW p \in Requests, Store(p)
    PROVE  SInv'
  <1>1. Types /\ req[p].phase = "loaded" /\ req[p] \in LoadedRequest /\ EventPassed(p)
    BY DEF SInv, WInv, Store, Types, IdleRequest, CreatedRequest, TrailInv
  <1>2. PICK o \in Orders : o = req[p].order
    BY <1>1, OrderOfRequest
  <1>3. PICK w \in WrittenRow : w = req[p].write
    BY <1>1 DEF LoadedRequest
  <1>4. PICK e \in Events : e = req[p].event
    BY <1>1 DEF LoadedRequest
  <1> DEFINE entry == [order |-> o, action |-> e]
  <1>5. entry \in TrailEntry /\ entry.action = e /\ entry.order = o
    BY DEF TrailEntry
  <1>6. /\ Audit!Record(p, w.tenant, entry) /\ req' = [req EXCEPT ![p] = IdleRequest]
        /\ passed' = [passed EXCEPT ![o] = @ \cup {w.status}]
    BY <1>2, <1>3, <1>4 DEF Store
  <1> HIDE DEF entry
  <1>7. w.tenant \in Tenants
    BY DEF WrittenRow
  <1>8. passed'[o] = passed[o] \cup {w.status} /\ \A x \in Orders : passed[x] \subseteq passed'[x]
    BY <1>1, <1>6 DEF Types
  <1>9. PICK x \in TrailEntry : x = entry
    BY <1>5
  <1>10. EntryPassed(x)'
    <2>1. PICK edge \in Edges : edge[2] = e /\ edge[1] \in passed[o] /\ edge[3] = w.status
      BY <1>1, <1>2, <1>3, <1>4 DEF EventPassed
    <2>2. {edge[1], edge[3]} \subseteq passed'[x.order] /\ edge[2] = x.action
      BY <1>5, <1>8, <1>9, <2>1
    <2> QED
      BY <2>2 DEF EntryPassed
  <1>11. TrailInv'
    BY <1>6, <1>7, <1>8, <1>9, <1>10, CallKeepsTrailInv
  <1>12. AuditP!RootInv'
    BY <1>5, <1>6, <1>7, RecordKeepsAudit DEF SInv
  <1> QED
    BY <1>11, <1>12, StoreKeepsWInv DEF SInv

\* The steps of record() leave the orders and the requests alone.
LEMMA RecordStepsKeepSInv ==
    ASSUME SInv, NEW p \in Requests,
           AuditP!ReadLast(p) \/ AuditP!Insert(p) \/ AuditP!Commit(p) \/ AuditP!Fail(p),
           row' = row, req' = req, passed' = passed, lost' \subseteq Orders
    PROVE  SInv'
  <1>1. WInv'
    BY DEF SInv, WInv, Types, RowOK, PassedOK, WriteOK, CreatedOK
  <1>2. AuditP!RootInv'
    BY AuditStepKeeps DEF SInv
  <1>3. TrailInv'
    BY AuditKeepsTrailInv
  <1> QED
    BY <1>1, <1>2, <1>3 DEF SInv

LEMMA AuditStepKeepsSInv ==
    ASSUME SInv, NEW p \in Requests, AuditStep(p)
    PROVE  SInv'
  <1>1. AuditP!ReadLast(p) \/ AuditP!Insert(p) \/ AuditP!Commit(p)
    BY SameSteps DEF AuditStep
  <1>2. row' = row /\ req' = req /\ passed' = passed /\ lost' \subseteq Orders
    BY DEF AuditStep, SInv, WInv, Types
  <1> QED
    BY <1>1, <1>2, RecordStepsKeepSInv

LEMMA FailInRecordKeepsSInv ==
    ASSUME SInv, NEW p \in Requests, FailInRecord(p)
    PROVE  SInv'
  <1>1. AuditP!Fail(p)
    BY SameSteps DEF FailInRecord
  <1>2. AuditP!InFlight(p) /\ AuditP!RootInv
    BY <1>1 DEF AuditP!Fail, SInv
  <1>3. call[p].entry.order \in Orders
    BY <1>2, AuditTypes DEF TrailEntry
  <1>4. row' = row /\ req' = req /\ passed' = passed /\ lost' \subseteq Orders
    BY <1>3 DEF FailInRecord, SInv, WInv, Types
  <1> QED
    BY <1>1, <1>4, RecordStepsKeepSInv

LEMMA FailBeforeStoreKeepsSInv ==
    ASSUME SInv, NEW p \in Requests, FailBeforeStore(p)
    PROVE  SInv'
  <1>1. WInv' /\ AuditP!RootInv'
    BY FailKeepsWInv, SameAudit DEF SInv, FailBeforeStore
  <1>2. Types /\ req' = [req EXCEPT ![p] = IdleRequest] /\ log' = log /\ call' = call
        /\ passed' = passed
    BY DEF SInv, WInv, FailBeforeStore
  <1>3. req'[p].phase = "idle" /\ \A q \in Requests \ {p} : req'[q] = req[q]
    BY <1>2, RequestEnds
  <1>4. EventPassed(p)'
    BY <1>3 DEF EventPassed
  <1>5. \A o \in Orders : passed[o] \subseteq passed'[o]
    BY <1>2
  <1> QED
    BY <1>1, <1>2, <1>3, <1>4, <1>5, QuietKeepsTrailInv DEF SInv

LEMMA StutterKeepsSInv ==
    ASSUME SInv, UNCHANGED vars
    PROVE  SInv'
  <1>1. /\ row' = row /\ req' = req /\ passed' = passed /\ lost' = lost
        /\ log' = log /\ call' = call /\ overlapped' = overlapped
    BY DEF vars
  <1>2. WInv'
    BY <1>1 DEF SInv, WInv, Types, RowOK, PassedOK, WriteOK, CreatedOK
  <1>3. AuditP!RootInv'
    BY <1>1, SameAudit DEF SInv
  <1>4. TrailInv'
    BY <1>1 DEF SInv, TrailInv, EntryPassed, EventPassed, AuditP!InFlight
  <1> QED
    BY <1>2, <1>3, <1>4 DEF SInv

LEMMA NextKeepsSInv == SInv /\ [Next]_vars => SInv'
  <1> SUFFICES ASSUME SInv, [Next]_vars PROVE SInv'
    OBVIOUS
  <1>1. CASE UNCHANGED vars
    BY <1>1, StutterKeepsSInv
  <1>2. ASSUME NEW p \in Requests, NEW u \in Users, NEW o \in Orders, Create(p, u, o)
        PROVE  SInv'
    BY <1>2, CreateKeepsSInv
  <1>3. ASSUME NEW p \in Requests, StoreFirstSnapshot(p) PROVE SInv'
    BY <1>3, StoreFirstSnapshotKeepsSInv
  <1>4. ASSUME NEW p \in Requests, NEW u \in Users, NEW o \in Orders, NEW e \in Events,
               NEW technician \in IF e = "ASSIGN" THEN Users ELSE {None},
               Load(p, u, o, e, technician)
        PROVE  SInv'
    <2>1. technician \in Users \cup {None} /\ (e = "ASSIGN" => technician \in Users)
      OBVIOUS
    <2> QED
      BY <1>4, <2>1, LoadKeepsSInv
  <1>5. ASSUME NEW p \in Requests, Store(p) PROVE SInv'
    BY <1>5, StoreKeepsSInv
  <1>6. ASSUME NEW p \in Requests, AuditStep(p) PROVE SInv'
    BY <1>6, AuditStepKeepsSInv
  <1>7. ASSUME NEW p \in Requests, FailBeforeStore(p) PROVE SInv'
    BY <1>7, FailBeforeStoreKeepsSInv
  <1>8. ASSUME NEW p \in Requests, FailInRecord(p) PROVE SInv'
    BY <1>8, FailInRecordKeepsSInv
  <1> QED
    BY <1>1, <1>2, <1>3, <1>4, <1>5, <1>6, <1>7, <1>8 DEF Next

LEMMA InductiveInvariant == Spec => []SInv
  <1>1. Init => SInv
    BY InitSInv
  <1>2. SInv /\ [Next]_vars => SInv'
    BY NextKeepsSInv
  <1> QED
    BY <1>1, <1>2, PTL DEF Spec

----
\* The tables, the requests in progress and the audit log they write keep their
\* shape: no request writes a row without a tenant or with a half-built status.
THEOREM TypeCorrect == Spec => []TypeOK
  <1>1. SInv => TypeOK
    <2> SUFFICES ASSUME SInv PROVE TypeOK
      OBVIOUS
    <2>1. Types /\ Audit!AuditTypeOK
      BY SameType DEF SInv, WInv, AuditP!RootInv
    <2> QED
      BY <2>1 DEF Types, TypeOK, StoredRow, CreatedRequest, LoadedRequest, WrittenRow
  <1> QED
    BY <1>1, InductiveInvariant, PTL

\* For any number of overlapping transition() and create() calls, no order is in
\* a working state, by column or snapshot, without an assignee.
THEOREM WorkIsAssigned == Spec => []AssignedBeforeWork
  <1>1. SInv => AssignedBeforeWork
    BY DEF SInv, WInv, RowOK, Work, AssignedBeforeWork
  <1> QED
    BY <1>1, InductiveInvariant, PTL

\* For any number of overlapping requests, a snapshot other than "draft" is the
\* one the status column shows.
THEOREM SnapshotsFollow == Spec => []SnapshotFollowsStatus
  <1>1. SInv => SnapshotFollowsStatus
    BY DEF SInv, WInv, RowOK, SnapshotFollowsStatus
  <1> QED
    BY <1>1, InductiveInvariant, PTL

\* For any number of overlapping requests, an order has been in every stage that
\* comes before the stages it has been in.
THEOREM StagesInOrder == Spec => []NoStageSkipped
  <1>1. SInv => NoStageSkipped
    BY DEF SInv, WInv, PassedOK, NoStageSkipped
  <1> QED
    BY <1>1, InductiveInvariant, PTL

\* For any number of overlapping requests and failures, an audit row of a
\* transition is about two states its order has been in.
THEOREM TrailTellsThePast == Spec => []TrailIsPassed
  <1>1. SInv => TrailIsPassed
    BY DEF SInv, TrailInv, EntryPassed, TrailIsPassed
  <1> QED
    BY <1>1, InductiveInvariant, PTL

----
(* What a request writes, however stale the row it has read. *)

\* What a request that has loaded an order is about to write is in its user's tenant,
\* as the row still is, and its user's roles allow the event on it.
WriteAllowed(p) ==
    req[p].phase = "loaded" =>
        LET u == req[p].user
            w == req[p].write
        IN  /\ row[req[p].order].tenant = TenantOf[u]
            /\ w.tenant = TenantOf[u]
            /\ Able(u, req[p].event, w.tenant, w.assignedTo)

\* A request with work before it is not inside record() yet.
AllowedInv ==
    \A p \in Requests :
        /\ req[p].phase # "idle" => ~AuditP!InFlight(p)
        /\ WriteAllowed(p)

\* A row that is in the table stays in its tenant.
TenantsStay == \A o \in Orders : row[o] # AbsentRow => row'[o].tenant = row[o].tenant

LEMMA InitAllowedInv == Init => AllowedInv
  BY DEF Init, AllowedInv, WriteAllowed, IdleRequest

\* What a request is about to write stays allowed while the others act.
LEMMA AllowedStays ==
    ASSUME SInv, AllowedInv, TenantsStay, NEW q \in Requests, req'[q] = req[q],
           AuditP!InFlight(q)' => AuditP!InFlight(q)
    PROVE  (req'[q].phase # "idle" => ~AuditP!InFlight(q)') /\ WriteAllowed(q)'
  <1>1. req[q].phase # "idle" => req[q].order \in Orders /\ row[req[q].order] # AbsentRow
    BY OrderOfRequest DEF SInv, WInv, CreatedOK
  <1>2. req[q].phase # "idle" => row'[req[q].order].tenant = row[req[q].order].tenant
    BY <1>1 DEF TenantsStay
  <1> QED
    BY <1>2 DEF AllowedInv, WriteAllowed

\* An action of a request p leaves the others with what they had.
LEMMA OthersAllowed ==
    ASSUME SInv, AllowedInv, TenantsStay, NEW p \in Requests,
           \A q \in Requests \ {p} : req'[q] = req[q] /\ call'[q] = call[q],
           (req'[p].phase # "idle" => ~AuditP!InFlight(p)') /\ WriteAllowed(p)'
    PROVE  AllowedInv'
  <1>1. ASSUME NEW q \in Requests \ {p}
        PROVE  (req'[q].phase # "idle" => ~AuditP!InFlight(q)') /\ WriteAllowed(q)'
    BY AllowedStays DEF AuditP!InFlight
  <1> QED
    BY <1>1 DEF AllowedInv

LEMMA CreateKeepsAllowed ==
    ASSUME SInv, AllowedInv, NEW p \in Requests, NEW u \in Users, NEW o \in Orders, Create(p, u, o)
    PROVE  AllowedInv'
  <1>1. Types /\ ~AuditP!InFlight(p)
    BY DEF SInv, WInv, Create, Free, Audit!InFlight, AuditP!InFlight
  <1>2. /\ req'[p].phase = "created" /\ \A q \in Requests \ {p} : req'[q] = req[q]
        /\ call' = call /\ TenantsStay
    BY <1>1 DEF Create, Types, TenantsStay
  <1> QED
    BY <1>1, <1>2, OthersAllowed DEF WriteAllowed, AuditP!InFlight

\* The row to be written keeps the tenant of the row that was read and, but for ASSIGN,
\* its assignee; what the roles allow on ASSIGN does not depend on the assignee.
LEMMA LoadKeepsAllowed ==
    ASSUME SInv, AllowedInv, NEW p \in Requests, NEW u \in Users, NEW o \in Orders, NEW e \in Events,
           NEW technician, Load(p, u, o, e, technician)
    PROVE  AllowedInv'
  <1>1. /\ Types /\ ~AuditP!InFlight(p) /\ row[o].tenant = TenantOf[u]
        /\ Able(u, e, row[o].tenant, row[o].assignedTo)
    BY DEF SInv, WInv, Load, Free, Audit!InFlight, AuditP!InFlight
  <1>2. PICK target \in Statuses :
            req' = [req EXCEPT ![p] = [phase |-> "loaded", user |-> u, order |-> o, event |-> e,
                                       write |-> Written(row[o], e, target, technician)]]
    BY DEF Load
  <1>3. /\ req'[p].user = u /\ req'[p].event = e /\ req'[p].order = o
        /\ req'[p].write.tenant = row[o].tenant
        /\ e # "ASSIGN" => req'[p].write.assignedTo = row[o].assignedTo
        /\ \A q \in Requests \ {p} : req'[q] = req[q]
        /\ call' = call /\ row' = row
    BY <1>1, <1>2 DEF Types, Written, Load
  <1>4. Able(u, e, req'[p].write.tenant, req'[p].write.assignedTo)
    BY <1>1, <1>3 DEF Able
  <1>5. WriteAllowed(p)' /\ ~AuditP!InFlight(p)' /\ TenantsStay
    BY <1>1, <1>3, <1>4 DEF WriteAllowed, AuditP!InFlight, TenantsStay
  <1> QED
    BY <1>3, <1>5, OthersAllowed

\* The steps that end a request and may start its record() call.
LEMMA EndKeepsAllowed ==
    ASSUME SInv, AllowedInv, TenantsStay, NEW p \in Requests, req' = [req EXCEPT ![p] = IdleRequest],
           \A q \in Requests \ {p} : call'[q] = call[q]
    PROVE  AllowedInv'
  <1>1. req'[p].phase = "idle" /\ \A q \in Requests \ {p} : req'[q] = req[q]
    BY RequestEnds DEF SInv, WInv
  <1> QED
    BY <1>1, OthersAllowed DEF WriteAllowed

LEMMA RecordTouchesOne ==
    ASSUME SInv, NEW p \in Requests, NEW t, NEW e, Audit!Record(p, t, e)
    PROVE  \A q \in Requests \ {p} : call'[q] = call[q]
  BY SameEnter, AuditTypes DEF SInv, AuditP!Enter

\* The second update of create() writes the snapshot alone.
LEMMA FirstSnapshotKeepsTenants ==
    ASSUME SInv, NEW p \in Requests, StoreFirstSnapshot(p)
    PROVE  TenantsStay
  <1>1. Types /\ req[p].order \in Orders
    BY OrderOfRequest DEF SInv, WInv, StoreFirstSnapshot
  <1> QED
    BY <1>1, AbsentIsNotStored DEF StoreFirstSnapshot, Types, TenantsStay, StoredRow

\* An update writes the tenant that the row has.
LEMMA StoreWrites ==
    ASSUME SInv, AllowedInv, NEW p \in Requests, Store(p)
    PROVE  row'[req[p].order] = req[p].write /\ TenantsStay
  <1>1. Types /\ req[p].order \in Orders /\ req[p].phase = "loaded"
    BY OrderOfRequest DEF SInv, WInv, Store
  <1>2. /\ row'[req[p].order] = req[p].write
        /\ \A o \in Orders \ {req[p].order} : row'[o] = row[o]
    BY <1>1 DEF Store, Types
  <1>3. req[p].write.tenant = row[req[p].order].tenant
    BY <1>1 DEF AllowedInv, WriteAllowed
  <1> QED
    BY <1>2, <1>3 DEF TenantsStay

\* The steps of record() start from a call in flight and leave the others alone.
LEMMA RecordStepsKeepAllowed ==
    ASSUME SInv, AllowedInv, NEW p \in Requests, req' = req, row' = row,
           AuditP!ReadLast(p) \/ AuditP!Insert(p) \/ AuditP!Commit(p) \/ AuditP!Fail(p)
    PROVE  AllowedInv'
  <1>1. \A q \in Requests : AuditP!InFlight(q)' => AuditP!InFlight(q)
    BY AuditEntries DEF SInv
  <1>2. TenantsStay
    BY DEF TenantsStay
  <1> QED
    BY <1>1, <1>2, AllowedStays DEF AllowedInv

LEMMA NextKeepsAllowed == SInv /\ AllowedInv /\ [Next]_vars => AllowedInv'
  <1> SUFFICES ASSUME SInv, AllowedInv, [Next]_vars PROVE AllowedInv'
    OBVIOUS
  <1>1. CASE UNCHANGED vars
    BY <1>1 DEF vars, AllowedInv, WriteAllowed, AuditP!InFlight
  <1>2. ASSUME NEW p \in Requests, NEW u \in Users, NEW o \in Orders, Create(p, u, o)
        PROVE  AllowedInv'
    BY <1>2, CreateKeepsAllowed
  <1>3. ASSUME NEW p \in Requests, StoreFirstSnapshot(p) PROVE AllowedInv'
    BY <1>3, EndKeepsAllowed, FirstSnapshotKeepsTenants, RecordTouchesOne DEF StoreFirstSnapshot
  <1>4. ASSUME NEW p \in Requests, NEW u \in Users, NEW o \in Orders, NEW e \in Events,
               NEW technician, Load(p, u, o, e, technician)
        PROVE  AllowedInv'
    BY <1>4, LoadKeepsAllowed
  <1>5. ASSUME NEW p \in Requests, Store(p) PROVE AllowedInv'
    BY <1>5, EndKeepsAllowed, StoreWrites, RecordTouchesOne DEF Store
  <1>6. ASSUME NEW p \in Requests, AuditStep(p) PROVE AllowedInv'
    BY <1>6, SameSteps, RecordStepsKeepAllowed DEF AuditStep
  <1>7. ASSUME NEW p \in Requests, FailBeforeStore(p) PROVE AllowedInv'
    BY <1>7, EndKeepsAllowed DEF FailBeforeStore, TenantsStay
  <1>8. ASSUME NEW p \in Requests, FailInRecord(p) PROVE AllowedInv'
    BY <1>8, SameSteps, RecordStepsKeepAllowed DEF FailInRecord
  <1> QED
    BY <1>1, <1>2, <1>3, <1>4, <1>5, <1>6, <1>7, <1>8 DEF Next

\* Only its own update starts the record() call of a request that has loaded an order.
LEMMA StoresToRecord ==
    ASSUME SInv, AllowedInv, [Next]_vars, NEW q \in Requests, req[q].phase = "loaded",
           call'[q] # call[q]
    PROVE  Store(q)
  <1>1. ~AuditP!InFlight(q)
    BY DEF AllowedInv
  <1>2. ASSUME NEW p \in Requests,
               AuditP!ReadLast(p) \/ AuditP!Insert(p) \/ AuditP!Commit(p) \/ AuditP!Fail(p)
        PROVE  FALSE
    <2>1. \A x \in Requests \ {p} : call'[x] = call[x]
      BY <1>2, AuditTypes DEF SInv, AuditP!ReadLast, AuditP!Insert, AuditP!Commit, AuditP!Fail
    <2>2. p = q
      BY <2>1
    <2> QED
      BY <1>1, <1>2, <2>2 DEF AuditP!ReadLast, AuditP!Insert, AuditP!Commit, AuditP!Fail,
                              AuditP!InFlight
  <1>3. CASE UNCHANGED vars
    BY <1>3 DEF vars
  <1>4. ASSUME NEW p \in Requests, NEW u \in Users, NEW o \in Orders, Create(p, u, o)
        PROVE  FALSE
    BY <1>4 DEF Create
  <1>5. ASSUME NEW p \in Requests, StoreFirstSnapshot(p) PROVE FALSE
    <2>1. p = q
      BY <1>5, RecordTouchesOne DEF StoreFirstSnapshot
    <2> QED
      BY <1>5, <2>1 DEF StoreFirstSnapshot
  <1>6. ASSUME NEW p \in Requests, NEW u \in Users, NEW o \in Orders, NEW e \in Events,
               NEW technician, Load(p, u, o, e, technician)
        PROVE  FALSE
    BY <1>6 DEF Load
  <1>7. ASSUME NEW p \in Requests, Store(p) PROVE Store(q)
    BY <1>7, RecordTouchesOne DEF Store
  <1>8. ASSUME NEW p \in Requests, AuditStep(p) PROVE FALSE
    BY <1>2, <1>8, SameSteps DEF AuditStep
  <1>9. ASSUME NEW p \in Requests, FailBeforeStore(p) PROVE FALSE
    BY <1>9 DEF FailBeforeStore
  <1>10. ASSUME NEW p \in Requests, FailInRecord(p) PROVE FALSE
    BY <1>2, <1>10, SameSteps DEF FailInRecord
  <1> QED
    BY <1>3, <1>4, <1>5, <1>6, <1>7, <1>8, <1>9, <1>10 DEF Next

\* What the step of a request that starts its record() call leaves in the table.
ChangeAllowed(p) ==
    req[p].phase = "loaded" /\ call'[p] # call[p] =>
        LET o == req[p].order
        IN  /\ row[o].tenant = TenantOf[req[p].user] /\ row'[o].tenant = row[o].tenant
            /\ Able(req[p].user, req[p].event, row'[o].tenant, row'[o].assignedTo)
            /\ \E s \in passed[o] : Goes(s, req[p].event, row'[o].status)

LEMMA StepChangesAllowed ==
    ASSUME SInv, AllowedInv, [Next]_vars, NEW p \in Requests
    PROVE  ChangeAllowed(p)
  <1> SUFFICES ASSUME req[p].phase = "loaded", call'[p] # call[p]
               PROVE  ChangeAllowed(p)
    BY DEF ChangeAllowed
  <1>1. row'[req[p].order] = req[p].write
    BY StoresToRecord, StoreWrites
  <1>2. WriteAllowed(p) /\ EventPassed(p)
    BY DEF AllowedInv, SInv, TrailInv
  <1>3. PICK edge \in Edges : /\ edge[2] = req[p].event /\ edge[1] \in passed[req[p].order]
                              /\ edge[3] = req[p].write.status
    BY <1>2 DEF EventPassed
  <1>4. Goes(edge[1], req[p].event, req[p].write.status)
    BY <1>3 DEF Goes, Edges
  <1> QED
    BY <1>1, <1>2, <1>3, <1>4 DEF ChangeAllowed, WriteAllowed

\* For any number of overlapping requests: a change that is stored leaves a row of its
\* user's tenant on which his roles allow the event, in a state that follows by the event
\* from one the order has been in, whatever happened to the row since it was read.
THEOREM ChangesAreAllowed == Spec => OnlyAllowedChanges
  <1>1. Init => SInv /\ AllowedInv
    BY InitSInv, InitAllowedInv
  <1>2. SInv /\ AllowedInv /\ [Next]_vars => SInv' /\ AllowedInv'
    BY NextKeepsSInv, NextKeepsAllowed
  <1>3. SInv /\ AllowedInv /\ [Next]_vars => \A p \in Requests : ChangeAllowed(p)
    BY StepChangesAllowed
  <1> QED
    BY <1>1, <1>2, <1>3, PTL DEF Spec, OnlyAllowedChanges, ChangeAllowed
----
(* Requests that do not overlap on an order implement WorkOrderMachine. *)

\* What the next request for an order finds: the state, the tenant and the assignee.
StateOf(r) == IF r = AbsentRow THEN "absent" ELSE Hydrate(r.snapshot)

StatesOf(rows) == [o \in Orders |-> StateOf(rows[o])]

TenantsOf(rows) == [o \in Orders |-> rows[o].tenant]

AssigneesOf(rows) == [o \in Orders |-> rows[o].assignedTo]

\* No two requests are between the read and the update of the same order, or between
\* its insert and its first snapshot.
OnePerOrder ==
    \A p, q \in Requests :
        p # q /\ req[p].phase # "idle" /\ req[q].phase # "idle" => req[p].order # req[q].order

\* The update of a loaded request is a step of the machine from the row as it is.
LoadedFrom(p) ==
    LET r == row[req[p].order]
    IN  /\ r.tenant = TenantOf[req[p].user]
        /\ Able(req[p].user, req[p].event, r.tenant, r.assignedTo)
        /\ Goes(Hydrate(r.snapshot), req[p].event, req[p].write.status)
        /\ \E technician \in Users \cup {None} :
             /\ req[p].event = "ASSIGN" => technician \in Users
             /\ req[p].write = Written(r, req[p].event, req[p].write.status, technician)

\* What a request holds is still so when it writes.
HeldInv ==
    \A p \in Requests :
        /\ req[p].phase = "created" => row[req[p].order].snapshot = None
        /\ req[p].phase = "loaded" => LoadedFrom(p)

LEMMA InitHeldInv == Init => HeldInv
  BY DEF Init, HeldInv, IdleRequest

\* A request keeps what it holds when its order and itself stay as they are.
LEMMA HeldStays ==
    ASSUME HeldInv, NEW q \in Requests, req'[q] = req[q],
           req[q].phase # "idle" => row'[req[q].order] = row[req[q].order]
    PROVE  /\ req'[q].phase = "created" => row'[req'[q].order].snapshot = None
           /\ req'[q].phase = "loaded" => LoadedFrom(q)'
  BY DEF HeldInv, LoadedFrom

\* So does every request when one ends that has its order to itself.
LEMMA EndKeepsHeld ==
    ASSUME SInv, HeldInv, OnePerOrder, NEW p \in Requests, req[p].phase # "idle",
           req' = [req EXCEPT ![p] = IdleRequest],
           \A o \in Orders \ {req[p].order} : row'[o] = row[o]
    PROVE  HeldInv'
  <1>1. Types /\ req'[p].phase = "idle" /\ \A q \in Requests \ {p} : req'[q] = req[q]
    BY RequestEnds DEF SInv, WInv
  <1>2. ASSUME NEW q \in Requests \ {p}, req[q].phase # "idle"
        PROVE  row'[req[q].order] = row[req[q].order]
    BY <1>1, <1>2, OrderOfRequest DEF OnePerOrder
  <1> QED
    BY <1>1, <1>2, HeldStays DEF HeldInv

LEMMA NextKeepsHeld == SInv /\ HeldInv /\ OnePerOrder /\ [Next]_vars => HeldInv'
  <1> SUFFICES ASSUME SInv, HeldInv, OnePerOrder, [Next]_vars PROVE HeldInv'
    OBVIOUS
  <1>0. Types /\ WInv
    BY DEF SInv, WInv
  <1>1. ASSUME NEW p \in Requests, NEW u \in Users, NEW o \in Orders, Create(p, u, o)
        PROVE  HeldInv'
    <2>1. PICK c : /\ c = [phase |-> "created", user |-> u, order |-> o, event |-> None,
                           write |-> AbsentRow]
      OBVIOUS
    <2>2. /\ req' = [req EXCEPT ![p] = c] /\ row[o] = AbsentRow
          /\ row' = [row EXCEPT ![o] = DraftRow(TenantOf[u])]
      BY <1>1, <2>1 DEF Create
    <2>3. /\ req'[p] = c /\ \A q \in Requests \ {p} : req'[q] = req[q]
          /\ row'[o] = DraftRow(TenantOf[u]) /\ \A x \in Orders \ {o} : row'[x] = row[x]
      BY <1>0, <2>2 DEF Types
    <2>4. \A q \in Requests : req[q].phase # "idle" => req[q].order \in Orders \ {o}
      BY <1>0, <2>2, OrderOfRequest DEF WInv, CreatedOK
    <2>5. row'[o].snapshot = None
      BY <2>3 DEF DraftRow
    <2>6. ASSUME NEW q \in Requests
          PROVE  /\ req'[q].phase = "created" => row'[req'[q].order].snapshot = None
                 /\ req'[q].phase = "loaded" => LoadedFrom(q)'
      <3>1. CASE q = p
        BY <2>1, <2>3, <2>5, <3>1
      <3>2. CASE q # p
        BY <2>3, <2>4, <3>2, HeldStays
      <3> QED
        BY <3>1, <3>2
    <2> QED
      BY <2>6 DEF HeldInv
  <1>2. ASSUME NEW p \in Requests, StoreFirstSnapshot(p)
        PROVE  HeldInv'
    <2>1. req[p].phase = "created" /\ req[p].order \in Orders /\ req' = [req EXCEPT ![p] = IdleRequest]
          /\ row' = [row EXCEPT ![req[p].order].snapshot = "draft"]
      BY <1>0, <1>2, OrderOfRequest DEF StoreFirstSnapshot
    <2>2. \A x \in Orders \ {req[p].order} : row'[x] = row[x]
      BY <1>0, <2>1 DEF Types
    <2> QED
      BY <2>1, <2>2, EndKeepsHeld
  <1>3. ASSUME NEW p \in Requests, NEW u \in Users, NEW o \in Orders, NEW e \in Events,
               NEW technician \in Users \cup {None}, e = "ASSIGN" => technician \in Users,
               Load(p, u, o, e, technician)
        PROVE  HeldInv'
    <2>1. PICK target \in Statuses :
            /\ Goes(Hydrate(row[o].snapshot), e, target)
            /\ req' = [req EXCEPT ![p] = [phase |-> "loaded", user |-> u, order |-> o, event |-> e,
                                          write |-> Written(row[o], e, target, technician)]]
      BY <1>3 DEF Load
    <2>2. /\ row' = row /\ row[o].tenant = TenantOf[u]
          /\ Able(u, e, row[o].tenant, row[o].assignedTo)
      BY <1>3 DEF Load
    <2>3. PICK w : w = Written(row[o], e, target, technician)
      OBVIOUS
    <2>4. /\ req'[p] = [phase |-> "loaded", user |-> u, order |-> o, event |-> e, write |-> w]
          /\ \A q \in Requests \ {p} : req'[q] = req[q]
      BY <1>0, <2>1, <2>3 DEF Types
    <2>5. req'[p].phase = "loaded" /\ req'[p].user = u /\ req'[p].order = o /\ req'[p].event = e
          /\ req'[p].write = w /\ w.status = target
      BY <2>3, <2>4 DEF Written
    <2>6. LoadedFrom(p)'
      BY <1>3, <2>1, <2>2, <2>3, <2>5 DEF LoadedFrom
    <2>7. ASSUME NEW q \in Requests
          PROVE  /\ req'[q].phase = "created" => row'[req'[q].order].snapshot = None
                 /\ req'[q].phase = "loaded" => LoadedFrom(q)'
      <3>1. CASE q = p
        BY <2>5, <2>6, <3>1
      <3>2. CASE q # p
        BY <2>2, <2>4, <3>2, HeldStays
      <3> QED
        BY <3>1, <3>2
    <2> QED
      BY <2>7 DEF HeldInv
  <1>4. ASSUME NEW p \in Requests, Store(p)
        PROVE  HeldInv'
    <2>1. req[p].phase = "loaded" /\ req[p].order \in Orders /\ req' = [req EXCEPT ![p] = IdleRequest]
          /\ row' = [row EXCEPT ![req[p].order] = req[p].write]
      BY <1>0, <1>4, OrderOfRequest DEF Store
    <2>2. \A x \in Orders \ {req[p].order} : row'[x] = row[x]
      BY <1>0, <2>1 DEF Types
    <2> QED
      BY <2>1, <2>2, EndKeepsHeld
  <1>5. ASSUME NEW p \in Requests, FailBeforeStore(p)
        PROVE  HeldInv'
    BY <1>0, <1>5, EndKeepsHeld DEF FailBeforeStore
  <1>6. ASSUME req' = req, row' = row
        PROVE  HeldInv'
    BY <1>6, HeldStays DEF HeldInv
  <1>7. ASSUME NEW p \in Requests, AuditStep(p) \/ FailInRecord(p)
        PROVE  HeldInv'
    BY <1>6, <1>7 DEF AuditStep, FailInRecord
  <1>8. CASE UNCHANGED vars
    BY <1>6, <1>8 DEF vars
  <1>9. ASSUME NEW p \in Requests, NEW u \in Users, NEW o \in Orders, NEW e \in Events,
               NEW technician \in IF e = "ASSIGN" THEN Users ELSE {None},
               Load(p, u, o, e, technician)
        PROVE  HeldInv'
    BY <1>3, <1>9
  <1> QED
    BY <1>1, <1>2, <1>4, <1>5, <1>7, <1>8, <1>9 DEF Next

\* One row changes: so do its state, its tenant and its assignee.
LEMMA MapsMove ==
    ASSUME NEW rows, DOMAIN rows = Orders, NEW o \in Orders, NEW r, NEW new,
           DOMAIN new = Orders, new[o] = r, \A x \in Orders \ {o} : new[x] = rows[x]
    PROVE  /\ StatesOf(new) = [StatesOf(rows) EXCEPT ![o] = StateOf(r)]
           /\ TenantsOf(new) = [TenantsOf(rows) EXCEPT ![o] = r.tenant]
           /\ AssigneesOf(new) = [AssigneesOf(rows) EXCEPT ![o] = r.assignedTo]
  BY DEF StatesOf, TenantsOf, AssigneesOf

\* What the machine does not see.
LEMMA MapsStay ==
    ASSUME NEW rows, DOMAIN rows = Orders, NEW o \in Orders, NEW new,
           DOMAIN new = Orders, \A x \in Orders \ {o} : new[x] = rows[x],
           StateOf(new[o]) = StateOf(rows[o]), new[o].tenant = rows[o].tenant,
           new[o].assignedTo = rows[o].assignedTo
    PROVE  /\ StatesOf(new) = StatesOf(rows) /\ TenantsOf(new) = TenantsOf(rows)
           /\ AssigneesOf(new) = AssigneesOf(rows)
  BY DEF StatesOf, TenantsOf, AssigneesOf

MachineStep == [Machine!MachineNext]_Machine!machineVars

LEMMA MapsUnchanged ==
    ASSUME StatesOf(row') = StatesOf(row), TenantsOf(row') = TenantsOf(row),
           AssigneesOf(row') = AssigneesOf(row)
    PROVE  MachineStep
  BY DEF MachineStep, Machine!machineVars, StatesOf, StateOf, TenantsOf, AssigneesOf

LEMMA CreateIsMachineStep ==
    ASSUME SInv, NEW p \in Requests, NEW u \in Users, NEW o \in Orders, Create(p, u, o)
    PROVE  MachineStep
  <1>1. Types
    BY DEF SInv, WInv
  <1>2. row' = [row EXCEPT ![o] = DraftRow(TenantOf[u])] /\ row[o] = AbsentRow
    BY DEF Create
  <1>3. PICK r : r = DraftRow(TenantOf[u])
    OBVIOUS
  <1>4. DOMAIN row = Orders /\ DOMAIN row' = Orders /\ row'[o] = r
        /\ \A x \in Orders \ {o} : row'[x] = row[x]
    BY <1>1, <1>2, <1>3 DEF Types
  <1>5. r # AbsentRow /\ r.snapshot = None /\ r.tenant = TenantOf[u] /\ r.assignedTo = None
    BY <1>3 DEF DraftRow, AbsentRow
  <1>6. StateOf(r) = "draft"
    BY <1>5 DEF StateOf, Hydrate
  <1>7. /\ StatesOf(row') = [StatesOf(row) EXCEPT ![o] = "draft"]
        /\ TenantsOf(row') = [TenantsOf(row) EXCEPT ![o] = TenantOf[u]]
        /\ AssigneesOf(row') = [AssigneesOf(row) EXCEPT ![o] = None]
    BY <1>4, <1>5, <1>6, MapsMove
  <1>8. StatesOf(row)[o] = "absent"
    BY <1>2 DEF StatesOf, StateOf
  <1>9. Machine!MachineCreate(o, u)
    BY <1>7, <1>8 DEF Machine!MachineCreate, StatesOf, StateOf, TenantsOf, AssigneesOf,
                      Machine!None, None
  <1> QED
    BY <1>9 DEF MachineStep, Machine!MachineNext

LEMMA StoreIsMachineStep ==
    ASSUME SInv, HeldInv, NEW p \in Requests, Store(p)
    PROVE  MachineStep
  <1>1. Types /\ req[p].phase = "loaded" /\ LoadedFrom(p)
    BY DEF SInv, WInv, Store, HeldInv
  <1>2. PICK o, u, e, w, r : /\ o = req[p].order /\ u = req[p].user /\ e = req[p].event
                             /\ w = req[p].write /\ r = row[o]
    OBVIOUS
  <1>3. /\ o \in Orders /\ u \in Users /\ e \in Events /\ w \in WrittenRow
        /\ row[o] # AbsentRow /\ r \in StoredRow
    <2>1. o \in Orders /\ u \in Users /\ e \in Events /\ w \in WrittenRow
      BY <1>1, <1>2 DEF Types, LoadedRequest, CreatedRequest, IdleRequest
    <2>2. row[o] # AbsentRow
      BY <1>1, <1>2 DEF SInv, WInv, CreatedOK
    <2> QED
      BY <1>1, <1>2, <2>1, <2>2 DEF Types
  <1>4. PICK technician \in Users \cup {None} :
          /\ e = "ASSIGN" => technician \in Users
          /\ w = Written(r, e, w.status, technician)
    BY <1>1, <1>2 DEF LoadedFrom
  <1>5. /\ r.tenant = TenantOf[u] /\ Able(u, e, r.tenant, r.assignedTo)
        /\ Goes(Hydrate(r.snapshot), e, w.status)
    BY <1>1, <1>2 DEF LoadedFrom
  <1>6. /\ w.snapshot = w.status /\ w.tenant = r.tenant /\ w.status \in Statuses
        /\ w.assignedTo = IF e = "ASSIGN" THEN technician ELSE r.assignedTo
    BY <1>3, <1>4 DEF Written, WrittenRow
  <1>7. StateOf(w) = w.status
    BY <1>3, <1>6, NoneIsNoStatus DEF StateOf, Hydrate, AbsentRow
  <1>8. /\ DOMAIN row = Orders /\ DOMAIN row' = Orders /\ row'[o] = w
        /\ \A x \in Orders \ {o} : row'[x] = row[x]
    BY <1>1, <1>2, <1>3 DEF Types, Store
  <1>9. /\ StatesOf(row') = [StatesOf(row) EXCEPT ![o] = w.status]
        /\ TenantsOf(row') = [TenantsOf(row) EXCEPT ![o] = w.tenant]
        /\ AssigneesOf(row') = [AssigneesOf(row) EXCEPT ![o] = w.assignedTo]
    BY <1>3, <1>7, <1>8, MapsMove
  <1>10. /\ StatesOf(row)[o] = Hydrate(r.snapshot) /\ TenantsOf(row)[o] = r.tenant
         /\ AssigneesOf(row)[o] = r.assignedTo
         /\ TenantsOf(row) \in [Orders -> {TenantsOf(row)[x] : x \in Orders}]
         /\ AssigneesOf(row) \in [Orders -> {AssigneesOf(row)[x] : x \in Orders}]
    BY <1>2, <1>3 DEF StatesOf, StateOf, TenantsOf, AssigneesOf
  <1>11. TenantsOf(row') = TenantsOf(row)
    BY <1>6, <1>9, <1>10
  <1>12. PICK t \in Users : e = "ASSIGN" => t = technician
    BY <1>3, <1>4
  <1>13. AssigneesOf(row') = IF e = "ASSIGN" THEN [AssigneesOf(row) EXCEPT ![o] = t] ELSE AssigneesOf(row)
    BY <1>6, <1>9, <1>10, <1>12
  <1>14. Machine!MachineSend(o, u, e, t)
    <2>1. /\ TenantsOf(row)[o] = TenantOf[u]
          /\ Machine!Able(u, e, TenantsOf(row)[o], AssigneesOf(row)[o])
          /\ Machine!Goes(StatesOf(row)[o], e, w.status) /\ w.status \in Machine!Statuses
      BY <1>5, <1>6, <1>10 DEF Machine!Able, Able, Machine!Goes, Goes, Machine!Edges, Edges,
                               Machine!Statuses, Statuses
    <2> HIDE DEF Machine!Able, Machine!Goes, Machine!Statuses
    <2> QED
      BY <1>9, <1>11, <1>13, <2>1 DEF Machine!MachineSend, StatesOf, StateOf, TenantsOf, AssigneesOf
  <1>15. e \in Machine!Events
    BY <1>3 DEF Machine!Events, Events
  <1> QED
    BY <1>3, <1>14, <1>15 DEF MachineStep, Machine!MachineNext

LEMMA NextIsMachineStep == SInv /\ HeldInv /\ [Next]_vars => MachineStep
  <1> SUFFICES ASSUME SInv, HeldInv, [Next]_vars PROVE MachineStep
    OBVIOUS
  <1>1. ASSUME NEW p \in Requests, NEW u \in Users, NEW o \in Orders, Create(p, u, o)
        PROVE  MachineStep
    BY <1>1, CreateIsMachineStep
  <1>2. ASSUME NEW p \in Requests, StoreFirstSnapshot(p)
        PROVE  MachineStep
    <2>1. Types /\ req[p].phase = "created"
      BY <1>2 DEF SInv, WInv, StoreFirstSnapshot
    <2>2. PICK o \in Orders : o = req[p].order
      BY <2>1, OrderOfRequest
    <2>3. row[o] # AbsentRow /\ row[o] \in StoredRow /\ row[o].snapshot = None
      BY <2>1, <2>2 DEF SInv, WInv, CreatedOK, Types, HeldInv
    <2>4. row' = [row EXCEPT ![o].snapshot = "draft"]
      BY <1>2, <2>2 DEF StoreFirstSnapshot
    <2>5. /\ row'[o] \in StoredRow /\ row'[o].snapshot = "draft"
          /\ row'[o].tenant = row[o].tenant /\ row'[o].assignedTo = row[o].assignedTo
          /\ DOMAIN row = Orders /\ DOMAIN row' = Orders
          /\ \A x \in Orders \ {o} : row'[x] = row[x]
      BY <2>1, <2>3, <2>4 DEF Types, StoredRow, Statuses
    <2>6. StateOf(row'[o]) = StateOf(row[o])
      BY <2>3, <2>5, AbsentIsNotStored, NoneIsNoStatus DEF StateOf, Hydrate, None
    <2> QED
      BY <2>5, <2>6, MapsStay, MapsUnchanged
  <1>3. ASSUME NEW p \in Requests, Store(p)
        PROVE  MachineStep
    BY <1>3, StoreIsMachineStep
  <1>4. ASSUME row' = row
        PROVE  MachineStep
    BY <1>4, MapsUnchanged
  <1>5. ASSUME NEW p \in Requests, AuditStep(p) \/ FailInRecord(p) \/ FailBeforeStore(p)
        PROVE  MachineStep
    BY <1>4, <1>5 DEF AuditStep, FailInRecord, FailBeforeStore
  <1>6. ASSUME NEW p \in Requests, NEW u \in Users, NEW o \in Orders, NEW e \in Events,
               NEW technician, Load(p, u, o, e, technician)
        PROVE  MachineStep
    BY <1>4, <1>6 DEF Load
  <1>7. CASE UNCHANGED vars
    BY <1>4, <1>7 DEF vars
  <1> QED
    BY <1>1, <1>2, <1>3, <1>5, <1>6, <1>7 DEF Next

LEMMA InitIsMachineInit == Init => Machine!MachineInit
  <1> SUFFICES ASSUME Init PROVE Machine!MachineInit
    OBVIOUS
  <1>1. SInv /\ Types
    BY InitSInv DEF SInv, WInv
  <1>2. ASSUME NEW o \in Orders
        PROVE  /\ StateOf(row[o]) \in {"absent", "draft"}
               /\ row[o].tenant \in Tenants \cup {None} /\ row[o].assignedTo \in Users \cup {None}
    <2>1. CASE row[o] = AbsentRow
      BY <2>1 DEF StateOf, AbsentRow
    <2>2. CASE row[o] # AbsentRow
      <3>1. row[o] \in StoredRow
        BY <1>1, <2>2 DEF Types
      <3>2. PICK u \in Users : row[o] = SeedRow(TenantOf[u], u)
        BY <2>2 DEF Init
      <3>3. row[o].snapshot = "draft"
        BY <3>2, SeedFields
      <3> QED
        BY <2>2, <3>1, <3>3 DEF StateOf, Hydrate, None, StoredRow
    <2> QED
      BY <2>1, <2>2
  <1>3. /\ StatesOf(row) \in [Orders -> {"absent", "draft"}]
        /\ TenantsOf(row) \in [Orders -> Tenants \cup {None}]
        /\ AssigneesOf(row) \in [Orders -> Users \cup {None}]
    BY <1>2 DEF StatesOf, TenantsOf, AssigneesOf
  <1> QED
    BY <1>3 DEF Machine!MachineInit, StatesOf, StateOf, TenantsOf, AssigneesOf, Machine!None, None

\* However many requests there are: as long as no two of them are between the read
\* and the update of the same order, transition() and create(), with what fails in
\* them, are steps of the machine by users its access rules allow.
THEOREM OrdersImplementMachine == Spec /\ []OnePerOrder => ImplementsMachine
  <1>1. SInv /\ HeldInv /\ [Next]_vars => [Machine!MachineNext]_Machine!machineVars
    BY NextIsMachineStep DEF MachineStep
  <1> QED
    BY <1>1, InitSInv, NextKeepsSInv, InitHeldInv, NextKeepsHeld, InitIsMachineInit, PTL
       DEF Spec, ImplementsMachine, Machine!MachineSpec

\* In particular when the API serves one request at a time.
THEOREM SerialImplementsMachine ==
    ASSUME \A p, q \in Requests : p = q
    PROVE  Spec => ImplementsMachine
  <1>1. OnePerOrder
    BY DEF OnePerOrder
  <1> QED
    BY <1>1, OrdersImplementMachine, PTL
----
(* The audit trail of an order replays to its status. *)

\* Request p has order o in hand: from the read to the update, or in record().
HasInHand(p, o) ==
    \/ req[p].phase # "idle" /\ req[p].order = o
    \/ call[p].phase # "idle" /\ call[p].entry.order = o

\* No two requests have the same order in hand, their record() calls included.
OneInHand ==
    \A p, q \in Requests, o \in Orders : HasInHand(p, o) /\ HasInHand(q, o) => p = q

\* The state that an entry with action a leads to from state s.
Follow(s, a) ==
    IF a = "CREATE" /\ s = "absent" THEN "draft"
    ELSE IF \E t \in Statuses : Goes(s, a, t) THEN CHOOSE t \in Statuses : Goes(s, a, t)
    ELSE "illegal"

FirstState(o) == IF "absent" \in passed[o] THEN "absent" ELSE "draft"

Counts(i, o) == log[i].state = "committed" /\ log[i].entry.order = o

\* g[i] is the state the first i rows of the log lead order o to.
IsReplay(g, o) ==
    /\ DOMAIN g = 0..Len(log)
    /\ g[0] = FirstState(o)
    /\ \A i \in 1..Len(log) :
         g[i] = IF Counts(i, o) THEN Follow(g[i - 1], log[i].entry.action) ELSE g[i - 1]

Recording(p, o) == call[p].phase # "idle" /\ call[p].entry.order = o

Creating(p, o) == req[p].phase = "created" /\ req[p].order = o

\* The trail of o leads to its status, once what is in hand has been recorded.
Leads(g, o) ==
    LET reached == g[Len(log)]
    IN  /\ IsReplay(g, o)
        /\ \A p \in Requests : Recording(p, o) =>
             /\ Follow(reached, call[p].entry.action) = row[o].status
             /\ call[p].phase = "inserted" =>
                  \A i \in 0..Len(log) : i + 1 >= call[p].id => g[i] = reached
        /\ \A p \in Requests : Creating(p, o) => reached = "absent" /\ row[o].status = "draft"
        /\ (\A p \in Requests : ~Recording(p, o) /\ ~Creating(p, o)) => reached = row[o].status

\* The row a call has inserted is the last one about its order.
OwnRowIsLast(p) ==
    call[p].phase = "inserted" =>
        /\ log[call[p].id].entry = call[p].entry
        /\ \A i \in 1..Len(log) : i > call[p].id => log[i].entry.order # call[p].entry.order

ReplayInv ==
    /\ \A p \in Requests : req[p].phase = "idle" \/ call[p].phase = "idle"
    /\ \A p \in Requests : OwnRowIsLast(p)
    /\ \A o \in Orders : row[o] # AbsentRow => Hydrate(row[o].snapshot) = row[o].status
    /\ \A o \in Orders \ lost : \E g : Leads(g, o)

LEMMA FollowsEdge ==
    ASSUME NEW s, NEW e, NEW t \in Statuses, Goes(s, e, t)
    PROVE  Follow(s, e) = t
  <1>1. e # "CREATE" /\ \A x \in Statuses : Goes(s, e, x) => x = t
    BY GoesCases
  <1> QED
    BY <1>1 DEF Follow

\* A set of numbers that is not empty has a least one.
LEMMA LeastNumber ==
    ASSUME NEW T, T \subseteq Nat, T # {}
    PROVE  \E x \in T : \A y \in T : x <= y
  <1> DEFINE R == OpToRel(<, Nat)
  <1>1. IsWellFoundedOn(R, Nat)
    BY NatLessThanWellFounded
  <1> HIDE DEF R
  <1>2. \E x \in T : \A y \in T : ~(<<y, x>> \in R)
    BY <1>1, WFMin
  <1>3. ASSUME NEW x \in Nat, NEW y \in Nat, ~(<<y, x>> \in R)
        PROVE  x <= y
    BY <1>3 DEF R, OpToRel
  <1> QED
    BY <1>2, <1>3

\* Two replays do not differ: where they first did, they would not.
LEMMA ReplaysAgree ==
    ASSUME Len(log) \in Nat, NEW o, NEW f, NEW g, IsReplay(f, o), IsReplay(g, o)
    PROVE  f[Len(log)] = g[Len(log)]
  <1> DEFINE T == {i \in 0..Len(log) : f[i] # g[i]}
  <1>1. SUFFICES ASSUME T # {} PROVE FALSE
    OBVIOUS
  <1>0. T \subseteq Nat /\ \A i : i \in T <=> i \in 0..Len(log) /\ f[i] # g[i]
    OBVIOUS
  <1> HIDE DEF T
  <1>2. PICK x \in T : \A y \in T : x <= y
    BY <1>0, <1>1, LeastNumber
  <1>3. x \in 0..Len(log) /\ f[x] # g[x]
    BY <1>0
  <1>4. x # 0
    BY <1>3 DEF IsReplay
  <1>5. x \in 1..Len(log) /\ x - 1 \in 0..Len(log) /\ ~(x <= x - 1)
    BY <1>3, <1>4
  <1>6. f[x - 1] = g[x - 1]
    BY <1>0, <1>2, <1>5
  <1> QED
    BY <1>3, <1>5, <1>6 DEF IsReplay

LEMMA ReplayedIs ==
    ASSUME Len(log) \in Nat, NEW o, NEW g, IsReplay(g, o)
    PROVE  Replayed(o) = g[Len(log)]
  <1> DEFINE F(f) == [i \in 0..Len(log) |->
                       IF i = 0 THEN IF "absent" \in passed[o] THEN "absent" ELSE "draft"
                       ELSE IF log[i].state # "committed" \/ log[i].entry.order # o THEN f[i - 1]
                       ELSE IF log[i].entry.action = "CREATE" /\ f[i - 1] = "absent" THEN "draft"
                       ELSE IF \E t \in Statuses : Goes(f[i - 1], log[i].entry.action, t)
                            THEN CHOOSE t \in Statuses : Goes(f[i - 1], log[i].entry.action, t)
                       ELSE "illegal"]
             a == CHOOSE f : f = F(f)
             h == [i \in 0..Len(log) |-> g[i]]
  <1>1. Replayed(o) = a[Len(log)]
    BY DEF Replayed
  <1>2. h = F(h)
    <2>1. ASSUME NEW i \in 0..Len(log) PROVE h[i] = F(h)[i]
      <3>1. CASE i = 0
        BY <3>1 DEF IsReplay, FirstState
      <3>2. CASE i # 0
        <4>1. i \in 1..Len(log) /\ i - 1 \in 0..Len(log)
          BY <3>2
        <4> QED
          BY <3>2, <4>1 DEF IsReplay, Counts, Follow
      <3> QED
        BY <3>1, <3>2
    <2> QED
      BY <2>1
  <1>3. a = F(a)
    BY <1>2
  <1> HIDE DEF a
  <1>4. IsReplay(a, o)
    <2>1. DOMAIN a = 0..Len(log) /\ \A i \in 0..Len(log) : a[i] = F(a)[i]
      BY <1>3
    <2>2. a[0] = FirstState(o)
      <3>1. 0 \in 0..Len(log)
        OBVIOUS
      <3>2. F(a)[0] = FirstState(o)
        BY <3>1 DEF FirstState
      <3> QED
        BY <2>1, <3>1, <3>2
    <2>3. ASSUME NEW i \in 1..Len(log)
          PROVE  a[i] = IF Counts(i, o) THEN Follow(a[i - 1], log[i].entry.action) ELSE a[i - 1]
      <3>1. i \in 0..Len(log) /\ i # 0
        OBVIOUS
      <3>2. F(a)[i] = IF Counts(i, o) THEN Follow(a[i - 1], log[i].entry.action) ELSE a[i - 1]
        BY <3>1 DEF Counts, Follow
      <3> QED
        BY <2>1, <3>1, <3>2
    <2> QED
      BY <2>1, <2>2, <2>3 DEF IsReplay
  <1> QED
    BY <1>1, <1>4, ReplaysAgree

----
\* Steps that leave the rows about an order, its status and who has it in hand as they are.
LEMMA LeadsStays ==
    ASSUME NEW o \in Orders, NEW g, Leads(g, o), Len(log') = Len(log),
           \A i \in 1..Len(log) : log'[i].entry = log[i].entry /\ (Counts(i, o)' <=> Counts(i, o)),
           FirstState(o)' = FirstState(o), row'[o].status = row[o].status,
           \A p \in Requests :
             /\ Recording(p, o)' <=> Recording(p, o)
             /\ Recording(p, o) => /\ call'[p].entry = call[p].entry
                                   /\ call'[p].phase = "inserted" => call'[p] = call[p]
             /\ Creating(p, o)' <=> Creating(p, o)
    PROVE  Leads(g, o)'
  <1>1. IsReplay(g, o)'
    BY DEF Leads, IsReplay
  <1>2. ASSUME NEW p \in Requests, Recording(p, o)'
        PROVE  /\ Follow(g[Len(log')], call'[p].entry.action) = row'[o].status
               /\ call'[p].phase = "inserted" =>
                    \A i \in 0..Len(log') : i + 1 >= call'[p].id => g[i] = g[Len(log')]
    BY <1>2 DEF Leads
  <1>3. \A p \in Requests : Creating(p, o)' => g[Len(log')] = "absent" /\ row'[o].status = "draft"
    BY DEF Leads
  <1>4. (\A p \in Requests : ~Recording(p, o)' /\ ~Creating(p, o)') => g[Len(log')] = row'[o].status
    BY DEF Leads
  <1> QED
    BY <1>1, <1>2, <1>3, <1>4 DEF Leads

\* Whether an order was absent at first does not change.
LEMMA FirstStateStays ==
    ASSUME NEW o, NEW s \in Statuses \cup {"draft"},
           passed'[o] = passed[o] \/ passed'[o] = passed[o] \cup {s}
    PROVE  FirstState(o)' = FirstState(o)
  <1>1. s # "absent"
    BY NoneIsNoStatus DEF Statuses
  <1> QED
    BY <1>1 DEF FirstState

\* Once no request creates an order or records about it, its trail has led to its status.
LEMMA Reached ==
    ASSUME ReplayInv, NEW o \in Orders, NEW g, Leads(g, o),
           \A q \in Requests : ~Recording(q, o) /\ ~Creating(q, o)
    PROVE  IsReplay(g, o) /\ g[Len(log)] = row[o].status
  BY DEF Leads

LEMMA InitReplayInv == Init => ReplayInv
  <1> SUFFICES ASSUME Init PROVE ReplayInv
    OBVIOUS
  <1>1. /\ log = <<>> /\ Len(log) = 0
        /\ \A p \in Requests : call[p].phase = "idle" /\ req[p].phase = "idle"
    BY DEF Init, Audit!AuditInit, Audit!IdleCall, IdleRequest
  <1>2. \A o \in Orders : row[o] = AbsentRow \/ \E u \in Users : row[o] = SeedRow(TenantOf[u], u)
    BY DEF Init
  <1>3. ASSUME NEW o \in Orders
        PROVE  /\ row[o] # AbsentRow => Hydrate(row[o].snapshot) = row[o].status
               /\ FirstState(o) = row[o].status
    <2>1. passed[o] = {row[o].status}
      BY DEF Init
    <2>2. CASE row[o] = AbsentRow
      BY <2>1, <2>2 DEF AbsentRow, FirstState
    <2>3. CASE row[o] # AbsentRow
      <3>1. row[o].status = "draft" /\ row[o].snapshot = "draft"
        BY <1>2, <2>3, SeedFields
      <3> QED
        BY <2>1, <3>1 DEF FirstState, Hydrate, None
    <2> QED
      BY <2>2, <2>3
  <1>4. ASSUME NEW o \in Orders PROVE \E g : Leads(g, o)
    <2> DEFINE g == [i \in 0..0 |-> FirstState(o)]
    <2>1. DOMAIN g = 0..Len(log) /\ g[0] = FirstState(o)
      BY <1>1
    <2> HIDE DEF g
    <2>2. 1..Len(log) = {}
      BY <1>1
    <2>3. Leads(g, o)
      BY <1>1, <1>3, <2>1, <2>2 DEF Leads, IsReplay, Recording, Creating
    <2> QED
      BY <2>3
  <1> QED
    BY <1>1, <1>3, <1>4 DEF ReplayInv, OwnRowIsLast

\* Nobody else has an order in hand that a request has in hand.
LEMMA OthersHaveNot ==
    ASSUME OneInHand, NEW p \in Requests, NEW o \in Orders, HasInHand(p, o),
           NEW q \in Requests \ {p}
    PROVE  ~Recording(q, o) /\ ~Creating(q, o) /\ ~HasInHand(q, o)
  BY DEF OneInHand, HasInHand, Recording, Creating

LEMMA CreateKeepsReplay ==
    ASSUME SInv, ReplayInv, OneInHand', NEW p \in Requests, NEW u \in Users, NEW o \in Orders,
           Create(p, u, o)
    PROVE  ReplayInv'
  <1> DEFINE d == DraftRow(TenantOf[u])
             c == [phase |-> "created", user |-> u, order |-> o, event |-> None,
                   write |-> AbsentRow]
  <1>1. d.status = "draft" /\ d.snapshot = None
    BY DEF DraftRow
  <1>2. c.phase = "created" /\ c.order = o
    OBVIOUS
  <1>3. /\ row' = [row EXCEPT ![o] = d] /\ row[o] = AbsentRow
        /\ passed' = [passed EXCEPT ![o] = @ \cup {"draft"}]
        /\ req' = [req EXCEPT ![p] = c]
        /\ log' = log /\ call' = call /\ lost' = lost
        /\ req[p].phase = "idle" /\ call[p].phase = "idle"
    BY DEF Create, Free, Audit!InFlight
  <1> HIDE DEF d, c
  <1>4. Types
    BY DEF SInv, WInv
  <1>5. /\ row'[o] = d /\ \A x \in Orders \ {o} : row'[x] = row[x]
        /\ passed'[o] = passed[o] \cup {"draft"} /\ \A x \in Orders \ {o} : passed'[x] = passed[x]
        /\ req'[p] = c /\ \A q \in Requests \ {p} : req'[q] = req[q]
    BY <1>3, <1>4 DEF Types
  <1>6. \A x \in Orders : FirstState(x)' = FirstState(x)
    BY <1>5, FirstStateStays
  <1>7. \A q \in Requests : ~Recording(q, o) /\ ~Creating(q, o)
    <2> SUFFICES ASSUME NEW q \in Requests PROVE ~Recording(q, o) /\ ~Creating(q, o)
      OBVIOUS
    <2>1. HasInHand(p, o)'
      BY <1>2, <1>5 DEF HasInHand
    <2>2. CASE q = p
      BY <1>3, <2>2 DEF Recording, Creating
    <2>3. ASSUME q # p, Recording(q, o) \/ Creating(q, o) PROVE FALSE
      <3>1. HasInHand(q, o)'
        BY <1>3, <1>5, <2>3 DEF HasInHand, Recording, Creating
      <3> QED
        BY <2>1, <2>3, <3>1 DEF OneInHand
    <2> QED
      BY <2>2, <2>3
  <1>8. ASSUME NEW x \in Orders \ lost, NEW g, Leads(g, x) PROVE Leads(g, x)'
    <2>1. CASE x # o
      <3>1. \A q \in Requests : /\ Recording(q, x)' <=> Recording(q, x)
                                /\ Creating(q, x)' <=> Creating(q, x)
        BY <1>2, <1>3, <1>5, <2>1 DEF Recording, Creating
      <3>2. \A i \in 1..Len(log) : Counts(i, x)' <=> Counts(i, x)
        BY <1>3 DEF Counts
      <3> QED
        BY <1>3, <1>5, <1>6, <1>8, <2>1, <3>1, <3>2, LeadsStays
    <2>2. CASE x = o
      <3>1. IsReplay(g, o) /\ g[Len(log)] = "absent"
        BY <1>3, <1>7, <1>8, <2>2, Reached DEF AbsentRow
      <3>2. IsReplay(g, o)'
        BY <1>3, <1>6, <3>1 DEF IsReplay, Counts
      <3>3. \A q \in Requests : ~Recording(q, o)'
        BY <1>3, <1>7 DEF Recording
      <3>4. Creating(p, o)'
        BY <1>2, <1>5 DEF Creating
      <3> QED
        BY <1>1, <1>3, <1>5, <2>2, <3>1, <3>2, <3>3, <3>4 DEF Leads
    <2> QED
      BY <2>1, <2>2
  <1>9. \A q \in Requests : req'[q].phase = "idle" \/ call'[q].phase = "idle"
    BY <1>3, <1>5 DEF ReplayInv
  <1>10. \A q \in Requests : OwnRowIsLast(q)'
    BY <1>3 DEF ReplayInv, OwnRowIsLast
  <1>11. \A x \in Orders : row'[x] # AbsentRow => Hydrate(row'[x].snapshot) = row'[x].status
    BY <1>1, <1>5 DEF ReplayInv, Hydrate
  <1> QED
    BY <1>3, <1>8, <1>9, <1>10, <1>11 DEF ReplayInv

\* A step of transition() or create() that writes nothing.
LEMMA LoadKeepsReplay ==
    ASSUME SInv, ReplayInv, NEW p \in Requests, NEW u \in Users, NEW o \in Orders, NEW e \in Events,
           NEW technician \in Users \cup {None}, Load(p, u, o, e, technician)
    PROVE  ReplayInv'
  <1>1. PICK target \in Statuses :
            req' = [req EXCEPT ![p] = [phase |-> "loaded", user |-> u, order |-> o, event |-> e,
                                       write |-> Written(row[o], e, target, technician)]]
    BY DEF Load
  <1> DEFINE l == [phase |-> "loaded", user |-> u, order |-> o, event |-> e,
                   write |-> Written(row[o], e, target, technician)]
  <1>2. l.phase = "loaded" /\ req' = [req EXCEPT ![p] = l]
    BY <1>1
  <1> HIDE DEF l
  <1>3. /\ req'[p] = l /\ \A q \in Requests \ {p} : req'[q] = req[q]
        /\ row' = row /\ passed' = passed /\ lost' = lost /\ log' = log /\ call' = call
        /\ req[p].phase = "idle" /\ call[p].phase = "idle"
    BY <1>2 DEF Load, Free, Audit!InFlight, SInv, WInv, Types
  <1>4. ASSUME NEW x \in Orders \ lost, NEW g, Leads(g, x) PROVE Leads(g, x)'
    <2>1. \A q \in Requests : /\ Recording(q, x)' <=> Recording(q, x)
                              /\ Creating(q, x)' <=> Creating(q, x)
      BY <1>2, <1>3 DEF Recording, Creating
    <2>2. \A i \in 1..Len(log) : Counts(i, x)' <=> Counts(i, x)
      BY <1>3 DEF Counts
    <2>3. FirstState(x)' = FirstState(x)
      BY <1>3 DEF FirstState
    <2> QED
      BY <1>3, <1>4, <2>1, <2>2, <2>3, LeadsStays
  <1>5. \A q \in Requests : req'[q].phase = "idle" \/ call'[q].phase = "idle"
    BY <1>3 DEF ReplayInv
  <1>6. \A q \in Requests : OwnRowIsLast(q)'
    BY <1>3 DEF ReplayInv, OwnRowIsLast
  <1> QED
    BY <1>3, <1>4, <1>5, <1>6 DEF ReplayInv

\* A request that ends before its update: what create() did remains without its entry.
LEMMA FailKeepsReplay ==
    ASSUME SInv, ReplayInv, NEW p \in Requests, FailBeforeStore(p)
    PROVE  ReplayInv'
  <1>1. /\ req'[p].phase = "idle" /\ \A q \in Requests \ {p} : req'[q] = req[q]
        /\ row' = row /\ passed' = passed /\ log' = log /\ call' = call
        /\ lost \subseteq lost' /\ (req[p].phase = "created" => req[p].order \in lost')
    BY RequestEnds DEF FailBeforeStore, SInv, WInv
  <1>2. ASSUME NEW x \in Orders \ lost', NEW g, Leads(g, x) PROVE Leads(g, x)'
    <2>1. ASSUME NEW q \in Requests
          PROVE  /\ Recording(q, x)' <=> Recording(q, x)
                 /\ Creating(q, x)' <=> Creating(q, x)
      <3>1. CASE q = p
        BY <1>1, <1>2, <3>1 DEF Recording, Creating
      <3>2. CASE q # p
        BY <1>1, <3>2 DEF Recording, Creating
      <3> QED
        BY <3>1, <3>2
    <2>2. \A i \in 1..Len(log) : Counts(i, x)' <=> Counts(i, x)
      BY <1>1 DEF Counts
    <2>3. FirstState(x)' = FirstState(x)
      BY <1>1 DEF FirstState
    <2> QED
      BY <1>1, <1>2, <2>1, <2>2, <2>3, LeadsStays
  <1>3. \A q \in Requests : req'[q].phase = "idle" \/ call'[q].phase = "idle"
    BY <1>1 DEF ReplayInv
  <1>4. \A q \in Requests : OwnRowIsLast(q)'
    BY <1>1 DEF ReplayInv, OwnRowIsLast
  <1> QED
    BY <1>1, <1>2, <1>3, <1>4 DEF ReplayInv

\* The update and the call of record(), for a request that has its order to itself: the
\* entry tells of the step from the status before to the one after.
LEMMA RecordKeepsReplay ==
    ASSUME SInv, ReplayInv, OneInHand, NEW p \in Requests, req[p].phase # "idle",
           NEW o \in Orders, req[p].order = o,
           NEW t \in Tenants, NEW entry \in TrailEntry, entry.order = o,
           Audit!Record(p, t, entry), req' = [req EXCEPT ![p] = IdleRequest], lost' = lost,
           \A x \in Orders \ {o} : row'[x] = row[x],
           Hydrate(row'[o].snapshot) = row'[o].status,
           \A x \in Orders : FirstState(x)' = FirstState(x),
           \A s : /\ Creating(p, o) => s = "absent"
                  /\ ~Creating(p, o) => s = row[o].status
                  => Follow(s, entry.action) = row'[o].status
    PROVE  ReplayInv'
  <1>1. AuditP!Enter(p, t, entry)
    BY SameEnter
  <1>2. /\ log' = log /\ call'[p].entry = entry /\ call'[p].phase = "reading"
        /\ \A q \in Requests \ {p} : call'[q] = call[q]
        /\ call[p].phase = "idle"
    BY <1>1, AuditTypes DEF AuditP!Enter, AuditP!InFlight, SInv
  <1>3. /\ req'[p].phase = "idle" /\ \A q \in Requests \ {p} : req'[q] = req[q]
    BY RequestEnds DEF SInv, WInv
  <1>4. HasInHand(p, o)
    BY DEF HasInHand
  <1>5. ASSUME NEW x \in Orders \ lost, NEW g, Leads(g, x) PROVE Leads(g, x)'
    <2>1. CASE x # o
      <3>1. ASSUME NEW q \in Requests
            PROVE  /\ Recording(q, x)' <=> Recording(q, x)
                   /\ Creating(q, x)' <=> Creating(q, x)
                   /\ Recording(q, x) => call'[q] = call[q]
        <4>1. CASE q = p
          BY <1>2, <1>3, <2>1, <4>1 DEF Recording, Creating
        <4>2. CASE q # p
          BY <1>2, <1>3, <4>2 DEF Recording, Creating
        <4> QED
          BY <4>1, <4>2
      <3>2. \A i \in 1..Len(log) : Counts(i, x)' <=> Counts(i, x)
        BY <1>2 DEF Counts
      <3> QED
        BY <1>2, <1>5, <2>1, <3>1, <3>2, LeadsStays
    <2>2. CASE x = o
      <3>1. \A q \in Requests \ {p} : ~Recording(q, o) /\ ~Creating(q, o)
        BY <1>4, OthersHaveNot
      <3>2. ~Recording(p, o)
        BY <1>2 DEF Recording
      <3>3. IsReplay(g, o) /\ Follow(g[Len(log)], entry.action) = row'[o].status
        <4>1. CASE Creating(p, o)
          BY <1>5, <2>2, <4>1 DEF Leads
        <4>2. CASE ~Creating(p, o)
          BY <1>5, <2>2, <3>1, <3>2, <4>2, Reached
        <4> QED
          BY <4>1, <4>2
      <3>4. IsReplay(g, o)'
        BY <1>2, <3>3 DEF IsReplay, Counts
      <3>5. \A q \in Requests \ {p} : ~Recording(q, o)' /\ ~Creating(q, o)'
        BY <1>2, <1>3, <3>1 DEF Recording, Creating
      <3>6. Recording(p, o)' /\ ~Creating(p, o)'
        BY <1>2, <1>3 DEF Recording, Creating
      <3> QED
        BY <1>2, <2>2, <3>3, <3>4, <3>5, <3>6 DEF Leads
    <2> QED
      BY <2>1, <2>2
  <1>6. \A q \in Requests : req'[q].phase = "idle" \/ call'[q].phase = "idle"
    BY <1>2, <1>3 DEF ReplayInv
  <1>7. \A q \in Requests : OwnRowIsLast(q)'
    BY <1>2 DEF ReplayInv, OwnRowIsLast
  <1>8. \A x \in Orders : row'[x] # AbsentRow => Hydrate(row'[x].snapshot) = row'[x].status
    BY DEF ReplayInv
  <1> QED
    BY <1>5, <1>6, <1>7, <1>8 DEF ReplayInv

LEMMA StoreFirstSnapshotKeepsReplay ==
    ASSUME SInv, HeldInv, ReplayInv, OneInHand, NEW p \in Requests, StoreFirstSnapshot(p)
    PROVE  ReplayInv'
  <1>1. Types /\ req[p].phase = "created" /\ CreatedOK(p) /\ row[req[p].order].snapshot = None
    BY DEF SInv, WInv, StoreFirstSnapshot, HeldInv
  <1>2. PICK o \in Orders : o = req[p].order
    BY <1>1, OrderOfRequest
  <1>3. PICK entry : entry = [order |-> o, action |-> "CREATE"]
    OBVIOUS
  <1>4. /\ entry \in TrailEntry /\ entry.order = o /\ entry.action = "CREATE"
        /\ row[o].tenant \in Tenants
    BY <1>1, <1>2, <1>3 DEF TrailEntry, Types, CreatedOK, StoredRow
  <1>5. /\ Audit!Record(p, row[o].tenant, entry) /\ req' = [req EXCEPT ![p] = IdleRequest]
        /\ row' = [row EXCEPT ![o].snapshot = "draft"] /\ passed' = passed /\ lost' = lost
    BY <1>2, <1>3 DEF StoreFirstSnapshot
  <1>6. row[o].status = "draft"
    BY <1>1, <1>2 DEF ReplayInv, CreatedOK, Hydrate
  <1>7. /\ row'[o].snapshot = "draft" /\ row'[o].status = "draft"
        /\ \A x \in Orders \ {o} : row'[x] = row[x]
    BY <1>1, <1>2, <1>5, <1>6 DEF Types, CreatedOK, StoredRow
  <1>8. Hydrate(row'[o].snapshot) = row'[o].status
    BY <1>7 DEF Hydrate
  <1>9. Creating(p, o) /\ Follow("absent", entry.action) = row'[o].status
    BY <1>1, <1>2, <1>4, <1>7 DEF Creating, Follow
  <1>10. \A x \in Orders : FirstState(x)' = FirstState(x)
    BY <1>5 DEF FirstState
  <1> QED
    BY <1>1, <1>2, <1>4, <1>5, <1>7, <1>8, <1>9, <1>10, RecordKeepsReplay

LEMMA StoreKeepsReplay ==
    ASSUME SInv, HeldInv, ReplayInv, OneInHand, NEW p \in Requests, Store(p)
    PROVE  ReplayInv'
  <1>1. /\ Types /\ req[p].phase = "loaded" /\ req[p] \in LoadedRequest
        /\ LoadedFrom(p) /\ WriteOK(p) /\ CreatedOK(p)
    BY DEF SInv, WInv, Store, Types, IdleRequest, CreatedRequest, HeldInv
  <1>2. PICK o \in Orders, w \in WrittenRow, e \in Events :
            o = req[p].order /\ w = req[p].write /\ e = req[p].event
    BY <1>1 DEF LoadedRequest
  <1>3. PICK entry : entry = [order |-> o, action |-> e]
    OBVIOUS
  <1>4. entry \in TrailEntry /\ entry.order = o /\ entry.action = e /\ w.tenant \in Tenants
    BY <1>3 DEF TrailEntry, WrittenRow
  <1>5. /\ Audit!Record(p, w.tenant, entry) /\ req' = [req EXCEPT ![p] = IdleRequest]
        /\ row' = [row EXCEPT ![o] = w]
        /\ passed' = [passed EXCEPT ![o] = @ \cup {w.status}] /\ lost' = lost
    BY <1>2, <1>3 DEF Store
  <1>6. /\ row'[o] = w /\ \A x \in Orders \ {o} : row'[x] = row[x]
        /\ passed'[o] = passed[o] \cup {w.status}
        /\ \A x \in Orders \ {o} : passed'[x] = passed[x]
    BY <1>1, <1>5 DEF Types
  <1>7. w.status \in Statuses /\ w.snapshot = w.status
    BY <1>1, <1>2 DEF WriteOK, WrittenRow
  <1>8. Hydrate(row'[o].snapshot) = row'[o].status
    BY <1>6, <1>7, NoneIsNoStatus DEF Hydrate
  <1>9. Follow(row[o].status, entry.action) = row'[o].status /\ ~Creating(p, o)
    <2>1. Goes(row[o].status, e, w.status)
      BY <1>1, <1>2 DEF LoadedFrom, ReplayInv, CreatedOK
    <2> QED
      BY <1>1, <1>4, <1>6, <1>7, <2>1, FollowsEdge DEF Creating
  <1>10. \A x \in Orders : FirstState(x)' = FirstState(x)
    BY <1>6, <1>7, FirstStateStays
  <1>11. \A s : /\ Creating(p, o) => s = "absent"
                /\ ~Creating(p, o) => s = row[o].status
                => Follow(s, entry.action) = row'[o].status
    BY <1>9
  <1>12. req[p].phase # "idle" /\ req[p].order = o
    BY <1>1, <1>2
  <1> QED
    BY <1>4, <1>5, <1>6, <1>8, <1>10, <1>11, <1>12, RecordKeepsReplay

----
\* The steps of record().

LEMMA ReadLastKeepsReplay ==
    ASSUME SInv, ReplayInv, NEW p \in Requests, AuditP!ReadLast(p),
           row' = row, req' = req, passed' = passed, lost' = lost
    PROVE  ReplayInv'
  <1>1. call \in [Requests -> AuditP!Calls]
    BY AuditTypes DEF SInv
  <1>2. /\ log' = log /\ call[p].phase = "reading"
        /\ call'[p].phase = "computed" /\ call'[p].entry = call[p].entry
        /\ \A q \in Requests \ {p} : call'[q] = call[q]
    BY <1>1 DEF AuditP!ReadLast, AuditP!Calls
  <1>3. ASSUME NEW x \in Orders \ lost, NEW g, Leads(g, x) PROVE Leads(g, x)'
    <2>1. ASSUME NEW q \in Requests
          PROVE  /\ Recording(q, x)' <=> Recording(q, x)
                 /\ Creating(q, x)' <=> Creating(q, x)
                 /\ call'[q].entry = call[q].entry
                 /\ call'[q].phase = "inserted" => call'[q] = call[q]
      <3>1. CASE q = p
        BY <1>2, <3>1 DEF Recording, Creating
      <3>2. CASE q # p
        BY <1>2, <3>2 DEF Recording, Creating
      <3> QED
        BY <3>1, <3>2
    <2>2. \A i \in 1..Len(log) : Counts(i, x)' <=> Counts(i, x)
      BY <1>2 DEF Counts
    <2>3. FirstState(x)' = FirstState(x)
      BY DEF FirstState
    <2> QED
      BY <1>2, <1>3, <2>1, <2>2, <2>3, LeadsStays
  <1>4. \A q \in Requests : req'[q].phase = "idle" \/ call'[q].phase = "idle"
    BY <1>2 DEF ReplayInv
  <1>5. ASSUME NEW q \in Requests PROVE OwnRowIsLast(q)'
    <2>1. CASE q = p
      BY <1>2, <2>1 DEF OwnRowIsLast
    <2>2. CASE q # p
      BY <1>2, <2>2 DEF ReplayInv, OwnRowIsLast
    <2> QED
      BY <2>1, <2>2
  <1> QED
    BY <1>3, <1>4, <1>5 DEF ReplayInv

\* A new row that does not count yet leads every order where it was.
LEMMA InsertKeepsReplay ==
    ASSUME SInv, ReplayInv, OneInHand, NEW p \in Requests, AuditP!Insert(p),
           row' = row, req' = req, passed' = passed, lost' = lost
    PROVE  ReplayInv'
  <1> DEFINE r == [tenant |-> call[p].tenant, entry |-> call[p].entry, prev |-> call[p].prev,
                   state |-> "open"]
  <1>1. /\ log \in Seq(AuditP!Rows) /\ call \in [Requests -> AuditP!Calls] /\ AuditP!AuditTypeOK
        /\ \A i \in 1..Len(log) : log[i].entry \in TrailEntry
        /\ \A q \in Requests : AuditP!InFlight(q) => call[q].entry \in TrailEntry
    BY AuditTypes DEF SInv, AuditP!RootInv
  <1>2. Len(log) \in Nat
    BY <1>1, AuditP!TypeOfLog, AuditAssumption
  <1>3. /\ call[p].phase = "computed" /\ log' = Append(log, r)
        /\ call' = [call EXCEPT ![p].phase = "inserted", ![p].id = Len(log) + 1]
    BY DEF AuditP!Insert
  <1>4. AuditP!InFlight(p) /\ call[p].entry \in TrailEntry /\ call[p].entry.order \in Orders
    BY <1>1, <1>3 DEF AuditP!InFlight, TrailEntry
  <1>5. r \in AuditP!Rows /\ r.entry = call[p].entry /\ r.state = "open"
    BY <1>1, <1>4 DEF AuditP!AuditTypeOK, AuditP!Rows, AuditP!Calls
  <1> HIDE DEF r
  <1>6. PICK n \in Nat \ {0} : n = Len(log) + 1
    BY <1>2
  <1>7. /\ Len(log') = n /\ log'[n] = r /\ \A i \in 1..Len(log) : log'[i] = log[i]
    BY <1>1, <1>3, <1>5, <1>6, AuditP!AppendRow, AuditAssumption
  <1>8. /\ call'[p].phase = "inserted" /\ call'[p].entry = call[p].entry /\ call'[p].id = n
        /\ \A q \in Requests \ {p} : call'[q] = call[q]
    BY <1>1, <1>3, <1>6 DEF AuditP!Calls
  <1>9. ASSUME NEW x \in Orders \ lost, NEW g, Leads(g, x) PROVE \E f : Leads(f, x)'
    <2>0. PICK f : f = [i \in 0..n |-> IF i = n THEN g[Len(log)] ELSE g[i]]
      OBVIOUS
    <2>1. /\ DOMAIN f = 0..n /\ f[n] = g[Len(log)]
          /\ \A i \in 0..Len(log) : f[i] = g[i]
      BY <1>2, <1>6, <2>0
    <2>2. FirstState(x)' = FirstState(x)
      BY DEF FirstState
    <2>3. IsReplay(f, x)'
      <3>1. IsReplay(g, x)
        BY <1>9 DEF Leads
      <3>2. f[0] = FirstState(x)'
        BY <1>2, <2>1, <2>2, <3>1 DEF IsReplay
      <3>3. ASSUME NEW i \in 1..Len(log)
            PROVE  f[i] = IF Counts(i, x)' THEN Follow(f[i - 1], log'[i].entry.action) ELSE f[i - 1]
        <4>1. i \in 0..Len(log) /\ i - 1 \in 0..Len(log)
          BY <1>2
        <4>2. Counts(i, x)' <=> Counts(i, x)
          BY <1>7 DEF Counts
        <4> QED
          BY <1>7, <2>1, <3>1, <4>1, <4>2 DEF IsReplay
      <3>4. ~Counts(n, x)' /\ n - 1 = Len(log) /\ Len(log) \in 0..Len(log)
        BY <1>2, <1>5, <1>6, <1>7 DEF Counts
      <3>5. f[n] = f[n - 1]
        BY <2>1, <3>4
      <3>6. \A i \in 1..n : i \in 1..Len(log) \/ i = n
        BY <1>2, <1>6
      <3>7. \A i \in 1..Len(log') :
              f[i] = IF Counts(i, x)' THEN Follow(f[i - 1], log'[i].entry.action) ELSE f[i - 1]
        BY <1>7, <3>3, <3>4, <3>5, <3>6
      <3> QED
        BY <1>7, <2>1, <3>2, <3>7 DEF IsReplay
    <2>4. ASSUME NEW q \in Requests
          PROVE  /\ Recording(q, x)' <=> Recording(q, x)
                 /\ Creating(q, x)' <=> Creating(q, x)
                 /\ call'[q].entry = call[q].entry
      <3>1. CASE q = p
        BY <1>3, <1>8, <3>1 DEF Recording, Creating
      <3>2. CASE q # p
        BY <1>8, <3>2 DEF Recording, Creating
      <3> QED
        BY <3>1, <3>2
    <2>5. ASSUME NEW q \in Requests, Recording(q, x)', call'[q].phase = "inserted",
                 NEW i \in 0..n, i + 1 >= call'[q].id
          PROVE  f[i] = f[n]
      <3>1. CASE i = n
        BY <3>1
      <3>2. CASE i # n
        <4>1. i \in 0..Len(log) /\ f[i] = g[i]
          BY <1>2, <1>6, <2>1, <3>2
        <4>2. CASE q = p
          <5>1. i = Len(log)
            BY <1>2, <1>6, <1>8, <2>5, <4>1, <4>2
          <5> QED
            BY <2>1, <4>1, <5>1
        <4>3. CASE q # p
          <5>1. call'[q] = call[q] /\ Recording(q, x)
            BY <1>8, <2>4, <2>5, <4>3
          <5> QED
            BY <1>9, <2>1, <2>5, <4>1, <5>1 DEF Leads
        <4> QED
          BY <4>2, <4>3
      <3> QED
        BY <3>1, <3>2
    <2>6. f[Len(log')] = g[Len(log)]
      BY <1>7, <2>1
    <2>7. Leads(f, x)'
      <3>1. ASSUME NEW q \in Requests, Recording(q, x)'
            PROVE  Follow(f[Len(log')], call'[q].entry.action) = row'[x].status
        BY <1>9, <2>4, <2>6, <3>1 DEF Leads
      <3>2. ASSUME NEW q \in Requests, Creating(q, x)'
            PROVE  f[Len(log')] = "absent" /\ row'[x].status = "draft"
        BY <1>9, <2>4, <2>6, <3>2 DEF Leads
      <3>3. (\A q \in Requests : ~Recording(q, x)' /\ ~Creating(q, x)') =>
                f[Len(log')] = row'[x].status
        BY <1>9, <2>4, <2>6 DEF Leads
      <3>4. ASSUME NEW q \in Requests, Recording(q, x)', call'[q].phase = "inserted",
                   NEW i \in 0..Len(log'), i + 1 >= call'[q].id
            PROVE  f[i] = f[Len(log')]
        BY <1>7, <2>5, <3>4
      <3> QED
        BY <2>3, <3>1, <3>2, <3>3, <3>4 DEF Leads
    <2> QED
      BY <2>7
  <1>10. \A q \in Requests : req'[q].phase = "idle" \/ call'[q].phase = "idle"
    BY <1>3, <1>8 DEF ReplayInv
  <1>11. ASSUME NEW q \in Requests PROVE OwnRowIsLast(q)'
    <2>1. CASE q = p
      BY <1>5, <1>6, <1>7, <1>8, <2>1 DEF OwnRowIsLast
    <2>2. ASSUME q # p, call[q].phase = "inserted" PROVE OwnRowIsLast(q)'
      <3>1. call[q].id \in 1..Len(log) /\ OwnRowIsLast(q)
        BY <1>1, <2>2 DEF AuditP!AuditTypeOK, ReplayInv
      <3>2. call[q].entry.order # call[p].entry.order
        <4>1. AuditP!InFlight(q) /\ call[q].entry.order \in Orders
          BY <1>1, <2>2 DEF AuditP!InFlight, TrailEntry
        <4> QED
          BY <1>3, <1>4, <2>2, <4>1 DEF OneInHand, HasInHand, AuditP!InFlight
      <3>3. \A i \in 1..n : i \in 1..Len(log) \/ i = n
        BY <1>2, <1>6
      <3> QED
        BY <1>5, <1>7, <1>8, <2>2, <3>1, <3>2, <3>3 DEF OwnRowIsLast
    <2>3. CASE q # p /\ call[q].phase # "inserted"
      BY <1>8, <2>3 DEF OwnRowIsLast
    <2> QED
      BY <2>1, <2>2, <2>3
  <1> QED
    BY <1>9, <1>10, <1>11 DEF ReplayInv

\* What the end of a call changes: the state of its own row, if it has one.
LEMMA CallEndsRow ==
    ASSUME AuditP!RootInv, NEW p \in Requests, AuditP!Commit(p) \/ AuditP!Fail(p)
    PROVE  /\ Len(log) \in Nat /\ Len(log') = Len(log) /\ AuditP!InFlight(p)
           /\ \A i \in 1..Len(log) :
                /\ log'[i].entry = log[i].entry
                /\ \/ log'[i] = log[i]
                   \/ call[p].phase = "inserted" /\ i = call[p].id
           /\ call'[p].phase = "idle" /\ \A q \in Requests \ {p} : call'[q] = call[q]
           /\ AuditP!Commit(p) => /\ call[p].phase = "inserted" /\ call[p].id \in 1..Len(log)
                                  /\ log'[call[p].id].state = "committed"
                                  /\ log[call[p].id].state = "open"
  <1>1. /\ log \in Seq(AuditP!Rows) /\ call \in [Requests -> AuditP!Calls] /\ AuditP!AuditTypeOK
        /\ Len(log) \in Nat
    BY AuditTypes, AuditP!TypeOfLog, AuditAssumption DEF AuditP!RootInv
  <1>2. call'[p].phase = "idle" /\ \A q \in Requests \ {p} : call'[q] = call[q]
    BY <1>1 DEF AuditP!Commit, AuditP!Fail, AuditP!IdleCall
  <1>3. AuditP!InFlight(p)
    BY DEF AuditP!Commit, AuditP!Fail, AuditP!InFlight
  <1>4. CASE call[p].phase # "inserted"
    <2>1. log' = log /\ ~AuditP!Commit(p)
      BY <1>4 DEF AuditP!Commit, AuditP!Fail
    <2> QED
      BY <1>1, <1>2, <1>3, <2>1
  <1>5. CASE call[p].phase = "inserted"
    <2>1. PICK k \in 1..Len(log) : k = call[p].id
      BY <1>1, <1>5 DEF AuditP!AuditTypeOK
    <2>2. PICK s \in {"committed", "void"} : /\ log' = [log EXCEPT ![k].state = s]
                                             /\ AuditP!Commit(p) => s = "committed"
      BY <1>5, <2>1 DEF AuditP!Commit, AuditP!Fail
    <2>3. /\ Len(log') = Len(log) /\ log'[k] = [log[k] EXCEPT !.state = s]
          /\ \A j \in 1..Len(log) : j # k => log'[j] = log[j]
      BY <1>1, <2>2, AuditP!SetState, AuditAssumption
    <2>4. log[k] \in AuditP!Rows
      BY <1>1, ElementOfSeq
    <2>5. log'[k].entry = log[k].entry /\ log'[k].state = s
      BY <2>3, <2>4 DEF AuditP!Rows
    <2>6. log[k].state = "open"
      BY <1>5, <2>1 DEF AuditP!RootInv, AuditP!OwnsRow
    <2> QED
      BY <1>1, <1>2, <1>3, <1>5, <2>1, <2>2, <2>3, <2>5, <2>6
  <1> QED
    BY <1>4, <1>5

\* For all orders but the one it was about the end of a call changes nothing.
LEMMA CallEndsLeads ==
    ASSUME SInv, ReplayInv, NEW p \in Requests, AuditP!Commit(p) \/ AuditP!Fail(p),
           row' = row, req' = req, passed' = passed,
           NEW x \in Orders, x # call[p].entry.order, NEW g, Leads(g, x)
    PROVE  Leads(g, x)'
  <1>1. AuditP!RootInv /\ OwnRowIsLast(p)
    BY DEF SInv, ReplayInv
  <1>2. ASSUME NEW q \in Requests
        PROVE  /\ Recording(q, x)' <=> Recording(q, x)
               /\ Recording(q, x) => call'[q] = call[q]
               /\ Creating(q, x)' <=> Creating(q, x)
    <2>1. CASE q = p
      BY <1>1, <2>1, CallEndsRow DEF Recording, Creating
    <2>2. CASE q # p
      BY <1>1, <2>2, CallEndsRow DEF Recording, Creating
    <2> QED
      BY <2>1, <2>2
  <1>3. ASSUME NEW i \in 1..Len(log) PROVE Counts(i, x)' <=> Counts(i, x)
    <2>1. CASE log'[i] = log[i]
      BY <2>1 DEF Counts
    <2>2. CASE call[p].phase = "inserted" /\ i = call[p].id
      BY <1>1, <2>2, CallEndsRow DEF Counts, OwnRowIsLast
    <2> QED
      BY <1>1, <2>1, <2>2, CallEndsRow
  <1>4. FirstState(x)' = FirstState(x)
    BY DEF FirstState
  <1> QED
    BY <1>1, <1>2, <1>3, <1>4, CallEndsRow, LeadsStays

LEMMA CallEndsRest ==
    ASSUME SInv, ReplayInv, NEW p \in Requests, AuditP!Commit(p) \/ AuditP!Fail(p), req' = req
    PROVE  \A q \in Requests : /\ req'[q].phase = "idle" \/ call'[q].phase = "idle"
                               /\ OwnRowIsLast(q)'
  <1>1. AuditP!RootInv /\ AuditP!AuditTypeOK
    BY DEF SInv, AuditP!RootInv
  <1> SUFFICES ASSUME NEW q \in Requests
               PROVE  (req'[q].phase = "idle" \/ call'[q].phase = "idle") /\ OwnRowIsLast(q)'
    OBVIOUS
  <1>2. CASE q = p
    BY <1>1, <1>2, CallEndsRow DEF OwnRowIsLast
  <1>3. CASE q # p
    <2>1. call'[q] = call[q] /\ OwnRowIsLast(q)
      BY <1>1, <1>3, CallEndsRow DEF ReplayInv
    <2>2. call[q].phase = "inserted" => call[q].id \in 1..Len(log)
      BY <1>1 DEF AuditP!AuditTypeOK
    <2>3. OwnRowIsLast(q)'
      BY <1>1, <2>1, <2>2, CallEndsRow DEF OwnRowIsLast
    <2> QED
      BY <2>1, <2>3 DEF ReplayInv
  <1> QED
    BY <1>2, <1>3

\* The row of a call that commits counts from now on, and is the last one to count for
\* its order: what was reached with it in hand is reached without.
LEMMA CommitKeepsReplay ==
    ASSUME SInv, ReplayInv, OneInHand, NEW p \in Requests, AuditP!Commit(p),
           row' = row, req' = req, passed' = passed, lost' = lost
    PROVE  ReplayInv'
  <1>1. AuditP!RootInv /\ OwnRowIsLast(p) /\ AuditP!InFlight(p) /\ Len(log) \in Nat
    BY CallEndsRow DEF SInv, ReplayInv
  <1>2. PICK k \in 1..Len(log) :
            /\ k = call[p].id /\ call[p].phase = "inserted" /\ log[k].entry = call[p].entry
            /\ log'[k].state = "committed" /\ log'[k].entry = log[k].entry
            /\ \A i \in 1..Len(log) : i > k => log[i].entry.order # call[p].entry.order
            /\ \A i \in 1..Len(log) : log'[i].entry = log[i].entry /\ (i # k => log'[i] = log[i])
    BY <1>1, CallEndsRow DEF OwnRowIsLast
  <1>3. Len(log') = Len(log)
    BY <1>1, CallEndsRow
  <1>4. PICK o \in Orders, a \in Events \cup {"CREATE"} :
            o = call[p].entry.order /\ a = call[p].entry.action
    BY <1>1, AuditTypes DEF TrailEntry
  <1>5. Recording(p, o)
    BY <1>1, <1>4 DEF Recording, AuditP!InFlight
  <1>6. \A q \in Requests : ~Recording(q, o)' /\ ~Creating(q, o)'
    <2> SUFFICES ASSUME NEW q \in Requests PROVE ~Recording(q, o)' /\ ~Creating(q, o)'
      OBVIOUS
    <2>1. CASE q = p
      <3>1. call'[p].phase = "idle" /\ req[p].phase = "idle"
        BY <1>1, <1>5, CallEndsRow DEF ReplayInv, Recording
      <3> QED
        BY <2>1, <3>1 DEF Recording, Creating
    <2>2. CASE q # p
      <3>1. ~Recording(q, o) /\ ~Creating(q, o)
        BY <1>5, <2>2, OthersHaveNot DEF Recording, HasInHand
      <3> QED
        BY <1>1, <2>2, <3>1, CallEndsRow DEF Recording, Creating
    <2> QED
      BY <2>1, <2>2
  <1>7. ASSUME NEW g, Leads(g, o) PROVE \E f : Leads(f, o)'
    <2>1. PICK s : s = Follow(g[Len(log)], a)
      OBVIOUS
    <2>2. PICK f : f = [i \in 0..Len(log) |-> IF i < k THEN g[i] ELSE s]
      OBVIOUS
    <2>3. /\ DOMAIN f = 0..Len(log) /\ f[Len(log)] = s
          /\ \A i \in 0..Len(log) : f[i] = IF i < k THEN g[i] ELSE s
      BY <1>1, <2>2
    <2>4. /\ IsReplay(g, o) /\ s = row[o].status
          /\ \A i \in 0..Len(log) : i + 1 >= k => g[i] = g[Len(log)]
      BY <1>2, <1>4, <1>5, <1>7, <2>1 DEF Leads
    <2>5. ASSUME NEW i \in 1..Len(log)
          PROVE  f[i] = IF Counts(i, o)' THEN Follow(f[i - 1], log'[i].entry.action) ELSE f[i - 1]
      <3>0. i \in 0..Len(log) /\ i - 1 \in 0..Len(log) /\ k \in Nat /\ i \in Nat
        BY <1>1
      <3>1. CASE i < k
        <4>1. f[i] = g[i] /\ f[i - 1] = g[i - 1] /\ log'[i] = log[i]
          BY <1>2, <2>3, <3>0, <3>1
        <4>2. Counts(i, o)' <=> Counts(i, o)
          BY <4>1 DEF Counts
        <4> QED
          BY <2>4, <4>1, <4>2 DEF IsReplay
      <3>2. CASE i = k
        <4>1. f[i] = s /\ f[i - 1] = g[i - 1] /\ g[i - 1] = g[Len(log)]
          BY <2>3, <2>4, <3>0, <3>2
        <4>2. Counts(i, o)' /\ log'[i].entry.action = a
          BY <1>2, <1>4, <3>2 DEF Counts
        <4> QED
          BY <2>1, <4>1, <4>2
      <3>3. CASE i > k
        <4>1. f[i] = s /\ f[i - 1] = s
          BY <2>3, <3>0, <3>3
        <4>2. ~Counts(i, o)'
          BY <1>2, <1>4, <3>3 DEF Counts
        <4> QED
          BY <4>1, <4>2
      <3> QED
        BY <3>0, <3>1, <3>2, <3>3
    <2>6. f[0] = FirstState(o)'
      <3>1. f[0] = g[0]
        BY <1>1, <2>3
      <3> QED
        BY <2>4, <3>1 DEF IsReplay, FirstState
    <2>7. IsReplay(f, o)'
      BY <1>3, <2>3, <2>5, <2>6 DEF IsReplay
    <2>8. Leads(f, o)'
      BY <1>3, <1>6, <2>3, <2>4, <2>7 DEF Leads
    <2> QED
      BY <2>8
  <1>8. ASSUME NEW x \in Orders \ lost PROVE \E g : Leads(g, x)'
    <2>1. PICK g : Leads(g, x)
      BY DEF ReplayInv
    <2>2. CASE x = o
      BY <1>7, <2>1, <2>2
    <2>3. CASE x # o
      BY <1>4, <2>1, <2>3, CallEndsLeads
    <2> QED
      BY <2>2, <2>3
  <1> QED
    BY <1>8, CallEndsRest DEF ReplayInv

LEMMA FailInRecordKeepsReplay ==
    ASSUME SInv, ReplayInv, NEW p \in Requests, FailInRecord(p)
    PROVE  ReplayInv'
  <1>1. AuditP!Fail(p)
    BY SameSteps DEF FailInRecord
  <1>2. /\ row' = row /\ req' = req /\ passed' = passed
        /\ lost' = lost \cup {call[p].entry.order}
    BY DEF FailInRecord
  <1>3. ASSUME NEW x \in Orders \ lost' PROVE \E g : Leads(g, x)'
    <2>1. PICK g : Leads(g, x)
      BY <1>2 DEF ReplayInv
    <2> QED
      BY <1>1, <1>2, <2>1, CallEndsLeads
  <1> QED
    BY <1>1, <1>2, <1>3, CallEndsRest DEF ReplayInv

LEMMA NextKeepsReplay ==
    SInv /\ HeldInv /\ ReplayInv /\ OneInHand /\ OneInHand' /\ [Next]_vars => ReplayInv'
  <1> SUFFICES ASSUME SInv, HeldInv, ReplayInv, OneInHand, OneInHand', [Next]_vars
               PROVE  ReplayInv'
    OBVIOUS
  <1>1. ASSUME NEW p \in Requests, NEW u \in Users, NEW o \in Orders, NEW e \in Events,
               NEW technician \in IF e = "ASSIGN" THEN Users ELSE {None},
               Load(p, u, o, e, technician)
        PROVE  ReplayInv'
    BY <1>1, LoadKeepsReplay
  <1>2. ASSUME NEW p \in Requests, AuditStep(p) PROVE ReplayInv'
    BY <1>2, SameSteps, ReadLastKeepsReplay, InsertKeepsReplay, CommitKeepsReplay DEF AuditStep
  <1>3. CASE UNCHANGED vars
    BY <1>3 DEF vars, ReplayInv, OwnRowIsLast, Leads, IsReplay, FirstState, Counts, Recording,
                Creating
  <1> QED
    BY <1>1, <1>2, <1>3, CreateKeepsReplay, StoreFirstSnapshotKeepsReplay, StoreKeepsReplay,
       FailKeepsReplay, FailInRecordKeepsReplay DEF Next

\* An order in one request's hands only is in one request's hands only between read and update.
LEMMA InHandIsPerOrder == SInv /\ OneInHand => OnePerOrder
  BY OrderOfRequest DEF SInv, WInv, OneInHand, OnePerOrder, HasInHand

LEMMA ReplayInvSuffices == SInv /\ ReplayInv => TrailReplays
  <1> SUFFICES ASSUME SInv, ReplayInv, \A p \in Requests : Free(p), NEW o \in Orders \ lost
               PROVE  Replayed(o) = row[o].status
    BY DEF TrailReplays
  <1>1. PICK g : Leads(g, o)
    BY DEF ReplayInv
  <1>2. \A q \in Requests : ~Recording(q, o) /\ ~Creating(q, o)
    BY DEF Free, Audit!InFlight, Recording, Creating
  <1>3. IsReplay(g, o) /\ g[Len(log)] = row[o].status
    BY <1>1, <1>2, Reached
  <1>4. Len(log) \in Nat
    BY AuditTypes, LenProperties DEF SInv
  <1> QED
    BY <1>3, <1>4, ReplayedIs

\* However many requests there are and whatever fails in them: as long as no two of them have
\* the same order in hand, from the read to the end of record(), the audit trail of an order,
\* read as events of the machine, leads to its status, unless a request failed between the
\* update and the audit row.
THEOREM TrailsReplay == Spec /\ []OneInHand => []TrailReplays
  <1>1. SInv /\ HeldInv /\ ReplayInv /\ OneInHand /\ OneInHand' /\ [Next]_vars =>
            SInv' /\ HeldInv' /\ ReplayInv'
    BY NextKeepsSInv, NextKeepsHeld, NextKeepsReplay, InHandIsPerOrder
  <1>2. Init => SInv /\ HeldInv /\ ReplayInv
    BY InitSInv, InitHeldInv, InitReplayInv
  <1> QED
    BY <1>1, <1>2, ReplayInvSuffices, PTL DEF Spec

\* In particular when the API serves one request at a time.
THEOREM SerialTrailsReplay ==
    ASSUME \A p, q \in Requests : p = q
    PROVE  Spec => []TrailReplays
  <1>1. OneInHand
    BY DEF OneInHand
  <1> QED
    BY <1>1, TrailsReplay, PTL

----
(* The log of the work orders is one that concurrent calls of record() write. *)

\* A request enters record() with a tenant and an entry of the tables.
LEMMA StoresRecord ==
    ASSUME SInv, NEW p \in Requests, StoreFirstSnapshot(p) \/ Store(p)
    PROVE  \E t \in Tenants, e \in TrailEntry : Audit!Record(p, t, e)
  <1>1. Types /\ req[p].phase # "idle"
    BY DEF SInv, WInv, StoreFirstSnapshot, Store
  <1>2. PICK o \in Orders : o = req[p].order
    BY <1>1, OrderOfRequest
  <1>3. CASE StoreFirstSnapshot(p)
    <2>1. CreatedOK(p) /\ req[p].phase = "created"
      BY <1>3 DEF SInv, WInv, StoreFirstSnapshot
    <2>2. row[o].tenant \in Tenants
      BY <1>1, <1>2, <2>1 DEF Types, CreatedOK, StoredRow
    <2>3. Audit!Record(p, row[o].tenant, [order |-> o, action |-> "CREATE"])
      BY <1>2, <1>3 DEF StoreFirstSnapshot
    <2>4. [order |-> o, action |-> "CREATE"] \in TrailEntry
      BY DEF TrailEntry
    <2> QED
      BY <2>2, <2>3, <2>4
  <1>4. CASE Store(p)
    <2>1. req[p] \in LoadedRequest
      BY <1>1, <1>4 DEF Store, Types, IdleRequest, CreatedRequest
    <2>2. PICK t \in Tenants : t = req[p].write.tenant
      BY <2>1 DEF LoadedRequest, WrittenRow
    <2>3. PICK e \in Events : e = req[p].event
      BY <2>1 DEF LoadedRequest
    <2>4. Audit!Record(p, t, [order |-> o, action |-> e])
      BY <1>2, <1>4, <2>2, <2>3 DEF Store
    <2>5. [order |-> o, action |-> e] \in TrailEntry
      BY DEF TrailEntry
    <2> QED
      BY <2>4, <2>5
  <1> QED
    BY <1>3, <1>4

LEMMA StepIsAudit == SInv /\ [Next]_vars => [Audit!AuditNext]_<<log, call, overlapped>>
  <1> SUFFICES ASSUME SInv, [Next]_vars
               PROVE  Audit!AuditNext \/ UNCHANGED <<log, call, overlapped>>
    OBVIOUS
  <1>1. ASSUME NEW p \in Requests, StoreFirstSnapshot(p) \/ Store(p) PROVE Audit!AuditNext
    BY <1>1, StoresRecord DEF Audit!AuditNext
  <1>2. ASSUME NEW p \in Requests, AuditStep(p) \/ FailInRecord(p) PROVE Audit!AuditNext
    BY <1>2 DEF AuditStep, FailInRecord, Audit!AuditNext, Audit!RecordStep
  <1>3. ASSUME NEW p \in Requests, FailBeforeStore(p) PROVE UNCHANGED <<log, call, overlapped>>
    BY <1>3 DEF FailBeforeStore
  <1>4. ASSUME NEW p, NEW u, NEW o, Create(p, u, o) PROVE UNCHANGED <<log, call, overlapped>>
    BY <1>4 DEF Create
  <1>5. ASSUME NEW p, NEW u, NEW o, NEW e, NEW technician, Load(p, u, o, e, technician)
        PROVE  UNCHANGED <<log, call, overlapped>>
    BY <1>5 DEF Load
  <1>6. CASE UNCHANGED vars
    BY <1>6 DEF vars
  <1> QED
    BY <1>1, <1>2, <1>3, <1>4, <1>5, <1>6 DEF Next

\* Whatever requests do to the work orders, each of their steps is for the audit log a
\* call, a step of record() or nothing: the log of the service is one AuditLog describes.
THEOREM OrdersFeedAudit == Spec => Audit!AuditSpec
  <1>1. Init => Audit!AuditInit
    BY DEF Init
  <1>2. SInv /\ [Next]_vars => [Audit!AuditNext]_<<log, call, overlapped>>
    BY StepIsAudit
  <1>3. [Audit!AuditNext]_<<log, call, overlapped>> => [Audit!AuditNext]_(Audit!auditVars)
    BY DEF Audit!auditVars
  <1>4. Init => SInv
    BY InitSInv
  <1>5. SInv /\ [Next]_vars => SInv'
    BY NextKeepsSInv
  <1> QED
    BY <1>1, <1>2, <1>3, <1>4, <1>5, PTL DEF Spec, Audit!AuditSpec

\* What AuditLogProofs shows of one step, for a step of the service.
LEMMA StepIsAuditP == SInv /\ [Next]_vars => [AuditP!AuditNext]_(AuditP!auditVars)
  <1> SUFFICES ASSUME SInv, [Next]_vars
               PROVE  AuditP!AuditNext \/ UNCHANGED <<log, call, overlapped>>
    BY DEF AuditP!auditVars
  <1>1. CASE UNCHANGED <<log, call, overlapped>>
    BY <1>1
  <1>2. CASE Audit!AuditNext
    <2>1. PICK w \in Requests : \/ \E t \in Tenants, e \in TrailEntry : Audit!Record(w, t, e)
                                \/ Audit!RecordStep(w)
      BY <1>2 DEF Audit!AuditNext
    <2>2. CASE Audit!RecordStep(w)
      BY <2>2, SameSteps DEF Audit!RecordStep, AuditP!RecordStep, AuditP!AuditNext
    <2>3. ASSUME NEW t \in Tenants, NEW e \in TrailEntry, Audit!Record(w, t, e)
          PROVE  AuditP!AuditNext
      <3>1. Audit!RoomLeft => AuditP!RoomLeft
        BY DEF Audit!RoomLeft, AuditP!RoomLeft, Audit!Cardinality, AuditP!Cardinality,
               Audit!IsFiniteSet, AuditP!IsFiniteSet
      <3>2. Audit!RoomLeft /\ AuditP!Enter(w, t, e)
        BY <2>3, SameEnter DEF Audit!Record
      <3>3. AuditP!Record(w, t, e)
        BY <3>1, <3>2 DEF AuditP!Record
      <3> QED
        BY <3>3 DEF AuditP!AuditNext
    <2> QED
      BY <2>1, <2>2, <2>3
  <1> QED
    BY <1>1, <1>2, StepIsAudit

LEMMA SameHistory ==
    /\ AuditP!RowsAreRooted => Audit!RowsAreRooted
    /\ AuditP!ForkNeedsOverlap => Audit!ForkNeedsOverlap
  <1>1. AuditP!RowsAreRooted => Audit!RowsAreRooted
    BY DEF Audit!RowsAreRooted, AuditP!RowsAreRooted, Audit!Committed, AuditP!Committed,
           Audit!Genesis, AuditP!Genesis
  <1>2. ASSUME NEW t PROVE AuditP!VerifyChain(t) => Audit!VerifyChain(t)
    BY DEF Audit!VerifyChain, AuditP!VerifyChain, Audit!Links, AuditP!Links, Audit!Committed,
           AuditP!Committed, Audit!Genesis, AuditP!Genesis
  <1>3. AuditP!ForkNeedsOverlap => Audit!ForkNeedsOverlap
    BY <1>2 DEF Audit!ForkNeedsOverlap, AuditP!ForkNeedsOverlap
  <1> QED
    BY <1>1, <1>3

\* The trail of the work orders, however requests overtake each other and whatever fails:
\* every row hangs on the genesis hash or a committed row of its tenant, and verifyChain can
\* fail only for a tenant that had two record() calls in flight at once.
THEOREM OrdersForkOnlyInOverlap ==
    Spec => [](Audit!RowsAreRooted /\ Audit!ForkNeedsOverlap)
  <1>1. Init => SInv /\ AuditP!ForkInv
    BY InitSInv, SameInit, AuditP!InitForkInv, AuditAssumption DEF Init
  <1>2. SInv /\ AuditP!ForkInv /\ [Next]_vars => SInv' /\ AuditP!ForkInv'
    BY NextKeepsSInv, StepIsAuditP, AuditP!NextKeepsForkInv, AuditAssumption DEF SInv
  <1>3. SInv /\ AuditP!ForkInv => Audit!RowsAreRooted /\ Audit!ForkNeedsOverlap
    BY SameHistory DEF SInv, AuditP!RootInv, AuditP!ForkInv, AuditP!ForkNeedsOverlap
  <1> QED
    BY <1>1, <1>2, <1>3, PTL DEF Spec

\* The requests an API process serves at once are finite, and the branches of a fork in the
\* trail of the work orders are never more than these requests.
THEOREM OrdersForkNarrowly ==
    ASSUME IsFiniteSet(Requests)
    PROVE  Spec => []Audit!ForkWidthBounded
  <1>1. AuditP!IsFiniteSet(Requests)
    BY DEF AuditP!IsFiniteSet, IsFiniteSet
  <1>2. Init => SInv /\ AuditP!WidthInv
    BY <1>1, InitSInv, SameInit, AuditP!InitWidthInv, AuditAssumption DEF Init
  <1>3. SInv /\ AuditP!WidthInv /\ [Next]_vars => SInv' /\ AuditP!WidthInv'
    BY <1>1, NextKeepsSInv, StepIsAuditP, AuditP!NextKeepsWidthInv, AuditAssumption DEF SInv
  <1>4. SInv /\ AuditP!WidthInv => AuditP!ForkWidthBounded
    BY <1>1, AuditP!WidthInvSuffices, AuditAssumption DEF SInv
  <1>5. AuditP!ForkWidthBounded => Audit!ForkWidthBounded
    BY DEF Audit!ForkWidthBounded, AuditP!ForkWidthBounded, Audit!Cardinality, AuditP!Cardinality,
           Audit!IsFiniteSet, AuditP!IsFiniteSet, Audit!Committed, AuditP!Committed
  <1> QED
    BY <1>2, <1>3, <1>4, <1>5, PTL DEF Spec
====
