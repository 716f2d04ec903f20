---- MODULE AuditLog ----
(***************************************************************************)
(* prisma/audit.service.ts: the hash-chained audit log of every tenant, as  *)
(* written by concurrent calls of record().  record() awaits twice: it reads *)
(* the tenant's last hash, then inserts a row that carries it.  Each Prisma  *)
(* call is a transaction of its own (prisma.service.ts), so other calls run  *)
(* between the two, and an insert takes its id from the table's sequence     *)
(* before it becomes visible at commit.                                      *)
(*                                                                           *)
(* A row's position in log is its id (BIGSERIAL).  Its hash is abstracted to *)
(* that id.  Two rows share a hash only when they share a prevHash, the      *)
(* content and the millisecond; the second of them breaks the chain whether  *)
(* or not their hashes are told apart.  0 stands for '0'.repeat(64).         *)
(***************************************************************************)
EXTENDS Integers, Sequences, FiniteSets

CONSTANTS
    Writers,      \* requests that may be inside record() at the same time
    Tenants,
    Entries,      \* what a row says: entity id and action
    NoCall,       \* the tenant and entry of a writer that is not in record()
    MaxRows       \* bound: ids the table's sequence hands out

ASSUME MaxRowsAssumption == MaxRows \in Nat

ASSUME NoCallAssumption == NoCall \notin Tenants /\ NoCall \notin Entries

VARIABLES
    log,          \* audit_log, by id
    call,         \* the state of each writer's record() call
    overlapped    \* history: tenants for which two calls were in flight at once

auditVars == <<log, call, overlapped>>

Genesis == 0

Phases == {"idle", "reading", "computed", "inserted"}

IdleCall == [phase |-> "idle", tenant |-> NoCall, entry |-> NoCall,
             prev |-> Genesis, id |-> 0]

InFlight(w) == call[w].phase # "idle"

Committed(t, i) == log[i].tenant = t /\ log[i].state = "committed"

AuditInit ==
    /\ log = <<>>
    /\ call = [w \in Writers |-> IdleCall]
    /\ overlapped = {}

----
\* The bound counts the rows the calls in flight are still going to insert.
RoomLeft ==
    Len(log) + Cardinality({v \in Writers : call[v].phase \in {"reading", "computed"}})
        < MaxRows

Enter(w, t, e) ==
    /\ ~InFlight(w)
    /\ call' = [call EXCEPT ![w] = [phase |-> "reading", tenant |-> t, entry |-> e,
                                    prev |-> Genesis, id |-> 0]]
    /\ overlapped' = IF \E v \in Writers : InFlight(v) /\ call[v].tenant = t
                     THEN overlapped \cup {t} ELSE overlapped
    /\ UNCHANGED log

\* A caller enters record().
Record(w, t, e) == RoomLeft /\ Enter(w, t, e)

\* Variant with a defect, without the tenant filter: the last visible row of anyone.
IsLastOfAnyTenant(t, h) ==
    IF h = Genesis
    THEN \A i \in 1..Len(log) : log[i].state # "committed"
    ELSE log[h].state = "committed" /\ \A i \in (h + 1)..Len(log) : log[i].state # "committed"

\* Variant with a defect, ordered the other way: the first visible row instead of the last.
IsFirst(t, h) ==
    IF h = Genesis
    THEN \A i \in 1..Len(log) : ~Committed(t, i)
    ELSE Committed(t, h) /\ \A i \in 1..(h - 1) : ~Committed(t, i)

\* findFirst(where tenant, orderBy id desc): h is the hash of the tenant's last
\* visible row.
IsLast(t, h) ==
    IF h = Genesis
    THEN \A i \in 1..Len(log) : ~Committed(t, i)
    ELSE /\ Committed(t, h)
         /\ \A i \in 1..Len(log) : Committed(t, i) => i <= h

ReadLast(w) ==
    /\ call[w].phase = "reading"
    /\ \E h \in 0..Len(log) :
         /\ IsLast(call[w].tenant, h)
         /\ call' = [call EXCEPT ![w].phase = "computed", ![w].prev = h]
    /\ UNCHANGED <<log, overlapped>>

\* auditLog.create: the INSERT takes the next id; the row is not visible yet.
Insert(w) ==
    /\ call[w].phase = "computed"
    /\ log' = Append(log, [tenant |-> call[w].tenant, entry |-> call[w].entry,
                           prev |-> call[w].prev, state |-> "open"])
    /\ call' = [call EXCEPT ![w].phase = "inserted", ![w].id = Len(log) + 1]
    /\ UNCHANGED overlapped

Commit(w) ==
    /\ call[w].phase = "inserted"
    /\ log' = [log EXCEPT ![call[w].id].state = "committed"]
    /\ call' = [call EXCEPT ![w] = IdleCall]
    /\ UNCHANGED overlapped

\* A database error or the end of the process, at any await of record().  An
\* insert that did not commit leaves a hole in the ids.
Fail(w) ==
    /\ InFlight(w)
    /\ log' = IF call[w].phase = "inserted"
              THEN [log EXCEPT ![call[w].id].state = "void"] ELSE log
    /\ call' = [call EXCEPT ![w] = IdleCall]
    /\ UNCHANGED overlapped

\* The steps record() takes once it is called.
RecordStep(w) == ReadLast(w) \/ Insert(w) \/ Commit(w) \/ Fail(w)

AuditNext ==
    \E w \in Writers :
        \/ \E t \in Tenants, e \in Entries : Record(w, t, e)
        \/ RecordStep(w)

AuditSpec == AuditInit /\ [][AuditNext]_auditVars

----
\* verifyChain: walk the tenant's rows by ascending id; each row's prevHash is
\* the hash of the row before it.
Links(t, i) ==
    LET p == log[i].prev
    IN  /\ p < i
        /\ p # Genesis => Committed(t, p)
        /\ \A k \in (p + 1)..(i - 1) : ~Committed(t, k)

VerifyChain(t) == \A i \in 1..Len(log) : Committed(t, i) => Links(t, i)

----
AuditTypeOK ==
    /\ log \in Seq([tenant : Tenants, entry : Entries, prev : Nat,
                    state : {"open", "committed", "void"}])
    /\ call \in [Writers -> [phase : Phases, tenant : Tenants \cup {NoCall},
                             entry : Entries \cup {NoCall}, prev : Nat, id : Nat]]
    /\ \A w \in Writers :
         /\ InFlight(w) => call[w].tenant \in Tenants /\ call[w].entry \in Entries
         /\ call[w].phase = "inserted" => call[w].id \in 1..Len(log)
    /\ overlapped \subseteq Tenants

\* However the calls interleave and fail, a row's prevHash is the genesis hash
\* or the hash of an earlier, committed row of the same tenant: the log is a
\* tree that grows from the genesis hash, never a dangling or crossed link.
RowsAreRooted ==
    \A i \in 1..Len(log) :
        \/ log[i].prev = Genesis
        \/ log[i].prev < i /\ Committed(log[i].tenant, log[i].prev)

\* verifyChain reports a break only for a tenant that had two record() calls in
\* flight at once: sequential records, failed ones among them, always link.
ForkNeedsOverlap == \A t \in Tenants \ overlapped : VerifyChain(t)

\* Rows that share a prevHash were written by calls in flight together, so a
\* fork has at most as many branches as there are concurrent callers.
ForkWidthBounded ==
    \A t \in Tenants, h \in 0..Len(log) :
        Cardinality({i \in 1..Len(log) : Committed(t, i) /\ log[i].prev = h})
            <= Cardinality(Writers)

\* audit.service.spec.ts:4: "links consecutive records and verifies the chain".
ChainVerifies == \A t \in Tenants : VerifyChain(t)
====
