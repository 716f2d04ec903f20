---- MODULE AuditLogProofs ----
(***************************************************************************)
(* Proofs about AuditLog, for any number of callers, tenants and rows.     *)
(*                                                                         *)
(* The inductive invariant adds to the properties what a call in flight    *)
(* knows: the prevHash it holds is a committed row of its tenant, and the  *)
(* row it has inserted is still open and its own.                          *)
(***************************************************************************)
EXTENDS AuditLog, SequenceTheorems, FiniteSetTheorems, TLAPS

Rows == [tenant : Tenants, entry : Entries, prev : Nat,
         state : {"open", "committed", "void"}]

Calls == [phase : Phases, tenant : Tenants \cup {NoCall}, entry : Entries \cup {NoCall},
          prev : Nat, id : Nat]

\* The row a call that has inserted will commit or lose.
OwnsRow(w) ==
    call[w].phase = "inserted" =>
        /\ log[call[w].id].state = "open"
        /\ log[call[w].id].tenant = call[w].tenant
        /\ log[call[w].id].prev = call[w].prev

\* What a call read is still there when it inserts.
HoldsRoot(w) ==
    call[w].phase \in {"computed", "inserted"} =>
        \/ call[w].prev = Genesis
        \/ call[w].prev \in 1..Len(log) /\ Committed(call[w].tenant, call[w].prev)

OwnersDiffer ==
    \A v, w \in Writers :
        call[v].phase = "inserted" /\ call[w].phase = "inserted" /\ call[v].id = call[w].id
            => v = w

RowIsRooted(i) ==
    \/ log[i].prev = Genesis
    \/ log[i].prev < i /\ Committed(log[i].tenant, log[i].prev)

RootInv ==
    /\ AuditTypeOK
    /\ OwnersDiffer
    /\ \A w \in Writers : OwnsRow(w) /\ HoldsRoot(w)
    /\ RowsAreRooted

----
\* The two ways an action changes the log, stated once.

\* Commit and Fail set the state of one row.
LEMMA SetState ==
    ASSUME log \in Seq(Rows), NEW i \in 1..Len(log), NEW s \in {"open", "committed", "void"},
           log' = [log EXCEPT ![i].state = s]
    PROVE  /\ log' \in Seq(Rows)
           /\ Len(log') = Len(log)
           /\ log'[i] = [log[i] EXCEPT !.state = s]
           /\ \A j \in 1..Len(log) : j # i => log'[j] = log[j]
  <1> DEFINE r == [log[i] EXCEPT !.state = s]
  <1>1. log[i] \in Rows
    BY ElementOfSeq
  <1>2. r \in Rows
    BY <1>1 DEF Rows
  <1>3. log' = [log EXCEPT ![i] = r]
    OBVIOUS
  <1> HIDE DEF r
  <1>4. /\ [log EXCEPT ![i] = r] \in Seq(Rows)
        /\ Len([log EXCEPT ![i] = r]) = Len(log)
        /\ \A j \in 1..Len(log) : [log EXCEPT ![i] = r][j] = IF j = i THEN r ELSE log[j]
    BY <1>2, ExceptSeq
  <1> QED
    BY <1>3, <1>4 DEF r

\* Insert appends an open row.
LEMMA AppendRow ==
    ASSUME log \in Seq(Rows), NEW r \in Rows, log' = Append(log, r)
    PROVE  /\ log' \in Seq(Rows)
           /\ Len(log') = Len(log) + 1
           /\ log'[Len(log) + 1] = r
           /\ \A j \in 1..Len(log) : log'[j] = log[j]
  BY AppendProperties

LEMMA TypeOfLog == AuditTypeOK => log \in Seq(Rows) /\ call \in [Writers -> Calls] /\ Len(log) \in Nat
  BY LenProperties DEF AuditTypeOK, Rows, Calls

LEMMA RowAt ==
    ASSUME log \in Seq(Rows), NEW i \in 1..Len(log)
    PROVE  log[i].prev \in Nat /\ log[i].tenant \in Tenants /\ log[i].entry \in Entries
  <1>1. log[i] \in Rows
    BY ElementOfSeq
  <1> QED
    BY <1>1 DEF Rows

----
LEMMA InitRootInv == AuditInit => RootInv
  <1> SUFFICES ASSUME AuditInit PROVE RootInv
    OBVIOUS
  <1> USE DEF AuditInit, IdleCall
  <1>1. log = <<>> /\ Len(log) = 0 /\ log \in Seq(Rows)
    BY EmptySeq
  <1>2. \A w \in Writers : call[w] = IdleCall
    OBVIOUS
  <1>3. AuditTypeOK
    BY <1>1 DEF AuditTypeOK, Rows, Phases, InFlight, Genesis
  <1>4. OwnersDiffer
    BY <1>2 DEF OwnersDiffer
  <1>5. \A w \in Writers : OwnsRow(w) /\ HoldsRoot(w)
    BY <1>2 DEF OwnsRow, HoldsRoot
  <1>6. RowsAreRooted
    BY <1>1 DEF RowsAreRooted
  <1> QED
    BY <1>3, <1>4, <1>5, <1>6 DEF RootInv

----
\* One step per action; each keeps the type, the ownership and the roots.
LEMMA EnterKeepsRootInv ==
    ASSUME RootInv, NEW w \in Writers, NEW t \in Tenants, NEW e \in Entries, Enter(w, t, e)
    PROVE  RootInv'
  <1> USE DEF RootInv
  <1>1. log \in Seq(Rows) /\ call \in [Writers -> Calls] /\ log' = log
    BY TypeOfLog DEF Enter
  <1>2. /\ call'[w].phase = "reading" /\ call'[w].tenant = t /\ call'[w].entry = e
        /\ call'[w] \in Calls
        /\ \A v \in Writers \ {w} : call'[v] = call[v]
        /\ call' \in [Writers -> Calls]
    BY <1>1 DEF Enter, IdleCall, Calls, Phases, Genesis
  <1>3. overlapped' \subseteq Tenants
    BY DEF Enter, AuditTypeOK
  <1>4. AuditTypeOK'
    BY <1>1, <1>2, <1>3 DEF AuditTypeOK, Rows, Calls, InFlight
  <1>5. OwnersDiffer'
    BY <1>2 DEF OwnersDiffer
  <1>6. \A v \in Writers : OwnsRow(v)' /\ HoldsRoot(v)'
    BY <1>1, <1>2 DEF OwnsRow, HoldsRoot, Committed
  <1>7. RowsAreRooted'
    BY <1>1 DEF RowsAreRooted, Committed
  <1> QED
    BY <1>4, <1>5, <1>6, <1>7

LEMMA ReadLastKeepsRootInv ==
    ASSUME RootInv, NEW w \in Writers, ReadLast(w)
    PROVE  RootInv'
  <1> USE DEF RootInv
  <1>1. log \in Seq(Rows) /\ call \in [Writers -> Calls] /\ log' = log /\ overlapped' = overlapped
    BY TypeOfLog DEF ReadLast
  <1>2. PICK h \in 0..Len(log) :
            /\ IsLast(call[w].tenant, h)
            /\ call' = [call EXCEPT ![w].phase = "computed", ![w].prev = h]
    BY DEF ReadLast
  <1>3. h \in Nat /\ Len(log) \in Nat
    BY <1>1, LenProperties
  <1>4. /\ \A v \in Writers \ {w} : call'[v] = call[v]
        /\ call' \in [Writers -> Calls]
    BY <1>1, <1>2, <1>3 DEF Calls, Phases
  <1>5. /\ call'[w].phase = "computed" /\ call'[w].tenant = call[w].tenant
        /\ call'[w].entry = call[w].entry /\ call'[w].prev = h
        /\ call'[w].id = call[w].id
    BY <1>1, <1>2 DEF Calls
  <1>6. AuditTypeOK'
    BY <1>1, <1>4, <1>5 DEF AuditTypeOK, Rows, Calls, InFlight, ReadLast
  <1>7. OwnersDiffer'
    BY <1>4, <1>5 DEF OwnersDiffer
  <1>8. \/ h = Genesis
        \/ h \in 1..Len(log) /\ Committed(call[w].tenant, h)
    BY <1>2, <1>3 DEF IsLast, Genesis
  <1>9. \A v \in Writers : OwnsRow(v)' /\ HoldsRoot(v)'
    BY <1>1, <1>4, <1>5, <1>8 DEF OwnsRow, HoldsRoot, Committed
  <1>10. RowsAreRooted'
    BY <1>1 DEF RowsAreRooted, Committed
  <1> QED
    BY <1>6, <1>7, <1>9, <1>10

LEMMA InsertKeepsRootInv ==
    ASSUME RootInv, NEW w \in Writers, Insert(w)
    PROVE  RootInv'
  <1> USE DEF RootInv
  <1> DEFINE r == [tenant |-> call[w].tenant, entry |-> call[w].entry, prev |-> call[w].prev,
                   state |-> "open"]
  <1>1. log \in Seq(Rows) /\ call \in [Writers -> Calls] /\ Len(log) \in Nat
    BY TypeOfLog
  <1>2. /\ r \in Rows /\ r.state = "open"
        /\ r.tenant = call[w].tenant /\ r.prev = call[w].prev
    BY <1>1 DEF Insert, AuditTypeOK, InFlight, Rows, Calls
  <1>3. PICK n \in Nat : n = Len(log) + 1
    BY <1>1
  <1>4. n \notin 1..Len(log) /\ 1..n = 1..Len(log) \cup {n} /\ Len(log) < n
    BY <1>1, <1>3
  <1>5. log' = Append(log, r) /\ call[w].phase = "computed" /\ overlapped' = overlapped
    BY DEF Insert
  <1>6. call' = [call EXCEPT ![w].phase = "inserted", ![w].id = n]
    BY <1>3 DEF Insert
  <1>7. /\ log' \in Seq(Rows) /\ Len(log') = n
        /\ log'[n] = r /\ \A j \in 1..Len(log) : log'[j] = log[j]
    BY <1>1, <1>2, <1>5, <1>3, AppendRow
  <1> HIDE DEF r
  <1>8. /\ \A v \in Writers \ {w} : call'[v] = call[v]
        /\ call' \in [Writers -> Calls]
    BY <1>1, <1>4, <1>6 DEF Calls, Phases
  <1>9. /\ call'[w].phase = "inserted" /\ call'[w].tenant = call[w].tenant
        /\ call'[w].entry = call[w].entry /\ call'[w].prev = call[w].prev
        /\ call'[w].id = n
    BY <1>1, <1>4, <1>6 DEF Calls
  <1>10. call[w].tenant \in Tenants /\ call[w].entry \in Entries
    BY DEF AuditTypeOK, Insert, InFlight
  <1>11. AuditTypeOK'
    <2>1. \A v \in Writers :
            /\ InFlight(v)' => call'[v].tenant \in Tenants /\ call'[v].entry \in Entries
            /\ call'[v].phase = "inserted" => call'[v].id \in 1..Len(log')
      BY <1>1, <1>7, <1>8, <1>9, <1>10, <1>4 DEF AuditTypeOK, InFlight
    <2> QED
      BY <1>7, <1>8, <1>5, <2>1 DEF AuditTypeOK, Rows, Calls
  <1>12. OwnersDiffer'
    BY <1>1, <1>8, <1>9, <1>4 DEF OwnersDiffer, AuditTypeOK
  <1>13. \A v \in Writers : OwnsRow(v)'
    <2>1. OwnsRow(w)'
      BY <1>2, <1>7, <1>9 DEF OwnsRow
    <2>2. ASSUME NEW v \in Writers \ {w} PROVE OwnsRow(v)'
      <3>1. call[v].phase = "inserted" => call[v].id \in 1..Len(log)
        BY DEF AuditTypeOK
      <3> QED
        BY <1>7, <1>8, <3>1 DEF OwnsRow
    <2> QED
      BY <2>1, <2>2
  <1>14. \A v \in Writers : HoldsRoot(v)'
    BY <1>1, <1>5, <1>7, <1>8, <1>9, <1>4 DEF HoldsRoot, Committed
  <1>15. RowsAreRooted'
    <2>1. ASSUME NEW i \in 1..Len(log) PROVE RowIsRooted(i)'
      <3>1. log[i].prev \in Nat
        BY <1>1, RowAt
      <3> QED
        BY <1>1, <1>7, <3>1 DEF RowsAreRooted, RowIsRooted, Committed, Genesis
    <2>2. RowIsRooted(n)'
      <3>1. log'[n].prev = call[w].prev /\ log'[n].tenant = call[w].tenant
        BY <1>2, <1>7
      <3>2. \/ call[w].prev = Genesis
            \/ call[w].prev \in 1..Len(log) /\ Committed(call[w].tenant, call[w].prev)
        BY <1>5 DEF HoldsRoot
      <3>3. CASE call[w].prev = Genesis
        BY <3>1, <3>3 DEF RowIsRooted, Genesis
      <3>4. CASE call[w].prev \in 1..Len(log) /\ Committed(call[w].tenant, call[w].prev)
        BY <1>1, <1>7, <1>4, <3>1, <3>4 DEF RowIsRooted, Committed
      <3> QED
        BY <3>2, <3>3, <3>4
    <2> QED
      BY <1>1, <1>7, <1>4, <2>1, <2>2 DEF RowsAreRooted, RowIsRooted, Committed
  <1> QED
    BY <1>11, <1>12, <1>13, <1>14, <1>15

\* A call that leaves record() drops what it knew.
LEMMA CallEnds ==
    ASSUME call \in [Writers -> Calls], NEW w \in Writers, call' = [call EXCEPT ![w] = IdleCall]
    PROVE  /\ call' \in [Writers -> Calls]
           /\ call'[w].phase = "idle"
           /\ \A v \in Writers \ {w} : call'[v] = call[v]
  BY DEF Calls, IdleCall, Phases, Genesis

\* Commit, and Fail after the insert: the caller's row gets its last state.
LEMMA RowEndsKeepsRootInv ==
    ASSUME RootInv, NEW w \in Writers, call[w].phase = "inserted",
           NEW s \in {"committed", "void"},
           log' = [log EXCEPT ![call[w].id].state = s],
           call' = [call EXCEPT ![w] = IdleCall],
           overlapped' = overlapped
    PROVE  RootInv'
  <1> USE DEF RootInv
  <1>1. log \in Seq(Rows) /\ call \in [Writers -> Calls] /\ Len(log) \in Nat
    BY TypeOfLog
  <1>2. PICK k \in 1..Len(log) : k = call[w].id
    BY DEF AuditTypeOK
  <1>3. log[k].state = "open" /\ log[k].tenant = call[w].tenant /\ log[k].prev = call[w].prev
    BY <1>2 DEF OwnsRow
  <1>4. /\ log' \in Seq(Rows) /\ Len(log') = Len(log)
        /\ log'[k] = [log[k] EXCEPT !.state = s]
        /\ \A j \in 1..Len(log) : j # k => log'[j] = log[j]
    BY <1>1, <1>2, SetState
  <1>5. log[k] \in Rows
    BY <1>1, ElementOfSeq
  <1>6. log'[k].tenant = log[k].tenant /\ log'[k].prev = log[k].prev /\ log'[k].state = s
    BY <1>4, <1>5 DEF Rows
  <1>7. /\ call' \in [Writers -> Calls] /\ call'[w].phase = "idle"
        /\ \A v \in Writers \ {w} : call'[v] = call[v]
    BY <1>1, CallEnds
  <1>8. AuditTypeOK'
    BY <1>4, <1>7 DEF AuditTypeOK, Rows, Calls, InFlight
  <1>9. OwnersDiffer'
    BY <1>7 DEF OwnersDiffer
  <1>10. \A t, i : Committed(t, i) /\ i \in 1..Len(log) => Committed(t, i)'
    BY <1>3, <1>4 DEF Committed
  <1>11. ASSUME NEW v \in Writers PROVE OwnsRow(v)' /\ HoldsRoot(v)'
    <2>1. CASE v = w
      BY <1>7, <2>1 DEF OwnsRow, HoldsRoot
    <2>2. CASE v # w
      <3>1. call'[v] = call[v]
        BY <1>7, <2>2
      <3>2. ASSUME call[v].phase = "inserted"
            PROVE  call[v].id \in 1..Len(log) /\ call[v].id # k
        BY <1>2, <2>2, <3>2 DEF AuditTypeOK, OwnersDiffer
      <3>3. OwnsRow(v)'
        <4>1. CASE call[v].phase = "inserted"
          <5>1. log'[call[v].id] = log[call[v].id]
            BY <1>4, <3>2, <4>1
          <5> QED
            BY <3>1, <5>1, <4>1 DEF OwnsRow
        <4>2. CASE call[v].phase # "inserted"
          BY <3>1, <4>2 DEF OwnsRow
        <4> QED
          BY <4>1, <4>2
      <3>4. HoldsRoot(v)'
        BY <1>4, <1>10, <3>1 DEF HoldsRoot
      <3> QED
        BY <3>3, <3>4
    <2> QED
      BY <2>1, <2>2
  <1>12. RowsAreRooted'
    <2>1. ASSUME NEW i \in 1..Len(log) PROVE RowIsRooted(i)'
      <3>1. log'[i].prev = log[i].prev /\ log'[i].tenant = log[i].tenant /\ log[i].prev \in Nat
        BY <1>1, <1>4, <1>6, RowAt
      <3>2. CASE log[i].prev = Genesis
        BY <3>1, <3>2 DEF RowIsRooted, Genesis
      <3>3. CASE log[i].prev # Genesis
        <4>1. log[i].prev < i /\ Committed(log[i].tenant, log[i].prev)
          BY <3>3 DEF RowsAreRooted
        <4>2. log[i].prev \in 1..Len(log)
          BY <1>1, <3>1, <3>3, <4>1 DEF Genesis
        <4> QED
          BY <1>10, <3>1, <4>1, <4>2 DEF RowIsRooted
      <3> QED
        BY <3>2, <3>3
    <2> QED
      BY <1>4, <2>1 DEF RowsAreRooted, RowIsRooted
  <1> QED
    BY <1>8, <1>9, <1>11, <1>12

LEMMA CommitKeepsRootInv ==
    ASSUME RootInv, NEW w \in Writers, Commit(w)
    PROVE  RootInv'
  BY RowEndsKeepsRootInv DEF Commit

LEMMA FailKeepsRootInv ==
    ASSUME RootInv, NEW w \in Writers, Fail(w)
    PROVE  RootInv'
  <1>1. CASE call[w].phase = "inserted"
    BY <1>1, RowEndsKeepsRootInv DEF Fail
  <1>2. CASE call[w].phase # "inserted"
    <2> USE DEF RootInv
    <2>1. /\ call \in [Writers -> Calls] /\ log' = log /\ overlapped' = overlapped
          /\ call' = [call EXCEPT ![w] = IdleCall]
      BY <1>2, TypeOfLog DEF Fail
    <2>2. /\ call' \in [Writers -> Calls] /\ call'[w].phase = "idle"
          /\ \A v \in Writers \ {w} : call'[v] = call[v]
      BY <2>1, CallEnds
    <2>3. AuditTypeOK'
      BY <2>1, <2>2 DEF AuditTypeOK, Rows, Calls, InFlight
    <2>4. OwnersDiffer'
      BY <2>2 DEF OwnersDiffer
    <2>5. \A v \in Writers : OwnsRow(v)' /\ HoldsRoot(v)'
      BY <2>1, <2>2 DEF OwnsRow, HoldsRoot, Committed
    <2>6. RowsAreRooted'
      BY <2>1 DEF RowsAreRooted, Committed
    <2> QED
      BY <2>3, <2>4, <2>5, <2>6
  <1> QED
    BY <1>1, <1>2

LEMMA NextKeepsRootInv == RootInv /\ [AuditNext]_auditVars => RootInv'
  <1> SUFFICES ASSUME RootInv, [AuditNext]_auditVars PROVE RootInv'
    OBVIOUS
  <1>1. CASE UNCHANGED auditVars
    BY <1>1 DEF auditVars, RootInv, AuditTypeOK, InFlight, OwnersDiffer, OwnsRow, HoldsRoot,
                Committed, RowsAreRooted
  <1>2. CASE AuditNext
    <2>1. PICK w \in Writers : \/ \E t \in Tenants, e \in Entries : Record(w, t, e)
                               \/ RecordStep(w)
      BY <1>2 DEF AuditNext
    <2> QED
      BY <2>1, EnterKeepsRootInv, ReadLastKeepsRootInv, InsertKeepsRootInv, CommitKeepsRootInv,
         FailKeepsRootInv DEF RecordStep, Record
  <1> QED
    BY <1>1, <1>2

\* The log and the calls in flight keep their types, whatever fails.
THEOREM AuditTypeCorrect == AuditSpec => []AuditTypeOK
  <1>1. RootInv => AuditTypeOK
    BY DEF RootInv
  <1> QED
    BY <1>1, InitRootInv, NextKeepsRootInv, PTL DEF AuditSpec

\* Every prevHash leads to the genesis hash over committed rows of the row's own
\* tenant, for any number of concurrent record() calls.
THEOREM RowsStayRooted == AuditSpec => []RowsAreRooted
  <1>1. RootInv => RowsAreRooted
    BY DEF RootInv
  <1> QED
    BY <1>1, InitRootInv, NextKeepsRootInv, PTL DEF AuditSpec

----
(* A tenant whose calls never overlapped keeps one chain. *)

Alone(t) ==
    \A v, w \in Writers :
        /\ InFlight(v) /\ call[v].tenant = t
        /\ InFlight(w) /\ call[w].tenant = t
        => v = w

\* What a call of t read is still the tenant's last committed row.
HoldsLast(t, w) ==
    call[w].phase \in {"computed", "inserted"} /\ call[w].tenant = t =>
        \A i \in 1..Len(log) : Committed(t, i) => i <= call[w].prev

ForkInv ==
    \A t \in Tenants \ overlapped :
        /\ Alone(t)
        /\ \A w \in Writers : HoldsLast(t, w)
        /\ VerifyChain(t)

\* Every step but a commit leaves the committed rows as they are.
SameChain ==
    /\ Len(log) \in Nat /\ Len(log') \in Nat /\ Len(log) <= Len(log')
    /\ \A i \in 1..Len(log) :
         /\ log'[i].prev = log[i].prev /\ log[i].prev \in Nat
         /\ \A t : Committed(t, i)' <=> Committed(t, i)
    /\ \A i \in 1..Len(log') : i \notin 1..Len(log) => \A t : ~Committed(t, i)'

LEMMA SameChainVerifies ==
    ASSUME SameChain, NEW t, VerifyChain(t)
    PROVE  VerifyChain(t)'
  <1> SUFFICES ASSUME NEW i \in 1..Len(log'), Committed(t, i)'
               PROVE  Links(t, i)'
    BY DEF VerifyChain
  <1>1. i \in 1..Len(log) /\ Committed(t, i)
    BY DEF SameChain
  <1>2. Links(t, i)
    BY <1>1 DEF VerifyChain
  <1>3. PICK p \in Nat : p = log[i].prev /\ p = log'[i].prev
    BY <1>1 DEF SameChain
  <1>4. p < i /\ (p # Genesis => Committed(t, p)) /\ \A k \in (p + 1)..(i - 1) : ~Committed(t, k)
    BY <1>2, <1>3 DEF Links
  <1>5. p # Genesis => Committed(t, p)'
    BY <1>1, <1>4 DEF SameChain, Genesis
  <1>6. ASSUME NEW k \in (p + 1)..(i - 1) PROVE ~Committed(t, k)'
    <2>1. k \in 1..Len(log)
      BY <1>1 DEF SameChain
    <2> QED
      BY <1>4, <2>1 DEF SameChain
  <1> QED
    BY <1>3, <1>4, <1>5, <1>6 DEF Links, Genesis

LEMMA SameChainHoldsLast ==
    ASSUME SameChain, NEW t, NEW w \in Writers, HoldsLast(t, w), call'[w] = call[w]
    PROVE  HoldsLast(t, w)'
  BY DEF SameChain, HoldsLast

LEMMA StillAlone ==
    ASSUME NEW t, Alone(t),
           \A v \in Writers : InFlight(v)' /\ call'[v].tenant = t
                                 => InFlight(v) /\ call[v].tenant = t
    PROVE  Alone(t)'
  BY DEF Alone

----
LEMMA SameLog ==
    ASSUME RootInv, log' = log
    PROVE  SameChain
  <1>1. log \in Seq(Rows) /\ Len(log) \in Nat
    BY TypeOfLog DEF RootInv
  <1>2. \A i \in 1..Len(log) : log[i].prev \in Nat
    BY <1>1, RowAt
  <1> QED
    BY <1>1, <1>2 DEF SameChain, Committed

LEMMA EnterKeepsForkInv ==
    ASSUME RootInv, ForkInv, NEW w \in Writers, NEW t \in Tenants, NEW e \in Entries,
           Enter(w, t, e)
    PROVE  ForkInv'
  <1>1. SameChain
    BY SameLog DEF Enter
  <1>2. call \in [Writers -> Calls]
    BY TypeOfLog DEF RootInv
  <1>3. /\ call'[w].phase = "reading" /\ call'[w].tenant = t
        /\ \A v \in Writers \ {w} : call'[v] = call[v]
    BY <1>2 DEF Enter, IdleCall, Calls
  <1>4. /\ overlapped \subseteq overlapped'
        /\ t \notin overlapped' => \A v \in Writers : ~(InFlight(v) /\ call[v].tenant = t)
    BY DEF Enter
  <1> SUFFICES ASSUME NEW u \in Tenants, u \notin overlapped'
               PROVE  Alone(u)' /\ (\A v \in Writers : HoldsLast(u, v)') /\ VerifyChain(u)'
    BY DEF ForkInv
  <1>5. Alone(u) /\ (\A v \in Writers : HoldsLast(u, v)) /\ VerifyChain(u)
    BY <1>4 DEF ForkInv
  <1>6. Alone(u)'
    BY <1>3, <1>4, <1>5 DEF Alone, InFlight
  <1>7. ASSUME NEW v \in Writers PROVE HoldsLast(u, v)'
    <2>1. CASE v = w
      BY <1>3, <2>1 DEF HoldsLast
    <2>2. CASE v # w
      BY <1>1, <1>3, <1>5, <2>2, SameChainHoldsLast
    <2> QED
      BY <2>1, <2>2
  <1> QED
    BY <1>1, <1>5, <1>6, <1>7, SameChainVerifies

LEMMA ReadLastKeepsForkInv ==
    ASSUME RootInv, ForkInv, NEW w \in Writers, ReadLast(w)
    PROVE  ForkInv'
  <1>1. SameChain /\ log' = log /\ overlapped' = overlapped
    BY SameLog DEF ReadLast
  <1>2. call \in [Writers -> Calls] /\ Len(log) \in Nat
    BY TypeOfLog DEF RootInv
  <1>3. PICK h \in 0..Len(log) :
            /\ IsLast(call[w].tenant, h)
            /\ call' = [call EXCEPT ![w].phase = "computed", ![w].prev = h]
    BY DEF ReadLast
  <1>4. /\ call'[w].phase = "computed" /\ call'[w].tenant = call[w].tenant /\ call'[w].prev = h
        /\ \A v \in Writers \ {w} : call'[v] = call[v]
    BY <1>2, <1>3 DEF Calls
  <1>5. \A i \in 1..Len(log) : Committed(call[w].tenant, i) => i <= h
    BY <1>2, <1>3 DEF IsLast, Genesis
  <1> SUFFICES ASSUME NEW u \in Tenants, u \notin overlapped
               PROVE  Alone(u)' /\ (\A v \in Writers : HoldsLast(u, v)') /\ VerifyChain(u)'
    BY <1>1 DEF ForkInv
  <1>6. Alone(u) /\ (\A v \in Writers : HoldsLast(u, v)) /\ VerifyChain(u)
    BY DEF ForkInv
  <1>7. Alone(u)'
    <2>1. InFlight(w)
      BY DEF ReadLast, InFlight
    <2>2. \A v \in Writers : InFlight(v)' /\ call'[v].tenant = u
                                => InFlight(v) /\ call[v].tenant = u
      BY <1>4, <2>1 DEF InFlight
    <2> QED
      BY <1>6, <2>2, StillAlone
  <1>8. ASSUME NEW v \in Writers PROVE HoldsLast(u, v)'
    <2>1. CASE v = w
      BY <1>1, <1>4, <1>5, <2>1 DEF HoldsLast, Committed
    <2>2. CASE v # w
      BY <1>1, <1>4, <1>6, <2>2, SameChainHoldsLast
    <2> QED
      BY <2>1, <2>2
  <1> QED
    BY <1>1, <1>6, <1>7, <1>8, SameChainVerifies

LEMMA InsertKeepsForkInv ==
    ASSUME RootInv, ForkInv, NEW w \in Writers, Insert(w)
    PROVE  ForkInv'
  <1> DEFINE r == [tenant |-> call[w].tenant, entry |-> call[w].entry, prev |-> call[w].prev,
                   state |-> "open"]
  <1>1. log \in Seq(Rows) /\ call \in [Writers -> Calls] /\ Len(log) \in Nat
    BY TypeOfLog DEF RootInv
  <1>2. r \in Rows /\ r.state = "open"
    BY <1>1 DEF Insert, RootInv, AuditTypeOK, InFlight, Rows, Calls
  <1>3. log' = Append(log, r) /\ overlapped' = overlapped /\ call[w].phase = "computed"
    BY DEF Insert
  <1> HIDE DEF r
  <1>4. PICK n \in Nat : n = Len(log) + 1
    BY <1>1
  <1>5. /\ Len(log') = n /\ log'[n] = r /\ \A j \in 1..Len(log) : log'[j] = log[j]
    BY <1>1, <1>2, <1>3, <1>4, AppendRow
  <1>6. SameChain
    <2>1. \A i \in 1..Len(log) : log[i].prev \in Nat
      BY <1>1, RowAt
    <2>2. \A i \in 1..n : i \notin 1..Len(log) => i = n
      BY <1>1, <1>4
    <2>3. \A i \in 1..n : i \notin 1..Len(log) => log'[i].state = "open"
      BY <1>2, <1>5, <2>2
    <2> QED
      BY <1>1, <1>4, <1>5, <2>1, <2>3 DEF SameChain, Committed
  <1>7. call' = [call EXCEPT ![w].phase = "inserted", ![w].id = n]
    BY <1>4 DEF Insert
  <1>8. /\ call'[w].phase = "inserted" /\ call'[w].tenant = call[w].tenant
        /\ call'[w].prev = call[w].prev
        /\ \A v \in Writers \ {w} : call'[v] = call[v]
    BY <1>1, <1>7 DEF Calls
  <1> SUFFICES ASSUME NEW u \in Tenants, u \notin overlapped
               PROVE  Alone(u)' /\ (\A v \in Writers : HoldsLast(u, v)') /\ VerifyChain(u)'
    BY <1>3 DEF ForkInv
  <1>9. Alone(u) /\ (\A v \in Writers : HoldsLast(u, v)) /\ VerifyChain(u)
    BY DEF ForkInv
  <1>10. Alone(u)'
    <2>1. InFlight(w)
      BY <1>3 DEF InFlight
    <2>2. \A v \in Writers : InFlight(v)' /\ call'[v].tenant = u
                                => InFlight(v) /\ call[v].tenant = u
      BY <1>8, <2>1 DEF InFlight
    <2> QED
      BY <1>9, <2>2, StillAlone
  <1>11. ASSUME NEW v \in Writers PROVE HoldsLast(u, v)'
    <2>1. CASE v = w
      BY <1>3, <1>6, <1>8, <1>9, <2>1 DEF HoldsLast, SameChain
    <2>2. CASE v # w
      BY <1>6, <1>8, <1>9, <2>2, SameChainHoldsLast
    <2> QED
      BY <2>1, <2>2
  <1> QED
    BY <1>6, <1>9, <1>10, <1>11, SameChainVerifies

LEMMA FailKeepsForkInv ==
    ASSUME RootInv, ForkInv, NEW w \in Writers, Fail(w)
    PROVE  ForkInv'
  <1>1. log \in Seq(Rows) /\ call \in [Writers -> Calls] /\ Len(log) \in Nat
    BY TypeOfLog DEF RootInv
  <1>2. call' = [call EXCEPT ![w] = IdleCall] /\ overlapped' = overlapped
    BY DEF Fail
  <1>3. call'[w].phase = "idle" /\ \A v \in Writers \ {w} : call'[v] = call[v]
    BY <1>1, <1>2, CallEnds
  <1>4. SameChain
    <2>1. CASE call[w].phase = "inserted"
      <3>1. PICK k \in 1..Len(log) : k = call[w].id
        BY <2>1 DEF RootInv, AuditTypeOK
      <3>2. log[k].state = "open" /\ log' = [log EXCEPT ![k].state = "void"]
        BY <2>1, <3>1 DEF Fail, RootInv, OwnsRow
      <3>3. /\ Len(log') = Len(log) /\ log'[k] = [log[k] EXCEPT !.state = "void"]
            /\ \A j \in 1..Len(log) : j # k => log'[j] = log[j]
        BY <1>1, <3>2, SetState
      <3>4. log'[k].prev = log[k].prev /\ log'[k].state = "void"
        <4>1. log[k] \in Rows
          BY <1>1, ElementOfSeq
        <4> QED
          BY <3>3, <4>1 DEF Rows
      <3>5. \A i \in 1..Len(log) : log[i].prev \in Nat
        BY <1>1, RowAt
      <3>6. \A i \in 1..Len(log) : \A t : Committed(t, i)' <=> Committed(t, i)
        BY <3>2, <3>3, <3>4 DEF Committed
      <3>7. \A i \in 1..Len(log) : log'[i].prev = log[i].prev
        BY <3>3, <3>4
      <3>8. Len(log') = Len(log)
        BY <3>3
      <3> QED
        BY <1>1, <3>5, <3>6, <3>7, <3>8 DEF SameChain
    <2>2. CASE call[w].phase # "inserted"
      BY <2>2, SameLog DEF Fail
    <2> QED
      BY <2>1, <2>2
  <1> SUFFICES ASSUME NEW u \in Tenants, u \notin overlapped
               PROVE  Alone(u)' /\ (\A v \in Writers : HoldsLast(u, v)') /\ VerifyChain(u)'
    BY <1>2 DEF ForkInv
  <1>5. Alone(u) /\ (\A v \in Writers : HoldsLast(u, v)) /\ VerifyChain(u)
    BY DEF ForkInv
  <1>6. Alone(u)'
    BY <1>3, <1>5 DEF Alone, InFlight
  <1>7. ASSUME NEW v \in Writers PROVE HoldsLast(u, v)'
    <2>1. CASE v = w
      BY <1>3, <2>1 DEF HoldsLast
    <2>2. CASE v # w
      BY <1>3, <1>4, <1>5, <2>2, SameChainHoldsLast
    <2> QED
      BY <2>1, <2>2
  <1> QED
    BY <1>4, <1>5, <1>6, <1>7, SameChainVerifies

\* The only step that lengthens a chain.
LEMMA CommitKeepsForkInv ==
    ASSUME RootInv, ForkInv, NEW w \in Writers, Commit(w)
    PROVE  ForkInv'
  <1>1. log \in Seq(Rows) /\ call \in [Writers -> Calls] /\ Len(log) \in Nat
    BY TypeOfLog DEF RootInv
  <1>2. call[w].phase = "inserted" /\ call' = [call EXCEPT ![w] = IdleCall]
        /\ overlapped' = overlapped
    BY DEF Commit
  <1>3. PICK k \in 1..Len(log) : k = call[w].id
    BY <1>2 DEF RootInv, AuditTypeOK
  <1>4. /\ log[k].state = "open" /\ log[k].tenant = call[w].tenant /\ log[k].prev = call[w].prev
        /\ log' = [log EXCEPT ![k].state = "committed"]
    BY <1>2, <1>3 DEF Commit, RootInv, OwnsRow
  <1>5. /\ Len(log') = Len(log) /\ log'[k] = [log[k] EXCEPT !.state = "committed"]
        /\ \A j \in 1..Len(log) : j # k => log'[j] = log[j]
    BY <1>1, <1>4, SetState
  <1>6. /\ log'[k].prev = log[k].prev /\ log'[k].tenant = log[k].tenant
        /\ log'[k].state = "committed"
    <2>1. log[k] \in Rows
      BY <1>1, ElementOfSeq
    <2> QED
      BY <1>5, <2>1 DEF Rows
  <1>7. call'[w].phase = "idle" /\ \A v \in Writers \ {w} : call'[v] = call[v]
    BY <1>1, <1>2, CallEnds
  <1> SUFFICES ASSUME NEW u \in Tenants, u \notin overlapped
               PROVE  Alone(u)' /\ (\A v \in Writers : HoldsLast(u, v)') /\ VerifyChain(u)'
    BY <1>2 DEF ForkInv
  <1>8. Alone(u) /\ (\A v \in Writers : HoldsLast(u, v)) /\ VerifyChain(u)
    BY DEF ForkInv
  <1>9. Alone(u)'
    BY <1>7, <1>8 DEF Alone, InFlight
  <1>10. \A t : \A i \in 1..Len(log) : i # k => (Committed(t, i)' <=> Committed(t, i))
    BY <1>5 DEF Committed
  <1>11. \A i \in 1..Len(log) : log'[i].prev = log[i].prev /\ log[i].prev \in Nat
    BY <1>1, <1>5, <1>6, RowAt
  <1>12. CASE u # call[w].tenant
    <2>1. \A i \in 1..Len(log) : Committed(u, i)' <=> Committed(u, i)
      BY <1>4, <1>6, <1>10, <1>12 DEF Committed
    <2>2. VerifyChain(u)'
      <3>1. ASSUME NEW i \in 1..Len(log), Committed(u, i)' PROVE Links(u, i)'
        <4>1. Committed(u, i) /\ Links(u, i)
          BY <1>8, <2>1, <3>1 DEF VerifyChain
        <4>2. PICK p \in Nat : p = log[i].prev /\ p = log'[i].prev
          BY <1>11
        <4>3. /\ p < i /\ (p # Genesis => Committed(u, p))
              /\ \A m \in (p + 1)..(i - 1) : ~Committed(u, m)
          BY <4>1, <4>2 DEF Links
        <4>4. \A m \in (p + 1)..(i - 1) : m \in 1..Len(log)
          BY <1>1
        <4>5. p # Genesis => p \in 1..Len(log)
          BY <1>1, <4>3 DEF Genesis
        <4> QED
          BY <2>1, <4>2, <4>3, <4>4, <4>5 DEF Links, Genesis
      <3> QED
        BY <1>5, <3>1 DEF VerifyChain
    <2>3. ASSUME NEW v \in Writers PROVE HoldsLast(u, v)'
      BY <1>5, <1>7, <1>8, <2>1 DEF HoldsLast
    <2> QED
      BY <1>9, <2>2, <2>3
  <1>13. CASE u = call[w].tenant
    <2>1. PICK q \in Nat : q = log[k].prev /\ q = log'[k].prev /\ q = call[w].prev
      BY <1>4, <1>11
    <2>2. \A i \in 1..Len(log) : Committed(u, i) => i <= q
      BY <1>2, <1>8, <1>13, <2>1 DEF HoldsLast
    <2>3. q < k /\ (q # Genesis => Committed(u, q) /\ q \in 1..Len(log))
      <3>1. \/ q = Genesis
            \/ q < k /\ Committed(u, q)
        BY <1>4, <1>13, <2>1 DEF RootInv, RowsAreRooted
      <3> QED
        BY <1>1, <3>1 DEF Genesis
    <2>4. ASSUME NEW i \in 1..Len(log), Committed(u, i)' PROVE Links(u, i)'
      <3>1. CASE i = k
        <4>1. \A m \in (q + 1)..(k - 1) : m \in 1..Len(log) /\ m # k /\ ~(m <= q)
          BY <1>1
        <4>2. \A m \in (q + 1)..(k - 1) : ~Committed(u, m)'
          BY <1>10, <2>2, <4>1
        <4>3. q # Genesis => Committed(u, q)'
          BY <1>10, <2>3
        <4> QED
          BY <2>1, <2>3, <3>1, <4>2, <4>3 DEF Links, Genesis
      <3>2. CASE i # k
        <4>1. Committed(u, i) /\ Links(u, i) /\ i <= q
          BY <1>8, <1>10, <2>2, <2>4, <3>2 DEF VerifyChain
        <4>2. PICK p \in Nat : p = log[i].prev /\ p = log'[i].prev
          BY <1>11
        <4>3. /\ p < i /\ (p # Genesis => Committed(u, p))
              /\ \A m \in (p + 1)..(i - 1) : ~Committed(u, m)
          BY <4>1, <4>2 DEF Links
        <4>4. i < k
          BY <2>3, <4>1
        <4>5. \A m \in (p + 1)..(i - 1) : m \in 1..Len(log) /\ m # k
          BY <1>1, <4>4
        <4>6. p # Genesis => p \in 1..Len(log) /\ p # k
          BY <1>1, <4>3, <4>4 DEF Genesis
        <4> QED
          BY <1>10, <4>2, <4>3, <4>5, <4>6 DEF Links, Genesis
      <3> QED
        BY <3>1, <3>2
    <2>5. VerifyChain(u)'
      BY <1>5, <2>4 DEF VerifyChain
    <2>6. ASSUME NEW v \in Writers PROVE HoldsLast(u, v)'
      <3>1. CASE v = w
        BY <1>7, <3>1 DEF HoldsLast
      <3>2. CASE v # w
        <4>1. ~(InFlight(v) /\ call[v].tenant = u)
          BY <1>2, <1>8, <1>13, <3>2 DEF Alone, InFlight
        <4> QED
          BY <1>7, <3>2, <4>1 DEF HoldsLast, InFlight
      <3> QED
        BY <3>1, <3>2
    <2> QED
      BY <1>9, <2>5, <2>6
  <1> QED
    BY <1>12, <1>13

LEMMA InitForkInv == AuditInit => ForkInv
  <1> SUFFICES ASSUME AuditInit PROVE ForkInv
    OBVIOUS
  <1>1. Len(log) = 0 /\ \A w \in Writers : call[w].phase = "idle"
    BY DEF AuditInit, IdleCall
  <1> QED
    BY <1>1 DEF ForkInv, Alone, HoldsLast, VerifyChain, InFlight

LEMMA NextKeepsForkInv == RootInv /\ ForkInv /\ [AuditNext]_auditVars => ForkInv'
  <1> SUFFICES ASSUME RootInv, ForkInv, [AuditNext]_auditVars PROVE ForkInv'
    OBVIOUS
  <1>1. CASE UNCHANGED auditVars
    BY <1>1 DEF auditVars, ForkInv, Alone, HoldsLast, VerifyChain, InFlight, Committed, Links
  <1>2. CASE AuditNext
    <2>1. PICK w \in Writers : \/ \E t \in Tenants, e \in Entries : Record(w, t, e)
                               \/ RecordStep(w)
      BY <1>2 DEF AuditNext
    <2> QED
      BY <2>1, EnterKeepsForkInv, ReadLastKeepsForkInv, InsertKeepsForkInv, CommitKeepsForkInv,
         FailKeepsForkInv DEF RecordStep, Record
  <1> QED
    BY <1>1, <1>2

\* verifyChain can only fail for a tenant that had two record() calls in flight at
\* once, for any number of callers, tenants and rows and whatever calls fail.
THEOREM OnlyOverlapForks == AuditSpec => []ForkNeedsOverlap
  <1>1. ForkInv => ForkNeedsOverlap
    BY DEF ForkInv, ForkNeedsOverlap
  <1> QED
    BY <1>1, InitRootInv, NextKeepsRootInv, InitForkInv, NextKeepsForkInv, PTL DEF AuditSpec
----
(* How wide a fork can be. *)

\* The rows of a tenant that carry a hash, and the calls that are going to write it.
Kids(t, h) == {i \in 1..Len(log) : Committed(t, i) /\ log[i].prev = h}

Holders(t, h) ==
    {w \in Writers : call[w].phase \in {"computed", "inserted"} /\ call[w].tenant = t
                     /\ call[w].prev = h}

\* A call takes a hash that no row carries yet, and a row that carries it takes the
\* place of its call.
WidthInv ==
    \A t \in Tenants, h \in Nat :
        Cardinality(Kids(t, h)) + Cardinality(Holders(t, h)) <= Cardinality(Writers)

\* Fewer rows and calls.
LEMMA FewerOfBoth ==
    ASSUME NEW N \in Nat, NEW K, IsFiniteSet(K), NEW H, IsFiniteSet(H),
           Cardinality(K) + Cardinality(H) <= N,
           NEW newK, newK \subseteq K, NEW newH, newH \subseteq H
    PROVE  Cardinality(newK) + Cardinality(newH) <= N
  <1>1. /\ Cardinality(newK) \in Nat /\ Cardinality(K) \in Nat /\ Cardinality(newK) <= Cardinality(K)
        /\ Cardinality(newH) \in Nat /\ Cardinality(H) \in Nat /\ Cardinality(newH) <= Cardinality(H)
    BY FS_Subset, FS_CardinalityType
  <1> QED
    BY <1>1

LEMMA WidthsAreFinite ==
    ASSUME IsFiniteSet(Writers), RootInv, NEW t, NEW h
    PROVE  /\ IsFiniteSet(Kids(t, h)) /\ IsFiniteSet(Holders(t, h)) /\ Cardinality(Writers) \in Nat
           /\ Kids(t, h) \subseteq 1..Len(log) /\ Holders(t, h) \subseteq Writers
  <1>1. Len(log) \in Nat
    BY TypeOfLog DEF RootInv
  <1>2. IsFiniteSet(1..Len(log))
    BY <1>1, FS_Interval
  <1>3. Kids(t, h) \subseteq 1..Len(log) /\ Holders(t, h) \subseteq Writers
    BY DEF Kids, Holders
  <1> QED
    BY <1>2, <1>3, FS_Subset, FS_CardinalityType

LEMMA InitWidthInv == IsFiniteSet(Writers) /\ AuditInit => WidthInv
  <1> SUFFICES ASSUME IsFiniteSet(Writers), AuditInit, NEW t \in Tenants, NEW h \in Nat
               PROVE  Cardinality(Kids(t, h)) + Cardinality(Holders(t, h)) <= Cardinality(Writers)
    BY DEF WidthInv
  <1>1. Len(log) = 0 /\ \A w \in Writers : call[w].phase = "idle"
    BY EmptySeq DEF AuditInit, IdleCall
  <1>2. Kids(t, h) = {} /\ Holders(t, h) = {}
    BY <1>1 DEF Kids, Holders
  <1>3. Cardinality({}) = 0 /\ Cardinality(Writers) \in Nat
    BY FS_EmptySet, FS_CardinalityType
  <1> QED
    BY <1>2, <1>3

\* Nothing new: no row is committed, and nobody reads a hash.
LEMMA NoneWider ==
    ASSUME IsFiniteSet(Writers), RootInv, WidthInv,
           \A t \in Tenants, h \in Nat : Kids(t, h)' \subseteq Kids(t, h)
                                         /\ Holders(t, h)' \subseteq Holders(t, h)
    PROVE  WidthInv'
  <1> SUFFICES ASSUME NEW t \in Tenants, NEW h \in Nat
               PROVE  Cardinality(Kids(t, h)') + Cardinality(Holders(t, h)') <= Cardinality(Writers)
    BY DEF WidthInv
  <1>1. PICK K, H, newK, newH : /\ K = Kids(t, h) /\ H = Holders(t, h)
                                /\ newK = Kids(t, h)' /\ newH = Holders(t, h)'
    OBVIOUS
  <1>2. /\ IsFiniteSet(K) /\ IsFiniteSet(H) /\ Cardinality(Writers) \in Nat
        /\ newK \subseteq K /\ newH \subseteq H
        /\ Cardinality(K) + Cardinality(H) <= Cardinality(Writers)
    BY <1>1, WidthsAreFinite DEF WidthInv
  <1>3. Cardinality(newK) + Cardinality(newH) <= Cardinality(Writers)
    BY <1>2, FewerOfBoth
  <1> QED
    BY <1>1, <1>3

LEMMA EnterKeepsWidthInv ==
    ASSUME IsFiniteSet(Writers), RootInv, WidthInv,
           NEW w \in Writers, NEW t \in Tenants, NEW e \in Entries, Enter(w, t, e)
    PROVE  WidthInv'
  <1>1. call \in [Writers -> Calls] /\ log' = log
    BY TypeOfLog DEF RootInv, Enter
  <1>2. call'[w].phase = "reading" /\ \A v \in Writers \ {w} : call'[v] = call[v]
    BY <1>1 DEF Enter
  <1> QED
    BY <1>1, <1>2, NoneWider DEF Kids, Holders, Committed

\* The call that reads a hash is the first to: no row carries the hash of the last row.
LEMMA ReadLastKeepsWidthInv ==
    ASSUME IsFiniteSet(Writers), RootInv, WidthInv, NEW w \in Writers, ReadLast(w)
    PROVE  WidthInv'
  <1>1. /\ call \in [Writers -> Calls] /\ log' = log /\ log \in Seq(Rows) /\ Len(log) \in Nat
        /\ call[w].phase = "reading"
    BY TypeOfLog DEF RootInv, ReadLast
  <1>2. PICK g \in 0..Len(log) :
          /\ IsLast(call[w].tenant, g)
          /\ call' = [call EXCEPT ![w].phase = "computed", ![w].prev = g]
    BY DEF ReadLast
  <1>3. /\ call'[w].tenant = call[w].tenant /\ call'[w].prev = g
        /\ \A v \in Writers \ {w} : call'[v] = call[v]
    BY <1>1, <1>2 DEF Calls
  <1> SUFFICES ASSUME NEW t \in Tenants, NEW h \in Nat
               PROVE  Cardinality(Kids(t, h)') + Cardinality(Holders(t, h)') <= Cardinality(Writers)
    BY DEF WidthInv
  <1>4. PICK K, H, newK, newH : /\ K = Kids(t, h) /\ H = Holders(t, h)
                                /\ newK = Kids(t, h)' /\ newH = Holders(t, h)'
    OBVIOUS
  <1>5. /\ IsFiniteSet(K) /\ IsFiniteSet(H) /\ Cardinality(Writers) \in Nat
        /\ Cardinality(K) + Cardinality(H) <= Cardinality(Writers)
    BY <1>4, WidthsAreFinite DEF WidthInv
  <1>6. newK = K /\ newH \subseteq Writers
    BY <1>1, <1>4 DEF Kids, Holders, Committed
  <1>7. CASE t = call[w].tenant /\ h = g
    <2>1. K = {}
      <3> SUFFICES ASSUME NEW i \in 1..Len(log), Committed(t, i), log[i].prev = h PROVE FALSE
        BY <1>4 DEF Kids
      <3>1. i <= h \/ h = Genesis
        BY <1>2, <1>7 DEF IsLast
      <3>2. h # Genesis
        BY <1>2, <1>7 DEF IsLast
      <3>3. log[i].prev = Genesis \/ log[i].prev < i
        BY DEF RootInv, RowsAreRooted
      <3> QED
        BY <1>1, <3>1, <3>2, <3>3 DEF Genesis
    <2>2. Cardinality(newH) \in Nat /\ Cardinality(newH) <= Cardinality(Writers)
      BY <1>6, FS_Subset, FS_CardinalityType
    <2>3. Cardinality(newK) = 0
      BY <1>6, <2>1, FS_EmptySet
    <2> QED
      BY <1>4, <1>5, <2>2, <2>3
  <1>8. CASE ~(t = call[w].tenant /\ h = g)
    <2>1. newH \subseteq H
      BY <1>3, <1>4, <1>8 DEF Holders
    <2>2. Cardinality(newK) + Cardinality(newH) <= Cardinality(Writers)
      BY <1>5, <1>6, <2>1, FewerOfBoth
    <2> QED
      BY <1>4, <2>2
  <1> QED
    BY <1>7, <1>8

LEMMA InsertKeepsWidthInv ==
    ASSUME IsFiniteSet(Writers), RootInv, WidthInv, NEW w \in Writers, Insert(w)
    PROVE  WidthInv'
  <1>1. /\ call \in [Writers -> Calls] /\ log \in Seq(Rows) /\ Len(log) \in Nat
        /\ call[w].phase = "computed" /\ InFlight(w)
    BY TypeOfLog DEF RootInv, Insert, InFlight
  <1>2. PICK r : r = [tenant |-> call[w].tenant, entry |-> call[w].entry,
                      prev |-> call[w].prev, state |-> "open"]
    OBVIOUS
  <1>3. r \in Rows /\ r.state = "open" /\ log' = Append(log, r)
    BY <1>1, <1>2 DEF Insert, RootInv, AuditTypeOK, Calls, Rows
  <1>4. /\ Len(log') = Len(log) + 1 /\ log'[Len(log) + 1] = r
        /\ \A j \in 1..Len(log) : log'[j] = log[j]
    BY <1>1, <1>3, AppendRow
  <1>5. /\ call'[w].tenant = call[w].tenant /\ call'[w].prev = call[w].prev
        /\ \A v \in Writers \ {w} : call'[v] = call[v]
    BY <1>1 DEF Insert, Calls
  <1>6. \A t \in Tenants, h \in Nat : Kids(t, h)' \subseteq Kids(t, h)
    BY <1>1, <1>3, <1>4 DEF Kids, Committed
  <1>7. \A t \in Tenants, h \in Nat : Holders(t, h)' \subseteq Holders(t, h)
    BY <1>1, <1>5 DEF Holders
  <1> QED
    BY <1>6, <1>7, NoneWider

LEMMA CommitKeepsWidthInv ==
    ASSUME IsFiniteSet(Writers), RootInv, WidthInv, NEW w \in Writers, Commit(w)
    PROVE  WidthInv'
  <1>1. /\ call \in [Writers -> Calls] /\ log \in Seq(Rows) /\ Len(log) \in Nat
        /\ call[w].phase = "inserted" /\ call[w].id \in 1..Len(log)
    BY TypeOfLog DEF RootInv, Commit, AuditTypeOK
  <1>2. PICK i \in 1..Len(log) : i = call[w].id
    BY <1>1
  <1>3. log' = [log EXCEPT ![i].state = "committed"]
    BY <1>2 DEF Commit
  <1>4. /\ Len(log') = Len(log) /\ log'[i] = [log[i] EXCEPT !.state = "committed"]
        /\ \A j \in 1..Len(log) : j # i => log'[j] = log[j]
    BY <1>1, <1>3, SetState
  <1>5. log'[i].tenant = log[i].tenant /\ log'[i].prev = log[i].prev
    <2>1. log[i] \in Rows
      BY <1>1, ElementOfSeq
    <2> QED
      BY <1>4, <2>1 DEF Rows
  <1>6. log[i].tenant = call[w].tenant /\ log[i].prev = call[w].prev
    BY <1>1, <1>2 DEF RootInv, OwnsRow
  <1>7. call'[w].phase = "idle" /\ \A v \in Writers \ {w} : call'[v] = call[v]
    BY <1>1, CallEnds DEF Commit
  <1> SUFFICES ASSUME NEW t \in Tenants, NEW h \in Nat
               PROVE  Cardinality(Kids(t, h)') + Cardinality(Holders(t, h)') <= Cardinality(Writers)
    BY DEF WidthInv
  <1>8. PICK K, H, newK, newH : /\ K = Kids(t, h) /\ H = Holders(t, h)
                                /\ newK = Kids(t, h)' /\ newH = Holders(t, h)'
    OBVIOUS
  <1>9. /\ IsFiniteSet(K) /\ IsFiniteSet(H) /\ Cardinality(Writers) \in Nat
        /\ Cardinality(K) + Cardinality(H) <= Cardinality(Writers)
    BY <1>8, WidthsAreFinite DEF WidthInv
  <1>10. newK \subseteq K \cup {i} /\ newH \subseteq H \ {w}
    BY <1>4, <1>7, <1>8 DEF Kids, Holders, Committed
  <1>11. CASE t = call[w].tenant /\ h = call[w].prev
    <2>1. w \in H
      BY <1>1, <1>8, <1>11 DEF Holders
    <2>2. /\ IsFiniteSet(K \cup {i}) /\ Cardinality(K) \in Nat
          /\ \/ Cardinality(K \cup {i}) = Cardinality(K)
             \/ Cardinality(K \cup {i}) = Cardinality(K) + 1
      BY <1>9, FS_AddElement, FS_CardinalityType
    <2>3. /\ IsFiniteSet(H \ {w}) /\ Cardinality(H) \in Nat
          /\ Cardinality(H \ {w}) = Cardinality(H) - 1
      BY <1>9, <2>1, FS_RemoveElement, FS_CardinalityType
    <2>4. Cardinality(newK) \in Nat /\ Cardinality(newK) <= Cardinality(K \cup {i})
      BY <1>10, <2>2, FS_Subset, FS_CardinalityType
    <2>5. Cardinality(newH) \in Nat /\ Cardinality(newH) <= Cardinality(H \ {w})
      BY <1>10, <2>3, FS_Subset, FS_CardinalityType
    <2>6. Cardinality(newK) + Cardinality(newH) <= Cardinality(Writers)
      BY <1>9, <2>2, <2>3, <2>4, <2>5
    <2> QED
      BY <1>8, <2>6
  <1>12. CASE ~(t = call[w].tenant /\ h = call[w].prev)
    <2>1. newK \subseteq K
      BY <1>4, <1>5, <1>6, <1>8, <1>12 DEF Kids, Committed
    <2>2. newH \subseteq H
      BY <1>10
    <2>3. Cardinality(newK) + Cardinality(newH) <= Cardinality(Writers)
      BY <1>9, <2>1, <2>2, FewerOfBoth
    <2> QED
      BY <1>8, <2>3
  <1> QED
    BY <1>11, <1>12

LEMMA FailKeepsWidthInv ==
    ASSUME IsFiniteSet(Writers), RootInv, WidthInv, NEW w \in Writers, Fail(w)
    PROVE  WidthInv'
  <1>1. /\ call \in [Writers -> Calls] /\ log \in Seq(Rows) /\ Len(log) \in Nat
        /\ call[w].phase = "inserted" => call[w].id \in 1..Len(log)
    BY TypeOfLog DEF RootInv, AuditTypeOK
  <1>2. call'[w].phase = "idle" /\ \A v \in Writers \ {w} : call'[v] = call[v]
    BY <1>1, CallEnds DEF Fail
  <1>3. \A t \in Tenants, h \in Nat : Holders(t, h)' \subseteq Holders(t, h)
    BY <1>2 DEF Holders
  <1>4. CASE call[w].phase # "inserted"
    <2>1. log' = log
      BY <1>4 DEF Fail
    <2> QED
      BY <1>3, <2>1, NoneWider DEF Kids, Committed
  <1>5. CASE call[w].phase = "inserted"
    <2>1. PICK i \in 1..Len(log) : i = call[w].id
      BY <1>1, <1>5
    <2>2. log' = [log EXCEPT ![i].state = "void"]
      BY <1>5, <2>1 DEF Fail
    <2>3. /\ Len(log') = Len(log) /\ log'[i] = [log[i] EXCEPT !.state = "void"]
          /\ \A j \in 1..Len(log) : j # i => log'[j] = log[j]
      BY <1>1, <2>2, SetState
    <2>4. log'[i].state = "void"
      <3>1. log[i] \in Rows
        BY <1>1, ElementOfSeq
      <3> QED
        BY <2>3, <3>1 DEF Rows
    <2>5. \A t \in Tenants, h \in Nat : Kids(t, h)' \subseteq Kids(t, h)
      BY <2>3, <2>4 DEF Kids, Committed
    <2> QED
      BY <1>3, <2>5, NoneWider
  <1> QED
    BY <1>4, <1>5

LEMMA NextKeepsWidthInv ==
    ASSUME IsFiniteSet(Writers)
    PROVE  RootInv /\ WidthInv /\ [AuditNext]_auditVars => WidthInv'
  <1> SUFFICES ASSUME RootInv, WidthInv, [AuditNext]_auditVars PROVE WidthInv'
    OBVIOUS
  <1>1. CASE UNCHANGED auditVars
    BY <1>1 DEF auditVars, WidthInv, Kids, Holders, Committed
  <1>2. CASE AuditNext
    <2>1. PICK w \in Writers : \/ \E t \in Tenants, e \in Entries : Record(w, t, e)
                               \/ RecordStep(w)
      BY <1>2 DEF AuditNext
    <2> QED
      BY <2>1, EnterKeepsWidthInv, ReadLastKeepsWidthInv, InsertKeepsWidthInv,
         CommitKeepsWidthInv, FailKeepsWidthInv DEF RecordStep, Record
  <1> QED
    BY <1>1, <1>2

LEMMA WidthInvSuffices ==
    ASSUME IsFiniteSet(Writers), RootInv, WidthInv
    PROVE  ForkWidthBounded
  <1> SUFFICES ASSUME NEW t \in Tenants, NEW h \in 0..Len(log)
               PROVE  Cardinality({i \in 1..Len(log) : Committed(t, i) /\ log[i].prev = h})
                          <= Cardinality(Writers)
    BY DEF ForkWidthBounded
  <1>1. Len(log) \in Nat /\ h \in Nat
    BY TypeOfLog DEF RootInv
  <1>2. /\ Cardinality(Kids(t, h)) \in Nat /\ Cardinality(Holders(t, h)) \in Nat
        /\ Cardinality(Writers) \in Nat
    BY WidthsAreFinite, FS_CardinalityType
  <1>3. Cardinality(Kids(t, h)) + Cardinality(Holders(t, h)) <= Cardinality(Writers)
    BY <1>1 DEF WidthInv
  <1> QED
    BY <1>2, <1>3 DEF Kids

\* A fork has at most as many branches as there are callers, however long the log is
\* and whatever calls fail; callers are requests of one process, so they are finite.
THEOREM ForksAreNarrow ==
    ASSUME IsFiniteSet(Writers)
    PROVE  AuditSpec => []ForkWidthBounded
  <1>1. RootInv /\ WidthInv => ForkWidthBounded
    BY WidthInvSuffices
  <1>2. RootInv /\ WidthInv /\ [AuditNext]_auditVars => WidthInv'
    BY NextKeepsWidthInv
  <1>3. AuditInit => WidthInv
    BY InitWidthInv
  <1> QED
    BY <1>1, <1>2, <1>3, InitRootInv, NextKeepsRootInv, PTL DEF AuditSpec
====
