---- MODULE PlatformProofs ----
(***************************************************************************)
(* Theorems about who a caller acts as, and about the parts together: the   *)
(* parts of MCPlatform share no state, so that each of its behaviours is    *)
(* one of every part, and what DataProofs, ScreenProofs and this module     *)
(* prove of a part holds of it.                                             *)
(*                                                                          *)
(* Tenancy, for any number of tenants, of calls under way and of pooled     *)
(* connections: the invariant says of a connection that no transaction      *)
(* leaves a tenant on it; without that the next call on it would see the    *)
(* rows of whoever had it before.                                           *)
(*                                                                          *)
(* Session, for any number of tabs, people, logins and /auth/me calls under *)
(* way: ActsAsShown speaks of the frame and of the stored user together;    *)
(* the invariant has one part for each, and says of the stored user what it *)
(* is without a token, too, as the next frame that is mounted copies it.    *)
(***************************************************************************)
EXTENDS MCPlatform, ScreenProofs, DataProofs, SequenceTheorems, FiniteSetTheorems, TLAPS

----
(* Tenancy. *)

CallRecords == [phase : {"idle", "issued", "begun", "answered"},
                context : Tenants \cup {NoTenant}, conn : SUBSET Connections,
                rows : SUBSET Tenants]

\* No connection in the pool, or at work, keeps a tenant; calls keep their shape.
NothingKept ==
    /\ restricted \in BOOLEAN
    /\ setting \in [Connections -> {Absent, Empty}]
    /\ call \in [Calls -> CallRecords]

TenancyInv == NothingKept /\ CallsSeeTheirTenant

\* A transaction on a connection that keeps nothing sees what the call may see: with
\* the restricted role and a tenant, that tenant's rows; all rows otherwise.
LEMMA VisibleIsOwn ==
    ASSUME NothingKept, NEW k \in Calls, NEW c \in call[k].conn
    PROVE  Visible(InTransaction(k, c)) =
             IF restricted /\ call[k].context # NoTenant THEN {call[k].context} ELSE Tenants
<1>1. /\ call[k].context \in Tenants \cup {NoTenant}
      /\ c \in Connections
  BY DEF NothingKept, CallRecords
<1>2. setting[c] \in {Absent, Empty}
  BY <1>1 DEF NothingKept
<1>3. CASE ~restricted
  BY <1>3 DEF Visible
<1>4. CASE restricted /\ call[k].context = NoTenant
  <2>1. InTransaction(k, c) \in {Absent, Empty}
    BY <1>2, <1>4 DEF InTransaction
  <2>2. \A t \in Tenants : Passes(InTransaction(k, c), t)
    BY <2>1 DEF Passes
  <2> QED
    BY <1>4, <2>2 DEF Visible
<1>5. CASE restricted /\ call[k].context # NoTenant
  <2>1. InTransaction(k, c) = call[k].context
    BY <1>5 DEF InTransaction
  <2>2. call[k].context \in Tenants /\ call[k].context \notin {Absent, Empty}
    BY <1>1, <1>5, TenancyAssumption DEF Absent, Empty, NoTenant
  <2>3. \A t \in Tenants : Passes(call[k].context, t) <=> t = call[k].context
    BY <2>2 DEF Passes
  <2> QED
    BY <1>5, <2>1, <2>2, <2>3 DEF Visible
<1> QED
  BY <1>3, <1>4, <1>5 DEF NothingKept

LEMMA TenancyInitInv == TenancyInit => TenancyInv
  BY DEF TenancyInit, TenancyInv, NothingKept, CallsSeeTheirTenant, CallRecords, IdleCall,
         Absent, Empty, NoTenant

\* Every step keeps the invariant: only Operate answers a call, only Finish touches a
\* connection.
LEMMA TenancyStep == TenancyInv /\ [TenancyNext]_tenancyVars => TenancyInv'
<1> SUFFICES ASSUME TenancyInv, [TenancyNext]_tenancyVars
             PROVE  TenancyInv'
  OBVIOUS
<1> USE DEF TenancyInv
<1>1. CASE UNCHANGED tenancyVars
  BY <1>1 DEF tenancyVars, NothingKept, CallsSeeTheirTenant
<1>2. ASSUME NEW k \in Calls, Issue(k)
      PROVE  TenancyInv'
  <2>1. PICK context \in Tenants \cup {NoTenant} :
          call' = [call EXCEPT ![k] = [IdleCall EXCEPT !.phase = "issued", !.context = context]]
    BY <1>2 DEF Issue
  <2> DEFINE issued == [IdleCall EXCEPT !.phase = "issued", !.context = context]
  <2>2. issued \in CallRecords /\ issued.phase = "issued"
    BY DEF CallRecords, IdleCall
  <2>3. call' = [call EXCEPT ![k] = issued]
    BY <2>1
  <2> HIDE DEF issued
  <2> QED
    BY <1>2, <2>2, <2>3 DEF Issue, NothingKept, CallsSeeTheirTenant
<1>3. ASSUME NEW k \in Calls, Begin(k)
      PROVE  TenancyInv'
  BY <1>3 DEF Begin, NothingKept, CallsSeeTheirTenant, CallRecords
<1>4. ASSUME NEW k \in Calls, Operate(k)
      PROVE  TenancyInv'
  <2>1. PICK c \in call[k].conn :
          call' = [call EXCEPT ![k].phase = "answered", ![k].rows = Visible(InTransaction(k, c))]
    BY <1>4 DEF Operate
  <2>2. Visible(InTransaction(k, c)) =
          IF restricted /\ call[k].context # NoTenant THEN {call[k].context} ELSE Tenants
    BY VisibleIsOwn
  <2>3. Visible(InTransaction(k, c)) \subseteq Tenants
    BY <2>2 DEF NothingKept, CallRecords
  <2> DEFINE answered == [call[k] EXCEPT !.phase = "answered",
                                         !.rows = Visible(InTransaction(k, c))]
  <2>4. call[k] \in CallRecords
    BY DEF NothingKept
  <2>5. /\ answered \in CallRecords
        /\ answered.context = call[k].context
        /\ answered.rows = Visible(InTransaction(k, c))
    BY <2>3, <2>4 DEF CallRecords
  <2>6. call' = [call EXCEPT ![k] = answered]
    BY <2>1, <2>4 DEF NothingKept
  <2> HIDE DEF answered
  <2>7. NothingKept'
    BY <1>4, <2>5, <2>6 DEF Operate, NothingKept
  <2>8. CallsSeeTheirTenant'
    BY <1>4, <2>2, <2>5, <2>6 DEF Operate, NothingKept, CallsSeeTheirTenant
  <2> QED
    BY <2>7, <2>8
<1>5. ASSUME NEW k \in Calls, Finish(k)
      PROVE  TenancyInv'
  <2>1. PICK c \in call[k].conn :
          setting' = [setting EXCEPT ![c] = IF call[k].context # NoTenant THEN Empty ELSE @]
    BY <1>5 DEF Finish
  <2>2. setting' \in [Connections -> {Absent, Empty}]
    BY <2>1 DEF NothingKept
  <2>3. IdleCall \in CallRecords
    BY DEF IdleCall, CallRecords
  <2> QED
    BY <1>5, <2>2, <2>3 DEF Finish, NothingKept, CallsSeeTheirTenant, IdleCall
<1> QED
  BY <1>1, <1>2, <1>3, <1>4, <1>5 DEF TenancyNext

\* docs/07-security.md:97 and PrismaService: with the restricted role a request sees the
\* rows of its own tenant and of no other, on any connection, whatever calls had it
\* before or run beside it; without a tenant a call sees all rows.
THEOREM CallsSeeOwnTenant == TenancySpec => []CallsSeeTheirTenant
<1>1. TenancyInv => CallsSeeTheirTenant
  BY DEF TenancyInv
<1> QED
  BY TenancyInitInv, TenancyStep, <1>1, PTL DEF TenancySpec

----
(* Session. *)

Users == People \cup {Nobody}

CallInfo == [session : DOMAIN owner, mounted : BOOLEAN]

TabInfo == [page : {"closed", "login", "app"}, header : Users, login : Users,
            calls : Seq(CallInfo), crossed : BOOLEAN]

SessionShape ==
    /\ token \in 0..Len(owner)
    /\ user \in Users
    /\ owner \in Seq(Users)
    /\ tab \in [Tabs -> TabInfo]
    /\ late \in BOOLEAN

\* The user of a token, or nobody.
OwnerOf(s) == IF s = 0 THEN Nobody ELSE owner[s]

StoredAgrees == ~late => user = OwnerOf(token)

FrameAgrees(frame) ==
    frame.page = "app" /\ ~frame.crossed => token # 0 /\ frame.header = owner[token]

SessionInv ==
    /\ SessionShape
    /\ StoredAgrees
    /\ ~late => \A t \in Tabs : FrameAgrees(tab[t])

----
\* A frame that is mounted, a call that is over and a tab that logs in or out are
\* tabs of the same shape.
LEMMA MountShellShape ==
    ASSUME NEW frame \in TabInfo, NEW s \in DOMAIN owner, NEW u \in Users
    PROVE  /\ MountShell(frame, s, u) \in TabInfo
           /\ MountShell(frame, s, u).header = u
<1> DEFINE asked == [session |-> s, mounted |-> TRUE]
<1>1. frame.calls \in Seq(CallInfo) /\ asked \in CallInfo
  BY DEF TabInfo, CallInfo
<1>2. Append(frame.calls, asked) \in Seq(CallInfo)
  BY <1>1, AppendProperties
<1> QED
  BY <1>2 DEF MountShell, TabInfo

LEMMA WithoutCallShape ==
    ASSUME NEW frame \in TabInfo, NEW i \in DOMAIN frame.calls
    PROVE  /\ WithoutCall(frame, i) \in TabInfo
           /\ WithoutCall(frame, i).page = frame.page
           /\ WithoutCall(frame, i).header = frame.header
           /\ WithoutCall(frame, i).crossed = frame.crossed
<1> DEFINE before == SubSeq(frame.calls, 1, i - 1)
           after == SubSeq(frame.calls, i + 1, Len(frame.calls))
<1>1. frame.calls \in Seq(CallInfo)
  BY DEF TabInfo
<1>2. i \in 1..Len(frame.calls) /\ Len(frame.calls) \in Nat
  BY <1>1, LenProperties
<1>3. before \in Seq(CallInfo)
  BY <1>1, <1>2, SubSeqProperties
<1>4. after \in Seq(CallInfo)
  BY <1>1, <1>2, SubSeqProperties
<1>5. before \o after \in Seq(CallInfo)
  BY <1>3, <1>4, ConcatProperties
<1> HIDE DEF before, after
<1>6. WithoutCall(frame, i) = [frame EXCEPT !.calls = before \o after]
  BY DEF WithoutCall, before, after
<1> QED
  BY <1>5, <1>6 DEF TabInfo

\* A tab whose frame is unmounted has as many calls as before.
LEMMA UnmountedShape ==
    ASSUME NEW frame \in TabInfo
    PROVE  /\ Unmount(frame) \in TabInfo /\ Unmount(frame).page = "login"
           /\ Len(Unmount(frame).calls) = Len(frame.calls)
<1> DEFINE calls == [i \in DOMAIN frame.calls |-> [frame.calls[i] EXCEPT !.mounted = FALSE]]
<1>1. frame.calls \in Seq(CallInfo) /\ Len(frame.calls) \in Nat /\ DOMAIN frame.calls = 1..Len(frame.calls)
  BY LenProperties DEF TabInfo
<1>2. \A i \in 1..Len(frame.calls) : frame.calls[i] \in CallInfo
  BY <1>1, ElementOfSeq
<1>3. \A i \in 1..Len(frame.calls) : [frame.calls[i] EXCEPT !.mounted = FALSE] \in CallInfo
  BY <1>2 DEF CallInfo
<1>4. calls \in Seq(CallInfo) /\ DOMAIN calls = DOMAIN frame.calls
  BY <1>1, <1>3
<1>5. Unmount(frame) = [frame EXCEPT !.page = "login", !.header = Nobody, !.calls = calls]
  BY DEF Unmount
<1> HIDE DEF calls
<1>6. Len(calls) = Len(frame.calls)
  BY <1>1, <1>4
<1>7. /\ Unmount(frame) \in TabInfo /\ Unmount(frame).page = "login"
      /\ Unmount(frame).calls = calls
  BY <1>4, <1>5 DEF TabInfo, Users
<1> QED
  BY <1>6, <1>7

\* After Cross every other tab that shows a page is marked.
LEMMA CrossShape ==
    ASSUME NEW t \in Tabs, NEW views \in [Tabs -> TabInfo]
    PROVE  /\ Cross(views, t) \in [Tabs -> TabInfo]
           /\ Cross(views, t)[t] = views[t]
           /\ \A o \in Tabs \ {t} : Cross(views, t)[o].page = "app" => Cross(views, t)[o].crossed
<1>1. \A o \in Tabs : [views[o] EXCEPT !.crossed = TRUE] \in TabInfo
  BY DEF TabInfo
<1>2. Cross(views, t) \in [Tabs -> TabInfo] /\ Cross(views, t)[t] = views[t]
  BY <1>1 DEF Cross
<1>3. ASSUME NEW o \in Tabs \ {t}, Cross(views, t)[o].page = "app"
      PROVE  Cross(views, t)[o].crossed
  BY <1>3 DEF Cross, TabInfo
<1> QED
  BY <1>2, <1>3

LEMMA SessionInitInv == SessionInit => SessionInv
<1> SUFFICES ASSUME SessionInit PROVE SessionInv
  OBVIOUS
<1>1. owner \in Seq(Users) /\ Len(owner) = 0
  BY EmptySeq DEF SessionInit
<1>2. ClosedTab \in TabInfo /\ ClosedTab.page = "closed"
  BY EmptySeq DEF ClosedTab, TabInfo, Users
<1>3. SessionShape
  <2>1. token \in 0..Len(owner)
    BY <1>1 DEF SessionInit
  <2>2. user \in Users /\ late \in BOOLEAN
    BY DEF SessionInit, Users
  <2>3. tab \in [Tabs -> TabInfo]
    BY <1>2 DEF SessionInit
  <2> QED
    BY <1>1, <2>1, <2>2, <2>3 DEF SessionShape
<1>4. StoredAgrees
  BY DEF SessionInit, StoredAgrees, OwnerOf
<1>5. \A t \in Tabs : FrameAgrees(tab[t])
  BY <1>2 DEF SessionInit, FrameAgrees
<1> QED
  BY <1>3, <1>4, <1>5 DEF SessionInv

\* Tabs keep their shape when a token is issued.
LEMMA TabInfoGrows ==
    ASSUME NEW u \in Users, owner \in Seq(Users), owner' = Append(owner, u)
    PROVE  /\ TabInfo \subseteq TabInfo'
           /\ owner' \in Seq(Users)
           /\ Len(owner') = Len(owner) + 1
           /\ Len(owner) \in Nat
           /\ owner'[Len(owner) + 1] = u
           /\ Len(owner) + 1 \in DOMAIN owner'
<1>1. /\ owner' \in Seq(Users) /\ Len(owner') = Len(owner) + 1 /\ Len(owner) \in Nat
      /\ owner'[Len(owner) + 1] = u
      /\ DOMAIN owner = 1..Len(owner) /\ DOMAIN owner' = 1..Len(owner')
  BY AppendProperties, LenProperties
<1>2. CallInfo \subseteq CallInfo'
  BY <1>1 DEF CallInfo
<1>3. Seq(CallInfo) \subseteq Seq(CallInfo')
  BY <1>2
<1> QED
  BY <1>1, <1>3 DEF TabInfo

\* What a step owes the invariant when it changes one tab: a page that is no frame, or
\* a frame that agrees.
LEMMA OneTab ==
    ASSUME SessionInv, NEW t \in Tabs, NEW frame \in TabInfo,
           tab' = [tab EXCEPT ![t] = frame],
           UNCHANGED <<token, owner>>, user' \in Users, late' \in BOOLEAN,
           ~late' => ~late /\ user' = OwnerOf(token) /\ FrameAgrees(frame)
    PROVE  SessionInv'
<1>1. SessionShape'
  BY DEF SessionInv, SessionShape, TabInfo, CallInfo
<1>2. StoredAgrees'
  BY DEF StoredAgrees, OwnerOf
<1>3. ASSUME ~late', NEW o \in Tabs
      PROVE  FrameAgrees(tab[o])'
  BY <1>3 DEF SessionInv, SessionShape, FrameAgrees
<1> QED
  BY <1>1, <1>2, <1>3 DEF SessionInv

LEMMA VisitKeeps ==
    ASSUME SessionInv, NEW t \in Tabs, Visit(t)
    PROVE  SessionInv'
<1>1. /\ UNCHANGED <<token, user, owner, expired, late>>
      /\ tab[t] \in TabInfo /\ user \in Users /\ late \in BOOLEAN
      /\ ~late => user = OwnerOf(token)
  BY DEF Visit, SessionInv, SessionShape, StoredAgrees
<1>2. CASE tab' = [tab EXCEPT ![t].page = "login"]
  <2> DEFINE frame == [tab[t] EXCEPT !.page = "login"]
  <2>1. frame \in TabInfo /\ frame.page = "login"
    BY <1>1 DEF TabInfo
  <2>2. tab' = [tab EXCEPT ![t] = frame]
    BY <1>2
  <2>3. FrameAgrees(frame)
    BY <2>1 DEF FrameAgrees
  <2> HIDE DEF frame
  <2> QED
    BY <1>1, <2>1, <2>2, <2>3, OneTab
<1>3. CASE token # 0 /\ tab' = [tab EXCEPT ![t] = MountShell(@, token, user)]
  <2> DEFINE frame == MountShell(tab[t], token, user)
  <2>1. token \in DOMAIN owner
    BY <1>3, LenProperties DEF SessionInv, SessionShape
  <2>2. frame \in TabInfo /\ frame.header = user
    BY <1>1, <2>1, MountShellShape
  <2>3. tab' = [tab EXCEPT ![t] = frame]
    BY <1>3
  <2> HIDE DEF frame
  <2>4. ~late => FrameAgrees(frame)
    BY <1>1, <1>3, <2>2 DEF FrameAgrees, OwnerOf
  <2> QED
    BY <1>1, <2>2, <2>3, <2>4, OneTab
<1> QED
  BY <1>2, <1>3 DEF Visit

LEMMA FormKeeps ==
    ASSUME SessionInv, NEW t \in Tabs, NEW u \in Users,
           tab' = [tab EXCEPT ![t].login = u],
           UNCHANGED <<token, user, owner, expired, late>>
    PROVE  SessionInv'
<1> DEFINE frame == [tab[t] EXCEPT !.login = u]
<1>1. /\ tab[t] \in TabInfo /\ user \in Users /\ late \in BOOLEAN
      /\ ~late => user = OwnerOf(token) /\ FrameAgrees(tab[t])
  BY DEF SessionInv, SessionShape, StoredAgrees
<1>2. /\ frame \in TabInfo /\ frame.page = tab[t].page
      /\ frame.header = tab[t].header /\ frame.crossed = tab[t].crossed
  BY <1>1 DEF TabInfo
<1>3. tab' = [tab EXCEPT ![t] = frame]
  OBVIOUS
<1> HIDE DEF frame
<1>4. ~late => FrameAgrees(frame)
  BY <1>1, <1>2 DEF FrameAgrees
<1> QED
  BY <1>1, <1>2, <1>3, <1>4, OneTab

LEMMA LoginKeeps ==
    ASSUME SessionInv, NEW t \in Tabs, LoginAnswer(t)
    PROVE  SessionInv'
<1> DEFINE u == tab[t].login
           idle == [tab[t] EXCEPT !.login = Nobody]
           frame == MountShell(idle, token', user')
           views == [tab EXCEPT ![t] = frame]
<1>1. /\ tab \in [Tabs -> TabInfo] /\ tab[t] \in TabInfo /\ u \in Users
      /\ late \in BOOLEAN /\ owner \in Seq(Users)
  BY DEF SessionInv, SessionShape, TabInfo
<1>2. /\ owner' = Append(owner, u) /\ token' = Len(owner) + 1 /\ user' = u
      /\ UNCHANGED <<expired, late>>
  BY DEF LoginAnswer, Signed
<1>3. tab' = Cross(views, t)
  BY DEF LoginAnswer
<1> HIDE DEF u
<1>4. /\ TabInfo \subseteq TabInfo' /\ owner' \in Seq(Users) /\ Len(owner') = Len(owner) + 1
      /\ Len(owner) \in Nat /\ owner'[token'] = u /\ token' \in DOMAIN owner' /\ token' # 0
  BY <1>1, <1>2, TabInfoGrows
<1>5. idle \in TabInfo'
  BY <1>1, <1>4 DEF TabInfo, Users
<1> HIDE DEF idle
<1>6. frame \in TabInfo' /\ frame.header = u
  <2> DEFINE asked == [session |-> token', mounted |-> TRUE]
  <2>1. idle.calls \in Seq(CallInfo') /\ asked \in CallInfo'
    BY <1>4, <1>5 DEF TabInfo, CallInfo
  <2>2. Append(idle.calls, asked) \in Seq(CallInfo')
    BY <2>1, AppendProperties
  <2> QED
    BY <1>1, <1>2, <1>5, <2>2 DEF MountShell, TabInfo
<1> HIDE DEF frame
<1>7. views \in [Tabs -> TabInfo'] /\ views[t] = frame
  BY <1>1, <1>4, <1>6
<1> HIDE DEF views
<1>8. \A o \in Tabs : [views[o] EXCEPT !.crossed = TRUE] \in TabInfo'
  BY <1>7 DEF TabInfo
<1>9. /\ tab' \in [Tabs -> TabInfo'] /\ tab'[t] = frame
      /\ \A o \in Tabs \ {t} : tab'[o] = views[o] \/ tab'[o] = [views[o] EXCEPT !.crossed = TRUE]
      /\ \A o \in Tabs \ {t} : views[o].page = "app" => tab'[o] = [views[o] EXCEPT !.crossed = TRUE]
  BY <1>3, <1>7, <1>8 DEF Cross
<1>10. SessionShape'
  BY <1>1, <1>2, <1>4, <1>9 DEF SessionShape
<1>11. StoredAgrees'
  BY <1>2, <1>4 DEF StoredAgrees, OwnerOf
<1>12. ASSUME NEW o \in Tabs
       PROVE  FrameAgrees(tab[o])'
  <2>1. CASE o = t
    BY <1>2, <1>4, <1>6, <1>9, <2>1 DEF FrameAgrees
  <2>2. CASE o # t /\ views[o].page = "app"
    <3>1. tab'[o].crossed
      BY <1>7, <1>9, <2>2 DEF TabInfo
    <3> QED
      BY <3>1 DEF FrameAgrees
  <2>3. CASE o # t /\ views[o].page # "app"
    <3>1. tab'[o].page # "app"
      BY <1>7, <1>9, <2>3 DEF TabInfo
    <3> QED
      BY <3>1 DEF FrameAgrees
  <2> QED
    BY <2>1, <2>2, <2>3
<1> QED
  BY <1>10, <1>11, <1>12 DEF SessionInv

LEMMA MeAnswerKeeps ==
    ASSUME SessionInv, NEW t \in Tabs, NEW i \in DOMAIN tab[t].calls, MeAnswer(t, i)
    PROVE  SessionInv'
<1> DEFINE s == tab[t].calls[i].session
           without == WithoutCall(tab[t], i)
           frame == [without EXCEPT !.header = IF tab[t].calls[i].mounted THEN owner[s]
                                            ELSE tab[t].header]
<1>1. /\ tab \in [Tabs -> TabInfo] /\ tab[t] \in TabInfo /\ owner \in Seq(Users)
      /\ late \in BOOLEAN /\ token \in 0..Len(owner)
  BY DEF SessionInv, SessionShape
<1>2. tab[t].calls[i] \in CallInfo
  BY <1>1, ElementOfSeq, LenProperties DEF TabInfo
<1>3. s \in DOMAIN owner /\ owner[s] \in Users /\ s # 0
  BY <1>1, <1>2, ElementOfSeq, LenProperties DEF CallInfo
<1>4. /\ without \in TabInfo /\ without.page = tab[t].page
      /\ without.header = tab[t].header /\ without.crossed = tab[t].crossed
  BY <1>1, WithoutCallShape
<1>5. /\ UNCHANGED <<token, owner, expired>> /\ user' = owner[s]
      /\ tab' = [tab EXCEPT ![t] = frame]
  BY DEF MeAnswer
<1>9. late' = (late \/ s # token)
  BY DEF MeAnswer
<1> HIDE DEF without, s
<1>6. /\ frame \in TabInfo /\ frame.page = tab[t].page /\ frame.crossed = tab[t].crossed
      /\ frame.header = tab[t].header \/ frame.header = owner[s]
  BY <1>3, <1>4 DEF TabInfo
<1> HIDE DEF frame
<1>7. ASSUME ~late'
      PROVE  ~late /\ user' = OwnerOf(token) /\ FrameAgrees(frame)
  <2>1. ~late /\ s = token
    BY <1>1, <1>7, <1>9
  <2>2. FrameAgrees(tab[t])
    BY <2>1 DEF SessionInv
  <2> QED
    BY <1>3, <1>5, <1>6, <2>1, <2>2 DEF FrameAgrees, OwnerOf
<1>8. user' \in Users /\ late' \in BOOLEAN
  BY <1>1, <1>3, <1>5, <1>9
<1> QED
  BY <1>5, <1>6, <1>7, <1>8, OneTab

\* Logout, and a failed /auth/me: frame is the tab before the frame is unmounted.
LEMMA SignOutKeeps ==
    ASSUME SessionInv, NEW t \in Tabs, NEW frame \in TabInfo, SignOut(t, frame),
           late' \in BOOLEAN
    PROVE  SessionInv'
<1> DEFINE out == Unmount(frame)
           views == [tab EXCEPT ![t] = out]
<1>1. /\ token' = 0 /\ user' = Nobody /\ UNCHANGED <<owner, expired>>
      /\ tab' = Cross(views, t)
  BY DEF SignOut
<1>2. out \in TabInfo /\ out.page = "login"
  BY UnmountedShape
<1> HIDE DEF out
<1>3. views \in [Tabs -> TabInfo] /\ views[t] = out
  BY <1>2 DEF SessionInv, SessionShape
<1> HIDE DEF views
<1>4. /\ tab' \in [Tabs -> TabInfo] /\ tab'[t] = out
      /\ \A o \in Tabs \ {t} : tab'[o].page = "app" => tab'[o].crossed
  BY <1>1, <1>3, CrossShape
<1>5. TabInfo' = TabInfo
  BY <1>1 DEF TabInfo, CallInfo
<1>6. SessionShape'
  <2>1. owner \in Seq(Users) /\ Len(owner) \in Nat
    BY LenProperties DEF SessionInv, SessionShape
  <2> QED
    BY <1>1, <1>4, <1>5, <2>1 DEF SessionShape, Users
<1>7. StoredAgrees'
  BY <1>1 DEF StoredAgrees, OwnerOf
<1>8. \A o \in Tabs : FrameAgrees(tab[o])'
  BY <1>2, <1>4 DEF FrameAgrees
<1> QED
  BY <1>6, <1>7, <1>8 DEF SessionInv

LEMMA LeaveKeeps ==
    ASSUME SessionInv, NEW t \in Tabs, Leave(t)
    PROVE  SessionInv'
<1>1. /\ UNCHANGED <<token, user, owner, expired, late>>
      /\ tab[t] \in TabInfo /\ user \in Users /\ late \in BOOLEAN
      /\ ~late => user = OwnerOf(token)
  BY DEF Leave, SessionInv, SessionShape, StoredAgrees
<1>2. /\ tab' = [tab EXCEPT ![t] = Unmount(tab[t])]
      /\ Unmount(tab[t]) \in TabInfo /\ Unmount(tab[t]).page = "login"
  BY <1>1, UnmountedShape DEF Leave
<1>3. FrameAgrees(Unmount(tab[t]))
  BY <1>2 DEF FrameAgrees
<1> QED
  BY <1>1, <1>2, <1>3, OneTab

----
LEMMA SessionStep == SessionInv /\ [SessionNext]_sessionVars => SessionInv'
<1> SUFFICES ASSUME SessionInv, [SessionNext]_sessionVars
             PROVE  SessionInv'
  OBVIOUS
<1>1. CASE UNCHANGED sessionVars
  BY <1>1 DEF sessionVars, SessionInv, SessionShape, StoredAgrees, FrameAgrees, OwnerOf,
              TabInfo, CallInfo
<1>2. ASSUME NEW t \in Tabs, NEW u \in People, SubmitLogin(t, u)
      PROVE  SessionInv'
  BY <1>2, FormKeeps DEF SubmitLogin, Users
<1>3. ASSUME NEW t \in Tabs, LoginRefused(t)
      PROVE  SessionInv'
  BY <1>3, FormKeeps DEF LoginRefused, Users
<1>4. ASSUME NEW t \in Tabs, Logout(t)
      PROVE  SessionInv'
  BY <1>4, SignOutKeeps DEF Logout, SessionInv, SessionShape
<1>5. ASSUME NEW t \in Tabs, NEW i \in DOMAIN tab[t].calls, MeFails(t, i)
      PROVE  SessionInv'
  <2>1. WithoutCall(tab[t], i) \in TabInfo
    BY WithoutCallShape DEF SessionInv, SessionShape
  <2>2. SignOut(t, WithoutCall(tab[t], i)) /\ late' \in BOOLEAN
    BY <1>5 DEF MeFails, SessionInv, SessionShape
  <2> QED
    BY <2>1, <2>2, SignOutKeeps
<1>6. ASSUME NEW s \in DOMAIN owner, Expire(s)
      PROVE  SessionInv'
  BY <1>6 DEF Expire, SessionInv, SessionShape, StoredAgrees, FrameAgrees, OwnerOf,
              TabInfo, CallInfo
<1> QED
  BY <1>1, <1>2, <1>3, <1>4, <1>5, <1>6, VisitKeeps, LoginKeeps, MeAnswerKeeps, LeaveKeeps DEF SessionNext

\* The controls of the stored user are what the server lets the token's owner do.
LEMMA InvShowsActing == SessionInv => ActsAsShown
<1> SUFFICES ASSUME SessionInv, ~late, NEW t \in Tabs, tab[t].page = "app", ~tab[t].crossed
             PROVE  /\ token # 0 /\ tab[t].header = owner[token]
                    /\ token \notin expired =>
                         \A roles \in (SUBSET UNION {RolesOfUser[u] : u \in People}) \ {{}} :
                            HasRole(user, roles) = CanActivate(SeenBy(token), roles)
  BY DEF ActsAsShown
<1>1. token # 0 /\ tab[t].header = owner[token] /\ user = owner[token]
  BY DEF SessionInv, FrameAgrees, StoredAgrees, OwnerOf
<1>2. ASSUME token \notin expired, NEW roles, roles # {}
      PROVE  HasRole(user, roles) = CanActivate(SeenBy(token), roles)
  <2>1. SeenBy(token) = user
    BY <1>1, <1>2 DEF SeenBy, Valid
  <2>2. RolesOfUser[user] \cap roles # {} <=> \E r \in roles : r \in RolesOfUser[user]
    OBVIOUS
  <2> QED
    BY <1>2, <2>1, <2>2 DEF HasRole, CanActivate
<1>3. ASSUME token \notin expired,
             NEW roles \in (SUBSET UNION {RolesOfUser[u] : u \in People}) \ {{}}
      PROVE  HasRole(user, roles) = CanActivate(SeenBy(token), roles)
  <2>1. roles # {}
    OBVIOUS
  <2> QED
    BY <1>2, <1>3, <2>1
<1> QED
  BY <1>1, <1>3

\* lib/api.ts, Shell and RolesGuard: as long as no answer to an earlier session was
\* taken in, the frame of a tab that no other tab logged in or out beneath shows the
\* person the server acts for, and the controls he is permitted.
THEOREM FramesActAsShown == SessionSpec => []ActsAsShown
<1> QED
  BY SessionInitInv, SessionStep, InvShowsActing, PTL DEF SessionSpec

----
(* Tenancy: the shape of its state. *)

\* A call has its connection, and only one, from the beginning of its transaction on.
OneConnection ==
    \A k \in Calls :
        IF call[k].phase \in {"begun", "answered"} THEN \E c : call[k].conn = {c}
        ELSE call[k].conn = {}

LEMMA ConnectionStep ==
    TenancyInv /\ OneConnection /\ [TenancyNext]_tenancyVars => OneConnection'
<1> SUFFICES ASSUME TenancyInv, OneConnection, [TenancyNext]_tenancyVars
             PROVE  OneConnection'
  OBVIOUS
<1>1. call \in [Calls -> CallRecords]
  BY DEF TenancyInv, NothingKept
<1>2. CASE UNCHANGED tenancyVars
  BY <1>2 DEF tenancyVars, OneConnection
<1>3. ASSUME NEW k \in Calls, NEW r, call' = [call EXCEPT ![k] = r],
             IF r.phase \in {"begun", "answered"} THEN \E c : r.conn = {c} ELSE r.conn = {}
      PROVE  OneConnection'
  BY <1>1, <1>3 DEF OneConnection
<1>4. ASSUME NEW k \in Calls, Issue(k)
      PROVE  OneConnection'
  <2>1. PICK context : call' = [call EXCEPT ![k] = [IdleCall EXCEPT !.phase = "issued",
                                                                    !.context = context]]
    BY <1>4 DEF Issue
  <2>2. PICK r : r = [IdleCall EXCEPT !.phase = "issued", !.context = context]
    OBVIOUS
  <2>3. r.phase = "issued" /\ r.conn = {}
    BY <2>2 DEF IdleCall
  <2> QED
    BY <1>3, <2>1, <2>2, <2>3
<1>5. ASSUME NEW k \in Calls, Begin(k)
      PROVE  OneConnection'
  <2>1. PICK c \in Connections : call' = [call EXCEPT ![k].phase = "begun", ![k].conn = {c}]
    BY <1>5 DEF Begin
  <2>2. PICK r : r = [call[k] EXCEPT !.phase = "begun", !.conn = {c}]
    OBVIOUS
  <2>3. call' = [call EXCEPT ![k] = r] /\ r.conn = {c} /\ r.phase = "begun"
    BY <1>1, <2>1, <2>2 DEF CallRecords
  <2> QED
    BY <1>3, <2>3
<1>6. ASSUME NEW k \in Calls, Operate(k)
      PROVE  OneConnection'
  <2>1. PICK c \in call[k].conn :
          call' = [call EXCEPT ![k].phase = "answered", ![k].rows = Visible(InTransaction(k, c))]
    BY <1>6 DEF Operate
  <2>2. PICK r : r = [call[k] EXCEPT !.phase = "answered", !.rows = Visible(InTransaction(k, c))]
    OBVIOUS
  <2>3. call' = [call EXCEPT ![k] = r] /\ r.conn = call[k].conn /\ r.phase = "answered"
    BY <1>1, <2>1, <2>2 DEF CallRecords
  <2>4. \E d : call[k].conn = {d}
    BY <2>1 DEF OneConnection
  <2> QED
    BY <1>3, <2>3, <2>4
<1>7. ASSUME NEW k \in Calls, Finish(k)
      PROVE  OneConnection'
  <2>1. call' = [call EXCEPT ![k] = IdleCall]
    BY <1>7 DEF Finish
  <2>2. IdleCall.phase = "idle" /\ IdleCall.conn = {}
    BY DEF IdleCall
  <2> QED
    BY <1>3, <2>1, <2>2
<1> QED
  BY <1>2, <1>4, <1>5, <1>6, <1>7 DEF TenancyNext

LEMMA TenancyShape == TenancyInv /\ OneConnection => TenancyTypeOK
<1> SUFFICES ASSUME TenancyInv, OneConnection PROVE TenancyTypeOK
  OBVIOUS
<1>1. ASSUME NEW k \in Calls
      PROVE  Cardinality(call[k].conn) = IF call[k].phase \in {"begun", "answered"} THEN 1 ELSE 0
  <2>1. Cardinality({}) = 0 /\ \A c : Cardinality({c}) = 1
    BY FS_EmptySet, FS_Singleton
  <2> QED
    BY <2>1 DEF OneConnection
<1> QED
  BY <1>1 DEF TenancyTypeOK, TenancyInv, NothingKept, CallRecords

\* PrismaService.rawTx: the state keeps its shape; a call has one connection while its transaction
\* lasts, and none before and after.
THEOREM TenancyTyped == TenancySpec => []TenancyTypeOK
<1>1. TenancyInit => OneConnection
  BY DEF TenancyInit, OneConnection, IdleCall
<1> QED
  BY <1>1, TenancyInitInv, TenancyStep, ConnectionStep, TenancyShape, PTL DEF TenancySpec

----
(* Session: the shape of its state. *)

\* What SessionInv leaves open: only people get tokens, only tokens expire, and as many calls are
\* under way as a tab may have.
SessionRest ==
    /\ owner \in Seq(People) /\ Len(owner) <= MaxSessions
    /\ expired \subseteq DOMAIN owner
    /\ \A t \in Tabs : Len(tab[t].calls) <= MaxMeCalls

\* The step of a tab that issues no token.
LEMMA SessionRestOfTab ==
    ASSUME SessionInv, SessionRest, NEW t \in Tabs, NEW frame,
           \/ tab' = [tab EXCEPT ![t] = frame]
           \/ tab' = Cross([tab EXCEPT ![t] = frame], t),
           UNCHANGED <<owner, expired>>, Len(frame.calls) <= MaxMeCalls
    PROVE  SessionRest'
<1>1. tab \in [Tabs -> TabInfo]
  BY DEF SessionInv, SessionShape
<1>2. \A o \in Tabs : o # t => tab'[o].calls = tab[o].calls
  BY <1>1 DEF Cross, TabInfo
<1>3. tab'[t] = frame
  BY <1>1 DEF Cross
<1> QED
  BY <1>2, <1>3 DEF SessionRest

LEMMA MountShellCalls ==
    ASSUME SessionInv, NEW frame \in TabInfo, NEW s, NEW u, Len(frame.calls) < MaxMeCalls
    PROVE  Len(MountShell(frame, s, u).calls) <= MaxMeCalls
<1> DEFINE asked == [session |-> s, mounted |-> TRUE]
<1>1. frame.calls \in Seq(CallInfo \cup {asked})
  <2>1. frame.calls \in Seq(CallInfo)
    BY DEF TabInfo
  <2> QED
    BY <2>1
<1>2. Len(Append(frame.calls, asked)) = Len(frame.calls) + 1 /\ Len(frame.calls) \in Nat
  BY <1>1, AppendProperties, LenProperties
<1>3. MountShell(frame, s, u).calls = Append(frame.calls, asked)
  BY DEF MountShell, TabInfo
<1> QED
  BY <1>2, <1>3, SessionAssumption

LEMMA WithoutCallCalls ==
    ASSUME NEW frame \in TabInfo, NEW i \in DOMAIN frame.calls, Len(frame.calls) <= MaxMeCalls
    PROVE  Len(WithoutCall(frame, i).calls) <= MaxMeCalls
<1>1. frame.calls \in Seq(CallInfo) /\ Len(frame.calls) \in Nat /\ i \in 1..Len(frame.calls)
  BY LenProperties DEF TabInfo
<1>2. /\ SubSeq(frame.calls, 1, i - 1) \in Seq(CallInfo)
      /\ Len(SubSeq(frame.calls, 1, i - 1)) = i - 1
      /\ SubSeq(frame.calls, i + 1, Len(frame.calls)) \in Seq(CallInfo)
      /\ Len(SubSeq(frame.calls, i + 1, Len(frame.calls))) = Len(frame.calls) - i
  BY <1>1, SubSeqProperties
<1>3. Len(SubSeq(frame.calls, 1, i - 1) \o SubSeq(frame.calls, i + 1, Len(frame.calls)))
        = Len(frame.calls) - 1
  BY <1>1, <1>2, ConcatProperties
<1>4. WithoutCall(frame, i).calls
        = SubSeq(frame.calls, 1, i - 1) \o SubSeq(frame.calls, i + 1, Len(frame.calls))
  BY DEF WithoutCall, TabInfo
<1> QED
  BY <1>1, <1>3, <1>4, SessionAssumption

LEMMA SignOutRest ==
    ASSUME SessionInv, SessionRest, NEW t \in Tabs, NEW frame \in TabInfo, SignOut(t, frame),
           Len(frame.calls) <= MaxMeCalls
    PROVE  SessionRest'
<1>1. Len(Unmount(frame).calls) = Len(frame.calls)
  BY UnmountedShape
<1>2. tab' = Cross([tab EXCEPT ![t] = Unmount(frame)], t) /\ UNCHANGED <<owner, expired>>
  BY DEF SignOut
<1> QED
  BY <1>1, <1>2, SessionRestOfTab

LEMMA SessionRestSteps == SessionInv /\ SessionRest /\ [SessionNext]_sessionVars => SessionRest'
<1> SUFFICES ASSUME SessionInv, SessionRest, [SessionNext]_sessionVars
             PROVE  SessionRest'
  OBVIOUS
<1>1. /\ tab \in [Tabs -> TabInfo]
      /\ \A t \in Tabs : tab[t] \in TabInfo /\ Len(tab[t].calls) <= MaxMeCalls
  BY DEF SessionInv, SessionShape, SessionRest
<1>2. CASE UNCHANGED sessionVars
  BY <1>2 DEF sessionVars, SessionRest
<1>3. ASSUME NEW t \in Tabs, Visit(t)
      PROVE  SessionRest'
  <2>1. UNCHANGED <<owner, expired>> /\ Len(tab[t].calls) < MaxMeCalls
    BY <1>3 DEF Visit
  <2>2. CASE tab' = [tab EXCEPT ![t].page = "login"]
    <3>1. PICK frame : frame = [tab[t] EXCEPT !.page = "login"]
      OBVIOUS
    <3>2. frame.calls = tab[t].calls /\ tab' = [tab EXCEPT ![t] = frame]
      BY <1>1, <2>2, <3>1 DEF TabInfo
    <3> QED
      BY <1>1, <2>1, <3>2, SessionRestOfTab
  <2>3. CASE tab' = [tab EXCEPT ![t] = MountShell(@, token, user)]
    <3>1. Len(MountShell(tab[t], token, user).calls) <= MaxMeCalls
      BY <1>1, <2>1, MountShellCalls
    <3>2. tab' = [tab EXCEPT ![t] = MountShell(tab[t], token, user)]
      BY <2>3
    <3> QED
      BY <2>1, <3>1, <3>2, SessionRestOfTab
  <2> QED
    BY <1>3, <2>2, <2>3 DEF Visit
<1>4. ASSUME NEW t \in Tabs, NEW u, tab' = [tab EXCEPT ![t].login = u], UNCHANGED <<owner, expired>>
      PROVE  SessionRest'
  <2>1. PICK frame : frame = [tab[t] EXCEPT !.login = u]
    OBVIOUS
  <2>2. frame.calls = tab[t].calls /\ tab' = [tab EXCEPT ![t] = frame]
    BY <1>1, <1>4, <2>1 DEF TabInfo
  <2> QED
    BY <1>1, <1>4, <2>2, SessionRestOfTab
<1>5. ASSUME NEW t \in Tabs, LoginAnswer(t)
      PROVE  SessionRest'
  <2> DEFINE idle == [tab[t] EXCEPT !.login = Nobody]
             frame == MountShell(idle, token', user')
  <2>1. /\ tab[t].login \in People /\ owner' = Append(owner, tab[t].login)
        /\ Len(owner) < MaxSessions /\ UNCHANGED expired /\ Len(tab[t].calls) < MaxMeCalls
    BY <1>1, <1>5 DEF LoginAnswer, Signed, TabInfo, Users
  <2>2. owner' \in Seq(People) /\ Len(owner') <= MaxSessions /\ DOMAIN owner \subseteq DOMAIN owner'
    <3>1. /\ owner' \in Seq(People) /\ Len(owner') = Len(owner) + 1 /\ Len(owner) \in Nat
          /\ DOMAIN owner = 1..Len(owner) /\ DOMAIN owner' = 1..Len(owner')
      BY <2>1, AppendProperties, LenProperties DEF SessionRest
    <3> QED
      BY <2>1, <3>1, SessionAssumption
  <2>3. Len(frame.calls) <= MaxMeCalls
    <3>1. idle \in TabInfo /\ idle.calls = tab[t].calls
      BY <1>1 DEF TabInfo, Users
    <3> HIDE DEF idle
    <3> QED
      BY <2>1, <3>1, MountShellCalls
  <2>4. tab' = Cross([tab EXCEPT ![t] = frame], t)
    BY <1>5 DEF LoginAnswer
  <2> HIDE DEF frame
  <2>5. tab'[t] = frame /\ \A o \in Tabs : o # t => tab'[o].calls = tab[o].calls
    BY <1>1, <2>4 DEF Cross, TabInfo
  <2>6. \A o \in Tabs : Len(tab'[o].calls) <= MaxMeCalls
    BY <1>1, <2>3, <2>5
  <2> QED
    BY <2>1, <2>2, <2>6 DEF SessionRest
<1>6. ASSUME NEW t \in Tabs, NEW i \in DOMAIN tab[t].calls, MeAnswer(t, i)
      PROVE  SessionRest'
  <2> DEFINE without == WithoutCall(tab[t], i)
             said == IF tab[t].calls[i].mounted THEN owner[tab[t].calls[i].session] ELSE tab[t].header
  <2>1. without \in TabInfo /\ Len(without.calls) <= MaxMeCalls
    BY <1>1, WithoutCallShape, WithoutCallCalls
  <2>2. tab' = [tab EXCEPT ![t] = [without EXCEPT !.header = said]] /\ UNCHANGED <<owner, expired>>
    BY <1>6 DEF MeAnswer
  <2> HIDE DEF without, said
  <2>3. [without EXCEPT !.header = said].calls = without.calls
    BY <2>1 DEF TabInfo
  <2> QED
    BY <2>1, <2>2, <2>3, SessionRestOfTab
<1>7. ASSUME NEW t \in Tabs, NEW i \in DOMAIN tab[t].calls, MeFails(t, i)
      PROVE  SessionRest'
  <2>1. WithoutCall(tab[t], i) \in TabInfo /\ Len(WithoutCall(tab[t], i).calls) <= MaxMeCalls
    BY <1>1, WithoutCallShape, WithoutCallCalls
  <2> QED
    BY <1>7, <2>1, SignOutRest DEF MeFails
<1>8. ASSUME NEW t \in Tabs, Logout(t)
      PROVE  SessionRest'
  BY <1>1, <1>8, SignOutRest DEF Logout
<1>9. ASSUME NEW s \in DOMAIN owner, Expire(s)
      PROVE  SessionRest'
  BY <1>9 DEF Expire, SessionRest
<1>10. ASSUME NEW t \in Tabs, NEW u \in People, SubmitLogin(t, u)
       PROVE  SessionRest'
  BY <1>4, <1>10 DEF SubmitLogin
<1>11. ASSUME NEW t \in Tabs, LoginRefused(t)
       PROVE  SessionRest'
  BY <1>4, <1>11 DEF LoginRefused
<1>12. ASSUME NEW t \in Tabs, Leave(t)
       PROVE  SessionRest'
  <2>1. Len(Unmount(tab[t]).calls) <= MaxMeCalls
    BY <1>1, UnmountedShape
  <2>2. tab' = [tab EXCEPT ![t] = Unmount(tab[t])] /\ UNCHANGED <<owner, expired>>
    BY <1>12 DEF Leave
  <2> QED
    BY <2>1, <2>2, SessionRestOfTab
<1> QED
  BY <1>2, <1>3, <1>5, <1>6, <1>7, <1>8, <1>9, <1>10, <1>11, <1>12 DEF SessionNext

LEMMA SessionTypes == SessionInv /\ SessionRest => SessionTypeOK
<1> SUFFICES ASSUME SessionInv, SessionRest PROVE SessionTypeOK
  OBVIOUS
<1>1. ASSUME NEW t \in Tabs
      PROVE  /\ tab[t].page \in {"closed", "login", "app"}
             /\ {tab[t].header, tab[t].login} \subseteq People \cup {Nobody}
             /\ tab[t].calls \in Seq([session : DOMAIN owner, mounted : BOOLEAN])
             /\ tab[t].crossed \in BOOLEAN
  <2>1. tab[t] \in TabInfo
    BY DEF SessionInv, SessionShape
  <2> QED
    BY <2>1 DEF TabInfo, CallInfo, Users
<1>2. \A t \in Tabs : Len(tab[t].calls) <= MaxMeCalls
  BY DEF SessionRest
<1>3. /\ token \in 0..Len(owner) /\ user \in People \cup {Nobody} /\ late \in BOOLEAN
      /\ owner \in Seq(People) /\ Len(owner) <= MaxSessions /\ expired \subseteq DOMAIN owner
  BY DEF SessionInv, SessionShape, SessionRest, Users
<1> QED
  BY <1>1, <1>2, <1>3, Zenon DEF SessionTypeOK

\* AuthService.login and lib/api.ts: the state keeps its shape; every token there is was issued to
\* somebody who logged in, and a call to /auth/me carries one of them.
THEOREM SessionTyped == SessionSpec => []SessionTypeOK
<1>1. SessionInit => SessionRest
  <2> SUFFICES ASSUME SessionInit PROVE SessionRest
    OBVIOUS
  <2>1. owner \in Seq(People) /\ Len(owner) = 0 /\ expired = {}
    BY EmptySeq DEF SessionInit
  <2>2. \A t \in Tabs : Len(tab[t].calls) = 0
    BY DEF SessionInit, ClosedTab
  <2> QED
    BY <2>1, <2>2, SessionAssumption DEF SessionRest
<1> QED
  BY <1>1, SessionInitInv, SessionStep, SessionRestSteps, SessionTypes, PTL DEF SessionSpec

----
(* The parts together. *)

Parts == {"session", "tenancy", "dashboard", "feed", "pages", "startup"}

\* A step of the part that moves is one of that part; the others stay as they are.
LEMMA PartSteps ==
    ASSUME [PlatformNext]_platformVars
    PROVE  /\ [SessionNext]_sessionVars /\ [TenancyNext]_tenancyVars /\ [DashNext]_dashVars
           /\ [FeedNext]_feedVars /\ [PagesNext]_pagesVars /\ [StartupNext]_startupVars
           /\ UNCHANGED part
BY DEF PlatformNext, platformVars, Rest

LEMMA PartStarts ==
    PlatformInit => /\ SessionInit /\ TenancyInit /\ DashInit /\ FeedInit /\ PagesInit
                    /\ StartupInit
                    /\ part \in Parts
BY DEF PlatformInit, Parts

\* Every behaviour of the platform is one of each of its parts, so that what the theorems say of a
\* part's own specification holds where TLC checks it.
THEOREM PlatformImplementsParts ==
    PlatformSpec => /\ SessionSpec /\ TenancySpec /\ DashSpec /\ FeedSpec /\ PagesSpec
                    /\ StartupSpec
BY PartSteps, PartStarts, PTL
   DEF PlatformSpec, SessionSpec, TenancySpec, DashSpec, FeedSpec, PagesSpec, StartupSpec

LEMMA PartTypes ==
    ASSUME part \in Parts, SessionTypeOK, TenancyTypeOK, DashTypeOK, FeedTypeOK, PagesTypeOK,
           StartupTypeOK
    PROVE  PlatformTypeOK
BY DEF PlatformTypeOK, Parts

\* Sessions, tenancy, the dashboard and its imports, the anomaly feed, the pages and the start of
\* the API: the state of the part that moves keeps its shape.
THEOREM PlatformTyped == PlatformSpec => []PlatformTypeOK
<1>1. PlatformSpec => [](part \in Parts)
  <2>1. part \in Parts /\ [PlatformNext]_platformVars => (part \in Parts)'
    BY PartSteps
  <2> QED
    BY <2>1, PartStarts, PTL DEF PlatformSpec
<1> QED
  BY <1>1, PlatformImplementsParts, SessionTyped, TenancyTyped, DashTyped, FeedTyped, PagesTyped,
     StartupTyped, PartTypes, PTL

\* What the theorems say of the parts, of the platform: the frame acts as shown, calls see their
\* tenant, imports add up, charts and lists follow what is stored, one event is live, own changes are
\* shown, starts complete.
THEOREM PlatformHolds ==
    PlatformSpec => [](/\ ActsAsShown /\ CallsSeeTheirTenant /\ ImportsAddUp /\ ChartFollowsTag
                       /\ FeedAgrees /\ OneLiveEvent /\ OwnChangeShown /\ StartCompletes)
BY PlatformImplementsParts, FramesActAsShown, CallsSeeOwnTenant, DashIsImport, ImportsAreComplete,
   ChartsFollow, ListsAgree, OneEventAtATime, OwnChangesAreShown, StartsComplete, PTL
====
