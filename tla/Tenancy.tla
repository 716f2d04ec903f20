---- MODULE Tenancy ----
(***************************************************************************)
(* Which tenant's rows a Prisma call sees.  TenantContextInterceptor keeps  *)
(* the caller's tenant in an AsyncLocalStorage for the length of an HTTP    *)
(* request; cron jobs, the MQTT handler and public routes have none.        *)
(* PrismaService runs every call on a model in a transaction of its own, on *)
(* whatever pooled connection is free, and sets app.tenant_id for the       *)
(* length of that transaction if there is a tenant.  The row-level policies *)
(* of the migrations decide by that setting if the API connects with the    *)
(* restricted role of provision-app-role.js; the owner role bypasses them.  *)
(*                                                                          *)
(* A connection that has never had the setting reads it as absent; one that *)
(* has had it, as the empty string (migration 20260906020000).  The tenant  *)
(* filter that the services add to their queries is left out: the policies  *)
(* are the second layer, and the scans of all tenants have no filter.       *)
(***************************************************************************)
EXTENDS Naturals, FiniteSets

CONSTANTS
    Tenants,      \* the tenants, each with its rows
    Calls,        \* Prisma calls under way
    Connections   \* the pool of rawTx

\* An id of a tenant is no empty string, and is told from none.
ASSUME TenancyAssumption == {"none", "absent", ""} \cap Tenants = {}

VARIABLES
    restricted,   \* the API connects with the role that policies apply to
    setting,      \* app.tenant_id as a connection's next transaction reads it
    call          \* context, connection, setting and answer of each call

tenancyVars == <<restricted, setting, call>>

NoTenant == "none"

Absent == "absent"

Empty == ""

IdleCall == [phase |-> "idle", context |-> NoTenant, conn |-> {}, rows |-> {}]

TenancyInit ==
    /\ restricted \in BOOLEAN
    /\ setting = [c \in Connections |-> Absent]
    /\ call = [k \in Calls |-> IdleCall]

----
\* Variant with a defect, the policies before that migration: the cast meets "".
PassesOrFails(value, t) == value = Absent \/ (value # Empty /\ value = t)

\* A policy lets the row of tenant t pass.  Postgres may look at the parts of an OR
\* in any order; NULLIF keeps the cast of the last one from failing.
Passes(value, t) == value \in {Absent, Empty} \/ value = t

\* The tenants whose rows a transaction with this setting sees.
Visible(value) == IF restricted THEN {t \in Tenants : Passes(value, t)} ELSE Tenants

\* intercept(): an HTTP request carries its user's tenant, a public route none; a
\* job runs outside of any request.
Issue(k) ==
    /\ call[k].phase = "idle"
    /\ \E context \in Tenants \cup {NoTenant} :
         call' = [call EXCEPT ![k] = [IdleCall EXCEPT !.phase = "issued", !.context = context]]
    /\ UNCHANGED <<restricted, setting>>

\* rawTx.$transaction takes a free connection; set_config comes first, if at all.
Begin(k) ==
    /\ call[k].phase = "issued"
    /\ \E c \in Connections :
         /\ \A other \in Calls : c \notin call[other].conn
         /\ call' = [call EXCEPT ![k].phase = "begun", ![k].conn = {c}]
    /\ UNCHANGED <<restricted, setting>>

\* What the transaction of a call reads.
InTransaction(k, c) == IF call[k].context # NoTenant THEN call[k].context ELSE setting[c]

\* The operation on the delegate of the raw client.
Operate(k) ==
    /\ call[k].phase = "begun"
    /\ \E c \in call[k].conn :
         call' = [call EXCEPT ![k].phase = "answered", ![k].rows = Visible(InTransaction(k, c))]
    /\ UNCHANGED <<restricted, setting>>

\* Variant with a defect: the connection goes back with the setting still on.
FinishKeeping(k) ==
    /\ call[k].phase \in {"begun", "answered"}
    /\ \E c \in call[k].conn : setting' = [setting EXCEPT ![c] = InTransaction(k, c)]
    /\ call' = [call EXCEPT ![k] = IdleCall]
    /\ UNCHANGED restricted

\* Commit, or rollback after an error: the setting was local to the transaction.
Finish(k) ==
    /\ call[k].phase \in {"begun", "answered"}
    /\ \E c \in call[k].conn :
         setting' = [setting EXCEPT ![c] = IF call[k].context # NoTenant THEN Empty ELSE @]
    /\ call' = [call EXCEPT ![k] = IdleCall]
    /\ UNCHANGED restricted

TenancyNext == \E k \in Calls : Issue(k) \/ Begin(k) \/ Operate(k) \/ Finish(k)

TenancySpec == TenancyInit /\ [][TenancyNext]_tenancyVars

----
TenancyTypeOK ==
    /\ restricted \in BOOLEAN
    /\ setting \in [Connections -> {Absent, Empty}]
    /\ call \in [Calls -> [phase : {"idle", "issued", "begun", "answered"},
                           context : Tenants \cup {NoTenant}, conn : SUBSET Connections,
                           rows : SUBSET Tenants]]
    /\ \A k \in Calls : Cardinality(call[k].conn) = IF call[k].phase \in {"begun", "answered"}
                                                    THEN 1 ELSE 0

\* docs/07-security.md:97: with the restricted role a request sees its own tenant's
\* rows, and a call without a tenant fails open: it sees the rows of all tenants and
\* never fails.  Whichever connection it gets, and whoever had that before or has
\* another at the same time.
CallsSeeTheirTenant ==
    \A k \in Calls : call[k].phase = "answered" =>
        call[k].rows = IF restricted /\ call[k].context # NoTenant THEN {call[k].context}
                       ELSE Tenants
====
