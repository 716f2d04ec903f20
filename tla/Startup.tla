---- MODULE Startup ----
(***************************************************************************)
(* What the database holds before the first request.  Each API instance     *)
(* runs OperatorBootstrapService when it starts: the tenant, the operator's *)
(* account, the catalog of CatalogSyncService with a window of readings for *)
(* each tag, and the readings of a CSV file; an error ends it with a        *)
(* warning and the instance goes on without the rest.  seed.ts does nearly  *)
(* the same by hand, and more.  Starts overlap, fail anywhere and are       *)
(* repeated on what earlier ones left.                                      *)
(***************************************************************************)
EXTENDS Naturals, Sequences, SequencesExt, FiniteSets

CONSTANTS
    Instances,   \* API instances
    Seeds,       \* runs of seed.ts
    TagSpecs,    \* PUMP_TAGS and CDU_TAGS, in order
    MeterSpecs,  \* ENERGY_METER_SPECS: records of a code and a tag
    Enough,      \* seedRecentWindows: 32
    Window,      \* and 48
    MaxStarts    \* bound: starts of an instance

ASSUME StartupAssumption ==
    /\ Enough \in Nat \ {0} /\ Window \in Nat /\ Enough <= Window /\ MaxStarts \in Nat
    /\ Instances \cap Seeds = {}
    /\ TagSpecs \in Seq(Range(TagSpecs)) /\ MeterSpecs \in Seq(Range(MeterSpecs))
    /\ \A m \in Range(MeterSpecs) : m.tag \in Range(TagSpecs)

VARIABLES
    rows,       \* the rows that are there, by table and key
    limits,     \* the limits of the tags: of the catalog, of an older one, or no tag
    linked,     \* the tag that each meter is linked to
    readings,   \* how many readings each tag has
    starter     \* each start: what it still has to do, and what it has read

startupVars == <<rows, limits, linked, readings, starter>>

Starters == Instances \cup Seeds

NoLink == "none"

Task(do, of) == [do |-> do, of |-> of]

\* The limits that PUMP_TAGS and CDU_TAGS give to a tag, as against any others.
CatalogLimits == "catalog"

Upserts(names) == [i \in DOMAIN names |-> Task("upsert", names[i])]

\* CatalogSyncService.sync: site, unit, equipment, tags, meters, windows.
Catalog ==
    Upserts(<<"site", "unit", "pump", "column">>)
    \o [i \in DOMAIN TagSpecs |-> Task("tag", TagSpecs[i])]
    \o [i \in DOMAIN MeterSpecs |-> Task("meter", MeterSpecs[i])]
    \o [i \in DOMAIN TagSpecs |-> Task("count", TagSpecs[i])]

\* seedHistoricCsv: rows of unknown tags are left out.
History == [i \in DOMAIN TagSpecs |-> Task("history", TagSpecs[i])]

\* onModuleInit.
Bootstrap == <<Task("find", "tenant"), Task("find", "operator")>> \o Catalog \o History

\* main() of seed.ts.
Seed == Upserts(<<"tenant", "admin", "planner", "technician">>) \o <<Task("find", "operator")>>
        \o Catalog \o History \o <<Task("find", "order")>> \o Upserts(<<"plan">>)

Program(s) == IF s \in Instances THEN Bootstrap ELSE Seed

StartupInit ==
    /\ rows = {} /\ linked = [m \in Range(MeterSpecs) |-> NoLink]
    /\ \E old \in SUBSET Range(TagSpecs) :
         limits = [t \in Range(TagSpecs) |-> IF t \in old THEN "older" ELSE "none"]
    /\ readings = [t \in Range(TagSpecs) |-> 0]
    /\ starter = [s \in Starters |-> [todo |-> <<>>, found |-> FALSE, left |-> 0,
                                      phase |-> "down", starts |-> 0]]

----
Doing(s, do) == starter[s].phase = "up" /\ starter[s].todo # <<>> /\ Head(starter[s].todo).do = do

RowOf(name) == <<"row", name>>

Of(s) == Head(starter[s].todo).of

Done(s) == starter' = [starter EXCEPT ![s].todo = Tail(@), ![s].found = FALSE, ![s].left = 0]

\* An instance comes up, for the first time or again; seed.ts is run.
Start(s) ==
    /\ starter[s].phase \in {"down", "skipped", "complete"}
    /\ starter[s].starts < MaxStarts
    /\ starter' = [starter EXCEPT ![s] = [todo |-> Program(s), found |-> FALSE, left |-> 0,
                                          phase |-> "up", starts |-> @.starts + 1]]
    /\ UNCHANGED <<rows, limits, linked, readings>>

\* tenant.findFirst, and findFirst of upsertOperatorUser or of the first order: the
\* next call depends on what is found.
Find(s) ==
    /\ Doing(s, "find")
    /\ starter' = [starter EXCEPT ![s].todo = <<Task("write", Of(s))>> \o Tail(@),
                                  ![s].found = RowOf(Of(s)) \in rows]
    /\ UNCHANGED <<rows, limits, linked, readings>>

\* create, which is refused if another start was first; or update of what is there.
Write(s) ==
    /\ Doing(s, "write")
    /\ starter[s].found \/ RowOf(Of(s)) \notin rows
    /\ rows' = rows \cup {RowOf(Of(s))}
    /\ Done(s)
    /\ UNCHANGED <<limits, linked, readings>>

Upsert(s) ==
    /\ Doing(s, "upsert")
    /\ rows' = rows \cup {RowOf(Of(s))}
    /\ Done(s)
    /\ UNCHANGED <<limits, linked, readings>>

\* upsertTags: a tag that is there gets the limits of the catalog.
UpsertTag(s) ==
    /\ Doing(s, "tag")
    /\ limits' = [limits EXCEPT ![Of(s)] = CatalogLimits]
    /\ Done(s)
    /\ UNCHANGED <<rows, linked, readings>>

\* The meter gets the tag found by name; without one its link stays as it is.  No tag
\* is ever deleted, so that the two calls are one step.
UpsertMeter(s) ==
    /\ Doing(s, "meter")
    /\ rows' = rows \cup {RowOf(Of(s).code)}
    /\ linked' = [linked EXCEPT ![Of(s)] = IF limits[Of(s).tag] = "none" THEN @ ELSE Of(s).tag]
    /\ Done(s)
    /\ UNCHANGED <<limits, readings>>

\* Variant with a defect: one reading is enough.
CountAny(s) ==
    /\ Doing(s, "count")
    /\ IF readings[Of(s)] >= 1 THEN Done(s)
       ELSE starter' = [starter EXCEPT ![s].todo = <<Task("window", Of(s))>> \o Tail(@), ![s].left = Window]
    /\ UNCHANGED <<rows, limits, linked, readings>>

\* seedRecentWindows: a tag with enough readings is left alone.
Count(s) ==
    /\ Doing(s, "count")
    /\ IF readings[Of(s)] >= Enough THEN Done(s)
       ELSE starter' = [starter EXCEPT ![s].todo = <<Task("window", Of(s))>> \o Tail(@), ![s].left = Window]
    /\ UNCHANGED <<rows, limits, linked, readings>>

\* One reading of the window; its time is the start's own.  More than enough of them
\* are not told apart.
AddReading(s) ==
    /\ Doing(s, "window")
    /\ readings' = [readings EXCEPT ![Of(s)] = IF @ < Window THEN @ + 1 ELSE @]
    /\ IF starter[s].left > 1 THEN starter' = [starter EXCEPT ![s].left = @ - 1] ELSE Done(s)
    /\ UNCHANGED <<rows, limits, linked>>

\* The row of a tag in the CSV file; a second time it is overwritten.
AddHistory(s) ==
    /\ Doing(s, "history")
    /\ rows' = rows \cup {<<"reading", Of(s)>>}
    /\ readings' = [readings EXCEPT ![Of(s)] =
         IF <<"reading", Of(s)>> \in rows \/ @ >= Window THEN @ ELSE @ + 1]
    /\ Done(s)
    /\ UNCHANGED <<limits, linked>>

\* There is no file; or the file or a row of it fails in seed.ts, which only warns: the
\* n rows of it that are left are left out.
LeaveHistory(s) ==
    /\ Doing(s, "history")
    /\ s \in Seeds \/ starter[s].todo = History
    /\ \E n \in DOMAIN starter[s].todo :
         /\ \A i \in DOMAIN starter[s].todo : starter[s].todo[i].do = "history" <=> i <= n
         /\ starter' = [starter EXCEPT ![s].todo = SubSeq(@, n + 1, Len(@))]
    /\ UNCHANGED <<rows, limits, linked, readings>>

Complete(s) ==
    /\ starter[s].phase = "up" /\ starter[s].todo = <<>>
    /\ starter' = [starter EXCEPT ![s].phase = "complete"]
    /\ UNCHANGED <<rows, limits, linked, readings>>

\* Any call fails, a create that comes second among them, or the process dies: what
\* is left to do is skipped.
Skip(s) ==
    /\ starter[s].phase = "up" /\ starter[s].todo # <<>>
    /\ starter' = [starter EXCEPT ![s] = [@ EXCEPT !.phase = "skipped", !.todo = <<>>,
                                                   !.found = FALSE, !.left = 0]]
    /\ UNCHANGED <<rows, limits, linked, readings>>

StartupNext ==
    \E s \in Starters :
        \/ Start(s) \/ Find(s) \/ Write(s) \/ Upsert(s) \/ UpsertTag(s) \/ UpsertMeter(s)
        \/ Count(s) \/ AddReading(s) \/ AddHistory(s) \/ LeaveHistory(s)
        \/ Complete(s) \/ Skip(s)

StartupSpec == StartupInit /\ [][StartupNext]_startupVars

----
StartupTypeOK ==
    /\ limits \in [Range(TagSpecs) -> {"none", "older", CatalogLimits}]
    /\ linked \in [Range(MeterSpecs) -> Range(TagSpecs) \cup {NoLink}]
    /\ readings \in [Range(TagSpecs) -> 0..Window]
    /\ \A s \in Starters :
         /\ starter[s].phase \in {"down", "up", "skipped", "complete"}
         /\ starter[s].left \in 0..Window /\ starter[s].starts \in 0..MaxStarts
         /\ starter[s].left > 0 <=> Doing(s, "window")

\* A start that came to its end leaves the database complete, whatever other starts
\* did at the same time, left half done or refused it: the rows it is responsible
\* for are there, the tags have the catalog's limits, the meters follow their tags,
\* and every tag has readings enough for the charts and the first anomaly scan.
StartCompletes ==
    \A s \in Starters : starter[s].phase = "complete" =>
        /\ \A r \in {"tenant", "operator", "site", "unit", "pump", "column"} : RowOf(r) \in rows
        /\ s \in Seeds =>
             \A r \in {"admin", "planner", "technician", "order", "plan"} : RowOf(r) \in rows
        /\ \A t \in Range(TagSpecs) : limits[t] = CatalogLimits /\ readings[t] >= Enough
        /\ \A m \in Range(MeterSpecs) : RowOf(m.code) \in rows /\ linked[m] = m.tag
====
