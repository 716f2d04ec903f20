# Verification of aria-petroops

TLA+ models of the parts of aria-petroops that are hard to test, TLC runs that
check them on small instances, and TLAPS proofs of what matters most for every
instance. Paths are relative to the repository (`src/` here is its root; most of
the code is in `src/apps/api/src/modules/`).

## 1. The system

A NestJS API (one Node.js process, PostgreSQL through Prisma), a React frontend,
an edge agent that publishes plant readings over MQTT, and a sister system,
SafeOps, that is told about anomalies over HTTP. Two facts of the runtime decide
how everything is modelled:

* **A request runs to its next `await` without interruption.** Between two
  awaits, other requests, cron jobs and MQTT messages run. So an action of a
  model is the code between two awaits.
* **Every Prisma call is a transaction of its own** (`prisma.service.ts` wraps it
  to set the tenant). No service opens a transaction around two calls, takes a
  lock or compares a version. So what was read may be stale when it is written,
  and a process that ends, or a database error, may come between any two calls.

### Inventory

| Component | State | Operations | Hard | What makes it correct |
|---|---|---|---|---|
| Work orders (`work-order/`) | `work_orders`: status, XState snapshot, assignee, rejection reason | `create` (insert, then snapshot, then audit), `transition` (read, decide, update by id, audit) | requests overlap: lost updates, late snapshot; crash between writes | orders at work have an assignee, no stage skipped, trail is true; one at a time: the machine and its access rules |
| Access rules (`common/casl`, guards) | none | rules of a user on an order | roles, ownership and tenant together with stale rows | part of the above |
| Audit log (`prisma/audit.service.ts`) | `audit_log`: a hash chain per tenant | `record` (read the last hash, insert), `verifyChain` | two calls read the same last hash; rolled back inserts | rows link to committed rows; a break needs an overlap |
| Anomaly detection (`anomaly/`, `ai-gateway.controller.ts`) | `anomaly_events` | `scan` every 20 s, `acknowledge` | scans overlap, end half-way; acknowledge of a closing event | closures are announced; SafeOps holds what is live |
| SafeOps outbox (`integration/`) | `integration_deliveries`, `notified_safeops_at` | `enqueueAnomaly`, `flush` every minute | flushes overlap, stale attempts, timeouts after a delivery, retries out of order, switch on/off, restart | no false claim, limit of attempts, order, nothing pending for ever |
| Telemetry ingest (`telemetry/`) | `sensor_readings`; rooms of the gateway | `ingest` by MQTT (QoS 1), CSV import, `readings`, broadcasts | late, repeated, corrected, overlapping readings; an import that stops half-way | see alarms, meter; an import on record is complete |
| Alarms (`alarm/`) | `alarm_events` | `observeReading` (find active, return, raise), KPIs of ISA-18.2 | two ingests see the same active alarm | the alarm of the last reading; never silenced; every alarm returns; the figures mean what they say |
| Energy (`energy/`) | `energy_readings` | upsert by `ingest`; balances and emissions (read only) | corrections | the meter follows the tag |
| Maintenance plans (`maintenance/maintenance.service.ts`) | `maintenance_plans`: status, technician, start, end | `create`, `transition`, `schedule` (read, compute, update row by row, audit) | transitions and other schedules between the rows; stale bookings | undisturbed: all booked, nobody twice; changes recorded |
| Maintenance scheduler (`maintenance/scheduler.ts`) | local | `prioritizeJobs`, `scheduleMaintenanceJobs` | day boundary, midnight, long jobs, ties | no double booking, capacity of a day, as early as the priorities allow |
| Tenant context, row-level security (`common/tenant`, `prisma.service.ts`) | AsyncLocalStorage, `app.tenant_id` of pooled connections | wraps every call | calls of several tenants and of none share connections | with the restricted role a tenant's call sees its rows, whoever had the connection before |
| Authentication (`auth/`, `lib/api.ts`, `Shell.tsx`) | users; token and user in localStorage | `login`, JWT check, `/auth/me`, logout, bootstrap at start | late answers of earlier sessions, several tabs; two instances start at once | who is shown is who acts; a start that ends leaves all rows |
| Assets and catalog (`asset/`) | sites, units, equipment, tags | create, catalog sync at start | repeated, overlapping or interrupted sync | a sync that ends leaves all rows, limits, links and readings |
| AI gateway and ML (`ai-gateway/`) | none (isolation forest, RUL on the readings asked for) | score, forecast, ask | numeric | reference values |
| Health and metrics | none | probes | - | - |
| Web frontend (`apps/frontend`) | page state: list, selected tag, busy flag | loads, changes, socket messages merged | answers and messages out of order, lost messages | once nothing is under way the page shows what is stored |
| Infrastructure, seed | containers, `schema.prisma`, `seed.ts` | - | - | the seed is a legal initial state |

**How they interact.** An MQTT message or CSV row calls `ingest`, which stores the
reading, calls the alarm service and the energy service and broadcasts to
browsers. The anomaly scan reads readings, writes events and calls
`enqueueAnomaly`; `flush` sends the outbox to SafeOps and stamps the event.
`openWorkOrder` of the AI gateway ends in `create` of the work-order service. Work
orders, plans, imports and acknowledgements call `record` of the audit log after
their own write, in a transaction of its own.

## 2. Modules

| Module | Models | Composed with |
|---|---|---|
| `AuditLog` | `record()` split at its two awaits and at the commit of the insert; `verifyChain()` | - |
| `WorkOrderRules` | states, edges, `hydrateWorkOrder`, the CASL rules on orders (operators) | - |
| `WorkOrderMachine` | abstract: what the service promises, one step per operation | `WorkOrderRules` |
| `WorkOrder` | `create()`, `transition()`, with failures at each await | `WorkOrderRules`; `AuditLog` by `INSTANCE`; implements `WorkOrderMachine` |
| `Outbox` | `enqueueAnomaly()`, `flush()`, the switch and restarts; SafeOps as what it last took in | - |
| `Anomaly` | `scan()` and `acknowledge()` on one equipment | extends `Outbox` |
| `Telemetry` | `ingest()` of one tag with `observeReading()`, `evaluateAlarmLimits()` and the meter | - |
| `Scheduler` | `prioritizeJobs()` and one round of the scheduler's loop (operators) | - |
| `Maintenance` | `create()`, `transition()`, `schedule()` | extends `Scheduler` |
| `Session` | tabs of one browser: login, token, `/auth/me`, logout, the way back to the login page without one; what the server makes of the token | - |
| `Tenancy` | the tenant context, the transaction of each Prisma call on a pooled connection, the policies | - |
| `Import` | CSV imports and MQTT messages, row by row, with broadcast and audit entry | - |
| `Dashboard` | the chart of a tag: requests, their answers, the socket | extends `Import` |
| `Feed` | the anomaly events of one equipment, scans, acknowledgements, broadcasts and the list of `AiPage` | - |
| `Pages` | loads, changes and buttons of the six pages with records | `WorkOrderRules` by `INSTANCE` |
| `Startup` | operator bootstrap, catalog sync and `seed.ts`, call by call | - |
| `AlarmKpis` | `observeReading()` for several tags, transaction by transaction, with readings of any time; `computeIsa182` over the alarms it leaves | - |
| `AuditLogProofs`, `WorkOrderProofs`, `MaintenanceProofs`, `TelemetryProofs` | theorems about the module of that name | extend it |
| `AnomalyProofs` | theorems about `Outbox` and `Anomaly` | extends `Anomaly` |
| `ScreenProofs` | theorems about `Feed` and `Pages` | extends both |
| `DataProofs` | theorems about `Import`, `Dashboard`, `Startup` and `AlarmKpis` | extends them |
| `PlatformProofs` | theorems about `Tenancy` and `Session`, and about `MCPlatform` as a whole | extends `MCPlatform`, `ScreenProofs`, `DataProofs` |

`MC*.tla` give the constants of small instances. Operators called "variant with a
defect" are plausible bugs of the code; no specification uses them. They show that
each property would catch one: with the variant in the place of the definition it
follows, TLC finds the property violated.

### Correspondence

* **AuditLog.** `log[i]` is the row with id `i`; ids come from the sequence at
  `Insert`, rows become visible at `Commit`, and a rolled back row leaves a hole
  (`void`). The SHA-256 hash of a row is abstracted to its id. Two rows can share
  a hash only if they share the previous hash, which breaks the chain anyhow. `Enter` and
  `Record` differ in that `Enter` is called from another module's step.
* **WorkOrder.** `row[o]` is the row; `req[p]` a request between its awaits,
  with the row it is going to write (`Written`), which is why a stale row is
  written back whole. `Load` is `transition()` from the query to the update and
  carries every check (404, 403, 422 leave no trace); `Store` is the update and the
  call of `record()`; `StoreFirstSnapshot` the second update of `create()`. The
  snapshot is the state it holds, because no code reads its context; a rejection
  reason is its presence.
* **Outbox.** The position of an item is its id and its place in the order by
  `createdAt`. `Requeue` is the guard and the `updateMany`; `Fetch` the batch; `Post` the HTTP
  call with its outcomes, among them a timeout after SafeOps took the notice in;
  `MarkDelivered`, `MarkNotified`, `MarkError` the updates; an error of an update inside the
  `try` goes to the same `catch` as a failed send (`UpdateError`), one outside ends the flush
  (`AbortFlush`).
* **Anomaly.** The isolation forest's verdict is the variable `anomalous`, which
  changes at will. Fifteen minutes pass event by event, oldest first (`Ages`). `ScanRefresh`,
  `ScanMiss`, `CreateEvent`, `Announce` are `scoreOne()`; `ScanClear`, `CloseEvent`, `Withdraw`
  are `releaseIfClear()`; `AbortScan` is the `catch` of `scan()`.
* **Telemetry.** A job is one `ingest()`. `Store` is the upsert, `FindActive` the query and
  the branches, `ReturnAlarm` the update, `Raise` the insert, `Meter` the energy upsert, `Fail`
  an error at any await.
* **Scheduler, Maintenance.** Times are hours since a midnight UTC. The comparator of
  the sort is `Before`; rows come from the query in any order, so any order that
  the stable sort may produce is taken (`Prioritized`). One round of the loop is
  a step (`Assign`): the loop does not await, but touches nothing that is shared, so
  the steps of others commute with it. `audit_log` is the set of what was recorded.
* **Session.** A token is the number of its login; `owner` says whom it names. The stored `token` and
  `user` are shared by all tabs. `MountShell` is the effect of `Shell.tsx`, whose call outlives the
  frame (`mounted`); `MeAnswer` and `MeFails` are its `then` and `catch`. `Leave` goes back to the login page
  by the browser's history: the frame is unmounted, token and user stay. `HasRole` is what
  the browser offers, `CanActivate` what the server permits.
* **Tenancy.** `Begin`, `Operate` and `Finish` are the start, the statement and the end of the
  transaction in `$allOperations`. A row belongs to a tenant and is that tenant. After a transaction with a
  tenant the setting of the connection is the empty string, not absent.
* **Import, Dashboard.** A file is a sequence of rows; a row that the schema refuses is `BadRow`. `Store`
  is the part of `ingest()` up to the upsert, `Broadcast` the rest of it. `sent` is the stream of
  `tag:update` messages of the room, `socket.past` how far the page is in it, so a socket that
  comes up late skips what was sent. `Oldest` is the query of `readings()`: the stored times in order (`Older` counts
  the earlier ones), as many as `Take`.
* **Feed.** `FindRecent`, `CreateEvent`, `TellRoom` are `scoreOne()`; `FindLive`, `CloseEvent`, `TellRoom`
  are `releaseIfClear()`; `ScanEnds` is the `catch` of `scan()`. `told` is what the room has been sent and the page
  has not seen. `Anomaly` has the same operations with the outbox and without the broadcast; here a write to the
  outbox can only fail. `findMany` of `releaseIfClear()` has no `orderBy`, so `FindLive` takes the events in any order.
* **Pages.** A table is a value and the number of its last change, so that "newer" can be said. A load is
  one `Promise.all`; its tables are read at different times and shown together. `Changed` is what the
  server makes of a POST: the edges of `WorkOrderRules` for orders, the new status for plans,
  another name for assets.
* **Startup.** `todo` is the rest of the calls of a start, in the order of the code; a lookup whose result decides
  the next call puts that call in front. A start may fail at any call and is not repeated
  by itself; another start is another process or a restart.
* **AlarmKpis.** An observer is one `observeReading()`; its reading is the kind of alarm it reaches (or none) and a
  time of its own, which a file or a device may set back. `FindActive` is the query and the branches,
  `ReturnFound` the update by id, `RaiseAlarm` the insert, both as of the time of the reading; calls of one tag may
  overlap and end at any await, so a tag may have two standing alarms, and one may be cleared before it
  started. Ten minutes are `Slot` units. The figures take the end of their window as a parameter, because `kpis()` may
  be asked at any time. `setBack` and `shared` are histories: tags with a reading from before the start of one of
  their alarms, and tags that two calls observed at once.

## 3. Runs

Deadlock is not checked: with the bounds reached and no request left, the
systems really rest. Every bound is a constant of a cfg.

| Run | Instance | Shows |
|---|---|---|
| `MCHistory` | one part per behaviour: 2 writers, 2 tenants, 5 rows, any call fails at any await; 2 overlapping observations, 2 tags, 2 types, 3 alarms, times 0 to 3, slots and a window of two units | every row links to the genesis hash or a committed earlier row of its tenant; a tenant whose calls never overlapped verifies; a fork is no wider than the number of callers (the shape of the log and of the calls is part of `TypeOK` in `MCWorkOrder`); the alarm figures mean what they say |
| `MCAuditLogFork` | 2 writers, 2 tenants, 5 rows | **violated:** two overlapping calls fork the chain, and `verifyChain` reports a break |
| `MCAlarmFlood` | 1 observation at a time, 4 tags, 4 alarms, a limit of three, slots of two units in a window of four | **violated:** more alarms than the limit in ten minutes, and no flood |
| `MCWorkOrder` | 2 overlapping requests of an administrator and a technician on an order that exists or that one of them creates, 2 audit rows | what survives lost updates: assignee, snapshot, stages, trail; every stored change is one its user may make |
| `MCWorkOrderSerial` | 1 request at a time, planner, technician, administrator of another tenant, 5 audit rows | refinement of `WorkOrderMachine`; the trail replays to the status |
| `MCWorkOrderFinal` | as `MCWorkOrder` | **violated:** a stale transition moves a closed or cancelled order |
| `MCAnomaly` | 2 scans, 1 flush, 1 event, 3 items, batch of 2, 1 attempt | closures are announced; undisturbed, SafeOps holds live anomalies only; once SafeOps was told of an event, notices of it come to an end |
| `MCAnomalyHolds` | 1 scan, 1 flush, 2 items, 2 attempts | **violated:** a retried open notice overtakes the closed one |
| `MCBackground` | one part per behaviour: 2 flushes, 1 event, 2 items, batch of 2, 2 attempts; 2 overlapping ingests, values below, at and above two limits, 3 alarms | claims, limit, order, and under fairness every item is delivered or given up; the alarm of the last reading, no lost alarm, the meter, and under fairness every alarm returns |
| `MCMaintenance` | 2 overlapping requests, 2 technicians, up to 3 plans, 3 requests, jobs of 3, 5, 6, 9 and unknown hours, a day shift of both and a night shift of one | one `schedule()` is sound; an undisturbed one books all; everything is on record |
| `MCMaintenanceOverlap` | 1 request at a time, 4 requests | **violated:** two approved plans of one technician overlap |
| `MCPlatform` | one part per behaviour: 2 tabs, 2 logins, 2 calls per tab; 2 tenants, 2 calls, 2 connections; 1 import, 1 message, 2 tags, 2 times, 2 requests; 2 scans, 1 acknowledgement, 2 events, 2 lists; each page with 2 loads, 2 changes under way, 3 changes of a table; 2 instances and a seed, 3 starts in all | frame and server agree; calls see their tenant's rows; recorded imports are complete; chart, list and pages show what is stored once nothing is under way; one live event; a start that ends leaves the database complete |

Symmetry of the model values is used where only invariants and action properties are checked and
nothing tells the values apart (`MCAuditLogFork`, `MCWorkOrder`, `MCAnomaly`, `MCMaintenance`, `MCAlarmFlood`, the tags, types and
observations of `MCHistory`, and the scans of `MCPlatform`).

`MCPlatform` instantiates the seven modules around the records together: the variable `part` chooses one, and the
others stay as they began. They share no state, so their interleavings would only multiply
states. `FeedBound` and `StartBound` bound what may come together in one behaviour. `MCHistory` does the same
with the two tables that are read whole to judge the past, the audit log and the alarms, and `AlarmBound` bounds
alarms, tags, types and observations together. `MCBackground` does it with the two jobs that must come to an end; while
the ingests move the integration is off, so the fairness of the flushes, which have nothing to do, asks nothing.

**Why these bounds are enough.** The hazards are races of two actors: two requests,
scans, flushes or ingests are the least that interleave, and they are allowed to
start over within the bounds, so a third one after the first has ended is in the
runs too. Two attempts are a first and a last one; two items of an event are the
open and the closed notice. Three values are below, on the first and on the second
limit. Five audit rows hold a fork and what follows it. Jobs of 6 and 3 hours do
not fit into 8 hours together, those of 5 and 3 do, the one of 9 never does; the
shift from 20:00 crosses midnight.
In `MCPlatform` a chart that takes one reading is at its limit with the second; two connections and two
calls let a connection pass from a tenant to a call without one while another is at work; a
window of four readings with three being enough has a start end in it on both sides of the
limit. In `MCHistory` a slot is two units and so is the window, which may end at any of four times: alarms that lie in
one slot and the same alarms split over two are both there, a flood is met and missed, and alarms fall out of the window at either end.
`MCWorkOrder` has one order, as requests on different orders share only
the audit log, whose own runs have rows of several tenants. The theorems of section 4 remove the bounds
from every invariant and every action property of these runs.

**What the violations say.** Each run below checks one sentence of the
repository's documents or tests.

* `ChainVerifies` (`audit.service.spec.ts:4`, "links consecutive records and
  verifies the chain"): `record()` reads the last hash and inserts in two
  transactions. Two calls of one tenant at once write the same `prevHash`;
  verification then reports a manipulation where there was none.
* `FloodIsFlagged` (`isa-18-2.spec.ts:13`, "flags flood when more than 10 alarms start in ten
  minutes"): slots begin with the window, not with the alarms, so eleven alarms that fall six and
  five into two slots are no flood (in the run: four, two and two, with a limit of three). The other way
  round, exactly ten in one slot are flagged, where that sentence and the assistant's knowledge (`pack.ts:13`) say more
  than ten. The test itself has all its alarms in one slot.
* `FinalIsFinal` (`docs/en/03-bpms-workflow.md:17`, "closed / cancelled | final"):
  a request that read the order before it was closed writes its own target state
  over it.
* `HoldsMatchAnomalies` (`docs/reports/08-sister-system-integration.md:18`, "open
  anomalies create holds that block SafeOps PTW/MOC on that tag"): an open notice that failed
  stays pending, the closed notice of the same batch goes through, the open one is sent
  in the next flush, and the hold stays.
* `NeverOverlap` (`docs/10-roadmap.md:38`, which says that scheduling keeps the daily
  capacity and that bookings do not overlap): `transition()` leaves the booking of a
  plan it takes out of "approved", `schedule()` gives its time to others, and a
  second approval brings the old booking back. No requests need to overlap.

### Properties worth a second look

* `NoStageSkipped` and `TrailIsPassed` speak of the history of an order (`passed`),
  because a lost update may move it back: what remains true is that no stage was
  ever left out and that the trail tells no lie.
* `GivenUpAtLimit` holds although overlapping flushes write attempts from stale
  copies: counts go back, yet no item is given up early or kept too long.
* `AlarmTracksLast` is about the last *processed* reading, not the newest by time: that
  is what the code does with late readings. It holds after ingests that failed half-way
  as well, because the next reading makes up for them.
* `EarliestPossible` holds for a shift that ends before midnight and jobs no longer than a day
  (`PlainDay`). Otherwise the code leaves a day out: the "next working day" is the next
  calendar day after the *cursor*, which, for a shift from 20:00 on, is already past midnight.
  `CapacityKept` excepts a job longer than a day, which is booked in one piece.
* `SettledBookings` is about a `schedule()` that neither an approval nor another
  `schedule()` came between; without that it is false, as `MCMaintenanceOverlap` shows.
* `OnlyAllowedChanges` is what is left of "only the machine's steps by those who may take them" when
  requests overlap: the row may have been changed since it was read, so the edge taken is one from a state the order
  *has been* in; but the row it leaves is of the user's tenant and one on which his roles allow the event.
* `NoticesEnd`: while SafeOps was not told of an event every scan adds a notice, without end; once it was told,
  only scans that had read the event before still add one. That takes the column `notifiedSafeopsAt` and what the
  scans hold together.
* `ActsAsShown` excepts an answer to an earlier session (`late`) and a tab whose token another
  tab changed (`crossed`): the code handles neither. `Shell.tsx` stores whatever `/auth/me` answers, so
  after a quick logout and login the stored user may be the previous one while the token is the new one's; an
  error of the old call even logs the new user out.
* `ChartFollowsTag`, `FeedAgrees` and `OwnChangeShown` speak of the moment when nothing is under way, and
  only if the answer asked for last also came last (`inOrder`). The code neither cancels nor numbers its requests, so without that
  premise an older answer stays. Messages lost while the socket was down, or overwritten by an answer read before them
  (`gap`), are excepted for the same reason.
* `FeedAgrees` further excepts events that two had in hand at once (`doubt`): a scan broadcasts the status it
  read, not the one stored by then.
* `ImportsAddUp`: a value in the table was broadcast, or it is in the hands of a job that *holds this very value*;
  the proof needs that, and it says more than that some job is about to send something under its key.
* `AnomalyTypeOK` says of a scan between the query and the insert of a new event that it has no event yet; a scan
  that announces has one.
* `KpisAgree` says what is left of the figures under overlapping observations, failures and late readings. A flood
  shown is one: some ten minutes had as many alarms as the limit. That a flood is shown is certain only from
  twice the limit less one on, because of the slots (`FloodIsFlagged` is the sentence of the test, and fails), and
  only of alarms whose tags had no reading set back (`setBack`): such a reading may clear an alarm as of a time before
  the window, which takes it out of the figures. A chattering tag was cleared in between, and a standing tag
  counts once, unless two calls observed it at once (`shared`): both may raise. No standing tag is ever forgotten.
* `CallsSeeTheirTenant` is what `docs/07-security.md:97` says: with the restricted role and a tenant, that tenant's
  rows; in any other case all rows, without an error.

### Fairness

* `OutboxFairness`: the cron job calls `flush` every minute, and a flush that runs goes on:
  the HTTP call ends after eight seconds at the latest (`AbortSignal.timeout`), a
  database call ends with a result or an error. Weak fairness of `Requeue` and of the steps of
  each flush says no more. That the process stays up, the integration on and the
  database reachable is not assumed of the code but is the premise (`Stable`) of
  `PendingSettles`; sends may fail for ever.
* `Fairness` of `Telemetry`: an ingest in progress goes on. That readings keep coming
  and lie within the limits is the premise of `AlarmsReturn` (`BackToNormal`).
* Both premises speak of steps. A flush that finds nothing and one that is cut off reach the
  same state; a step counts as cut off only if it could not have been the other.
* Nothing is fair in the environment: plant, operators, browsers, SafeOps.

## 4. Proofs

TLAPS proves the following for every number of requests, writers, tenants, orders, users, plans,
technicians, tabs, scans, flushes, uploads, loads and for every bound, limit and length. The assumptions are
those named in the modules:

* tenants, users and the "none" values differ (`NoTenantAssumption`, `NoneAssumption`, `TenancyAssumption`,
  `NoCallAssumption`), every user has roles and a tenant (`UsersAssumption`, `UserTenantsAssumption`);
* bounds and numbers are naturals, a batch, a limit of attempts, a slot and a flood are not zero, and there is
  room for one event and one change of a table (`OutboxAssumption`, `AlarmKpisAssumption`, `TelemetryAssumption`,
  `SessionAssumption`, `DashboardAssumption`, `MaxRowsAssumption`, `FeedAssumption`, `PagesAssumption`,
  `StartupAssumption`);
* job lengths are positive whole hours, technicians are finitely many (`MaintenanceAssumption`);
* names of uploads and messages, of scans and acknowledgements, of instances and seeds differ
  (`ImportAssumption`, `FeedAssumption`, `StartupAssumption`);
* a file is a sequence of rows, each of which the schema refuses or has a tag, a time and a number
  (`FilesAssumption`);
* the meters of the catalog name tags of the catalog (`StartupAssumption`; `demo-catalog.ts` lists both).

| Theorem | States |
|---|---|
| `AuditTypeCorrect`, `RowsStayRooted`, `OnlyOverlapForks` | `AuditTypeOK`, `RowsAreRooted`, `ForkNeedsOverlap` hold always |
| `ForksAreNarrow` | `ForkWidthBounded` holds always, for finitely many writers |
| `TypeCorrect`, `WorkIsAssigned`, `SnapshotsFollow`, `StagesInOrder`, `TrailTellsThePast` | `TypeOK`, `AssignedBeforeWork`, `SnapshotFollowsStatus`, `NoStageSkipped`, `TrailIsPassed` hold always |
| `ChangesAreAllowed` | every step satisfies `OnlyAllowedChanges` |
| `OrdersImplementMachine` | `WorkOrder` implements `WorkOrderMachine` as long as no two requests are at work on one order (`OnePerOrder`) |
| `SerialImplementsMachine` | in particular with one request at a time, the run's case |
| `TrailsReplay`, `SerialTrailsReplay` | `TrailReplays` holds always as long as no two requests have an order in hand (`OneInHand`); in particular with one request at a time |
| `OrdersFeedAudit` | `WorkOrder` implements `AuditLog`: the log of the work orders is one that concurrent calls of `record()` write |
| `OrdersForkOnlyInOverlap`, `OrdersForkNarrowly` | so `RowsAreRooted` and `ForkNeedsOverlap` hold always in `WorkOrder` too, and `ForkWidthBounded` for finitely many requests |
| `MaintenanceTypeCorrect`, `NoTechnicianTwice`, `ShiftsAreKept`, `NothingEarlier`, `SettledAreBooked`, `ChangesRecorded` | `TypeOK`, `NeverDoubleBooks`, `CapacityKept`, `EarliestPossible`, `SettledBookings`, `ChangesAreRecorded` hold always |
| `UrgencyIsWeakOrder` | the comparator of `prioritizeJobs` is a strict weak order on jobs with at most one due date each |
| `ClaimsStayTrue`, `GivenUpExactly`, `NoticesInOrder` | `ClaimsAreTrue`, `GivenUpAtLimit`, `OrderKept` hold always in `Outbox` |
| `ScansFeedOutbox` | `Anomaly` implements `Outbox`, so the three hold there too |
| `AnomalyTyped`, `ClosuresAnnounced`, `HoldsSettled` | `AnomalyTypeOK`, `ClosureIsAnnounced`, `HoldsSettle` hold always |
| `NoticesComeToAnEnd` | every step satisfies `NoticesEnd`, for finitely many scans |
| `TelemetryTyped`, `AlarmsTrackLast`, `NotSilenced`, `MetersFollowTag` | `TypeOK`, `AlarmTracksLast`, `NeverSilenced`, `MeterFollowsTag` hold always |
| `CallsSeeOwnTenant`, `FramesActAsShown` | `CallsSeeTheirTenant`, `ActsAsShown` hold always |
| `OneEventAtATime`, `ListsAgree`, `OwnChangesAreShown` | `OneLiveEvent`, `FeedAgrees`, `OwnChangeShown` hold always |
| `ImportsAreComplete`, `ChartsFollow` | `ImportsAddUp`, `ChartFollowsTag` hold always |
| `StartsComplete`, `FiguresAgree` | `StartCompletes`, `KpisAgree` hold always |
| `TenancyTyped`, `SessionTyped`, `ImportTyped`, `DashTyped`, `FeedTyped`, `PagesTyped`, `StartupTyped` | each part of `MCPlatform` keeps the shape of its state (`TenancyTypeOK`, ..., `StartupTypeOK`) |
| `KpiTyped` | `KpiTypeOK` holds always in `AlarmKpis`; no order of start and clearing is claimed, as there is none |
| `PlatformImplementsParts` | a behaviour of `MCPlatform` is one of each part's own specification |
| `PlatformTyped`, `PlatformHolds` | `PlatformTypeOK`, and the eight other invariants of `MCPlatform` together, hold always |

The theorems about the parts of `MCPlatform` are about `TenancySpec`, `SessionSpec`, `FeedSpec`,
`PagesSpec`, `ImportSpec`, `DashSpec` and `StartupSpec`, whose steps are those of `MCPlatform`
for their part, without its bounds on what comes together; `PlatformImplementsParts` carries them over. Those about
`AuditLog`, `AlarmKpis` and `Outbox` are about `AuditSpec`, `KpiSpec` and `OutboxSpec`, whose steps are those of the parts of
`MCHistory` and `MCBackground`, the others about the `Spec` of their module.

**Audit log.** `RowsAreRooted` is not inductive: an insert writes what the call read before. `RootInv` adds
that the hash a call holds is the genesis hash or a committed row of its tenant, and that each open row
belongs to one call, so that a commit or a rollback touches no other (a committed row is never rolled back).
`ForkInv` adds, for a tenant whose calls never overlapped, that at most one call is in flight and that what
it holds is the last committed row. `WidthInv` counts, for a row, the rows that follow it and the calls that
hold it: together they are no more than the writers. A commit turns the one into the other. A new call holds
the *last* row, which nothing follows yet. The count needs finitely many writers, a hypothesis of
`ForksAreNarrow`.

**Work orders.** `WInv` says of each order that row and history fit (`RowOK`, `PassedOK`) and of each
request that the row it is going to write fits *whatever the row in the database is by then* (`WriteOK`):
the state its target follows is already in the history, and it names an assignee if its state needs one. As
the history only grows, the update of another request cannot break it. `SInv` adds the audit log's
`RootInv`, by `INSTANCE`, and that what a request is about to record has happened. `AllowedInv` says, for
`OnlyAllowedChanges`, that what a request is about to write is in its user's tenant, as the row in the
database still is (no write moves a row to another tenant), and allowed by his roles; a request starts its
`record()` by its own update only.

`OrdersFeedAudit` needs `SInv` for one thing: the tenant and the entry a request records are of the tables
(`StoresRecord`), so that its update is a call of `record()` that `AuditLog` has. All other steps are steps of
`record()` or leave the log alone, and the step lemmas of `AuditLogProofs` apply to the log of the service.

The refinement needs to know what the row in the database *is* when it is overwritten. `HeldInv` says that
the write follows from the row that is there now by an edge its user may take (`LoadedFrom`). With two
requests on one order this is false, which is what `MCWorkOrderFinal` shows; so `OnePerOrder` is the
hypothesis of the theorem. It is weaker than what the run has (one request), and the code has no lock that
would provide it. Then each step of `create()` and `transition()`, failures included, is a step of the
machine or leaves its state as it is.

`TrailReplays` folds the log. `IsReplay` describes the fold by its values after each row (`g`), which are
unique because the least row at which two differed would contradict itself (`LeastNumber`, from the
well-foundedness of `<`). `ReplayInv` says that what the log leads to, with the entry a request has in hand,
is the status, and that an inserted row which is not yet committed is the last about its order.

**Outbox, anomalies.** `OutboxInv` adds to the two properties that a flush at work has something in hand
(`BatchesInHand`), each copy of it with fewer attempts than the limit, and that an item just posted was
taken in (`PostedIsReceived`). Hence a stale copy can neither give up too early nor keep an item that has
used up its attempts. `OrderInv` is about the time before anything overlapped or failed: a flush sends its
batch from the oldest on, nothing older waits, and SafeOps holds the newest notice it was sent. A scan is to
the outbox what any caller of `enqueueAnomaly` is (`AnomalyIsOutbox`), so `Anomaly` implements `Outbox` and
its invariants carry over. `ScansInv` adds, for scans that never met, that what is announced is live and
that the last notice of a closed event says so or is about to be written. `NoticesEnd` counts the open notices
of an event and the scans about to add one; it needs that every notice is about an event there is
(`NoticesOfEvents`), for otherwise the number of a new event could be one SafeOps was told of already.

**Telemetry.** `TelemetryInv` says of the tag at rest and of each ingest what it will still write: as long
as all readings lay beyond the limits, so do those in progress (`NoneIsCalm`), and, unless an ingest failed,
an alarm is active or an ingest will see to it that one is (`Watched`); with one ingest at a time, what the
alarm or the meter lacks is what the ingest at work will do next (`OneByOne`).

**Maintenance.** `LoopInv` says of each `schedule()` that every technician is free on a shift (`OnShift`:
some whole number of days after the horizon plus the hours used), that all assignments so far are over when
their technician is free and are apart from each other. The arithmetic of `startOfNextWorkingDay()` is the
lemma `NextDayIsLater`: it never goes back, not even across midnight, and lands on the horizon plus whole
days. `FineInv` adds that jobs are assigned in the order of the priorities and none could start earlier at
its place, and, for a round that no approval and no other `schedule()` disturbed, that every approved plan
is booked or listed among those still to be written. `RecordsInv` says of each plan that the log names its
present status or a request at work is going to. `UrgencyIsWeakOrder` is what `Array.sort` requires of a
comparator, so that `Prioritized` names all results it may have; the due dates are sets in the model, of at
most one element (`DueOnce`).

**Tenancy.** `NothingKept` says that no connection, in the pool or at work, keeps a tenant; `VisibleIsOwn`
is what a transaction sees under that.

**Session.** `StoredAgrees` says of the stored user that it is the one the token names, and nobody without a
token, because the next frame copies it; `FrameAgrees` is the part about a frame. A step that changes one
tab is `OneTab`.

**Feed.** A scan that found nothing creates an event later. `OneInv` adds that, until then, there is still
nothing it could have found. Only the create of another scan and the acknowledgement of a closed event could
change that, and both are what `irregular` records. `ListInv` is for the list: what is to be told is true,
and of each event not in doubt somebody is about to tell it, or the last message under way about it says its
status, or the list and the newest answer show it.

**Pages.** `PagesInv` says of the newest load that every answer it has knows of the page's own changes
(`NewestKnows`): a change that is answered starts a load after it, which has no answers yet, and tables only
get newer. The page takes this over when it shows that load (`ShownKnows`). No number of a change runs ahead
of its table (`ChangesAreIn`).

**Import.** `ImportInv`: a job has stored all rows before the one it is at, so one that is recorded has
stored them all; a value in the table was stored by a job that has sent it or holds it (`WasSent`,
`IsToBeSent`).

**Dashboard.** Unless two jobs raced for a key, the stored reading is in the hands of a job or was the
*last* that was said of its key (`NewestIsTrue`). `Follows` says of points and of a place in the stream of
messages: each of the oldest readings is in the hands of a job, or will be the last message of its key, or
is shown last already and no message of its key is to come. It holds of an answer from the moment it is read
(`LastOK`), of the chart from the moment it takes the answer to the last request (`ChartOK`), and is kept by
each message that is added (`AddedKept`), is in the points already, or is of another tag (`PastKept`);
otherwise the message is lost and `gap` says so. A reading that is stored only moves others out of the
oldest ones (`AmongShrinks`).

**Startup.** `StartupInv` says of each start that every task of its program is fulfilled or still to be
done, and that no step of any start takes back what a task is for (`Grows`). That a meter finds its tag
needs the order of the program: what a task is for comes first (`Serves`, `Ordered`). The programs of the
catalog, the bootstrap and the seed are such sequences for any catalog.

**Alarm figures.** `KpiInv` says that a call knows an alarm of its own tag (`CallOK`), that an alarm is cleared after its
start unless a reading of its tag was set back (`ClearedAfterStart`), and that a tag no two calls observed at once
has one standing alarm at most and none while a call is about to raise one (`OneAtATime`). The rest is arithmetic: ten
minutes meet two slots at most, and the fullest slot is as full as some ten minutes. `LeastNumber` gives
quotient and remainder without induction.

**Shapes.** The inductive invariants above say what the properties need, and leave open some of what the type
invariants say. `FeedRest`, `PagesRest`, `ImportRest`, `ShortAnswers`, `StartupRest`, `OneConnection` and
`SessionRest` are what is missing: nobody knows an event that is not there; a page stays and its answers are
about its tables; what is stored or sent is of a known tag; no answer is longer than `Take`; readings are
left only while a window is written; a call has one connection in its transaction; only people get tokens
and only issued tokens are sent. Each is inductive together with the invariant of its part.

**The parts together.** `PlatformNext` takes a step of one part and leaves the variables of the others
(`PartSteps`), so a behaviour of `MCPlatform` is one of each part, most of the time at rest.

The library's induction theorems cannot be instantiated by the installed provers. Where a proof needs
induction, it takes the least element of the set of counterexamples, which `WellFoundedInduction` states for
sets.

**Only model-checked.** Liveness (`PendingSettles`, `AlarmsReturn`), which is beyond the prover. The violations
are shown by their runs.

## 5. Not modelled

* *Arithmetic on reals*: isolation forest, features, remaining life (`ai-gateway/ml/`), emission factors and energy balances, the
  averages and ratios of the alarm figures. What depends on them is a choice in the models: whether a scan finds an anomaly.
  One behaviour there is worth knowing: `EnergyService.dashboard` reads the *oldest* 2000 readings of its window and calls the last of
  them the latest (`energy.service.ts:26`), the same limit that `Take` models for the chart.
* *The assistant*: knowledge answers and the HTTP adapter pass texts on; `AiPage` shows the answer that came last.
* *Formats*: how CSV and MQTT payloads are spelled, dates, texts, layout. Which rows are accepted is modelled (`Parses`, `ParsesMessage`).
* *Health, metrics, containers, logging*: probes and settings without effect on the data.
* *The CASL rules other than those on orders*: they repeat the roles of the routes, which `CanActivate` models.
* *`ingestMany`* has no caller. `SkipRow` shows what its loop, which goes on after a bad row, would mean for an import.
* *Growth of the outbox* while SafeOps cannot be reached (`anomaly-detection.service.ts:81`): each scan adds an item for an
  event that is not notified; only the bound of items in `Anomaly` limits this, and nothing in the code or its documents says
  how far it may grow. That it stops once SafeOps was told is `NoticesEnd`.
* *Times*: hours in `Scheduler` (a horizon on the minute: `startOfNextWorkingDay` drops its seconds), event ages
  in `Anomaly` and `Feed`, one time for the ingests of `MCBackground` (readings set back are in `AlarmKpis`).
* One equipment in `Anomaly` and `Feed`, one tag in `Telemetry`, one tenant in `Maintenance`: their
  code asks for rows of that equipment, tag or tenant only.
* *A page that is left and opened again* starts anew, and so do its loads; what remains of it is in `Session` only.

## 6. Plan

Done, in this order: `AuditLog` and its proofs; `WorkOrderRules`, `WorkOrderMachine`, `WorkOrder` and its
proofs; `Outbox`; `Anomaly`; `Telemetry`; `Scheduler`, `Maintenance` and its proofs; `Session`, `Tenancy`,
`Feed`, `Pages` and their proofs; `Import`, `Dashboard`, `Startup`, `AlarmKpis`; the proofs of all other
invariants, of the two refinements and of the action properties; `MCPlatform` as a whole.

Next: how far `schedule()` keeps bookings apart while it is disturbed; the safety part of `PendingSettles`
(an item that is neither delivered nor given up waits or is in a batch) as an invariant of its own.
