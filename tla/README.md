# A TLA+ model of sa-api

sa-api is the backend of a dashboard for storage arrays ("systems").  It is one
NestJS process.  It talks to one *maintainer* per system (an HTTP and websocket
server that holds the measurements of the system), keeps a cache of their data
on disk, keeps entities and metrics in a PostgreSQL database (TypeORM and
Prisma side by side), mails notifications, and answers HTTP requests of the
dashboard and of the collectors that push metrics.

This directory holds TLA+ modules of the parts where the order of events
matters, the configurations that check them with TLC, and proofs of their main
invariants for TLAPS.  `PROJECT.json` maps every definition to the lines it
models, and lists the runs, the findings and the hazards with their lines.

## 1. Inventory

All workers run in one Node.js process: code runs without interruption from one
`await` (or callback) to the next, and everything else can happen in between.
Nothing handles `uncaughtException` or `unhandledRejection`, so an error thrown
in a timer or an event handler, or a rejected promise that nobody waits for,
ends the process.  The repository ships `nssm.exe`, with which the backend is
installed as a Windows service, so it is started again.

| component | state | operations | hard because |
|---|---|---|---|
| **Maintainer connection** (`maintainer.service.ts`) | `maintainerInfo` (info, datasets, websocket per system), `queue` (timer per system), `loaded` | first load, websocket message and close, retry after 10 s, announcement after 60 s | several calls of `updateMaintainerInfo` for one system in flight at once; failures tear down what another call made; uncaught errors |
| **Maintainer queries** (same file) | none | status, ranges, data, variants, pools, ports, events | may fail at any time; no timeout |
| **Compat cache** (`maintainer-cache.service.ts`) | `systemLocks`, per metric `*.blob`, `blobmap.json`, `meta.json` | initial precache, prefetch on `updated`, cached read | lock over many awaits; three kinds of files rewritten in place; readers without a lock; crashes |
| **Notifications** (`notification-service.ts`) | `lastChecked`, `debounceTimer`, file `last_notify` | debounced run: read the pools, ask each system, mail, save progress | progress advanced before mailing and past events that are dropped; overlapping runs; a timer put off; torn file |
| **Storage entity tree** (`storage-entity.service.ts`, `storage-entity.repository.ts`, v2 controller) | tables `storage_entities`, `storage_entities_closure`, details | create, find or create, update, status, move, delete, duplicate | many transactions per operation, queries that are not awaited, null against undefined |
| **Device map** (`device-map.service.ts`) | the same tables | update of one system from its maintainer | concurrent with itself and with requests; partial failures |
| **Time series** (`time-series-service.ts`) | table `TimeSeries` | history generation, fill-in every 6 h | does not wait for the maintainers; overlap; never recomputes |
| **Metric collection** (`metric.controller.ts`, `collect/*`) | metric tables | upsert of the metrics of an entity; change of status | read, then write; no unique keys; overlapping importers |
| **Externals** (`external.service.ts`) | table `externals` | replacement of the externals of an entity | several transactions |
| **Materialized views** (`views.sql`, refresher, admin controller) | five views of the latest values | refresh by timer and by request | not waited for; values taken back |
| **Data center statistics** (`data-center.service.ts`, `metric-type-map.ts`, aggregations, alerts) | none | groups of metrics, totals of regions, alerts, lists of pools, graphs | two sources per system, one failure for all; weights, empty inputs, order of keys |
| **Latencies and export** (`latency-metric.service.ts`, `compat.controller.ts`) | promise of the FE port mode update | counts by latency, dates, export of the tree | rows and maintainers added up; closure table against parents |
| **Infrastructure** (config, logging, filters, DTOs, migrations) | none | | |

### How they interact

* The connection service resolves `loaded` when the first update of every
  system has settled, successful or not, and emits `updated` for a system 60 s
  after the last change.  The compat cache, the notifications and the device
  map wait for `loaded`, make a first pass over all systems, and then subscribe
  to `updated`.  The time series worker waits for nothing.
* The cache, the notifications, the device map, the time series and the
  controllers all call the query methods of the maintainer service, which use
  the address of the system and the registered `maintainerInfo`.
* Requests read the files of the cache while a prefetch rewrites them.
* The device map, the requests of the v2 controller and those of importers change the
  same entity tables, through Prisma, TypeORM and SQL.
* The statistics read the tables that importers write, partly through the materialized
  views, and ask the maintainers of the systems that have one.

### What makes each correct

* *Connection*: no websocket leaks its handlers; no system is forgotten; `loaded`
  resolves; systems come back when their maintainers do.
* *Cache*: one prefetch of a system at a time; the three kinds of files agree
  whenever nobody rewrites them; what a reader gets has no holes or repetitions;
  the cache catches up.
* *Notifications*: no event of a parity group that is active is passed over silently, at
  least once over crashes, at most once in one process, everything saved is not repeated.
* *Entity tree*: the closure table is the reflexive transitive closure of
  `parentId`; no cycles, no orphans, no duplicates; a status change covers the
  subtree.
* *Device map*: after an update the active components are those of the maintainer, and
  those of other systems are as they were.
* *Time series*: every stored sum covers the systems that answered; every day gets one.
* *Metric collection*: one row for a metric and a date; a request has its whole effect and no
  other; the views never go back.
* *Statistics*: what is asked for at once is what is asked for part by part; nothing is
  counted twice or left out; two ways to one answer agree; and what fails a request is known.

The hazards, each at its line and with the properties that cover it, are in
`PROJECT.json`.

## 2. Modules

### MaintainerConnection

Models lines 44-148 of `maintainer.service.ts`.

| TLA+ | code |
|---|---|
| `info[s]` | `maintainerInfo[s].ws`; `NoSocket` when there is no entry |
| `queued[s]` | a timer in `queue[s]` |
| `chain[s][i]` | where one call of `updateMaintainerInfo(s)` stands: waiting for `info`, for `datasets`, or failed and waiting for its `retry` timer |
| `sock[s][k]` | a websocket: `connecting`, `open`, `lost` (dead, 'close' not delivered yet), `closing` (its listeners were removed), `free` |
| `loading` | first updates that `loaded` waits for |
| `up[s]` | environment: requests to the maintainer are answered |
| `GotInfo`, `GotDatasets`, `RequestFails`, `RetryFires` | the segments of `updateMaintainerInfo` between its awaits |
| `SocketMessage`, `SocketCloses` | the two handlers |
| `Announce`, `AnnounceNothing` | the 60 s timer with and without an entry |
| `SocketRefused`, `RequestFailsConnecting`, `AnnounceNothing` | the three ways to die of an uncaught error |

When requests start to fail, any subset of the open websockets is lost with
them; a websocket may also survive.  Bounds: `Slot` (concurrent calls of a
system; a handler that would need one more waits) and `Socket`.

### MaintainerCache

Models `MaintainerCacheService` for one system: `precache`, the `updated` handler
and `prefetchSystem` with `readFromBlob` and `writeToBlob` (lines 139-424 of
`maintainer-cache.service.ts`).  Systems share nothing but the process, so one
system suffices.

| TLA+ | code |
|---|---|
| `lock` | `systemLocks[system]` |
| `call[p]` | a call of `prefetchSystem`: phase, current metric, `rangeStart`, `avail`, variants, rows gathered, next blob |
| `meta`, `map`, `blob` | `meta.json`, `blobmap.json`, `<i>.blob` of each metric; `None` when there is none, `Torn` while (or after an interrupted) writing |
| `day` | `prefferedRangeStart`, which moves at midnight |
| `avail`, `variants` | environment: last sample of the maintainer, recommended variants |
| `Look` ... `FillSummary` | the segments of the loop body between its awaits; writing a file takes two steps (truncate, fill) |
| `Rejected` | an exception outside of the `try` (lines 208, 214), or no cache path |
| `WriteFails`, `RequestFails`, `LookTorn`, `FetchUnreadable` | the `catch` of the loop body |
| `tainted` | history: metrics whose rewriting was interrupted, until the next rewriting from nothing |

Time is counted in samples, one a minute, and dates in thirds of a minute: `fromMins` and
`toMins` (rounding to the nearest minute) are those of `date.ts`, and chunks are compared
by dates and filtered by minutes as in the code.  A row is its time and the variants it was
taken with (a mapped metric has constant variants, `Variants` of size one).  The filter by
resolution and the values are left out.  Bounds: `NKeys`, `Prefetch`, `MaxTime`,
`LastDay`, `MaxBlobs`, `MaxIncidents` (failures, crashes and changes of
variants together).

### MaintainerCacheReads

Extends `MaintainerCache` with one request of `getData` (lines 426-459) that reads
the summary, the map and the chunks in separate steps, with any range of `Dates`, while the
writer of `MaintainerCache` goes on.  Dates are in thirds of a minute, so that they can be
samples or be rounded up or down to one.  Near the ends of a range rounding and chunks
disagree: a sample just outside of the range, to which its end is rounded, is returned from a
chunk that is opened, and is missing when it alone would be wanted of its chunk
(`FirstOf`, `LastOf` say which samples may be the first and the last).

### Notification

Models `NotificationService`; the mail settings are given (without them a run returns at once).

| TLA+ | code |
|---|---|
| `run[r]` | a run of `parityGroupAlert`: `now`, `poolMap`, the systems it has not asked, `reported` |
| `Event` | system, key of the parity group, time: what an answer of `getPGEvents` lists |
| `lastChecked`, `file` | progress in memory and in `last_notify`; `Torn` when its writing was cut short |
| `timer` | `debounceTimer`: `off`, `set`, or `due` when its 30 s are over and its callback has not run |
| `Updated`, `Elapse`, `TimerFires` | an `updated` event, which clears the timer and sets it again; the end of the 30 s; the callback |
| `GotPools` | `getPoolMap`: the groups that are active now get a pool |
| `GotEvents` | progress advanced (line 155), then events without a pool dropped (line 160) |
| `active`, `GroupChanges` | environment: the parity groups that are active, and an importer that changes that |
| `dataTo[s]`, `Window` | environment: how far the maintainer has data; the two days a run looks back |

The histories `sent`, `repeated`, `everSent`, `lost` (events a failed run gave up, or out of
the window), `unplaced` (events dropped for want of a pool) and `absent` (groups that have
been inactive at some time) serve the properties.  The order in which a run asks the systems
is left open.  A group is active when the query of `getPoolMap` returns it: its status is
ACTIVE and it hangs below a pool of a system.  Bounds: `Run`, `MaxTime`, `MaxFailures`,
`MaxCrashes`, `MaxChanges`.

### EntityTables and StorageEntity

`EntityTables` has the two tables as values (`table`: id to row; `closure`: pairs of
ancestor and descendant) and what the queries do to them: those written in
`storage-entity.service.ts` (`WithoutSubtree`, `CutOff`, `LinkSubtree`) and those TypeORM makes for
`@Tree('closure-table')` (`LinkNew`, `TreeOf`).  `ClosureOf` and `Acyclic` say what the
tables should be.

`StorageEntity` models the requests: `StorageEntityService`, the find-or-create of
`StorageEntityRepository`, the upsert of `SystemDetailsService`.

| TLA+ | code |
|---|---|
| `entity`, `closure`, `detailed` | `storage_entities`, `storage_entities_closure`, the ids in `storage_entity_details` |
| `lastId` | the sequence of the ids; it may reach its end |
| `req[r]` | a request: the await it waits at, what it has read, what it has still to do |
| `loose` | queries that nobody awaits: the two of `move`, the upsert of `duplicate` |
| `AskX` | arrival and first query of an operation |
| `Check`, `Insert`, `CommitCreated` | `create`; `duplicate` and find-or-create end in the same `Insert` |
| `FindPart`, `Down` | `findOrCreate`, part by part of the key |
| `ReadTree`, `UpdateStatus` | `updateStatus(ById)`, `updateStatusRecursively` |
| `FindDetail`, `SaveDetail`, `SaveRow` | `update` |
| `DeleteFind` ... `DeleteRow` | `delete`: the recursion is a stack of frames in `work` |
| `FindTarget`, `SaveMoved`, `CutRuns`, `LinkRuns` | `move` |
| `FindParent`, `CommitCopy`, `CommitChild`, `FindChildren` | `duplicate`, `duplicateChildren` |
| `Rejection`, `Crash` | the process ends, by an unhandled rejection or by itself |
| `stray` | history: a move failed, was interrupted, or one of its queries ran after its save |

The insertion of a new entity is two steps, because a deletion may run between
its reading of the closure table and its commit; until then it holds its ancestors
(`Held`).  Other saves touch one entity and are one step.  Foreign keys and primary
keys of the tables are guards (`Referenced`, `LinkConflicts`).  The database starts with
a datacenter and one system that has details: no operation of the code makes details
for an entity that has none.  Bounds: `MaxId`, `MaxCrashes`, the slots in `Request`.
A key has one or two parts; a slot takes a new request only when its loose queries have
run.

### MaintainerSession

The abstract specification of the connection: per system one session that is opened, lost
and given up, and the set of systems that are being updated.  `MaintainerConnection`
implements it (`ImplementsSession`): the session is the state of the registered websocket,
and a system is being updated when some call or retry timer of it is there.

### DeviceMap

Models `DeviceMapService` on the tables of `EntityTables`: `updateAllSystems`, the
subscription to `updated`, and `updateSystem` with one action per query.

| TLA+ | code |
|---|---|
| `entity`, `closure` | the tables; the row of a pool has its number (`serial_number`) |
| `report` | environment: pools with numbers and groups, port pairs, host groups of each maintainer |
| `call[c]` | a call of `updateSystem`: where it waits, what it has read and not done |
| `GetStatus`, `GetPoolInfo`, `GetChbInfo`, `GetHosts` | the requests to the maintainer; the failure of one is a `Crash`, since nobody handles it, but for the pairs |
| `PairsFail`, `GetChbInfo` | an error inside the `try` of lines 181-221, of the request or of a query for a pair, is caught: the call goes on with the host groups |
| `RetirePools`, `RetireGroups`, `RetireHosts` | the three `updateMany` that deactivate |
| `FindPart`, `Insert` | `fetchOrCreateByStorageEntityKey`, part by part |
| `Revive`, `PoolIds`, `FindGroup`, `Regroup` | a pool, and its parity groups, which may move |
| `moved`, `overlapped`, `quiet` | histories for the properties |

The numbers that the arrays give to pools are also ids of entities in the instance, since
`RetireGroups` looks for one by the other.  `DeviceMapAssumption` says what there is at
first: systems with different entities, below each of them pools with parity groups, adapter
groups with ports and host groups, each part once, and a closure table that is right.  A
report is a list of pools with their groups, of pairs with their ports, and of host
groups, with any names but the empty one.  Bounds: `MaxId`, `MaxCalls`, `MaxChanges`,
`MaxCrashes`, the slots in `Call`.

### TimeSeries

Models `TimeSeriesService`: the generation of the history (`Count`, `CreateHistory`,
`HistoryCollides`) and the fill-in (`AskStatus`, `FindExisting`, `GetData`, `Upsert`) of the
run at the start and of the timer.  A sum is kept as its day and the systems it is over.
Dates are integers; `Written` is the date that a local midnight has in a column of dates:
its own at Greenwich and the day before east of it.  West of Greenwich it is its own when it
is written and another when it is read; this is not modelled.  The handled systems of a run
are those loaded when it starts: all that can be reached, or all (nothing between).
Bounds: `FirstDay`, `LastDay`, `MaxIncidents`, one run of the timer at a time.

### MetricCollection

The v1 interface of importers, and the views, with concurrent requests.

| TLA+ | code |
|---|---|
| `entities`, `closure`, `rows`, `externals` | the tables; `rows` are the metric tables together, with the name of the table in a row |
| `view`, `refresh`, `waiting` | what the views show, the transaction that refreshes them, a refresh that waits for its lock |
| `Ask`, `Accepts` | a request comes in, and the pipe refuses unknown types and operations |
| `FindPart`, `Insert` | `fetchOrCreateByStorageEntityKey` |
| `Factory`, `FindRow`, `SaveRows` | the table of the metric and the criteria of the collector, the search of each item, the save of all |
| `Fetch`, `Delete`, `Create`, `SaveEntity` | `putExternals` |
| `AskRefresh`, `Refresh`, `Commit` | `refreshMaterializedViews`: five statements, each of which sees what is committed when it begins |
| `changeStatus` | the change of status by an importer, one step |
| `alone`, `raced` | histories: requests beside which no other ran, entities that two requests worked on |

`at` of a row stands for the date, for the span of an event of a parity group, or for
what a latency is counted for (date, operation, latency, block size).  Requests have keys as
`createComponentKey` makes them, and always a type and dates; a single collector is never
sent a latency.  Each scenario in `Seed` gives the tables to begin with and its
bounds: which requests come and how many (`asks`), what else may happen (`events`) and how
often (`incidents`).  At most one refresh waits.  `MetricCollectionAssumption` says that
the tables hang together at first, that a view shows one row of a metric, and that a request
has a key and, if it is of a single collector, dates.  The field `nulls` of `refresh` is
history: the slots without a value when a statement of the refresh read them.

### EntityQueries, DataCenterQueries, Statistics and InfrastructureReads

The read side, as operators on a record `w` of what a request sees.  `EntityQueries` has
the queries of `StorageEntityRepository` and the export.  `DataCenterQueries` has
`metric-type-map.ts` and `DataCenterService`: each group of metrics, from the view or, for
a system that is handled, from its maintainer.  `Statistics` has totals, alerts, lists of
pools with their order, and latencies.  An answer is `Fail` or a set of entities with
their metrics.

`InfrastructureReads` composes them with `MetricCollection`: in every state in which no
request and no refresh is under way (a crash leaves the states between), each reader of the
scenario asks, and the properties say what the answers promise.  A reader's record adds what
is not in the tables: the systems with a maintainer (`handled`), those whose
maintainer has told what it is (`known`), those that reject (`rejects`), and the
maintainers' answers.

Values are whole numbers, so that rounding to tenths changes nothing but the imbalances in MB,
which are counted in tenths (`preproc`); ties keep the order of ids;
peaks are left out.

### MC modules

`MCMaintainerConnection`, `MCMaintainerCache`, `MCMaintainerCacheReads`, `MCNotification`
and `MCStorageEntity` add the symmetry sets of the runs, the last one also the
constraint of `entity_move`: what follows a stray move is not explored.  `MCDeviceMap`,
`MCTimeSeries` and `MCStatistics` have the constants that are records: reports, days, and the
scenarios of importers and readers.

## 3. What TLC checks

| run | instance | shows |
|---|---|---|
| `connection` | 1 system, 3 calls, 3 websockets | `TypeOK`, `RegisteredIsListening`, `NeverForgotten`, `LoadedResolves`, `Reconnects`, `ImplementsSession` |
| `connection_timer` | 1 system | `TimerFindsEntry` is violated: *finding 1* |
| `cache_liveness` | 2 metrics, 2 calls, 2 samples | `CatchesUp` |
| `cache_reads` | 1 metric, 2 calls, 1 reader, 3 samples, 5 dates, 2 days, 2 variants, an incident | `LockHasOneOwner`, `FilesAgree`, `QuietReadsAreExact`, `RacingReadsHaveNoHoles` |
| `notification_single` | 2 systems with a parity group each, active or not, 1 run at a time, 2 failures, a crash | `ProgressAccounted`, `SavedAccounted`, `MailedOnce`, `NoRepeatOfSaved`, `EveryEventReported` |
| `notification_overlap` | 1 system, 2 parity groups, a change of one, 2 overlapping runs, a failure | `ProgressAccounted` |
| `entity_single` | 1 request at a time, 4 ids, 2 names, 2 types, a crash; all operations but update and move | `ClosureExact`, `SiblingsUnique`, `StatusReachesSubtree` |
| `entity_races` | 2 requests, 3 ids; create, find or create, update, delete | `ClosureSound`, `DeleteLeavesNothing`, `RequestsEnd` |
| `entity_move` | 1 request at a time, 5 ids, 2 names; create, move, duplicate | `MoveKeepsTree` |
| `device_map` | 2 systems, 2 calls at a time, a change of a report, a crash | `SystemTreeComplete`, `OneEntityPerName`, `QuietCallMirrors`, `OwnSystemOnly` |
| `time_series` | 2 systems, 2 metrics, a window of 2 days, 2 days, an incident | `OneRowPerDay`, `SumsAreWhole`, `WindowFilled` |
| `statistics` | 2 requests at a time, 14 scenarios of up to 3 requests and 3 incidents | `SlotsUnique`, `QuietRequestTakesEffect`, `ViewNeverGoesBack` of importers; `ExportsAgree`, `DataCentersAddUp`, `RegionsAddUp`, `AlertsResolve`, `PoolsAgree`, `LatencyCountedOnce` of readers |

Every module states its `TypeOK`.  That of the connection is checked and proved, those of the
notifications, time series, the device map and the importers are proved; those of the other
modules say what their variables hold.

`device_map` and `statistics` do not check for deadlock: calls and requests are counted, and
when the bound is reached nothing more happens.

*Why the bounds suffice.*  Two calls are enough for every pairwise race on an
entry, a lock or a file, and two websockets for an old one next to its successor;
the connection has three of each, for one system, since systems share nothing but
`loaded` and the process, and the proofs are about any number.
With blobs of two rows, the samples make full, partial and several blobs, and
ranges that cut a blob on either side, at a sample or between two.  An incident is enough to leave files behind at any
point of a rewriting; the two of `cache_liveness` allow a failure while recovering from
another.  In `notification_single` two points of time and a window
of one make events fall out of the window; a parity group is active or not all the time
there, and becomes active or inactive in `notification_overlap`, between the reading of the
pools and the answer with the events as well.  Four and five entities make a chain of three levels
below the datacenter, or siblings; one type is checked for duplicates everywhere
(`SYSTEM`) and one below its parent (`DKC`).  In `entity_races` three ids are enough for a
creation below an entity, and one next to it, while that entity is deleted, renamed or
looked for.  In `device_map` the second system has what the first may get, and the reports
of the first move a parity group, drop a pool and change its number; two calls make every
pairwise race.  In `time_series` a window of two days over two days has days that are over
and a day that is not, days that are filled, collected and open.  The scenarios of
`statistics` are one for each thing that can differ between two answers: who answers for a
system, what fails, which part of the tree or of the tables is stale, what is equal in
a sort; an importer and a change of status go over each, so that the properties are
asked of states that were not written down.

*Properties that need a condition.*  The code advances the progress of a system past events
that it then drops, because their parity group had no pool when the run began (lines 155 and 160
of `notification-service.ts`).  Nobody is told of them, also when the group becomes active
just after the pools were read.  `ProgressAccounted`, `SavedAccounted` and
`EveryEventReported` therefore except, besides what failed runs gave up, the events that were
dropped *and* whose group has been inactive (`GivenUp`): that an event is dropped is no excuse
where the group was active all the time.  `FilesAgree` and `CatchesUp` leave out the keys
in `tainted`: after a crash or a failed write in the middle of a rewriting, the old
summary describes files that are gone, and later prefetches may fail to read them
for ever or keep rows twice.  That is what the code does, and the properties say
that nothing else goes wrong.  `MailedOnce` and `SavedAccounted` need runs that do
not overlap; overlapping runs do mail twice and move `lastChecked` back, and only
`ProgressAccounted` is left, and that only without a crash: the faster of two runs saves
the progress of the slower one, whose events are then lost by a crash.  `RacingReadsHaveNoHoles` needs a constant day and
rows of the variants the summary names; otherwise a request may read blobs of another
generation.

`ClosureExact` needs requests one at a time.  A child whose insertion overlaps the
deletion of its parent stays in the closure table under a parent the table no longer
knows (the deletion is then refused by the foreign key), and `ClosureSound` is what is
left: nothing false, something may be missing.  `StatusReachesSubtree` excludes crashes
and overlap for the same reason.  `MoveKeepsTree` says that a move is right when its two
raw queries run before the save, which is likely and not guaranteed.  `SiblingsUnique`
leaves out `update`, which renames without a check, and `move`.

`QuietCallMirrors` of the device map holds for a call beside which nothing else runs, and names
two things that the code does not do: parity groups that are missing from a report are not
deactivated, and the groups below an entity whose id happens to be the number of a pool may
be (line 124 of `device-map.service.ts`).  `OneEntityPerName` leaves out the systems
that two calls have updated at once, `SlotsUnique` the entities that two requests worked on
at once: neither table has a key that would refuse the second.  `ViewNeverGoesBack` excepts
a later date that had no value when the refresh read it: an importer may set a value to null
and send it again before the refresh is committed, and the view then shows the earlier date
although the tables have the later one.  `SumsAreWhole` and
`WindowFilled` name what differs east of Greenwich.  `AlertsResolve`, `ExportsAgree` and
`DataCentersAddUp` need a closure table that is right, which moves and parity groups that
change their pool may spoil; `RegionsAddUp` and `LatencyCountedOnce` say when a request may
fail, and that nothing else fails it.  `PoolsAgree` leaves out orders by the reference id,
which one of the two forms does not know.

### Findings

1. *The announcement timer reads a deleted entry* (`connection_timer`).  An update
   succeeds and starts the 60 s timer; the websocket closes; the close handler
   deletes the entry (line 102) and leaves the timer; if the next update has not
   succeeded when it fires, `info.features` is read of `undefined` and the process
   dies.  The catch block of `updateMaintainerInfo` does clear it (line 123).

The modules have, as steps, more that the code does wrong.  No run states
them, and every property holds in their presence or names them as its condition:

* without a cache path, which is optional, `precache` returns early and the handler of
  `updated` does not: `join` throws outside of `try` and the process dies (`Rejected`);
* the guards of the entity service compare the answer of `findOne` with `undefined` where
  TypeORM 0.3.11 answers `null`: with an unknown parent `create` makes a root (`AskCreate`),
  elsewhere a property of `null` is read (`AskUnknown`, `DeleteFind`), and details are never
  made (`FindDetail`);
* two overlapping requests create the same entity twice;
* a move below the entity itself is refused only after its first raw query may have cut the
  subtree off, and the refusal of the second ends the process (`Rejection`);
* a duplicate fails at its first pool, since pools conflict with any pool of their name,
  and its upsert of details always ends the process (`CommitCopy`, `Rejection`);
* the device map deactivates parity groups by the wrong id (`RetireGroups`);
* the history is inserted beside a run of the timer, and a collision ends the process
  (`HistoryCollides`); the first fill-in does not wait for the maintainers (`Gathers`);
* saving externals writes back the status that was read before (`SaveEntity`);
* the latencies fail when no system has a maintainer, the totals when a pool has a saving
  effect and no capacity, and a filter with `==` always.

### Fairness

`MaintainerConnection`: every request ends (answered or refused), timers fire, a
handshake ends, a closed websocket reports it, and the service manager restarts
the process.  These are promises of Node.js and of the operating system; the code
sets no timeouts, so a peer that accepts a request and never answers is outside of
the model.  Nothing is assumed of the maintainers: `Reconnects` has their staying
reachable as its hypothesis.  Messages and `GoesDown`/`ComesUp` have no fairness.

`MaintainerCache`: every await ends, the process is restarted, and `updated` keeps
coming (the connection service announces every message of the maintainer).

`Notification`: requests and mails end, 30 s pass, time passes, and maintainers get new data
and announce it.  That the debounce timer fires is not assumed: each announcement puts it off.
One maintainer announces at most once in 60 s, but several that take turns within 30 s
can keep the timer from firing.  `EveryEventReported` has as its hypothesis that a timer which is
due again and again fires (strong fairness of `TimerFires`), that is, that the
announcements leave pauses.  Crashes and failures are bounded and not fair.

`StorageEntity`: the database answers every query (`Continue` of each request, the loose
queries).  Requests need not arrive.

`TimeSeries`: queries and requests end, and the timer fires again and again.
`WindowFilled` has as its hypothesis that the systems stay within reach.

`MaintainerSession`, `DeviceMap` and `MetricCollection` state safety only.

## 4. What is proved

Each theorem holds for every value of the constants that its module's named assumption
allows, where TLC's run shows it on one instance.  The assumptions
(`ConstantsAssumption`, `CacheAssumption`, `MarksAssumption`, `NotificationAssumption`,
`TimeSeriesAssumption`, `StorageEntityAssumption`, `DeviceMapAssumption`,
`MetricCollectionAssumption`) are evaluated
by TLC in every run of the module.  A theorem with more hypotheses than that names them,
and they are those of the runs that check the property.  The inductive invariants below
were model-checked on the instances of the runs before they were proved.

| theorem | property | hypotheses |
|---|---|---|
| *`MaintainerConnectionProofs`* | | |
| `TypeCorrect` | `TypeOK` | |
| `RegistrationCorrect` | `RegisteredIsListening` | |
| `NothingForgotten` | `NeverForgotten` | |
| `SessionRefined` | `ImplementsSession` | |
| *`MaintainerCacheProofs`* | | |
| `LockExcludes` | `LockHasOneOwner` | |
| `FilesTellTheTruth` | `FilesAgree` | |
| `QuietReadersAreRight` | `QuietReadsAreExact` | |
| `RacingReadersMissNothing` | `RacingReadsHaveNoHoles` | |
| *`NotificationProofs`* | | |
| `TypeCorrect` | `TypeOK` | |
| `OverlappingRunsAccount` | `ProgressAccounted` | no crashes |
| `SingleRunsAccount` | `ProgressAccounted` | runs do not overlap |
| `SavedIsAccounted` | `SavedAccounted` | runs do not overlap |
| `NothingMailedTwice` | `MailedOnce` | runs do not overlap |
| `SavedIsNotRepeated` | `NoRepeatOfSaved` | runs do not overlap |
| *`TimeSeriesProofs`* | | |
| `TypeCorrect` | `TypeOK` | |
| `NoDayTwice` | `OneRowPerDay` | `HistoryIsPast` |
| `NoSystemLeftOut` | `SumsAreWhole` | |
| *`DeviceMapProofs`* | | |
| `TypeCorrect` | `TypeOK` | |
| `TreeComplete` | `SystemTreeComplete` | |
| `OwnSystem` | `OwnSystemOnly` | |
| `OnePerName` | `OneEntityPerName` | |
| `QuietUpdatesMirror` | `QuietCallMirrors` | `ReportsApart` |
| *`StorageEntityProofs`* | | |
| `NothingLeft` | `DeleteLeavesNothing` | |
| `NoFalsePair` | `ClosureSound` | no moves |
| `ExactClosure` | `ClosureExact` | no moves, one request at a time |
| `UniqueSiblings` | `SiblingsUnique` | no moves or updates, one request at a time |
| `MovesKeepTheTree` | `MoveKeepsTree` | one request at a time |
| `StatusReachesAll` | `StatusReachesSubtree` | one request at a time |
| *`MetricCollectionProofs`* | | |
| `TypeCorrect` | `TypeOK` | |
| `OneRowPerSlot` | `SlotsUnique` | |
| `ViewsGoForward` | `ViewNeverGoesBack` | |
| `RequestsTakeEffect` | `QuietRequestTakesEffect` | |

### The connection

`RegisteredIsListening` is inductive relative to `TypeOK`: a new websocket is only made
when no entry is registered, so no websocket listens, and each action that ends the
listening of a websocket also removes the entry.  `NeverForgotten` is, too: an entry is only
removed by a step that leaves a call or a timer behind.  `SessionRefined` goes through the
actions once more: under the type invariant and `RegisteredIsListening` each is a step
of `MaintainerSession` or changes neither the session nor the set of systems
that are being updated.

### The cache

`LockHasOneOwner` alone is not inductive: after the process died a step of a call could go on
without the lock.  `IInv` adds that a call is always at one of the phases (`CallsStand`) and
that a dead process has no call (`DeadHoldsNothing`).  Most actions move one call within
the critical phases; lemmas on `Goto`, `Continue`, `Return` and `Die` cover them.

`FilesTellTheTruth` needs the lock and a second invariant, `FilesInv`.  Per metric: unless
a call rewrites it or a rewriting was interrupted, `Settled` says that its files hold one run of
rows.  Per call, `Sound` follows the replacement: what it has gathered is one run up to the
last sample it saw, the blobs below `next` hold its chunks, from the phase of the summary
on the map is theirs, so that the last step makes the files agree.  It is inductive only
together with `IInv`: a second call at the same metric would overwrite what the first has
written.  The two steps that need an argument about data are `Fetch`, where the rows read back
(`ReadIs`) and those requested from the sample after the last cached one are glued
(`RowsGlued`), and `FillBlob`.  `ReadIs` is by induction over the chunks: a part of the rows cut
at the ends of chunks is a run again (`PieceIs`, `PartsJoin`), and `WithinIs` by induction over
the rows of a chunk.  Induction is written out as the lemma `SameAlong` (two functions
that agree at the start and go on alike agree), which follows from the least counterexample
(`LeastNat`).  `Within` is a recursive function of the model rather than `SelectSeq`, whose
definition the provers cannot expand.  `MarksAssumption` says that the constants which stand for
a missing and for a torn file are no summaries, no sequences of rows and no maps of chunks.

A reader takes no lock, so neither theorem about it follows from `FilesAgree` at one state.
`QuietReadersAreRight`: `Exact` says of a request whose files have not changed (`Undisturbed`)
that the summary and the map it has read are those of the metric, and that the rows it has
gathered are what its range has in common with the chunks it has passed.  A chunk continues
the rows where the one before it ends (`PartGoesOn`); one that is not opened has none
(`NoneNeeded`).  The dates of the range are replaced by minutes once: `Meets` and
`MapMeets` say that the first and the last minute chosen for a range need the same chunks and
take the same rows of them as its dates, and `BoundsAre` and `BoundsMeet` that there
are such minutes, the rounded ones or those just inside of the range.

`RacingReadersMissNothing` is about a request that may have read the summary of one version of the
files, the map of a second and each blob of another.  Its argument is an order on the files
that no step of a replacement breaks while the range start stays: `InStep` says that the map of a
metric is never behind its summary, and no blob behind the map.  `NotOlder(k, h)` says that
everything a reader could come upon from now on, and everything the call at work will write,
goes up to sample `h` at least; once true it stays true (`FloorKept`), through each of the
eight steps of the replacement.  The order in which the code writes is what keeps it: the old
blobs are all gone before a new one is written (`Cleared`), blobs come before the map and
the map before the summary.  All versions of a day begin with the same sample and are cut
at the same places, so a blob newer than the map is the one the map tells of, or the last
one, grown (`ChunkEnds`, `GrownPiece`); what is read of it goes on where the rows before it end
(`ChunkJoins`).  `Mapped` keeps count of that chunk by chunk.  Rows of other variants
than the summary tells of are the exception the property names: they are real, and
`AlikeParts` carries its absence from the rows of the answer back to those gathered before.

### Notifications

Two inductive invariants.  `Accounts` is that of runs that overlap in a process that
does not die: a run asks for what comes after its start (`RangeAccounted`), holds nothing
before it has asked nor after it has saved (`HoldsNothing`), once its mail is accepted
what it holds has been mailed (`MailedBeforeSaved`), and its map has every group that was never
inactive (`MapKnown`), so that raising the progress skips nothing but events of groups that
were inactive.  `Kept` is that of runs one at a time: `Accounts`, and that file, memory and data are
in order (`ProgressInOrder`, `RunInOrder`), that what was mailed or is held is covered
(`SeenIsCovered`) and what is held before its mail was neither mailed nor saved (`HeldIsNew`).
With both a crash and with overlap `ProgressAccounted` is false: see section 3.

### Time series

`Inv` says that a row stands under the date its day is written as (`Dated`), that a run goes by
the systems that answered and has samples for all it no longer asks (`Whole`), and that a run
beside which no other ran knows the rows of its metric (`Alone`, `RowsKnown`); `SumsAreWhole`
follows for the step that writes.  `OneRowPerDay` also says that no row is of a
day to come, which needs that the collectors do not send metrics of days to come
(`HistoryIsPast`; `MCTimeSeries` satisfies it) and is inductive with `NoneToCome`.

### The device map

`Inv` has five parts: rows are typed, the parts of a system hang together as their types say
(`Arranged`), reports are typed, a call works on parts of its own system (`CallOK`:
`Searching` says what is left of its key and where it looks, `Placed` what its ids are), and
the closure table has from a system to its parts the pairs that the parents call for, and for
every entity but the moved groups the ancestors of its parent (`Linked`).  No part is
ever deleted, so what a call has found stays a part of its system whatever the other calls
do: that is why overlap does no harm to these properties.  `OnePerName` adds `OnceInv`: a
system that no two calls have met has one call (`OneAtATime`), and what that call has looked for
and not found is still missing when it inserts (`Missed`).

`QuietUpdatesMirror` is about a call that no other has met since it began.  `MirrorInv` says
that such a call is alone, and `Mirrors` says for each place where it can be how far the table
is as the report says: while it is at the pools, no active pool has a name that is not reported,
and each pool of the report is yet to come, is the one at hand, or is there with its
number and its groups (`PoolsGoOn`); at a pool the same of its parity groups (`GroupsGoOn`), and
later of the host groups (`HostsGoOn`).  `Proceeds` is that for the place where a step leads, and
there is a lemma for each kind of step.  What is done must survive what follows: `Spares` says
which rows a later pool leaves alone.  It fails where an array has a name for two pools,
where the last one would win, or a parity group in two of them, which would move to the last:
`ReportsApart` excludes both, and `MCDeviceMap` satisfies it.  The numbers and the groups need
`OnceInv` besides, since a pool that is there twice may be found as either, and that is
`once`; the lists of names do not.

### The entity tree

`EntityTablesProofs` has the lemmas on the tables that both services need: `Below` is the least
set that is closed under children (`BelowByParent`), and grows with the table
(`BelowKept`); the closure of the parents can be read pair by pair (`ClosureByPair`); a new leaf
that is linked to the ancestors of its parent keeps it (`LeafLinked`), and so does forgetting
the rows of a subtree (`SubtreeForgotten`).

`Inv` of `StorageEntityProofs` holds for any number of requests with any operations, crashes and
loose queries.  The foreign keys hold (`TablesOK`); a request is at a place of its
operation, a transaction that is not committed refers to rows that are there, and a deletion
has the entity it was asked for at the bottom of its stack (`RequestsOK`); two transactions have
different new ids, and nobody saves a row under one (`Apart`).  `NothingLeft` follows: the last
step of a deletion removes the row only if the tables do not refer to it.

`SoundInv` adds, without moves, that the pairs of an open transaction will be true
(`LinksSound`) and that an update writes back the parent the entity has (`ParentsStay`).  The
locks on the ancestors (`Held`) are what keeps the first: no ancestor is deleted before
the commit.  Deletions only remove leaves, so what is left is still true.

`ExactInv` adds, for one request at a time, that the closure is transitive and that an open
transaction has the very pairs that the table calls for.  A deletion that is cut off between
its steps leaves entities that the table does not know, and never one it knows in part.
`UniqueInv` adds that the row which is about to be inserted or committed has no twin
(`TwinFree`), which three reads establish: the check of `create`, and the two searches of
find-or-create.  The theorem shows that a parent that is null, a copy that begins with the check
and a search for systems that ignores the parent are no exceptions.

`MoveInv` is about requests one at a time that may be moves.  Between them the table is that of
a tree, in full (`KeptTree`: closed, transitive, every entity in it, no cycle).  A move starts from
such a table, `base`, and `Halfway` says what its queries have made of it: they may run in
either order, since what the second inserts is none of what the first deletes
(`CutAfterLink`), and the save repeats the work of both on a table from which its own deletion
removes all that they left (`CutOnce`), so that it always inserts into `CutOff(base)`.  There the
primary key decides: an insertion that is not refused means that the entity is not above
its new parent (`NotBelowItself`), and then the moved subtree makes a tree again
(`SubtreeMoved`).  A deletion takes entities whose children were deleted before them (`FramesCover`), so
that it forgets one leaf at a time (`LeafForgotten`).  The hypothesis of the property,
`~stray`, is what the code does not guarantee: a query that runs after the save.

`StatusReachesAll` rests on `MoveInv`: while a status request walks, the tables are those of a
tree in full, and then what `findDescendantsTree` returns, the entities that hang together among
the descendants that the closure table knows, is all that is below the entity by the parents
(`TreeIsBelow`).  `WalkInv` follows the walk: of the subtree, what has not got the status is still
to be done, and updates of the status leave the subtree what it is (`SameBelow`).  The
recursion does not matter to this, only that it ends when all is done.

### Importers and views

`Inv` of `MetricCollectionProofs` says that the tables hang together (`EntitiesOK`, `RowsOK`,
`ExternalsOK`), that a request is at a place of its collector and what it has found has the
slot it looked for (`CallOK`, `Found`), and that the views show rows of their own
tables that are still there, one of each metric (`RefreshOK`).  It rests on lemmas about
ids (`MaxIs`, `NewIdIs`) and on `CollectedIs`: a save changes rows that were found and adds
rows for items that found none.  `OneRowPerSlot` adds `SlotInv`: requests that work on one entity
have been noticed (`Races`), and what one of them has looked for and not found is
missing until it saves, if no other works on the entity (`Missed`).  `ViewsGoForward` adds
`NoneBack`, which is `ViewNeverGoesBack` of the rows that the refresh has taken so far: it
holds because the five statements read different tables, and slots are never removed.

`RequestsTakeEffect` is about a request that runs alone.  `Alone` says that no other is at work
beside it, and of its tables (`AsBegun`) that they still are those it began with: metrics are
only written by the last step, in one save.  Externals are written one by one, so there the
invariant counts along: until the deletion nothing has changed, and from then on the externals of
the entity are those made of the items that are done, one each (`Replacing`).  The last save of
the entity writes back the status it has read, which the entity still has as nobody else has touched
it, and then as many externals have a value as items do (`SameValues`).  The theorem needs
that ids are numbers up to some bound and that rows are records of their fields (`Recorded`), so
that writing back what was read is no change; both are assumed of the tables a scenario begins
with (`TablesBegin`) and kept by every step.

### Checked by TLC only

Liveness (`LoadedResolves`, `Reconnects`, `CatchesUp`, `EveryEventReported`, `RequestsEnd`,
`WindowFilled`) is out of this prover's reach.  The properties of the read side
(`ExportsAgree`, `DataCentersAddUp`, `RegionsAddUp`, `AlertsResolve`, `PoolsAgree`,
`LatencyCountedOnce`) compare results of folds over any tables, defined with operators of the community modules over sets
in an order they choose: what those return for every input needs the induction theorems
of the library, which take an operator, and no prover here instantiates those.

## 5. Not modelled

Wording of mails and logs, layout of answers, validation of requests beyond the pipes of
importers, rounding of anything but dates and imbalances, peaks of latencies, graphs, and the configuration are left out, and the contents
of the entry of a maintainer: answers of concurrent updates are applied in the order they
arrive, and nothing here compares them.  The cache's path of a miss forwards to the
maintainer.  The EMC controller and the VMware lookup have no state and no protocol.  The map of
front-end port modes of the compat controller is filled from the maintainers and only
labels what an answer shows.  Time is
never measured: that messages more often than once in 60 s keep the announcement from
being made, and that a maintainer that never answers keeps `loaded` from resolving, are
hazards without a property.  Components without a module are listed in `PROJECT.json` with
the reason.

## 6. Plan

Done: the connection with its refinement of `MaintainerSession`; the cache and its readers; the
notifications; the entity tree; the device map; time series; importers, views and
externals; the read side of the statistics.  Proved are the invariants and the action
properties of the connection, the notifications, time series, the device map, the entity
tree, the importers and the views, the step simulation of the session, and the lock, the files
and the readers of the cache.

Left:

1. Abstract specifications of the cache (one version per metric, without incidents) and of
   the notifications (at-least-once reporting).
2. Versions of the contents of a maintainer's entry.
