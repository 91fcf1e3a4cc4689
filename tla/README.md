# A TLA+ development for signoz-otel-collector

The modules here model the parts of the SigNoz OpenTelemetry collector that
have a life of their own: the process that starts, reloads and stops the
collector under the control of an OpAMP server, the schema migrator with every
migration it executes, the Kafka receiver, the tail sampling and span metrics
processors, and the exporters to ClickHouse. TLC checks them on small
instances; TLAPS proves all of their safety properties, except those about the
one given set of migrations, and three refinements, for every value of the
constants. `PROJECT.json` lists components, runs, mutants, the map from
definitions to source lines, findings, hazards and theorems.

Tools: `tlc -config <run>.cfg <module>` for a run, `tlapm <module>.tla` for the
proofs.

## 1. Inventory of the system

| Component | State | Operations | What is hard |
|---|---|---|---|
| Wrapped collector, `signozcol/collector.go` | `svc`, `mux`, `errChan`, `wg`; per service a goroutine of `svc.Run`, a polling goroutine and `colErrorChannel` | `Run`, `Shutdown`, `Restart`, `GetState`, `ErrorChan` | methods wait with the mutex held; bounded channels |
| OpAMP client and service, `opamp/`, `service/`, `main.go` | `isReloading`, `reloadMux`, `runningNopConfig`, `currentHash`, `initialConfigReceived`, the configuration file and its `.rollback` copy | `Start`, `Stop`, `reload`, the OpAMP callbacks, `ensureRunning`, `runInteractive` | three goroutines; failing file operations; roll-back |
| Schema migrator commands, `cmd/signozotelcollector/migrate/`, `schema_migrator/manager.go` | the table `distributed_schema_migrations_v2` | `sync up`, `async up`, `sync check`, `async check`, `bootstrap`, `ready` | several processes without a lock; crashes and retries; shards |
| Migrations and operations, `schema_migrator/*_migrations.go`, `operation_*.go` | the schema of ClickHouse: tables, columns, views | the statements of each migration | two lists that interleave; statements repeated after a crash |
| Tail sampler, `processor/signoztailsampler` | `idToTrace`, `deleteChan`, `numTracesOnMap`, the batches of the `idbatcher`, `TraceData` objects | `ConsumeTraces`, the tick, `dropTrace`, `Shutdown` | eviction races with callers and tick; late spans |
| Kafka receiver, `receiver/signozkafkareceiver` | session, claims, marks, pause state | `Start`, `ConsumeClaim`, `WithMemoryLimiter`, `Shutdown` | order of consume, mark and commit; rebalances |
| ClickHouse exporters of traces, logs, metrics and meter | statements in flight, caches of written rows, reduction rules, wait group, `closeChan` | push, pollers, `Shutdown` | caches filled before the statement is sent; closing while pushes run |
| Producers and consumer of a logs push | limiter, `recordStream`, errgroup | produce, consume, close, send | a channel closed by one goroutine and written by many; cancelled contexts |
| Usage collector, `usage/` | the view's data, reporter | record, report, `Stop` | order of flush, cancel and close |
| Span metrics processor | histograms of five families, label caches, tracked services and operations | consume, tick, `Shutdown` | LRU eviction against look-up; reset by temporality |
| Metadata exporter | key caches with limits, value tracker | push, expiry, counts | check-then-add by several goroutines; sets replaced under their users |
| Time bucketed set | buckets, spare buckets | `Plan`, `Apply` | a read lock that is given up in the middle |
| Meter connector | aggregation window | consume, flush, `Shutdown` | reset against concurrent consumers |
| System tables receiver | next scrape window | scrape | failures must neither skip nor repeat rows |
| Grok parser cache | keys, limiter counter | `get`, `add`, decay | counter at its limits |
| Others | - | - | stateless per request, libraries, generated code (see `components`) |

How they interact: `main` creates the wrapped collector and the service; the
service owns one client; the client calls the wrapped collector from the main
goroutine (`Start`, `Stop`), from the websocket goroutine of the OpAMP library
(callbacks, `reload`) and from `ensureRunning`. Receivers, processors and
exporters run inside the collector and meet only through `Consume...` calls.
The exporters insert into the tables the migrator makes; `sync check` is what
lets a collector of a release start. The migrator commands are processes of
their own that share only ClickHouse.

Properties that make the modelled components correct:

* lifecycle: at most one collector alive; what runs is what the file says; a
  failed configuration is retried; a dead collector is noticed; `Stop` ends and
  returns the collector's result; the made-up no-op configuration is hidden from
  the server;
* migrator: operations in order whatever fails; squashed before regular; a
  successful check is right; successful migrators leave finished rows; failures
  are repaired by running the commands again; no statement is ever refused; the
  schema fits the exporters' inserts at every moment and converges;
* tail sampler: memory bounded; no waiting trace forgotten; each span forwarded
  at most once; every waiting span meets its decision, and a trace that a
  policy rejects is not forwarded;
* Kafka receiver: nothing committed that was not consumed, no partition stuck,
  `Shutdown` ends;
* exporters: an acknowledged batch is stored; a sample has its series; only
  whole batches are sent; the connection outlives its users; usage is reported
  once; pushes and `Shutdown` end; what the metadata cache knows is written and
  the cache is bounded;
* span metrics: every span is reported, with delta temporality once; the number
  of series is bounded.

`hazards` in `PROJECT.json` lists the places where these can go wrong.

## 2. Modules

| Module | Models | Extends |
|---|---|---|
| `WrappedCollector` | `signozcol/collector.go`, as an open system: any caller, any order of calls, any rewriting of the file (`CollectorSpec`) | |
| `OpampService` | both clients, config manager, service, `runInteractive`, driving the actions of `WrappedCollector` (`Spec`) | `WrappedCollector` |
| `OrderedMigrations` | abstract: what the migrator commands promise | |
| `SchemaMigration` | the four up and check commands and the manager they use | instantiates `OrderedMigrations` |
| `Statements` | the operations of the migrator: statements, sync or async, and what ClickHouse does with them | |
| `MigrationLists` | every migration of the repository, as statements | `Statements` |
| `StoreSchema` | bootstrap, sync up and async up executing those lists | `MigrationLists` |
| `TailSampler` | processor, `idbatcher`, ticker | |
| `KafkaReceiver` | consume loop, sessions, claim handlers, memory limiter | |
| `AtomicPush` | abstract: what a push of the logs exporter promises | |
| `LogsPush` | the goroutines of one call of `pushToClickhouse` and the limiter calls share | |
| `MetricsBatch` | pure: the rows `prepareBatch` makes of a metric | |
| `ClickHouseExport` | the four exporters around their statements: caches, rules, usage, pollers, `Shutdown` | `MetricsBatch` |
| `SpanMetrics` | `signozspanmetricsprocessor` and its cache | |
| `MetadataExport` | `metadataexporter`, both key caches, value tracker | |
| `OpampServiceProofs` (with the theorems about `WrappedCollector`), `SchemaMigrationProofs`, `KafkaReceiverProofs`, `LogsPushProofs`, `ClickHouseExportProofs`, `TailSamplerProofs`, `MetadataExportProofs`, `SpanMetricsProofs` | inductive invariants and theorems | the module they are about, TLAPS; `LogsPushProofs` instantiates `AtomicPush` |
| `MC_...` | constants of the instances | the module they instantiate |

Three abstract specifications are implemented by detailed ones. `CollectorSpec` is
what `OpampService` implements: the clients reach the wrapped collector through
its methods only (theorem `ServiceImplementsCollector`; the mapping is the
identity on the shared variables). `OrderedMigrations` is what `SchemaMigration`
implements (`ImplementsOrdered`, checked by TLC and proved as
`MigratorIsOrdered`): one operation of a list at a time and in order, squashed lists first, a check passes only if all operations
were executed. The mapping keeps `legacy` and `applied` and takes for `passed`
the kinds of the checks that have answered "ok"; rows, positions, retries and
crashes are hidden. `AtomicPush` is what `LogsPush` implements (`PushIsAtomic`):
a push succeeds with its whole batch or fails, is called again only after a
failure, and has given all its slots back when it ends. The mapping keeps the
slots, takes a push for running from its call to its result, and what its
statements hold for what was acknowledged; producers, stream, consumer and
contexts are hidden.

### WrappedCollector

`call[p]` says where caller `p` is inside a method, `mux` who holds the mutex.
`RunStart` is `Run` from its lock to the wait on `colErrorChannel`; `RunReturn`
the rest. `ShutdownStart`/`ShutdownWait` and `ShutdownNil`/`ShutdownNilSend` are
the two branches of `Shutdown`, split where the code blocks. `Restart` is
`Shutdown` followed by `Run`, with the mutex free in between (`restarting`). An
instance is a record: state of the service, place of the `svc.Run` goroutine
(`g`) and of the polling goroutine (`poll`), their channel and `shutdownChan`.
`settingsOK` stands for `newOtelColSettings` and `NewCollector`, whose outcome
does not change during a process. What `otelcol.Collector` does (`Svc...`) is
external: it starts if the file is good, may fail to start, closes when told
to, may die, and returns with or without an error.

A configuration is a model value; `Garbage` is what a failed `WriteFile`, which
truncates first, may leave behind. A hash is represented by the contents it is
the hash of.

### OpampService

One process uses one of the clients: `ctxBound` tells them apart, because the
`simpleClient` gives `Run` the context that a signal cancels and the
`serverClient` gives it `context.Background()`. `main`, `watch` and `ws` are the
program counters of the three goroutines; `rl[p]` is where `main` or `ws` is
inside `reload`. `ensureRunning` reads the state and the flag in two steps, as
the code does. So does `GetEffectiveConfig`: `WsLoadFlag` loads
`runningNopConfig`, `WsReport` takes the override or reads the file, without
`reloadMux` and at a time of its own (`EffectiveConfig`). Writing the file is
one step. `OpampStop` may pass while a callback is in progress, because
`opampClient.Stop` gives up after five seconds. When `main` is `"done"` or
`"fatal"` the process is gone and nothing moves.

### SchemaMigration

A process is an up or a check of one kind, chosen initially. `cur`, `mi`, `oi`
are the list, migration and operation an up has come to, `left` the databases
that the range over the squashed map has still to visit, in any order.
`applied[m]` is what ClickHouse has executed, `row[m][s]` the status row of `m`
on shard `s`. Every query may fail, and a failed write may have taken effect.
The waits for mutations and for the DDL and distribution queues only delay an
operation or make it fail, so they are part of `OpFails`. `Retry` is the backoff
loop (its timeout may expire at any retry); `Crash` and `Rerun` are external:
the process ends, the job is run again.

Three facts about the migrations in the repository are assumptions. None mixes
sync and async operations, and `analytics` and `meter` have no async ones
(`KindAssumption`): the up commands rely on the first, `asyncCheck` on the
second. No two migrations of a database have the same id (`PlaceAssumption`): a
row is found by database and id. `KindsAssumption` and `IdsAssumption` of
`StoreSchema` have TLC confirm them on the real lists. A status row is visible on its shard as soon as the insert returns.

### Statements, MigrationLists, StoreSchema

A statement is a record: operation, table, and the columns it adds, drops, or
needs to exist. `MigrationLists` has one definition per migration, or per run
of small ones, with the migration's number in the name, and keeps the down
items, which no command executes. `IsMutation`, `IsIdempotent` and
`IsLightweight` are the methods of the operations; `IsSync` and `IsAsync` are
the manager's choice of the command. `CanExecute` and `Effect` are ClickHouse's:
external, they cover existence of tables and columns, what `IF [NOT] EXISTS`
forgives, and the columns a view, an index or a TTL needs.

In `StoreSchema`, a process (`sync`, `async`, and `legacy` for the migrations an
older installation has behind it) is at a statement of a migration of its list;
`Die` sends it back to the first statement of that migration, `Finish` is its
finished row. `bootstrap` runs before both, one statement at a time, and may
die as well. The order in which
`runSquashedMigrations` visits databases is fixed: `SquashedAssumption`,
evaluated on the lists, says that these touch only their own database. `sync up`
of a release is assumed to come to a migration's number before `async up` goes
beyond it (`SyncReached`, the order of the Makefile's target `migrator`);
without it an async migration may meet a table its sync list has yet to make.

### TailSampler

`Receive` .. `AppendSpan` are the steps of `processTraces` for the spans of one
trace, split at every channel operation and lock. `TickLoad` and `TickDecide`
are one iteration of `samplingPolicyOnTick`. A policy is its verdict per trace;
`Decide` is `makeDecision`. `PolicyGroups` is what `newTracesProcessor` loads,
with Go's `copy` modelled by what it does. `phase` follows `Shutdown`; the
goroutine of the ticker may take a pending tick after `StopCh` is closed.

### KafkaReceiver

`pc[p]` is where the handler of partition `p` is in `ConsumeClaim`; `marked`,
`paused` and `fetched` are what sarama keeps for the session, `committed` what
the broker keeps. `config` ranges over all combinations of `AutoCommit`,
`MessageMarking` and `InitialOffset`. A commit, the automatic one or that of a
handler, sends the marks of all partitions. `HighMemoryUsage` is the refusal
that makes `WithMemoryLimiter` pause all partitions and call again; `ConsumeOk`
resumes them. A rebalance, a handler that returns, a crash and `Shutdown` end
the session. The handlers of the three signals are the same code.

### LogsPush, MetricsBatch, ClickHouseExport

`LogsPush` splits `pushToClickhouse` at its channel operations: `Acquire` (the
loop takes a slot of the limiter and starts a producer), `Produce` (it sends to
`recordStream` and gives the slot back), `Receive`/`Append`/`ConsumerEnds`, the
goroutine that waits for the producers and closes the stream, `GroupWait`, and
what comes after it. `ctx` and `err` make `groupCtx`.

`MetricsBatch` has one operator per metric type, as `prepareBatch` has a method
per type, and the raw and reduced fingerprints of the rows. A fingerprint is
what it is the hash of.

`ClickHouseExport` has the exporter as a variable `kind`. A push enters (`closed`
is tested, `wg` counted), prepares, appends and sends its statements, in
parallel where the code does; `st[p][t]` is the state of a statement. `Shutdown`
is a sequence of steps of its own for each kind, in the order of the code.
`lost` is a ghost: rows in the cache whose statement failed.

### SpanMetrics

A histogram is the set of spans counted in it. `CacheAdd`, `CacheGet` and
`RemoveEvictedItems` are `internal/cache`, with its map of evicted items. Keys
and labels are built by the operators of the same names as the code's, with the
limits on services and operations. `AggregateMetrics` takes a span through the
five families in the order of the code, each of which may enter names that the
next one looks at. `LookUp` is what collecting the histograms of a family does
to its cache, for every order of Go's map iteration. `ExportMetrics` builds under the mutex and
resets by temporality; `Deliver` hands on.

### MetadataExport

A row is a pair of a resource and a value, in a window of six hours. Time is
relative: a window is the current one, an earlier one, or none (`Current`,
`Earlier`, `Never`), and `WindowTurns` begins the next. A push has the window of
its records, and `lost` holds for a pair the newest window whose row failed and
was not made up for.

`push[p].at` is where a push is: `Begin` (rows, filtered by the value tracker),
`CheckResources`, `AddUpEntry` and `CheckTotal` (the limits), then per resource
`FindNew`, `RLock` and `Lookup` (what is new), `FindEntry`, `MakeEntry`,
`AskLock`, `Lock`, `Test` and `Fill` (adding it), and last `Send`.

The cache in memory maps a resource to a set on a `heap`, which has the lock of
the set, and the code reaches the set through its item. `ttlcache`'s `Set` on a
key that exists replaces the value of the same item, and `entry.Value()` is
evaluated at each access: `entry = Attached` stands for the item that the cache
holds, and `Value(p)` is the set it holds at that moment. So a push may lock one
set, test another and fill a third; `UnlockOfUnlocked` and
`ConcurrentMapAccess` are how the process ends when that goes wrong, `Panic` is
the nil item of a key that has expired. An item that has expired keeps its set.
In Redis each command is one step, and the names of the keys, which contain the
window, are taken with the check of the limits.

`Configs` is a set of configurations: provider, signal, limits, records of each
push. `limits` has one record per signal, because the cache in memory tests
those of `traces` for all of them (`LimitSignal`). The counts that
`UpdateTagValueCount` reads are those of tables that other exporters fill, so
their comparison with the limit may turn out either way at each tick.

## 3. Runs

| Run | Result | States | Shows |
|---|---|---|---|
| `opamp_service` | pass | 2,345,151 | `OneServiceAlive`, `RunningMatchesFile`, `FailureIsRetried`, `SimpleStopReportsError`, `NopHidden`, types |
| `opamp_live` | pass | 106,635 | `DeathNoticed`, `RemoteHandled`, `SimpleServiceStops` |
| `migrator` | pass | 407,808 | `ImplementsOrdered` (refinement), `UpsMarkFinished`, `ChecksSucceed`, types |
| `store_schema` | pass | 215,213 | `NoStatementRefused`, `SchemaSound`, `WritersServed`, `Converges` on all migrations of the repository |
| `tail_sampler` | pass | 71,658 | `MapBounded`, `NoneForgotten`, `OnceUnlessRecreated`, `DecisionMade` |
| `tail_sampler_policies` | violated | - | `RejectedIsDropped`: a span of a trace that a configured policy rejects is forwarded |
| `kafka_receiver` | pass | 158,561 | `NothingSkipped`, `SkipsOnlyBeforeFirstCommit`, `PartitionAdvances`, `ShutdownEnds` |
| `logs_push` | pass | 188,488 | `StreamOutlivesProducers`, `WholeBatchSent`, `PushEndsUnlessFault` |
| `logs_push_hangs` | violated | - | `ErrorEndsPush`: an error does not end a push whose producers wait to send |
| `exporters` | pass | 103,345 | `AckedIsStored`, `SamplesHaveSeries`, `ConnectionOutlivesUsers`, `UsageReported`, `ShutdownCompletes` |
| `span_metrics` | pass | 47,364 | `MetricsAreBuilt`, `ReportedOnce`, `SeriesAreBounded`, `CountedIsReported` |
| `metadata` | pass | 504,983 | `KnownIsWritten`, `CacheIsBounded`, `LostIsWritten` |

The two violated properties state what comments, documentation and a test of the
repository say; `findings` quotes them. Each property of a passing run has a mutant, an operator marked `Mutant:`
that changes one definition as a plausible bug would and under which TLC finds
the property violated.

### Bounds

* Lifecycle: one good and one bad remote configuration besides the initial,
  no-op and garbage contents; two remote messages (one in the liveness run), so
  that a reload follows a reload, a failed one and the no-op one; each reload
  starts at most two services (restart and roll-back), so `MaxStarts = 2 *
  (MaxRemote + 1)` never cuts a behaviour off (`ServiceAssumption`); one
  failing file operation or OpAMP call.
* Migrator: a squashed and two regular sync migrations, one of them with two
  operations, and an async migration in a later database: enough for a
  predecessor, a partly executed migration and an early return; two migrators
  and one check of any kind; one failure or crash, so that a migrator fails
  between its operation and its row while its rival goes on. Legacy tables exist
  for none or all of the squashed databases.
* Schema: no bound. The lists are the real ones, each process may die after any
  statement as often as it likes, on a fresh installation and on one with all
  legacy migrations behind it.
* Tail sampler: capacity one everywhere, two callers and two traces, so that
  every channel is full at some time, callers compete for an eviction, and a
  trace is evicted and created again (`MaxObjects = 3`). Spans that find no
  object left stay unreceived.
* Kafka receiver: two partitions with two messages and one, because a commit of
  one handler sends the marks of the other; a message that cannot be
  unmarshalled; two refusals, so that two handlers pause at once; one error and
  one rebalance, crash or shutdown. All twelve settings.
* Logs push: two pushes of three records against a limiter and a stream of two,
  so that both fill up and the pushes wait for each other's slots; one fault
  and one retry. In `logs_push_hangs` one push of four records, the least that
  blocks a producer after the consumer has ended.
* Exporters: each of the four kinds; two pushes with the same rows and three
  calls, so that one is repeated while the other finds its cached rows; one
  failing statement, expiry or change of rules; a metric of each of the five
  types, a histogram with two points of which only the second has a maximum, a
  gauge with a point from before the rule, a shortened label set, an
  unshortened one, and a NaN.
* Span metrics: three spans, each one of eight kinds (two services, two
  operations, no service, database and HTTP calls, a stale span, an excluded
  one), with room for one key, service and operation.
* Metadata: two pushes of one to three records, for ever repeated, in six
  configurations: both providers, with ample limits and with limits of one; one
  resource with a value each, so that both pushes make the item; an item with
  more values than the limit beside a second one; a resource that both have and
  one that only the first has; an attribute whose values are counted. Two pushes
  are enough for one to replace the set under the other. With three, one may
  wait for ever for the lock of a set that was replaced while locked; the
  safety properties are proved for any number.

Deadlock is not checked: every modelled system may come to rest (the process
exits or hangs, the commands end, no span or message arrives any more). Whether
it should have gone on is what the liveness properties say.

### Fairness

* Lifecycle: weak fairness of each goroutine; strong fairness of a caller that
  waits for `wCol.mux`, since Go's mutex hands itself over to a starving waiter;
  weak fairness of the collector library's starting, closing and returning.
  Signals, remote messages, faults and deaths need not happen.
* Migrator: weak fairness of each process, of its retries and of the job being
  run again; nothing for faults, which are bounded.
* Tail sampler: weak fairness of the batcher's goroutine and of the ticks,
  strong fairness of a caller (Go serves blocked senders and receivers of a
  channel in order). Spans need not arrive, `Shutdown` need not be called.
* Kafka receiver: weak fairness of the consume loop, the handlers, the
  automatic commit and a restart of the collector. Messages, rebalances,
  refusals and errors need not come, and the latter are bounded.
* Logs push: weak fairness of every goroutine, strong fairness of a push that
  waits for a slot (a channel serves its blocked senders in order).
* Exporters: weak fairness of a push that has begun, of the pollers and the
  reporter noticing that they should end, and of a `Shutdown` that was called.
  A logs push may stop for ever (`Hang`, what `logs_push_hangs` shows).
* Span metrics: weak fairness of the ticker until it is stopped, of the
  goroutine and of delivery.
* Metadata: weak fairness of the pushes, which repeat their records, since
  telemetry with the same attributes keeps arriving, of expiry and of the turn
  of the window. Failing commands, counts and concurrent access being noticed
  need not happen.

### Restrictions the properties state

`SimpleStopReportsError` and `SimpleServiceStops` are about the simple client;
with the OpAMP client a nil left in `errChan` by an earlier restart may be what
`Stop` returns. `RemoteHandled` excepts a process whose settings cannot be
built: the roll-back's second `Shutdown` then blocks on the full `errChan`.
`RunningMatchesFile` excepts the file a failed write has left unusable.
`NopHidden` excepts a report that loaded the flag before `Start` set it. In
`OrderedMigrations` squashed lists come first only on installations without
legacy tables. `UpsMarkFinished` is checked on one shard. `PushEndsUnlessFault`
is about pushes without an error. `AckedIsStored` and `SamplesHaveSeries` except
rows that the cache holds for a statement that failed. `ShutdownCompletes`
excepts a logs push that hangs. `UsageReported` is
claimed for traces and logs. `CountedIsReported` holds while the processor runs.
`KnownIsWritten` speaks of a row of some window. `CacheIsBounded` is about the
cache in memory, and its bound on values is the limit times the pushes, for the
reason given below. `LostIsWritten` promises a row of the pair, in general of a
later window, and excepts caches that have reached a limit, values skipped
because the database has too many, and a process that has ended. In
`MetadataExport` telemetry has time stamps of the current window, a push takes
less than a window, and a count that Redis does not answer drops the push as a
limit that is reached does.

### What the models show beside the properties

Behaviours of the code that the models reach and that the properties therefore
except. The first two have runs and findings of their own; the others can be
seen by checking the stronger property on the same module.

* `clickhouselogsexporter/exporter.go:669`: a producer sends without looking at
  `groupCtx`; after an error it may wait for ever and keep slots that all
  pushes share (`logs_push_hangs`). `Shutdown` of the logs exporter then waits for
  ever as well (`exporter.go:410`).
* `signoztailsampler/processor.go:90`: `copy` into an empty slice loads no
  policies, so that no trace is ever dropped by one (`tail_sampler_policies`).
* `signozcol/collector.go:154`: with the OpAMP client a `Stop` between the two
  halves of a reload's `Restart` blocks on the full `errChan` with the mutex
  held.
* `opamp/server_client.go:189`: a remote configuration handled before `Start`
  applies the no-op one is overwritten by it while its hash stays, so that the
  server's next message with the same configuration is ignored.
* `opamp/server_client.go:152`: a report that has loaded `runningNopConfig` just
  before `Start` sets it and reloads (lines 188 and 189) reads the file after
  that and reports the no-op configuration.
* `opamp/client.go:57`: `ensureRunning` reads state and flag one after the
  other and may report a collector dead that a reload has just revived.
* `sync_up.go:209`: a migration is repeated whatever its operations'
  `IsIdempotent` says.
* `manager.go:1165`: with two shards a failed row on one survives a finished row
  on the other, and the check goes on failing.
* `runSquashedMigrations` skips the squashed migrations of all databases as soon
  as one of them has legacy tables.
* `signoztailsampler/processor.go:158`: a trace that is evicted, created again
  and decided again is forwarded again.
* Traces, logs and metrics exporters put rows in their caches before the
  statement is sent. When it fails, the retry leaves them out, until the cache
  forgets them. The traces exporter also records usage of a failed write.
* The metrics exporter's `Shutdown` stops the usage collector before it waits
  for pushes; the traces exporter's pollers are not counted in the wait group,
  so that one may still query while the connection is closed.
* A logs push that ClickHouse refuses with code 252 is dropped and acknowledged.
* Span metrics: there is no last build at `Shutdown`; what is counted when a
  later consumer refuses the batch is counted again on the retry; with delta
  temporality what cannot be delivered is lost; the test with `>` lets in one
  service more than the limit.
* Metadata: the pre-checks of the cache in memory use the cache and limits of
  traces for all signals; the total is summed over keys that may have expired
  since they were listed, and a nil entry panics (`inmemory.go:193`); rows that
  `Add` refuses are written by every push again. Two pushes that both make the
  item of a resource (`inmemory.go:131`) work on sets that change under them: a
  set may exceed its limit, although the comment at `inmemory.go:126` says
  "respecting capacity", and the process may end because a mutex that is not
  locked is unlocked (`inmemory.go:147`) or a map is accessed concurrently. The
  rows of a failed statement are not tried again: what is written once the item
  has expired belongs to a later window, and the window of the failure keeps its
  hole.

## 4. Proofs

Every theorem is of the form `Spec => []P` (or an action property, or a
refinement) and holds for every value of the constants that satisfies the
module's assumption: any number of callers, pushes, workers, partitions,
processes, shards, records, limits and faults. Each rests on an inductive
invariant, which TLC checked on the run of its module before it was proved. A
proof has one lemma or step per action, and lemmas for what the steps have in
common.

| Theorem | States |
|---|---|
| `CollectorInvariant`, `OneServiceAliveTheorem` | at most one collector alive, whoever calls the wrapper |
| `ServiceImplementsCollector`, `ServiceOneAlive`, `ServiceTypeOK` | the service uses the wrapper through its methods only; types |
| `RunningMatchesFileTheorem`, `FailureIsRetriedTheorem`, `NopHiddenTheorem`, `SimpleStopReportsErrorTheorem` | the safety properties of `OpampService` |
| `MigratorInvariant`, `MigratorTypes`, `MigratorIsOrdered`, `UpsMarkFinishedTheorem` | types; `SchemaMigration` implements `OrderedMigrations`; on one shard all migrations end marked |
| `ReceiverInvariant`, `NothingSkippedTheorem`, `SkipsOnlyBeforeFirstCommitTheorem`, `CommitsAdvanceTheorem` | no commit passes an unconsumed message; with any settings commits never go back |
| `LogsPushInvariant`, `StreamOutlivesProducersTheorem`, `WholeBatchSentTheorem`, `PushIsAtomic` | no send to a closed stream; only whole batches are sent; `LogsPush` implements `AtomicPush` |
| `ExportInvariant`, `AckedIsStoredTheorem`, `SamplesHaveSeriesTheorem`, `ConnectionOutlivesUsersTheorem`, `UsageReportedTheorem` | the safety properties of `ClickHouseExport` |
| `SamplerInvariant`, `MapBoundedTheorem`, `NoneForgottenTheorem`, `OnceUnlessRecreatedTheorem`, `NoSpanLostTheorem` | the safety properties of `TailSampler`; no span falls between a caller and the tick |
| `MetadataInvariant`, `KnownIsWrittenTheorem`, `CacheIsBoundedTheorem` | the safety properties of `MetadataExport` |
| `SpanMetricsInvariant`, `MetricsAreBuiltTheorem`, `ReportedOnceTheorem`, `SeriesAreBoundedTheorem`, `SeriesOnlyGrowTheorem` | the safety properties of `SpanMetrics`; no series loses a span |

The inductive invariants, and why each is needed:

* `CollectorInv`. A second service could be started if `svc` were nil while an
  earlier one lives. It adds `NoOrphan` (a live service is the one in `svc`),
  for which `Shutdown` must still have its service when its wait ends
  (`WaiterHasService`), for which nobody else may clear `svc` meanwhile
  (`MuxHeldByWaiter`). Every step of `OpampService` is a step of `CollectorNext`
  or leaves the collector's variables alone, so it holds of the service too.
  The proofs about the wrapper use `CollectorAssumption` alone.
* `FileInv`, `RetryInv`, `NopInv`, `SimpleInv` for the service. What runs may
  differ from the file only between a reload's write and the end of its
  `Shutdown` (`Changing`); a new instance reads the file when it is started,
  also while a rival reload is under way. While a message is handled the hash
  is not that of its configuration. Nothing is the no-op configuration, neither
  the file nor its copy nor the argument of a reload, unless the flag that
  hides it is set; what a report reads follows only if the flag is still as
  it was loaded. With the simple client only the main goroutine calls `Run`
  and `Shutdown`, each once, so that the only value ever in `errChan` is the
  collector's own.
* `MigratorInv`. A finished row on any shard must mean more than it says: not
  only that its migration was executed but also every earlier one of its kind in
  the list (`RowMeans`), because a check looks at the last migration alone and
  an up skips what is finished. `WorkInv` and `SquashedInv` say the same of a
  position in a list, `CheckInv` of the databases a check has passed. The
  refinement follows step by step: an operation is executed in the abstract
  order because all before it were. For `UpsMarkFinished`, `MarkedInv`: an
  unmarked migration has a migrator of its kind that will still come to it. With
  two shards that fails (section 3), hence the hypothesis `Shards = {s}`.
* `ReceiverInv`. `MarkInv` places the mark relative to the message the handler
  holds; `AccountInv` says that everything below the mark, and from the commit
  up to the mark, was consumed or given up. The second is needed since a commit
  by any handler sends the marks of all. `CommitsAdvance` is about all settings
  and needs only the order of the offsets of a partition: committed, marked,
  taken, fetched, produced (`CommitInv`).
* `LogsPushInv`. `RecordsInv` follows each record from producer to stream to
  consumer to statement; `ConsumerInv` says that a consumer that ends without an
  error has emptied a closed stream. Together they give the whole batch when the
  group returns no error, which is also what a success of `AtomicPush` needs.
* `ExportInv`. `CacheInv`: a cached row is stored, lost, or in a statement in
  flight. It is what lets a push leave the row out, and it must survive that
  statement's success, failure and the expiry of the row. `StageInv` says which
  statements an acknowledged push has sent, `DownInv` what each step of
  `Shutdown` has brought about, `UsageInv` what is recorded and reported.
  `SamplesHaveSeries` needs in addition that `prepareBatch` makes a series row
  for each fingerprint it puts in a sample (lemmas on `MetricsBatch`).
* `SamplerInv`. `MapBounded` needs `TokenInv`: each entry of the map has exactly
  one token, its place in `deleteChan`, the caller that has just made it, or the
  one that is about to drop it; `numTracesOnMap` and the callers that have not
  yet counted add up to the entries. `NoneForgotten` needs `ScheduledInv`, which
  says that the tick will find the object that is on the map, not an older one
  of the same trace. `OnceUnlessRecreated` needs `WaitsInv` (without twins a
  trace waits at one place and only until its decision) and `SpansInv`.
  `NoSpanLost` is inductive beside it.
* `MetadataInv`. `KnownIsWritten` is inductive once sets are known to belong to
  one resource (`OneOwner`) and what a push adds to be in its statement. For the
  values of a set, its size is not enough, since pushes past the test add without
  another look: `AttrsBounded` counts the set together with what those pushes
  will still add to its item (`Pending`). Each of them adds at most the limit,
  so that a set replaced by an empty one has room for all (`PendingBound`), and
  a push that passes the test keeps the sum within the limit times the pushes.
  For the resources, the cached ones and the pushes about to make one are
  bounded together (`ResourcesBounded`).
* `SpanMetricsInv`. `FamilyInv`: a histogram and its labels come and go together,
  the labels being in the cache or among the evicted items, and the cache is
  within its size; so a look-up never fails and changes the order of the keys
  only, however many there are and in whichever order they come. That is an
  induction over the number of look-ups, done with the least look-up that would
  break it (`Least`, from the well-foundedness of the numbers) and a proof that
  the recursive function of `LookUp` exists. `NamesInv`: the limit is tested
  before a service is entered for the key and after it for the labels, so that a
  service in some label was entered while there were at most `MaxServices`;
  beyond that only the common name is added. `CountedInv` numbers the spans
  without a gap, so that the one counted next is new in every family, and a
  series it enters does not become a reported one (`FamilySpans`).

The assumptions are those a reader of the code would grant: counts and limits
are natural numbers; the sets of pushes, resources and values are finite; contents
tell configurations apart (`ServiceAssumption`); a migration has one place
(`PlaceAssumption`); points form a sequence (`ExportAssumption`). TLC evaluates
them on each run.

A proof attempt corrected the model once: `firstSeen` of a reduced series only
looks at points that have a sample of its suffix (a histogram's first point may
have no maximum), which `ReducedSeries` had left out; `SamplesHaveSeries` could
not be proved, and the `exporters` run now has such a histogram.

Only model-checked:

* the liveness properties, as fairness and `ENABLED` are out of the prover's
  reach;
* `NoStatementRefused`, `SchemaSound`, `WritersServed` and `Converges` of
  `StoreSchema`: they are about one given set of lists, on which TLC is
  complete.

No module declares a `RECURSIVE` operator.

## 5. Not modelled

* Parts of modelled components: the command `ready`, which only waits; the entry
  points of `manager.go` that the commands do not call; types, codecs, engines
  and index definitions of the migrations; how spans, records and points become
  the values of a row; the filters and samplers behind a tail sampling policy;
  the walk of `jsonMetadataWriter` over log bodies; which windows the usage
  reporter writes; bucket boundaries and sums of the span metrics; HyperLogLog
  (counts in Redis are exact in the model); authentication, unmarshalling,
  telemetry and logging.
* Components with state that are left to the plan: time bucketed set, meter
  connector, system tables receiver, grok cache.
* Components without order of steps to get wrong: Kafka exporter, HTTP log and
  Firehose receivers, logs pipeline processor, tag de-duplication, shared
  component, health check, registry, generated code.

## 6. Plan

1. `TimeBucketedSet`: `Plan` and `Apply` by several goroutines with eviction;
   an id marked in a live bucket stays known.
2. Scrape windows of the system tables receiver, the meter connector's window,
   the grok cache's limiter.
3. An abstract specification of the tail sampler (a span is waiting, forwarded
   or dropped).
