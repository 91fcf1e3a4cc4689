---------------------------- MODULE StoreSchema ----------------------------
(***************************************************************************)
(* The schema of ClickHouse while the migrator changes it: "bootstrap",     *)
(* "sync up" and "async up" execute the statements of MigrationLists, each  *)
(* a process that may die after any of them and is then started again.      *)
(*                                                                         *)
(* How a command finds its way through the migrations is in SchemaMigration. *)
(* Here a migration whose statements were not all executed, or that died    *)
(* before its row said "finished", is executed again from its first         *)
(* statement, and one that is finished is not executed again.               *)
(***************************************************************************)
EXTENDS MigrationLists

CONSTANT
    LegacySets  \* which lists a legacy installation may have behind it

Lists ==
    [SquashedTraces |-> SquashedTracesMigrations,
     SquashedMetrics |-> SquashedMetricsMigrations,
     CustomRetentionLogs |-> CustomRetentionLogsMigrations,
     SquashedLogs |-> SquashedLogsMigrations,
     traces |-> TracesMigrations, logs |-> LogsMigrations, metrics |-> MetricsMigrations,
     metadata |-> MetadataMigrations, analytics |-> AnalyticsMigrations,
     meter |-> MeterMigrations]

\* The lists of runSquashedMigrations, and those that stand for the legacy
\* migrations of an older installation: for logs from before the custom
\* retention.
Squashed == {"SquashedTraces", "SquashedMetrics", "CustomRetentionLogs"}
Legacy == {"SquashedTraces", "SquashedMetrics", "SquashedLogs"}

\* runSquashedMigrations, then the order of the databases.
Order ==
    <<"SquashedLogs", "CustomRetentionLogs", "SquashedMetrics", "SquashedTraces",
      "traces", "logs", "metrics", "metadata", "analytics", "meter">>

DatabaseOf(l) ==
    CASE l \in {"SquashedTraces", "traces"} -> "signoz_traces"
      [] l \in {"CustomRetentionLogs", "SquashedLogs", "logs"} -> "signoz_logs"
      [] l \in {"SquashedMetrics", "metrics"} -> "signoz_metrics"
      [] l = "metadata" -> "signoz_metadata"
      [] l = "analytics" -> "signoz_analytics"
      [] l = "meter" -> "signoz_meter"

ASSUME StoreAssumption == LegacySets \subseteq SUBSET Legacy

\* runSquashedMigrations ranges over a map, in any order.  The statements of a
\* squashed list name only tables of the list's own database, so that the order
\* of these lists makes no difference; Order is one of them.
Tables(s) ==
    {s.t} \cup (CASE s.op = "CreateView" -> {s.view.src, s.view.dest}
                  [] s.op = "CreateDistributed" -> {s.local}
                  [] s.op = "ModifyQuery" -> {s.src}
                  [] OTHER -> {})
ASSUME SquashedAssumption ==
    \A l \in Squashed : \A i \in 1 .. Len(Lists[l]) : \A j \in 1 .. Len(Lists[l][i].up) :
        \A t \in Tables(Lists[l][i].up[j]) : t[1] = DatabaseOf(l)

Kinds == {"sync", "async"}
Procs == Kinds \cup {"legacy"}

\* Mutant: mutations are not asynchronous.
IsAsync_HeavyOnly(m) ==
    \E i \in 1 .. Len(m.up) : IsAsyncOperation(m.up[i]) /\ ~IsLightweight(m.up[i])

\* IsSync, IsAsync.
IsSync(m) == \E i \in 1 .. Len(m.up) : IsSyncOperation(m.up[i])
IsAsync(m) == \E i \in 1 .. Len(m.up) : IsAsyncOperation(m.up[i])
IsOfKind(m, p) == (p = "sync" => IsSync(m)) /\ (p = "async" => IsAsync(m))

\* No migration is of both kinds, and analytics and meter have none for "async
\* up": the commands rely on it (KindAssumption of SchemaMigration).
ASSUME KindsAssumption ==
    /\ \A l \in DOMAIN Lists : \A i \in 1 .. Len(Lists[l]) :
         ~(IsSync(Lists[l][i]) /\ IsAsync(Lists[l][i]))
    /\ \A l \in {"analytics", "meter"} : \A i \in 1 .. Len(Lists[l]) : ~IsAsync(Lists[l][i])

\* Within a database no two migrations of the lists that the commands go through
\* have the same id: a row of the migrations table is found by database and id
\* (PlaceAssumption of SchemaMigration).
ASSUME IdsAssumption ==
    LET lists == DOMAIN Lists \ (Legacy \ Squashed) IN
    \A l1, l2 \in lists : DatabaseOf(l1) = DatabaseOf(l2) =>
        \A i \in 1 .. Len(Lists[l1]) : \A j \in 1 .. Len(Lists[l2]) :
            Lists[l1][i].id = Lists[l2][j].id => l1 = l2 /\ i = j

\* The migrations of a list that a process executes, in order.
Steps ==
    [p \in Procs |-> [l \in DOMAIN Lists |-> SelectSeq(Lists[l], LAMBDA m : IsOfKind(m, p))]]

-----------------------------------------------------------------------------
(* Bootstrap *)

V2MigrationTableColumns == {"migration_id", "status", "error", "created_at", "updated_at"}

V2MigrationTables(db) ==
    LET local == <<db, "schema_migrations_v2">>
    IN     CreateTable(local, V2MigrationTableColumns)
        \o CreateDistributed(<<db, "distributed_schema_migrations_v2">>, local,
               V2MigrationTableColumns)

Databases ==
    {"signoz_traces", "signoz_metrics", "signoz_logs", "signoz_metadata", "signoz_analytics",
     "signoz_meter"}

BootstrapStatements ==
       V2MigrationTables("signoz_logs") \o V2MigrationTables("signoz_metrics")
    \o V2MigrationTables("signoz_traces") \o V2MigrationTables("signoz_metadata")
    \o V2MigrationTables("signoz_analytics") \o V2MigrationTables("signoz_meter")

-----------------------------------------------------------------------------
(* What the exporters insert, and the list that makes its table: the columns
   they name ... *)

LogsNamed ==
    {[l |-> "logs", t |-> Logs("distributed_logs_v2_resource"),
      cols |-> {"labels", "fingerprint", "seen_at_ts_bucket_start"}],
     [l |-> "logs", t |-> Logs("distributed_logs_v2"),
      cols |-> {"ts_bucket_start", "resource_fingerprint", "timestamp", "observed_timestamp",
                "id", "trace_id", "span_id", "trace_flags", "severity_text",
                "severity_number", "body", "body_v2", "body_promoted", "attributes_string",
                "attributes_number", "attributes_bool", "resources_string", "resource",
                "scope_name", "scope_version", "scope_string", "inserted_at"}]}

TracesNamed ==
    {[l |-> "traces", t |-> Traces("distributed_signoz_index_v3"),
      cols |-> {"ts_bucket_start", "resource_fingerprint", "timestamp", "trace_id", "span_id",
                "trace_state", "parent_span_id", "flags", "name", "kind", "kind_string",
                "duration_nano", "status_code", "status_message", "status_code_string",
                "attributes_string", "attributes_number", "attributes_bool", "attributes",
                "attributes_promoted", "resources_string", "resource", "scope", "events",
                "links", "response_status_code", "external_http_url", "http_url",
                "external_http_method", "http_method", "http_host", "db_name", "db_operation",
                "has_error", "is_remote", "inserted_at"}]}

MetricsNamed ==
    {[l |-> "metrics", t |-> Metrics("distributed_samples_v4"),
      cols |-> {"env", "temporality", "metric_name", "fingerprint", "unix_milli", "value",
                "flags", "inserted_at_unix_milli"}],
     [l |-> "metrics", t |-> Metrics("distributed_time_series_v4"),
      cols |-> {"env", "temporality", "metric_name", "description", "unit", "type",
                "is_monotonic", "fingerprint", "unix_milli", "labels", "attrs", "scope_attrs",
                "resource_attrs", "__normalized", "inserted_at_unix_milli"}],
     [l |-> "metrics", t |-> Metrics("distributed_exp_hist"),
      cols |-> {"env", "temporality", "metric_name", "fingerprint", "unix_milli", "count",
                "sum", "min", "max", "sketch", "flags", "inserted_at_unix_milli"}],
     [l |-> "metrics", t |-> Metrics("distributed_metadata"),
      cols |-> {"temporality", "metric_name", "description", "unit", "type", "is_monotonic",
                "attr_name", "attr_type", "attr_datatype", "attr_string_value",
                "first_reported_unix_milli", "last_reported_unix_milli"}],
     [l |-> "metrics", t |-> Metrics("distributed_samples_v4_buffer"),
      cols |-> {"env", "temporality", "metric_name", "fingerprint", "reduced_fingerprint",
                "is_monotonic", "unix_milli", "value", "flags", "inserted_at_unix_milli"}],
     [l |-> "metrics", t |-> Metrics("distributed_time_series_v4_buffer"),
      cols |-> {"env", "temporality", "metric_name", "description", "unit", "type",
                "is_monotonic", "fingerprint", "reduced_fingerprint", "is_reduced",
                "unix_milli", "labels", "attrs", "scope_attrs", "resource_attrs",
                "__normalized", "inserted_at_unix_milli"}]}

MeterNamed ==
    {[l |-> "meter", t |-> Meter("distributed_samples"),
      cols |-> {"temporality", "metric_name", "description", "unit", "type", "is_monotonic",
                "labels", "fingerprint", "unix_milli", "value"}]}

FieldKeysNamed ==
    {[l |-> "logs", t |-> Metadata("distributed_field_keys"),
      cols |-> {"signal", "field_context", "field_name", "field_data_type", "last_seen"}]}

NamedInserts == LogsNamed \cup TracesNamed \cup MetricsNamed \cup MeterNamed \cup FieldKeysNamed

\* ... and the number of values of those that name none: such an insert must
\* have a value for every column of the table.
TracesPositional ==
    {[l |-> "traces", t |-> Traces("distributed_signoz_error_index_v2"), n |-> 11],
     [l |-> "traces", t |-> Traces("distributed_span_attributes_keys"), n |-> 4],
     [l |-> "traces", t |-> Traces("distributed_tag_attributes_v2"), n |-> 6],
     [l |-> "traces", t |-> Traces("distributed_traces_v3_resource"), n |-> 3]}

LogsPositional ==
    {[l |-> "logs", t |-> Logs("distributed_tag_attributes_v2"), n |-> 6],
     [l |-> "logs", t |-> Logs("distributed_logs_attribute_keys"), n |-> 2],
     [l |-> "logs", t |-> Logs("distributed_logs_resource_keys"), n |-> 2]}

AttributesPositional ==
    {[l |-> "metadata", t |-> Metadata("distributed_attributes_metadata"), n |-> 6]}

UsagePositional ==
    {[l |-> "traces", t |-> Traces("distributed_usage"), n |-> 5],
     [l |-> "logs", t |-> Logs("distributed_usage"), n |-> 5],
     [l |-> "metrics", t |-> Metrics("distributed_usage"), n |-> 5]}

PositionalInserts ==
    TracesPositional \cup LogsPositional \cup AttributesPositional \cup UsagePositional

-----------------------------------------------------------------------------
VARIABLES
    legacy,    \* the lists a legacy installation has behind it
    schema,    \* the schema of ClickHouse
    boot,      \* statements of bootstrap executed by this attempt
    finished,  \* finished[p][l]: migrations of Steps[p][l] that are "finished"
    at,        \* the list whose next migration a process executes, or "none"
    k          \* the statements of it that were executed

vars == <<legacy, schema, boot, finished, at, k>>

\* The lists a process goes through.  ShouldRunSquashedV2: a squashed list is
\* skipped where there is a table of legacy migrations.
GoesThrough(p, l) ==
    CASE p = "legacy" -> l \in legacy
      [] p \in Kinds /\ l \in Squashed -> DatabaseOf(l) \notin {DatabaseOf(x) : x \in legacy}
      [] OTHER -> l \notin Legacy

Init ==
    /\ legacy \in LegacySets
    /\ schema = [EmptySchema EXCEPT !.dbs = {DatabaseOf(l) : l \in legacy}]
    /\ boot = 0
    /\ finished = [p \in Procs |-> [l \in DOMAIN Lists |->
                      IF GoesThrough(p, l) THEN 0 ELSE Len(Steps[p][l])]]
    /\ at = [p \in Procs |-> "none"]
    /\ k = [p \in Procs |-> 0]

\* Whether p has nothing left to do in a list, and otherwise what is next.
Done(p, l) == finished[p][l] = Len(Steps[p][l])
NextMigration(p, l) == Steps[p][l][finished[p][l] + 1]

\* CREATE DATABASE, for each that is not there.
CreateDatabases ==
    /\ boot = 0
    /\ \A l \in legacy : Done("legacy", l)
    /\ \E d \in Databases \ schema.dbs : schema' = [schema EXCEPT !.dbs = @ \cup {d}]
    /\ UNCHANGED <<legacy, boot, finished, at, k>>

\* CreateMigrationTables.
BootstrapStep ==
    /\ schema.dbs = Databases
    /\ boot < Len(BootstrapStatements)
    /\ CanExecute(schema, BootstrapStatements[boot + 1])
    /\ schema' = Effect(schema, BootstrapStatements[boot + 1])
    /\ boot' = boot + 1
    /\ UNCHANGED <<legacy, finished, at, k>>

BootstrapDies ==
    /\ boot \in 1 .. Len(BootstrapStatements) - 1
    /\ boot' = 0
    /\ UNCHANGED <<legacy, schema, finished, at, k>>

-----------------------------------------------------------------------------
(* "sync up" and "async up", and before them, on an installation that has been
   there for long, the migrators of older releases *)

\* Releases run "sync up" to its end before "async up": the sync migrations
\* that were in the list before this async one are finished.
SyncReached(l) ==
    /\ \A s \in Squashed : Done("sync", s)
    /\ ~Done("sync", l) => NextMigration("sync", l).id > NextMigration("async", l).id

\* The first migration of its kind that CheckMigrationStatus does not find
\* finished.  Deployments run bootstrap to its end before both.
Begin(p) ==
    /\ p \in Kinds => boot = Len(BootstrapStatements)
    /\ at[p] = "none"
    /\ \E i \in 1 .. Len(Order) :
         /\ ~Done(p, Order[i])
         /\ \A j \in 1 .. i - 1 : Done(p, Order[j])
         /\ p = "async" => SyncReached(Order[i])
         /\ at' = [at EXCEPT ![p] = Order[i]]
    /\ UNCHANGED <<legacy, schema, boot, finished, k>>

\* RunOperationWithoutUpdate.
UpItems(p) == NextMigration(p, at[p]).up
Working(p) == at[p] # "none" /\ k[p] < Len(UpItems(p))
Statement(p) == UpItems(p)[k[p] + 1]

Execute(p) ==
    /\ Working(p)
    /\ CanExecute(schema, Statement(p))
    /\ schema' = Effect(schema, Statement(p))
    /\ k' = [k EXCEPT ![p] = @ + 1]
    /\ UNCHANGED <<legacy, boot, finished, at>>

Leave(p) == at' = [at EXCEPT ![p] = "none"] /\ k' = [k EXCEPT ![p] = 0]

\* InsertMigrationEntry(Finished).
Finish(p) ==
    /\ at[p] # "none"
    /\ ~Working(p)
    /\ finished' = [finished EXCEPT ![p][at[p]] = @ + 1]
    /\ Leave(p)
    /\ UNCHANGED <<legacy, schema, boot>>

\* The process dies, or an error of ClickHouse or of the connection ends it.
Die(p) ==
    /\ p \in Kinds
    /\ at[p] # "none"
    /\ Leave(p)
    /\ UNCHANGED <<legacy, schema, boot, finished>>

Next ==
    \/ CreateDatabases \/ BootstrapStep \/ BootstrapDies
    \/ \E p \in Procs : Begin(p) \/ Execute(p) \/ Finish(p) \/ Die(p)

Spec == Init /\ [][Next]_vars

-----------------------------------------------------------------------------
(* Properties *)

\* RunOperationWithoutUpdate: ClickHouse refuses no statement of the lists,
\* whatever "sync up" and "async up" have executed in between and however
\* often a migration was begun again.  A refused one would be refused for ever:
\* its migration is never finished, and the ones after it never begin.
NoStatementRefused == \A p \in Procs : Working(p) => CanExecute(schema, Statement(p))

\* The lists change a table, the distributed table over it and the views on it
\* in separate statements.  At every moment, what can be read or inserted
\* through the distributed table is there in the table behind it, and a
\* materialized view, which runs inside every insert into its source, finds
\* the columns it reads and writes: otherwise the exporters' inserts fail.
SchemaSound ==
    /\ \A t \in DOMAIN schema.local :
         t \in DOMAIN schema.cols => Has(schema, schema.local[t], schema.cols[t])
    /\ \A v \in DOMAIN schema.view :
         /\ Has(schema, schema.view[v].src, schema.view[v].reads)
         /\ Has(schema, schema.view[v].dest, schema.view[v].writes)

\* "sync check" lets the collector of this release start.  As soon as the sync
\* migrations of its database are finished, and whatever "async up" does then,
\* an insert of the exporters finds its columns.
WritersServed ==
    /\ \A w \in NamedInserts : Done("sync", w.l) => Has(schema, w.t, w.cols)
    /\ \A w \in PositionalInserts :
          Done("sync", w.l) =>
              w.t \in DOMAIN schema.cols /\ Cardinality(schema.cols[w.t]) = w.n

\* Of a set of lists: the statements of some operations, and their tables.
StatementsOf(ls, ops) ==
    {s \in UNION {UNION {{Lists[l][i].up[j] : j \in 1 .. Len(Lists[l][i].up)} :
                           i \in 1 .. Len(Lists[l])} : l \in ls} : s.op \in ops}
TablesOf(ls, ops) == {s.t : s \in StatementsOf(ls, ops)}

Makes == {"CreateTable", "CreateDistributed", "CreateView"}
Dropped(ls) == TablesOf(ls, {"DropTable"})
Lasting(ls) == TablesOf(ls, Makes) \ Dropped(ls)
Declared(ls, t) ==
    UNION {IF s.op = "AddColumn" THEN {s.col} ELSE s.cols :
             s \in {x \in StatementsOf(ls, {"CreateTable", "CreateDistributed", "AddColumn"}) :
                       x.t = t}}

\* The lists that fresh and legacy installations go through, and what they make.
Origins == {DOMAIN Lists \ (Legacy \ Squashed), DOMAIN Lists \ (Squashed \ Legacy)}
Declarations == [ls \in Origins |-> [t \in Lasting(ls) |-> Declared(ls, t)]]
Drops == [ls \in Origins |-> Dropped(ls)]
Makers ==
    [d \in Databases |-> {l \in DOMAIN Lists : \E t \in TablesOf({l}, Makes) : t[1] = d}]

\* Up items may be executed again, and in between each other, and still every
\* database ends with all the tables and views its migrations make, a table
\* with all the columns they declare for it, and with none of those they drop.
Converges ==
    LET ls == {l \in DOMAIN Lists : l \in legacy \/ GoesThrough("sync", l)}
        ended == {d \in Databases : \A l \in Makers[d], p \in Procs : Done(p, l)}
    IN /\ \A t \in DOMAIN Declarations[ls] : t[1] \in ended =>
             \/ t \in DOMAIN schema.view
             \/ t \in DOMAIN schema.cols /\ schema.cols[t] = Declarations[ls][t]
       /\ \A t \in Drops[ls] : t[1] \in ended => ~Exists(schema, t)
=============================================================================
