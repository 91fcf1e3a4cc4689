----------------------------- MODULE Statements -----------------------------
(***************************************************************************)
(* The operations of the schema migrator: the statement each one sends to   *)
(* ClickHouse, the flags by which the manager decides whether "sync up" or  *)
(* "async up" runs it, and, external, what ClickHouse does with it.         *)
(*                                                                         *)
(* A constructor gives a sequence of statements, so that a migration is a   *)
(* concatenation.  Types, codecs, engines, settings and the names of the    *)
(* indexes are left out: no statement depends on them.  A statement keeps   *)
(* the columns its text refers to (needs, reads): ClickHouse refuses it     *)
(* when they are missing.                                                   *)
(***************************************************************************)
EXTENDS Naturals, Sequences, FiniteSets, TLC

Traces(n) == <<"signoz_traces", n>>
Logs(n) == <<"signoz_logs", n>>
Metrics(n) == <<"signoz_metrics", n>>
Metadata(n) == <<"signoz_metadata", n>>
Analytics(n) == <<"signoz_analytics", n>>
Meter(n) == <<"signoz_meter", n>>

\* A SchemaMigrationRecord.
M(id, up, down) == [id |-> id, up |-> up, down |-> down]

-----------------------------------------------------------------------------
(* The operations *)

\* CREATE TABLE IF NOT EXISTS, with an engine of the MergeTree family ...
CreateTable(t, cols) == <<[op |-> "CreateTable", t |-> t, cols |-> cols]>>

\* ... and with the engine Distributed, over the table local.
CreateDistributed(t, local, cols) ==
    <<[op |-> "CreateDistributed", t |-> t, local |-> local, cols |-> cols]>>

DropTable(t) == <<[op |-> "DropTable", t |-> t]>>
DropTables(db, names) ==
    [i \in 1 .. Len(names) |-> [op |-> "DropTable", t |-> <<db, names[i]>>]]

\* CREATE MATERIALIZED VIEW IF NOT EXISTS t TO dest AS SELECT writes FROM src.
CreateView(t, dest, src, reads, writes) ==
    <<[op |-> "CreateView", t |-> t,
       view |-> [dest |-> dest, src |-> src, reads |-> reads, writes |-> writes]]>>

\* The same with REFRESH EVERY.
CreateRefreshableView(t, dest, src, reads, writes) ==
    CreateView(t, dest, src, reads, writes)

\* ALTER TABLE t MODIFY QUERY.
ModifyQuery(t, src, reads, writes) ==
    <<[op |-> "ModifyQuery", t |-> t, src |-> src, reads |-> reads, writes |-> writes]>>

\* ALTER TABLE t ADD COLUMN IF NOT EXISTS, one statement for each column; the
\* second form for those with a default or a position that names others.
AddColumnsFrom(t, cols, needs) ==
    [i \in 1 .. Len(cols) |->
        [op |-> "AddColumn", t |-> t, col |-> cols[i], needs |-> needs \ {cols[i]}]]
AddColumns(t, cols) == AddColumnsFrom(t, cols, {})

DropColumns(t, cols) ==
    [i \in 1 .. Len(cols) |-> [op |-> "DropColumn", t |-> t, col |-> cols[i]]]

ModifyColumn(t, col) == <<[op |-> "ModifyColumn", t |-> t, col |-> col]>>
MaterializeColumn(t, col) == <<[op |-> "MaterializeColumn", t |-> t, col |-> col]>>

\* ALTER TABLE t ADD INDEX IF NOT EXISTS on an expression over needs.
AddIndexes(t, n, needs) ==
    [i \in 1 .. n |-> [op |-> "AddIndex", t |-> t, needs |-> needs]]
AddIndex(t, needs) == AddIndexes(t, 1, needs)
DropIndex(t) == <<[op |-> "DropIndex", t |-> t]>>

ModifyTTL(t, needs) == <<[op |-> "ModifyTTL", t |-> t, needs |-> needs]>>
RemoveTTL(t) == <<[op |-> "RemoveTTL", t |-> t]>>
ModifySettings(t) == <<[op |-> "ModifySettings", t |-> t]>>

\* INSERT INTO t (cols) VALUES.
InsertInto(t, cols) == <<[op |-> "InsertInto", t |-> t, cols |-> cols]>>

-----------------------------------------------------------------------------
(* The flags of an operation *)

\* ModifyTTL appears only with materialize_ttl_after_modify = 0.
IsMutation(s) ==
    s.op \in {"DropTable", "DropColumn", "ModifyColumn", "MaterializeColumn", "DropIndex"}

IsIdempotent(s) == s.op # "InsertInto"

IsLightweight(s) == s.op \notin {"MaterializeColumn", "InsertInto"}

\* Every InsertIntoTable of the lists is Synchronous.
ForceMigrate(s) == s.op = "InsertInto"

IsSyncOperation(s) ==
    \/ ForceMigrate(s)
    \/ ~IsMutation(s) /\ IsIdempotent(s) /\ IsLightweight(s)

IsAsyncOperation(s) == ~IsSyncOperation(s)

ShouldWaitForDistributionQueue(s) == s.op = "DropColumn"

-----------------------------------------------------------------------------
(* ClickHouse *)

\* dbs: the databases; cols: table -> its columns; local: distributed table ->
\* the table it stands for; view: view -> its query.
EmptySchema == [dbs |-> {}, cols |-> << >>, local |-> << >>, view |-> << >>]

Exists(sc, t) == t \in DOMAIN sc.cols \/ t \in DOMAIN sc.view
Has(sc, t, cs) == t \in DOMAIN sc.cols /\ cs \subseteq sc.cols[t]

\* Whether ClickHouse executes the statement, or refuses it: what it names
\* must exist, and a column a view reads from the table may not be dropped.
CanExecute(sc, s) ==
    CASE s.op \in {"CreateTable", "CreateDistributed"} -> s.t[1] \in sc.dbs
      [] s.op = "CreateView" ->
            \/ Exists(sc, s.t)
            \/ Has(sc, s.view.src, s.view.reads) /\ Has(sc, s.view.dest, {})
      [] s.op = "ModifyQuery" -> s.t \in DOMAIN sc.view /\ Has(sc, s.src, s.reads)
      [] s.op = "DropTable" -> TRUE
      [] s.op = "AddColumn" -> Has(sc, s.t, IF Has(sc, s.t, {s.col}) THEN {} ELSE s.needs)
      [] s.op \in {"AddIndex", "ModifyTTL"} -> Has(sc, s.t, s.needs)
      [] s.op = "MaterializeColumn" -> Has(sc, s.t, {s.col})
      [] s.op = "DropColumn" ->
            /\ Has(sc, s.t, {})
            /\ \A v \in DOMAIN sc.view : sc.view[v].src = s.t => s.col \notin sc.view[v].reads
      [] s.op = "InsertInto" -> Has(sc, s.t, s.cols)
      [] OTHER -> Has(sc, s.t, {})

Put(f, x, y) == (x :> y) @@ f
Without(f, x) == [z \in DOMAIN f \ {x} |-> f[z]]

\* The schema after a statement that ClickHouse executes.  IF NOT EXISTS and
\* IF EXISTS make those on what is there, or is not, leave it as it is.
Effect(sc, s) ==
    CASE s.op \in {"CreateTable", "CreateDistributed", "CreateView"} /\ Exists(sc, s.t) -> sc
      [] s.op = "CreateTable" -> [sc EXCEPT !.cols = Put(@, s.t, s.cols)]
      [] s.op = "CreateDistributed" ->
            [sc EXCEPT !.cols = Put(@, s.t, s.cols), !.local = Put(@, s.t, s.local)]
      [] s.op = "CreateView" -> [sc EXCEPT !.view = Put(@, s.t, s.view)]
      [] s.op = "ModifyQuery" ->
            [sc EXCEPT !.view[s.t].src = s.src, !.view[s.t].reads = s.reads,
                       !.view[s.t].writes = s.writes]
      [] s.op = "DropTable" ->
            [sc EXCEPT !.cols = Without(@, s.t), !.local = Without(@, s.t),
                       !.view = Without(@, s.t)]
      [] s.op = "AddColumn" -> [sc EXCEPT !.cols[s.t] = @ \cup {s.col}]
      [] s.op = "DropColumn" -> [sc EXCEPT !.cols[s.t] = @ \ {s.col}]
      [] OTHER -> sc

=============================================================================
