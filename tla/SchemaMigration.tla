-------------------------- MODULE SchemaMigration --------------------------
(***************************************************************************)
(* The schema migrator: the commands "migrate sync up", "migrate async up", *)
(* "migrate sync check" and "migrate async check", each a process of its    *)
(* own, several of which may run at once against one ClickHouse cluster.    *)
(* They share no lock, only the table distributed_schema_migrations_v2.     *)
(*                                                                         *)
(* A row of that table goes to a random shard (sharding key rand()), and    *)
(* "final = 1" keeps the last row of a migration on each shard: a query may *)
(* return the row of any shard.                                             *)
(***************************************************************************)
EXTENDS Integers, Sequences, FiniteSets

CONSTANTS
    Migrations,  \* the migrations of all databases
    Regular,     \* database -> its sequence of migrations
    Squashed,    \* database -> its sequence of squashed migrations
    Ops,         \* migration -> its sequence of operations, UpItems
    Ups,         \* the processes that migrate
    Checks,      \* the processes that check
    LegacySets,  \* which databases may have a table of legacy migrations
    Shards,      \* the shards of the cluster
    MaxFaults    \* bound: queries, operations and processes that fail

\* The order of SyncUp, Up and both Checks.
Databases == <<"traces", "logs", "metrics", "metadata", "analytics", "meter">>
Dbs == {Databases[i] : i \in 1 .. Len(Databases)}
SquashedDbs == {"logs", "metrics", "traces"}
Kinds == {"sync", "async"}

\* IsSyncOperation: ForceMigrate, or idempotent, lightweight and no mutation.
Operation == [kind : Kinds]

\* IsSync, IsAsync: some operation of the migration is of that kind.
IsOfKind(m, k) == \E i \in 1 .. Len(Ops[m]) : Ops[m][i].kind = k

\* The lists an up goes through: <<"squashed", d>> and <<"regular", d>>.
List(l) == IF l[1] = "squashed" THEN Squashed[l[2]] ELSE Regular[l[2]]
Lists == ({"squashed"} \X SquashedDbs) \cup ({"regular"} \X Dbs)

Procs == Ups \cup Checks

ASSUME MigrationAssumption ==
    /\ Regular \in [Dbs -> Seq(Migrations)]
    /\ Squashed \in [SquashedDbs -> Seq(Migrations)]
    /\ Ops \in [Migrations -> Seq(Operation)]
    /\ Ups \cap Checks = {}
    /\ LegacySets \subseteq SUBSET SquashedDbs
    /\ Shards # {}
    /\ MaxFaults \in Nat

\* No migration mixes sync and async operations, and analytics and meter have
\* no async ones.  Both hold of the migrations in the repository; run and
\* asyncCheck rely on them.
ASSUME KindAssumption ==
    /\ \A m \in Migrations : ~(IsOfKind(m, "sync") /\ IsOfKind(m, "async"))
    /\ \A d \in {"analytics", "meter"} :
         \A i \in 1 .. Len(Regular[d]) : ~IsOfKind(Regular[d][i], "async")

\* A migration has one place: the ids of the squashed and the regular list of a
\* database differ.  A row is found by database and id.
ASSUME PlaceAssumption ==
    \A l1, l2 \in Lists : \A i \in 1 .. Len(List(l1)) : \A j \in 1 .. Len(List(l2)) :
        List(l1)[i] = List(l2)[j] => l1 = l2 /\ i = j

VARIABLES
    kind,      \* the command of each process: "sync" or "async"
    legacy,    \* databases that have the table of the legacy migrations
    row,       \* row[m][s]: status of migration m on shard s, or "none"
    applied,   \* applied[m]: the operations of m that were executed
    pc,        \* where each process is
    left,      \* squashed databases an up has not come to in this attempt
    cur,       \* the list of migrations it works on: <<"regular", d>> ...
    mi,        \* the next migration of that list
    oi,        \* operations of that migration it has executed
    ci,        \* the last database a check has passed
    faults     \* failures so far

store == <<kind, legacy, row, applied>>
vars == <<store, pc, left, cur, mi, oi, ci, faults>>

Start == <<"regular", Databases[1]>>

Init ==
    /\ kind \in [Procs -> Kinds]
    /\ legacy \in LegacySets
    /\ row = [m \in Migrations |-> [s \in Shards |-> "none"]]
    /\ applied = [m \in Migrations |-> {}]
    /\ pc = [p \in Procs |-> "begin"]
    /\ left = [p \in Ups |-> {}]
    /\ cur = [p \in Ups |-> Start]
    /\ mi = [p \in Ups |-> 1]
    /\ oi = [p \in Ups |-> 0]
    /\ ci = [p \in Checks |-> 0]
    /\ faults = 0

-----------------------------------------------------------------------------
(* The manager, and ClickHouse as it uses it *)

Works == UNCHANGED faults
Fault == faults < MaxFaults /\ faults' = faults + 1

\* The statuses CheckMigrationStatus may find for m.
Statuses(m) == {row[m][s] : s \in Shards} \ {"none"}

\* CheckMigrationStatus(m, Finished) returns true; returns false.
SeenFinished(m) == "finished" \in Statuses(m)
SeenUnfinished(m) == Statuses(m) # {"finished"}

\* InsertMigrationEntry, when ClickHouse executes it.
InsertMigrationEntry(m, status) ==
    \E s \in Shards : row' = [row EXCEPT ![m][s] = status]

\* RunOperationWithoutUpdate, when ClickHouse executes operation i of m.
Execute(m, i) == applied' = [applied EXCEPT ![m] = @ \cup {i}]

Goto(p, at) == pc' = [pc EXCEPT ![p] = at]

-----------------------------------------------------------------------------
(* syncUp and asyncUp *)

Mig(p) == List(cur[p])[mi[p]]
AtEnd(p) == mi[p] > Len(List(cur[p]))

\* Run has left the attempt: its locals are gone.
UpLeave(p, at) ==
    /\ Goto(p, at)
    /\ left' = [left EXCEPT ![p] = {}]
    /\ cur' = [cur EXCEPT ![p] = Start]
    /\ mi' = [mi EXCEPT ![p] = 1]
    /\ oi' = [oi EXCEPT ![p] = 0]

Enter(p, l) ==
    /\ cur' = [cur EXCEPT ![p] = l]
    /\ mi' = [mi EXCEPT ![p] = 1]

NextMigration(p) ==
    /\ mi' = [mi EXCEPT ![p] = @ + 1]
    /\ oi' = [oi EXCEPT ![p] = 0]
    /\ Goto(p, "migration")

\* Run: an attempt begins with runSquashedMigrations.
UpBegin(p) ==
    /\ pc[p] = "begin"
    /\ Goto(p, "squashed")
    /\ left' = [left EXCEPT ![p] = SquashedDbs]
    /\ UNCHANGED <<store, cur, mi, oi, ci>>
    /\ Works

\* runSquashedMigrations ranges over a map, in any order.  The first database
\* with a legacy table ends it.  run returns at once for an empty list.
RunSquashed(p, d) ==
    /\ pc[p] = "squashed" /\ d \in left[p]
    /\ \/ /\ d \notin legacy /\ Squashed[d] = <<>>
          /\ left' = [left EXCEPT ![p] = @ \ {d}]
          /\ UNCHANGED <<cur, mi, pc>>
       \/ /\ d \notin legacy /\ Squashed[d] # <<>>
          /\ left' = [left EXCEPT ![p] = @ \ {d}]
          /\ Enter(p, <<"squashed", d>>)
          /\ Goto(p, "migration")
       \/ /\ d \in legacy
          /\ left' = [left EXCEPT ![p] = {}]
          /\ UNCHANGED <<cur, mi, pc>>
    /\ UNCHANGED <<store, oi, ci>>
    /\ Works

EnterRegular(p) ==
    /\ pc[p] = "squashed" /\ left[p] = {}
    /\ Enter(p, Start)
    /\ Goto(p, "migration")
    /\ UNCHANGED <<store, left, oi, ci>>
    /\ Works

\* The databases between the i-th and the j-th have no migrations.
AllEmpty(i, j) == \A n \in i + 1 .. j - 1 : Regular[Databases[n]] = <<>>

\* run returns nil at the end of a list, and at once for an empty one.
EndOfList(p) ==
    /\ pc[p] = "migration" /\ AtEnd(p)
    /\ \/ /\ cur[p][1] = "squashed"
          /\ Enter(p, Start)
          /\ Goto(p, "squashed")
          /\ UNCHANGED <<left, oi>>
       \/ \E i, j \in 1 .. Len(Databases) :
             /\ cur[p] = <<"regular", Databases[i]>>
             /\ i < j /\ AllEmpty(i, j) /\ Regular[Databases[j]] # <<>>
             /\ Enter(p, <<"regular", Databases[j]>>)
             /\ UNCHANGED <<pc, left, oi>>
       \/ \E i \in 1 .. Len(Databases) :
             /\ cur[p] = <<"regular", Databases[i]>>
             /\ AllEmpty(i, Len(Databases) + 1)
             /\ UpLeave(p, "ok")
    /\ UNCHANGED <<store, ci>>
    /\ Works

\* Mutant: a migration with any status is skipped.
SkipKnown(p) ==
    /\ pc[p] = "migration" /\ ~AtEnd(p)
    /\ IsOfKind(Mig(p), kind[p]) => Statuses(Mig(p)) # {}
    /\ NextMigration(p)
    /\ UNCHANGED <<store, left, cur, ci>>
    /\ Works

\* A migration of the other kind, or one that is finished, is skipped.
SkipMigration(p) ==
    /\ pc[p] = "migration" /\ ~AtEnd(p)
    /\ IsOfKind(Mig(p), kind[p]) => SeenFinished(Mig(p))
    /\ NextMigration(p)
    /\ UNCHANGED <<store, left, cur, ci>>
    /\ Works

StartMigration(p) ==
    /\ pc[p] = "migration" /\ ~AtEnd(p)
    /\ IsOfKind(Mig(p), kind[p]) /\ SeenUnfinished(Mig(p))
    /\ Goto(p, "ops")
    /\ UNCHANGED <<store, left, cur, mi, oi, ci>>
    /\ Works

\* ShouldRunSquashedV2 or CheckMigrationStatus fails: a retryable error.
UpQueryFails(p) ==
    /\ \/ pc[p] = "squashed" /\ left[p] # {}
       \/ pc[p] = "migration" /\ ~AtEnd(p) /\ IsOfKind(Mig(p), kind[p])
    /\ Fault
    /\ UpLeave(p, "retry")
    /\ UNCHANGED <<store, ci>>

\* Mutant: one operation too many.
RunOpPastEnd(p) ==
    /\ pc[p] = "ops" /\ oi[p] <= Len(Ops[Mig(p)])
    /\ Execute(Mig(p), oi[p] + 1)
    /\ oi' = [oi EXCEPT ![p] = @ + 1]
    /\ UNCHANGED <<kind, legacy, row, pc, left, cur, mi, ci>>
    /\ Works

RunOp(p) ==
    /\ pc[p] = "ops" /\ oi[p] < Len(Ops[Mig(p)])
    /\ Execute(Mig(p), oi[p] + 1)
    /\ oi' = [oi EXCEPT ![p] = @ + 1]
    /\ UNCHANGED <<kind, legacy, row, pc, left, cur, mi, ci>>
    /\ Works

\* Mutant: a failed operation is logged and the migration goes on.
OpFailsOnlyLogged(p) ==
    /\ pc[p] = "ops" /\ oi[p] < Len(Ops[Mig(p)])
    /\ Fault
    /\ UNCHANGED <<applied, pc>>
    /\ oi' = [oi EXCEPT ![p] = @ + 1]
    /\ UNCHANGED <<kind, legacy, row, left, cur, mi, ci>>

\* The wait before the operation fails, or its query does: ClickHouse may
\* have executed it or not.
OpFails(p) ==
    /\ pc[p] = "ops" /\ oi[p] < Len(Ops[Mig(p)])
    /\ Fault
    /\ Execute(Mig(p), oi[p] + 1) \/ UNCHANGED applied
    /\ Goto(p, "fail")
    /\ UNCHANGED <<kind, legacy, row, left, cur, mi, oi, ci>>

\* The migration is marked as failed; the error of the operation, or of the
\* mark, is not retryable.
MarkFailed(p) ==
    /\ pc[p] = "fail"
    /\ \/ Works /\ InsertMigrationEntry(Mig(p), "failed")
       \/ Fault /\ (UNCHANGED row \/ InsertMigrationEntry(Mig(p), "failed"))
    /\ UpLeave(p, "failed")
    /\ UNCHANGED <<kind, legacy, applied, ci>>

MarkFinished(p) ==
    /\ pc[p] = "ops" /\ oi[p] = Len(Ops[Mig(p)])
    /\ Works
    /\ InsertMigrationEntry(Mig(p), "finished")
    /\ NextMigration(p)
    /\ UNCHANGED <<kind, legacy, applied, left, cur, ci>>

\* Mutant: the error is ignored.
MarkFinishedIgnored(p) ==
    /\ pc[p] = "ops" /\ oi[p] = Len(Ops[Mig(p)])
    /\ Fault
    /\ NextMigration(p)
    /\ UNCHANGED <<store, left, cur, ci>>

\* The error is retryable for syncUp only.
MarkFinishedFails(p) ==
    /\ pc[p] = "ops" /\ oi[p] = Len(Ops[Mig(p)])
    /\ Fault
    /\ UNCHANGED row \/ InsertMigrationEntry(Mig(p), "finished")
    /\ UpLeave(p, IF kind[p] = "sync" THEN "retry" ELSE "failed")
    /\ UNCHANGED <<kind, legacy, applied, ci>>

UpStep(p) ==
    \/ UpBegin(p)
    \/ \E d \in SquashedDbs : RunSquashed(p, d)
    \/ EnterRegular(p) \/ EndOfList(p)
    \/ SkipMigration(p) \/ StartMigration(p)
    \/ RunOp(p) \/ MarkFinished(p) \/ MarkFailed(p)

UpFails(p) == UpQueryFails(p) \/ OpFails(p) \/ MarkFinishedFails(p)

-----------------------------------------------------------------------------
(* syncCheck and asyncCheck *)

\* getLastSyncMigration, getLastAsyncMigration: the last one, if there is one.
LastOfKind(d, k) ==
    {Regular[d][i] : i \in
        {j \in 1 .. Len(Regular[d]) :
            /\ IsOfKind(Regular[d][j], k)
            /\ \A n \in j + 1 .. Len(Regular[d]) : ~IsOfKind(Regular[d][n], k)}}

\* The next database a check looks at: the ones without a migration of its
\* kind are passed over.  asyncCheck returns after the first it finds among the
\* last three.
Checked(p) ==
    {i \in ci[p] + 1 .. Len(Databases) :
        /\ LastOfKind(Databases[i], kind[p]) # {}
        /\ \A j \in ci[p] + 1 .. i - 1 : LastOfKind(Databases[j], kind[p]) = {}
        /\ ~(kind[p] = "async" /\ ci[p] >= 4)}

CheckLeave(p, at) == Goto(p, at) /\ ci' = [ci EXCEPT ![p] = 0]

CheckBegin(p) ==
    /\ pc[p] = "begin"
    /\ Goto(p, "checking")
    /\ UNCHANGED <<store, left, cur, mi, oi, ci>>
    /\ Works

CheckDb(p) ==
    /\ pc[p] = "checking"
    /\ \E i \in Checked(p) :
          /\ \A m \in LastOfKind(Databases[i], kind[p]) : SeenFinished(m)
          /\ ci' = [ci EXCEPT ![p] = i]
    /\ UNCHANGED <<store, pc, left, cur, mi, oi>>
    /\ Works

\* Not finished, or the query fails: every error is retried.
CheckDbFails(p) ==
    /\ pc[p] = "checking"
    /\ \E i \in Checked(p) : \E m \in LastOfKind(Databases[i], kind[p]) :
          (SeenUnfinished(m) /\ Works) \/ Fault
    /\ CheckLeave(p, "retry")
    /\ UNCHANGED <<store, left, cur, mi, oi>>

CheckReturns(p) ==
    /\ pc[p] = "checking" /\ Checked(p) = {}
    /\ CheckLeave(p, "ok")
    /\ UNCHANGED <<store, left, cur, mi, oi>>
    /\ Works

CheckStep(p) ==
    CheckBegin(p) \/ CheckDb(p) \/ CheckDbFails(p) \/ CheckReturns(p)

-----------------------------------------------------------------------------
(* The loop Run of every command, and the job that executes the command *)

\* After the backoff the next attempt begins, or the time is over.
Retry(p) ==
    /\ pc[p] = "retry"
    /\ Goto(p, "begin") \/ Goto(p, "failed")
    /\ UNCHANGED <<store, left, cur, mi, oi, ci>>
    /\ Works

Crash(p) ==
    /\ pc[p] \notin {"ok", "failed"}
    /\ Fault
    /\ \/ p \in Ups /\ UpLeave(p, "failed") /\ UNCHANGED ci
       \/ p \in Checks /\ CheckLeave(p, "failed") /\ UNCHANGED <<left, cur, mi, oi>>
    /\ UNCHANGED store

\* The job of a command that failed is run again.
Rerun(p) ==
    /\ pc[p] = "failed"
    /\ Goto(p, "begin")
    /\ UNCHANGED <<store, left, cur, mi, oi, ci>>
    /\ Works

Next ==
    \/ \E p \in Ups : UpStep(p) \/ UpFails(p)
    \/ \E p \in Checks : CheckStep(p)
    \/ \E p \in Procs : Retry(p) \/ Rerun(p) \/ Crash(p)

\* Every process takes the steps it can, and the job of a command that failed
\* is run again, as the container orchestrator does.
Fairness ==
    /\ \A p \in Ups : WF_vars(UpStep(p) \/ Retry(p) \/ Rerun(p))
    /\ \A p \in Checks : WF_vars(CheckStep(p) \/ Retry(p) \/ Rerun(p))

Spec == Init /\ [][Next]_vars /\ Fairness
-----------------------------------------------------------------------------
(* Properties *)

TypeOK ==
    /\ kind \in [Procs -> Kinds]
    /\ legacy \subseteq SquashedDbs
    /\ row \in [Migrations -> [Shards -> {"none", "failed", "finished"}]]
    /\ \A m \in Migrations : applied[m] \subseteq 1 .. Len(Ops[m])
    /\ pc \in [Procs -> {"begin", "squashed", "migration", "ops", "fail",
                         "checking", "retry", "ok", "failed"}]
    /\ left \in [Ups -> SUBSET SquashedDbs]
    /\ cur \in [Ups -> Lists]
    /\ \A p \in Ups : /\ mi[p] \in 1 .. Len(List(cur[p])) + 1
                      /\ pc[p] \in {"ops", "fail"} =>
                            ~AtEnd(p) /\ oi[p] \in 0 .. Len(Ops[Mig(p)])
    /\ ci \in [Checks -> 0 .. Len(Databases)]
    /\ faults \in 0 .. MaxFaults

\* The migrations of kind k in list l.
OfKind(l, k) == {i \in 1 .. Len(List(l)) : IsOfKind(List(l)[i], k)}

\* Whatever fails, and however many migrators run at once, the operations of
\* one kind are executed in the order of their list, the squashed migrations,
\* which create the base tables, before the regular ones on an installation
\* without legacy tables, and a check answers "ok" only when all were executed
\* (sync_up.go and async_up.go, runSquashedMigrations and run; sync_check.go,
\* Check, though it looks only at the last migration of each database; sync.go:
\* "These migrations need to be successfully applied before bringing up the
\* application").  With a legacy table in only some databases runSquashedMigrations
\* may leave out databases without one.
Ordered == INSTANCE OrderedMigrations WITH
    passed <- {kind[p] : p \in {q \in Checks : pc[q] = "ok"}}
ImplementsOrdered == Ordered!Spec

\* When all migrators of a kind have returned without an error, the table says
\* "finished" of every regular migration of that kind, so that the next one
\* skips them and the check succeeds (sync_up.go: "if all the operations
\* succeed, mark the migration as finished").
UpsMarkFinished ==
    \A k \in Kinds :
        /\ \E p \in Ups : kind[p] = k
        /\ \A p \in Ups : kind[p] = k => pc[p] = "ok"
        => \A d \in Dbs : \A i \in OfKind(<<"regular", d>>, k) :
              ~SeenUnfinished(Regular[d][i])

\* A check succeeds in the end if a migrator of its kind is there: no failure
\* leaves the migrations in a state that running the commands again does not
\* repair (sync_up.go, async_up.go, sync_check.go and async_check.go, Run).
ChecksSucceed ==
    \A p \in Checks : (\E u \in Ups : kind[u] = kind[p]) ~> (pc[p] = "ok")
=============================================================================
