----------------------- MODULE SchemaMigrationProofs -----------------------
(***************************************************************************)
(* Proofs about SchemaMigration, for any lists of migrations, any number of *)
(* migrators, checks, shards and failures: the specification implements     *)
(* OrderedMigrations, and on one shard the migrators leave no migration     *)
(* unmarked.                                                                *)
(***************************************************************************)
EXTENDS SchemaMigration, WellFoundedInduction, TLAPS

-----------------------------------------------------------------------------
(* The inductive invariant *)

UpPcs == {"begin", "squashed", "migration", "ops", "fail", "retry", "ok", "failed"}
Pcs == UpPcs \cup {"checking"}

\* TypeOK, with the variables it describes only pointwise as functions.
MigratorTypeOK ==
    /\ kind \in [Procs -> Kinds]
    /\ legacy \subseteq SquashedDbs
    /\ row \in [Migrations -> [Shards -> {"none", "failed", "finished"}]]
    /\ applied \in [Migrations -> SUBSET Nat]
    /\ \A m \in Migrations : applied[m] \subseteq 1 .. Len(Ops[m])
    /\ pc \in [Procs -> Pcs]
    /\ left \in [Ups -> SUBSET SquashedDbs]
    /\ cur \in [Ups -> Lists]
    /\ mi \in [Ups -> Nat]
    /\ oi \in [Ups -> Nat]
    /\ ci \in [Checks -> 0 .. Len(Databases)]
    /\ faults \in 0 .. MaxFaults

\* An up is at a migration of a list.
Inside(p) == pc[p] \in {"migration", "ops", "fail"}

\* The indices of an up stay in their list and their migration.
PlaceInv(p) ==
    /\ mi[p] \in 1 .. Len(List(cur[p])) + 1
    /\ pc[p] \in {"ops", "fail"} => ~AtEnd(p) /\ oi[p] <= Len(Ops[Mig(p)])
    /\ pc[p] \notin {"ops", "fail"} => oi[p] = 0

\* All operations of a migration were executed; of the migrations of kind k
\* among the first i of a list.
Done(m) == 1 .. Len(Ops[m]) \subseteq applied[m]
DoneUpTo(l, i, k) ==
    \A j \in 1 .. Len(List(l)) :
        j <= i /\ IsOfKind(List(l)[j], k) => Done(List(l)[j])
ListDone(l, k) == DoneUpTo(l, Len(List(l)), k)

\* A row "finished" on any shard means that the migration, and every one before
\* it of its kind in its list, was executed.  Only the first half is what the
\* row says; a check that looks at the last migration alone needs the second.
RowMeans(m) ==
    /\ Done(m)
    /\ \A l \in Lists : \A i \in 1 .. Len(List(l)) : \A k \in Kinds :
          List(l)[i] = m /\ IsOfKind(m, k) => DoneUpTo(l, i, k)

RowInv ==
    \A m \in Migrations : \A s \in Shards : row[m][s] = "finished" => RowMeans(m)

\* What an up has behind it was executed: the migrations before the one it is
\* at, and the operations of that one.
WorkInv(p) ==
    /\ Inside(p) => DoneUpTo(cur[p], mi[p] - 1, kind[p])
    /\ pc[p] \in {"ops", "fail"} =>
          IsOfKind(Mig(p), kind[p]) /\ 1 .. oi[p] \subseteq applied[Mig(p)]

\* Without legacy tables, the squashed lists it has left behind were executed.
SquashedInv(p) ==
    legacy = {} => \A d \in SquashedDbs :
        \/ pc[p] = "squashed" /\ d \notin left[p]
        \/ Inside(p) /\ cur[p][1] = "squashed" /\ d \notin left[p] /\ d # cur[p][2]
        \/ Inside(p) /\ cur[p][1] = "regular"
        => ListDone(<<"squashed", d>>, kind[p])

UpInv(p) == PlaceInv(p) /\ WorkInv(p) /\ SquashedInv(p)

\* The databases a check has passed are executed for its kind.
CheckInv(p) ==
    /\ pc[p] = "checking" =>
          \A i \in 1 .. ci[p] : ListDone(<<"regular", Databases[i]>>, kind[p])
    /\ pc[p] # "checking" => ci[p] = 0

MigratorInv ==
    /\ MigratorTypeOK
    /\ RowInv
    /\ \A p \in Ups : UpInv(p)
    /\ \A p \in Checks : CheckInv(p)

\* An up will still come to the i-th migration of the b-th database.
Ahead(p, b, i) ==
    \/ pc[p] \in {"begin", "squashed", "retry", "failed"}
    \/ Inside(p) /\ cur[p][1] = "squashed"
    \/ \E a \in 1 .. Len(Databases) :
          /\ Inside(p) /\ cur[p] = <<"regular", Databases[a]>>
          /\ a < b \/ (a = b /\ mi[p] <= i)

Marked(m) == \A s \in Shards : row[m][s] = "finished"

\* A regular migration that is not marked as finished has an up of its kind that
\* will still come to it.
MarkedInv ==
    \A k \in Kinds : (\E p \in Ups : kind[p] = k) =>
        \A b \in 1 .. Len(Databases) : \A i \in OfKind(<<"regular", Databases[b]>>, k) :
            \/ Marked(Regular[Databases[b]][i])
            \/ \E q \in Ups : kind[q] = k /\ Ahead(q, b, i)

-----------------------------------------------------------------------------
(* Numbers, and the lists *)

\* The least and the greatest number of a set.
LEMMA Least ==
    ASSUME NEW T, T \subseteq Nat, T # {}
    PROVE  \E x \in T : \A y \in T : x <= y
<1>1. PICK x \in T : \A y \in T : <<y, x>> \notin OpToRel(<, Nat)
  BY NatLessThanWellFounded, WFMin
<1>2. \A y \in T : ~(y < x)
  BY <1>1 DEF OpToRel
<1> QED
  BY <1>2

\* A set of numbers up to n that is not empty has a greatest element.
LEMMA Greatest ==
    ASSUME NEW n \in Nat, NEW T, T \subseteq 1 .. n, T # {}
    PROVE  \E x \in T : \A y \in T : y <= x
<1> DEFINE U == {n - x : x \in T}
<1>1. U \subseteq Nat
  OBVIOUS
<1>2. U # {}
  <2>1. PICK x \in T : TRUE
    OBVIOUS
  <2>2. n - x \in U
    BY <2>1
  <2> QED
    BY <2>2
<1>3. \A y \in T : n - y \in U
  OBVIOUS
<1>4. \A u \in U : \E x \in T : u = n - x
  OBVIOUS
<1> HIDE DEF U
<1>5. PICK u \in U : \A v \in U : u <= v
  BY <1>1, <1>2, Least
<1>6. PICK x \in T : u = n - x
  BY <1>4, <1>5
<1> QED
  BY <1>3, <1>5, <1>6

\* The databases, by number and by name.
LEMMA DatabaseFacts ==
    /\ Len(Databases) = 6
    /\ \A i \in 1 .. 6 : Databases[i] \in Dbs
    /\ \A d \in Dbs : \E i \in 1 .. 6 : d = Databases[i]
    /\ \A i, j \in 1 .. 6 : Databases[i] = Databases[j] => i = j
    /\ SquashedDbs \subseteq Dbs
    /\ Databases[5] = "analytics" /\ Databases[6] = "meter"
<1>1. Len(Databases) = 6
  BY DEF Databases
<1>2. \A i \in 1 .. 6 : Databases[i] \in Dbs
  BY <1>1 DEF Dbs
<1>3. \A d \in Dbs : \E i \in 1 .. 6 : d = Databases[i]
  BY <1>1 DEF Dbs
<1>4. \A i, j \in 1 .. 6 : Databases[i] = Databases[j] => i = j
  BY DEF Databases
<1>5. Databases[1] = "traces" /\ Databases[2] = "logs" /\ Databases[3] = "metrics"
  BY DEF Databases
<1>6. SquashedDbs \subseteq Dbs
  BY <1>2, <1>5 DEF SquashedDbs
<1>7. Databases[5] = "analytics" /\ Databases[6] = "meter"
  BY DEF Databases
<1> QED
  BY <1>1, <1>2, <1>3, <1>4, <1>6, <1>7

\* The lists of migrations, and what List finds.
LEMMA ListFacts ==
    /\ \A d \in SquashedDbs : <<"squashed", d>> \in Lists
    /\ \A d \in Dbs : <<"regular", d>> \in Lists
    /\ Start \in Lists
    /\ \A d \in SquashedDbs : List(<<"squashed", d>>) = Squashed[d]
    /\ \A d \in Dbs : List(<<"regular", d>>) = Regular[d]
    /\ \A l \in Lists : \/ \E d \in SquashedDbs : l = <<"squashed", d>>
                        \/ \E d \in Dbs : l = <<"regular", d>>
    /\ \A l \in Lists : List(l) \in Seq(Migrations) /\ Len(List(l)) \in Nat
    /\ \A l \in Lists : \A i \in 1 .. Len(List(l)) : List(l)[i] \in Migrations
<1>1. /\ \A d \in SquashedDbs : <<"squashed", d>> \in Lists
      /\ \A d \in Dbs : <<"regular", d>> \in Lists
  BY DEF Lists
<1>2. /\ \A d \in SquashedDbs : List(<<"squashed", d>>) = Squashed[d]
      /\ \A d \in Dbs : List(<<"regular", d>>) = Regular[d]
  BY DEF List
<1>3. \A l \in Lists : \/ \E d \in SquashedDbs : l = <<"squashed", d>>
                       \/ \E d \in Dbs : l = <<"regular", d>>
  BY DEF Lists
<1>4. \A l \in Lists : List(l) \in Seq(Migrations)
  BY <1>2, <1>3, MigrationAssumption
<1>5. Start \in Lists
  BY <1>1, DatabaseFacts DEF Start
<1> QED
  BY <1>1, <1>2, <1>3, <1>4, <1>5

\* The operations of a migration are all of one kind.
LEMMA OpsFacts ==
    ASSUME NEW m \in Migrations
    PROVE  /\ Len(Ops[m]) \in Nat
           /\ \A i \in 1 .. Len(Ops[m]) : Ops[m][i].kind \in Kinds
           /\ \A k1, k2 \in Kinds : IsOfKind(m, k1) /\ IsOfKind(m, k2) => k1 = k2
<1>1. Ops[m] \in Seq(Operation)
  BY MigrationAssumption
<1>2. \A i \in 1 .. Len(Ops[m]) : Ops[m][i] \in Operation
  BY <1>1
<1>3. ~(IsOfKind(m, "sync") /\ IsOfKind(m, "async"))
  BY KindAssumption
<1> QED
  BY <1>1, <1>2, <1>3 DEF Operation, Kinds

\* Every step leaves executed what was executed.
Grows == \A m \in Migrations : applied[m] \subseteq applied'[m]

\* What was executed stays executed.
LEMMA DoneGrows ==
    ASSUME Grows
    PROVE  /\ \A m \in Migrations : Done(m) => Done(m)'
           /\ \A l \in Lists : \A i, k : DoneUpTo(l, i, k) => DoneUpTo(l, i, k)'
           /\ \A l \in Lists : \A k : ListDone(l, k) => ListDone(l, k)'
           /\ \A m \in Migrations : RowMeans(m) => RowMeans(m)'
<1>1. \A m \in Migrations : Done(m) => Done(m)'
  BY DEF Grows, Done
<1>2. \A l \in Lists : \A i, k : DoneUpTo(l, i, k) => DoneUpTo(l, i, k)'
  BY <1>1, ListFacts DEF DoneUpTo
<1>3. \A l \in Lists : \A k : ListDone(l, k) => ListDone(l, k)'
  BY <1>2 DEF ListDone
<1>4. \A m \in Migrations : RowMeans(m) => RowMeans(m)'
  BY <1>1, <1>2 DEF RowMeans
<1> QED
  BY <1>1, <1>2, <1>3, <1>4

\* Marking a migration keeps what the rows mean.
LEMMA RowsKeep ==
    ASSUME MigratorTypeOK, RowInv, Grows, NEW m \in Migrations,
           \/ UNCHANGED row
           \/ InsertMigrationEntry(m, "failed")
           \/ InsertMigrationEntry(m, "finished") /\ RowMeans(m)
    PROVE  RowInv'
<1> SUFFICES ASSUME NEW n \in Migrations, NEW s \in Shards, row'[n][s] = "finished"
             PROVE  RowMeans(n)'
  BY DEF RowInv
<1>1. row[n][s] = "finished" \/ (n = m /\ RowMeans(m))
  BY DEF InsertMigrationEntry, MigratorTypeOK
<1> QED
  BY <1>1, DoneGrows DEF RowInv

-----------------------------------------------------------------------------
(* What a step of one process leaves alone *)

StepOf(p) ==
    /\ UNCHANGED <<kind, legacy>>
    /\ Grows
    /\ \A q \in Ups \ {p} : /\ pc'[q] = pc[q] /\ left'[q] = left[q] /\ cur'[q] = cur[q]
                            /\ mi'[q] = mi[q] /\ oi'[q] = oi[q]
    /\ \A q \in Checks \ {p} : pc'[q] = pc[q] /\ ci'[q] = ci[q]

\* The invariant of the other processes is kept.
LEMMA OthersKeep ==
    ASSUME MigratorInv, NEW p \in Procs, StepOf(p)
    PROVE  /\ \A q \in Ups \ {p} : UpInv(q)'
           /\ \A q \in Checks \ {p} : CheckInv(q)'
<1> USE DEF StepOf
<1>1. ASSUME NEW q \in Ups \ {p}
      PROVE  UpInv(q)'
  <2>1. /\ cur[q] \in Lists /\ kind'[q] = kind[q] /\ UpInv(q)
        /\ mi[q] \in Nat /\ kind[q] \in Kinds
    BY DEF MigratorInv, MigratorTypeOK, Procs
  <2>2. PlaceInv(q)'
    BY <2>1 DEF UpInv, PlaceInv, AtEnd, Mig
  <2>3. WorkInv(q)'
    <3>1. ASSUME Inside(q)'
          PROVE  DoneUpTo(cur[q], mi[q] - 1, kind[q])'
      <4>1. PICK l \in Lists, i \in Int, k \in Kinds : l = cur[q] /\ i = mi[q] - 1 /\ k = kind[q]
        BY <2>1
      <4>2. DoneUpTo(l, i, k)
        BY <2>1, <3>1, <4>1 DEF UpInv, WorkInv, Inside
      <4>3. DoneUpTo(l, i, k)'
        BY <4>2, DoneGrows
      <4> QED
        BY <2>1, <4>1, <4>3 DEF DoneUpTo
    <3>2. ASSUME pc'[q] \in {"ops", "fail"}
          PROVE  (IsOfKind(Mig(q), kind[q]) /\ 1 .. oi[q] \subseteq applied[Mig(q)])'
      <4>1. mi[q] \in 1 .. Len(List(cur[q]))
        BY <2>1, <3>2, ListFacts DEF UpInv, PlaceInv, AtEnd
      <4>2. Mig(q) \in Migrations
        BY <2>1, <4>1, ListFacts DEF Mig
      <4> QED
        BY <2>1, <3>2, <4>2 DEF UpInv, WorkInv, Mig, Grows
    <3> QED
      BY <3>1, <3>2 DEF WorkInv
  <2>4. SquashedInv(q)'
    <3> SUFFICES ASSUME legacy = {}, NEW d \in SquashedDbs,
                        \/ pc[q] = "squashed" /\ d \notin left[q]
                        \/ Inside(q) /\ cur[q][1] = "squashed" /\ d \notin left[q] /\ d # cur[q][2]
                        \/ Inside(q) /\ cur[q][1] = "regular"
                 PROVE  ListDone(<<"squashed", d>>, kind[q])'
      BY DEF SquashedInv, Inside
    <3>1. ListDone(<<"squashed", d>>, kind[q])
      BY <2>1 DEF UpInv, SquashedInv
    <3> QED
      BY <2>1, <3>1, DoneGrows, ListFacts
  <2> QED
    BY <2>2, <2>3, <2>4 DEF UpInv
<1>2. ASSUME NEW q \in Checks \ {p}
      PROVE  CheckInv(q)'
  <2>1. kind'[q] = kind[q] /\ CheckInv(q) /\ ci[q] \in 0 .. 6
    BY DatabaseFacts DEF MigratorInv, MigratorTypeOK
  <2>2. ASSUME pc[q] = "checking", NEW i \in 1 .. ci[q]
        PROVE  ListDone(<<"regular", Databases[i]>>, kind[q])'
    <3>1. <<"regular", Databases[i]>> \in Lists
      BY <2>1, DatabaseFacts, ListFacts
    <3>2. ListDone(<<"regular", Databases[i]>>, kind[q])
      BY <2>1, <2>2 DEF CheckInv
    <3> QED
      BY <2>1, <3>1, <3>2, DoneGrows
  <2> QED
    BY <2>1, <2>2 DEF CheckInv
<1> QED
  BY <1>1, <1>2

\* Outside its lists an up has nothing to answer for.
LEMMA LeaveKeeps ==
    ASSUME MigratorTypeOK, NEW p \in Ups, NEW at \in {"retry", "failed", "ok"}, UpLeave(p, at)
    PROVE  UpInv(p)'
<1>1. /\ pc'[p] = at /\ cur'[p] = Start /\ mi'[p] = 1 /\ oi'[p] = 0
  BY DEF UpLeave, Goto, MigratorTypeOK, Procs
<1>2. Len(List(Start)) \in Nat
  BY ListFacts
<1>3. PlaceInv(p)'
  BY <1>1, <1>2 DEF PlaceInv
<1>4. WorkInv(p)' /\ SquashedInv(p)'
  BY <1>1 DEF WorkInv, SquashedInv, Inside
<1> QED
  BY <1>3, <1>4 DEF UpInv

\* Executing an operation adds it to what was executed.
LEMMA ExecuteGrows ==
    ASSUME MigratorTypeOK, NEW m \in Migrations, NEW i \in 1 .. Len(Ops[m]), Execute(m, i)
    PROVE  /\ applied' \in [Migrations -> SUBSET Nat]
           /\ \A n \in Migrations : applied'[n] \subseteq 1 .. Len(Ops[n])
           /\ Grows
           /\ applied'[m] = applied[m] \cup {i}
<1>1. Len(Ops[m]) \in Nat
  BY OpsFacts
<1>2. applied' \in [Migrations -> SUBSET Nat]
  BY <1>1 DEF Execute, MigratorTypeOK
<1>3. \A n \in Migrations : applied'[n] = IF n = m THEN applied[n] \cup {i} ELSE applied[n]
  BY DEF Execute, MigratorTypeOK
<1>4. \A n \in Migrations : applied'[n] \subseteq 1 .. Len(Ops[n])
  BY <1>3 DEF MigratorTypeOK
<1> QED
  BY <1>2, <1>3, <1>4 DEF Grows

\* A status row keeps its type, also if the insert failed.
LEMMA InsertTypes ==
    ASSUME MigratorTypeOK, NEW m \in Migrations, NEW status \in {"failed", "finished"},
           UNCHANGED row \/ InsertMigrationEntry(m, status)
    PROVE  row' \in [Migrations -> [Shards -> {"none", "failed", "finished"}]]
<1>1. CASE UNCHANGED row
  BY <1>1 DEF MigratorTypeOK
<1>2. CASE InsertMigrationEntry(m, status)
  <2>1. PICK s \in Shards : row' = [row EXCEPT ![m][s] = status]
    BY <1>2 DEF InsertMigrationEntry
  <2>2. [row[m] EXCEPT ![s] = status] \in [Shards -> {"none", "failed", "finished"}]
    BY DEF MigratorTypeOK
  <2> QED
    BY <2>1, <2>2 DEF MigratorTypeOK
<1> QED
  BY <1>1, <1>2

\* The number of faults stays in its bounds.
LEMMA FaultTypes ==
    ASSUME MigratorTypeOK, Works \/ Fault
    PROVE  faults' \in 0 .. MaxFaults
<1>1. MaxFaults \in Nat
  BY MigrationAssumption
<1> QED
  BY <1>1 DEF Works, Fault, MigratorTypeOK

\* An up that leaves its list keeps its types.
LEMMA LeaveTypes ==
    ASSUME MigratorTypeOK, NEW p \in Ups, NEW at \in Pcs, UpLeave(p, at)
    PROVE  /\ pc' \in [Procs -> Pcs]
           /\ left' \in [Ups -> SUBSET SquashedDbs]
           /\ cur' \in [Ups -> Lists]
           /\ mi' \in [Ups -> Nat]
           /\ oi' \in [Ups -> Nat]
<1>1. Start \in Lists
  BY ListFacts
<1> QED
  BY <1>1 DEF UpLeave, Goto, MigratorTypeOK

\* The migration an up is at.
LEMMA AtMigration ==
    ASSUME MigratorInv, NEW p \in Ups, ~AtEnd(p)
    PROVE  /\ cur[p] \in Lists
           /\ mi[p] \in 1 .. Len(List(cur[p]))
           /\ Mig(p) \in Migrations
           /\ Mig(p) = List(cur[p])[mi[p]]
<1>1. cur[p] \in Lists /\ mi[p] \in 1 .. Len(List(cur[p])) + 1
  BY DEF MigratorInv, MigratorTypeOK, UpInv, PlaceInv
<1>2. Len(List(cur[p])) \in Nat
  BY <1>1, ListFacts
<1>3. mi[p] \in 1 .. Len(List(cur[p]))
  BY <1>1, <1>2 DEF AtEnd
<1> QED
  BY <1>1, <1>3, ListFacts DEF Mig

\* The steps before a list and between two lists.
LEMMA WalkKeeps ==
    ASSUME MigratorInv, NEW p \in Ups,
           \/ UpBegin(p)
           \/ \E d \in SquashedDbs : RunSquashed(p, d)
           \/ EnterRegular(p)
           \/ EndOfList(p)
    PROVE  MigratorTypeOK' /\ StepOf(p) /\ UpInv(p)' /\ RowInv'
<1> USE DEF MigratorInv
<1>0. p \notin Checks /\ p \in Procs
  BY MigrationAssumption DEF Procs
<1>1. Grows /\ UNCHANGED row /\ UNCHANGED <<kind, legacy, applied>>
  BY DEF UpBegin, RunSquashed, EnterRegular, EndOfList, Grows, store
<1>2. RowInv'
  BY <1>1, DoneGrows DEF RowInv
<1>3. kind'[p] = kind[p] /\ UpInv(p) /\ cur[p] \in Lists
  BY <1>1 DEF MigratorTypeOK
<1>4. CASE UpBegin(p)
  <2>1. MigratorTypeOK'
    BY <1>4, <1>1, <1>0 DEF UpBegin, Goto, Works, MigratorTypeOK, store, Pcs, UpPcs
  <2>2. StepOf(p)
    BY <1>4, <1>1, <1>0 DEF UpBegin, Goto, StepOf, MigratorTypeOK, Procs, store
  <2>3. /\ pc'[p] = "squashed" /\ left'[p] = SquashedDbs
        /\ pc[p] = "begin" /\ UNCHANGED <<cur, mi, oi>>
    BY <1>4, <1>0 DEF UpBegin, Goto, MigratorTypeOK
  <2>4. PlaceInv(p)'
    BY <2>3, <1>3 DEF UpInv, PlaceInv
  <2>5. WorkInv(p)' /\ SquashedInv(p)'
    BY <2>3 DEF WorkInv, SquashedInv, Inside
  <2> QED
    BY <1>2, <2>1, <2>2, <2>4, <2>5 DEF UpInv
<1>5. ASSUME NEW d \in SquashedDbs, RunSquashed(p, d)
      PROVE  MigratorTypeOK' /\ StepOf(p) /\ UpInv(p)'
  <2>0. <<"squashed", d>> \in Lists /\ List(<<"squashed", d>>) = Squashed[d]
    BY ListFacts
  <2>1. CASE /\ d \notin legacy /\ Squashed[d] = <<>>
             /\ left' = [left EXCEPT ![p] = @ \ {d}]
             /\ UNCHANGED <<cur, mi, pc>>
    <3>1. MigratorTypeOK'
      BY <1>5, <1>1, <1>0, <2>1 DEF RunSquashed, Works, MigratorTypeOK
    <3>2. StepOf(p)
      BY <1>5, <1>1, <1>0, <2>1 DEF RunSquashed, StepOf, MigratorTypeOK, Procs
    <3>3. pc'[p] = "squashed" /\ pc[p] = "squashed" /\ UNCHANGED oi /\ left'[p] = left[p] \ {d}
      BY <1>5, <2>1 DEF RunSquashed, MigratorTypeOK
    <3>4. PlaceInv(p)' /\ WorkInv(p)'
      BY <2>1, <3>3, <1>3 DEF UpInv, PlaceInv, WorkInv, Inside
    <3>5. ListDone(<<"squashed", d>>, kind[p])
      BY <2>0, <2>1 DEF ListDone, DoneUpTo
    <3>6. SquashedInv(p)'
      <4> SUFFICES ASSUME legacy = {}, NEW e \in SquashedDbs, e \notin left[p] \ {d}
                   PROVE  ListDone(<<"squashed", e>>, kind[p])'
        BY <1>1, <3>3 DEF SquashedInv, Inside
      <4>1. ListDone(<<"squashed", e>>, kind[p])
        BY <1>3, <3>3, <3>5 DEF UpInv, SquashedInv
      <4> QED
        BY <4>1, <1>1, <1>3, DoneGrows, ListFacts
    <3> QED
      BY <3>1, <3>2, <3>4, <3>6 DEF UpInv
  <2>2. CASE /\ d \notin legacy /\ Squashed[d] # <<>>
             /\ left' = [left EXCEPT ![p] = @ \ {d}]
             /\ Enter(p, <<"squashed", d>>)
             /\ Goto(p, "migration")
    <3>1. MigratorTypeOK'
      BY <1>5, <1>1, <1>0, <2>0, <2>2
      DEF RunSquashed, Enter, Goto, Works, MigratorTypeOK, Pcs, UpPcs
    <3>2. StepOf(p)
      BY <1>5, <1>1, <1>0, <2>2 DEF RunSquashed, Enter, Goto, StepOf, MigratorTypeOK, Procs
    <3>3. /\ pc'[p] = "migration" /\ pc[p] = "squashed" /\ UNCHANGED oi
          /\ left'[p] = left[p] \ {d} /\ cur'[p] = <<"squashed", d>> /\ mi'[p] = 1
      BY <1>5, <1>0, <2>2 DEF RunSquashed, Enter, Goto, MigratorTypeOK
    <3>4. Len(List(cur'[p])) \in Nat
      BY <2>0, <3>3, ListFacts
    <3>5. PlaceInv(p)' /\ WorkInv(p)'
      BY <3>3, <3>4, <1>3 DEF UpInv, PlaceInv, WorkInv, DoneUpTo
    <3>6. SquashedInv(p)'
      <4> SUFFICES ASSUME legacy = {}, NEW e \in SquashedDbs, e \notin left[p] \ {d}, e # d
                   PROVE  ListDone(<<"squashed", e>>, kind[p])'
        BY <1>1, <3>3 DEF SquashedInv, Inside
      <4>1. ListDone(<<"squashed", e>>, kind[p])
        BY <1>3, <3>3 DEF UpInv, SquashedInv
      <4> QED
        BY <4>1, <1>1, <1>3, DoneGrows, ListFacts
    <3> QED
      BY <3>1, <3>2, <3>5, <3>6 DEF UpInv
  <2>3. CASE /\ d \in legacy
             /\ left' = [left EXCEPT ![p] = {}]
             /\ UNCHANGED <<cur, mi, pc>>
    <3>1. MigratorTypeOK'
      BY <1>5, <1>1, <1>0, <2>3 DEF RunSquashed, Works, MigratorTypeOK
    <3>2. StepOf(p)
      BY <1>5, <1>1, <1>0, <2>3 DEF RunSquashed, StepOf, MigratorTypeOK, Procs
    <3>3. pc'[p] = "squashed" /\ pc[p] = "squashed" /\ UNCHANGED oi
      BY <1>5, <2>3 DEF RunSquashed
    <3>4. PlaceInv(p)' /\ WorkInv(p)'
      BY <2>3, <3>3, <1>3 DEF UpInv, PlaceInv, WorkInv, Inside
    <3>5. SquashedInv(p)'
      BY <1>1, <2>3 DEF SquashedInv
    <3> QED
      BY <3>1, <3>2, <3>4, <3>5 DEF UpInv
  <2> QED
    BY <1>5, <2>1, <2>2, <2>3 DEF RunSquashed
<1>6. CASE EnterRegular(p)
  <2>1. MigratorTypeOK'
    BY <1>6, <1>1, <1>0, ListFacts DEF EnterRegular, Enter, Goto, Works, MigratorTypeOK, Pcs, UpPcs
  <2>2. StepOf(p)
    BY <1>6, <1>1, <1>0 DEF EnterRegular, Enter, Goto, StepOf, MigratorTypeOK, Procs
  <2>3. /\ pc'[p] = "migration" /\ pc[p] = "squashed" /\ left[p] = {}
        /\ cur'[p] = Start /\ mi'[p] = 1 /\ UNCHANGED oi
    BY <1>6, <1>0 DEF EnterRegular, Enter, Goto, MigratorTypeOK
  <2>4. Len(List(cur'[p])) \in Nat
    BY <2>3, ListFacts
  <2>5. PlaceInv(p)' /\ WorkInv(p)'
    BY <2>3, <2>4, <1>3 DEF UpInv, PlaceInv, WorkInv, DoneUpTo
  <2>6. SquashedInv(p)'
    <3> SUFFICES ASSUME legacy = {}, NEW d \in SquashedDbs
                 PROVE  ListDone(<<"squashed", d>>, kind[p])'
      BY <1>1 DEF SquashedInv
    <3>1. ListDone(<<"squashed", d>>, kind[p])
      BY <1>3, <2>3 DEF UpInv, SquashedInv
    <3> QED
      BY <3>1, <1>1, <1>3, DoneGrows, ListFacts
  <2> QED
    BY <1>2, <2>1, <2>2, <2>5, <2>6 DEF UpInv
<1>7. CASE EndOfList(p)
  <2>0. /\ pc[p] = "migration" /\ mi[p] > Len(List(cur[p])) /\ oi[p] = 0
        /\ DoneUpTo(cur[p], mi[p] - 1, kind[p])
        /\ Len(List(cur[p])) \in Nat /\ mi[p] \in Nat
    BY <1>7, <1>3, ListFacts
    DEF EndOfList, AtEnd, UpInv, WorkInv, PlaceInv, Inside, MigratorTypeOK
  <2>1. ListDone(cur[p], kind[p])
    BY <2>0 DEF DoneUpTo, ListDone
  <2>2. CASE /\ cur[p][1] = "squashed"
             /\ Enter(p, Start)
             /\ Goto(p, "squashed")
             /\ UNCHANGED <<left, oi>>
    <3>1. MigratorTypeOK'
      BY <1>7, <1>1, <1>0, <2>2, ListFacts
      DEF EndOfList, Enter, Goto, Works, MigratorTypeOK, Pcs, UpPcs
    <3>2. StepOf(p)
      BY <1>7, <1>1, <1>0, <2>2 DEF EndOfList, Enter, Goto, StepOf, MigratorTypeOK, Procs
    <3>3. /\ pc'[p] = "squashed" /\ cur'[p] = Start /\ mi'[p] = 1 /\ UNCHANGED <<left, oi>>
      BY <1>0, <2>2 DEF Enter, Goto, MigratorTypeOK
    <3>4. Len(List(cur'[p])) \in Nat
      BY <3>3, ListFacts
    <3>5. PlaceInv(p)' /\ WorkInv(p)'
      BY <2>0, <3>3, <3>4, <1>3 DEF UpInv, PlaceInv, WorkInv, Inside
    <3>6. PICK d \in SquashedDbs : cur[p] = <<"squashed", d>>
      BY <1>3, <2>2, ListFacts
    <3>7. SquashedInv(p)'
      <4> SUFFICES ASSUME legacy = {}, NEW e \in SquashedDbs, e \notin left[p]
                   PROVE  ListDone(<<"squashed", e>>, kind[p])'
        BY <1>1, <3>3 DEF SquashedInv, Inside
      <4>1. ListDone(<<"squashed", e>>, kind[p])
        BY <1>3, <2>0, <2>1, <2>2, <3>6 DEF UpInv, SquashedInv, Inside
      <4> QED
        BY <4>1, <1>1, <1>3, DoneGrows, ListFacts
    <3> QED
      BY <1>2, <3>1, <3>2, <3>5, <3>7 DEF UpInv
  <2>3. ASSUME NEW i \in 1 .. Len(Databases), NEW j \in 1 .. Len(Databases),
               cur[p] = <<"regular", Databases[i]>>,
               Enter(p, <<"regular", Databases[j]>>), UNCHANGED <<pc, left, oi>>
        PROVE  MigratorTypeOK' /\ StepOf(p) /\ UpInv(p)' /\ RowInv'
    <3>0. <<"regular", Databases[j]>> \in Lists
      BY DatabaseFacts, ListFacts
    <3>1. MigratorTypeOK'
      BY <1>7, <1>1, <1>0, <2>3, <3>0 DEF EndOfList, Enter, Works, MigratorTypeOK
    <3>2. StepOf(p)
      BY <1>7, <1>1, <1>0, <2>3 DEF EndOfList, Enter, StepOf, MigratorTypeOK, Procs
    <3>3. cur'[p] = <<"regular", Databases[j]>> /\ mi'[p] = 1 /\ UNCHANGED <<pc, left, oi>>
      BY <2>3 DEF Enter, MigratorTypeOK
    <3>4. Len(List(cur'[p])) \in Nat
      BY <3>0, <3>3, ListFacts
    <3>5. PlaceInv(p)' /\ WorkInv(p)'
      BY <2>0, <3>3, <3>4, <1>3 DEF UpInv, PlaceInv, WorkInv, DoneUpTo
    <3>6. SquashedInv(p)'
      <4> SUFFICES ASSUME legacy = {}, NEW d \in SquashedDbs
                   PROVE  ListDone(<<"squashed", d>>, kind[p])'
        BY <1>1 DEF SquashedInv
      <4>1. ListDone(<<"squashed", d>>, kind[p])
        BY <1>3, <2>0, <2>3 DEF UpInv, SquashedInv, Inside
      <4> QED
        BY <4>1, <1>1, <1>3, DoneGrows, ListFacts
    <3> QED
      BY <1>2, <3>1, <3>2, <3>5, <3>6 DEF UpInv
  <2>4. CASE UpLeave(p, "ok")
    <3>1. MigratorTypeOK'
      BY <1>7, <1>1, <1>0, <2>4, LeaveTypes DEF EndOfList, Works, MigratorTypeOK, Pcs, UpPcs
    <3>2. StepOf(p)
      BY <1>7, <1>1, <1>0, <2>4 DEF EndOfList, UpLeave, Goto, StepOf, MigratorTypeOK, Procs
    <3> QED
      BY <1>2, <2>4, <3>1, <3>2, LeaveKeeps
  <2> QED
    BY <1>7, <2>2, <2>3, <2>4 DEF EndOfList
<1> QED
  BY <1>2, <1>4, <1>5, <1>6, <1>7

\* The steps within a list.
LEMMA RunKeeps ==
    ASSUME MigratorInv, NEW p \in Ups,
           \/ SkipMigration(p) \/ StartMigration(p) \/ RunOp(p) \/ MarkFinished(p)
           \/ MarkFailed(p) \/ UpQueryFails(p) \/ OpFails(p) \/ MarkFinishedFails(p)
    PROVE  MigratorTypeOK' /\ StepOf(p) /\ UpInv(p)' /\ RowInv'
<1> USE DEF MigratorInv
<1>0. p \notin Checks /\ p \in Procs
  BY MigrationAssumption DEF Procs
<1>1. UNCHANGED <<kind, legacy>>
  BY DEF SkipMigration, StartMigration, RunOp, MarkFinished, MarkFailed, UpQueryFails,
         OpFails, MarkFinishedFails, store
<1>2. kind'[p] = kind[p] /\ UpInv(p) /\ cur[p] \in Lists /\ mi[p] \in Nat /\ kind[p] \in Kinds
  BY <1>0, <1>1 DEF MigratorTypeOK
<1>3. ASSUME Inside(p)', Grows, cur'[p] = cur[p], left'[p] = left[p], Inside(p)
      PROVE  SquashedInv(p)'
  <2> SUFFICES ASSUME legacy = {}, NEW d \in SquashedDbs,
                      \/ cur[p][1] = "squashed" /\ d \notin left[p] /\ d # cur[p][2]
                      \/ cur[p][1] = "regular"
               PROVE  ListDone(<<"squashed", d>>, kind[p])'
    BY <1>1, <1>3 DEF SquashedInv, Inside
  <2>1. ListDone(<<"squashed", d>>, kind[p])
    BY <1>2, <1>3 DEF UpInv, SquashedInv
  <2> QED
    BY <2>1, <1>2, <1>3, DoneGrows, ListFacts
<1>4. ASSUME pc[p] \in {"ops", "fail"}
      PROVE  /\ ~AtEnd(p) /\ oi[p] \in 0 .. Len(Ops[Mig(p)]) /\ Len(Ops[Mig(p)]) \in Nat
             /\ IsOfKind(Mig(p), kind[p]) /\ 1 .. oi[p] \subseteq applied[Mig(p)]
             /\ DoneUpTo(cur[p], mi[p] - 1, kind[p])
  <2>1. ~AtEnd(p) /\ oi[p] <= Len(Ops[Mig(p)])
    BY <1>2, <1>4 DEF UpInv, PlaceInv
  <2>2. Len(Ops[Mig(p)]) \in Nat /\ oi[p] \in Nat
    BY <2>1, AtMigration, OpsFacts DEF MigratorTypeOK
  <2> QED
    BY <2>1, <2>2, <1>2, <1>4 DEF UpInv, WorkInv, Inside
\* A migration that is done, or not of the kind, is left behind.
<1>5. ASSUME pc[p] \in {"migration", "ops"}, NextMigration(p), Grows, ~AtEnd(p),
             UNCHANGED <<cur, left>>,
             IsOfKind(Mig(p), kind[p]) => Done(Mig(p))
      PROVE  UpInv(p)'
  <2>1. pc'[p] = "migration" /\ mi'[p] = mi[p] + 1 /\ oi'[p] = 0
    BY <1>0, <1>5 DEF NextMigration, Goto, MigratorTypeOK
  <2>2. /\ mi[p] \in 1 .. Len(List(cur[p])) /\ Len(List(cur[p])) \in Nat
        /\ Mig(p) = List(cur[p])[mi[p]]
    BY <1>5, AtMigration, ListFacts
  <2>3. PlaceInv(p)'
    BY <2>1, <2>2, <1>5 DEF PlaceInv
  <2>4. DoneUpTo(cur[p], mi[p], kind[p])
    <3>1. DoneUpTo(cur[p], mi[p] - 1, kind[p])
      BY <1>2, <1>5 DEF UpInv, WorkInv, Inside
    <3> QED
      BY <2>2, <3>1, <1>5 DEF DoneUpTo
  <2>5. WorkInv(p)'
    <3>1. PICK l \in Lists, i \in Nat, k \in Kinds : l = cur[p] /\ i = mi[p] /\ k = kind[p]
      BY <1>2
    <3>2. DoneUpTo(l, i, k)'
      BY <1>5, <2>4, <3>1, DoneGrows
    <3>3. cur'[p] = l /\ mi'[p] - 1 = i /\ kind'[p] = k
      BY <1>2, <1>5, <2>1, <3>1
    <3>4. DoneUpTo(cur[p], mi[p] - 1, kind[p])'
      BY <3>2, <3>3 DEF DoneUpTo
    <3> QED
      BY <2>1, <3>4 DEF WorkInv
  <2>6. SquashedInv(p)'
    BY <1>3, <1>5, <2>1 DEF Inside
  <2> QED
    BY <2>3, <2>5, <2>6 DEF UpInv
<1>6. CASE SkipMigration(p)
  <2>1. Grows /\ UNCHANGED row
    BY <1>6 DEF SkipMigration, Grows, store
  <2>2. MigratorTypeOK'
    BY <1>6, <1>0 DEF SkipMigration, NextMigration, Goto, Works, MigratorTypeOK, store, Pcs, UpPcs
  <2>3. StepOf(p)
    BY <1>6, <1>0, <1>1, <2>1
    DEF SkipMigration, NextMigration, Goto, StepOf, MigratorTypeOK, Procs
  <2>4. RowInv'
    BY <2>1, DoneGrows DEF RowInv
  <2>5. IsOfKind(Mig(p), kind[p]) => Done(Mig(p))
    <3> SUFFICES ASSUME IsOfKind(Mig(p), kind[p])
                 PROVE  Done(Mig(p))
      OBVIOUS
    <3>1. Mig(p) \in Migrations
      BY <1>6, AtMigration DEF SkipMigration
    <3>2. \E s \in Shards : row[Mig(p)][s] = "finished"
      BY <1>6 DEF SkipMigration, SeenFinished, Statuses
    <3> QED
      BY <3>1, <3>2 DEF RowInv, RowMeans
  <2>6. UpInv(p)'
    BY <1>5, <1>6, <2>1, <2>5 DEF SkipMigration
  <2> QED
    BY <2>2, <2>3, <2>4, <2>6
<1>7. CASE StartMigration(p)
  <2>1. Grows /\ UNCHANGED row
    BY <1>7 DEF StartMigration, Grows, store
  <2>2. MigratorTypeOK'
    BY <1>7, <1>0 DEF StartMigration, Goto, Works, MigratorTypeOK, store, Pcs, UpPcs
  <2>3. StepOf(p)
    BY <1>7, <1>0, <1>1, <2>1 DEF StartMigration, Goto, StepOf, MigratorTypeOK, Procs
  <2>4. RowInv'
    BY <2>1, DoneGrows DEF RowInv
  <2>5. /\ pc[p] = "migration" /\ pc'[p] = "ops" /\ UNCHANGED <<left, cur, mi, oi, kind, applied>>
        /\ ~AtEnd(p) /\ IsOfKind(Mig(p), kind[p])
    BY <1>7, <1>0 DEF StartMigration, Goto, MigratorTypeOK, store
  <2>6. oi[p] = 0 /\ Len(Ops[Mig(p)]) \in Nat
    BY <1>2, <2>5, AtMigration, OpsFacts DEF UpInv, PlaceInv
  <2>7. PlaceInv(p)'
    BY <1>2, <2>5, <2>6 DEF UpInv, PlaceInv, AtEnd, Mig
  <2>8. DoneUpTo(cur[p], mi[p] - 1, kind[p])
    BY <1>2, <2>5 DEF UpInv, WorkInv, Inside
  <2>9. DoneUpTo(cur[p], mi[p] - 1, kind[p])'
    BY <2>5, <2>8 DEF DoneUpTo, Done
  <2>10. (IsOfKind(Mig(p), kind[p]) /\ 1 .. oi[p] \subseteq applied[Mig(p)])'
    BY <2>5, <2>6 DEF Mig
  <2>11. WorkInv(p)'
    BY <2>9, <2>10 DEF WorkInv
  <2>12. SquashedInv(p)'
    BY <1>3, <2>1, <2>5 DEF Inside
  <2> QED
    BY <2>2, <2>3, <2>4, <2>7, <2>11, <2>12 DEF UpInv
<1>8. CASE UpQueryFails(p)
  <2>1. Grows /\ UNCHANGED row
    BY <1>8 DEF UpQueryFails, Grows, store
  <2>2. UpLeave(p, "retry") /\ UNCHANGED <<store, ci>> /\ Fault
    BY <1>8 DEF UpQueryFails
  <2>3. MigratorTypeOK'
    BY <2>2, LeaveTypes, FaultTypes DEF MigratorTypeOK, store, Pcs, UpPcs
  <2>4. StepOf(p)
    BY <1>0, <1>1, <2>1, <2>2 DEF UpLeave, Goto, StepOf, MigratorTypeOK, Procs
  <2>5. RowInv'
    BY <2>1, DoneGrows DEF RowInv
  <2> QED
    BY <2>2, <2>3, <2>4, <2>5, LeaveKeeps
\* One more operation is executed.
<1>9. ASSUME pc[p] = "ops", oi[p] < Len(Ops[Mig(p)]),
             Execute(Mig(p), oi[p] + 1) \/ UNCHANGED applied,
             pc'[p] \in {"ops", "fail"}, UNCHANGED <<left, cur, mi>>,
             oi'[p] = oi[p] \/ (oi'[p] = oi[p] + 1 /\ Execute(Mig(p), oi[p] + 1))
      PROVE  /\ applied' \in [Migrations -> SUBSET Nat]
             /\ \A n \in Migrations : applied'[n] \subseteq 1 .. Len(Ops[n])
             /\ Grows /\ UpInv(p)'
  <2>1. /\ Mig(p) \in Migrations /\ oi[p] + 1 \in 1 .. Len(Ops[Mig(p)])
        /\ oi[p] \in Nat /\ Len(Ops[Mig(p)]) \in Nat
    BY <1>4, <1>9, AtMigration
  <2>2. /\ applied' \in [Migrations -> SUBSET Nat]
        /\ \A n \in Migrations : applied'[n] \subseteq 1 .. Len(Ops[n])
        /\ Grows
        /\ Execute(Mig(p), oi[p] + 1) => applied'[Mig(p)] = applied[Mig(p)] \cup {oi[p] + 1}
    <3>1. CASE Execute(Mig(p), oi[p] + 1)
      BY <2>1, <3>1, ExecuteGrows
    <3>2. CASE UNCHANGED applied /\ ~Execute(Mig(p), oi[p] + 1)
      BY <3>2 DEF MigratorTypeOK, Grows
    <3> QED
      BY <1>9, <3>1, <3>2
  <2>3. PlaceInv(p)'
    BY <1>2, <1>4, <1>9, <2>1 DEF UpInv, PlaceInv, AtEnd, Mig
  <2>4. (IsOfKind(Mig(p), kind[p]) /\ 1 .. oi[p] \subseteq applied[Mig(p)])'
    <3>1. IsOfKind(Mig(p), kind[p]) /\ 1 .. oi[p] \subseteq applied[Mig(p)]
      BY <1>4, <1>9
    <3>2. 1 .. oi'[p] \subseteq applied'[Mig(p)]
      BY <1>9, <2>1, <2>2, <3>1 DEF Grows
    <3> QED
      BY <1>2, <1>9, <3>1, <3>2 DEF Mig
  <2>5. DoneUpTo(cur[p], mi[p] - 1, kind[p])'
    <3>1. PICK l \in Lists, i \in Int, k \in Kinds : l = cur[p] /\ i = mi[p] - 1 /\ k = kind[p]
      BY <1>2
    <3>2. DoneUpTo(l, i, k)'
      BY <1>4, <1>9, <2>2, <3>1, DoneGrows
    <3> QED
      BY <1>2, <1>9, <3>1, <3>2 DEF DoneUpTo
  <2>6. SquashedInv(p)'
    BY <1>3, <1>9, <2>2 DEF Inside
  <2> QED
    BY <2>2, <2>3, <2>4, <2>5, <2>6 DEF UpInv, WorkInv
<1>10. CASE RunOp(p)
  <2>1. /\ pc[p] = "ops" /\ oi[p] < Len(Ops[Mig(p)]) /\ Execute(Mig(p), oi[p] + 1)
        /\ oi' = [oi EXCEPT ![p] = @ + 1] /\ oi'[p] = oi[p] + 1
        /\ UNCHANGED <<kind, legacy, row, pc, left, cur, mi, ci, faults>>
    BY <1>10 DEF RunOp, Works, MigratorTypeOK
  <2>2. /\ applied' \in [Migrations -> SUBSET Nat]
        /\ \A n \in Migrations : applied'[n] \subseteq 1 .. Len(Ops[n])
        /\ Grows /\ UpInv(p)'
    BY <1>9, <2>1
  <2>3. MigratorTypeOK'
    BY <2>1, <2>2 DEF MigratorTypeOK
  <2>4. StepOf(p)
    BY <1>0, <2>1, <2>2 DEF StepOf, MigratorTypeOK
  <2>5. RowInv'
    BY <2>1, <2>2, DoneGrows DEF RowInv
  <2> QED
    BY <2>2, <2>3, <2>4, <2>5
<1>11. CASE OpFails(p)
  <2>1. /\ pc[p] = "ops" /\ oi[p] < Len(Ops[Mig(p)]) /\ Fault
        /\ Execute(Mig(p), oi[p] + 1) \/ UNCHANGED applied
        /\ Goto(p, "fail") /\ pc'[p] = "fail"
        /\ UNCHANGED <<kind, legacy, row, left, cur, mi, oi, ci>>
    BY <1>11, <1>0 DEF OpFails, Goto, MigratorTypeOK
  <2>2. /\ applied' \in [Migrations -> SUBSET Nat]
        /\ \A n \in Migrations : applied'[n] \subseteq 1 .. Len(Ops[n])
        /\ Grows /\ UpInv(p)'
    BY <1>9, <2>1
  <2>3. MigratorTypeOK'
    BY <2>1, <2>2, FaultTypes DEF MigratorTypeOK, Goto, Pcs, UpPcs
  <2>4. StepOf(p)
    BY <1>0, <2>1, <2>2 DEF StepOf, MigratorTypeOK, Goto, Procs
  <2>5. RowInv'
    BY <2>1, <2>2, DoneGrows DEF RowInv
  <2> QED
    BY <2>2, <2>3, <2>4, <2>5
\* What "finished" will mean is so before it is written.
<1>12. ASSUME pc[p] = "ops", oi[p] = Len(Ops[Mig(p)])
       PROVE  RowMeans(Mig(p)) /\ Mig(p) \in Migrations /\ ~AtEnd(p)
  <2>1. Done(Mig(p))
    BY <1>4, <1>12 DEF Done
  <2>2. /\ mi[p] \in 1 .. Len(List(cur[p])) /\ Mig(p) = List(cur[p])[mi[p]]
        /\ Mig(p) \in Migrations
    BY <1>4, <1>12, AtMigration
  <2>3. ASSUME NEW l \in Lists, NEW i \in 1 .. Len(List(l)), NEW k \in Kinds,
               List(l)[i] = Mig(p), IsOfKind(Mig(p), k)
        PROVE  DoneUpTo(l, i, k)
    <3>1. l = cur[p] /\ i = mi[p]
      BY <1>2, <2>2, <2>3, PlaceAssumption
    <3>2. k = kind[p]
      BY <1>2, <1>4, <1>12, <2>2, <2>3, OpsFacts
    <3>3. DoneUpTo(cur[p], mi[p] - 1, kind[p])
      BY <1>4, <1>12
    <3> QED
      BY <1>2, <2>1, <2>2, <3>1, <3>2, <3>3, ListFacts DEF DoneUpTo
  <2> QED
    BY <1>4, <1>12, <2>1, <2>2, <2>3 DEF RowMeans
<1>13. CASE MarkFinished(p)
  <2>1. /\ pc[p] = "ops" /\ oi[p] = Len(Ops[Mig(p)]) /\ InsertMigrationEntry(Mig(p), "finished")
        /\ NextMigration(p) /\ UNCHANGED <<kind, legacy, applied, left, cur, ci, faults>>
    BY <1>13 DEF MarkFinished, Works
  <2>2. Grows
    BY <2>1 DEF Grows
  <2>3. MigratorTypeOK'
    BY <2>1, <1>12, <1>0, InsertTypes DEF NextMigration, Goto, MigratorTypeOK, Pcs, UpPcs
  <2>4. StepOf(p)
    BY <1>0, <2>1, <2>2 DEF NextMigration, Goto, StepOf, MigratorTypeOK, Procs
  <2>5. RowInv'
    BY <1>12, <2>1, <2>2, RowsKeep
  <2>6. UpInv(p)'
    BY <1>5, <1>12, <2>1, <2>2 DEF RowMeans
  <2> QED
    BY <2>3, <2>4, <2>5, <2>6
<1>14. CASE MarkFailed(p)
  <2>1. /\ pc[p] = "fail"
        /\ UNCHANGED row \/ InsertMigrationEntry(Mig(p), "failed")
        /\ UpLeave(p, "failed") /\ UNCHANGED <<kind, legacy, applied, ci>> /\ (Works \/ Fault)
    BY <1>14 DEF MarkFailed
  <2>2. Grows /\ Mig(p) \in Migrations
    BY <1>4, <2>1, AtMigration DEF Grows
  <2>3. MigratorTypeOK'
    BY <2>1, <2>2, InsertTypes, LeaveTypes, FaultTypes DEF MigratorTypeOK, Pcs, UpPcs
  <2>4. StepOf(p)
    BY <1>0, <2>1, <2>2 DEF UpLeave, Goto, StepOf, MigratorTypeOK, Procs
  <2>5. RowInv'
    BY <2>1, <2>2, RowsKeep
  <2> QED
    BY <2>1, <2>3, <2>4, <2>5, LeaveKeeps
<1>15. CASE MarkFinishedFails(p)
  <2>1. PICK at \in {"retry", "failed"} : UpLeave(p, at)
    BY <1>15 DEF MarkFinishedFails
  <2>2. /\ pc[p] = "ops" /\ oi[p] = Len(Ops[Mig(p)]) /\ Fault
        /\ UNCHANGED row \/ InsertMigrationEntry(Mig(p), "finished")
        /\ UNCHANGED <<kind, legacy, applied, ci>>
    BY <1>15 DEF MarkFinishedFails
  <2>3. Grows
    BY <2>2 DEF Grows
  <2>4. MigratorTypeOK'
    BY <2>1, <2>2, <1>12, InsertTypes, LeaveTypes, FaultTypes DEF MigratorTypeOK, Pcs, UpPcs
  <2>5. StepOf(p)
    BY <1>0, <2>1, <2>2, <2>3 DEF UpLeave, Goto, StepOf, MigratorTypeOK, Procs
  <2>6. RowInv'
    BY <1>12, <2>2, <2>3, RowsKeep
  <2> QED
    BY <2>1, <2>4, <2>5, <2>6, LeaveKeeps
<1> QED
  BY <1>6, <1>7, <1>8, <1>10, <1>11, <1>13, <1>14, <1>15

-----------------------------------------------------------------------------
(* The checks, and the loop around every command *)

\* The databases without a last migration of a kind have none of it; where the
\* last one is marked as finished, all of them were executed.
LEMMA LastTells ==
    ASSUME RowInv, NEW d \in Dbs, NEW k \in Kinds,
           \A m \in LastOfKind(d, k) : SeenFinished(m)
    PROVE  ListDone(<<"regular", d>>, k)
<1> DEFINE L == Regular[d]
           T == {j \in 1 .. Len(L) : IsOfKind(L[j], k)}
<1>1. /\ <<"regular", d>> \in Lists /\ List(<<"regular", d>>) = L /\ Len(L) \in Nat
      /\ \A i \in 1 .. Len(L) : L[i] \in Migrations
  BY ListFacts
<1>2. CASE T = {}
  <2>1. \A j \in 1 .. Len(L) : ~IsOfKind(L[j], k)
    BY <1>2
  <2> QED
    BY <1>1, <2>1 DEF ListDone, DoneUpTo
<1>3. CASE T # {}
  <2>1. T \subseteq 1 .. Len(L)
    OBVIOUS
  <2>2. PICK j \in T : \A n \in T : n <= j
    <3> HIDE DEF T
    <3> QED
      BY <1>1, <1>3, <2>1, Greatest
  <2>3. L[j] \in LastOfKind(d, k)
    BY <1>1, <2>2 DEF LastOfKind
  <2>4. \E s \in Shards : row[L[j]][s] = "finished"
    BY <2>3 DEF SeenFinished, Statuses
  <2>5. DoneUpTo(<<"regular", d>>, j, k)
    BY <1>1, <2>2, <2>4 DEF RowInv, RowMeans
  <2>6. \A n \in 1 .. Len(L) : IsOfKind(L[n], k) => n <= j
    BY <2>2
  <2> QED
    BY <1>1, <2>5, <2>6 DEF ListDone, DoneUpTo
<1> QED
  BY <1>2, <1>3

\* A check that finds nothing more to look at has seen all databases executed.
LEMMA CheckReturnsTells ==
    ASSUME MigratorInv, NEW p \in Checks, pc[p] = "checking", Checked(p) = {},
           NEW d \in Dbs
    PROVE  ListDone(<<"regular", d>>, kind[p])
<1> USE DEF MigratorInv
<1>1. kind[p] \in Kinds /\ ci[p] \in 0 .. 6 /\ CheckInv(p)
  BY DatabaseFacts DEF MigratorTypeOK, Procs
<1>2. PICK i \in 1 .. 6 : d = Databases[i]
  BY DatabaseFacts
<1>3. CASE i <= ci[p]
  BY <1>1, <1>2, <1>3 DEF CheckInv
<1>4. CASE i > ci[p] /\ LastOfKind(d, kind[p]) = {}
  BY <1>1, <1>4, LastTells
<1>5. CASE i > ci[p] /\ LastOfKind(d, kind[p]) # {}
  <2> DEFINE T == {j \in ci[p] + 1 .. 6 : LastOfKind(Databases[j], kind[p]) # {}}
  <2>1. i \in T /\ T \subseteq Nat
    BY <1>1, <1>2, <1>5
  <2>2. PICK x \in T : \A y \in T : x <= y
    <3> HIDE DEF T
    <3> QED
      BY <2>1, Least
  <2>3. \A j \in ci[p] + 1 .. x - 1 : LastOfKind(Databases[j], kind[p]) = {}
    BY <1>1, <2>2
  <2>4. kind[p] = "async" /\ ci[p] >= 4
    BY <1>1, <2>2, <2>3, DatabaseFacts DEF Checked
  <2>5. i \in {5, 6}
    BY <1>1, <1>5, <2>4
  <2>6. \A j \in 1 .. Len(Regular[d]) : ~IsOfKind(Regular[d][j], "async")
    BY <1>2, <2>5, DatabaseFacts, KindAssumption
  <2> QED
    BY <2>4, <2>6, ListFacts DEF ListDone, DoneUpTo
<1> QED
  BY <1>1, <1>3, <1>4, <1>5

\* The steps of a check.
LEMMA CheckKeeps ==
    ASSUME MigratorInv, NEW p \in Checks, CheckStep(p)
    PROVE  MigratorTypeOK' /\ StepOf(p) /\ CheckInv(p)' /\ UNCHANGED row
<1> USE DEF MigratorInv
<1>0. p \notin Ups /\ p \in Procs
  BY MigrationAssumption DEF Procs
<1>1. UNCHANGED <<kind, legacy, row, applied, left, cur, mi, oi>>
  BY DEF CheckStep, CheckBegin, CheckDb, CheckDbFails, CheckReturns, store
<1>2. Grows /\ kind'[p] = kind[p] /\ CheckInv(p) /\ kind[p] \in Kinds /\ ci[p] \in 0 .. 6
  BY <1>0, <1>1, DatabaseFacts DEF Grows, MigratorTypeOK
<1>3. CASE CheckBegin(p)
  <2>1. MigratorTypeOK'
    BY <1>1, <1>3 DEF CheckBegin, Goto, Works, MigratorTypeOK, Pcs
  <2>2. StepOf(p)
    BY <1>0, <1>1, <1>2, <1>3 DEF CheckBegin, Goto, StepOf, MigratorTypeOK, Procs
  <2>3. pc'[p] = "checking" /\ ci'[p] = 0
    BY <1>0, <1>2, <1>3 DEF CheckBegin, Goto, CheckInv, MigratorTypeOK
  <2> QED
    BY <1>1, <2>1, <2>2, <2>3 DEF CheckInv
<1>4. CASE CheckDb(p)
  <2>1. PICK i \in Checked(p) :
           /\ \A m \in LastOfKind(Databases[i], kind[p]) : SeenFinished(m)
           /\ ci' = [ci EXCEPT ![p] = i]
    BY <1>4 DEF CheckDb
  <2>2. /\ i \in ci[p] + 1 .. 6
        /\ \A j \in ci[p] + 1 .. i - 1 : LastOfKind(Databases[j], kind[p]) = {}
    BY <2>1, DatabaseFacts DEF Checked
  <2>3. MigratorTypeOK'
    BY <1>1, <1>2, <1>4, <2>1, <2>2, DatabaseFacts DEF CheckDb, Works, MigratorTypeOK
  <2>4. StepOf(p)
    BY <1>0, <1>1, <1>2, <1>4, <2>1 DEF CheckDb, StepOf, MigratorTypeOK, Procs
  <2>5. pc[p] = "checking" /\ pc'[p] = "checking" /\ ci'[p] = i
    BY <1>4, <2>1 DEF CheckDb, MigratorTypeOK
  <2>6. ASSUME NEW j \in 1 .. i
        PROVE  ListDone(<<"regular", Databases[j]>>, kind[p])'
    <3>1. Databases[j] \in Dbs
      BY <1>2, <2>2, DatabaseFacts
    <3>2. ListDone(<<"regular", Databases[j]>>, kind[p])
      <4>1. CASE j <= ci[p]
        BY <1>2, <2>5, <4>1 DEF CheckInv
      <4>2. CASE j > ci[p]
        <5>1. \A m \in LastOfKind(Databases[j], kind[p]) : SeenFinished(m)
          BY <1>2, <2>1, <2>2, <4>2
        <5> QED
          BY <1>2, <3>1, <5>1, LastTells
      <4> QED
        BY <1>2, <2>2, <4>1, <4>2
    <3> QED
      BY <1>2, <3>1, <3>2, DoneGrows, ListFacts
  <2> QED
    BY <1>1, <1>2, <2>3, <2>4, <2>5, <2>6 DEF CheckInv
<1>5. CASE CheckDbFails(p) \/ CheckReturns(p)
  <2>1. PICK at \in {"retry", "ok"} : CheckLeave(p, at) /\ (Works \/ Fault)
    BY <1>5 DEF CheckDbFails, CheckReturns
  <2>2. MigratorTypeOK'
    <3>1. faults' \in 0 .. MaxFaults
      BY <2>1, FaultTypes
    <3>2. pc' \in [Procs -> Pcs]
      BY <2>1 DEF CheckLeave, Goto, MigratorTypeOK, Pcs, UpPcs
    <3>3. ci' \in [Checks -> 0 .. Len(Databases)]
      BY <2>1, DatabaseFacts DEF CheckLeave, MigratorTypeOK
    <3> QED
      BY <1>1, <3>1, <3>2, <3>3 DEF MigratorTypeOK
  <2>3. StepOf(p)
    BY <1>0, <1>1, <1>2, <2>1 DEF CheckLeave, Goto, StepOf, MigratorTypeOK, Procs
  <2>4. pc'[p] = at /\ ci'[p] = 0
    BY <1>0, <2>1 DEF CheckLeave, Goto, MigratorTypeOK
  <2> QED
    BY <1>1, <2>1, <2>2, <2>3, <2>4 DEF CheckInv
<1> QED
  BY <1>3, <1>4, <1>5 DEF CheckStep

\* A command is repeated, ends in a crash or is run again.
LEMMA LoopKeeps ==
    ASSUME MigratorInv, NEW p \in Procs, Retry(p) \/ Rerun(p) \/ Crash(p)
    PROVE  /\ MigratorTypeOK' /\ StepOf(p) /\ UNCHANGED row
           /\ p \in Ups => UpInv(p)'
           /\ p \in Checks => CheckInv(p)'
<1> USE DEF MigratorInv
<1>1. UNCHANGED <<kind, legacy, row, applied>> /\ Grows
  BY DEF Retry, Rerun, Crash, store, Grows
<1>2. CASE Retry(p) \/ Rerun(p)
  <2>1. PICK at \in {"begin", "failed"} :
           /\ Goto(p, at) /\ UNCHANGED <<left, cur, mi, oi, ci, faults>>
           /\ pc[p] \in {"retry", "failed"}
    BY <1>2 DEF Retry, Rerun, Works
  <2>2. MigratorTypeOK'
    BY <1>1, <2>1 DEF Goto, MigratorTypeOK, Pcs, UpPcs
  <2>3. StepOf(p)
    BY <1>1, <2>1 DEF Goto, StepOf, MigratorTypeOK, Procs
  <2>4. pc'[p] = at
    BY <2>1 DEF Goto, MigratorTypeOK
  <2>5. ASSUME p \in Ups
        PROVE  UpInv(p)'
    BY <2>1, <2>4, <2>5 DEF UpInv, PlaceInv, WorkInv, SquashedInv, Inside
  <2>6. ASSUME p \in Checks
        PROVE  CheckInv(p)'
    BY <2>1, <2>4, <2>6 DEF CheckInv
  <2> QED
    BY <1>1, <2>2, <2>3, <2>5, <2>6
<1>3. CASE Crash(p)
  <2>1. CASE p \in Ups /\ UpLeave(p, "failed") /\ UNCHANGED ci
    <3>1. p \notin Checks
      BY <2>1, MigrationAssumption
    <3>2. MigratorTypeOK'
      BY <1>1, <1>3, <2>1, LeaveTypes, FaultTypes DEF Crash, MigratorTypeOK, Pcs, UpPcs
    <3>3. StepOf(p)
      BY <1>1, <2>1 DEF UpLeave, Goto, StepOf, MigratorTypeOK, Procs
    <3> QED
      BY <1>1, <2>1, <3>1, <3>2, <3>3, LeaveKeeps
  <2>2. CASE p \in Checks /\ CheckLeave(p, "failed") /\ UNCHANGED <<left, cur, mi, oi>>
    <3>1. p \notin Ups
      BY <2>2, MigrationAssumption
    <3>2. MigratorTypeOK'
      BY <1>1, <1>3, <2>2, FaultTypes DEF Crash, CheckLeave, Goto, MigratorTypeOK, Pcs, UpPcs
    <3>3. StepOf(p)
      BY <1>1, <2>2, <3>1 DEF CheckLeave, Goto, StepOf, MigratorTypeOK, Procs
    <3>4. pc'[p] = "failed" /\ ci'[p] = 0
      BY <2>2 DEF CheckLeave, Goto, MigratorTypeOK
    <3> QED
      BY <1>1, <3>1, <3>2, <3>3, <3>4 DEF CheckInv
  <2> QED
    BY <1>3, <2>1, <2>2 DEF Crash
<1> QED
  BY <1>2, <1>3

-----------------------------------------------------------------------------
(* The invariant *)

\* The invariant holds initially.
LEMMA MigratorInit ==
    ASSUME Init
    PROVE  MigratorInv
<1> USE DEF Init
<1>1. MigratorTypeOK
  <2>1. Start \in Lists /\ Len(Databases) = 6 /\ MaxFaults \in Nat /\ legacy \subseteq SquashedDbs
    BY ListFacts, DatabaseFacts, MigrationAssumption
  <2> QED
    BY <2>1 DEF MigratorTypeOK, Pcs, UpPcs
<1>2. RowInv
  BY DEF RowInv
<1>3. ASSUME NEW p \in Ups
      PROVE  UpInv(p)
  <2>1. Len(List(Start)) \in Nat /\ pc[p] = "begin"
    BY ListFacts DEF Procs
  <2> QED
    BY <2>1 DEF UpInv, PlaceInv, WorkInv, SquashedInv, Inside
<1>4. ASSUME NEW p \in Checks
      PROVE  CheckInv(p)
  BY DEF CheckInv, Procs
<1> QED
  BY <1>1, <1>2, <1>3, <1>4 DEF MigratorInv

\* A step of a process keeps the invariant if it keeps the types, what the rows
\* mean and the part of the process itself.
LEMMA StepKeeps ==
    ASSUME MigratorInv, NEW p \in Procs, MigratorTypeOK', StepOf(p), RowInv',
           p \in Ups => UpInv(p)', p \in Checks => CheckInv(p)'
    PROVE  MigratorInv'
<1>1. \A q \in Ups : UpInv(q)'
  BY OthersKeep
<1>2. \A q \in Checks : CheckInv(q)'
  BY OthersKeep
<1> QED
  BY <1>1, <1>2 DEF MigratorInv

\* Every step keeps the invariant.
LEMMA MigratorNext ==
    ASSUME MigratorInv, [Next]_vars
    PROVE  MigratorInv'
<1>1. ASSUME NEW p \in Ups, UpStep(p) \/ UpFails(p)
      PROVE  MigratorInv'
  <2>1. p \in Procs /\ p \notin Checks
    BY MigrationAssumption DEF Procs
  <2>2. MigratorTypeOK' /\ StepOf(p) /\ UpInv(p)' /\ RowInv'
    BY <1>1, WalkKeeps, RunKeeps DEF UpStep, UpFails
  <2> QED
    BY <2>1, <2>2, StepKeeps
<1>2. ASSUME NEW p \in Checks, CheckStep(p)
      PROVE  MigratorInv'
  <2>1. p \in Procs /\ p \notin Ups
    BY MigrationAssumption DEF Procs
  <2>2. MigratorTypeOK' /\ StepOf(p) /\ CheckInv(p)' /\ UNCHANGED row
    BY <1>2, CheckKeeps
  <2>3. RowInv'
    BY <2>2, DoneGrows DEF MigratorInv, RowInv, StepOf
  <2> QED
    BY <2>1, <2>2, <2>3, StepKeeps
<1>3. ASSUME NEW p \in Procs, Retry(p) \/ Rerun(p) \/ Crash(p)
      PROVE  MigratorInv'
  <2>1. /\ MigratorTypeOK' /\ StepOf(p) /\ UNCHANGED row
        /\ p \in Ups => UpInv(p)'
        /\ p \in Checks => CheckInv(p)'
    BY <1>3, LoopKeeps
  <2>2. RowInv'
    BY <2>1, DoneGrows DEF MigratorInv, RowInv, StepOf
  <2> QED
    BY <2>1, <2>2, StepKeeps
<1>4. CASE UNCHANGED vars
  <2> USE <1>4 DEF vars, store
  <2>1. MigratorTypeOK' /\ RowInv'
    BY DEF MigratorInv, MigratorTypeOK, RowInv, RowMeans, Done, DoneUpTo
  <2>2. ASSUME NEW p \in Ups
        PROVE  UpInv(p)'
    <3>0. UpInv(p)
      BY DEF MigratorInv
    <3>1. PlaceInv(p)'
      BY <3>0 DEF UpInv, PlaceInv, AtEnd, Mig
    <3>2. WorkInv(p)'
      BY <3>0 DEF UpInv, WorkInv, Inside, Mig, DoneUpTo, Done
    <3>3. SquashedInv(p)'
      BY <3>0 DEF UpInv, SquashedInv, Inside, ListDone, DoneUpTo, Done
    <3> QED
      BY <3>1, <3>2, <3>3 DEF UpInv
  <2>3. \A p \in Checks : CheckInv(p)'
    BY DEF MigratorInv, CheckInv, ListDone, DoneUpTo, Done
  <2> QED
    BY <2>1, <2>2, <2>3 DEF MigratorInv
<1> QED
  BY <1>1, <1>2, <1>3, <1>4 DEF Next

\* The inductive invariant holds in every reachable state.
THEOREM MigratorInvariant == Spec => []MigratorInv
<1>1. Init => MigratorInv
  BY MigratorInit
<1>2. MigratorInv /\ [Next]_vars => MigratorInv'
  BY MigratorNext
<1> QED
  BY <1>1, <1>2, PTL DEF Spec

\* Types, and the indices of every migrator: an up that executes operations is
\* at a migration of its list and never counts past its last operation (run,
\* the loops over migrations and UpItems).
THEOREM MigratorTypes == Spec => []TypeOK
<1>1. MigratorInv => TypeOK
  <2> SUFFICES ASSUME MigratorInv
               PROVE  TypeOK
    OBVIOUS
  <2>1. \A p \in Ups : /\ mi[p] \in 1 .. Len(List(cur[p])) + 1
                       /\ pc[p] \in {"ops", "fail"} =>
                             ~AtEnd(p) /\ oi[p] \in 0 .. Len(Ops[Mig(p)])
    <3> SUFFICES ASSUME NEW p \in Ups
                 PROVE  /\ mi[p] \in 1 .. Len(List(cur[p])) + 1
                        /\ pc[p] \in {"ops", "fail"} =>
                              ~AtEnd(p) /\ oi[p] \in 0 .. Len(Ops[Mig(p)])
      OBVIOUS
    <3>1. PlaceInv(p) /\ oi[p] \in Nat
      BY DEF MigratorInv, UpInv, MigratorTypeOK
    <3>2. ~AtEnd(p) => Len(Ops[Mig(p)]) \in Nat
      BY AtMigration, OpsFacts
    <3> QED
      BY <3>1, <3>2 DEF PlaceInv
  <2> QED
    BY <2>1 DEF MigratorInv, MigratorTypeOK, TypeOK, Pcs, UpPcs
<1> QED
  BY <1>1, MigratorInvariant, PTL

-----------------------------------------------------------------------------
(* The migrator implements OrderedMigrations *)

\* The refinement mapping of Ordered.
Passed == {kind[p] : p \in {q \in Checks : pc[q] = "ok"}}

\* Executed as this module says it is executed as OrderedMigrations says it.
LEMMA DoneIsComplete ==
    ASSUME NEW m \in Migrations, NEW k \in Kinds, IsOfKind(m, k) => Done(m)
    PROVE  Ordered!Complete(m, k)
  BY DEF Ordered!Complete, Ordered!Of, IsOfKind, Done

\* A list that was executed is complete in the abstract specification.
LEMMA ListDoneIsComplete ==
    ASSUME NEW l \in Lists, NEW k \in Kinds, ListDone(l, k)
    PROVE  Ordered!AllComplete(List(l), k)
<1>1. ASSUME NEW j \in 1 .. Len(List(l))
      PROVE  Ordered!Complete(List(l)[j], k)
  <2>1. List(l)[j] \in Migrations /\ Len(List(l)) \in Nat
    BY ListFacts
  <2>2. IsOfKind(List(l)[j], k) => Done(List(l)[j])
    BY <2>1 DEF ListDone, DoneUpTo
  <2> QED
    BY <2>1, <2>2, DoneIsComplete
<1> QED
  BY <1>1 DEF Ordered!AllComplete

\* So is the part of a list before a migration.
LEMMA PrefixDoneIsComplete ==
    ASSUME NEW l \in Lists, NEW k \in Kinds, NEW j \in 1 .. Len(List(l)),
           DoneUpTo(l, j - 1, k)
    PROVE  Ordered!AllComplete(SubSeq(List(l), 1, j - 1), k)
<1> DEFINE s == List(l)
           t == SubSeq(s, 1, j - 1)
<1>1. s \in Seq(Migrations) /\ Len(s) \in Nat
  BY ListFacts
<1>2. Len(t) = j - 1 /\ \A i \in 1 .. j - 1 : t[i] = s[i]
  BY <1>1
<1>3. ASSUME NEW i \in 1 .. Len(t)
      PROVE  Ordered!Complete(t[i], k)
  <2>1. t[i] = s[i] /\ i \in 1 .. Len(s) /\ i <= j - 1
    BY <1>1, <1>2, <1>3
  <2>2. s[i] \in Migrations
    BY <2>1, ListFacts
  <2>3. IsOfKind(s[i], k) => Done(s[i])
    BY <2>1 DEF DoneUpTo
  <2>4. Ordered!Complete(s[i], k)
    <3> HIDE DEF s, t
    <3> QED
      BY <2>2, <2>3, DoneIsComplete
  <2> QED
    BY <2>1, <2>4
<1> QED
  BY <1>3 DEF Ordered!AllComplete

\* The operation an up executes is the next one of its kind in its list, or was
\* executed before.
LEMMA ExecuteIsOrdered ==
    ASSUME MigratorInv, NEW p \in Ups, pc[p] = "ops", oi[p] < Len(Ops[Mig(p)]),
           Execute(Mig(p), oi[p] + 1), UNCHANGED legacy, Passed' = Passed
    PROVE  [Ordered!Next]_(Ordered!vars)
<1> DEFINE m == Mig(p)
           n == oi[p] + 1
           k == kind[p]
           l == cur[p]
           j == mi[p]
<1>1. UpInv(p) /\ k \in Kinds /\ l \in Lists /\ oi[p] \in Nat
  BY DEF MigratorInv, MigratorTypeOK, Procs
<1>2. /\ ~AtEnd(p) /\ IsOfKind(m, k) /\ 1 .. oi[p] \subseteq applied[m]
      /\ DoneUpTo(l, j - 1, k)
  BY <1>1 DEF UpInv, PlaceInv, WorkInv, Inside
<1>3. m \in Migrations /\ j \in 1 .. Len(List(l)) /\ m = List(l)[j]
  BY <1>2, AtMigration
<1>4. n \in 1 .. Len(Ops[m])
  BY <1>1, <1>3, OpsFacts
<1>5. CASE n \in applied[m]
  <2>1. applied[m] \cup {n} = applied[m]
    BY <1>5
  <2>2. applied' = applied
    BY <1>3, <2>1 DEF Execute, MigratorInv, MigratorTypeOK
  <2> QED
    BY <2>2 DEF Ordered!vars, Passed
<1>6. CASE n \notin applied[m]
  <2>1. n \in Ordered!Of(m, k)
    <3>1. Ops[m][n].kind \in Kinds /\ IsOfKind(m, Ops[m][n].kind)
      BY <1>3, <1>4, OpsFacts DEF IsOfKind
    <3>2. Ops[m][n].kind = k
      BY <1>1, <1>2, <1>3, <3>1, OpsFacts
    <3> QED
      BY <1>4, <3>2 DEF Ordered!Of
  <2>2. \A i \in Ordered!Of(m, k) : i < n => i \in applied[m]
    BY <1>1, <1>2 DEF Ordered!Of
  <2>3. Ordered!AllComplete(SubSeq(List(l), 1, j - 1), k)
    BY <1>1, <1>2, <1>3, PrefixDoneIsComplete
  <2>4. applied' = [applied EXCEPT ![m] = @ \cup {n}]
    BY DEF Execute
  <2>5. Ordered!Execute(List(l), k)
    <3> HIDE DEF l, j, n, k, m
    <3> QED
      BY <1>3, <1>6, <2>1, <2>2, <2>3, <2>4 DEF Ordered!Execute, Passed
  <2>6. CASE l[1] = "squashed"
    <3>1. PICK d \in SquashedDbs : l = <<"squashed", d>>
      BY <1>1, <2>6, ListFacts
    <3>2. List(l) = Squashed[d] /\ d \in DOMAIN Squashed
      BY <3>1, ListFacts, MigrationAssumption
    <3>3. Ordered!ExecuteSquashed(d, k)
      BY <2>5, <3>2 DEF Ordered!ExecuteSquashed
    <3> QED
      BY <1>1, <3>2, <3>3 DEF Ordered!Next, Kinds
  <2>7. CASE l[1] # "squashed"
    <3>1. PICK d \in Dbs : l = <<"regular", d>>
      BY <1>1, <2>7, ListFacts
    <3>2. List(l) = Regular[d]
      BY <3>1, ListFacts
    <3>3. ASSUME legacy = {}, d \in DOMAIN Squashed
          PROVE  Ordered!AllComplete(Squashed[d], k)
      <4>1. d \in SquashedDbs
        BY <3>3, MigrationAssumption
      <4>2. ListDone(<<"squashed", d>>, k)
        BY <1>1, <3>1, <3>3, <4>1 DEF UpInv, SquashedInv, Inside
      <4>3. <<"squashed", d>> \in Lists /\ List(<<"squashed", d>>) = Squashed[d]
        BY <4>1, ListFacts
      <4> QED
        BY <1>1, <4>2, <4>3, ListDoneIsComplete
    <3>4. Ordered!ExecuteRegular(d, k)
      BY <2>5, <3>2, <3>3 DEF Ordered!ExecuteRegular
    <3> QED
      BY <1>1, <3>4 DEF Ordered!Next, Kinds
  <2> QED
    BY <2>6, <2>7
<1> QED
  BY <1>5, <1>6

\* Every other step but the end of a check leaves what OrderedMigrations sees.
LEMMA StepIsOrdered ==
    ASSUME MigratorInv, [Next]_vars
    PROVE  [Ordered!Next]_(Ordered!vars)
<1>1. ASSUME UNCHANGED <<kind, legacy, applied>>,
             \A q \in Checks : pc'[q] = "ok" <=> pc[q] = "ok"
      PROVE  UNCHANGED Ordered!vars
  BY <1>1 DEF Ordered!vars
<1>2. ASSUME NEW p \in Ups, UpStep(p) \/ UpFails(p)
      PROVE  [Ordered!Next]_(Ordered!vars)
  <2>1. StepOf(p) /\ p \notin Checks
    BY <1>2, WalkKeeps, RunKeeps, MigrationAssumption DEF UpStep, UpFails
  <2>2. Passed' = Passed
    BY <2>1 DEF Passed, StepOf
  <2>3. CASE UNCHANGED applied
    BY <1>1, <2>1, <2>3 DEF StepOf
  <2>4. CASE ~UNCHANGED applied
    <3>1. RunOp(p) \/ OpFails(p)
      BY <1>2, <2>4 DEF UpStep, UpFails, UpBegin, RunSquashed, EnterRegular, EndOfList,
         SkipMigration, StartMigration, MarkFinished, MarkFailed, UpQueryFails,
         MarkFinishedFails, store
    <3>2. pc[p] = "ops" /\ oi[p] < Len(Ops[Mig(p)]) /\ Execute(Mig(p), oi[p] + 1)
      BY <2>4, <3>1 DEF RunOp, OpFails
    <3> QED
      BY <2>1, <2>2, <3>2, ExecuteIsOrdered DEF StepOf
  <2> QED
    BY <2>3, <2>4
<1>3. ASSUME NEW p \in Checks, CheckStep(p)
      PROVE  [Ordered!Next]_(Ordered!vars)
  <2>1. StepOf(p) /\ UNCHANGED applied
    BY <1>3, CheckKeeps DEF CheckStep, CheckBegin, CheckDb, CheckDbFails, CheckReturns, store
  <2>2. p \in Procs /\ pc \in [Procs -> Pcs] /\ kind[p] \in Kinds
    BY DEF MigratorInv, MigratorTypeOK, Procs
  <2>3. CASE ~CheckReturns(p)
    <3>1. pc[p] # "ok" /\ pc'[p] # "ok"
      BY <1>3, <2>2, <2>3 DEF CheckStep, CheckBegin, CheckDb, CheckDbFails, CheckLeave, Goto
    <3> QED
      BY <1>1, <2>1, <3>1 DEF StepOf
  <2>4. CASE CheckReturns(p)
    <3>1. \A d \in Dbs : Ordered!AllComplete(Regular[d], kind[p])
      <4> SUFFICES ASSUME NEW d \in Dbs
                   PROVE  Ordered!AllComplete(Regular[d], kind[p])
        OBVIOUS
      <4>1. ListDone(<<"regular", d>>, kind[p])
        BY <2>4, CheckReturnsTells DEF CheckReturns
      <4> QED
        BY <2>2, <4>1, ListFacts, ListDoneIsComplete
    <3>2. pc' = [pc EXCEPT ![p] = "ok"]
      BY <2>4 DEF CheckReturns, CheckLeave, Goto
    <3>3. \A q \in Checks : pc'[q] = "ok" <=> q = p \/ pc[q] = "ok"
      BY <2>1, <2>2, <3>2 DEF StepOf
    <3>4. UNCHANGED kind
      BY <2>1 DEF StepOf
    <3>5. Passed' = Passed \cup {kind[p]}
      BY <3>3, <3>4 DEF Passed
    <3>6. PICK k \in {"sync", "async"} : k = kind[p]
      BY <2>2 DEF Kinds
    <3>7. Ordered!Pass(k)
      BY <2>1, <3>1, <3>5, <3>6 DEF Ordered!Pass, Passed, StepOf
    <3>8. Ordered!Next
      BY <3>6, <3>7 DEF Ordered!Next
    <3> QED
      BY <3>8
  <2> QED
    BY <2>3, <2>4
<1>4. ASSUME NEW p \in Procs, Retry(p) \/ Rerun(p) \/ Crash(p)
      PROVE  [Ordered!Next]_(Ordered!vars)
  <2>1. StepOf(p) /\ UNCHANGED applied
    BY <1>4, LoopKeeps DEF Retry, Rerun, Crash, store
  <2>2. pc \in [Procs -> Pcs]
    BY DEF MigratorInv, MigratorTypeOK
  <2>3. pc[p] # "ok" /\ pc'[p] # "ok"
    BY <1>4, <2>2 DEF Retry, Rerun, Crash, UpLeave, CheckLeave, Goto
  <2> QED
    BY <1>1, <2>1, <2>3 DEF StepOf
<1>5. CASE UNCHANGED vars
  BY <1>1, <1>5 DEF vars, store
<1> QED
  BY <1>2, <1>3, <1>4, <1>5 DEF Next

\* Whatever fails, and however many migrators run at once, the operations of
\* one kind are executed in the order of their list, the squashed ones first on
\* an installation without legacy tables, and a check answers "ok" only when all
\* were executed (runSquashedMigrations, run, Check).
THEOREM MigratorIsOrdered == Spec => ImplementsOrdered
<1>1. Init => Ordered!Init
  <2> SUFFICES ASSUME Init
               PROVE  Ordered!Init
    OBVIOUS
  <2>1. legacy \subseteq DOMAIN Squashed /\ DOMAIN Ops = Migrations
    BY MigrationAssumption DEF Init
  <2>2. {q \in Checks : pc[q] = "ok"} = {}
    BY DEF Init, Procs
  <2> QED
    BY <2>1, <2>2 DEF Init, Ordered!Init
<1>2. MigratorInv /\ [Next]_vars => [Ordered!Next]_(Ordered!vars)
  BY StepIsOrdered
<1> QED
  BY <1>1, <1>2, MigratorInvariant, PTL DEF Spec, ImplementsOrdered, Ordered!Spec

-----------------------------------------------------------------------------
(* With one shard, no migration is left unmarked *)

\* The b-th regular list, and its migration of kind k at i.
LEMMA RegularPlace ==
    ASSUME NEW b \in 1 .. Len(Databases), NEW k \in Kinds,
           NEW i \in OfKind(<<"regular", Databases[b]>>, k)
    PROVE  /\ b \in 1 .. 6
           /\ <<"regular", Databases[b]>> \in Lists
           /\ List(<<"regular", Databases[b]>>) = Regular[Databases[b]]
           /\ i \in 1 .. Len(Regular[Databases[b]])
           /\ Len(Regular[Databases[b]]) \in Nat
           /\ Regular[Databases[b]][i] \in Migrations
           /\ IsOfKind(Regular[Databases[b]][i], k)
<1>1. b \in 1 .. 6 /\ Databases[b] \in Dbs
  BY DatabaseFacts
<1>2. /\ <<"regular", Databases[b]>> \in Lists
      /\ List(<<"regular", Databases[b]>>) = Regular[Databases[b]]
  BY <1>1, ListFacts
<1>3. i \in 1 .. Len(Regular[Databases[b]]) /\ IsOfKind(Regular[Databases[b]][i], k)
  BY <1>2 DEF OfKind
<1>4. Len(Regular[Databases[b]]) \in Nat /\ Regular[Databases[b]][i] \in Migrations
  BY <1>2, <1>3, ListFacts
<1> QED
  BY <1>1, <1>2, <1>3, <1>4

\* A step of an up of kind k leaves every migration of that kind marked, or the
\* up before it, or had the up behind it and does not touch its row.
LEMMA UpMarks ==
    ASSUME MigratorInv, NEW s, Shards = {s}, NEW p \in Ups, UpStep(p) \/ UpFails(p),
           NEW b \in 1 .. Len(Databases), NEW i \in OfKind(<<"regular", Databases[b]>>, kind[p])
    PROVE  LET m == Regular[Databases[b]][i]
           IN  \/ Ahead(p, b, i)'
               \/ Marked(m)'
               \/ ~Ahead(p, b, i) /\ row'[m] = row[m]
<1> DEFINE m == Regular[Databases[b]][i]
<1> USE DEF MigratorInv
<1>0. p \in Procs /\ kind[p] \in Kinds /\ pc \in [Procs -> Pcs] /\ cur \in [Ups -> Lists]
      /\ mi \in [Ups -> Nat]
  BY DEF MigratorTypeOK, Procs
<1>1. /\ b \in 1 .. 6 /\ i \in 1 .. Len(Regular[Databases[b]])
      /\ <<"regular", Databases[b]>> \in Lists
      /\ List(<<"regular", Databases[b]>>) = Regular[Databases[b]]
      /\ Len(Regular[Databases[b]]) \in Nat /\ m \in Migrations /\ IsOfKind(m, kind[p])
  BY <1>0, RegularPlace
<1>2. ASSUME NEW at \in {"retry", "failed"}, UpLeave(p, at)
      PROVE  Ahead(p, b, i)'
  BY <1>0, <1>2 DEF UpLeave, Goto, Ahead
<1>3. CASE UpBegin(p)
  BY <1>0, <1>3 DEF UpBegin, Goto, Ahead
<1>4. ASSUME NEW d \in SquashedDbs, RunSquashed(p, d)
      PROVE  Ahead(p, b, i)'
  <2>1. \/ pc'[p] = "squashed"
        \/ pc'[p] = "migration" /\ cur'[p] = <<"squashed", d>>
    BY <1>0, <1>4 DEF RunSquashed, Enter, Goto
  <2> QED
    BY <2>1 DEF Ahead, Inside
<1>5. CASE EnterRegular(p)
  <2>1. pc'[p] = "migration" /\ cur'[p] = <<"regular", Databases[1]>> /\ mi'[p] = 1
    BY <1>0, <1>5 DEF EnterRegular, Enter, Goto, Start
  <2>2. 1 \in 1 .. Len(Databases) /\ (1 < b \/ (1 = b /\ 1 <= i))
    BY <1>1, DatabaseFacts
  <2> QED
    BY <2>1, <2>2 DEF Ahead, Inside
<1>6. CASE EndOfList(p)
  <2>1. UNCHANGED row /\ pc[p] = "migration" /\ mi[p] > Len(List(cur[p]))
    BY <1>6 DEF EndOfList, AtEnd, store
  <2>2. CASE cur[p][1] = "squashed" /\ Goto(p, "squashed")
    BY <1>0, <2>2 DEF Goto, Ahead
  <2>3. ASSUME NEW a \in 1 .. Len(Databases), NEW j \in 1 .. Len(Databases) + 1,
               cur[p] = <<"regular", Databases[a]>>, AllEmpty(a, j), b < j
        PROVE  ~Ahead(p, b, i)
    <3>1. a \in 1 .. 6 /\ j \in 1 .. 7
      BY <2>3, DatabaseFacts
    <3>2. b <= a
      <4> SUFFICES ASSUME b > a
                   PROVE  FALSE
        BY <1>1, <3>1
      <4>1. Regular[Databases[b]] = <<>>
        BY <1>1, <2>3, <3>1 DEF AllEmpty
      <4> QED
        BY <1>1, <4>1
    <3>3. ASSUME NEW c \in 1 .. 6, cur[p] = <<"regular", Databases[c]>>
          PROVE  c = a
      BY <2>3, <3>1, <3>3, DatabaseFacts
    <3>4. a = b => mi[p] > i
      BY <1>0, <1>1, <2>1, <2>3
    <3> QED
      BY <1>0, <1>1, <2>1, <2>3, <3>1, <3>2, <3>3, <3>4, DatabaseFacts DEF Ahead, Inside
  <2>4. ASSUME NEW a \in 1 .. Len(Databases), NEW j \in 1 .. Len(Databases),
               cur[p] = <<"regular", Databases[a]>>, AllEmpty(a, j), UNCHANGED pc,
               Enter(p, <<"regular", Databases[j]>>)
        PROVE  Ahead(p, b, i)' \/ ~Ahead(p, b, i)
    <3>1. CASE b >= j
      <4>1. cur'[p] = <<"regular", Databases[j]>> /\ mi'[p] = 1 /\ pc'[p] = "migration"
        BY <1>0, <2>1, <2>4 DEF Enter
      <4>2. j < b \/ (j = b /\ 1 <= i)
        BY <1>1, <3>1, DatabaseFacts
      <4> QED
        BY <4>1, <4>2 DEF Ahead, Inside
    <3>2. CASE b < j
      BY <2>3, <2>4, <3>2, DatabaseFacts
    <3> QED
      BY <1>1, <3>1, <3>2, DatabaseFacts
  <2>5. ASSUME NEW a \in 1 .. Len(Databases), cur[p] = <<"regular", Databases[a]>>,
               AllEmpty(a, Len(Databases) + 1)
        PROVE  ~Ahead(p, b, i)
    BY <1>1, <2>3, <2>5, DatabaseFacts
  <2> QED
    BY <1>6, <2>1, <2>2, <2>4, <2>5 DEF EndOfList
\* The up goes on to the next migration.
<1>7. ASSUME Inside(p), NextMigration(p), UNCHANGED cur, ~AtEnd(p)
      PROVE  Ahead(p, b, i)' \/ ~Ahead(p, b, i) \/ Mig(p) = m
  <2> SUFFICES ASSUME Ahead(p, b, i), Mig(p) # m
               PROVE  Ahead(p, b, i)'
    OBVIOUS
  <2>1. pc'[p] = "migration" /\ cur'[p] = cur[p] /\ mi'[p] = mi[p] + 1 /\ mi[p] \in Nat
    BY <1>0, <1>7 DEF NextMigration, Goto
  <2>2. CASE cur[p][1] = "squashed"
    BY <2>1, <2>2 DEF Ahead, Inside
  <2>3. CASE cur[p][1] # "squashed"
    <3>1. PICK a \in 1 .. Len(Databases) :
             /\ cur[p] = <<"regular", Databases[a]>>
             /\ a < b \/ (a = b /\ mi[p] <= i)
      BY <1>7, <2>3 DEF Ahead, Inside
    <3>2. ~(a = b /\ mi[p] = i)
      <4>1. Mig(p) = List(cur[p])[mi[p]]
        BY <1>7, AtMigration
      <4> QED
        BY <1>1, <3>1, <4>1
    <3>3. a < b \/ (a = b /\ mi[p] + 1 <= i)
      BY <1>1, <2>1, <3>1, <3>2
    <3> QED
      BY <2>1, <3>1, <3>3 DEF Ahead, Inside
  <2> QED
    BY <2>2, <2>3
<1>8. CASE SkipMigration(p)
  <2>1. Inside(p) /\ NextMigration(p) /\ UNCHANGED <<cur, row>> /\ ~AtEnd(p)
    BY <1>8 DEF SkipMigration, Inside, store
  <2>2. ASSUME Mig(p) = m
        PROVE  Marked(m)'
    <3>1. SeenFinished(m)
      BY <1>1, <1>8, <2>2 DEF SkipMigration
    <3> QED
      BY <2>1, <3>1 DEF SeenFinished, Statuses, Marked
  <2> QED
    BY <1>7, <2>1, <2>2
<1>9. CASE StartMigration(p) \/ RunOp(p) \/ OpFails(p)
  <2>1. UNCHANGED <<row, cur, mi>> /\ Inside(p) /\ pc'[p] \in {"ops", "fail"}
    BY <1>0, <1>9 DEF StartMigration, RunOp, OpFails, Goto, Inside, store
  <2>2. Ahead(p, b, i) => Ahead(p, b, i)'
    BY <2>1 DEF Ahead, Inside
  <2> QED
    BY <2>1, <2>2
<1>10. CASE MarkFinished(p)
  <2>1. /\ Inside(p) /\ NextMigration(p) /\ UNCHANGED cur
        /\ InsertMigrationEntry(Mig(p), "finished")
    BY <1>10 DEF MarkFinished, Inside
  <2>2. ~AtEnd(p)
    BY <1>10 DEF MarkFinished, UpInv, PlaceInv
  <2>3. Mig(p) \in Migrations
    BY <2>2, AtMigration
  <2>4. row' = [row EXCEPT ![Mig(p)][s] = "finished"]
    BY <2>1 DEF InsertMigrationEntry
  <2>5. IF Mig(p) = m THEN Marked(m)' ELSE row'[m] = row[m]
    BY <1>1, <2>3, <2>4 DEF Marked, MigratorTypeOK
  <2> QED
    BY <1>7, <2>1, <2>2, <2>5
<1>11. CASE MarkFailed(p) \/ UpQueryFails(p) \/ MarkFinishedFails(p)
  <2>1. PICK at \in {"retry", "failed"} : UpLeave(p, at)
    BY <1>11 DEF MarkFailed, UpQueryFails, MarkFinishedFails
  <2> QED
    BY <1>2, <2>1
<1> QED
  BY <1>3, <1>4, <1>5, <1>6, <1>8, <1>9, <1>10, <1>11 DEF UpStep, UpFails

\* An up writes the rows of migrations of its kind only.
LEMMA OtherRows ==
    ASSUME MigratorInv, NEW p \in Ups, UpStep(p) \/ UpFails(p),
           NEW n \in Migrations, NEW k \in Kinds, IsOfKind(n, k), k # kind[p]
    PROVE  row'[n] = row[n]
<1>1. CASE UNCHANGED row
  BY <1>1
<1>2. CASE ~UNCHANGED row
  <2>1. /\ pc[p] \in {"ops", "fail"}
        /\ \E status \in {"failed", "finished"} : InsertMigrationEntry(Mig(p), status)
    BY <1>2 DEF UpStep, UpFails, UpBegin, RunSquashed, EnterRegular, EndOfList,
       SkipMigration, StartMigration, RunOp, OpFails, MarkFinished, MarkFailed,
       UpQueryFails, MarkFinishedFails, store
  <2>2. ~AtEnd(p) /\ IsOfKind(Mig(p), kind[p]) /\ kind[p] \in Kinds
    BY <2>1 DEF MigratorInv, UpInv, PlaceInv, WorkInv, MigratorTypeOK, Procs
  <2>3. Mig(p) \in Migrations /\ Mig(p) # n
    BY <2>2, AtMigration, OpsFacts
  <2> QED
    BY <2>1, <2>3 DEF InsertMigrationEntry, MigratorInv, MigratorTypeOK
<1> QED
  BY <1>1, <1>2

\* On one shard every step keeps MarkedInv.
LEMMA MarkedNext ==
    ASSUME MigratorInv, MarkedInv, [Next]_vars, NEW s, Shards = {s}
    PROVE  MarkedInv'
<1>0. UNCHANGED kind
  BY DEF Next, UpStep, UpFails, CheckStep, UpBegin, RunSquashed, EnterRegular, EndOfList,
     SkipMigration, StartMigration, RunOp, OpFails, MarkFinished, MarkFailed, UpQueryFails,
     MarkFinishedFails, CheckBegin, CheckDb, CheckDbFails, CheckReturns, Retry, Rerun, Crash,
     vars, store
<1> SUFFICES ASSUME NEW k \in Kinds, \E p \in Ups : kind[p] = k,
                    NEW b \in 1 .. Len(Databases),
                    NEW i \in OfKind(<<"regular", Databases[b]>>, k)
             PROVE  \/ Marked(Regular[Databases[b]][i])'
                    \/ \E q \in Ups : kind[q] = k /\ Ahead(q, b, i)'
  BY <1>0 DEF MarkedInv
<1> DEFINE m == Regular[Databases[b]][i]
<1>1. Marked(m) \/ \E q \in Ups : kind[q] = k /\ Ahead(q, b, i)
  BY DEF MarkedInv
<1>2. m \in Migrations /\ IsOfKind(m, k)
  BY RegularPlace
\* Neither the row nor an up that is ahead changes.
<1>3. ASSUME row'[m] = row[m],
             \A q \in Ups : kind[q] = k /\ Ahead(q, b, i) => Ahead(q, b, i)'
      PROVE  \/ Marked(m)'
             \/ \E q \in Ups : kind[q] = k /\ Ahead(q, b, i)'
  BY <1>1, <1>3 DEF Marked
<1>4. ASSUME NEW p \in Procs, StepOf(p), NEW q \in Ups \ {p}, Ahead(q, b, i)
      PROVE  Ahead(q, b, i)'
  BY <1>4 DEF StepOf, Ahead, Inside
<1>5. ASSUME NEW p \in Ups, UpStep(p) \/ UpFails(p)
      PROVE  \/ Marked(m)'
             \/ \E q \in Ups : kind[q] = k /\ Ahead(q, b, i)'
  <2>1. StepOf(p) /\ p \in Procs
    BY <1>5, WalkKeeps, RunKeeps DEF UpStep, UpFails, Procs
  <2>2. CASE kind[p] = k
    <3>1. \/ Ahead(p, b, i)' \/ Marked(m)'
          \/ ~Ahead(p, b, i) /\ row'[m] = row[m]
      BY <1>5, <2>2, UpMarks
    <3> QED
      BY <1>3, <1>4, <2>1, <2>2, <3>1
  <2>3. CASE kind[p] # k
    <3>1. row'[m] = row[m]
      BY <1>2, <1>5, <2>3, OtherRows
    <3> QED
      BY <1>3, <1>4, <2>1, <2>3, <3>1
  <2> QED
    BY <2>2, <2>3
<1>6. ASSUME NEW p \in Checks, CheckStep(p)
      PROVE  \/ Marked(m)'
             \/ \E q \in Ups : kind[q] = k /\ Ahead(q, b, i)'
  <2>1. StepOf(p) /\ UNCHANGED row /\ p \in Procs /\ p \notin Ups
    BY <1>6, CheckKeeps, MigrationAssumption DEF Procs
  <2> QED
    BY <1>3, <1>4, <2>1
<1>7. ASSUME NEW p \in Procs, Retry(p) \/ Rerun(p) \/ Crash(p)
      PROVE  \/ Marked(m)'
             \/ \E q \in Ups : kind[q] = k /\ Ahead(q, b, i)'
  <2>1. StepOf(p) /\ UNCHANGED row
    BY <1>7, LoopKeeps
  <2>2. Ahead(p, b, i)'
    <3>1. pc'[p] \in {"begin", "failed"}
      BY <1>7 DEF Retry, Rerun, Crash, UpLeave, CheckLeave, Goto, MigratorInv, MigratorTypeOK
    <3> QED
      BY <3>1 DEF Ahead
  <2> QED
    BY <1>3, <1>4, <2>1, <2>2
<1>8. CASE UNCHANGED vars
  BY <1>3, <1>8 DEF vars, store, Ahead, Inside
<1> QED
  BY <1>5, <1>6, <1>7, <1>8 DEF Next

\* With one shard, when all migrators of a kind have returned without an error
\* the table says "finished" of every regular migration of that kind, however
\* their steps, failures and reruns interleave (run, InsertMigrationEntry).
THEOREM UpsMarkFinishedTheorem ==
    ASSUME NEW s, Shards = {s}
    PROVE  Spec => []UpsMarkFinished
<1>1. Init => MarkedInv
  BY DEF Init, MarkedInv, Ahead, Procs
<1>2. MigratorInv /\ MarkedInv /\ [Next]_vars => MarkedInv'
  BY MarkedNext
<1>3. MigratorInv /\ MarkedInv => UpsMarkFinished
  <2> SUFFICES ASSUME MigratorInv, MarkedInv, NEW k \in Kinds,
                      \E p \in Ups : kind[p] = k,
                      \A p \in Ups : kind[p] = k => pc[p] = "ok",
                      NEW d \in Dbs, NEW i \in OfKind(<<"regular", d>>, k)
               PROVE  ~SeenUnfinished(Regular[d][i])
    BY DEF UpsMarkFinished
  <2>1. PICK b \in 1 .. Len(Databases) : d = Databases[b]
    BY DatabaseFacts
  <2>2. \A q \in Ups : kind[q] = k => ~Ahead(q, b, i)
    BY DEF Ahead, Inside
  <2>3. Marked(Regular[d][i])
    BY <2>1, <2>2 DEF MarkedInv
  <2> QED
    BY <2>3 DEF Marked, SeenUnfinished, Statuses
<1> QED
  BY <1>1, <1>2, <1>3, MigratorInvariant, PTL DEF Spec
=============================================================================
