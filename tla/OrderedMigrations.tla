------------------------- MODULE OrderedMigrations -------------------------
(***************************************************************************)
(* What the schema migrator promises, whoever runs its commands and         *)
(* whatever fails: the operations of one kind are executed one at a time in *)
(* the order of their list, the squashed list of a database before its      *)
(* regular one on an installation without legacy tables, and a check        *)
(* answers "ok" only when all operations of its kind were executed.         *)
(***************************************************************************)
EXTENDS Naturals, Sequences

CONSTANTS
    Dbs,       \* the databases
    Regular,   \* database -> its sequence of migrations
    Squashed,  \* some databases -> their sequence of squashed migrations
    Ops        \* migration -> its sequence of operations

VARIABLES
    legacy,    \* databases that have a table of legacy migrations
    applied,   \* applied[m]: the operations of m that were executed
    passed     \* the kinds of which a check has answered "ok"

vars == <<legacy, applied, passed>>

Of(m, k) == {i \in 1 .. Len(Ops[m]) : Ops[m][i].kind = k}
Complete(m, k) == Of(m, k) \subseteq applied[m]
AllComplete(s, k) == \A j \in 1 .. Len(s) : Complete(s[j], k)

Init ==
    /\ legacy \subseteq DOMAIN Squashed
    /\ applied = [m \in DOMAIN Ops |-> {}]
    /\ passed = {}

\* The next operation of kind k in the sequence s of migrations is executed.
Execute(s, k) ==
    /\ \E j \in 1 .. Len(s) : \E n \in Of(s[j], k) \ applied[s[j]] :
          /\ AllComplete(SubSeq(s, 1, j - 1), k)
          /\ \A i \in Of(s[j], k) : i < n => i \in applied[s[j]]
          /\ applied' = [applied EXCEPT ![s[j]] = @ \cup {n}]
    /\ UNCHANGED <<legacy, passed>>

ExecuteSquashed(d, k) == Execute(Squashed[d], k)

ExecuteRegular(d, k) ==
    /\ legacy = {} /\ d \in DOMAIN Squashed => AllComplete(Squashed[d], k)
    /\ Execute(Regular[d], k)

\* A check of kind k answers "ok".
Pass(k) ==
    /\ \A d \in Dbs : AllComplete(Regular[d], k)
    /\ passed' = passed \cup {k}
    /\ UNCHANGED <<legacy, applied>>

Next ==
    \E k \in {"sync", "async"} :
        \/ \E d \in DOMAIN Squashed : ExecuteSquashed(d, k)
        \/ \E d \in Dbs : ExecuteRegular(d, k)
        \/ Pass(k)

Spec == Init /\ [][Next]_vars
=============================================================================
