----------------------------- MODULE AtomicPush -----------------------------
(***************************************************************************)
(* What a push of the logs exporter promises to the queue that calls it,    *)
(* and to the other pushes: it succeeds with the whole batch or fails, it   *)
(* is called again only after a failure, the pushes together never hold     *)
(* more than Limit slots, and a push that has ended holds none.             *)
(***************************************************************************)
EXTENDS Naturals, FiniteSets

CONSTANTS
    Pushes,
    Batch,     \* the records of a batch
    Limit      \* slots that all pushes share

VARIABLES
    state,     \* push -> "idle", "running", "ok", "failed"
    sent,      \* push -> the records that were acknowledged
    slots      \* the slots in use: a push and a record it works on

vars == <<state, sent, slots>>

Init ==
    /\ state = [p \in Pushes |-> "idle"]
    /\ sent = [p \in Pushes |-> {}]
    /\ slots = {}

Call(p) ==
    /\ state[p] \in {"idle", "failed"}
    /\ state' = [state EXCEPT ![p] = "running"]
    /\ UNCHANGED <<sent, slots>>

Take(p, r) ==
    /\ state[p] = "running"
    /\ Cardinality(slots) < Limit
    /\ slots' = slots \cup {<<p, r>>}
    /\ UNCHANGED <<state, sent>>

Give(p, r) ==
    /\ <<p, r>> \in slots
    /\ slots' = slots \ {<<p, r>>}
    /\ UNCHANGED <<state, sent>>

\* The push ends, without a slot.
Ends(p) == state[p] = "running" /\ \A r \in Batch : <<p, r>> \notin slots

Succeed(p) ==
    /\ Ends(p)
    /\ state' = [state EXCEPT ![p] = "ok"]
    /\ sent' = [sent EXCEPT ![p] = Batch]
    /\ UNCHANGED slots

Fail(p) ==
    /\ Ends(p)
    /\ state' = [state EXCEPT ![p] = "failed"]
    /\ UNCHANGED <<sent, slots>>

Next ==
    \E p \in Pushes :
        \/ Call(p) \/ Succeed(p) \/ Fail(p)
        \/ \E r \in Batch : Take(p, r) \/ Give(p, r)

Spec == Init /\ [][Next]_vars
=============================================================================
