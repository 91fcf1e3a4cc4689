------------------------------ MODULE LogsPush ------------------------------
(***************************************************************************)
(* clickhouselogsexporter: pushToClickhouse.  A push iterates over its log  *)
(* records; for each one it takes a slot of the limiter, which all pushes   *)
(* of the exporter share, and starts a producer that converts the record    *)
(* and sends it on recordStream.  One consumer appends what it receives to  *)
(* the statements.  Producers and consumer are an errgroup: the first error *)
(* of one cancels groupCtx.  After group.Wait the statements are sent.      *)
(*                                                                         *)
(* A record is a number; what the statements hold is the set of records.    *)
(* ClickHouse and the queue that calls the push again are external.         *)
(***************************************************************************)
EXTENDS Naturals, FiniteSets

CONSTANTS
    Pushes,     \* the queue's consumers
    Records,    \* log records of a batch
    Limit,      \* LogLevelConcurrency: capacity of limiter and of recordStream
    MaxFaults,  \* bound: errors and cancelled contexts
    MaxTries    \* bound: calls of a push for its batch

ASSUME LogsPushAssumption ==
    /\ Records \in Nat /\ Limit \in Nat \ {0}
    /\ MaxFaults \in Nat /\ MaxTries \in Nat \ {0}

VARIABLES
    pc,         \* push -> "idle", "loop", "wait", "prepare", "send", "ok", "error"
    try,        \* push -> calls so far
    next,       \* push -> the record of the producer loop
    producing,  \* push -> records whose producer has a slot
    stream,     \* push -> records in recordStream
    open,       \* push -> recordStream is not closed
    consumer,   \* push -> "running", "appending", "ended"
    current,    \* push -> the record the consumer appends, 0 for none
    appended,   \* push -> records in the statements
    ctx,        \* push -> "live"; "done": cancelled from outside
    err,        \* push -> the errgroup has an error
    faults      \* how much of the bound is left

vars == <<pc, try, next, producing, stream, open, consumer, current, appended, ctx, err, faults>>

Batch == 1 .. Records

Init ==
    /\ pc = [p \in Pushes |-> "idle"]
    /\ try = [p \in Pushes |-> 0]
    /\ next = [p \in Pushes |-> 1]
    /\ producing = [p \in Pushes |-> {}]
    /\ stream = [p \in Pushes |-> {}]
    /\ open = [p \in Pushes |-> FALSE]
    /\ consumer = [p \in Pushes |-> "ended"]
    /\ current = [p \in Pushes |-> 0]
    /\ appended = [p \in Pushes |-> {}]
    /\ ctx = [p \in Pushes |-> "live"]
    /\ err = [p \in Pushes |-> FALSE]
    /\ faults = MaxFaults

\* groupCtx is done with the context of the push or with the first error.
GroupDone(p) == ctx[p] = "done" \/ err[p]

\* Slots of the limiter in use: one for each producer of each push.
Slots == {s \in Pushes \X Batch : s[2] \in producing[s[1]]}
SlotsInUse == Cardinality(Slots)
SlotFree == SlotsInUse < Limit

Goto(p, l) == pc' = [pc EXCEPT ![p] = l]
Fault == faults > 0 /\ faults' = faults - 1

\* The queue calls the push, the first time or again after an error: the
\* statements are prepared and the consumer is started.
Begin(p) ==
    /\ pc[p] \in {"idle", "error"}
    /\ try[p] < MaxTries
    /\ try' = [try EXCEPT ![p] = @ + 1]
    /\ next' = [next EXCEPT ![p] = 1]
    /\ stream' = [stream EXCEPT ![p] = {}]
    /\ open' = [open EXCEPT ![p] = TRUE]
    /\ consumer' = [consumer EXCEPT ![p] = "running"]
    /\ appended' = [appended EXCEPT ![p] = {}]
    /\ ctx' = [ctx EXCEPT ![p] = "live"]
    /\ err' = [err EXCEPT ![p] = FALSE]
    /\ Goto(p, "loop")
    /\ UNCHANGED <<producing, current, faults>>

\* The timeout of the exporter, or its shutdown, ends the context of the push.
Cancel(p) ==
    /\ pc[p] \in {"loop", "wait", "prepare", "send"}
    /\ ctx[p] = "live"
    /\ Fault
    /\ ctx' = [ctx EXCEPT ![p] = "done"]
    /\ UNCHANGED <<pc, try, next, producing, stream, open, consumer, appended, err, current>>

-----------------------------------------------------------------------------
(* The producer loop and the producers *)

\* A slot, and a producer for the next record.  The select may choose the slot
\* when groupCtx is done too.
Acquire(p) ==
    /\ pc[p] = "loop"
    /\ next[p] <= Records
    /\ SlotFree
    /\ producing' = [producing EXCEPT ![p] = @ \cup {next[p]}]
    /\ next' = [next EXCEPT ![p] = @ + 1]
    /\ UNCHANGED <<pc, try, stream, open, consumer, appended, ctx, err, faults, current>>

\* The loop ends with the last record, or breaks when groupCtx is done.
LoopEnds(p) ==
    /\ pc[p] = "loop"
    /\ next[p] > Records \/ GroupDone(p)
    /\ Goto(p, "wait")
    /\ UNCHANGED <<try, next, producing, stream, open, consumer, appended, ctx, err, faults, current>>

\* recordStream <- record; the deferred call gives the slot back.
Produce(p) ==
    /\ Cardinality(stream[p]) < Limit
    /\ \E r \in producing[p] :
         /\ stream' = [stream EXCEPT ![p] = @ \cup {r}]
         /\ producing' = [producing EXCEPT ![p] = @ \ {r}]
    /\ UNCHANGED <<pc, try, next, open, consumer, appended, ctx, err, faults, current>>

\* IdGenError.
ProducerFails(p) ==
    /\ Fault
    /\ \E r \in producing[p] : producing' = [producing EXCEPT ![p] = @ \ {r}]
    /\ err' = [err EXCEPT ![p] = TRUE]
    /\ UNCHANGED <<pc, try, next, stream, open, consumer, appended, ctx, current>>

\* Mutant: the stream is closed without waiting for the producers.
CloseRecordStream_NoWait(p) ==
    /\ pc[p] = "wait"
    /\ open[p]
    /\ open' = [open EXCEPT ![p] = FALSE]
    /\ UNCHANGED <<pc, try, next, producing, stream, consumer, appended, ctx, err, faults, current>>

\* Mutant: the stream is closed only when the group is cancelled.
CloseRecordStream_OnlyWhenCancelled(p) ==
    /\ pc[p] = "wait"
    /\ open[p]
    /\ producing[p] = {}
    /\ GroupDone(p)
    /\ open' = [open EXCEPT ![p] = FALSE]
    /\ UNCHANGED <<pc, try, next, producing, stream, consumer, appended, ctx, err, faults, current>>

\* producersWG.Wait, closeRecordStream.
CloseRecordStream(p) ==
    /\ pc[p] = "wait"
    /\ open[p]
    /\ producing[p] = {}
    /\ open' = [open EXCEPT ![p] = FALSE]
    /\ UNCHANGED <<pc, try, next, producing, stream, consumer, appended, ctx, err, faults, current>>

-----------------------------------------------------------------------------
(* The consumer *)

Receive(p) ==
    /\ consumer[p] = "running"
    /\ consumer' = [consumer EXCEPT ![p] = "appending"]
    /\ \E r \in stream[p] :
         /\ current' = [current EXCEPT ![p] = r]
         /\ stream' = [stream EXCEPT ![p] = @ \ {r}]
    /\ UNCHANGED <<pc, try, next, producing, open, appended, ctx, err, faults>>

Append(p) ==
    /\ consumer[p] = "appending"
    /\ appended' = [appended EXCEPT ![p] = @ \cup {current[p]}]
    /\ consumer' = [consumer EXCEPT ![p] = "running"]
    /\ current' = [current EXCEPT ![p] = 0]
    /\ UNCHANGED <<pc, try, next, producing, stream, open, ctx, err, faults>>

\* StatementAppendLogsV2, or an error of addAttrsToTagStatement.
AppendFails(p) ==
    /\ consumer[p] = "appending"
    /\ Fault
    /\ consumer' = [consumer EXCEPT ![p] = "ended"]
    /\ current' = [current EXCEPT ![p] = 0]
    /\ err' = [err EXCEPT ![p] = TRUE]
    /\ UNCHANGED <<pc, try, next, producing, stream, open, appended, ctx>>

\* The stream is closed and empty, or groupCtx is done.
ConsumerEnds(p) ==
    /\ consumer[p] = "running"
    /\ GroupDone(p) \/ (~open[p] /\ stream[p] = {})
    /\ consumer' = [consumer EXCEPT ![p] = "ended"]
    /\ UNCHANGED <<pc, try, next, producing, stream, open, appended, ctx, err, faults, current>>

-----------------------------------------------------------------------------
(* group.Wait and what follows it *)

GroupWait(p) ==
    /\ pc[p] = "wait"
    /\ consumer[p] = "ended"
    /\ producing[p] = {}
    /\ Goto(p, IF err[p] THEN "error" ELSE "prepare")
    /\ open' = IF err[p] THEN [open EXCEPT ![p] = FALSE] ELSE open
    /\ UNCHANGED <<try, next, producing, stream, consumer, appended, ctx, err, faults, current>>

\* Mutant: the batch is prepared although the context is done.
PrepareResources_NoContext(p) ==
    /\ pc[p] = "prepare"
    /\ Goto(p, "send")
    /\ open' = [open EXCEPT ![p] = FALSE]
    /\ UNCHANGED <<try, next, producing, stream, consumer, appended, ctx, err, faults, current>>

\* PrepareBatch for the resource fingerprints fails when the context is done.
PrepareResources(p) ==
    /\ pc[p] = "prepare"
    /\ Goto(p, IF ctx[p] = "done" THEN "error" ELSE "send")
    /\ open' = [open EXCEPT ![p] = FALSE]
    /\ UNCHANGED <<try, next, producing, stream, consumer, appended, ctx, err, faults, current>>

\* All statements are sent at once and waited for; an error is the result of the
\* push, except "code: 252", too many partitions, which pushLogsData drops.
SendStatements(p) ==
    /\ pc[p] = "send"
    /\ \/ Goto(p, "ok") /\ UNCHANGED faults
       \/ Goto(p, "error") /\ Fault
    /\ UNCHANGED <<try, next, producing, stream, open, consumer, appended, ctx, err, current>>

Step(p) ==
    \/ Acquire(p) \/ LoopEnds(p) \/ Produce(p) \/ CloseRecordStream(p)
    \/ Receive(p) \/ Append(p) \/ ConsumerEnds(p)
    \/ GroupWait(p) \/ PrepareResources(p) \/ SendStatements(p)

Next ==
    \E p \in Pushes :
        Begin(p) \/ Cancel(p) \/ Step(p) \/ ProducerFails(p) \/ AppendFails(p)

\* The scheduler runs every goroutine; a slot of the limiter goes to the push
\* that has waited for it longest.
Fairness ==
    \A p \in Pushes :
        /\ WF_vars(LoopEnds(p)) /\ WF_vars(Produce(p)) /\ WF_vars(CloseRecordStream(p))
        /\ WF_vars(Receive(p) \/ Append(p) \/ ConsumerEnds(p))
        /\ WF_vars(GroupWait(p) \/ PrepareResources(p) \/ SendStatements(p))
        /\ SF_vars(Acquire(p))

Spec == Init /\ [][Next]_vars /\ Fairness

-----------------------------------------------------------------------------
(* Properties *)

Running(p) == pc[p] \in {"loop", "wait", "prepare", "send"}
Ended(p) == pc[p] \in {"ok", "error"}

\* closeRecordStream, called by the goroutine that waits for the producers and
\* by the deferred call: while a producer has a record to send, the stream is
\* open (a send on a closed channel panics), and producers hold no more slots
\* than there are, so that a push that has ended holds none.
StreamOutlivesProducers ==
    /\ \A p \in Pushes : producing[p] # {} => open[p] /\ Running(p)
    /\ SlotsInUse <= Limit

\* A context that ends during the loop is no error of the errgroup: consumer
\* and loop just end, and records may be left in the stream.  Still statements
\* are only ever sent with all records of the batch, or else the rest would be
\* lost and the batch acknowledged.
WholeBatchSent ==
    \A p \in Pushes : pc[p] \in {"send", "ok"} => appended[p] = Batch

\* The limiter is shared: as long as nothing has failed, a push that waits for
\* slots other pushes hold comes to its end.
PushEndsUnlessFault ==
    ([](faults = MaxFaults)) => \A p \in Pushes : Running(p) ~> Ended(p)

\* pushToClickhouse, on an error in either producer or consumer: "both will
\* exit with the help of groupCtx.Done()" and "channel will get closed", so that
\* group.Wait returns the error.
ErrorEndsPush == \A p \in Pushes : (Running(p) /\ err[p]) ~> Ended(p)

=============================================================================
