---------------------------- MODULE TailSampler ----------------------------
(***************************************************************************)
(* The tail sampling processor (processor/signoztailsampler): spans wait in *)
(* a map of traces until a tick decides about their trace.  Goroutines of   *)
(* the pipeline call ConsumeTraces, one goroutine fills the batches of      *)
(* trace ids, one evaluates a batch on every tick.                          *)
(*                                                                         *)
(* The spans of one trace in one call are treated alike, so a call is       *)
(* modelled span by span.  A policy decides by the trace id alone.          *)
(***************************************************************************)
EXTENDS Integers, Sequences, FiniteSets

CONSTANTS
    TraceIds,
    Spans,
    NoSpan,       \* a caller has no span
    TraceOf,      \* the trace of each span
    Workers,      \* goroutines that call ConsumeTraces
    PolicyCfgs,   \* the configured policy groups
    NumTraces,    \* traces kept in memory: the capacity of deleteChan
    NumBatches,   \* ticks a trace waits: the capacity of batches
    ChanSize,     \* the capacity of pendingIds
    MaxObjects    \* bound: TraceData objects created

Policy == [priority : Nat,
           verdict : [TraceIds -> {"Sampled", "NotSampled", "NoResult"}]]

ASSUME SamplerAssumption ==
    /\ NoSpan \notin Spans
    /\ TraceOf \in [Spans -> TraceIds]
    /\ PolicyCfgs \in Seq(Policy)
    /\ {NumTraces, NumBatches, ChanSize, MaxObjects} \subseteq Nat \ {0}

VARIABLES
    arriving,      \* spans that the processor has not yet received
    idToTrace,     \* trace id -> its TraceData object, or 0
    data,          \* the TraceData objects
    objects,       \* how many were created
    onMap,         \* numTracesOnMap
    deleteChan,    \* trace ids, oldest first
    pendingIds,    \* the three stages of the idbatcher
    currentBatch,
    batches,
    worker,        \* where each caller of processTraces is
    tick,          \* where samplingPolicyOnTick is
    phase,         \* "running", then the steps of Shutdown
    forwarded      \* how often a span was sent to the next consumer

mapVars == <<idToTrace, objects, onMap, deleteChan>>
batcherVars == <<pendingIds, currentBatch, batches>>
vars == <<arriving, mapVars, data, batcherVars, worker, tick, phase, forwarded>>

Objects == 1 .. MaxObjects
Idle == [at |-> "idle", span |-> NoSpan, obj |-> 0, drop |-> {}]
NewData(id) == [id |-> id, decision |-> "Unspecified", spans |-> {}]
NoTick == [batch |-> <<>>, obj |-> 0]

Init ==
    /\ arriving = Spans
    /\ idToTrace = [id \in TraceIds |-> 0]
    /\ data = <<>>
    /\ objects = 0 /\ onMap = 0
    /\ deleteChan = <<>>
    /\ pendingIds = <<>> /\ currentBatch = <<>>
    /\ batches = [i \in 1 .. NumBatches |-> <<>>]
    /\ worker = [w \in Workers |-> Idle]
    /\ tick = NoTick
    /\ phase = "running"
    /\ forwarded = [s \in Spans |-> 0]

-----------------------------------------------------------------------------
(* The policies *)

\* Go's copy: as many elements as the shorter slice has.
CopyInto(dst, src) ==
    [i \in 1 .. Len(dst) |-> IF i <= Len(src) THEN src[i] ELSE dst[i]]

\* newTracesProcessor copies the configured groups into an empty slice.
PolicyGroups == CopyInto(<<>>, PolicyCfgs)

\* sort.Slice: the groups in an order of their priorities.
ByPriority(groups) ==
    LET I == 1 .. Len(groups)
        order == CHOOSE f \in [I -> I] :
                    \A i, j \in I : i < j =>
                        f[i] # f[j] /\ groups[f[i]].priority <= groups[f[j]].priority
    IN  [i \in I |-> groups[order[i]]]

\* The first policy with a result decides; without one the trace is sampled.
Decide(policies, id) ==
    LET results == {i \in 1 .. Len(policies) :
                       policies[i].verdict[id] # "NoResult"}
    IN  IF results = {}
        THEN "Sampled"
        ELSE policies[CHOOSE i \in results : \A j \in results : i <= j].verdict[id]

MakeDecision(id) == Decide(ByPriority(PolicyGroups), id)

-----------------------------------------------------------------------------
(* processTraces *)

To(w, at) == worker' = [worker EXCEPT ![w].at = at]

\* Load and LoadOrStore: the trace of the span is found or created.
Receive(w, s) ==
    /\ worker[w].at = "idle" /\ s \in arriving /\ phase = "running"
    /\ arriving' = arriving \ {s}
    /\ LET id == TraceOf[s] IN
       \/ /\ idToTrace[id] # 0
          /\ worker' = [worker EXCEPT
                ![w] = [at |-> "append", span |-> s, obj |-> idToTrace[id], drop |-> {}]]
          /\ UNCHANGED <<idToTrace, data, objects>>
       \/ /\ idToTrace[id] = 0 /\ objects < MaxObjects
          /\ objects' = objects + 1
          /\ data' = Append(data, NewData(id))
          /\ idToTrace' = [idToTrace EXCEPT ![id] = objects']
          /\ worker' = [worker EXCEPT
                ![w] = [at |-> "add", span |-> s, obj |-> objects', drop |-> {}]]
    /\ UNCHANGED <<onMap, deleteChan, batcherVars, tick, phase, forwarded>>

\* Mutant: the new trace is not given to the batcher.
AddNothing(w) ==
    /\ worker[w].at = "add"
    /\ onMap' = onMap + 1
    /\ To(w, "post")
    /\ UNCHANGED <<arriving, idToTrace, objects, deleteChan, data, batcherVars,
                   tick, phase, forwarded>>

AddToCurrentBatch(w) ==
    /\ worker[w].at = "add" /\ Len(pendingIds) < ChanSize
    /\ pendingIds' = Append(pendingIds, TraceOf[worker[w].span])
    /\ onMap' = onMap + 1
    /\ To(w, "post")
    /\ UNCHANGED <<arriving, idToTrace, objects, deleteChan, data, currentBatch,
                   batches, tick, phase, forwarded>>

\* The select on deleteChan: room for the id, or none.
Post(w) ==
    /\ worker[w].at = "post"
    /\ \/ /\ Len(deleteChan) < NumTraces
          /\ deleteChan' = Append(deleteChan, TraceOf[worker[w].span])
          /\ To(w, "append")
       \/ /\ Len(deleteChan) = NumTraces
          /\ To(w, "take")
          /\ UNCHANGED deleteChan
    /\ UNCHANGED <<arriving, idToTrace, objects, onMap, data, batcherVars, tick,
                   phase, forwarded>>

\* The oldest id is taken from the channel, which may have to be waited for.
TakeOldest(w) ==
    /\ worker[w].at = "take" /\ deleteChan # <<>>
    /\ worker' = [worker EXCEPT ![w].at = "drop", ![w].drop = {Head(deleteChan)}]
    /\ deleteChan' = Tail(deleteChan)
    /\ UNCHANGED <<arriving, idToTrace, objects, onMap, data, batcherVars, tick,
                   phase, forwarded>>

\* Mutant: only the counter changes.
DropCounted(w) ==
    /\ worker[w].at = "drop"
    /\ onMap' = onMap - 1
    /\ worker' = [worker EXCEPT ![w].at = "post", ![w].drop = {}]
    /\ UNCHANGED <<arriving, idToTrace, objects, deleteChan, data, batcherVars,
                   tick, phase, forwarded>>

DropTrace(w) ==
    /\ worker[w].at = "drop"
    /\ \E id \in worker[w].drop :
          /\ idToTrace' = [idToTrace EXCEPT ![id] = 0]
          /\ onMap' = IF idToTrace[id] = 0 THEN onMap ELSE onMap - 1
    /\ worker' = [worker EXCEPT ![w].at = "post", ![w].drop = {}]
    /\ UNCHANGED <<arriving, objects, deleteChan, data, batcherVars, tick, phase,
                   forwarded>>

\* Mutant: a late span is added to the trace as well.
AppendAlways(w) ==
    LET o == worker[w].obj  s == worker[w].span IN
    /\ worker[w].at = "append"
    /\ data' = [data EXCEPT ![o].spans = @ \cup {s}]
    /\ worker' = [worker EXCEPT ![w] = Idle]
    /\ UNCHANGED <<arriving, mapVars, batcherVars, tick, phase, forwarded>>

\* Under the lock of the trace the span is kept until the decision; after it
\* the span is forwarded or discarded at once.
AppendSpan(w) ==
    LET o == worker[w].obj  s == worker[w].span IN
    /\ worker[w].at = "append"
    /\ \/ /\ data[o].decision = "Unspecified"
          /\ data' = [data EXCEPT ![o].spans = @ \cup {s}]
          /\ UNCHANGED forwarded
       \/ /\ data[o].decision = "Sampled"
          /\ forwarded' = [forwarded EXCEPT ![s] = @ + 1]
          /\ UNCHANGED data
       \/ /\ data[o].decision = "NotSampled"
          /\ UNCHANGED <<data, forwarded>>
    /\ worker' = [worker EXCEPT ![w] = Idle]
    /\ UNCHANGED <<arriving, mapVars, batcherVars, tick, phase>>

WorkerStep(w) ==
    \/ AddToCurrentBatch(w) \/ Post(w) \/ TakeOldest(w) \/ DropTrace(w)
    \/ AppendSpan(w)

-----------------------------------------------------------------------------
(* The idbatcher and the tick *)

\* The goroutine of the batcher.
Fill ==
    /\ pendingIds # <<>>
    /\ currentBatch' = Append(currentBatch, Head(pendingIds))
    /\ pendingIds' = Tail(pendingIds)
    /\ UNCHANGED <<arriving, mapVars, data, batches, worker, tick, phase, forwarded>>

Ticking == tick.batch # <<>>

\* Mutant: the current batch is not replaced by a new one.
KeepCurrentBatch ==
    /\ ~Ticking /\ phase = "running"
    /\ tick' = [tick EXCEPT !.batch = Head(batches)]
    /\ batches' = Append(Tail(batches), currentBatch)
    /\ UNCHANGED <<arriving, mapVars, data, pendingIds, currentBatch, worker, phase,
                   forwarded>>

\* CloseCurrentAndTakeFirstBatch: a batch enters the channel for each one that
\* leaves it, until the batcher is stopped; then what is left is taken.
CloseCurrentAndTakeFirstBatch ==
    /\ ~Ticking /\ phase \in {"running", "batcherStopped", "tickerStopped"}
    /\ IF batches = <<>>
       THEN /\ tick' = [tick EXCEPT !.batch = currentBatch]
            /\ currentBatch' = <<>>
            /\ UNCHANGED batches
       ELSE /\ tick' = [tick EXCEPT !.batch = Head(batches)]
            /\ IF phase = "running"
               THEN /\ batches' = Append(Tail(batches), currentBatch)
                    /\ currentBatch' = <<>>
               ELSE /\ batches' = Tail(batches)
                    /\ UNCHANGED currentBatch
    /\ UNCHANGED <<arriving, mapVars, data, pendingIds, worker, phase, forwarded>>

TickLoad ==
    /\ Ticking /\ tick.obj = 0
    /\ tick' = IF idToTrace[Head(tick.batch)] = 0
               THEN [tick EXCEPT !.batch = Tail(@)]
               ELSE [tick EXCEPT !.obj = idToTrace[Head(tick.batch)]]
    /\ UNCHANGED <<arriving, mapVars, data, batcherVars, worker, phase, forwarded>>

\* The decision is stored and the spans are copied under the lock of the trace;
\* the object keeps them.
TickDecide ==
    LET o == tick.obj  decision == MakeDecision(Head(tick.batch)) IN
    /\ o # 0
    /\ data' = [data EXCEPT ![o].decision = decision]
    /\ forwarded' = [s \in Spans |->
          IF decision = "Sampled" /\ s \in data[o].spans
          THEN forwarded[s] + 1 ELSE forwarded[s]]
    /\ tick' = [batch |-> Tail(tick.batch), obj |-> 0]
    /\ UNCHANGED <<arriving, mapVars, batcherVars, worker, phase>>

-----------------------------------------------------------------------------
(* Shutdown, which the collector calls after the receivers have stopped *)

\* decisionBatcher.Stop closes pendingIds and waits until it is drained.
StopBatcher ==
    /\ phase = "running" /\ \A w \in Workers : worker[w].at = "idle"
    /\ phase' = "stopping"
    /\ UNCHANGED <<arriving, mapVars, data, batcherVars, worker, tick, forwarded>>

BatcherStopped ==
    /\ phase = "stopping" /\ pendingIds = <<>>
    /\ phase' = "batcherStopped"
    /\ UNCHANGED <<arriving, mapVars, data, batcherVars, worker, tick, forwarded>>

\* policyTicker.Stop closes StopCh and stops the ticker ...
StopTicker ==
    /\ phase = "batcherStopped"
    /\ phase' = "tickerStopped"
    /\ UNCHANGED <<arriving, mapVars, data, batcherVars, worker, tick, forwarded>>

\* ... and the goroutine of the ticker returns when its select takes StopCh; it
\* may take a tick that is pending first.
TickerReturns ==
    /\ phase = "tickerStopped" /\ ~Ticking
    /\ phase' = "down"
    /\ UNCHANGED <<arriving, mapVars, data, batcherVars, worker, tick, forwarded>>

Next ==
    \/ \E w \in Workers : \E s \in Spans : Receive(w, s)
    \/ \E w \in Workers : WorkerStep(w)
    \/ Fill \/ CloseCurrentAndTakeFirstBatch \/ TickLoad \/ TickDecide
    \/ StopBatcher \/ BatcherStopped \/ StopTicker \/ TickerReturns

\* The goroutines run and the ticker fires; a sender that waits for a channel
\* gets its turn.  Spans need not arrive, and Shutdown need not be called.
Fairness ==
    /\ \A w \in Workers : SF_vars(WorkerStep(w))
    /\ WF_vars(Fill)
    /\ WF_vars(CloseCurrentAndTakeFirstBatch \/ TickLoad \/ TickDecide)

Spec == Init /\ [][Next]_vars /\ Fairness
-----------------------------------------------------------------------------
(* Properties *)

In(id, seq) == \E i \in 1 .. Len(seq) : seq[i] = id
OnMap == {id \in TraceIds : idToTrace[id] # 0}

\* The map never holds more than NumTraces traces once the calls in progress
\* have returned, and numTracesOnMap counts them: every trace on the map has
\* exactly one entry in deleteChan (processor.go, processTraces, dropTrace).
MapBounded ==
    (\A w \in Workers : worker[w].at \in {"idle", "append"}) =>
        /\ Cardinality(OnMap) <= NumTraces
        /\ onMap = Cardinality(OnMap)
        /\ \A id \in OnMap :
              Cardinality({i \in 1 .. Len(deleteChan) : deleteChan[i] = id}) = 1

\* A trace on the map that waits for its decision is in the batcher, in the
\* batch the tick works on, or about to be given to the batcher: its spans are
\* not forgotten (processor.go, AddToCurrentBatch; id_batcher.go).
Scheduled(id) ==
    \/ In(id, pendingIds) \/ In(id, currentBatch) \/ In(id, tick.batch)
    \/ \E i \in 1 .. Len(batches) : In(id, batches[i])
    \/ \E w \in Workers : worker[w].at = "add" /\ worker[w].obj = idToTrace[id]

NoneForgotten ==
    \A id \in OnMap :
        data[idToTrace[id]].decision = "Unspecified" => Scheduled(id)

\* As long as no trace was dropped from the map and created again, a span is
\* forwarded at most once, whether it arrives before, during or after the
\* decision on its trace (processor.go, the lock of TraceData).
OnceUnlessRecreated ==
    (\A i, j \in 1 .. objects : data[i].id = data[j].id => i = j) =>
        \A s \in Spans : forwarded[s] <= 1

\* While the processor runs, a span that waits for the decision on its trace
\* meets it in the end: with "Sampled" it is forwarded, with "NotSampled" it is
\* discarded, unless its trace is dropped to make room (processor.go,
\* samplingPolicyOnTick; the late spans of processTraces).
Handled(s) ==
    LET decision == data[idToTrace[TraceOf[s]]].decision IN
    decision = "NotSampled" \/ (decision = "Sampled" /\ forwarded[s] > 0)

DecisionMade ==
    \A s \in Spans :
        (\E id \in OnMap : s \in data[idToTrace[id]].spans) ~>
            (TraceOf[s] \notin OnMap \/ Handled(s) \/ phase # "running")

\* No span is forwarded of a trace that the configured policies reject
\* (config.go, PolicyCfgs: "PolicyCfgs sets the tail-based sampling policy
\* which makes a sampling decision for a given trace when requested").
RejectedIsDropped ==
    \A s \in Spans :
        Decide(ByPriority(PolicyCfgs), TraceOf[s]) = "NotSampled" => forwarded[s] = 0
=============================================================================
