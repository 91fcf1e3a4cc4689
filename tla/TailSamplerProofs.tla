-------------------------- MODULE TailSamplerProofs --------------------------
(***************************************************************************)
(* Proofs about TailSampler, for any number of traces, spans, callers and   *)
(* batches: the map is bounded, no trace that waits is forgotten, and a     *)
(* span is forwarded at most once while no trace is created twice.          *)
(***************************************************************************)
EXTENDS TailSampler, FiniteSetTheorems, TLAPS

-----------------------------------------------------------------------------
(* The types, and what belongs to what *)

TraceData == [id : TraceIds, decision : {"Unspecified", "Sampled"}, spans : SUBSET Spans]
Ats == {"idle", "add", "post", "take", "drop", "append"}

Call(n) == [at : Ats, span : Spans \cup {NoSpan}, obj : 0 .. n, drop : SUBSET TraceIds]

MapOK ==
    /\ objects \in Nat /\ data \in Seq(TraceData) /\ Len(data) = objects
    /\ idToTrace \in [TraceIds -> 0 .. objects]
CallsOK == worker \in [Workers -> Call(objects)]
QueuesOK ==
    /\ deleteChan \in Seq(TraceIds)
    /\ pendingIds \in Seq(TraceIds) /\ currentBatch \in Seq(TraceIds)
    /\ batches \in Seq(Seq(TraceIds))
TickOK == tick \in [batch : Seq(TraceIds), obj : 0 .. objects]
CountsOK == arriving \subseteq Spans /\ onMap \in Int /\ forwarded \in [Spans -> Nat]

SamplerTypeOK == MapOK /\ CallsOK /\ QueuesOK /\ TickOK /\ CountsOK

\* The object a goroutine or the map refers to is that of the trace meant.
MapMeans == \A id \in TraceIds : idToTrace[id] # 0 => data[idToTrace[id]].id = id
CallMeans ==
    \A w \in Workers :
        /\ worker[w].at = "idle" <=> worker[w].span = NoSpan
        /\ worker[w].at # "idle" =>
              worker[w].obj # 0 /\ data[worker[w].obj].id = TraceOf[worker[w].span]
        /\ worker[w].at # "drop" => worker[w].drop = {}
        /\ worker[w].at = "drop" => \E id \in TraceIds : worker[w].drop = {id}
TickMeans == tick.obj # 0 => Ticking /\ data[tick.obj].id = tick.batch[1]

ObjectsInv == MapMeans /\ CallMeans /\ TickMeans

BaseInv == SamplerTypeOK /\ ObjectsInv

-----------------------------------------------------------------------------
(* Where a trace waits for its decision *)

\* Id is at place i of stage k; x tells callers, and batches, apart.
Waits(k, x, i, id) ==
    \/ /\ k = "add" /\ x \in Workers /\ i = 0
       /\ worker[x].at = "add" /\ TraceOf[worker[x].span] = id
    \/ k = "pending" /\ x = 0 /\ i \in 1 .. Len(pendingIds) /\ pendingIds[i] = id
    \/ k = "current" /\ x = 0 /\ i \in 1 .. Len(currentBatch) /\ currentBatch[i] = id
    \/ /\ k = "batch" /\ x \in 1 .. Len(batches)
       /\ i \in 1 .. Len(batches[x]) /\ batches[x][i] = id
    \/ k = "tick" /\ x = 0 /\ i \in 1 .. Len(tick.batch) /\ tick.batch[i] = id

\* A place where the object that is on the map now will be found.
WillBeFound(id) ==
    \/ In(id, pendingIds) \/ In(id, currentBatch)
    \/ \E i \in 1 .. Len(batches) : In(id, batches[i])
    \/ \E i \in 1 .. Len(tick.batch) :
          tick.batch[i] = id /\ (i = 1 /\ tick.obj # 0 => tick.obj = idToTrace[id])
    \/ \E w \in Workers : worker[w].at = "add" /\ worker[w].obj = idToTrace[id]

ScheduledInv ==
    \A id \in OnMap : data[idToTrace[id]].decision = "Unspecified" => WillBeFound(id)

\* No trace was created twice.
NoTwins == \A i, j \in 1 .. objects : data[i].id = data[j].id => i = j

OnePlace(id) ==
    \A k, x, i, kk, xx, ii :
        Waits(k, x, i, id) /\ Waits(kk, xx, ii, id) => k = kk /\ x = xx /\ i = ii

\* Then a trace waits at one place, and only until it is decided about.
WaitsInv ==
    /\ \A k, x, i, id : Waits(k, x, i, id) => \E o \in 1 .. objects : data[o].id = id
    /\ NoTwins =>
          \A id :
              /\ OnePlace(id)
              /\ \A k, x, i : Waits(k, x, i, id) =>
                    \A o \in 1 .. objects : data[o].id = id => data[o].decision = "Unspecified"

\* A span is outside, with one caller, or in objects; it is not forwarded before
\* its caller has seen a decision or the tick has made one.
Fresh(s) == forwarded[s] = 0 /\ \A o \in 1 .. objects : s \notin data[o].spans
SpanInv(s) ==
    /\ s \in arriving => Fresh(s) /\ \A w \in Workers : worker[w].span # s
    /\ \A w \in Workers : worker[w].span = s =>
          Fresh(s) /\ \A v \in Workers : worker[v].span = s => v = w
    /\ \A o \in 1 .. objects : s \in data[o].spans =>
          /\ data[o].id = TraceOf[s]
          /\ data[o].decision = "Unspecified" => forwarded[s] = 0
    /\ forwarded[s] <= 1

SpansInv == NoTwins => \A s \in Spans : SpanInv(s)

-----------------------------------------------------------------------------
(* The entries of the map *)

\* What entitles id to its entry: its place in deleteChan, the caller that has
\* made the entry and not yet given it a place, or the one about to drop it.
Token(k, x, id) ==
    \/ k = "chan" /\ x \in 1 .. Len(deleteChan) /\ deleteChan[x] = id
    \/ /\ k = "own" /\ x \in Workers /\ worker[x].at \in {"add", "post", "take", "drop"}
       /\ TraceOf[worker[x].span] = id
    \/ k = "drop" /\ x \in Workers /\ id \in worker[x].drop

Adders == {w \in Workers : worker[w].at = "add"}

OneToken == \A k, x, kk, xx, id : Token(k, x, id) /\ Token(kk, xx, id) => k = kk /\ x = xx
Entitled == \A id \in TraceIds : id \in OnMap <=> \E k, x : Token(k, x, id)
Counted ==
    /\ IsFiniteSet(Adders) /\ IsFiniteSet(OnMap)
    /\ onMap + Cardinality(Adders) = Cardinality(OnMap)

TokenInv == OneToken /\ Entitled /\ Len(deleteChan) <= NumTraces /\ Counted

-----------------------------------------------------------------------------
(* Sequences, and the decision *)

\* What Append does to the elements.
LEMMA AppendFacts ==
    ASSUME NEW S, NEW q \in Seq(S), NEW e \in S
    PROVE  /\ Append(q, e) \in Seq(S)
           /\ Len(q) \in Nat /\ Len(Append(q, e)) = Len(q) + 1
           /\ \A i \in 1 .. Len(q) : Append(q, e)[i] = q[i]
           /\ Append(q, e)[Len(q) + 1] = e
OBVIOUS

\* What Head and Tail do to the elements.
LEMMA TailFacts ==
    ASSUME NEW S, NEW q \in Seq(S), q # <<>>
    PROVE  /\ Len(q) \in Nat \ {0} /\ q[1] \in S /\ Head(q) = q[1]
           /\ Tail(q) \in Seq(S) /\ Len(Tail(q)) = Len(q) - 1
           /\ \A i \in 1 .. Len(q) - 1 : Tail(q)[i] = q[i + 1]
OBVIOUS

\* No policy is ever loaded, so that every trace is sampled.
LEMMA AllSampled == \A id : MakeDecision(id) = "Sampled"
<1>1. PolicyGroups = <<>>
  BY DEF PolicyGroups, CopyInto
<1>2. ByPriority(PolicyGroups) = <<>>
  BY <1>1 DEF ByPriority
<1> QED
  BY <1>2 DEF MakeDecision, Decide

\* What EXCEPT does to a sequence of objects.
LEMMA UpdateFacts ==
    ASSUME NEW S, NEW q \in Seq(S), NEW o \in 1 .. Len(q), NEW e \in S,
           NEW r, r = [q EXCEPT ![o] = e]
    PROVE  /\ r \in Seq(S) /\ Len(r) = Len(q) /\ r[o] = e
           /\ \A i \in 1 .. Len(q) : i # o => r[i] = q[i]
OBVIOUS

-----------------------------------------------------------------------------
(* Types and objects *)

\* A caller's record is replaced.
LEMMA CallFacts ==
    ASSUME NEW n, worker \in [Workers -> Call(n)], NEW w \in Workers, NEW m,
           NEW e \in Call(m), 0 .. n \subseteq 0 .. m, worker' = [worker EXCEPT ![w] = e]
    PROVE  /\ worker' \in [Workers -> Call(m)]
           /\ worker'[w] = e
           /\ \A v \in Workers : v # w => worker'[v] = worker[v]
BY DEF Call

\* A caller's place and the trace it drops are replaced.
LEMMA ToFacts ==
    ASSUME NEW n, worker \in [Workers -> Call(n)], NEW w \in Workers,
           NEW at \in Ats, NEW drop \in SUBSET TraceIds,
           \/ worker' = [worker EXCEPT ![w].at = at] /\ drop = worker[w].drop
           \/ worker' = [worker EXCEPT ![w].at = at, ![w].drop = drop]
    PROVE  /\ worker' \in [Workers -> Call(n)]
           /\ worker'[w].at = at /\ worker'[w].drop = drop
           /\ worker'[w].span = worker[w].span /\ worker'[w].obj = worker[w].obj
           /\ \A v \in Workers : v # w => worker'[v] = worker[v]
<1>1. worker[w] \in Call(n)
  OBVIOUS
<1> QED BY <1>1 DEF Call

\* The initial state.
LEMMA BaseInit == Init => BaseInv
<1> SUFFICES ASSUME Init PROVE BaseInv
  OBVIOUS
<1> USE SamplerAssumption
<1>1. MapOK /\ CountsOK
  BY DEF Init, MapOK, CountsOK
<1>2. CallsOK
  BY DEF Init, CallsOK, Call, Idle, Ats
<1>3. QueuesOK
  <2>1. batches \in Seq(Seq(TraceIds))
    <3>1. NumBatches \in Nat /\ <<>> \in Seq(TraceIds)
      OBVIOUS
    <3> QED BY <3>1 DEF Init
  <2> QED BY <2>1 DEF Init, QueuesOK
<1>4. TickOK
  BY DEF Init, TickOK, NoTick
<1>5. ObjectsInv
  BY DEF Init, ObjectsInv, MapMeans, CallMeans, TickMeans, Idle, NoTick
<1> QED BY <1>1, <1>2, <1>3, <1>4, <1>5 DEF BaseInv, SamplerTypeOK

\* A call of processTraces starts.
LEMMA BaseReceive ==
    ASSUME BaseInv, NEW w \in Workers, NEW s \in Spans, Receive(w, s)
    PROVE  BaseInv'
<1> DEFINE id == TraceOf[s]
<1>0. /\ id \in TraceIds /\ s # NoSpan /\ MapOK /\ CallsOK /\ ObjectsInv
      /\ QueuesOK /\ TickOK /\ CountsOK
  BY SamplerAssumption DEF BaseInv, SamplerTypeOK
<1>1. QueuesOK' /\ CountsOK'
  BY <1>0 DEF Receive, batcherVars, QueuesOK, CountsOK
<1>2. CASE idToTrace[id] # 0
  <2> DEFINE e == [at |-> "append", span |-> s, obj |-> idToTrace[id], drop |-> {}]
  <2>1. /\ worker' = [worker EXCEPT ![w] = e]
        /\ UNCHANGED <<idToTrace, data, objects, tick>>
    BY <1>2 DEF Receive
  <2>2. e \in Call(objects)
    BY <1>0 DEF MapOK, Call, Ats
  <2>3. /\ CallsOK' /\ worker'[w] = e
        /\ \A v \in Workers : v # w => worker'[v] = worker[v]
    BY <1>0, <2>1, <2>2, CallFacts DEF CallsOK
  <2>4. MapOK' /\ TickOK' /\ MapMeans' /\ TickMeans'
    BY <1>0, <2>1 DEF MapOK, TickOK, ObjectsInv, MapMeans, TickMeans, Ticking
  <2>5. CallMeans'
    BY <1>0, <1>2, <2>1, <2>3 DEF ObjectsInv, CallMeans, MapMeans
  <2> QED BY <1>1, <2>3, <2>4, <2>5 DEF BaseInv, SamplerTypeOK, ObjectsInv
<1>3. CASE idToTrace[id] = 0
  <2> DEFINE e == [at |-> "add", span |-> s, obj |-> objects + 1, drop |-> {}]
  <2>1. /\ objects' = objects + 1
        /\ data' = Append(data, NewData(id))
        /\ idToTrace' = [idToTrace EXCEPT ![id] = objects + 1]
        /\ worker' = [worker EXCEPT ![w] = e]
        /\ UNCHANGED tick
    BY <1>3 DEF Receive
  <2>2. NewData(id) \in TraceData /\ NewData(id).id = id
    BY <1>0 DEF NewData, TraceData
  <2>3. /\ data' \in Seq(TraceData) /\ Len(data') = objects + 1
        /\ \A i \in 1 .. objects : data'[i] = data[i]
        /\ data'[objects + 1].id = id
    BY <1>0, <2>1, <2>2, AppendFacts DEF MapOK
  <2>4. MapOK' /\ TickOK' /\ 0 .. objects \subseteq 0 .. objects + 1
    BY <1>0, <2>1, <2>3 DEF MapOK, TickOK
  <2>5. /\ CallsOK' /\ worker'[w] = e
        /\ \A v \in Workers : v # w => worker'[v] = worker[v]
    <3>1. e \in Call(objects + 1)
      BY <1>0 DEF MapOK, Call, Ats
    <3> QED BY <1>0, <2>1, <2>4, <3>1, CallFacts DEF CallsOK
  <2>6. MapMeans'
    BY <1>0, <2>1, <2>3 DEF ObjectsInv, MapMeans, MapOK
  <2>7. TickMeans'
    BY <1>0, <2>1, <2>3 DEF ObjectsInv, TickMeans, Ticking, TickOK, MapOK
  <2>8. CallMeans'
    <3> SUFFICES ASSUME NEW v \in Workers
                 PROVE  CallMeans!(v)'
      BY DEF CallMeans
    <3>1. CASE v = w
      BY <1>0, <2>1, <2>3, <2>5, <3>1
    <3>2. CASE v # w
      <4>1. worker'[v] = worker[v] /\ worker[v].obj \in 0 .. objects
        BY <1>0, <2>5, <3>2 DEF CallsOK, Call
      <4> QED BY <1>0, <2>3, <4>1 DEF ObjectsInv, CallMeans, MapOK
    <3> QED BY <3>1, <3>2
  <2> QED BY <1>1, <2>4, <2>5, <2>6, <2>7, <2>8 DEF BaseInv, SamplerTypeOK, ObjectsInv
<1> QED BY <1>2, <1>3

\* A step that only moves a caller, with the object it already had.
Moves(w, at, drop) ==
    /\ worker[w].at # "idle" /\ UNCHANGED <<objects, data>>
    /\ \/ worker' = [worker EXCEPT ![w].at = at] /\ drop = worker[w].drop
       \/ worker' = [worker EXCEPT ![w].at = at, ![w].drop = drop]

\* A caller goes on to another step with its span and its object.
LEMMA CallMoves ==
    ASSUME BaseInv, NEW w \in Workers, NEW at \in Ats \ {"idle"}, NEW drop \in SUBSET TraceIds,
           Moves(w, at, drop),
           at # "drop" => drop = {},
           at = "drop" => \E id \in TraceIds : drop = {id}
    PROVE  /\ CallsOK' /\ CallMeans'
           /\ worker'[w].at = at /\ worker'[w].drop = drop
           /\ worker'[w].span = worker[w].span /\ worker'[w].obj = worker[w].obj
           /\ \A v \in Workers : v # w => worker'[v] = worker[v]
<1> USE DEF Moves
<1>0. CallsOK /\ CallMeans
  BY DEF BaseInv, SamplerTypeOK, ObjectsInv
<1>1. /\ worker' \in [Workers -> Call(objects)]
      /\ worker'[w].at = at /\ worker'[w].drop = drop
      /\ worker'[w].span = worker[w].span /\ worker'[w].obj = worker[w].obj
      /\ \A v \in Workers : v # w => worker'[v] = worker[v]
  <2> HIDE DEF Ats
  <2> QED BY <1>0, ToFacts DEF CallsOK
<1>2. CallsOK'
  BY <1>1 DEF CallsOK
<1>3. CallMeans'
  BY <1>0, <1>1 DEF CallMeans
<1> QED BY <1>1, <1>2, <1>3

\* How the steps of a caller move it.
LEMMA WorkerMoves ==
    ASSUME BaseInv, NEW w \in Workers
    PROVE  /\ AddToCurrentBatch(w) => Moves(w, "post", {})
           /\ Post(w) => Moves(w, "append", {}) \/ Moves(w, "take", {})
           /\ TakeOldest(w) => Moves(w, "drop", {Head(deleteChan)})
           /\ DropTrace(w) => Moves(w, "post", {})
<1>1. worker[w].at # "drop" => worker[w].drop = {}
  BY DEF BaseInv, ObjectsInv, CallMeans
<1> USE DEF Moves, To
<1>2. AddToCurrentBatch(w) => Moves(w, "post", {})
  BY <1>1 DEF AddToCurrentBatch
<1>3. Post(w) => Moves(w, "append", {}) \/ Moves(w, "take", {})
  BY <1>1 DEF Post
<1>4. TakeOldest(w) => Moves(w, "drop", {Head(deleteChan)})
  BY DEF TakeOldest
<1>5. DropTrace(w) => Moves(w, "post", {})
  BY DEF DropTrace
<1> QED BY <1>2, <1>3, <1>4, <1>5

\* The steps of a caller.
LEMMA BaseWorker ==
    ASSUME BaseInv, NEW w \in Workers, WorkerStep(w)
    PROVE  BaseInv'
<1>0. MapOK /\ CallsOK /\ ObjectsInv /\ QueuesOK /\ TickOK /\ CountsOK
  BY DEF BaseInv, SamplerTypeOK
<1>1. worker[w].at # "idle" =>
        /\ worker[w].span \in Spans /\ TraceOf[worker[w].span] \in TraceIds
        /\ worker[w].obj \in 1 .. objects
  BY <1>0, SamplerAssumption DEF ObjectsInv, CallMeans, CallsOK, Call, MapOK
<1> USE DEF Ats
<1>2. CASE AddToCurrentBatch(w)
  <2>1. QueuesOK'
    BY <1>0, <1>1, <1>2, AppendFacts DEF AddToCurrentBatch, QueuesOK
  <2>2. MapOK' /\ TickOK' /\ CountsOK' /\ MapMeans' /\ TickMeans'
    BY <1>0, <1>2 DEF AddToCurrentBatch, MapOK, TickOK, CountsOK, ObjectsInv, MapMeans,
                      TickMeans, Ticking
  <2>4. CallsOK' /\ CallMeans'
    BY <1>2, WorkerMoves, CallMoves
  <2> QED BY <2>1, <2>2, <2>4 DEF BaseInv, SamplerTypeOK, ObjectsInv
<1>3. CASE Post(w)
  <2>1. QueuesOK'
    <3>1. deleteChan' = deleteChan \/ deleteChan' = Append(deleteChan, TraceOf[worker[w].span])
      BY <1>3 DEF Post
    <3>2. worker[w].at # "idle" /\ UNCHANGED batcherVars
      BY <1>3 DEF Post
    <3>3. deleteChan' \in Seq(TraceIds)
      <4>1. deleteChan \in Seq(TraceIds) /\ TraceOf[worker[w].span] \in TraceIds
        BY <1>0, <1>1, <3>2 DEF QueuesOK
      <4>2. Append(deleteChan, TraceOf[worker[w].span]) \in Seq(TraceIds)
        BY <4>1, AppendFacts
      <4> QED BY <3>1, <4>1, <4>2
    <3> QED BY <1>0, <3>2, <3>3 DEF QueuesOK, batcherVars
  <2>2. MapOK' /\ TickOK' /\ CountsOK' /\ MapMeans' /\ TickMeans'
    BY <1>0, <1>3 DEF Post, MapOK, TickOK, CountsOK, ObjectsInv, MapMeans, TickMeans, Ticking
  <2>4. CallsOK' /\ CallMeans'
    BY <1>3, WorkerMoves, CallMoves
  <2> QED BY <2>1, <2>2, <2>4 DEF BaseInv, SamplerTypeOK, ObjectsInv
<1>4. CASE TakeOldest(w)
  <2>1. QueuesOK' /\ Head(deleteChan) \in TraceIds
    BY <1>0, <1>4, TailFacts DEF TakeOldest, QueuesOK, batcherVars
  <2>2. MapOK' /\ TickOK' /\ CountsOK' /\ MapMeans' /\ TickMeans'
    BY <1>0, <1>4 DEF TakeOldest, MapOK, TickOK, CountsOK, ObjectsInv, MapMeans, TickMeans,
                      Ticking
  <2>3. CallsOK' /\ CallMeans'
    BY <1>4, <2>1, WorkerMoves, CallMoves
  <2> QED BY <2>1, <2>2, <2>3 DEF BaseInv, SamplerTypeOK, ObjectsInv
<1>5. CASE DropTrace(w)
  <2>1. QueuesOK' /\ TickOK' /\ TickMeans'
    BY <1>0, <1>5 DEF DropTrace, QueuesOK, batcherVars, TickOK, ObjectsInv, TickMeans, Ticking
  <2>2. MapOK' /\ CountsOK' /\ MapMeans'
    <3>1. PICK id \in worker[w].drop :
              /\ idToTrace' = [idToTrace EXCEPT ![id] = 0]
              /\ onMap' = IF idToTrace[id] = 0 THEN onMap ELSE onMap - 1
      BY <1>5 DEF DropTrace
    <3>2. id \in TraceIds /\ UNCHANGED <<objects, data, arriving, forwarded>>
      BY <1>0, <1>5 DEF CallsOK, Call, DropTrace
    <3>3. MapOK' /\ MapMeans'
      BY <1>0, <3>1, <3>2 DEF MapOK, ObjectsInv, MapMeans
    <3> QED BY <1>0, <3>1, <3>2, <3>3 DEF CountsOK
  <2>3. CallsOK' /\ CallMeans'
    BY <1>5, WorkerMoves, CallMoves
  <2> QED BY <2>1, <2>2, <2>3 DEF BaseInv, SamplerTypeOK, ObjectsInv
<1>6. CASE AppendSpan(w)
  <2> DEFINE o == worker[w].obj
             s == worker[w].span
             d == [data[o] EXCEPT !.spans = @ \cup {s}]
  <2>1. o \in 1 .. Len(data) /\ s \in Spans /\ data[o] \in TraceData
    BY <1>0, <1>1, <1>6 DEF AppendSpan, MapOK
  <2>2. d \in TraceData /\ d.id = data[o].id
    BY <2>1 DEF TraceData
  <2>3. /\ data' \in Seq(TraceData) /\ Len(data') = objects
        /\ \A i \in 1 .. objects : data'[i].id = data[i].id
    <3>1. CASE data' = data
      BY <1>0, <3>1 DEF MapOK
    <3>2. CASE data' = [data EXCEPT ![o].spans = @ \cup {s}]
      <4>1. data' = [data EXCEPT ![o] = d]
        BY <3>2
      <4> HIDE DEF d, o
      <4> QED BY <1>0, <2>1, <2>2, <4>1, UpdateFacts DEF MapOK
    <3> QED BY <1>6, <3>1, <3>2 DEF AppendSpan
  <2>4. QueuesOK' /\ TickOK'
    BY <1>0, <1>6 DEF AppendSpan, QueuesOK, TickOK, batcherVars, mapVars
  <2>5. CountsOK'
    BY <1>0, <1>6, <2>1 DEF AppendSpan, CountsOK, mapVars
  <2>6. MapOK' /\ MapMeans'
    BY <1>0, <1>6, <2>3 DEF AppendSpan, MapOK, MapMeans, ObjectsInv, mapVars
  <2>7. TickMeans'
    BY <1>0, <1>6, <2>3 DEF AppendSpan, ObjectsInv, TickMeans, TickOK, Ticking, MapOK
  <2>8. CallsOK' /\ worker'[w] = Idle /\ \A v \in Workers : v # w => worker'[v] = worker[v]
    <3>1. Idle \in Call(objects)
      BY <1>0 DEF Idle, Call, MapOK
    <3>2. worker' = [worker EXCEPT ![w] = Idle] /\ objects' = objects
      BY <1>6 DEF AppendSpan, mapVars
    <3> QED BY <1>0, <3>1, <3>2, CallFacts DEF CallsOK
  <2>9. CallMeans'
    <3> SUFFICES ASSUME NEW v \in Workers
                 PROVE  CallMeans!(v)'
      BY DEF CallMeans
    <3>1. CASE v = w
      BY <2>8, <3>1 DEF Idle
    <3>2. CASE v # w
      <4>1. worker'[v] = worker[v] /\ worker[v].obj \in 0 .. objects
        BY <1>0, <2>8, <3>2 DEF CallsOK, Call
      <4> QED BY <1>0, <2>3, <4>1 DEF ObjectsInv, CallMeans, MapOK
    <3> QED BY <3>1, <3>2
  <2> QED BY <2>4, <2>5, <2>6, <2>7, <2>8, <2>9 DEF BaseInv, SamplerTypeOK, ObjectsInv
<1> QED BY <1>2, <1>3, <1>4, <1>5, <1>6 DEF WorkerStep

\* The batcher, the ticker, Shutdown.
LEMMA BaseOthers ==
    ASSUME BaseInv,
           Fill \/ CloseCurrentAndTakeFirstBatch \/ TickLoad \/ TickDecide \/ StopBatcher
           \/ BatcherStopped \/ StopTicker \/ TickerReturns \/ UNCHANGED vars
    PROVE  BaseInv'
<1>0. MapOK /\ CallsOK /\ ObjectsInv /\ QueuesOK /\ TickOK /\ CountsOK
  BY DEF BaseInv, SamplerTypeOK
<1>1. CASE Fill
  <2>1. QueuesOK'
    BY <1>0, <1>1, AppendFacts, TailFacts DEF Fill, QueuesOK, mapVars
  <2>2. UNCHANGED <<idToTrace, objects, onMap, arriving, data, worker, tick, forwarded>>
    BY <1>1 DEF Fill, mapVars
  <2> QED BY <1>0, <2>1, <2>2 DEF BaseInv, SamplerTypeOK, MapOK, CallsOK, TickOK, CountsOK,
            ObjectsInv, MapMeans, CallMeans, TickMeans, Ticking
<1>2. CASE CloseCurrentAndTakeFirstBatch
  <2>1. UNCHANGED <<idToTrace, objects, onMap, deleteChan, arriving, data, pendingIds, worker,
                    forwarded>>
    BY <1>2 DEF CloseCurrentAndTakeFirstBatch, mapVars
  <2>2. tick.obj = 0
    BY <1>0, <1>2 DEF ObjectsInv, TickMeans, CloseCurrentAndTakeFirstBatch
  <2>3. /\ batches' \in Seq(Seq(TraceIds)) /\ currentBatch' \in Seq(TraceIds)
        /\ \E b \in Seq(TraceIds) : tick' = [tick EXCEPT !.batch = b]
    <3>1. CASE batches = <<>>
      BY <1>0, <1>2, <3>1 DEF CloseCurrentAndTakeFirstBatch, QueuesOK
    <3>2. CASE batches # <<>>
      <4>1. Head(batches) \in Seq(TraceIds) /\ Tail(batches) \in Seq(Seq(TraceIds))
        BY <1>0, <3>2 DEF QueuesOK
      <4>2. Append(Tail(batches), currentBatch) \in Seq(Seq(TraceIds))
        BY <1>0, <4>1 DEF QueuesOK
      <4>3. <<>> \in Seq(TraceIds)
        OBVIOUS
      <4> QED BY <1>0, <1>2, <3>2, <4>1, <4>2, <4>3 DEF CloseCurrentAndTakeFirstBatch, QueuesOK
    <3> QED BY <3>1, <3>2
  <2>4. TickOK' /\ TickMeans'
    BY <1>0, <2>1, <2>2, <2>3 DEF TickOK, TickMeans
  <2> QED BY <1>0, <2>1, <2>3, <2>4 DEF BaseInv, SamplerTypeOK, MapOK, CallsOK, QueuesOK,
            CountsOK, ObjectsInv, MapMeans, CallMeans
<1>3. CASE TickLoad
  <2>1. UNCHANGED <<idToTrace, objects, onMap, arriving, data, worker, forwarded>>
        /\ UNCHANGED <<deleteChan, pendingIds, currentBatch, batches>>
    BY <1>3 DEF TickLoad, mapVars, batcherVars
  <2>2. /\ tick.batch \in Seq(TraceIds) /\ tick.batch # <<>> /\ tick.obj = 0
        /\ Head(tick.batch) = tick.batch[1] /\ tick.batch[1] \in TraceIds
        /\ Tail(tick.batch) \in Seq(TraceIds)
    <3>1. tick.batch \in Seq(TraceIds) /\ tick.batch # <<>> /\ tick.obj = 0
      BY <1>0, <1>3 DEF TickLoad, TickOK, Ticking
    <3> QED BY <3>1, TailFacts
  <2>3. TickOK' /\ TickMeans'
    <3>1. CASE idToTrace[tick.batch[1]] = 0
      <4>1. tick' = [tick EXCEPT !.batch = Tail(tick.batch)]
        BY <1>3, <2>2, <3>1 DEF TickLoad
      <4> QED BY <1>0, <2>1, <2>2, <4>1 DEF TickOK, TickMeans
    <3>2. CASE idToTrace[tick.batch[1]] # 0
      <4>1. tick' = [tick EXCEPT !.obj = idToTrace[tick.batch[1]]]
        BY <1>3, <2>2, <3>2 DEF TickLoad
      <4>2. data[idToTrace[tick.batch[1]]].id = tick.batch[1]
        BY <1>0, <2>2, <3>2 DEF ObjectsInv, MapMeans
      <4> QED BY <1>0, <2>1, <2>2, <4>1, <4>2 DEF TickOK, TickMeans, Ticking, MapOK
    <3> QED BY <3>1, <3>2
  <2> QED BY <1>0, <2>1, <2>3 DEF BaseInv, SamplerTypeOK, MapOK, CallsOK, QueuesOK, CountsOK,
            ObjectsInv, MapMeans, CallMeans
<1>4. CASE TickDecide
  <2> DEFINE o == tick.obj
             d == [data[o] EXCEPT !.decision = "Sampled"]
  <2>1. UNCHANGED <<idToTrace, objects, onMap, arriving, worker>>
        /\ UNCHANGED <<deleteChan, pendingIds, currentBatch, batches>>
    BY <1>4 DEF TickDecide, mapVars, batcherVars
  <2>2. o \in 1 .. Len(data) /\ data[o] \in TraceData
    BY <1>0, <1>4 DEF TickDecide, MapOK, TickOK
  <2>3. d \in TraceData /\ d.id = data[o].id
    BY <2>2 DEF TraceData
  <2>4. data' = [data EXCEPT ![o] = d]
    BY <1>4, AllSampled DEF TickDecide
  <2>5. /\ data' \in Seq(TraceData) /\ Len(data') = objects
        /\ \A i \in 1 .. objects : data'[i].id = data[i].id
    <3> HIDE DEF d, o
    <3> QED BY <1>0, <2>2, <2>3, <2>4, UpdateFacts DEF MapOK
  <2>6. TickOK' /\ TickMeans'
    <3>1. tick.batch \in Seq(TraceIds) /\ tick.batch # <<>>
      BY <1>0, <1>4 DEF TickDecide, TickOK, ObjectsInv, TickMeans, Ticking
    <3>2. Tail(tick.batch) \in Seq(TraceIds)
      BY <3>1
    <3>3. tick' = [batch |-> Tail(tick.batch), obj |-> 0]
      BY <1>4 DEF TickDecide
    <3> QED BY <1>0, <2>1, <3>2, <3>3 DEF TickOK, TickMeans, MapOK
  <2>7. CountsOK'
    <3>1. forwarded' \in [Spans -> Nat]
      BY <1>0, <1>4 DEF TickDecide, CountsOK
    <3> QED BY <1>0, <2>1, <3>1 DEF CountsOK
  <2>8. MapOK' /\ MapMeans'
    BY <1>0, <2>1, <2>5 DEF MapOK, MapMeans, ObjectsInv
  <2>9. CallMeans'
    BY <1>0, <2>1, <2>5 DEF CallMeans, ObjectsInv, CallsOK, Call, MapOK
  <2> QED BY <1>0, <2>1, <2>6, <2>7, <2>8, <2>9 DEF BaseInv, SamplerTypeOK, CallsOK, QueuesOK,
            ObjectsInv
<1>5. CASE StopBatcher \/ BatcherStopped \/ StopTicker \/ TickerReturns \/ UNCHANGED vars
  <2>1. UNCHANGED <<idToTrace, objects, onMap, arriving, worker, data, tick, forwarded>>
        /\ UNCHANGED <<deleteChan, pendingIds, currentBatch, batches>>
    BY <1>5 DEF StopBatcher, BatcherStopped, StopTicker, TickerReturns, vars, mapVars, batcherVars
  <2> QED BY <1>0, <2>1 DEF BaseInv, SamplerTypeOK, MapOK, CallsOK, TickOK, CountsOK, QueuesOK,
            ObjectsInv, MapMeans, CallMeans, TickMeans, Ticking
<1> QED BY <1>1, <1>2, <1>3, <1>4, <1>5

-----------------------------------------------------------------------------
(* No trace is forgotten *)

\* Membership after Append.
LEMMA InAppend ==
    ASSUME NEW S, NEW q \in Seq(S), NEW e \in S, NEW id
    PROVE  In(id, Append(q, e)) <=> In(id, q) \/ id = e
<1>1. /\ Len(q) \in Nat /\ Len(Append(q, e)) = Len(q) + 1
      /\ \A i \in 1 .. Len(q) : Append(q, e)[i] = q[i]
      /\ Append(q, e)[Len(q) + 1] = e
  BY AppendFacts
<1>2. ASSUME In(id, Append(q, e)) PROVE In(id, q) \/ id = e
  BY <1>1, <1>2 DEF In
<1>3. ASSUME In(id, q) PROVE In(id, Append(q, e))
  BY <1>1, <1>3 DEF In
<1>4. ASSUME id = e PROVE In(id, Append(q, e))
  BY <1>1, <1>4 DEF In
<1> QED BY <1>2, <1>3, <1>4

\* Membership after Tail.
LEMMA InTail ==
    ASSUME NEW S, NEW q \in Seq(S), q # <<>>, NEW id
    PROVE  In(id, q) => id = Head(q) \/ In(id, Tail(q))
<1>1. /\ Len(q) \in Nat \ {0} /\ Head(q) = q[1]
      /\ Len(Tail(q)) = Len(q) - 1
      /\ \A i \in 1 .. Len(q) - 1 : Tail(q)[i] = q[i + 1]
  BY TailFacts
<1> SUFFICES ASSUME NEW i \in 1 .. Len(q), q[i] = id, i # 1
             PROVE  In(id, Tail(q))
  BY <1>1 DEF In
<1>2. i - 1 \in 1 .. Len(q) - 1 /\ Tail(q)[i - 1] = q[i]
  BY <1>1
<1> QED BY <1>1, <1>2 DEF In

\* The objects keep their decisions.
SameDecisions ==
    /\ objects' = objects
    /\ \A o \in 1 .. objects : data'[o].decision = data[o].decision

\* A step that changes neither the map nor the objects nor a caller.
LEMMA ScheduledElsewhere ==
    ASSUME BaseInv, ScheduledInv, idToTrace' = idToTrace, SameDecisions,
           \A id \in OnMap : WillBeFound(id) => WillBeFound(id)'
    PROVE  ScheduledInv'
<1>1. \A id \in OnMap : idToTrace[id] \in 1 .. objects
  BY DEF OnMap, BaseInv, SamplerTypeOK, MapOK
<1>2. OnMap' = OnMap
  BY DEF OnMap
<1> QED BY <1>1, <1>2 DEF ScheduledInv, SameDecisions

\* AppendSpan does not decide.
LEMMA AppendDecidesNothing ==
    ASSUME BaseInv, NEW w \in Workers, AppendSpan(w)
    PROVE  SameDecisions
<1>0. MapOK /\ CallsOK /\ CallMeans
  BY DEF BaseInv, SamplerTypeOK, ObjectsInv
<1>1. worker[w].obj \in 1 .. Len(data) /\ data[worker[w].obj] \in TraceData
  BY <1>0 DEF AppendSpan, CallMeans, CallsOK, Call, MapOK
<1>2. data' = data \/ data' = [data EXCEPT ![worker[w].obj].spans = @ \cup {worker[w].span}]
  BY DEF AppendSpan
<1> QED BY <1>0, <1>1, <1>2 DEF SameDecisions, AppendSpan, mapVars, MapOK, TraceData

\* TickDecide decides about one object.
LEMMA DecideFacts ==
    ASSUME BaseInv, TickDecide
    PROVE  /\ tick.obj \in 1 .. objects /\ Len(data) = objects
           /\ data'[tick.obj].decision = "Sampled"
           /\ data'[tick.obj].id = data[tick.obj].id
           /\ data'[tick.obj].spans = data[tick.obj].spans
           /\ \A o \in 1 .. objects : o # tick.obj => data'[o] = data[o]
<1>0. MapOK /\ TickOK
  BY DEF BaseInv, SamplerTypeOK
<1>1. tick.obj \in 1 .. objects /\ data[tick.obj] \in TraceData
  BY <1>0 DEF TickDecide, MapOK, TickOK
<1>2. data' = [data EXCEPT ![tick.obj].decision = "Sampled"]
  BY AllSampled DEF TickDecide
<1> QED BY <1>0, <1>1, <1>2 DEF MapOK, TraceData

\* Every step keeps each waiting trace where it will be found.
LEMMA ScheduledNext ==
    ASSUME BaseInv, ScheduledInv, [Next]_vars
    PROVE  ScheduledInv'
<1>0. MapOK /\ CallsOK /\ ObjectsInv /\ QueuesOK /\ TickOK /\ CountsOK
  BY DEF BaseInv, SamplerTypeOK
<1>1. ASSUME NEW w \in Workers, NEW s \in Spans, Receive(w, s)
      PROVE  ScheduledInv'
  <2> DEFINE id0 == TraceOf[s]
  <2>1. /\ UNCHANGED <<pendingIds, currentBatch, batches, tick>> /\ worker[w].at = "idle"
        /\ id0 \in TraceIds
    BY <1>1, SamplerAssumption DEF Receive, batcherVars
  <2>2. CASE idToTrace[id0] # 0
    <3>1. UNCHANGED <<idToTrace, data, objects>>
      BY <1>1, <2>2 DEF Receive
    <3>2. \A v \in Workers : v # w => worker'[v] = worker[v]
      BY <1>0, <1>1, <2>2 DEF Receive, CallsOK
    <3>3. \A id \in OnMap : WillBeFound(id) => WillBeFound(id)'
      BY <2>1, <3>1, <3>2 DEF WillBeFound
    <3> QED BY <3>1, <3>3, ScheduledElsewhere DEF SameDecisions
  <2>3. CASE idToTrace[id0] = 0
    <3>1. /\ objects' = objects + 1
          /\ data' = Append(data, NewData(id0))
          /\ idToTrace' = [idToTrace EXCEPT ![id0] = objects + 1]
          /\ worker' = [worker EXCEPT ![w] =
                [at |-> "add", span |-> s, obj |-> objects + 1, drop |-> {}]]
      BY <1>1, <2>3 DEF Receive
    <3>2. /\ worker'[w].at = "add" /\ worker'[w].obj = objects + 1
          /\ \A v \in Workers : v # w => worker'[v] = worker[v]
      BY <1>0, <3>1 DEF CallsOK
    <3>3. \A o \in 1 .. objects : data'[o] = data[o]
      <4>1. NewData(id0) \in TraceData
        BY <2>1 DEF NewData, TraceData
      <4> QED BY <1>0, <3>1, <4>1, AppendFacts DEF MapOK
    <3> SUFFICES ASSUME NEW id \in TraceIds, idToTrace'[id] # 0,
                        data'[idToTrace'[id]].decision = "Unspecified"
                 PROVE  WillBeFound(id)'
      BY DEF ScheduledInv, OnMap
    <3>4. CASE id = id0
      <4>1. idToTrace'[id] = objects + 1
        BY <1>0, <2>1, <3>1, <3>4 DEF MapOK
      <4> QED BY <3>2, <4>1 DEF WillBeFound
    <3>5. CASE id # id0
      <4>1. idToTrace'[id] = idToTrace[id] /\ idToTrace[id] \in 1 .. objects
        BY <1>0, <2>1, <3>1, <3>5 DEF MapOK
      <4>2. WillBeFound(id)
        BY <3>3, <4>1 DEF ScheduledInv, OnMap
      <4> QED BY <2>1, <3>2, <4>1, <4>2 DEF WillBeFound
    <3> QED BY <3>4, <3>5
  <2> QED BY <2>2, <2>3
<1>2. ASSUME NEW w \in Workers, AddToCurrentBatch(w)
      PROVE  ScheduledInv'
  <2> DEFINE id0 == TraceOf[worker[w].span]
  <2>1. /\ UNCHANGED <<idToTrace, data, objects, currentBatch, batches, tick>>
        /\ pendingIds' = Append(pendingIds, id0)
    BY <1>2 DEF AddToCurrentBatch
  <2>2. /\ id0 \in TraceIds /\ data[worker[w].obj].id = id0
    BY <1>0, <1>2, SamplerAssumption DEF AddToCurrentBatch, ObjectsInv, CallMeans, CallsOK, Call
  <2>3. \A v \in Workers : v # w => worker'[v] = worker[v]
    BY <1>0, <1>2 DEF AddToCurrentBatch, To, CallsOK
  <2>4. \A id : In(id, pendingIds') <=> In(id, pendingIds) \/ id = id0
    BY <1>0, <2>1, <2>2, InAppend DEF QueuesOK
  <2>5. ASSUME NEW id \in OnMap, WillBeFound(id)
        PROVE  WillBeFound(id)'
    <3>1. CASE worker[w].obj = idToTrace[id]
      <4>1. id = id0
        BY <1>0, <2>2, <3>1 DEF ObjectsInv, MapMeans, OnMap
      <4> QED BY <2>4, <4>1 DEF WillBeFound
    <3>2. CASE worker[w].obj # idToTrace[id]
      BY <2>1, <2>3, <2>4, <2>5, <3>2 DEF WillBeFound
    <3> QED BY <3>1, <3>2
  <2> QED BY <2>1, <2>5, ScheduledElsewhere DEF SameDecisions
<1>3. ASSUME NEW w \in Workers, Post(w) \/ TakeOldest(w) \/ AppendSpan(w)
      PROVE  ScheduledInv'
  <2>1. UNCHANGED <<idToTrace, pendingIds, currentBatch, batches, tick>>
    BY <1>3 DEF Post, TakeOldest, AppendSpan, mapVars, batcherVars
  <2>2. SameDecisions
    <3>1. CASE Post(w) \/ TakeOldest(w)
      BY <3>1 DEF Post, TakeOldest, SameDecisions
    <3> QED BY <1>3, <3>1, AppendDecidesNothing
  <2>3. worker[w].at # "add" /\ \A v \in Workers : v # w => worker'[v] = worker[v]
    BY <1>0, <1>3 DEF Post, TakeOldest, AppendSpan, To, CallsOK
  <2>4. \A id \in OnMap : WillBeFound(id) => WillBeFound(id)'
    BY <2>1, <2>3 DEF WillBeFound
  <2> QED BY <2>1, <2>2, <2>4, ScheduledElsewhere
<1>4. ASSUME NEW w \in Workers, DropTrace(w)
      PROVE  ScheduledInv'
  <2>1. PICK id0 \in worker[w].drop : idToTrace' = [idToTrace EXCEPT ![id0] = 0]
    BY <1>4 DEF DropTrace
  <2>2. UNCHANGED <<data, objects, pendingIds, currentBatch, batches, tick>>
    BY <1>4 DEF DropTrace, batcherVars
  <2>3. worker[w].at # "add" /\ \A v \in Workers : v # w => worker'[v] = worker[v]
    BY <1>0, <1>4 DEF DropTrace, CallsOK
  <2> SUFFICES ASSUME NEW id \in TraceIds, idToTrace'[id] # 0,
                      data[idToTrace'[id]].decision = "Unspecified"
               PROVE  WillBeFound(id)'
    BY <2>2 DEF ScheduledInv, OnMap
  <2>4. idToTrace'[id] = idToTrace[id]
    BY <1>0, <2>1 DEF MapOK
  <2>5. WillBeFound(id)
    BY <2>4 DEF ScheduledInv, OnMap
  <2> QED BY <2>2, <2>3, <2>4, <2>5 DEF WillBeFound
<1>5. CASE Fill
  <2>1. UNCHANGED <<idToTrace, data, objects, batches, tick, worker>>
    BY <1>5 DEF Fill, mapVars
  <2>2. /\ pendingIds \in Seq(TraceIds) /\ pendingIds # <<>> /\ currentBatch \in Seq(TraceIds)
        /\ pendingIds' = Tail(pendingIds) /\ currentBatch' = Append(currentBatch, Head(pendingIds))
    BY <1>0, <1>5 DEF Fill, QueuesOK
  <2>3. Head(pendingIds) \in TraceIds
    BY <2>2
  <2>4. \A id : In(id, pendingIds) => id = Head(pendingIds) \/ In(id, pendingIds')
    BY <2>2, InTail
  <2>5. \A id : In(id, currentBatch') <=> In(id, currentBatch) \/ id = Head(pendingIds)
    BY <2>2, <2>3, InAppend
  <2>6. \A id \in OnMap : WillBeFound(id) => WillBeFound(id)'
    BY <2>1, <2>4, <2>5 DEF WillBeFound
  <2> QED BY <2>1, <2>6, ScheduledElsewhere DEF SameDecisions
<1>6. CASE CloseCurrentAndTakeFirstBatch
  <2>1. /\ UNCHANGED <<idToTrace, data, objects, pendingIds, worker>>
        /\ tick.batch = <<>> /\ tick.obj = 0
    BY <1>0, <1>6 DEF CloseCurrentAndTakeFirstBatch, mapVars, Ticking, ObjectsInv, TickMeans
  <2>2. \A id : ~ \E i \in 1 .. Len(tick.batch) : tick.batch[i] = id
    BY <2>1
  <2>3. batches \in Seq(Seq(TraceIds)) /\ currentBatch \in Seq(TraceIds)
    BY <1>0 DEF QueuesOK
  <2>4. tick'.obj = 0
    BY <1>0, <1>6, <2>1 DEF CloseCurrentAndTakeFirstBatch, TickOK
  <2>5. ASSUME NEW id \in OnMap, WillBeFound(id)
        PROVE  WillBeFound(id)'
    <3>1. CASE batches = <<>>
      <4>1. tick'.batch = currentBatch /\ ~ \E i \in 1 .. Len(batches) : In(id, batches[i])
        BY <1>0, <1>6, <3>1 DEF CloseCurrentAndTakeFirstBatch, TickOK
      <4> QED BY <2>1, <2>2, <2>4, <2>5, <4>1 DEF WillBeFound, In
    <3>2. CASE batches # <<>>
      <4>1. /\ Len(batches) \in Nat \ {0} /\ Tail(batches) \in Seq(Seq(TraceIds))
            /\ Len(Tail(batches)) = Len(batches) - 1
            /\ \A i \in 1 .. Len(batches) - 1 : Tail(batches)[i] = batches[i + 1]
        BY <2>3, <3>2, TailFacts
      <4>2. tick'.batch = batches[1]
        BY <1>0, <1>6, <2>3, <3>2, TailFacts DEF CloseCurrentAndTakeFirstBatch, TickOK
      <4>3. /\ Len(batches') \in Nat /\ Len(batches') >= Len(batches) - 1
            /\ \A i \in 1 .. Len(batches) - 1 : batches'[i] = batches[i + 1]
            /\ \/ currentBatch' = currentBatch
               \/ Len(batches') = Len(batches) /\ batches'[Len(batches)] = currentBatch
        <5>1. CASE phase = "running"
          <6>1. batches' = Append(Tail(batches), currentBatch)
            BY <1>6, <3>2, <5>1 DEF CloseCurrentAndTakeFirstBatch
          <6>2. /\ Len(batches') = Len(Tail(batches)) + 1
                /\ \A i \in 1 .. Len(Tail(batches)) : batches'[i] = Tail(batches)[i]
                /\ batches'[Len(Tail(batches)) + 1] = currentBatch
            BY <2>3, <4>1, <6>1, AppendFacts
          <6> QED BY <4>1, <6>2
        <5>2. CASE phase # "running"
          <6>1. batches' = Tail(batches) /\ currentBatch' = currentBatch
            BY <1>6, <3>2, <5>2 DEF CloseCurrentAndTakeFirstBatch
          <6> QED BY <4>1, <6>1
        <5> QED BY <5>1, <5>2
      <4>4. ASSUME NEW i \in 1 .. Len(batches), In(id, batches[i])
            PROVE  WillBeFound(id)'
        <5>1. CASE i = 1
          BY <2>4, <4>2, <4>4, <5>1 DEF WillBeFound, In
        <5>2. CASE i # 1
          <6>1. i - 1 \in 1 .. Len(batches) - 1 /\ i - 1 \in 1 .. Len(batches')
            BY <4>1, <4>3, <5>2
          <6>2. In(id, batches'[i - 1])
            BY <4>3, <4>4, <6>1
          <6> QED BY <6>1, <6>2 DEF WillBeFound
        <5> QED BY <5>1, <5>2
      <4>5. ASSUME In(id, currentBatch)
            PROVE  WillBeFound(id)'
        <5>1. CASE currentBatch' = currentBatch
          BY <4>5, <5>1 DEF WillBeFound
        <5>2. CASE Len(batches') = Len(batches) /\ batches'[Len(batches)] = currentBatch
          BY <4>1, <4>5, <5>2 DEF WillBeFound
        <5> QED BY <4>3, <5>1, <5>2
      <4> QED BY <2>1, <2>2, <2>5, <4>4, <4>5 DEF WillBeFound
    <3> QED BY <3>1, <3>2
  <2> QED BY <2>1, <2>5, ScheduledElsewhere DEF SameDecisions
<1>7. CASE TickLoad
  <2>1. UNCHANGED <<idToTrace, data, objects, pendingIds, currentBatch, batches, worker>>
    BY <1>7 DEF TickLoad, mapVars, batcherVars
  <2>2. tick.batch \in Seq(TraceIds) /\ tick.batch # <<>> /\ tick.obj = 0
    BY <1>0, <1>7 DEF TickLoad, TickOK, Ticking
  <2>3. /\ Len(tick.batch) \in Nat \ {0} /\ Head(tick.batch) = tick.batch[1]
        /\ Len(Tail(tick.batch)) = Len(tick.batch) - 1
        /\ \A i \in 1 .. Len(tick.batch) - 1 : Tail(tick.batch)[i] = tick.batch[i + 1]
    BY <2>2, TailFacts
  <2>4. CASE idToTrace[tick.batch[1]] = 0
    <3>1. tick'.batch = Tail(tick.batch) /\ tick'.obj = 0
      BY <1>0, <1>7, <2>2, <2>3, <2>4 DEF TickLoad, TickOK
    <3>2. ASSUME NEW id \in OnMap, NEW i \in 1 .. Len(tick.batch), tick.batch[i] = id
          PROVE  \E j \in 1 .. Len(tick'.batch) : tick'.batch[j] = id
      <4>1. i # 1
        BY <2>4, <3>2 DEF OnMap
      <4>2. i - 1 \in 1 .. Len(tick'.batch) /\ tick'.batch[i - 1] = id
        BY <2>3, <3>1, <3>2, <4>1
      <4> QED BY <4>2
    <3>3. \A id \in OnMap : WillBeFound(id) => WillBeFound(id)'
      BY <2>1, <3>1, <3>2 DEF WillBeFound
    <3> QED BY <2>1, <3>3, ScheduledElsewhere DEF SameDecisions
  <2>5. CASE idToTrace[tick.batch[1]] # 0
    <3>1. tick'.batch = tick.batch /\ tick'.obj = idToTrace[tick.batch[1]]
      BY <1>0, <1>7, <2>2, <2>3, <2>5 DEF TickLoad, TickOK
    <3>2. \A id \in OnMap : WillBeFound(id) => WillBeFound(id)'
      BY <2>1, <3>1 DEF WillBeFound
    <3> QED BY <2>1, <3>2, ScheduledElsewhere DEF SameDecisions
  <2> QED BY <2>4, <2>5
<1>8. CASE TickDecide
  <2>1. UNCHANGED <<idToTrace, objects, pendingIds, currentBatch, batches, worker>>
    BY <1>8 DEF TickDecide, mapVars, batcherVars
  <2>2. /\ tick.batch \in Seq(TraceIds) /\ tick.batch # <<>> /\ tick.obj # 0
        /\ tick'.batch = Tail(tick.batch) /\ tick'.obj = 0
    BY <1>0, <1>8 DEF TickDecide, TickOK, ObjectsInv, TickMeans, Ticking
  <2>3. /\ Len(tick.batch) \in Nat \ {0}
        /\ Len(Tail(tick.batch)) = Len(tick.batch) - 1
        /\ \A i \in 1 .. Len(tick.batch) - 1 : Tail(tick.batch)[i] = tick.batch[i + 1]
    BY <2>2, TailFacts
  <2> SUFFICES ASSUME NEW id \in TraceIds, idToTrace[id] # 0,
                      data'[idToTrace[id]].decision = "Unspecified"
               PROVE  WillBeFound(id)'
    BY <2>1 DEF ScheduledInv, OnMap
  <2>4. idToTrace[id] # tick.obj /\ data[idToTrace[id]].decision = "Unspecified"
    BY <1>0, <1>8, DecideFacts DEF MapOK
  <2>5. WillBeFound(id)
    BY <2>4 DEF ScheduledInv, OnMap
  <2>6. ASSUME NEW i \in 1 .. Len(tick.batch), tick.batch[i] = id, i # 1
        PROVE  \E j \in 1 .. Len(tick'.batch) : tick'.batch[j] = id
    <3>1. i - 1 \in 1 .. Len(tick'.batch) /\ tick'.batch[i - 1] = id
      BY <2>2, <2>3, <2>6
    <3> QED BY <3>1
  <2> QED BY <2>1, <2>2, <2>4, <2>5, <2>6 DEF WillBeFound
<1>9. CASE StopBatcher \/ BatcherStopped \/ StopTicker \/ TickerReturns \/ UNCHANGED vars
  <2>1. UNCHANGED <<idToTrace, data, objects, pendingIds, currentBatch, batches, worker, tick>>
    BY <1>9 DEF StopBatcher, BatcherStopped, StopTicker, TickerReturns, vars, mapVars, batcherVars
  <2> QED BY <2>1 DEF ScheduledInv, OnMap, WillBeFound, In
<1> QED BY <1>1, <1>2, <1>3, <1>4, <1>5, <1>6, <1>7, <1>8, <1>9 DEF Next, WorkerStep

-----------------------------------------------------------------------------
(* The map is bounded *)

\* A step that changes no token, no entry and no count.
LEMMA TokensSame ==
    ASSUME TokenInv, \A k, x, id : Token(k, x, id)' <=> Token(k, x, id),
           UNCHANGED <<idToTrace, deleteChan, onMap>>, Adders' = Adders
    PROVE  TokenInv'
<1>1. OnMap' = OnMap
  BY DEF OnMap
<1>2. OneToken' /\ Entitled'
  BY <1>1 DEF TokenInv, OneToken, Entitled
<1>3. Counted'
  BY <1>1 DEF TokenInv, Counted
<1> QED BY <1>2, <1>3 DEF TokenInv

\* A new entry is its creator's.
LEMMA TokenReceive ==
    ASSUME BaseInv, TokenInv, NEW w \in Workers, NEW s \in Spans, Receive(w, s)
    PROVE  TokenInv'
<1> DEFINE id0 == TraceOf[s]
<1>0. MapOK /\ CallsOK /\ CallMeans /\ id0 \in TraceIds /\ worker[w].at = "idle"
  BY SamplerAssumption DEF BaseInv, SamplerTypeOK, ObjectsInv, Receive
<1>1. worker[w].drop = {} /\ UNCHANGED <<deleteChan, onMap>>
  BY <1>0 DEF CallMeans, Receive
<1>2. CASE idToTrace[id0] # 0
  <2>1. /\ worker'[w].at = "append" /\ worker'[w].drop = {}
        /\ \A v \in Workers : v # w => worker'[v] = worker[v]
        /\ UNCHANGED idToTrace
    BY <1>0, <1>2 DEF Receive, CallsOK
  <2>2. \A k, x, id : Token(k, x, id)' <=> Token(k, x, id)
    BY <1>0, <1>1, <2>1 DEF Token
  <2>3. Adders' = Adders
    BY <1>0, <2>1 DEF Adders
  <2> QED BY <1>1, <2>1, <2>2, <2>3, TokensSame
<1>3. CASE idToTrace[id0] = 0
  <2>1. /\ worker'[w].at = "add" /\ worker'[w].drop = {} /\ worker'[w].span = s
        /\ \A v \in Workers : v # w => worker'[v] = worker[v]
    BY <1>0, <1>3 DEF Receive, CallsOK
  <2>2. idToTrace' = [idToTrace EXCEPT ![id0] = objects + 1]
    BY <1>3 DEF Receive
  <2>3. \A k, x, id :
            Token(k, x, id)' <=> Token(k, x, id) \/ (k = "own" /\ x = w /\ id = id0)
    BY <1>0, <1>1, <2>1 DEF Token
  <2>4. OnMap' = OnMap \cup {id0} /\ id0 \notin OnMap
    BY <1>0, <1>3, <2>2 DEF OnMap, MapOK
  <2>5. Adders' = Adders \cup {w} /\ w \notin Adders
    BY <1>0, <2>1 DEF Adders
  <2>6. \A k, x : ~ Token(k, x, id0)
    BY <1>0, <2>4 DEF TokenInv, Entitled
  <2>7. OneToken'
    BY <2>3, <2>6 DEF TokenInv, OneToken
  <2>8. Entitled'
    BY <2>3, <2>4 DEF TokenInv, Entitled
  <2>9. Counted'
    <3>1. /\ IsFiniteSet(OnMap') /\ Cardinality(OnMap') = Cardinality(OnMap) + 1
          /\ Cardinality(OnMap) \in Nat
      BY <2>4, FS_AddElement, FS_CardinalityType DEF TokenInv, Counted
    <3>2. /\ IsFiniteSet(Adders') /\ Cardinality(Adders') = Cardinality(Adders) + 1
          /\ Cardinality(Adders) \in Nat
      BY <2>5, FS_AddElement, FS_CardinalityType DEF TokenInv, Counted
    <3>3. onMap \in Int
      BY DEF BaseInv, SamplerTypeOK, CountsOK
    <3> QED BY <1>1, <3>1, <3>2, <3>3 DEF TokenInv, Counted
  <2> QED BY <1>1, <2>7, <2>8, <2>9 DEF TokenInv
<1> QED BY <1>2, <1>3

\* The creator counts its entry, gives it a place, and makes room for it.
LEMMA TokenWorker ==
    ASSUME BaseInv, TokenInv, NEW w \in Workers, WorkerStep(w)
    PROVE  TokenInv'
<1>0. MapOK /\ CallsOK /\ CallMeans /\ QueuesOK /\ onMap \in Int
  BY DEF BaseInv, SamplerTypeOK, ObjectsInv, CountsOK
<1> DEFINE id0 == TraceOf[worker[w].span]
<1>1. worker[w].at # "idle" => id0 \in TraceIds
  BY <1>0, SamplerAssumption DEF CallMeans, CallsOK, Call
<1>2. worker[w].at # "drop" => worker[w].drop = {}
  BY <1>0 DEF CallMeans
<1>3. CASE AddToCurrentBatch(w)
  <2>1. /\ worker'[w].at = "post" /\ worker'[w].drop = {} /\ worker'[w].span = worker[w].span
        /\ \A v \in Workers : v # w => worker'[v] = worker[v]
    BY <1>3, WorkerMoves, CallMoves DEF Ats
  <2>2. /\ worker[w].at = "add" /\ UNCHANGED <<idToTrace, deleteChan>> /\ onMap' = onMap + 1
    BY <1>3 DEF AddToCurrentBatch
  <2>3. \A k, x, id : Token(k, x, id)' <=> Token(k, x, id)
    BY <1>2, <2>1, <2>2 DEF Token
  <2>4. Adders' = Adders \ {w} /\ w \in Adders
    BY <2>1, <2>2 DEF Adders
  <2>5. OnMap' = OnMap
    BY <2>2 DEF OnMap
  <2>6. Counted'
    <3>1. /\ IsFiniteSet(Adders') /\ Cardinality(Adders') = Cardinality(Adders) - 1
          /\ Cardinality(Adders) \in Nat
      BY <2>4, FS_RemoveElement, FS_CardinalityType DEF TokenInv, Counted
    <3>2. Cardinality(OnMap) \in Nat
      BY FS_CardinalityType DEF TokenInv, Counted
    <3> QED BY <1>0, <2>2, <2>5, <3>1, <3>2 DEF TokenInv, Counted
  <2>7. OneToken' /\ Entitled'
    BY <2>3, <2>5 DEF TokenInv, OneToken, Entitled
  <2> QED BY <2>2, <2>6, <2>7 DEF TokenInv
<1>4. CASE Post(w) /\ Len(deleteChan) < NumTraces
  <2>1. /\ worker[w].at = "post" /\ UNCHANGED <<idToTrace, onMap>>
        /\ deleteChan' = Append(deleteChan, id0) /\ Moves(w, "append", {})
    <3>1. NumTraces \in Nat /\ Len(deleteChan) # NumTraces
      BY <1>0, <1>4, SamplerAssumption DEF QueuesOK
    <3> QED BY <1>2, <1>4, <3>1 DEF Post, Moves, To
  <2>2. /\ worker'[w].at = "append" /\ worker'[w].drop = {}
        /\ \A v \in Workers : v # w => worker'[v] = worker[v]
    BY <2>1, CallMoves DEF Ats
  <2>3. /\ Len(deleteChan) \in Nat /\ Len(deleteChan') = Len(deleteChan) + 1
        /\ \A i \in 1 .. Len(deleteChan) : deleteChan'[i] = deleteChan[i]
        /\ deleteChan'[Len(deleteChan) + 1] = id0
    BY <1>0, <1>1, <2>1, AppendFacts DEF QueuesOK
  <2>4. ASSUME NEW k, NEW x, NEW id
        PROVE  Token(k, x, id)' <=>
                  \/ Token(k, x, id) /\ ~(k = "own" /\ x = w)
                  \/ k = "chan" /\ x = Len(deleteChan) + 1 /\ id = id0
    <3>1. CASE k = "chan"
      BY <2>3, <3>1 DEF Token
    <3>2. CASE k # "chan"
      BY <1>2, <2>1, <2>2, <3>2 DEF Token
    <3> QED BY <3>1, <3>2
  <2>5. Token("own", w, id0) /\ OnMap' = OnMap /\ Adders' = Adders
    BY <2>1, <2>2 DEF Token, OnMap, Adders
  <2>6. OneToken'
    BY <2>4, <2>5 DEF TokenInv, OneToken
  <2>7. Entitled'
    <3> SUFFICES ASSUME NEW id \in TraceIds
                 PROVE  id \in OnMap <=> \E k, x : Token(k, x, id)'
      BY <2>5 DEF Entitled
    <3>1. CASE id = id0
      BY <1>1, <2>1, <2>4, <2>5, <3>1 DEF TokenInv, Entitled
    <3>2. CASE id # id0
      <4>1. ~ Token("own", w, id)
        BY <2>1, <3>2 DEF Token
      <4> QED BY <2>4, <3>2, <4>1 DEF TokenInv, Entitled
    <3> QED BY <3>1, <3>2
  <2>8. Len(deleteChan') <= NumTraces /\ Counted'
    <3>1. NumTraces \in Nat
      BY SamplerAssumption
    <3> QED BY <1>4, <2>1, <2>3, <2>5, <3>1 DEF TokenInv, Counted
  <2> QED BY <2>6, <2>7, <2>8 DEF TokenInv
<1>5. CASE Post(w) /\ ~(Len(deleteChan) < NumTraces)
  <2>1. /\ worker[w].at = "post" /\ UNCHANGED <<idToTrace, onMap, deleteChan>>
        /\ Moves(w, "take", {})
    BY <1>2, <1>5 DEF Post, Moves, To
  <2>2. /\ worker'[w].at = "take" /\ worker'[w].drop = {} /\ worker'[w].span = worker[w].span
        /\ \A v \in Workers : v # w => worker'[v] = worker[v]
    BY <2>1, CallMoves DEF Ats
  <2>3. \A k, x, id : Token(k, x, id)' <=> Token(k, x, id)
    BY <1>2, <2>1, <2>2 DEF Token
  <2>4. Adders' = Adders
    BY <2>1, <2>2 DEF Adders
  <2> QED BY <2>1, <2>3, <2>4, TokensSame
<1>6. CASE TakeOldest(w)
  <2>1. /\ worker[w].at = "take" /\ UNCHANGED <<idToTrace, onMap>>
        /\ deleteChan # <<>> /\ deleteChan' = Tail(deleteChan)
        /\ Moves(w, "drop", {Head(deleteChan)})
    BY <1>6, WorkerMoves DEF TakeOldest
  <2>2. /\ Len(deleteChan) \in Nat \ {0} /\ Len(deleteChan') = Len(deleteChan) - 1
        /\ \A i \in 1 .. Len(deleteChan) - 1 : deleteChan'[i] = deleteChan[i + 1]
        /\ Head(deleteChan) = deleteChan[1] /\ deleteChan[1] \in TraceIds
    BY <1>0, <2>1, TailFacts DEF QueuesOK
  <2>3. /\ worker'[w].at = "drop" /\ worker'[w].drop = {deleteChan[1]}
        /\ worker'[w].span = worker[w].span
        /\ \A v \in Workers : v # w => worker'[v] = worker[v]
    BY <2>1, <2>2, CallMoves DEF Ats
  <2>4. \A x, id : Token("chan", x, id)' <=>
                       x \in 1 .. Len(deleteChan) - 1 /\ Token("chan", x + 1, id)
    BY <2>2 DEF Token
  <2>5. \A x, id : Token("own", x, id)' <=> Token("own", x, id)
    BY <2>1, <2>3 DEF Token
  <2>6. \A x, id : Token("drop", x, id)' <=>
                       Token("drop", x, id) \/ (x = w /\ id = deleteChan[1])
    BY <1>2, <2>1, <2>3 DEF Token
  <2>7. \A k, x, id : Token(k, x, id) \/ Token(k, x, id)' => k \in {"chan", "own", "drop"}
    BY DEF Token
  <2>8. /\ \A id : Token("chan", 1, id) <=> id = deleteChan[1]
        /\ \A x, id : Token("chan", x, id) => x \in 1 .. Len(deleteChan)
        /\ ~ \E id : Token("drop", w, id)
    BY <1>2, <2>1, <2>2 DEF Token
  <2>9. OnMap' = OnMap /\ Adders' = Adders
    BY <2>1, <2>3 DEF OnMap, Adders
  <2>10. OneToken'
    <3> SUFFICES ASSUME NEW k, NEW x, NEW kk, NEW xx, NEW id,
                        Token(k, x, id)', Token(kk, xx, id)'
                 PROVE  k = kk /\ x = xx
      BY DEF OneToken
    <3>1. \A l, m, ll, mm : Token(l, m, id) /\ Token(ll, mm, id) => l = ll /\ m = mm
      BY DEF TokenInv, OneToken
    <3>2. CASE id = deleteChan[1]
      <4>1. Token("chan", 1, id) /\ ~ \E y : Token("own", y, id) \/ Token("drop", y, id)
        BY <2>8, <3>1, <3>2
      <4>2. ASSUME NEW y, Token("chan", y, id)' PROVE FALSE
        <5>1. y + 1 = 1 /\ y \in 1 .. Len(deleteChan) - 1
          BY <2>4, <3>1, <4>1, <4>2
        <5> QED BY <2>2, <5>1
      <4>3. ASSUME NEW l, NEW y, Token(l, y, id)' PROVE l = "drop" /\ y = w
        BY <2>5, <2>6, <2>7, <4>1, <4>2, <4>3
      <4> QED BY <4>3
    <3>3. CASE id # deleteChan[1]
      <4>1. ASSUME NEW l, NEW y, Token(l, y, id)'
            PROVE  \/ l = "chan" /\ y \in 1 .. Len(deleteChan) - 1 /\ Token(l, y + 1, id)
                   \/ l # "chan" /\ Token(l, y, id)
        BY <2>4, <2>5, <2>6, <2>7, <3>3, <4>1
      <4>2. \/ k = "chan" /\ x \in 1 .. Len(deleteChan) - 1 /\ Token(k, x + 1, id)
            \/ k # "chan" /\ Token(k, x, id)
        BY <4>1
      <4>3. \/ kk = "chan" /\ xx \in 1 .. Len(deleteChan) - 1 /\ Token(kk, xx + 1, id)
            \/ kk # "chan" /\ Token(kk, xx, id)
        BY <4>1
      <4>4. CASE k = "chan"
        <5>1. kk = "chan" /\ x + 1 = xx + 1
          BY <3>1, <4>2, <4>3, <4>4
        <5> QED BY <2>2, <4>2, <4>3, <4>4, <5>1
      <4>5. CASE k # "chan"
        BY <3>1, <4>2, <4>3, <4>5
      <4> QED BY <4>4, <4>5
    <3> QED BY <3>2, <3>3
  <2>11. Entitled'
    <3> SUFFICES ASSUME NEW id \in TraceIds
                 PROVE  (\E k, x : Token(k, x, id)) <=> (\E k, x : Token(k, x, id)')
      BY <2>9 DEF TokenInv, Entitled
    <3>1. ASSUME NEW k, NEW x, Token(k, x, id)
          PROVE  \E kk, xx : Token(kk, xx, id)'
      <4>1. CASE k = "chan" /\ x # 1
        <5>1. x - 1 \in 1 .. Len(deleteChan) - 1 /\ (x - 1) + 1 = x
          BY <2>2, <2>8, <3>1, <4>1
        <5>2. Token("chan", x - 1, id)'
          BY <2>4, <3>1, <4>1, <5>1
        <5> QED BY <5>2
      <4>2. CASE k = "chan" /\ x = 1
        BY <2>6, <2>8, <3>1, <4>2
      <4>3. CASE k # "chan"
        BY <2>5, <2>6, <2>7, <3>1, <4>3
      <4> QED BY <4>1, <4>2, <4>3
    <3>2. ASSUME NEW k, NEW x, Token(k, x, id)'
          PROVE  \E kk, xx : Token(kk, xx, id)
      <4>1. CASE k = "chan"
        BY <2>4, <3>2, <4>1
      <4>2. CASE k = "own"
        BY <2>5, <3>2, <4>2
      <4>3. CASE k = "drop"
        <5>1. Token("drop", x, id) \/ Token("chan", 1, id)
          BY <2>6, <2>8, <3>2, <4>3
        <5> QED BY <5>1
      <4> QED BY <2>7, <3>2, <4>1, <4>2, <4>3
    <3> QED BY <3>1, <3>2
  <2>12. Len(deleteChan') <= NumTraces /\ Counted'
    <3>1. NumTraces \in Nat
      BY SamplerAssumption
    <3> QED BY <2>1, <2>2, <2>9, <3>1 DEF TokenInv, Counted
  <2> QED BY <2>10, <2>11, <2>12 DEF TokenInv
<1>7. CASE DropTrace(w)
  <2>1. PICK id1 \in TraceIds : worker[w].drop = {id1}
    BY <1>0, <1>7 DEF DropTrace, CallMeans
  <2>2. /\ worker[w].at = "drop" /\ UNCHANGED deleteChan
        /\ idToTrace' = [idToTrace EXCEPT ![id1] = 0]
        /\ onMap' = IF idToTrace[id1] = 0 THEN onMap ELSE onMap - 1
    BY <1>7, <2>1 DEF DropTrace
  <2>3. /\ worker'[w].at = "post" /\ worker'[w].drop = {} /\ worker'[w].span = worker[w].span
        /\ \A v \in Workers : v # w => worker'[v] = worker[v]
    BY <1>7, WorkerMoves, CallMoves DEF Ats
  <2>4. \A k, x, id : Token(k, x, id)' <=> Token(k, x, id) /\ ~(k = "drop" /\ x = w)
    BY <2>2, <2>3 DEF Token
  <2>5. \A id : Token("drop", w, id) <=> id = id1
    BY <2>1 DEF Token
  <2>6. id1 \in OnMap
    BY <2>5 DEF TokenInv, Entitled
  <2>7. OnMap' = OnMap \ {id1} /\ onMap' = onMap - 1
    BY <1>0, <2>2, <2>6 DEF OnMap, MapOK
  <2>8. Adders' = Adders
    BY <2>2, <2>3 DEF Adders
  <2>9. OneToken'
    BY <2>4 DEF TokenInv, OneToken
  <2>10. Entitled'
    <3> SUFFICES ASSUME NEW id \in TraceIds
                 PROVE  id \in OnMap \ {id1} <=> \E k, x : Token(k, x, id)'
      BY <2>7 DEF Entitled
    <3>1. CASE id = id1
      BY <2>4, <2>5, <3>1 DEF TokenInv, OneToken
    <3>2. CASE id # id1
      BY <2>4, <2>5, <3>2 DEF TokenInv, Entitled
    <3> QED BY <3>1, <3>2
  <2>11. Counted'
    <3>1. /\ IsFiniteSet(OnMap') /\ Cardinality(OnMap') = Cardinality(OnMap) - 1
          /\ Cardinality(OnMap) \in Nat /\ Cardinality(Adders) \in Nat
      BY <2>6, <2>7, FS_RemoveElement, FS_CardinalityType DEF TokenInv, Counted
    <3> QED BY <1>0, <2>7, <2>8, <3>1 DEF TokenInv, Counted
  <2> QED BY <2>2, <2>9, <2>10, <2>11 DEF TokenInv
<1>8. CASE AppendSpan(w)
  <2>1. /\ worker[w].at = "append" /\ UNCHANGED <<idToTrace, onMap, deleteChan>>
        /\ worker'[w] = Idle /\ \A v \in Workers : v # w => worker'[v] = worker[v]
    BY <1>0, <1>8 DEF AppendSpan, mapVars, CallsOK
  <2>2. worker'[w].at = "idle" /\ worker'[w].drop = {}
    BY <2>1 DEF Idle
  <2>3. \A k, x, id : Token(k, x, id)' <=> Token(k, x, id)
    BY <1>2, <2>1, <2>2 DEF Token
  <2>4. Adders' = Adders
    BY <2>1, <2>2 DEF Adders
  <2> QED BY <2>1, <2>3, <2>4, TokensSame
<1> QED BY <1>3, <1>4, <1>5, <1>6, <1>7, <1>8 DEF WorkerStep

\* Every step keeps the tokens.
LEMMA TokenNext ==
    ASSUME BaseInv, TokenInv, [Next]_vars
    PROVE  TokenInv'
<1>1. CASE Fill \/ CloseCurrentAndTakeFirstBatch \/ TickLoad \/ TickDecide \/ StopBatcher
           \/ BatcherStopped \/ StopTicker \/ TickerReturns \/ UNCHANGED vars
  <2>1. UNCHANGED <<idToTrace, onMap, deleteChan, worker>>
    BY <1>1 DEF Fill, CloseCurrentAndTakeFirstBatch, TickLoad, TickDecide, StopBatcher,
                BatcherStopped, StopTicker, TickerReturns, vars, mapVars
  <2>2. \A k, x, id : Token(k, x, id)' <=> Token(k, x, id)
    BY <2>1 DEF Token
  <2>3. Adders' = Adders
    BY <2>1 DEF Adders
  <2> QED BY <2>1, <2>2, <2>3, TokensSame
<1> QED BY <1>1, TokenReceive, TokenWorker DEF Next

\* The initial state has neither entries nor tokens.
LEMMA TokenInit == Init => TokenInv
<1> SUFFICES ASSUME Init PROVE TokenInv
  OBVIOUS
<1>1. OnMap = {} /\ Adders = {}
  BY DEF Init, OnMap, Adders, Idle
<1>2. \A k, x, id : ~ Token(k, x, id)
  <2>1. deleteChan = <<>> /\ \A w \in Workers : worker[w].at = "idle" /\ worker[w].drop = {}
    BY DEF Init, Idle
  <2> QED BY <2>1 DEF Token
<1>3. Counted
  <2>1. IsFiniteSet({}) /\ Cardinality({}) = 0
    BY FS_EmptySet
  <2> QED BY <1>1, <2>1 DEF Counted, Init
<1>4. Len(deleteChan) <= NumTraces
  BY SamplerAssumption DEF Init
<1> QED BY <1>1, <1>2, <1>3, <1>4 DEF TokenInv, OneToken, Entitled

\* When no call is between the map and deleteChan, the tokens are the places
\* in deleteChan.
LEMMA TokensBoundMap == BaseInv /\ TokenInv => MapBounded
<1> SUFFICES ASSUME BaseInv, TokenInv, \A w \in Workers : worker[w].at \in {"idle", "append"}
             PROVE  /\ Cardinality(OnMap) <= NumTraces
                    /\ onMap = Cardinality(OnMap)
                    /\ \A id \in OnMap :
                          Cardinality({i \in 1 .. Len(deleteChan) : deleteChan[i] = id}) = 1
  BY DEF MapBounded
<1>0. CallMeans /\ deleteChan \in Seq(TraceIds) /\ onMap \in Int
  BY DEF BaseInv, SamplerTypeOK, ObjectsInv, QueuesOK, CountsOK
<1>1. \A k, x, id : Token(k, x, id) <=>
          k = "chan" /\ x \in 1 .. Len(deleteChan) /\ deleteChan[x] = id
  BY <1>0 DEF Token, CallMeans
<1>2. Adders = {}
  BY DEF Adders
<1>3. onMap = Cardinality(OnMap)
  <2>1. Cardinality({}) = 0
    BY FS_EmptySet
  <2> QED BY <1>0, <1>2, <2>1 DEF TokenInv, Counted
<1>4. Cardinality(OnMap) <= NumTraces
  <2> DEFINE P == 1 .. Len(deleteChan)
  <2>1. Len(deleteChan) \in Nat /\ NumTraces \in Nat
    BY <1>0, SamplerAssumption
  <2>2. IsFiniteSet(P) /\ Cardinality(P) = Len(deleteChan)
    <3>1. /\ IsFiniteSet(1 .. Len(deleteChan))
          /\ Cardinality(1 .. Len(deleteChan)) =
                IF 1 > Len(deleteChan) THEN 0 ELSE Len(deleteChan) - 1 + 1
      <4>1. 1 \in Int /\ Len(deleteChan) \in Int
        BY <2>1
      <4> HIDE DEF P
      <4> QED BY <4>1, FS_Interval
    <3> QED BY <2>1, <3>1
  <2>3. OnMap = {deleteChan[x] : x \in P}
    <3>1. OnMap \subseteq {deleteChan[x] : x \in P}
      BY <1>1 DEF TokenInv, Entitled, OnMap
    <3>2. ASSUME NEW x \in P PROVE deleteChan[x] \in OnMap
      <4>1. Token("chan", x, deleteChan[x]) /\ deleteChan[x] \in TraceIds
        BY <1>0, <1>1
      <4> QED BY <4>1 DEF TokenInv, Entitled
    <3> QED BY <3>1, <3>2
  <2>4. Cardinality(OnMap) <= Cardinality(P) /\ Cardinality(OnMap) \in Nat
    <3> DEFINE f == [x \in P |-> deleteChan[x]]
    <3>1. f \in Surjection(P, OnMap)
      BY <2>3 DEF Surjection
    <3> QED BY <2>2, <3>1, FS_Surjection, FS_CardinalityType
  <2> QED BY <2>1, <2>2, <2>4 DEF TokenInv
<1>5. ASSUME NEW id \in OnMap
      PROVE  Cardinality({i \in 1 .. Len(deleteChan) : deleteChan[i] = id}) = 1
  <2>1. PICK x \in 1 .. Len(deleteChan) : deleteChan[x] = id
    BY <1>1 DEF TokenInv, Entitled, OnMap
  <2>2. \A y \in 1 .. Len(deleteChan) : deleteChan[y] = id => y = x
    BY <1>1, <2>1 DEF TokenInv, OneToken
  <2>3. {i \in 1 .. Len(deleteChan) : deleteChan[i] = id} = {x}
    BY <2>1, <2>2
  <2> QED BY <2>3, FS_Singleton
<1> QED BY <1>3, <1>4, <1>5

-----------------------------------------------------------------------------
(* A span is forwarded at most once *)

SameIds == objects' = objects /\ \A o \in 1 .. objects : data'[o].id = data[o].id

\* A step that decides nothing and moves every trace from one place to another.
LEMMA WaitsKept ==
    ASSUME WaitsInv, SameIds, SameDecisions,
           \A k, x, i, id : Waits(k, x, i, id)' => \E kk, xx, ii : Waits(kk, xx, ii, id),
           \A id : OnePlace(id) => OnePlace(id)'
    PROVE  WaitsInv'
<1>1. NoTwins' => NoTwins
  BY DEF NoTwins, SameIds
<1>2. \A k, x, i, id : Waits(k, x, i, id)' => \E o \in 1 .. objects' : data'[o].id = id
  BY DEF WaitsInv, SameIds
<1>3. ASSUME NoTwins', NEW id, NEW k, NEW x, NEW i, Waits(k, x, i, id)',
             NEW o \in 1 .. objects, data'[o].id = id
      PROVE  data'[o].decision = "Unspecified"
  BY <1>1, <1>3 DEF WaitsInv, SameIds, SameDecisions
<1>4. NoTwins' => \A id : OnePlace(id)'
  BY <1>1 DEF WaitsInv
<1> QED BY <1>2, <1>3, <1>4 DEF WaitsInv, SameIds

\* A step that leaves every trace where it waits.
LEMMA WaitsSame ==
    ASSUME WaitsInv, SameIds, SameDecisions,
           \A k, x, i, id : Waits(k, x, i, id)' <=> Waits(k, x, i, id)
    PROVE  WaitsInv'
<1>1. \A id : OnePlace(id) => OnePlace(id)'
  BY DEF OnePlace
<1>2. \A k, x, i, id : Waits(k, x, i, id)' => \E kk, xx, ii : Waits(kk, xx, ii, id)
  OBVIOUS
<1> QED BY <1>1, <1>2, WaitsKept

\* A new trace waits with its creator; it was not waiting unless it has a twin.
LEMMA WaitsReceive ==
    ASSUME BaseInv, WaitsInv, NEW w \in Workers, NEW s \in Spans, Receive(w, s)
    PROVE  WaitsInv'
<1> DEFINE id0 == TraceOf[s]
<1>0. MapOK /\ CallsOK /\ id0 \in TraceIds /\ worker[w].at = "idle"
      /\ UNCHANGED <<pendingIds, currentBatch, batches, tick>>
  BY SamplerAssumption DEF BaseInv, SamplerTypeOK, Receive, batcherVars
<1>1. CASE idToTrace[id0] # 0
  <2>1. /\ worker'[w].at = "append" /\ UNCHANGED <<objects, data>>
        /\ \A v \in Workers : v # w => worker'[v] = worker[v]
    BY <1>0, <1>1 DEF Receive, CallsOK
  <2>2. \A k, x, i, id : Waits(k, x, i, id)' <=> Waits(k, x, i, id)
    BY <1>0, <2>1 DEF Waits
  <2> QED BY <2>1, <2>2, WaitsSame DEF SameIds, SameDecisions
<1>2. CASE idToTrace[id0] = 0
  <2>1. /\ worker'[w].at = "add" /\ worker'[w].span = s
        /\ \A v \in Workers : v # w => worker'[v] = worker[v]
    BY <1>0, <1>2 DEF Receive, CallsOK
  <2>2. objects' = objects + 1 /\ data' = Append(data, NewData(id0)) /\ objects \in Nat
    BY <1>0, <1>2 DEF Receive, MapOK
  <2>3. /\ \A o \in 1 .. objects : data'[o] = data[o]
        /\ data'[objects + 1].id = id0 /\ data'[objects + 1].decision = "Unspecified"
    <3>1. NewData(id0) \in TraceData
      BY <1>0 DEF NewData, TraceData
    <3>2. data'[objects + 1] = NewData(id0) /\ \A o \in 1 .. objects : data'[o] = data[o]
      BY <1>0, <2>2, <3>1, AppendFacts DEF MapOK
    <3> QED BY <3>2 DEF NewData
  <2>4. \A k, x, i, id : Waits(k, x, i, id)' <=>
            Waits(k, x, i, id) \/ (k = "add" /\ x = w /\ i = 0 /\ id = id0)
    BY <1>0, <2>1 DEF Waits
  <2>5. \A k, x, i, id : Waits(k, x, i, id)' => \E o \in 1 .. objects' : data'[o].id = id
    <3>1. objects + 1 \in 1 .. objects' /\ \A o \in 1 .. objects : o \in 1 .. objects'
      BY <2>2
    <3> QED BY <2>3, <2>4, <3>1 DEF WaitsInv
  <2>6. ASSUME NoTwins'
        PROVE  NoTwins /\ \A o \in 1 .. objects : data[o].id # id0
    <3>1. objects + 1 \in 1 .. objects' /\ \A o \in 1 .. objects : o \in 1 .. objects'
      BY <2>2
    <3>2. \A o \in 1 .. objects : o # objects + 1
      BY <2>2
    <3> QED BY <2>3, <2>6, <3>1, <3>2 DEF NoTwins
  <2>7. ASSUME NoTwins', NEW k, NEW x, NEW i
        PROVE  ~ Waits(k, x, i, id0)
    BY <2>6, <2>7 DEF WaitsInv
  <2>8. ASSUME NoTwins', NEW id
        PROVE  OnePlace(id)'
    BY <2>4, <2>6, <2>7, <2>8 DEF WaitsInv, OnePlace
  <2>9. ASSUME NoTwins', NEW id, NEW k, NEW x, NEW i, Waits(k, x, i, id)',
               NEW o \in 1 .. objects', data'[o].id = id
        PROVE  data'[o].decision = "Unspecified"
    <3>1. CASE o = objects + 1
      BY <2>3, <3>1
    <3>2. CASE o # objects + 1
      <4>1. o \in 1 .. objects
        BY <2>2, <3>2
      <4>2. id # id0 /\ data[o].id = id
        BY <2>3, <2>6, <2>9, <4>1
      <4> QED BY <2>3, <2>4, <2>6, <2>9, <4>1, <4>2 DEF WaitsInv
    <3> QED BY <3>1, <3>2
  <2> QED BY <2>5, <2>8, <2>9 DEF WaitsInv
<1> QED BY <1>1, <1>2

\* A creator gives its trace to the batcher; its other steps move no trace.
LEMMA WaitsWorker ==
    ASSUME BaseInv, WaitsInv, NEW w \in Workers, WorkerStep(w)
    PROVE  WaitsInv'
<1>0. CallsOK /\ CallMeans /\ pendingIds \in Seq(TraceIds)
  BY DEF BaseInv, SamplerTypeOK, ObjectsInv, QueuesOK
<1>1. CASE AddToCurrentBatch(w)
  <2> DEFINE id0 == TraceOf[worker[w].span]
  <2>1. /\ worker[w].at = "add" /\ pendingIds' = Append(pendingIds, id0)
        /\ UNCHANGED <<objects, data, currentBatch, batches, tick>>
    BY <1>1 DEF AddToCurrentBatch
  <2>2. /\ worker'[w].at = "post"
        /\ \A v \in Workers : v # w => worker'[v] = worker[v]
    BY <1>1, WorkerMoves, CallMoves DEF Ats
  <2>3. id0 \in TraceIds
    BY <1>0, <2>1, SamplerAssumption DEF CallMeans, CallsOK, Call
  <2>4. /\ Len(pendingIds) \in Nat /\ Len(pendingIds') = Len(pendingIds) + 1
        /\ \A i \in 1 .. Len(pendingIds) : pendingIds'[i] = pendingIds[i]
        /\ pendingIds'[Len(pendingIds) + 1] = id0
    BY <1>0, <2>1, <2>3, AppendFacts
  <2>5. ASSUME NEW k, NEW x, NEW i, NEW id, Waits(k, x, i, id)'
        PROVE  \/ Waits(k, x, i, id) /\ ~(k = "add" /\ x = w)
               \/ k = "pending" /\ x = 0 /\ i = Len(pendingIds) + 1 /\ id = id0
    <3>1. CASE k = "pending"
      BY <2>4, <2>5, <3>1 DEF Waits
    <3>2. CASE k # "pending"
      BY <2>1, <2>2, <2>5, <3>2 DEF Waits
    <3> QED BY <3>1, <3>2
  <2>6. Waits("add", w, 0, id0)
    BY <2>1 DEF Waits
  <2>7. \A k, x, i, id : Waits(k, x, i, id)' => \E kk, xx, ii : Waits(kk, xx, ii, id)
    BY <2>5, <2>6
  <2>8. \A id : OnePlace(id) => OnePlace(id)'
    BY <2>5, <2>6 DEF OnePlace
  <2> QED BY <2>1, <2>7, <2>8, WaitsKept DEF SameIds, SameDecisions
<1>2. CASE Post(w) \/ TakeOldest(w) \/ DropTrace(w) \/ AppendSpan(w)
  <2>1. UNCHANGED <<pendingIds, currentBatch, batches, tick>> /\ worker[w].at # "add"
    BY <1>2 DEF Post, TakeOldest, DropTrace, AppendSpan, batcherVars
  <2>2. worker'[w].at # "add" /\ \A v \in Workers : v # w => worker'[v] = worker[v]
    <3>1. worker[w] \in Call(objects)
      BY <1>0 DEF CallsOK
    <3> QED BY <1>0, <1>2, <3>1 DEF Post, TakeOldest, DropTrace, AppendSpan, To, Idle, CallsOK, Call
  <2>3. \A k, x, i, id : Waits(k, x, i, id)' <=> Waits(k, x, i, id)
    BY <2>1, <2>2 DEF Waits
  <2>4. SameIds /\ SameDecisions
    <3>1. CASE AppendSpan(w)
      <4>1. worker[w].obj \in 1 .. Len(data) /\ data \in Seq(TraceData)
            /\ Len(data) = objects /\ data[worker[w].obj] \in TraceData
        BY <1>0, <3>1 DEF AppendSpan, CallMeans, CallsOK, Call, BaseInv, SamplerTypeOK, MapOK
      <4>2. data' = data \/ data' = [data EXCEPT ![worker[w].obj].spans = @ \cup {worker[w].span}]
        BY <3>1 DEF AppendSpan
      <4>3. SameIds
        BY <3>1, <4>1, <4>2 DEF SameIds, AppendSpan, mapVars, TraceData
      <4> QED BY <3>1, <4>3, AppendDecidesNothing
    <3>2. CASE UNCHANGED <<objects, data>>
      BY <3>2 DEF SameIds, SameDecisions
    <3> QED BY <1>2, <3>1, <3>2 DEF Post, TakeOldest, DropTrace
  <2> QED BY <2>3, <2>4, WaitsSame
<1> QED BY <1>1, <1>2 DEF WorkerStep

\* The batcher moves the oldest pending id.
LEMMA WaitsFill ==
    ASSUME BaseInv, WaitsInv, Fill
    PROVE  WaitsInv'
<1> DEFINE L == Len(currentBatch)
           N == Len(pendingIds)
<1>1. /\ pendingIds \in Seq(TraceIds) /\ pendingIds # <<>> /\ currentBatch \in Seq(TraceIds)
      /\ pendingIds' = Tail(pendingIds)
      /\ currentBatch' = Append(currentBatch, Head(pendingIds))
      /\ UNCHANGED <<worker, objects, data, batches, tick>>
  BY DEF Fill, mapVars, BaseInv, SamplerTypeOK, QueuesOK
<1>2. /\ N \in Nat \ {0} /\ Len(pendingIds') = N - 1 /\ Head(pendingIds) = pendingIds[1]
      /\ pendingIds[1] \in TraceIds
      /\ \A i \in 1 .. N - 1 : pendingIds'[i] = pendingIds[i + 1]
  BY <1>1, TailFacts
<1>3. /\ L \in Nat /\ Len(currentBatch') = L + 1
      /\ \A i \in 1 .. L : currentBatch'[i] = currentBatch[i]
      /\ currentBatch'[L + 1] = pendingIds[1]
  BY <1>1, <1>2, AppendFacts
<1> HIDE DEF L, N
<1>4. ASSUME NEW k, NEW x, NEW i, NEW id, Waits(k, x, i, id)'
      PROVE  \/ k = "pending" /\ x = 0 /\ i \in 1 .. N - 1 /\ Waits("pending", 0, i + 1, id)
             \/ k = "current" /\ x = 0 /\ i = L + 1 /\ Waits("pending", 0, 1, id)
             \/ k # "pending" /\ Waits(k, x, i, id) /\ (k = "current" => i \in 1 .. L)
  <2>1. CASE k = "pending"
    BY <1>2, <1>4, <2>1 DEF Waits, N
  <2>2. CASE k = "current"
    BY <1>2, <1>3, <1>4, <2>2 DEF Waits, L, N
  <2>3. CASE k \notin {"pending", "current"}
    BY <1>1, <1>4, <2>3 DEF Waits
  <2> QED BY <2>1, <2>2, <2>3
<1>5. \A id : OnePlace(id) => OnePlace(id)'
  <2> SUFFICES ASSUME NEW id, OnePlace(id), NEW k, NEW x, NEW i, NEW kk, NEW xx, NEW ii,
                      Waits(k, x, i, id)', Waits(kk, xx, ii, id)'
               PROVE  k = kk /\ x = xx /\ i = ii
    BY DEF OnePlace
  <2>1. \/ k = "pending" /\ x = 0 /\ i \in 1 .. N - 1 /\ Waits("pending", 0, i + 1, id)
        \/ k = "current" /\ x = 0 /\ i = L + 1 /\ Waits("pending", 0, 1, id)
        \/ k # "pending" /\ Waits(k, x, i, id) /\ (k = "current" => i \in 1 .. L)
    BY <1>4
  <2>2. \/ kk = "pending" /\ xx = 0 /\ ii \in 1 .. N - 1 /\ Waits("pending", 0, ii + 1, id)
        \/ kk = "current" /\ xx = 0 /\ ii = L + 1 /\ Waits("pending", 0, 1, id)
        \/ kk # "pending" /\ Waits(kk, xx, ii, id) /\ (kk = "current" => ii \in 1 .. L)
    BY <1>4
  <2> QED BY <1>2, <1>3, <2>1, <2>2 DEF OnePlace
<1>6. \A k, x, i, id : Waits(k, x, i, id)' => \E kk, xx, ii : Waits(kk, xx, ii, id)
  BY <1>4
<1> QED BY <1>1, <1>5, <1>6, WaitsKept DEF SameIds, SameDecisions

\* The oldest batch becomes the one the tick works on, the current one the newest.
LEMMA WaitsClose ==
    ASSUME BaseInv, WaitsInv, CloseCurrentAndTakeFirstBatch
    PROVE  WaitsInv'
<1> DEFINE N == Len(batches)
<1>1. /\ batches \in Seq(Seq(TraceIds)) /\ currentBatch \in Seq(TraceIds)
      /\ UNCHANGED <<worker, objects, data, pendingIds>> /\ TickOK
  BY DEF CloseCurrentAndTakeFirstBatch, mapVars, BaseInv, SamplerTypeOK, QueuesOK
<1>2. SameIds /\ SameDecisions
  BY <1>1 DEF SameIds, SameDecisions
<1>3. CASE batches = <<>>
  <2>1. batches' = <<>> /\ currentBatch' = <<>> /\ tick'.batch = currentBatch
    BY <1>1, <1>3 DEF CloseCurrentAndTakeFirstBatch, TickOK
  <2>2. ASSUME NEW k, NEW x, NEW i, NEW id, Waits(k, x, i, id)'
        PROVE  \/ k = "tick" /\ x = 0 /\ Waits("current", 0, i, id)
               \/ k \notin {"tick", "current"} /\ Waits(k, x, i, id)
    BY <1>1, <2>1, <2>2 DEF Waits
  <2>3. \A id : OnePlace(id) => OnePlace(id)'
    <3> SUFFICES ASSUME NEW id, OnePlace(id), NEW k, NEW x, NEW i, NEW kk, NEW xx, NEW ii,
                        Waits(k, x, i, id)', Waits(kk, xx, ii, id)'
                 PROVE  k = kk /\ x = xx /\ i = ii
      BY DEF OnePlace
    <3> QED BY <2>2 DEF OnePlace
  <2>4. \A k, x, i, id : Waits(k, x, i, id)' => \E kk, xx, ii : Waits(kk, xx, ii, id)
    BY <2>2
  <2> QED BY <1>2, <2>3, <2>4, WaitsKept
<1>4. CASE batches # <<>>
  <2>1. /\ N \in Nat \ {0} /\ Tail(batches) \in Seq(Seq(TraceIds))
        /\ Len(Tail(batches)) = N - 1
        /\ \A i \in 1 .. N - 1 : Tail(batches)[i] = batches[i + 1]
    BY <1>1, <1>4, TailFacts
  <2>2. tick'.batch = batches[1]
    BY <1>1, <1>4, TailFacts DEF CloseCurrentAndTakeFirstBatch, TickOK
  <2>3. \/ /\ currentBatch' = <<>> /\ Len(batches') = N /\ batches'[N] = currentBatch
           /\ \A i \in 1 .. N - 1 : batches'[i] = batches[i + 1]
        \/ /\ currentBatch' = currentBatch /\ Len(batches') = N - 1
           /\ \A i \in 1 .. N - 1 : batches'[i] = batches[i + 1]
    <3>1. CASE phase = "running"
      <4>1. batches' = Append(Tail(batches), currentBatch) /\ currentBatch' = <<>>
        BY <1>4, <3>1 DEF CloseCurrentAndTakeFirstBatch
      <4>2. /\ Len(batches') = Len(Tail(batches)) + 1
            /\ \A i \in 1 .. Len(Tail(batches)) : batches'[i] = Tail(batches)[i]
            /\ batches'[Len(Tail(batches)) + 1] = currentBatch
        BY <1>1, <2>1, <4>1, AppendFacts
      <4>3. Len(Tail(batches)) + 1 = N
        BY <2>1
      <4>4. Len(batches') = N /\ batches'[N] = currentBatch
        BY <4>2, <4>3
      <4>5. \A i \in 1 .. N - 1 : batches'[i] = batches[i + 1]
        BY <2>1, <4>2
      <4> QED BY <4>1, <4>4, <4>5
    <3>2. CASE phase # "running"
      <4>1. batches' = Tail(batches) /\ currentBatch' = currentBatch
        BY <1>4, <3>2 DEF CloseCurrentAndTakeFirstBatch
      <4> QED BY <2>1, <4>1
    <3> QED BY <3>1, <3>2
  <2> HIDE DEF N
  <2>4. ASSUME NEW k, NEW x, NEW i, NEW id, Waits(k, x, i, id)'
        PROVE  \/ k = "tick" /\ x = 0 /\ Waits("batch", 1, i, id)
               \/ k = "batch" /\ x \in 1 .. N - 1 /\ Waits("batch", x + 1, i, id)
               \/ k = "batch" /\ x = N /\ Waits("current", 0, i, id) /\ currentBatch' = <<>>
               \/ k = "current" /\ Waits(k, x, i, id) /\ currentBatch' # <<>>
               \/ k \notin {"tick", "batch", "current"} /\ Waits(k, x, i, id)
    <3>1. CASE k = "tick"
      BY <2>1, <2>2, <2>4, <3>1 DEF Waits, N
    <3>2. CASE k = "batch"
      <4>1. x \in 1 .. Len(batches') /\ i \in 1 .. Len(batches'[x]) /\ batches'[x][i] = id
        BY <2>4, <3>2 DEF Waits
      <4>2. CASE x \in 1 .. N - 1
        <5>0. \A j \in 1 .. N - 1 : batches'[j] = batches[j + 1]
          BY <2>3
        <5>1. batches'[x] = batches[x + 1]
          BY <4>2, <5>0
        <5>2. x + 1 \in 1 .. N
          BY <2>1, <4>2
        <5> QED BY <3>2, <4>1, <4>2, <5>1, <5>2 DEF Waits, N
      <4>3. CASE x \notin 1 .. N - 1
        <5>1. x = N /\ batches'[N] = currentBatch /\ currentBatch' = <<>>
          BY <2>1, <2>3, <4>1, <4>3
        <5> QED BY <3>2, <4>1, <5>1 DEF Waits
      <4> QED BY <4>2, <4>3
    <3>3. CASE k = "current"
      BY <2>3, <2>4, <3>3 DEF Waits
    <3>4. CASE k \notin {"tick", "batch", "current"}
      BY <1>1, <2>4, <3>4 DEF Waits
    <3> QED BY <3>1, <3>2, <3>3, <3>4
  <2>5. \A id : OnePlace(id) => OnePlace(id)'
    <3> SUFFICES ASSUME NEW id, OnePlace(id), NEW k, NEW x, NEW i, NEW kk, NEW xx, NEW ii,
                        Waits(k, x, i, id)', Waits(kk, xx, ii, id)'
                 PROVE  k = kk /\ x = xx /\ i = ii
      BY DEF OnePlace
    <3>1. \/ k = "tick" /\ x = 0 /\ Waits("batch", 1, i, id)
          \/ k = "batch" /\ x \in 1 .. N - 1 /\ Waits("batch", x + 1, i, id)
          \/ k = "batch" /\ x = N /\ Waits("current", 0, i, id) /\ currentBatch' = <<>>
          \/ k = "current" /\ Waits(k, x, i, id) /\ currentBatch' # <<>>
          \/ k \notin {"tick", "batch", "current"} /\ Waits(k, x, i, id)
      BY <2>4
    <3>2. \/ kk = "tick" /\ xx = 0 /\ Waits("batch", 1, ii, id)
          \/ kk = "batch" /\ xx \in 1 .. N - 1 /\ Waits("batch", xx + 1, ii, id)
          \/ kk = "batch" /\ xx = N /\ Waits("current", 0, ii, id) /\ currentBatch' = <<>>
          \/ kk = "current" /\ Waits(kk, xx, ii, id) /\ currentBatch' # <<>>
          \/ kk \notin {"tick", "batch", "current"} /\ Waits(kk, xx, ii, id)
      BY <2>4
    <3>3. \A y \in 1 .. N - 1 : y + 1 # 1
      BY <2>1
    <3>4. \A y, z \in 1 .. N - 1 : y + 1 = z + 1 => y = z
      BY <2>1
    <3> QED BY <3>1, <3>2, <3>3, <3>4 DEF OnePlace
  <2>6. \A k, x, i, id : Waits(k, x, i, id)' => \E kk, xx, ii : Waits(kk, xx, ii, id)
    BY <2>4
  <2> QED BY <1>2, <2>5, <2>6, WaitsKept
<1> QED BY <1>3, <1>4

\* The first place of the tick's batch is given up.
LEMMA WaitsTick ==
    ASSUME BaseInv, WaitsInv, tick.batch # <<>>, tick'.batch = Tail(tick.batch),
           UNCHANGED <<worker, pendingIds, currentBatch, batches>>
    PROVE  /\ \A k, x, i, id : Waits(k, x, i, id)' =>
                \/ k = "tick" /\ x = 0 /\ i \in Nat \ {0} /\ Waits("tick", 0, i + 1, id)
                \/ k # "tick" /\ Waits(k, x, i, id)
           /\ \A id : OnePlace(id) => OnePlace(id)'
<1>1. tick.batch \in Seq(TraceIds)
  BY DEF BaseInv, SamplerTypeOK, TickOK
<1>2. /\ Len(tick.batch) \in Nat \ {0} /\ Len(tick'.batch) = Len(tick.batch) - 1
      /\ \A i \in 1 .. Len(tick.batch) - 1 : tick'.batch[i] = tick.batch[i + 1]
  BY <1>1, TailFacts
<1>3. ASSUME NEW k, NEW x, NEW i, NEW id, Waits(k, x, i, id)'
      PROVE  \/ k = "tick" /\ x = 0 /\ i \in Nat \ {0} /\ Waits("tick", 0, i + 1, id)
             \/ k # "tick" /\ Waits(k, x, i, id)
  <2>1. CASE k = "tick"
    <3>1. x = 0 /\ i \in 1 .. Len(tick'.batch) /\ tick'.batch[i] = id
      BY <1>3, <2>1 DEF Waits
    <3>2. i \in Nat \ {0} /\ i + 1 \in 1 .. Len(tick.batch) /\ tick.batch[i + 1] = id
      BY <1>2, <3>1
    <3> QED BY <2>1, <3>1, <3>2 DEF Waits
  <2>2. CASE k # "tick"
    BY <1>3, <2>2 DEF Waits
  <2> QED BY <2>1, <2>2
<1>4. ASSUME NEW id, OnePlace(id), NEW k, NEW x, NEW i, NEW kk, NEW xx, NEW ii,
             Waits(k, x, i, id)', Waits(kk, xx, ii, id)'
      PROVE  k = kk /\ x = xx /\ i = ii
  <2>1. \/ k = "tick" /\ x = 0 /\ i \in Nat \ {0} /\ Waits("tick", 0, i + 1, id)
        \/ k # "tick" /\ Waits(k, x, i, id)
    BY <1>3, <1>4
  <2>2. \/ kk = "tick" /\ xx = 0 /\ ii \in Nat \ {0} /\ Waits("tick", 0, ii + 1, id)
        \/ kk # "tick" /\ Waits(kk, xx, ii, id)
    BY <1>3, <1>4
  <2>3. \A y, z \in Nat \ {0} : y + 1 = z + 1 => y = z
    OBVIOUS
  <2> QED BY <1>4, <2>1, <2>2, <2>3 DEF OnePlace
<1> QED BY <1>3, <1>4 DEF OnePlace

\* The tick takes a trace that is not on the map, or decides about one: nothing
\* that still waits is decided about.
LEMMA WaitsLoadDecide ==
    ASSUME BaseInv, WaitsInv, TickLoad \/ TickDecide
    PROVE  WaitsInv'
<1>0. TickOK /\ MapOK /\ TickMeans /\ UNCHANGED <<worker, pendingIds, currentBatch, batches, objects>>
  BY DEF BaseInv, SamplerTypeOK, ObjectsInv, TickLoad, TickDecide, mapVars, batcherVars
<1>1. CASE TickLoad /\ tick'.batch = tick.batch
  <2>1. \A k, x, i, id : Waits(k, x, i, id)' <=> Waits(k, x, i, id)
    BY <1>0, <1>1 DEF Waits
  <2> QED BY <1>0, <1>1, <2>1, WaitsSame DEF TickLoad, SameIds, SameDecisions
<1>2. CASE TickLoad /\ tick'.batch # tick.batch
  <2>1. tick.batch # <<>> /\ tick'.batch = Tail(tick.batch)
    BY <1>0, <1>2 DEF TickLoad, Ticking, TickOK
  <2>2. \A id : OnePlace(id) => OnePlace(id)'
    BY <1>0, <2>1, WaitsTick
  <2>3. \A k, x, i, id : Waits(k, x, i, id)' => \E kk, xx, ii : Waits(kk, xx, ii, id)
    BY <1>0, <2>1, WaitsTick
  <2> QED BY <1>0, <1>2, <2>2, <2>3, WaitsKept DEF TickLoad, SameIds, SameDecisions
<1>3. CASE TickDecide
  <2>1. /\ tick.batch # <<>> /\ tick'.batch = Tail(tick.batch) /\ tick.batch \in Seq(TraceIds)
        /\ data[tick.obj].id = tick.batch[1]
    BY <1>0, <1>3 DEF TickDecide, TickMeans, Ticking, TickOK
  <2>2. /\ \A k, x, i, id : Waits(k, x, i, id)' =>
              \/ k = "tick" /\ x = 0 /\ i \in Nat \ {0} /\ Waits("tick", 0, i + 1, id)
              \/ k # "tick" /\ Waits(k, x, i, id)
        /\ \A id : OnePlace(id) => OnePlace(id)'
    BY <1>0, <2>1, WaitsTick
  <2>3. SameIds /\ \A o \in 1 .. objects : o # tick.obj => data'[o] = data[o]
    BY <1>0, <1>3, DecideFacts DEF SameIds
  <2>4. NoTwins' => NoTwins
    BY <2>3 DEF NoTwins, SameIds
  <2>5. \A k, x, i, id : Waits(k, x, i, id)' => \E o \in 1 .. objects' : data'[o].id = id
    BY <2>2, <2>3 DEF WaitsInv, SameIds
  <2>6. ASSUME NoTwins', NEW id, NEW k, NEW x, NEW i, Waits(k, x, i, id)',
               NEW o \in 1 .. objects, data'[o].id = id
        PROVE  data'[o].decision = "Unspecified"
    <3>1. Waits("tick", 0, 1, tick.batch[1])
      BY <2>1 DEF Waits
    <3>2. id # tick.batch[1]
      <4>1. CASE k # "tick"
        BY <2>2, <2>4, <2>6, <3>1, <4>1 DEF WaitsInv, OnePlace
      <4>2. CASE k = "tick"
        <5>1. i \in Nat \ {0} /\ Waits("tick", 0, i + 1, id)
          BY <2>2, <2>6, <4>2
        <5>2. i + 1 # 1
          BY <5>1
        <5> QED BY <2>4, <2>6, <3>1, <5>1, <5>2 DEF WaitsInv, OnePlace
      <4> QED BY <4>1, <4>2
    <3>3. o # tick.obj /\ data'[o] = data[o]
      BY <2>1, <2>3, <2>6, <3>2 DEF SameIds
    <3>4. \E kk, xx, ii : Waits(kk, xx, ii, id)
      BY <2>2, <2>6
    <3> QED BY <2>4, <2>6, <3>3, <3>4 DEF WaitsInv
  <2>7. NoTwins' => \A id : OnePlace(id)'
    BY <2>2, <2>4 DEF WaitsInv
  <2> QED BY <1>0, <2>5, <2>6, <2>7 DEF WaitsInv
<1> QED BY <1>1, <1>2, <1>3

\* Every step keeps a trace at one place.
LEMMA WaitsNext ==
    ASSUME BaseInv, WaitsInv, [Next]_vars
    PROVE  WaitsInv'
<1>1. CASE StopBatcher \/ BatcherStopped \/ StopTicker \/ TickerReturns \/ UNCHANGED vars
  <2>1. UNCHANGED <<objects, data, worker, pendingIds, currentBatch, batches, tick>>
    BY <1>1 DEF StopBatcher, BatcherStopped, StopTicker, TickerReturns, vars, mapVars, batcherVars
  <2>2. \A k, x, i, id : Waits(k, x, i, id)' <=> Waits(k, x, i, id)
    BY <2>1 DEF Waits
  <2> QED BY <2>1, <2>2, WaitsSame DEF SameIds, SameDecisions
<1> QED BY <1>1, WaitsReceive, WaitsWorker, WaitsFill, WaitsClose, WaitsLoadDecide DEF Next

\* At first nothing waits.
LEMMA WaitsInit == Init => WaitsInv
<1> SUFFICES ASSUME Init PROVE WaitsInv
  OBVIOUS
<1>1. \A k, x, i, id : ~ Waits(k, x, i, id)
  <2>1. /\ pendingIds = <<>> /\ currentBatch = <<>> /\ tick.batch = <<>>
        /\ \A w \in Workers : worker[w].at = "idle"
    BY DEF Init, Idle, NoTick
  <2>2. NumBatches \in Nat
    BY SamplerAssumption
  <2>3. Len(batches) = NumBatches /\ \A x \in 1 .. NumBatches : batches[x] = <<>>
    BY <2>2 DEF Init
  <2> QED BY <2>1, <2>3 DEF Waits
<1> QED BY <1>1 DEF WaitsInv, OnePlace

\* A step that leaves the spans where they are.
LEMMA SpansSame ==
    ASSUME SpansInv, UNCHANGED <<arriving, objects, data, forwarded>>,
           \A v \in Workers : worker'[v].span = worker[v].span
    PROVE  SpansInv'
<1>1. NoTwins' => NoTwins
  BY DEF NoTwins
<1>2. \A s \in Spans : SpanInv(s) => SpanInv(s)'
  BY DEF SpanInv, Fresh
<1> QED BY <1>1, <1>2 DEF SpansInv

\* A caller takes the span.
LEMMA SpansReceive ==
    ASSUME BaseInv, SpansInv, NEW w \in Workers, NEW s0 \in Spans, Receive(w, s0)
    PROVE  SpansInv'
<1> DEFINE id0 == TraceOf[s0]
<1>0. /\ MapOK /\ CallsOK /\ id0 \in TraceIds /\ worker[w].at = "idle" /\ s0 \in arriving
      /\ arriving' = arriving \ {s0} /\ UNCHANGED forwarded
  BY SamplerAssumption DEF BaseInv, SamplerTypeOK, Receive
<1>1. worker'[w].span = s0 /\ \A v \in Workers : v # w => worker'[v] = worker[v]
  BY <1>0 DEF Receive, CallsOK
<1>2. /\ objects' \in Nat /\ objects \in Nat /\ objects' >= objects
      /\ \A o \in 1 .. objects : data'[o] = data[o]
      /\ \A o \in 1 .. objects' : o \notin 1 .. objects => data'[o].spans = {}
  <2>1. CASE UNCHANGED <<objects, data>>
    BY <1>0, <2>1 DEF MapOK
  <2>2. CASE objects' = objects + 1 /\ data' = Append(data, NewData(id0))
    <3>1. NewData(id0) \in TraceData /\ NewData(id0).spans = {}
      BY <1>0 DEF NewData, TraceData
    <3>2. data'[objects + 1] = NewData(id0) /\ \A o \in 1 .. objects : data'[o] = data[o]
      BY <1>0, <2>2, <3>1, AppendFacts DEF MapOK
    <3>3. objects \in Nat /\ \A o \in 1 .. objects' : o \notin 1 .. objects => o = objects + 1
      BY <1>0, <2>2 DEF MapOK
    <3>4. objects' \in Nat /\ objects' >= objects
      BY <2>2, <3>3
    <3>5. \A o \in 1 .. objects' : o \notin 1 .. objects => data'[o].spans = {}
      BY <3>1, <3>2, <3>3
    <3> QED BY <3>2, <3>3, <3>4, <3>5
  <2> QED BY <2>1, <2>2 DEF Receive
<1>3. 1 .. objects \subseteq 1 .. objects'
  BY <1>2
<1>4. NoTwins' => NoTwins
  BY <1>2, <1>3 DEF NoTwins
<1>5. ASSUME NEW s \in Spans, SpanInv(s), SpanInv(s0)
      PROVE  SpanInv(s)'
  <2>1. \A o \in 1 .. objects' : s \in data'[o].spans => o \in 1 .. objects /\ s \in data[o].spans
    BY <1>2
  <2>2. Fresh(s) => Fresh(s)'
    BY <1>0, <2>1 DEF Fresh
  <2>3. s \in arriving' => Fresh(s)' /\ \A v \in Workers : worker'[v].span # s
    BY <1>0, <1>1, <1>5, <2>2 DEF SpanInv
  <2>4. \A v \in Workers : worker'[v].span = s =>
            Fresh(s)' /\ \A u \in Workers : worker'[u].span = s => u = v
    <3>1. CASE s = s0
      BY <1>0, <1>1, <1>5, <2>2, <3>1 DEF SpanInv
    <3>2. CASE s # s0
      BY <1>1, <1>5, <2>2, <3>2 DEF SpanInv
    <3> QED BY <3>1, <3>2
  <2>5. \A o \in 1 .. objects' : s \in data'[o].spans =>
            /\ data'[o].id = TraceOf[s]
            /\ data'[o].decision = "Unspecified" => forwarded'[s] = 0
    BY <1>0, <1>2, <1>5, <2>1 DEF SpanInv
  <2>6. forwarded'[s] <= 1
    BY <1>0, <1>5 DEF SpanInv
  <2> QED BY <2>3, <2>4, <2>5, <2>6 DEF SpanInv
<1> QED BY <1>4, <1>5 DEF SpansInv

\* The caller keeps the span in its object, or forwards it after the decision.
LEMMA SpansAppend ==
    ASSUME BaseInv, SpansInv, NEW w \in Workers, AppendSpan(w)
    PROVE  SpansInv'
<1> DEFINE o0 == worker[w].obj
           s0 == worker[w].span
<1>0. /\ MapOK /\ CallsOK /\ CallMeans /\ CountsOK /\ worker[w].at = "append"
      /\ UNCHANGED <<arriving, objects>>
  BY DEF BaseInv, SamplerTypeOK, ObjectsInv, AppendSpan, mapVars
<1>1. o0 \in 1 .. objects /\ s0 \in Spans /\ data[o0] \in TraceData /\ data[o0].id = TraceOf[s0]
  BY <1>0 DEF CallMeans, CallsOK, Call, MapOK
<1>2. worker'[w].span = NoSpan /\ \A v \in Workers : v # w => worker'[v] = worker[v]
  BY <1>0 DEF AppendSpan, Idle, CallsOK
<1>3. NoSpan \notin Spans
  BY SamplerAssumption
<1>4. /\ \A o \in 1 .. objects : data'[o].id = data[o].id /\ data'[o].decision = data[o].decision
      /\ \A o \in 1 .. objects : o # o0 => data'[o].spans = data[o].spans
      /\ \/ /\ data[o0].decision = "Unspecified" /\ data'[o0].spans = data[o0].spans \cup {s0}
            /\ forwarded' = forwarded
         \/ /\ data[o0].decision # "Unspecified" /\ data'[o0].spans = data[o0].spans
            /\ forwarded'[s0] \in {forwarded[s0], forwarded[s0] + 1}
            /\ \A s \in Spans : s # s0 => forwarded'[s] = forwarded[s]
  <2>1. CASE data[o0].decision = "Unspecified"
    <3>1. data' = [data EXCEPT ![o0].spans = @ \cup {s0}] /\ forwarded' = forwarded
      BY <2>1 DEF AppendSpan
    <3> QED BY <1>0, <1>1, <2>1, <3>1 DEF MapOK, TraceData
  <2>2. CASE data[o0].decision # "Unspecified"
    <3>1. data' = data /\ (forwarded' = forwarded \/ forwarded' = [forwarded EXCEPT ![s0] = @ + 1])
      BY <2>2 DEF AppendSpan
    <3> QED BY <1>0, <1>1, <2>2, <3>1 DEF CountsOK
  <2> QED BY <2>1, <2>2
<1>5. NoTwins' => NoTwins
  BY <1>0, <1>4 DEF NoTwins
<1> HIDE DEF o0, s0
<1>6. ASSUME NEW s \in Spans, SpanInv(s)
      PROVE  SpanInv(s)'
  <2>1. CASE s # s0
    <3>1. \A o \in 1 .. objects : s \in data'[o].spans <=> s \in data[o].spans
      BY <1>4, <2>1
    <3>2. forwarded'[s] = forwarded[s]
      BY <1>4, <2>1
    <3>3. Fresh(s) => Fresh(s)'
      BY <1>0, <3>1, <3>2 DEF Fresh
    <3>4. \A v \in Workers : worker'[v].span = s => worker[v].span = s
      BY <1>2, <1>3
    <3> QED BY <1>0, <1>4, <1>6, <3>1, <3>2, <3>3, <3>4 DEF SpanInv
  <2>2. CASE s = s0
    <3>1. /\ Fresh(s) /\ s \notin arriving
          /\ \A v \in Workers : worker[v].span = s => v = w
      BY <1>6, <2>2 DEF SpanInv, s0
    <3>2. \A v \in Workers : worker'[v].span # s
      BY <1>2, <1>3, <3>1
    <3>3. forwarded[s] = 0 /\ \A o \in 1 .. objects : s \notin data[o].spans
      BY <3>1 DEF Fresh
    <3>4. forwarded'[s] <= 1
      BY <1>4, <2>2, <3>3
    <3>5. \A o \in 1 .. objects : s \in data'[o].spans =>
              /\ data'[o].id = TraceOf[s]
              /\ data'[o].decision = "Unspecified" => forwarded'[s] = 0
      <4> SUFFICES ASSUME NEW o \in 1 .. objects, s \in data'[o].spans
                   PROVE  /\ data'[o].id = TraceOf[s]
                          /\ data'[o].decision = "Unspecified" => forwarded'[s] = 0
        OBVIOUS
      <4>1. o = o0 /\ data[o0].decision = "Unspecified" /\ forwarded' = forwarded
        BY <1>4, <3>3
      <4> QED BY <1>1, <1>4, <2>2, <3>3, <4>1
    <3> QED BY <1>0, <3>1, <3>2, <3>4, <3>5 DEF SpanInv
  <2> QED BY <2>1, <2>2
<1> QED BY <1>5, <1>6 DEF SpansInv

\* The tick forwards the spans of a trace that was not decided about before.
LEMMA SpansDecide ==
    ASSUME BaseInv, WaitsInv, SpansInv, TickDecide
    PROVE  SpansInv'
<1> DEFINE o0 == tick.obj
<1>0. /\ MapOK /\ TickOK /\ TickMeans /\ CountsOK /\ tick.obj # 0
      /\ UNCHANGED <<arriving, objects, worker>>
  BY DEF BaseInv, SamplerTypeOK, ObjectsInv, TickDecide, mapVars
<1>1. /\ o0 \in 1 .. objects /\ data'[o0].decision = "Sampled"
      /\ data'[o0].id = data[o0].id /\ data'[o0].spans = data[o0].spans
      /\ \A o \in 1 .. objects : o # o0 => data'[o] = data[o]
  BY DecideFacts
<1>2. \A s \in Spans : forwarded'[s] = IF s \in data[o0].spans THEN forwarded[s] + 1
                                       ELSE forwarded[s]
  BY <1>0, AllSampled DEF TickDecide
<1>3. NoTwins' => NoTwins
  BY <1>0, <1>1 DEF NoTwins
<1>4. NoTwins => data[o0].decision = "Unspecified"
  <2>1. Waits("tick", 0, 1, data[o0].id)
    <3>1. tick.batch \in Seq(TraceIds) /\ tick.batch # <<>> /\ data[o0].id = tick.batch[1]
      BY <1>0 DEF TickOK, TickMeans, Ticking
    <3> QED BY <3>1 DEF Waits
  <2> QED BY <1>1, <2>1 DEF WaitsInv
<1> HIDE DEF o0
<1>5. ASSUME NoTwins, NEW s \in Spans, SpanInv(s)
      PROVE  SpanInv(s)'
  <2>1. CASE s \notin data[o0].spans
    <3>1. forwarded'[s] = forwarded[s]
      BY <1>2, <2>1
    <3>2. \A o \in 1 .. objects : s \in data'[o].spans => o # o0 /\ s \in data[o].spans
      BY <1>1, <2>1
    <3>3. Fresh(s) => Fresh(s)'
      BY <1>0, <3>1, <3>2 DEF Fresh
    <3> QED BY <1>0, <1>1, <1>5, <3>1, <3>2, <3>3 DEF SpanInv
  <2>2. CASE s \in data[o0].spans
    <3>1. forwarded[s] = 0 /\ data[o0].id = TraceOf[s]
      BY <1>1, <1>4, <1>5, <2>2 DEF SpanInv
    <3>2. ~ Fresh(s)
      BY <1>1, <2>2 DEF Fresh
    <3>3. s \notin arriving /\ \A v \in Workers : worker[v].span # s
      BY <1>5, <3>2 DEF SpanInv
    <3>4. \A o \in 1 .. objects : s \in data'[o].spans => o = o0
      <4> SUFFICES ASSUME NEW o \in 1 .. objects, s \in data'[o].spans, o # o0 PROVE FALSE
        OBVIOUS
      <4>1. data[o].id = TraceOf[s]
        BY <1>1, <1>5 DEF SpanInv
      <4> QED BY <1>1, <1>5, <3>1, <4>1 DEF NoTwins
    <3>5. forwarded'[s] <= 1
      BY <1>2, <2>2, <3>1
    <3> QED BY <1>0, <1>1, <3>1, <3>3, <3>4, <3>5 DEF SpanInv
  <2> QED BY <2>1, <2>2
<1> QED BY <1>3, <1>5 DEF SpansInv

\* Every step.
LEMMA SpansNext ==
    ASSUME BaseInv, WaitsInv, SpansInv, [Next]_vars
    PROVE  SpansInv'
<1>1. ASSUME NEW w \in Workers,
             AddToCurrentBatch(w) \/ Post(w) \/ TakeOldest(w) \/ DropTrace(w)
      PROVE  SpansInv'
  <2>1. UNCHANGED <<arriving, objects, data, forwarded>>
    BY <1>1 DEF AddToCurrentBatch, Post, TakeOldest, DropTrace
  <2>2. worker \in [Workers -> Call(objects)] /\ worker[w] \in Call(objects)
    BY DEF BaseInv, SamplerTypeOK, CallsOK
  <2>3. \A v \in Workers : worker'[v].span = worker[v].span
    BY <1>1, <2>2 DEF AddToCurrentBatch, Post, TakeOldest, DropTrace, To, Call
  <2> QED BY <2>1, <2>3, SpansSame
<1>2. CASE Fill \/ CloseCurrentAndTakeFirstBatch \/ TickLoad \/ StopBatcher
           \/ BatcherStopped \/ StopTicker \/ TickerReturns \/ UNCHANGED vars
  <2>1. UNCHANGED <<arriving, objects, data, forwarded, worker>>
    BY <1>2 DEF Fill, CloseCurrentAndTakeFirstBatch, TickLoad, StopBatcher, BatcherStopped,
                StopTicker, TickerReturns, vars, mapVars
  <2> QED BY <2>1, SpansSame
<1> QED BY <1>1, <1>2, SpansReceive, SpansAppend, SpansDecide DEF Next, WorkerStep

-----------------------------------------------------------------------------
(* The theorems *)

SamplerInv == BaseInv /\ ScheduledInv /\ TokenInv /\ WaitsInv /\ SpansInv

\* The inductive invariant of the processor: the objects belong to their traces
\* (BaseInv), a trace that waits will be found (ScheduledInv), each entry of
\* the map has one token (TokenInv), a trace waits at one place (WaitsInv) and
\* its spans are kept until the decision (SpansInv).
THEOREM SamplerInvariant == Spec => []SamplerInv
<1>1. Init => SamplerInv
  <2> SUFFICES ASSUME Init PROVE SamplerInv
    OBVIOUS
  <2>1. ScheduledInv
    BY DEF Init, ScheduledInv, OnMap
  <2>2. SpansInv
    <3>1. objects = 0 /\ \A s \in Spans : forwarded[s] = 0
      BY DEF Init
    <3>2. \A w \in Workers : worker[w].span = NoSpan
      BY DEF Init, Idle
    <3>3. NoSpan \notin Spans
      BY SamplerAssumption
    <3>4. \A s \in Spans : \A w \in Workers : worker[w].span # s
      BY <3>2, <3>3
    <3>5. \A o \in 1 .. objects : FALSE
      BY <3>1
    <3> QED BY <3>1, <3>4, <3>5 DEF SpansInv, SpanInv, Fresh
  <2> QED BY <2>1, <2>2, BaseInit, TokenInit, WaitsInit DEF SamplerInv
<1>2. SamplerInv /\ [Next]_vars => SamplerInv'
  <2> SUFFICES ASSUME SamplerInv, [Next]_vars PROVE SamplerInv'
    OBVIOUS
  <2>1. BaseInv'
    BY BaseReceive, BaseWorker, BaseOthers DEF SamplerInv, Next
  <2> QED BY <2>1, ScheduledNext, TokenNext, WaitsNext, SpansNext DEF SamplerInv
<1> QED BY <1>1, <1>2, PTL DEF Spec

\* For any number of callers and any capacity of deleteChan, the map holds at
\* most NumTraces traces once the calls in progress have returned, and the
\* counter is right (processor.go, processTraces, dropTrace).
THEOREM MapBoundedTheorem == Spec => []MapBounded
<1>1. SamplerInv => MapBounded
  BY TokensBoundMap DEF SamplerInv
<1> QED BY <1>1, SamplerInvariant, PTL

\* Whatever order callers, batcher and ticker run in, a trace on the map that
\* is not decided about is in a batch, or about to be (processor.go,
\* id_batcher.go).
THEOREM NoneForgottenTheorem == Spec => []NoneForgotten
<1>1. SamplerInv => NoneForgotten
  <2> SUFFICES ASSUME SamplerInv, NEW id \in OnMap,
                      data[idToTrace[id]].decision = "Unspecified"
               PROVE  Scheduled(id)
    BY DEF NoneForgotten
  <2>1. WillBeFound(id)
    BY DEF SamplerInv, ScheduledInv
  <2> QED BY <2>1 DEF WillBeFound, Scheduled, In
<1> QED BY <1>1, SamplerInvariant, PTL

\* Unless a trace is created twice, no span is forwarded twice, whatever order
\* the span and the decision on its trace come in (processor.go, the lock of
\* TraceData).
THEOREM OnceUnlessRecreatedTheorem == Spec => []OnceUnlessRecreated
<1>1. SamplerInv => OnceUnlessRecreated
  BY DEF SamplerInv, SpansInv, SpanInv, NoTwins, OnceUnlessRecreated
<1> QED BY <1>1, SamplerInvariant, PTL

-----------------------------------------------------------------------------
(* No span falls between a caller and the tick *)

\* A span is not yet received, with a caller, waiting in a trace that will be
\* decided about, or forwarded.
SpanKept(s) ==
    \/ s \in arriving
    \/ \E w \in Workers : worker[w].span = s
    \/ \E o \in 1 .. objects : s \in data[o].spans /\ data[o].decision = "Unspecified"
    \/ forwarded[s] > 0

\* A span the processor has received is never added to a trace that was decided
\* about already, where nobody would look for it: the tick stores the decision
\* and copies the spans under the lock under which callers test the decision
\* (processor.go, processTraces and samplingPolicyOnTick).  Only the eviction of
\* a trace that waits takes its spans out of the tick's sight.
NoSpanLost == \A s \in Spans : SpanKept(s)

\* A step that moves no span.
LEMMA KeptSame ==
    ASSUME NoSpanLost, UNCHANGED <<arriving, objects, data, forwarded>>,
           \A v \in Workers : worker'[v].span = worker[v].span
    PROVE  NoSpanLost'
BY DEF NoSpanLost, SpanKept

\* A caller takes a span.
LEMMA KeptReceive ==
    ASSUME BaseInv, NoSpanLost, NEW w \in Workers, NEW s0 \in Spans, Receive(w, s0)
    PROVE  NoSpanLost'
<1> DEFINE id0 == TraceOf[s0]
<1>0. /\ MapOK /\ CallsOK /\ id0 \in TraceIds /\ worker[w].at = "idle"
      /\ arriving' = arriving \ {s0} /\ UNCHANGED forwarded
  BY SamplerAssumption DEF BaseInv, SamplerTypeOK, Receive
<1>1. worker'[w].span = s0 /\ \A v \in Workers : v # w => worker'[v] = worker[v]
  BY <1>0 DEF Receive, CallsOK
<1>2. worker[w].span \notin Spans
  BY <1>0, SamplerAssumption DEF BaseInv, ObjectsInv, CallMeans
<1>3. \A o \in 1 .. objects : o \in 1 .. objects' /\ data'[o] = data[o]
  <2>1. CASE UNCHANGED <<objects, data>>
    BY <2>1
  <2>2. CASE objects' = objects + 1 /\ data' = Append(data, NewData(id0))
    <3>1. NewData(id0) \in TraceData
      BY <1>0 DEF NewData, TraceData
    <3> QED BY <1>0, <2>2, <3>1, AppendFacts DEF MapOK
  <2> QED BY <2>1, <2>2 DEF Receive
<1>4. ASSUME NEW s \in Spans
      PROVE  SpanKept(s)'
  <2>1. SpanKept(s)
    BY DEF NoSpanLost
  <2>2. CASE s \in arriving
    BY <1>0, <1>1, <2>2 DEF SpanKept
  <2>3. CASE \E v \in Workers : worker[v].span = s
    BY <1>1, <1>2, <2>3 DEF SpanKept
  <2>4. CASE \E o \in 1 .. objects : s \in data[o].spans /\ data[o].decision = "Unspecified"
    BY <1>3, <2>4 DEF SpanKept
  <2>5. CASE forwarded[s] > 0
    BY <1>0, <2>5 DEF SpanKept
  <2> QED BY <2>1, <2>2, <2>3, <2>4, <2>5 DEF SpanKept
<1> QED BY <1>4 DEF NoSpanLost

\* The caller keeps the span in its object, or forwards it after the decision.
LEMMA KeptAppend ==
    ASSUME BaseInv, NoSpanLost, NEW w \in Workers, AppendSpan(w)
    PROVE  NoSpanLost'
<1> DEFINE o0 == worker[w].obj
           s0 == worker[w].span
<1>0. /\ MapOK /\ CallsOK /\ CallMeans /\ CountsOK /\ worker[w].at = "append"
      /\ UNCHANGED <<arriving, objects>>
  BY DEF BaseInv, SamplerTypeOK, ObjectsInv, AppendSpan, mapVars
<1>1. o0 \in 1 .. objects /\ s0 \in Spans /\ data[o0] \in TraceData
  BY <1>0 DEF CallMeans, CallsOK, Call, MapOK
<1>2. \A v \in Workers : v # w => worker'[v] = worker[v]
  BY <1>0 DEF AppendSpan, CallsOK
<1>3. \/ /\ data[o0].decision = "Unspecified" /\ data'[o0].decision = "Unspecified"
         /\ data'[o0].spans = data[o0].spans \cup {s0}
         /\ \A o \in 1 .. objects : o # o0 => data'[o] = data[o]
         /\ forwarded' = forwarded
      \/ data' = data /\ forwarded' = [forwarded EXCEPT ![s0] = @ + 1]
  <2>1. CASE data[o0].decision = "Unspecified"
    <3>1. data' = [data EXCEPT ![o0].spans = @ \cup {s0}] /\ forwarded' = forwarded
      BY <2>1 DEF AppendSpan
    <3> QED BY <1>0, <1>1, <2>1, <3>1 DEF MapOK, TraceData
  <2>2. CASE data[o0].decision # "Unspecified"
    <3>1. data[o0].decision = "Sampled"
      BY <1>1, <2>2 DEF TraceData
    <3> QED BY <3>1 DEF AppendSpan
  <2> QED BY <2>1, <2>2
<1> HIDE DEF o0, s0
<1>4. ASSUME NEW s \in Spans
      PROVE  SpanKept(s)'
  <2>1. SpanKept(s)
    BY DEF NoSpanLost
  <2>2. \A o \in 1 .. objects : s \in data[o].spans /\ data[o].decision = "Unspecified" =>
            s \in data'[o].spans /\ data'[o].decision = "Unspecified"
    BY <1>3
  <2>3. forwarded[s] > 0 => forwarded'[s] > 0
    BY <1>0, <1>1, <1>3 DEF CountsOK
  <2>4. CASE s = s0
    BY <1>0, <1>1, <1>3, <2>4 DEF SpanKept, CountsOK
  <2>5. CASE s # s0
    <3>1. \A v \in Workers : worker[v].span = s => worker'[v].span = s
      BY <1>2, <2>5 DEF s0
    <3> QED BY <1>0, <2>1, <2>2, <2>3, <3>1 DEF SpanKept
  <2> QED BY <2>4, <2>5
<1> QED BY <1>4 DEF NoSpanLost

\* The tick forwards what waits in the trace it decides about.
LEMMA KeptDecide ==
    ASSUME BaseInv, NoSpanLost, TickDecide
    PROVE  NoSpanLost'
<1> DEFINE o0 == tick.obj
<1>0. CountsOK /\ UNCHANGED <<arriving, objects, worker>>
  BY DEF BaseInv, SamplerTypeOK, TickDecide, mapVars
<1>1. \A o \in 1 .. objects : o # o0 => data'[o] = data[o]
  BY DecideFacts
<1>2. \A s \in Spans : forwarded'[s] = IF s \in data[o0].spans THEN forwarded[s] + 1
                                       ELSE forwarded[s]
  BY AllSampled DEF TickDecide
<1> HIDE DEF o0
<1>3. \A s \in Spans : forwarded[s] \in Nat
  BY <1>0 DEF CountsOK
<1>4. ASSUME NEW s \in Spans
      PROVE  SpanKept(s)'
  <2>1. SpanKept(s)
    BY DEF NoSpanLost
  <2>2. CASE s \in data[o0].spans
    BY <1>2, <1>3, <2>2 DEF SpanKept
  <2>3. CASE s \notin data[o0].spans
    BY <1>0, <1>1, <1>2, <2>1, <2>3 DEF SpanKept
  <2> QED BY <2>2, <2>3
<1> QED BY <1>4 DEF NoSpanLost

\* A span that was received is forwarded, or waits where a decision will find it
\* as long as its trace is not evicted.
THEOREM NoSpanLostTheorem == Spec => []NoSpanLost
<1>1. Init => NoSpanLost
  BY DEF Init, NoSpanLost, SpanKept
<1>2. SamplerInv /\ NoSpanLost /\ [Next]_vars => NoSpanLost'
  <2> SUFFICES ASSUME BaseInv, NoSpanLost, [Next]_vars PROVE NoSpanLost'
    BY DEF SamplerInv
  <2>1. ASSUME NEW w \in Workers,
               AddToCurrentBatch(w) \/ Post(w) \/ TakeOldest(w) \/ DropTrace(w)
        PROVE  NoSpanLost'
    <3>1. UNCHANGED <<arriving, objects, data, forwarded>>
      BY <2>1 DEF AddToCurrentBatch, Post, TakeOldest, DropTrace
    <3>2. worker \in [Workers -> Call(objects)] /\ worker[w] \in Call(objects)
      BY DEF BaseInv, SamplerTypeOK, CallsOK
    <3>3. \A v \in Workers : worker'[v].span = worker[v].span
      BY <2>1, <3>2 DEF AddToCurrentBatch, Post, TakeOldest, DropTrace, To, Call
    <3> QED BY <3>1, <3>3, KeptSame
  <2>2. CASE Fill \/ CloseCurrentAndTakeFirstBatch \/ TickLoad \/ StopBatcher
             \/ BatcherStopped \/ StopTicker \/ TickerReturns \/ UNCHANGED vars
    <3>1. UNCHANGED <<arriving, objects, data, forwarded, worker>>
      BY <2>2 DEF Fill, CloseCurrentAndTakeFirstBatch, TickLoad, StopBatcher, BatcherStopped,
                  StopTicker, TickerReturns, vars, mapVars
    <3> QED BY <3>1, KeptSame
  <2> QED BY <2>1, <2>2, KeptReceive, KeptAppend, KeptDecide DEF Next, WorkerStep
<1> QED BY <1>1, <1>2, SamplerInvariant, PTL DEF Spec
=============================================================================
