--------------------------- MODULE LogsPushProofs ---------------------------
(***************************************************************************)
(* Proofs about LogsPush, for any number of concurrent pushes, of records,  *)
(* of slots of the limiter, and of errors and cancelled contexts.           *)
(***************************************************************************)
EXTENDS LogsPush, FiniteSetTheorems, TLAPS

PushTypeOK ==
    /\ pc \in [Pushes -> {"idle", "loop", "wait", "prepare", "send", "ok", "error"}]
    /\ next \in [Pushes -> 1 .. Records + 1]
    /\ producing \in [Pushes -> SUBSET Batch]
    /\ stream \in [Pushes -> SUBSET Batch]
    /\ open \in [Pushes -> BOOLEAN]
    /\ consumer \in [Pushes -> {"running", "appending", "ended"}]
    /\ current \in [Pushes -> 0 .. Records]
    /\ appended \in [Pushes -> SUBSET Batch]
    /\ ctx \in [Pushes -> {"live", "done"}]
    /\ err \in [Pushes -> BOOLEAN]
    /\ \A p \in Pushes : consumer[p] = "appending" => current[p] \in Batch

\* The record the consumer has in its hands.
Held(p) == IF consumer[p] = "appending" THEN {current[p]} ELSE {}

\* Producers live from the loop to the wait for them, and the stream with them.
ProducersInv(p) ==
    /\ producing[p] # {} => open[p] /\ pc[p] \in {"loop", "wait"}
    /\ pc[p] = "loop" => open[p]

\* Before and after the errgroup nobody consumes; a consumer that ends without
\* error or cancelled context has emptied a closed stream.
ConsumerInv(p) ==
    /\ pc[p] \notin {"loop", "wait"} => consumer[p] = "ended"
    /\ consumer[p] = "ended" /\ ~GroupDone(p) => ~open[p] /\ stream[p] = {}

\* No record is lost: unless the errgroup has an error, each record the loop has
\* come to is with its producer, in the stream, with the consumer or appended.
RecordsInv(p) ==
    ~err[p] => 1 .. next[p] - 1 \subseteq producing[p] \cup stream[p] \cup Held(p) \cup appended[p]

\* The loop ends early, and the rest of the push goes on, only as the code says.
PhaseInv(p) ==
    /\ pc[p] \in {"wait", "prepare"} /\ ~GroupDone(p) => next[p] = Records + 1
    /\ pc[p] = "prepare" => ~err[p]
    /\ pc[p] \in {"send", "ok"} => appended[p] = Batch

PushInv(p) == ProducersInv(p) /\ ConsumerInv(p) /\ RecordsInv(p) /\ PhaseInv(p)

\* Producers hold no more slots than there are.
SlotsInv == IsFiniteSet(Slots) /\ Cardinality(Slots) <= Limit

LogsPushInv == PushTypeOK /\ (\A p \in Pushes : PushInv(p)) /\ SlotsInv

-----------------------------------------------------------------------------

\* Types are kept by every step of a push.
LEMMA PushTypes ==
    ASSUME PushTypeOK, [Next]_vars
    PROVE  PushTypeOK'
<1> USE LogsPushAssumption DEF PushTypeOK, Goto, Batch
<1>1. CASE UNCHANGED vars
  BY <1>1 DEF vars
<1>2. ASSUME NEW p \in Pushes, Begin(p)
      PROVE  PushTypeOK'
  BY <1>2 DEF Begin
<1>3. ASSUME NEW p \in Pushes, Cancel(p)
      PROVE  PushTypeOK'
  BY <1>3 DEF Cancel
<1>4. ASSUME NEW p \in Pushes, Acquire(p)
      PROVE  PushTypeOK'
  BY <1>4 DEF Acquire
<1>5. ASSUME NEW p \in Pushes, LoopEnds(p) \/ CloseRecordStream(p) \/ ConsumerEnds(p)
      PROVE  PushTypeOK'
  BY <1>5 DEF LoopEnds, CloseRecordStream, ConsumerEnds
<1>6. ASSUME NEW p \in Pushes, Produce(p) \/ ProducerFails(p)
      PROVE  PushTypeOK'
  <2>1. PICK r \in producing[p] :
           /\ producing' = [producing EXCEPT ![p] = @ \ {r}]
           /\ stream' = [stream EXCEPT ![p] = @ \cup {r}] \/ stream' = stream
    BY <1>6 DEF Produce, ProducerFails
  <2>2. producing' \in [Pushes -> SUBSET Batch] /\ stream' \in [Pushes -> SUBSET Batch]
    BY <2>1
  <2> QED
    BY <1>6, <2>2 DEF Produce, ProducerFails
<1>7. ASSUME NEW p \in Pushes, Receive(p)
      PROVE  PushTypeOK'
  BY <1>7 DEF Receive
<1>8. ASSUME NEW p \in Pushes, Append(p)
      PROVE  PushTypeOK'
  BY <1>8 DEF Append
<1>10. ASSUME NEW p \in Pushes, AppendFails(p)
      PROVE  PushTypeOK'
  BY <1>10 DEF AppendFails
<1>9. ASSUME NEW p \in Pushes, GroupWait(p) \/ PrepareResources(p) \/ SendStatements(p)
      PROVE  PushTypeOK'
  BY <1>9 DEF GroupWait, PrepareResources, SendStatements
<1> QED
  BY <1>1, <1>2, <1>3, <1>4, <1>5, <1>6, <1>7, <1>8, <1>9, <1>10 DEF Next, Step

\* What a step of one push leaves alone: the other pushes.
LEMMA OthersUnchanged ==
    ASSUME PushTypeOK, NEW p \in Pushes, NEW q \in Pushes, p # q, PushInv(q),
           Begin(p) \/ Cancel(p) \/ Step(p) \/ ProducerFails(p) \/ AppendFails(p)
    PROVE  PushInv(q)'
<1>1. /\ pc'[q] = pc[q] /\ next'[q] = next[q] /\ producing'[q] = producing[q]
      /\ stream'[q] = stream[q] /\ open'[q] = open[q] /\ consumer'[q] = consumer[q]
      /\ current'[q] = current[q] /\ appended'[q] = appended[q]
      /\ ctx'[q] = ctx[q] /\ err'[q] = err[q]
  BY DEF PushTypeOK, Goto, Begin, Cancel, Step, ProducerFails, AppendFails, Acquire, LoopEnds,
     Produce, CloseRecordStream, Receive, Append, ConsumerEnds, GroupWait, PrepareResources,
     SendStatements
<1> QED
  BY <1>1 DEF PushInv, ProducersInv, ConsumerInv, RecordsInv, PhaseInv, GroupDone, Held

\* A step of a push keeps the invariant of that push.
LEMMA PushStepInv ==
    ASSUME PushTypeOK, NEW p \in Pushes, PushInv(p),
           Begin(p) \/ Cancel(p) \/ Step(p) \/ ProducerFails(p) \/ AppendFails(p)
    PROVE  PushInv(p)'
<1> USE LogsPushAssumption
    DEF PushTypeOK, Goto, Batch, PushInv, ProducersInv, ConsumerInv, RecordsInv, PhaseInv,
        GroupDone, Held
<1>1. CASE Begin(p)
  BY <1>1 DEF Begin
<1>2. CASE Cancel(p)
  BY <1>2 DEF Cancel
<1>3. CASE Acquire(p)
  BY <1>3 DEF Acquire
<1>4. CASE LoopEnds(p)
  <2>1. next[p] > Records => next[p] = Records + 1
    OBVIOUS
  <2>2. ~GroupDone(p) => next[p] = Records + 1
    BY <1>4, <2>1 DEF LoopEnds
  <2>3. pc'[p] = "wait"
    BY <1>4 DEF LoopEnds
  <2>4. ProducersInv(p)' /\ ConsumerInv(p)' /\ RecordsInv(p)'
    BY <1>4, <2>3 DEF LoopEnds
  <2>5. PhaseInv(p)'
    BY <1>4, <2>2, <2>3 DEF LoopEnds
  <2> QED
    BY <2>4, <2>5
<1>5. CASE Produce(p)
  BY <1>5 DEF Produce
<1>6. CASE ProducerFails(p)
  BY <1>6 DEF ProducerFails
<1>7. CASE CloseRecordStream(p)
  BY <1>7 DEF CloseRecordStream
<1>8. CASE Receive(p)
  BY <1>8 DEF Receive
<1>9. CASE Append(p)
  BY <1>9 DEF Append
<1>10. CASE AppendFails(p)
  BY <1>10 DEF AppendFails
<1>11. CASE ConsumerEnds(p)
  BY <1>11 DEF ConsumerEnds
<1>12. CASE GroupWait(p)
  BY <1>12 DEF GroupWait
<1>13. CASE PrepareResources(p)
  <2>1. consumer[p] = "ended" /\ producing[p] = {} /\ ~err[p]
    BY <1>13 DEF PrepareResources
  <2>2. ASSUME ctx[p] # "done"
        PROVE  appended[p] = Batch
    <3>0. pc[p] = "prepare" /\ ~GroupDone(p)
      BY <1>13, <2>1, <2>2 DEF PrepareResources, GroupDone
    <3>1. stream[p] = {} /\ next[p] - 1 = Records
      BY <2>1, <3>0
    <3>2. 1 .. Records \subseteq appended[p]
      BY <2>1, <3>1
    <3> QED
      BY <3>2
  <2> QED
    BY <1>13, <2>1, <2>2 DEF PrepareResources
<1>14. CASE SendStatements(p)
  BY <1>14 DEF SendStatements
<1> QED
  BY <1>1, <1>2, <1>3, <1>4, <1>5, <1>6, <1>7, <1>8, <1>9, <1>10, <1>11, <1>12, <1>13,
     <1>14 DEF Step

\* A slot is taken only while one is free, and by one producer at a time.
LEMMA SlotsStepInv ==
    ASSUME PushTypeOK, SlotsInv, NEW p \in Pushes,
           Begin(p) \/ Cancel(p) \/ Step(p) \/ ProducerFails(p) \/ AppendFails(p)
    PROVE  SlotsInv'
<1> USE LogsPushAssumption DEF SlotsInv
<1>1. CASE Acquire(p)
  <2>1. <<p, next[p]>> \in Pushes \X Batch
    BY <1>1 DEF Acquire, PushTypeOK, Batch
  <2>2. Slots' = Slots \cup {<<p, next[p]>>}
    BY <1>1, <2>1 DEF Acquire, Slots, PushTypeOK, Batch
  <2>3. IsFiniteSet(Slots') /\ (\/ Cardinality(Slots') = Cardinality(Slots)
                                \/ Cardinality(Slots') = Cardinality(Slots) + 1)
    BY <2>2, FS_AddElement
  <2>4. Cardinality(Slots) \in Nat /\ Cardinality(Slots) < Limit
    BY <1>1, FS_CardinalityType DEF Acquire, SlotFree, SlotsInUse
  <2> QED
    BY <2>3, <2>4
<1>2. CASE ~Acquire(p)
  <2>1. \A q \in Pushes : producing'[q] \subseteq producing[q]
    BY <1>2 DEF PushTypeOK, Goto, Begin, Cancel, Step, ProducerFails, AppendFails, LoopEnds,
       Produce, CloseRecordStream, Receive, Append, ConsumerEnds, GroupWait, PrepareResources,
       SendStatements
  <2>2. Slots' \subseteq Slots
    BY <2>1 DEF Slots, Batch
  <2>3. /\ IsFiniteSet(Slots') /\ Cardinality(Slots') <= Cardinality(Slots)
        /\ Cardinality(Slots') \in Nat /\ Cardinality(Slots) \in Nat
    BY <2>2, FS_Subset, FS_CardinalityType
  <2> QED
    BY <2>3
<1> QED
  BY <1>1, <1>2

\* The invariant holds initially, and every step keeps it.
LEMMA LogsPushInit == Init => LogsPushInv
<1> SUFFICES ASSUME Init PROVE LogsPushInv
  OBVIOUS
<1> USE LogsPushAssumption DEF Init
<1>1. PushTypeOK
  BY DEF PushTypeOK, Batch
<1>2. \A p \in Pushes : PushInv(p)
  BY DEF PushInv, ProducersInv, ConsumerInv, RecordsInv, PhaseInv, GroupDone, Held
<1>3. Slots = {}
  BY DEF Slots
<1>4. SlotsInv
  BY <1>3, FS_EmptySet DEF SlotsInv
<1> QED
  BY <1>1, <1>2, <1>4 DEF LogsPushInv

\* Every step keeps the invariant.
LEMMA LogsPushNext == LogsPushInv /\ [Next]_vars => LogsPushInv'
<1> SUFFICES ASSUME LogsPushInv, [Next]_vars PROVE LogsPushInv'
  OBVIOUS
<1>1. PushTypeOK'
  BY PushTypes DEF LogsPushInv
<1>2. CASE UNCHANGED vars
  <2>1. (\A p \in Pushes : PushInv(p)) => (\A p \in Pushes : PushInv(p))'
    BY <1>2 DEF vars, PushInv, ProducersInv, ConsumerInv, RecordsInv, PhaseInv, GroupDone, Held
  <2>2. SlotsInv'
    BY <1>2 DEF vars, SlotsInv, Slots, LogsPushInv
  <2> QED
    BY <1>1, <2>1, <2>2 DEF LogsPushInv
<1>3. ASSUME NEW p \in Pushes,
             Begin(p) \/ Cancel(p) \/ Step(p) \/ ProducerFails(p) \/ AppendFails(p)
      PROVE  LogsPushInv'
  <2>1. \A q \in Pushes : PushInv(q)'
    BY <1>3, OthersUnchanged, PushStepInv DEF LogsPushInv
  <2>2. SlotsInv'
    BY <1>3, SlotsStepInv DEF LogsPushInv
  <2> QED
    BY <1>1, <2>1, <2>2 DEF LogsPushInv
<1> QED
  BY <1>2, <1>3 DEF Next

\* pushToClickhouse: types, producers, consumer, records and phases of every push
\* stay as LogsPushInv says.
THEOREM LogsPushInvariant == Spec => []LogsPushInv
BY LogsPushInit, LogsPushNext, PTL DEF Spec

\* No producer of clickhouselogsexporter ever sends on a closed recordStream, and
\* all pushes together never hold more slots than the limiter has.
THEOREM StreamOutlivesProducersTheorem == Spec => []StreamOutlivesProducers
<1>1. LogsPushInv => StreamOutlivesProducers
  BY DEF LogsPushInv, PushInv, ProducersInv, SlotsInv, StreamOutlivesProducers, Running,
     SlotsInUse
<1> QED
  BY <1>1, LogsPushInvariant, PTL

\* Statements are sent, and a batch is acknowledged, only with all its records.
THEOREM WholeBatchSentTheorem == Spec => []WholeBatchSent
<1>1. LogsPushInv => WholeBatchSent
  BY DEF LogsPushInv, PushInv, PhaseInv, WholeBatchSent
<1> QED
  BY <1>1, LogsPushInvariant, PTL


-----------------------------------------------------------------------------
(* The push implements AtomicPush *)

\* Producers, stream, consumer and contexts are hidden: a push runs from its call
\* to its result, and what was acknowledged are the records in its statements.
state ==
    [p \in Pushes |-> IF Running(p) THEN "running"
                      ELSE IF pc[p] = "error" THEN "failed" ELSE pc[p]]
sent == [p \in Pushes |-> IF pc[p] = "ok" THEN appended[p] ELSE {}]

Atomic == INSTANCE AtomicPush WITH slots <- Slots

ImplementsAtomic == Atomic!Spec

\* A step that changes neither the place of any push nor what an acknowledged
\* push has appended.
LEMMA AtomicSame ==
    ASSUME PushTypeOK, UNCHANGED pc, \A q \in Pushes : pc[q] = "ok" => appended'[q] = appended[q]
    PROVE  UNCHANGED <<state, sent>>
<1>1. \A q \in Pushes : Running(q)' <=> Running(q)
  BY DEF Running
<1>2. state' = state
  BY <1>1 DEF state
<1>3. sent' = sent
  BY DEF sent
<1> QED
  BY <1>2, <1>3

\* One push changes its place.
LEMMA AtomicMoves ==
    ASSUME PushTypeOK, NEW p \in Pushes,
           NEW l \in {"idle", "loop", "wait", "prepare", "send", "ok", "error"}, Goto(p, l),
           \A q \in Pushes : q # p => appended'[q] = appended[q]
    PROVE  /\ state' = [state EXCEPT ![p] =
                  IF l \in {"loop", "wait", "prepare", "send"} THEN "running"
                  ELSE IF l = "error" THEN "failed" ELSE l]
           /\ sent' = [sent EXCEPT ![p] = IF l = "ok" THEN appended'[p] ELSE {}]
<1>1. pc'[p] = l /\ \A q \in Pushes : q # p => pc'[q] = pc[q]
  BY DEF PushTypeOK, Goto
<1>2. /\ Running(p)' <=> l \in {"loop", "wait", "prepare", "send"}
      /\ \A q \in Pushes : q # p => (Running(q)' <=> Running(q))
  BY <1>1 DEF Running
<1>3. state' = [state EXCEPT ![p] =
                  IF l \in {"loop", "wait", "prepare", "send"} THEN "running"
                  ELSE IF l = "error" THEN "failed" ELSE l]
  BY <1>1, <1>2 DEF state
<1>4. sent' = [sent EXCEPT ![p] = IF l = "ok" THEN appended'[p] ELSE {}]
  BY <1>1 DEF sent
<1> QED
  BY <1>3, <1>4

\* The slots of a push are those of its producers.
LEMMA SlotsOf ==
    ASSUME PushTypeOK, NEW p \in Pushes, NEW r \in Batch
    PROVE  <<p, r>> \in Slots <=> r \in producing[p]
BY DEF Slots

\* Every step of a push is a step of AtomicPush or changes nothing it shows.
LEMMA AtomicStep ==
    ASSUME LogsPushInv, NEW p \in Pushes,
           Begin(p) \/ Cancel(p) \/ Step(p) \/ ProducerFails(p) \/ AppendFails(p)
    PROVE  [Atomic!Next]_(Atomic!vars)
<1> USE DEF LogsPushInv
<1>0. PushTypeOK /\ PushInv(p)
  OBVIOUS
<1>s. state[p] = IF Running(p) THEN "running" ELSE IF pc[p] = "error" THEN "failed" ELSE pc[p]
  BY DEF state
<1>u. UNCHANGED producing => UNCHANGED Slots
  BY DEF Slots
<1>e. ASSUME pc[p] \in {"wait", "prepare", "send"}, producing[p] = {}
      PROVE  Atomic!Ends(p)
  BY <1>0, <1>e, <1>s, SlotsOf DEF Atomic!Ends, Running
<1>1. CASE Begin(p)
  <2>1. Goto(p, "loop") /\ \A q \in Pushes : q # p => appended'[q] = appended[q]
    BY <1>0, <1>1 DEF Begin, PushTypeOK
  <2>2. state' = [state EXCEPT ![p] = "running"] /\ sent' = [sent EXCEPT ![p] = {}]
    BY <1>0, <2>1, AtomicMoves
  <2>3. pc[p] \in {"idle", "error"}
    BY <1>1 DEF Begin
  <2>4. sent' = sent
    BY <2>2, <2>3 DEF sent
  <2>5. state[p] \in {"idle", "failed"}
    BY <1>s, <2>3 DEF Running
  <2>6. UNCHANGED Slots
    BY <1>1, <1>u DEF Begin
  <2>7. Atomic!Call(p)
    BY <2>2, <2>4, <2>5, <2>6 DEF Atomic!Call
  <2> QED
    BY <2>7 DEF Atomic!Next
<1>2. CASE Acquire(p)
  <2>1. UNCHANGED <<state, sent>>
    BY <1>0, <1>2, AtomicSame DEF Acquire
  <2>2. /\ pc[p] = "loop" /\ next[p] \in Batch /\ Cardinality(Slots) < Limit
        /\ producing' = [producing EXCEPT ![p] = @ \cup {next[p]}]
    BY <1>0, <1>2, LogsPushAssumption DEF Acquire, SlotFree, SlotsInUse, PushTypeOK, Batch
  <2>3. Slots' = Slots \cup {<<p, next[p]>>}
    BY <1>0, <2>2 DEF Slots, PushTypeOK
  <2>4. state[p] = "running"
    BY <1>s, <2>2 DEF Running
  <2>5. Atomic!Cardinality(Slots) = Cardinality(Slots)
    BY DEF Atomic!Cardinality, Cardinality
  <2>6. Atomic!Take(p, next[p])
    BY <2>1, <2>2, <2>3, <2>4, <2>5 DEF Atomic!Take
  <2> QED
    BY <2>2, <2>6 DEF Atomic!Next
<1>3. CASE Produce(p) \/ ProducerFails(p)
  <2>1. UNCHANGED <<state, sent>>
    BY <1>0, <1>3, AtomicSame DEF Produce, ProducerFails
  <2>2. PICK r \in producing[p] : producing' = [producing EXCEPT ![p] = @ \ {r}]
    BY <1>3 DEF Produce, ProducerFails
  <2>3. r \in Batch /\ <<p, r>> \in Slots
    BY <1>0, <2>2, SlotsOf DEF PushTypeOK
  <2>4. Slots' = Slots \ {<<p, r>>}
    BY <1>0, <2>2 DEF Slots, PushTypeOK
  <2>5. Atomic!Give(p, r)
    BY <2>1, <2>3, <2>4 DEF Atomic!Give
  <2> QED
    BY <2>3, <2>5 DEF Atomic!Next
<1>4. CASE Cancel(p) \/ CloseRecordStream(p) \/ Receive(p) \/ Append(p) \/ ConsumerEnds(p)
           \/ AppendFails(p)
  <2>1. UNCHANGED <<pc, producing>>
    BY <1>4 DEF Cancel, CloseRecordStream, Receive, Append, ConsumerEnds, AppendFails
  <2>2. \A q \in Pushes : pc[q] = "ok" => appended'[q] = appended[q]
    <3>1. CASE Append(p)
      <4>1. consumer[p] # "ended" /\ \A q \in Pushes : q # p => appended'[q] = appended[q]
        BY <1>0, <3>1 DEF Append, PushTypeOK
      <4>2. pc[p] # "ok"
        BY <1>0, <4>1 DEF PushInv, ConsumerInv
      <4> QED
        BY <4>1, <4>2
    <3>2. CASE ~Append(p)
      BY <1>4, <3>2 DEF Cancel, CloseRecordStream, Receive, ConsumerEnds, AppendFails
    <3> QED
      BY <3>1, <3>2
  <2>3. UNCHANGED <<state, sent>>
    BY <1>0, <2>1, <2>2, AtomicSame
  <2> QED
    BY <1>u, <2>1, <2>3 DEF Atomic!vars
<1>5. CASE LoopEnds(p) \/ GroupWait(p) \/ PrepareResources(p) \/ SendStatements(p)
  <2>1. UNCHANGED <<producing, appended>>
    BY <1>5 DEF LoopEnds, GroupWait, PrepareResources, SendStatements
  <2>2. PICK l \in {"wait", "prepare", "send", "ok", "error"} :
           /\ Goto(p, l)
           /\ l = "ok" => pc[p] = "send"
           /\ l \in {"ok", "error"} => pc[p] \in {"wait", "prepare", "send"} /\ producing[p] = {}
    <3>1. pc[p] \in {"prepare", "send"} => producing[p] = {}
      BY <1>0 DEF PushInv, ProducersInv
    <3> QED
      BY <1>5, <3>1 DEF LoopEnds, GroupWait, PrepareResources, SendStatements
  <2>3. pc[p] \in {"loop", "wait", "prepare", "send"}
    BY <1>5 DEF LoopEnds, GroupWait, PrepareResources, SendStatements
  <2>4. /\ state' = [state EXCEPT ![p] =
               IF l \in {"loop", "wait", "prepare", "send"} THEN "running"
               ELSE IF l = "error" THEN "failed" ELSE l]
        /\ sent' = [sent EXCEPT ![p] = IF l = "ok" THEN appended'[p] ELSE {}]
    BY <1>0, <2>1, <2>2, AtomicMoves
  <2>5. state[p] = "running" /\ sent[p] = {} /\ UNCHANGED Slots
    BY <1>s, <1>u, <2>1, <2>3 DEF Running, sent
  <2>6. CASE l = "ok"
    <3>1. appended'[p] = Batch
      BY <1>0, <2>1, <2>2, <2>6 DEF PushInv, PhaseInv
    <3>2. Atomic!Succeed(p)
      BY <1>e, <2>2, <2>4, <2>5, <2>6, <3>1 DEF Atomic!Succeed
    <3> QED
      BY <3>2 DEF Atomic!Next
  <2>7. CASE l = "error"
    <3>1. sent' = sent
      BY <2>4, <2>5, <2>7 DEF sent
    <3>2. Atomic!Fail(p)
      BY <1>e, <2>2, <2>4, <2>5, <2>7, <3>1 DEF Atomic!Fail
    <3> QED
      BY <3>2 DEF Atomic!Next
  <2>8. CASE l \in {"wait", "prepare", "send"}
    <3>1. sent' = sent /\ state' = state
      BY <2>4, <2>5, <2>8 DEF sent, state
    <3> QED
      BY <2>5, <3>1 DEF Atomic!vars
  <2> QED
    BY <2>6, <2>7, <2>8
<1> QED
  BY <1>1, <1>2, <1>3, <1>4, <1>5 DEF Step

\* pushToClickhouse, with its producers, consumer, errgroup and shared limiter,
\* does what AtomicPush says: whole batches or errors, no call after a success,
\* and no slot kept by a push that has ended.
THEOREM PushIsAtomic == Spec => ImplementsAtomic
<1>1. Init => Atomic!Init
  <2> SUFFICES ASSUME Init PROVE Atomic!Init
    OBVIOUS
  <2>1. state = [p \in Pushes |-> "idle"] /\ sent = [p \in Pushes |-> {}]
    BY DEF Init, state, sent, Running
  <2>2. Slots = {}
    BY DEF Init, Slots
  <2> QED
    BY <2>1, <2>2 DEF Atomic!Init
<1>2. LogsPushInv /\ [Next]_vars => [Atomic!Next]_(Atomic!vars)
  <2>1. ASSUME UNCHANGED vars
        PROVE  UNCHANGED Atomic!vars
    BY <2>1 DEF vars, Atomic!vars, state, sent, Slots, Running
  <2> QED
    BY <2>1, AtomicStep DEF Next
<1> QED
  BY <1>1, <1>2, LogsPushInvariant, PTL DEF Spec, ImplementsAtomic, Atomic!Spec
=============================================================================
