------------------------ MODULE KafkaReceiverProofs ------------------------
(***************************************************************************)
(* Proofs about KafkaReceiver, for any partitions, messages, refusals,      *)
(* errors, rebalances, crashes and shutdowns.                               *)
(***************************************************************************)
EXTENDS KafkaReceiver, TLAPS

Marks == Nat \cup {None}

ReceiverTypeOK ==
    /\ config \in Config
    /\ produced \in [Partitions -> Nat]
    /\ committed \in [Partitions -> Marks]
    /\ delivered \in [Partitions -> SUBSET Int]
    /\ failed \in [Partitions -> SUBSET Int]
    /\ session \in {"none", "open", "done"}
    /\ marked \in [Partitions -> Marks]
    /\ next \in [Partitions -> Nat]
    /\ pc \in [Partitions -> Steps]

\* Handlers live in a session only.
SessionInv == session = "none" => \A p \in Partitions : pc[p] = "off"

\* The message was consumed or, if errors are marked, given up.
Accounted(p, o) == o \in delivered[p] \/ (config.onError /\ o \in failed[p])

\* Where a handler has left its mark, if it marks after consuming: at the message
\* it takes next, at the one it has in its hands, or nowhere yet.  A session
\* that begins without a committed offset at the earliest message has no mark
\* only until the first message is consumed.
MarkInv(p) ==
    /\ pc[p] = "idle" => \/ marked[p] = next[p]
                         \/ marked[p] = None /\ (config.initial = "earliest" => next[p] = 0)
    /\ pc[p] \in {"consume", "refused", "retry", "done"} =>
          /\ next[p] > 0
          /\ \/ marked[p] = next[p] - 1
             \/ marked[p] = None /\ (config.initial = "earliest" => next[p] = 1)
    /\ pc[p] = "done" => next[p] - 1 \in delivered[p]

\* Nothing before x is skipped in a partition that is read from its beginning,
\* and nothing between the offset c and x in any other.
FromBeginning(p, x) == config.initial = "earliest" => \A o \in 0 .. x - 1 : Accounted(p, o)
FromOffset(p, c, x) == c # None => c <= x /\ \A o \in c .. x - 1 : Accounted(p, o)

AccountInv(p) ==
    /\ FromBeginning(p, committed[p])
    /\ session # "none" =>
          /\ FromBeginning(p, marked[p])
          /\ FromOffset(p, committed[p], marked[p])

ReceiverInv ==
    /\ ReceiverTypeOK
    /\ SessionInv
    /\ config.after => \A p \in Partitions : MarkInv(p) /\ AccountInv(p)

-----------------------------------------------------------------------------

\* The steps of the handler of partition p, and those that are not a handler's
\* and leave marks, commits and handlers alone.
Handler(p) ==
    \/ Take(p) \/ TakeBad(p) \/ PauseAll(p) \/ SessionDone(p) \/ ConsumeOk(p)
    \/ MarkConsumed(p) \/ ReturnNil(p) \/ ConsumeError(p) \/ HighMemoryUsage(p)

Quiet ==
    \/ Start \/ Rebalance \/ Shutdown \/ ShutdownReturns
    \/ \E p \in Partitions : Produce(p) \/ Fetch(p)
    \/ UNCHANGED vars

\* Next, by what its steps can disturb.
LEMMA NextCases ==
    [Next]_vars => \/ Quiet \/ Consume \/ ConsumeReturns \/ AutoCommit \/ Crash
                   \/ \E p \in Partitions : Handler(p)
BY DEF Next, Quiet, Handler, ConsumeClaim

\* What decides about marks is of its type.
LEMMA ConfigType ==
    ASSUME config \in Config
    PROVE  /\ config.after \in BOOLEAN /\ config.onError \in BOOLEAN
           /\ config.autocommit \in BOOLEAN /\ config.initial \in {"earliest", "latest"}
           /\ config.onError => config.after
BY DEF Config

\* Types are kept by every step.
LEMMA HandlerTypes ==
    ASSUME ReceiverTypeOK, NEW p \in Partitions, Handler(p)
    PROVE  ReceiverTypeOK'
<1> USE DEF ReceiverTypeOK, Steps, Marks, None, broker, reader, MarkIf, CommitIf, Mark
<1>1. CASE Take(p)
  BY <1>1 DEF Take
<1>2. CASE TakeBad(p)
  <2>1. marked' \in [Partitions -> Marks] /\ failed' \in [Partitions -> SUBSET Int]
    BY <1>2 DEF TakeBad
  <2>2. committed' \in [Partitions -> Marks]
    BY <1>2, <2>1 DEF TakeBad
  <2> QED
    BY <1>2, <2>1, <2>2 DEF TakeBad
<1>3. CASE PauseAll(p) \/ HighMemoryUsage(p)
  BY <1>3 DEF PauseAll, HighMemoryUsage
<1>4. CASE ConsumeOk(p)
  BY <1>4 DEF ConsumeOk, Current
<1>5. CASE ConsumeError(p) \/ SessionDone(p)
  <2>0. ReturnError(p, Current(p)) /\ Current(p) \in Int /\ Current(p) + 1 = next[p]
    BY <1>5 DEF ConsumeError, SessionDone, Current
  <2>1. marked' \in [Partitions -> Marks] /\ failed' \in [Partitions -> SUBSET Int]
    BY <2>0 DEF ReturnError
  <2>2. committed' \in [Partitions -> Marks]
    BY <2>0, <2>1 DEF ReturnError
  <2> QED
    BY <1>5, <2>0, <2>1, <2>2 DEF ConsumeError, SessionDone, ReturnError
<1>6. CASE MarkConsumed(p)
  <2>0. Current(p) + 1 = next[p]
    BY DEF Current
  <2>1. marked' \in [Partitions -> Marks]
    BY <1>6, <2>0 DEF MarkConsumed
  <2> QED
    BY <1>6, <2>1 DEF MarkConsumed
<1>7. CASE ReturnNil(p)
  BY <1>7 DEF ReturnNil
<1> QED
  BY <1>1, <1>2, <1>3, <1>4, <1>5, <1>6, <1>7 DEF Handler

\* Types are kept by every step.
LEMMA TypesKept == ReceiverTypeOK /\ [Next]_vars => ReceiverTypeOK'
<1> SUFFICES ASSUME ReceiverTypeOK, [Next]_vars PROVE ReceiverTypeOK'
  OBVIOUS
<1> USE DEF ReceiverTypeOK, Steps, broker, reader
<1>1. CASE Quiet
  BY <1>1 DEF Quiet, Start, Rebalance, Shutdown, ShutdownReturns, Produce, Fetch, vars
<1>2. CASE Consume
  BY <1>2 DEF Consume, InitialOffset, Marks
<1>3. CASE ConsumeReturns \/ AutoCommit \/ Crash
  BY <1>3 DEF ConsumeReturns, AutoCommit, Crash
<1> QED
  BY <1>1, <1>2, <1>3, NextCases, HandlerTypes

\* Handlers start and end with their session.
LEMMA SessionKept == ReceiverTypeOK /\ SessionInv /\ [Next]_vars => SessionInv'
<1> SUFFICES ASSUME ReceiverTypeOK, SessionInv, [Next]_vars PROVE SessionInv'
  OBVIOUS
<1> USE DEF ReceiverTypeOK, SessionInv, broker, reader
<1>1. CASE Quiet
  BY <1>1 DEF Quiet, Start, Rebalance, Shutdown, ShutdownReturns, Produce, Fetch, vars
<1>2. CASE Consume \/ ConsumeReturns \/ AutoCommit \/ Crash
  BY <1>2 DEF Consume, ConsumeReturns, AutoCommit, Crash
<1>3. ASSUME NEW p \in Partitions, Handler(p)
      PROVE  SessionInv'
  BY <1>3 DEF Handler, Take, TakeBad, PauseAll, SessionDone, ConsumeOk, MarkConsumed, ReturnNil,
     ConsumeError, HighMemoryUsage, ReturnError
<1> QED
  BY <1>1, <1>2, <1>3, NextCases

-----------------------------------------------------------------------------
(* Marks and commits *)

\* A mark stays, or moves past one message that is accounted for.
Advances(p) ==
    \/ marked'[p] = marked[p]
    \/ /\ marked'[p] \in Nat \ {0}
       /\ Accounted(p, marked[p] - 1)'
       /\ \/ marked[p] = marked'[p] - 1
          \/ marked[p] = None /\ (config.initial = "earliest" => marked'[p] = 1)

\* MarkMessage moves the mark to the message after o.
LEMMA MarkMoves ==
    ASSUME ReceiverTypeOK, NEW p \in Partitions, NEW o \in Int, NEW cond \in BOOLEAN,
           MarkIf(cond, p, o), marked[p] <= o + 1
    PROVE  marked'[p] = IF cond THEN o + 1 ELSE marked[p]
BY DEF ReceiverTypeOK, MarkIf, Mark, Marks, None

\* What a handler does to its own partition: it keeps its place, and moves the
\* mark only as it should.
LEMMA HandlerMarks ==
    ASSUME ReceiverTypeOK, config.after, NEW p \in Partitions, Handler(p), MarkInv(p)
    PROVE  MarkInv(p)' /\ Advances(p)
<1> USE ConfigType DEF ReceiverTypeOK, Marks, None, broker, reader, MarkIf, CommitIf, Mark, MarkInv,
        Advances, Accounted, Steps
<1>1. CASE Take(p)
  BY <1>1 DEF Take
<1>2. CASE TakeBad(p)
  <2>0. /\ next[p] \in Nat /\ marked[p] <= next[p] + 1
        /\ MarkIf(config.onError, p, next[p]) /\ config.onError \in BOOLEAN
    BY <1>2, ConfigType DEF TakeBad
  <2>1. marked'[p] = IF config.onError THEN next[p] + 1 ELSE marked[p]
    BY <2>0, MarkMoves DEF TakeBad
  <2>2. pc'[p] = "returned" /\ next[p] \in failed'[p] /\ config' = config
    BY <1>2 DEF TakeBad
  <2>3. Advances(p)
    BY <1>2, <2>0, <2>1, <2>2 DEF TakeBad
  <2> QED
    BY <2>2, <2>3
<1>3. CASE PauseAll(p) \/ HighMemoryUsage(p)
  BY <1>3 DEF PauseAll, HighMemoryUsage
<1>4. CASE ConsumeOk(p)
  BY <1>4 DEF ConsumeOk, Current
<1>5. CASE ConsumeError(p) \/ SessionDone(p)
  <2>0. /\ ReturnError(p, Current(p)) /\ UNCHANGED <<config, delivered, next>>
        /\ Current(p) = next[p] - 1 /\ pc[p] \in {"consume", "retry"}
    BY <1>5 DEF ConsumeError, SessionDone, Current
  <2>1. pc'[p] = "returned"
    BY <2>0 DEF ReturnError
  <2>3. /\ next[p] - 1 \in Int /\ marked[p] <= (next[p] - 1) + 1
        /\ config.onError \in BOOLEAN /\ MarkIf(config.onError, p, next[p] - 1)
    BY <2>0, ConfigType DEF ReturnError
  <2>4. marked'[p] = IF config.onError THEN (next[p] - 1) + 1 ELSE marked[p]
    BY <2>3, MarkMoves
  <2>5. next[p] - 1 \in failed'[p]
    BY <2>0 DEF ReturnError
  <2>2. Advances(p)
    BY <2>0, <2>3, <2>4, <2>5
  <2> QED
    BY <2>1, <2>2
<1>6. CASE MarkConsumed(p)
  <2>0. /\ next[p] - 1 \in Int /\ marked[p] <= (next[p] - 1) + 1
        /\ MarkIf(TRUE, p, next[p] - 1)
    BY <1>6 DEF MarkConsumed, Current
  <2>1. marked'[p] = (next[p] - 1) + 1
    BY <2>0, MarkMoves
  <2>2. /\ pc'[p] = "idle" /\ next'[p] = next[p] /\ next[p] - 1 \in delivered'[p]
        /\ config' = config
    BY <1>6 DEF MarkConsumed
  <2>3. Advances(p)
    BY <1>6, <2>0, <2>1, <2>2 DEF MarkConsumed
  <2>4. marked'[p] = next'[p]
    BY <2>1, <2>2
  <2>5. MarkInv(p)'
    BY <2>2, <2>4
  <2> QED
    BY <2>3, <2>5
<1>7. CASE ReturnNil(p)
  BY <1>7 DEF ReturnNil
<1> QED
  BY <1>1, <1>2, <1>3, <1>4, <1>5, <1>6, <1>7 DEF Handler

\* What it does to the others: its commit is theirs too, nothing else.
LEMMA HandlerOthers ==
    ASSUME ReceiverTypeOK, NEW p \in Partitions, Handler(p)
    PROVE  /\ \A q \in Partitions \ {p} :
                 /\ pc'[q] = pc[q] /\ marked'[q] = marked[q] /\ next'[q] = next[q]
                 /\ delivered'[q] = delivered[q] /\ failed'[q] = failed[q]
           /\ delivered[p] \subseteq delivered'[p] /\ failed[p] \subseteq failed'[p]
           /\ committed' \in {committed, marked'}
           /\ config' = config
BY DEF ReceiverTypeOK, broker, reader, MarkIf, CommitIf, Mark, Handler, Take, TakeBad, PauseAll,
   SessionDone, ConsumeOk, MarkConsumed, ReturnNil, ConsumeError, HighMemoryUsage, ReturnError

\* Moving a mark skips nothing, neither from the beginning nor from the offset
\* that is committed.
LEMMA AdvancesSkipsNothing ==
    ASSUME ReceiverTypeOK, ReceiverTypeOK', NEW p \in Partitions, config' = config,
           FromBeginning(p, marked[p]), FromOffset(p, committed[p], marked[p]), Advances(p),
           delivered[p] \subseteq delivered'[p], failed[p] \subseteq failed'[p]
    PROVE  /\ FromBeginning(p, marked[p])'
           /\ committed[p] # None =>
                 /\ committed[p] <= marked'[p]
                 /\ \A o \in committed[p] .. marked'[p] - 1 : Accounted(p, o)'
<1> USE DEF ReceiverTypeOK, Marks, None
<1>1. \A o \in Int : Accounted(p, o) => Accounted(p, o)'
  BY DEF Accounted
<1>2. CASE marked'[p] = marked[p]
  BY <1>1, <1>2 DEF FromBeginning, FromOffset
<1>3. CASE marked'[p] # marked[p]
  <2>0. PICK x : x = marked'[p]
    OBVIOUS
  <2>1. x \in Nat \ {0} /\ Accounted(p, x - 1)'
    BY <1>3, <2>0 DEF Advances, Accounted
  <2>2. \/ marked[p] = x - 1
        \/ marked[p] = None /\ committed[p] = None /\ (config.initial = "earliest" => x = 1)
    BY <1>3, <2>0 DEF Advances, FromOffset
  <2>3. FromBeginning(p, marked[p])'
    <3> SUFFICES ASSUME config.initial = "earliest", NEW o \in 0 .. x - 1
                 PROVE  Accounted(p, o)'
      BY <2>0 DEF FromBeginning
    <3>1. o = x - 1 \/ o \in 0 .. marked[p] - 1
      BY <2>1, <2>2
    <3> QED
      BY <1>1, <2>1, <3>1 DEF FromBeginning
  <2>4. ASSUME committed[p] # None
        PROVE  committed[p] <= x /\ \A o \in committed[p] .. x - 1 : Accounted(p, o)'
    <3>1. marked[p] = x - 1 /\ committed[p] <= marked[p] /\ committed[p] \in Nat
      BY <2>2, <2>4 DEF FromOffset
    <3>2. \A o \in committed[p] .. x - 1 : o = x - 1 \/ o \in committed[p] .. marked[p] - 1
      BY <2>1, <3>1
    <3>3. \A o \in committed[p] .. marked[p] - 1 : Accounted(p, o)
      BY <2>4 DEF FromOffset
    <3> QED
      BY <1>1, <2>1, <3>1, <3>2, <3>3
  <2> QED
    BY <2>0, <2>3, <2>4
<1> QED
  BY <1>2, <1>3

\* What a step commits was accounted for.
CommitSafe(p) ==
    committed[p] # None => \A o \in committed[p] .. committed'[p] - 1 : Accounted(p, o)'

\* A handler's step keeps the account of every partition.
LEMMA HandlerAccount ==
    ASSUME ReceiverInv, ReceiverTypeOK', config.after, session # "none",
           NEW p \in Partitions, Handler(p), NEW q \in Partitions
    PROVE  MarkInv(q)' /\ AccountInv(q)' /\ CommitSafe(q)
<1>1. MarkInv(q) /\ AccountInv(q)
  BY DEF ReceiverInv
<1>2. config' = config /\ committed' \in {committed, marked'}
  BY HandlerOthers DEF ReceiverInv
<1>3. delivered[q] \subseteq delivered'[q] /\ failed[q] \subseteq failed'[q]
  BY HandlerOthers DEF ReceiverInv
<1>4. MarkInv(q)' /\ Advances(q)
  <2>1. CASE q = p
    BY <1>1, <2>1, HandlerMarks DEF ReceiverInv
  <2>2. CASE q # p
    BY <1>1, <1>2, <2>2, HandlerOthers DEF ReceiverInv, MarkInv, Advances
  <2> QED
    BY <2>1, <2>2
<1>5. /\ FromBeginning(q, marked[q])'
      /\ committed[q] # None =>
            /\ committed[q] <= marked'[q]
            /\ \A o \in committed[q] .. marked'[q] - 1 : Accounted(q, o)'
  BY <1>1, <1>2, <1>3, <1>4, AdvancesSkipsNothing DEF ReceiverInv, AccountInv
<1>6. CASE committed' = marked'
  <2>1. FromOffset(q, committed[q], marked[q])'
    BY <1>6 DEF FromOffset, ReceiverTypeOK, Marks, None
  <2> QED
    BY <1>4, <1>5, <1>6, <2>1 DEF AccountInv, CommitSafe, FromBeginning
<1>7. CASE committed' = committed
  <2>1. FromBeginning(q, committed[q])'
    BY <1>1, <1>2, <1>3, <1>7 DEF AccountInv, FromBeginning, Accounted
  <2>2. FromOffset(q, committed[q], marked[q])'
    BY <1>5, <1>7 DEF FromOffset
  <2>3. CommitSafe(q)
    BY <1>7 DEF CommitSafe, ReceiverInv, ReceiverTypeOK, Marks, None
  <2> QED
    BY <1>4, <1>5, <2>1, <2>2, <2>3 DEF AccountInv
<1> QED
  BY <1>2, <1>6, <1>7

\* So does every other step.
LEMMA StepAccount ==
    ASSUME ReceiverInv, ReceiverTypeOK', [Next]_vars, config.after, NEW q \in Partitions
    PROVE  MarkInv(q)' /\ AccountInv(q)' /\ CommitSafe(q) /\ config' = config
<1> USE DEF ReceiverInv
<1>0. MarkInv(q) /\ AccountInv(q)
  OBVIOUS
<1>1. CASE Quiet
  <2>1. /\ UNCHANGED <<config, committed, marked, next, pc, delivered, failed>>
        /\ session' # "none" => session # "none"
    BY <1>1 DEF Quiet, Start, Rebalance, Shutdown, ShutdownReturns, Produce, Fetch, vars, broker,
       reader
  <2>2. MarkInv(q)'
    BY <1>0, <2>1 DEF MarkInv
  <2>3. AccountInv(q)'
    BY <1>0, <2>1 DEF AccountInv, FromBeginning, FromOffset, Accounted
  <2>4. CommitSafe(q)
    BY <2>1 DEF CommitSafe, ReceiverTypeOK, Marks, None
  <2> QED
    BY <2>1, <2>2, <2>3, <2>4
<1>2. CASE Consume
  <2>1. /\ UNCHANGED <<config, committed, delivered, failed>> /\ marked' = committed
        /\ pc'[q] = "idle"
        /\ next'[q] = IF committed[q] # None THEN committed[q] ELSE InitialOffset(q)
    BY <1>2 DEF Consume, broker
  <2>2. MarkInv(q)'
    BY <2>1 DEF MarkInv, InitialOffset
  <2>3. FromBeginning(q, committed[q])'
    BY <1>0, <2>1 DEF AccountInv, FromBeginning, Accounted
  <2>4. FromOffset(q, committed[q], marked[q])' /\ CommitSafe(q)
    BY <2>1 DEF FromOffset, CommitSafe, ReceiverTypeOK, Marks, None
  <2> QED
    BY <2>1, <2>2, <2>3, <2>4 DEF AccountInv, FromBeginning
<1>3. CASE ConsumeReturns \/ AutoCommit
  <2>1. /\ UNCHANGED <<config, delivered, failed, marked, next>> /\ session # "none"
        /\ committed' \in {committed, marked}
        /\ pc'[q] \in {pc[q], "off"}
    BY <1>3 DEF ConsumeReturns, AutoCommit, broker, reader
  <2>2. MarkInv(q)'
    BY <1>0, <2>1 DEF MarkInv
  <2>3. FromBeginning(q, committed[q])' /\ FromBeginning(q, marked[q])'
    BY <1>0, <2>1 DEF AccountInv, FromBeginning, Accounted
  <2>4. FromOffset(q, committed[q], marked[q])'
    BY <1>0, <2>1 DEF AccountInv, FromOffset, Accounted, ReceiverTypeOK, Marks, None
  <2>5. CommitSafe(q)
    BY <1>0, <2>1 DEF AccountInv, FromOffset, CommitSafe, Accounted, ReceiverTypeOK, Marks, None
  <2> QED
    BY <2>1, <2>2, <2>3, <2>4, <2>5 DEF AccountInv
<1>4. CASE Crash
  <2>1. /\ UNCHANGED <<config, committed, delivered, failed>>
        /\ session' = "none" /\ pc'[q] = "off"
    BY <1>4 DEF Crash, broker, reader
  <2>2. MarkInv(q)'
    BY <2>1 DEF MarkInv
  <2>3. AccountInv(q)'
    BY <1>0, <2>1 DEF AccountInv, FromBeginning, Accounted
  <2>4. CommitSafe(q)
    BY <2>1 DEF CommitSafe, ReceiverTypeOK, Marks, None
  <2> QED
    BY <2>1, <2>2, <2>3, <2>4
<1>5. ASSUME NEW p \in Partitions, Handler(p)
      PROVE  MarkInv(q)' /\ AccountInv(q)' /\ CommitSafe(q) /\ config' = config
  <2>1. pc[p] # "off"
    BY <1>5 DEF Handler, Take, TakeBad, PauseAll, SessionDone, ConsumeOk, MarkConsumed, ReturnNil,
       ConsumeError, HighMemoryUsage
  <2>2. session # "none"
    BY <2>1 DEF SessionInv
  <2> QED
    BY <1>5, <2>2, HandlerAccount, HandlerOthers
<1> QED
  BY <1>1, <1>2, <1>3, <1>4, <1>5, NextCases

\* The settings of a receiver do not change.
LEMMA ConfigConstant == [Next]_vars => config' = config
BY DEF Next, vars, broker, Start, Consume, Rebalance, ConsumeReturns, AutoCommit, Shutdown,
   ShutdownReturns, Crash, Produce, ConsumeClaim, Fetch, Take, TakeBad, PauseAll, SessionDone,
   ConsumeOk, MarkConsumed, ReturnNil, ConsumeError, HighMemoryUsage

\* The invariant holds initially.
LEMMA ReceiverInit == Init => ReceiverInv
<1> SUFFICES ASSUME Init PROVE ReceiverInv
  OBVIOUS
<1>1. ReceiverTypeOK /\ SessionInv
  BY DEF Init, ReceiverTypeOK, SessionInv, Marks, None, Steps
<1>2. ASSUME NEW p \in Partitions
      PROVE  MarkInv(p) /\ AccountInv(p)
  BY DEF Init, MarkInv, AccountInv, FromBeginning, None
<1> QED
  BY <1>1, <1>2 DEF ReceiverInv

\* Every step keeps the invariant.
LEMMA ReceiverNext == ReceiverInv /\ [Next]_vars => ReceiverInv'
<1> SUFFICES ASSUME ReceiverInv, [Next]_vars PROVE ReceiverInv'
  OBVIOUS
<1>1. ReceiverTypeOK' /\ SessionInv'
  BY TypesKept, SessionKept DEF ReceiverInv
<1>2. config' = config
  BY ConfigConstant
<1>3. config.after => \A p \in Partitions : MarkInv(p)' /\ AccountInv(p)'
  BY <1>1, StepAccount
<1> QED
  BY <1>1, <1>2, <1>3 DEF ReceiverInv

\* The handlers, their session, marks and commits stay as ReceiverInv says.
THEOREM ReceiverInvariant == Spec => []ReceiverInv
BY ReceiverInit, ReceiverNext, PTL DEF Spec

\* With marking after consuming, no offset is ever committed past a message that
\* was neither consumed nor, where errors are marked, given up.
THEOREM NothingSkippedTheorem == Spec => []NothingSkipped
<1>1. ReceiverInv => NothingSkipped
  BY DEF ReceiverInv, AccountInv, FromBeginning, NothingSkipped, Accounted
<1> QED
  BY <1>1, ReceiverInvariant, PTL

\* Whatever the initial offset: between one commit of a partition and the next,
\* every message was consumed.
THEOREM SkipsOnlyBeforeFirstCommitTheorem == Spec => SkipsOnlyBeforeFirstCommit
<1>1. ASSUME ReceiverInv, [Next]_vars, config.after, ~config.onError,
             NEW p \in Partitions, committed[p] # None,
             NEW o \in committed[p] .. committed'[p] - 1
      PROVE  o \in delivered'[p]
  <2>1. CommitSafe(p) /\ config' = config
    BY <1>1, StepAccount, ReceiverNext DEF ReceiverInv
  <2> QED
    BY <1>1, <2>1 DEF CommitSafe, Accounted
<1>2. ReceiverInv /\ [Next]_vars =>
         [config.after /\ ~config.onError =>
            \A p \in Partitions :
                committed[p] # None =>
                    \A o \in committed[p] .. committed'[p] - 1 : o \in delivered'[p]]_vars
  BY <1>1
<1> QED
  BY <1>2, ReceiverInvariant, PTL DEF Spec, SkipsOnlyBeforeFirstCommit

-----------------------------------------------------------------------------
(* Commits of any configuration *)

\* Where the offsets of a partition are relative to each other.
OffsetsInv(p) ==
    /\ committed[p] <= produced[p]
    /\ session # "none" =>
          /\ committed[p] <= marked[p] /\ marked[p] <= next[p]
          /\ next[p] <= fetched[p] /\ fetched[p] <= produced[p]

CommitInv ==
    /\ ReceiverTypeOK /\ SessionInv
    /\ fetched \in [Partitions -> Nat]
    /\ \A p \in Partitions : OffsetsInv(p)

\* Whatever the settings: a commit never goes back, so that a partition is not
\* read again from before an offset the broker has, and never names a message
\* that does not exist yet; although handlers, the automatic commit and the end
\* of a session all commit the marks of all partitions.
CommitsAdvance ==
    [][\A p \in Partitions :
          committed[p] <= committed'[p] /\ committed'[p] <= produced'[p]]_vars

\* A handler moves its own mark forward, at most up to the message it takes
\* next, and commits all marks or none.
LEMMA HandlerOffsets ==
    ASSUME CommitInv, NEW p \in Partitions, Handler(p), session # "none"
    PROVE  /\ produced' = produced /\ committed' \in {committed, marked'}
           /\ session' # "none"
           /\ fetched' = fetched
           /\ next[p] <= next'[p] /\ next'[p] <= fetched[p]
           /\ marked[p] <= marked'[p] /\ marked'[p] <= next'[p]
           /\ \A q \in Partitions \ {p} : marked'[q] = marked[q] /\ next'[q] = next[q]
<1> USE DEF CommitInv, ReceiverTypeOK, OffsetsInv, Marks, None, broker, reader, MarkIf, CommitIf,
        Mark, Current
<1>1. CASE Take(p)
  BY <1>1 DEF Take
<1>2. CASE TakeBad(p)
  BY <1>2 DEF TakeBad
<1>3. CASE PauseAll(p) \/ ConsumeOk(p) \/ HighMemoryUsage(p)
  BY <1>3 DEF PauseAll, ConsumeOk, HighMemoryUsage
<1>4. CASE SessionDone(p)
  BY <1>4 DEF SessionDone, ReturnError
<1>5. CASE ConsumeError(p)
  BY <1>5 DEF ConsumeError, ReturnError
<1>6. CASE MarkConsumed(p)
  BY <1>6 DEF MarkConsumed
<1>7. CASE ReturnNil(p)
  BY <1>7 DEF ReturnNil
<1> QED
  BY <1>1, <1>2, <1>3, <1>4, <1>5, <1>6, <1>7 DEF Handler

\* Every step keeps the offsets in their order and lets commits advance only.
LEMMA CommitNext ==
    ASSUME CommitInv, [Next]_vars
    PROVE  /\ CommitInv'
           /\ \A p \in Partitions : committed[p] <= committed'[p] /\ committed'[p] <= produced'[p]
<1>1. ReceiverTypeOK' /\ SessionInv'
  BY TypesKept, SessionKept DEF CommitInv
<1>2. CASE Quiet
  <2> USE DEF CommitInv, ReceiverTypeOK, Marks, None, broker, reader
  <2>1. CASE Start \/ Rebalance \/ Shutdown \/ ShutdownReturns \/ UNCHANGED vars
    <3>1. UNCHANGED <<committed, marked, next, fetched, produced>>
          /\ (session' # "none" => session # "none")
      BY <2>1 DEF Start, Rebalance, Shutdown, ShutdownReturns, vars
    <3> QED
      BY <1>1, <3>1 DEF OffsetsInv
  <2>2. ASSUME NEW p \in Partitions, Produce(p) PROVE CommitInv' /\ UNCHANGED committed
    BY <1>1, <2>2 DEF Produce, OffsetsInv
  <2>3. ASSUME NEW p \in Partitions, Fetch(p) PROVE CommitInv' /\ UNCHANGED committed
    BY <1>1, <2>3 DEF Fetch, OffsetsInv
  <2> QED
    BY <1>2, <2>1, <2>2, <2>3 DEF Quiet, OffsetsInv
<1>3. CASE Consume
  BY <1>1, <1>3 DEF Consume, CommitInv, ReceiverTypeOK, OffsetsInv, Marks, None, broker,
     InitialOffset
<1>4. CASE ConsumeReturns \/ AutoCommit \/ Crash
  BY <1>1, <1>4 DEF ConsumeReturns, AutoCommit, Crash, CommitInv, ReceiverTypeOK, OffsetsInv,
     Marks, None, broker, reader
<1>5. ASSUME NEW p \in Partitions, Handler(p)
      PROVE  /\ CommitInv'
             /\ \A q \in Partitions :
                   committed[q] <= committed'[q] /\ committed'[q] <= produced'[q]
  <2>1. session # "none"
    BY <1>5 DEF CommitInv, SessionInv, Handler, Take, TakeBad, PauseAll, SessionDone, ConsumeOk,
       MarkConsumed, ReturnNil, ConsumeError, HighMemoryUsage
  <2>2. /\ produced' = produced /\ committed' \in {committed, marked'} /\ session' # "none"
        /\ fetched' = fetched
        /\ next[p] <= next'[p] /\ next'[p] <= fetched[p]
        /\ marked[p] <= marked'[p] /\ marked'[p] <= next'[p]
        /\ \A q \in Partitions \ {p} : marked'[q] = marked[q] /\ next'[q] = next[q]
    BY <1>5, <2>1, HandlerOffsets
  <2>3. ASSUME NEW q \in Partitions
        PROVE  /\ OffsetsInv(q)' /\ committed[q] <= committed'[q]
               /\ committed'[q] <= produced'[q]
    <3>1. /\ committed[q] <= produced[q] /\ committed[q] <= marked[q] /\ marked[q] <= next[q]
          /\ next[q] <= fetched[q] /\ fetched[q] <= produced[q]
      BY <2>1 DEF CommitInv, OffsetsInv
    <3>2. marked[q] <= marked'[q] /\ marked'[q] <= next'[q] /\ next'[q] <= fetched[q]
      BY <2>2, <3>1 DEF CommitInv, ReceiverTypeOK, Marks, None
    <3>3. /\ committed[q] \in Int /\ committed'[q] \in Int /\ marked[q] \in Int
          /\ marked'[q] \in Int /\ next'[q] \in Int /\ fetched[q] \in Int /\ produced[q] \in Int
      BY <1>1 DEF CommitInv, ReceiverTypeOK, Marks, None
    <3>4. committed'[q] = committed[q] \/ committed'[q] = marked'[q]
      BY <2>2
    <3> QED
      BY <2>2, <3>1, <3>2, <3>3, <3>4 DEF OffsetsInv
  <2> QED
    BY <1>1, <2>2, <2>3 DEF CommitInv
<1> QED
  BY <1>2, <1>3, <1>4, <1>5, NextCases

\* In every configuration the commits of a partition advance.
THEOREM CommitsAdvanceTheorem == Spec => CommitsAdvance
<1>1. Init => CommitInv
  BY DEF Init, CommitInv, ReceiverTypeOK, SessionInv, OffsetsInv, Marks, None, Steps
<1>2. CommitInv /\ [Next]_vars => CommitInv'
  BY CommitNext
<1>3. CommitInv /\ [Next]_vars =>
         [\A p \in Partitions :
             committed[p] <= committed'[p] /\ committed'[p] <= produced'[p]]_vars
  BY CommitNext
<1> QED
  BY <1>1, <1>2, <1>3, PTL DEF Spec, CommitsAdvance

=============================================================================
