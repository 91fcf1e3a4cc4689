--------------------------- MODULE KafkaReceiver ---------------------------
(***************************************************************************)
(* signozkafkareceiver: one receiver of the collector and the partitions of *)
(* its topic.  The consume loop runs one session of the consumer group      *)
(* after the other; in a session every partition has a goroutine in         *)
(* ConsumeClaim.  The receivers and handlers of traces, metrics and logs    *)
(* are the same but for the signal.                                         *)
(*                                                                         *)
(* The client library (sarama) and the brokers are external: a session ends *)
(* when the group rebalances or when one ConsumeClaim returns; a new one    *)
(* starts at the committed offsets, with no partition paused; a commit      *)
(* sends the marked offsets of all partitions.                              *)
(***************************************************************************)
EXTENDS Integers, FiniteSets

CONSTANTS
    Partitions,
    Size,           \* bound: partition -> number of its messages
    Bad,            \* <<p, o>>: messages that cannot be unmarshalled
    MaxRefusals,    \* bound: refusals because of high memory usage
    MaxErrors,      \* bound: other errors of the next consumer
    MaxEnds         \* bound: rebalances, shutdowns and crashes

ASSUME KafkaAssumption ==
    /\ Size \in [Partitions -> Nat]
    /\ MaxRefusals \in Nat /\ MaxErrors \in Nat /\ MaxEnds \in Nat
    /\ Bad \subseteq Partitions \X Nat

\* The settings of Config that decide when an offset is marked and committed;
\* onError has no effect without after.
Config ==
    {c \in [autocommit : BOOLEAN, after : BOOLEAN, onError : BOOLEAN,
            initial : {"earliest", "latest"}] : c.onError => c.after}

VARIABLES
    config,     \* the settings of the receiver
    produced,   \* partition -> number of messages in it
    committed,  \* partition -> committed offset, None if there is none
    delivered,  \* partition -> offsets the next consumer has taken
    failed,     \* partition -> offsets ConsumeClaim has given up with an error
    proc,       \* "down", "starting", "up", "stopping"
    session,    \* "none", "open", "done": its context is done
    marked,     \* partition -> marked offset of the session
    paused,     \* the paused partitions
    fetched,    \* partition -> end of the messages in its channel
    next,       \* partition -> the message the handler takes next
    pc,         \* partition -> where the handler is
    left        \* how much of each bound is left

vars == <<config, produced, committed, delivered, failed, proc, session, marked, paused,
          fetched, next, pc, left>>
broker == <<config, produced>>
reader == <<marked, paused, fetched, next>>

None == -1
Offsets(p) == 0 .. Size[p] - 1
Steps == {"off", "idle", "consume", "refused", "retry", "done", "returned"}

Init ==
    /\ config \in Config
    /\ produced = [p \in Partitions |-> 0]
    /\ committed = [p \in Partitions |-> None]
    /\ delivered = [p \in Partitions |-> {}]
    /\ failed = [p \in Partitions |-> {}]
    /\ proc = "down"
    /\ session = "none"
    /\ marked = [p \in Partitions |-> None]
    /\ paused = {}
    /\ fetched = [p \in Partitions |-> 0]
    /\ next = [p \in Partitions |-> 0]
    /\ pc = [p \in Partitions |-> "off"]
    /\ left = [refusals |-> MaxRefusals, errors |-> MaxErrors, ends |-> MaxEnds]

Spend(bound) == left[bound] > 0 /\ left' = [left EXCEPT ![bound] = @ - 1]

\* Someone produces a message.
Produce(p) ==
    /\ produced[p] < Size[p]
    /\ produced' = [produced EXCEPT ![p] = @ + 1]
    /\ UNCHANGED <<config, committed, delivered, failed, proc, session, reader, pc, left>>

-----------------------------------------------------------------------------
(* The receiver: Start, the consume loop and Shutdown *)

\* Start returns once the first session's Setup has closed ready.
Start ==
    /\ proc = "down"
    /\ proc' = "starting"
    /\ UNCHANGED <<broker, committed, delivered, failed, session, reader, pc, left>>

\* toSaramaInitialOffset.
InitialOffset(p) == IF config.initial = "earliest" THEN 0 ELSE produced[p]

\* Consume: the group gives the receiver all partitions; Setup closes ready; a
\* partition is read from its committed offset.
Consume ==
    /\ proc \in {"starting", "up"}
    /\ session = "none"
    /\ session' = "open"
    /\ proc' = "up"
    /\ marked' = committed
    /\ paused' = {}
    /\ next' = [p \in Partitions |->
                   IF committed[p] # None THEN committed[p] ELSE InitialOffset(p)]
    /\ fetched' = next'
    /\ pc' = [p \in Partitions |-> "idle"]
    /\ UNCHANGED <<broker, committed, delivered, failed, left>>

\* The heartbeat finds the group rebalancing and cancels the session's context.
Rebalance ==
    /\ session = "open"
    /\ Spend("ends")
    /\ session' = "done"
    /\ UNCHANGED <<broker, committed, delivered, failed, proc, reader, pc>>

\* Consume returns, after Cleanup, when all handlers have returned.  With
\* autocommit the last offsets are flushed.
ConsumeReturns ==
    /\ session = "done"
    /\ \A p \in Partitions : pc[p] = "returned"
    /\ session' = "none"
    /\ pc' = [p \in Partitions |-> "off"]
    /\ committed' = IF config.autocommit THEN marked ELSE committed
    /\ UNCHANGED <<broker, delivered, failed, proc, reader, left>>

\* The interval of autocommit is over.
AutoCommit ==
    /\ config.autocommit
    /\ session # "none"
    /\ committed' = marked
    /\ committed' # committed
    /\ UNCHANGED <<broker, delivered, failed, proc, session, reader, pc, left>>

\* Mutant: the context of the loop is not cancelled.
Shutdown_NoCancel ==
    /\ proc = "up"
    /\ Spend("ends")
    /\ proc' = "stopping"
    /\ UNCHANGED <<broker, committed, delivered, failed, session, reader, pc>>

\* cancelConsumeLoop cancels the context of the loop, and so of the session.
Shutdown ==
    /\ proc = "up"
    /\ Spend("ends")
    /\ proc' = "stopping"
    /\ session' = IF session = "open" THEN "done" ELSE session
    /\ UNCHANGED <<broker, committed, delivered, failed, reader, pc>>

\* Close waits for Consume to return; the loop has seen that it is cancelled.
ShutdownReturns ==
    /\ proc = "stopping"
    /\ session = "none"
    /\ proc' = "down"
    /\ UNCHANGED <<broker, committed, delivered, failed, session, reader, pc, left>>

\* The collector dies.
Crash ==
    /\ proc # "down"
    /\ Spend("ends")
    /\ proc' = "down"
    /\ session' = "none"
    /\ pc' = [p \in Partitions |-> "off"]
    /\ UNCHANGED <<broker, committed, delivered, failed, reader>>

-----------------------------------------------------------------------------
(* ConsumeClaim, of partition p *)

\* The partition consumer fetches, unless it is paused or closed.
Fetch(p) ==
    /\ session = "open"
    /\ p \notin paused
    /\ fetched[p] < produced[p]
    /\ fetched' = [fetched EXCEPT ![p] = @ + 1]
    /\ UNCHANGED <<broker, committed, delivered, failed, proc, session, marked, paused, next,
                   pc, left>>

\* MarkMessage: a mark never goes back.
Mark(p, o) == [marked EXCEPT ![p] = IF @ > o + 1 THEN @ ELSE o + 1]
MarkIf(cond, p, o) == marked' = IF cond THEN Mark(p, o) ELSE marked

\* session.Commit: all partitions.
CommitIf(cond) == committed' = IF cond THEN marked' ELSE committed

Current(p) == next[p] - 1

\* Mutant: on_error is not looked at.
ReturnError_MarksAlways(p, o) ==
    /\ MarkIf(config.after, p, o)
    /\ failed' = [failed EXCEPT ![p] = @ \cup {o}]
    /\ CommitIf(~config.autocommit)
    /\ pc' = [pc EXCEPT ![p] = "returned"]
    /\ session' = "done"

\* ConsumeClaim returns err: the message is marked if errors are; the deferred
\* Commit; the session ends with the first handler that returns.
ReturnError(p, o) ==
    /\ MarkIf(config.after /\ config.onError, p, o)
    /\ failed' = [failed EXCEPT ![p] = @ \cup {o}]
    /\ CommitIf(~config.autocommit)
    /\ pc' = [pc EXCEPT ![p] = "returned"]
    /\ session' = "done"

\* The handler takes a message, marks it now unless it is marked after, and
\* unmarshals it.  The select may choose a message when the session is done too.
Take(p) ==
    /\ pc[p] = "idle"
    /\ next[p] < fetched[p]
    /\ <<p, next[p]>> \notin Bad
    /\ MarkIf(~config.after, p, next[p])
    /\ next' = [next EXCEPT ![p] = @ + 1]
    /\ pc' = [pc EXCEPT ![p] = "consume"]
    /\ UNCHANGED <<broker, committed, delivered, failed, proc, session, paused, fetched, left>>

\* Mutant: a message that cannot be unmarshalled is always marked.
TakeBad_MarksAlways(p) ==
    /\ pc[p] = "idle"
    /\ next[p] < fetched[p]
    /\ <<p, next[p]>> \in Bad
    /\ next' = [next EXCEPT ![p] = @ + 1]
    /\ MarkIf(TRUE, p, next[p])
    /\ failed' = [failed EXCEPT ![p] = @ \cup {next[p]}]
    /\ CommitIf(~config.autocommit)
    /\ pc' = [pc EXCEPT ![p] = "returned"]
    /\ session' = "done"
    /\ UNCHANGED <<broker, delivered, proc, paused, fetched, left>>

\* The same, when Unmarshal returns an error.
TakeBad(p) ==
    /\ pc[p] = "idle"
    /\ next[p] < fetched[p]
    /\ <<p, next[p]>> \in Bad
    /\ next' = [next EXCEPT ![p] = @ + 1]
    /\ MarkIf(~config.after \/ config.onError, p, next[p])
    /\ failed' = [failed EXCEPT ![p] = @ \cup {next[p]}]
    /\ CommitIf(~config.autocommit)
    /\ pc' = [pc EXCEPT ![p] = "returned"]
    /\ session' = "done"
    /\ UNCHANGED <<broker, delivered, proc, paused, fetched, left>>

\* Mutant: the partitions stay paused.
ConsumeOk_NoResume(p) ==
    /\ pc[p] \in {"consume", "retry"}
    /\ delivered' = [delivered EXCEPT ![p] = @ \cup {Current(p)}]
    /\ pc' = [pc EXCEPT ![p] = "done"]
    /\ UNCHANGED <<broker, committed, failed, proc, session, reader, left>>

\* WithMemoryLimiter: consume() returns nil, at once or in the retry loop.
ConsumeOk(p) ==
    /\ pc[p] \in {"consume", "retry"}
    /\ delivered' = [delivered EXCEPT ![p] = @ \cup {Current(p)}]
    /\ paused' = IF pc[p] = "retry" THEN {} ELSE paused
    /\ pc' = [pc EXCEPT ![p] = "done"]
    /\ UNCHANGED <<broker, committed, failed, proc, session, marked, fetched, next, left>>

\* It returns an error that is not errHighMemoryUsage.
ConsumeError(p) ==
    /\ pc[p] \in {"consume", "retry"}
    /\ Spend("errors")
    /\ paused' = IF pc[p] = "retry" THEN {} ELSE paused
    /\ ReturnError(p, Current(p))
    /\ UNCHANGED <<broker, delivered, proc, fetched, next>>

\* It returns errHighMemoryUsage.  In the retry loop that changes nothing.
HighMemoryUsage(p) ==
    /\ pc[p] = "consume"
    /\ Spend("refusals")
    /\ pc' = [pc EXCEPT ![p] = "refused"]
    /\ UNCHANGED <<broker, committed, delivered, failed, proc, session, reader>>

PauseAll(p) ==
    /\ pc[p] = "refused"
    /\ paused' = Partitions
    /\ pc' = [pc EXCEPT ![p] = "retry"]
    /\ UNCHANGED <<broker, committed, delivered, failed, proc, session, marked, fetched, next,
                   left>>

\* The retry loop sees that the session is done: no ResumeAll.
SessionDone(p) ==
    /\ pc[p] = "retry"
    /\ session = "done"
    /\ ReturnError(p, Current(p))
    /\ UNCHANGED <<broker, delivered, proc, paused, fetched, next, left>>

\* A message that was consumed is marked now if it is marked after; Commit.
MarkConsumed(p) ==
    /\ pc[p] = "done"
    /\ MarkIf(config.after, p, Current(p))
    /\ CommitIf(~config.autocommit)
    /\ pc' = [pc EXCEPT ![p] = "idle"]
    /\ UNCHANGED <<broker, delivered, failed, proc, session, paused, fetched, next, left>>

\* The session is done, or the channel closed: return nil; the deferred Commit.
ReturnNil(p) ==
    /\ pc[p] = "idle"
    /\ session = "done"
    /\ marked' = marked
    /\ CommitIf(~config.autocommit)
    /\ pc' = [pc EXCEPT ![p] = "returned"]
    /\ UNCHANGED <<broker, delivered, failed, proc, session, paused, fetched, next, left>>

ConsumeClaim(p) ==
    \/ Fetch(p) \/ Take(p) \/ TakeBad(p) \/ PauseAll(p) \/ SessionDone(p) \/ ConsumeOk(p)
    \/ MarkConsumed(p) \/ ReturnNil(p)

Next ==
    \/ Start \/ Consume \/ Rebalance \/ ConsumeReturns \/ AutoCommit
    \/ Shutdown \/ ShutdownReturns \/ Crash
    \/ \E p \in Partitions :
         Produce(p) \/ ConsumeClaim(p) \/ ConsumeError(p) \/ HighMemoryUsage(p)

\* The scheduler runs every goroutine, the collector is restarted, and the
\* next consumer answers.  Refusals and errors are bounded, so that memory
\* pressure ends.
Fairness ==
    /\ WF_vars(Start) /\ WF_vars(Consume) /\ WF_vars(ConsumeReturns)
    /\ WF_vars(AutoCommit) /\ WF_vars(ShutdownReturns)
    /\ \A p \in Partitions : WF_vars(ConsumeClaim(p))

Spec == Init /\ [][Next]_vars /\ Fairness

-----------------------------------------------------------------------------
(* Properties *)

\* MessageMarking: with "after", whatever happens to the session or the
\* collector and however the commits of the partitions interleave, an offset
\* is committed only when all messages before it were consumed or, if errors
\* are marked, given up with an error.
NothingSkipped ==
    config.after /\ config.initial = "earliest" =>
        \A p \in Partitions : \A o \in 0 .. committed[p] - 1 :
            o \in delivered[p] \/ (config.onError /\ o \in failed[p])

\* Where no offset is committed and the initial offset is "latest", a new
\* session jumps over the messages that were not yet consumed.  Those are the
\* only ones: what follows the first commit is never skipped.
SkipsOnlyBeforeFirstCommit ==
    [][config.after /\ ~config.onError =>
         \A p \in Partitions :
             committed[p] # None =>
                 \A o \in committed[p] .. committed'[p] - 1 : o \in delivered'[p]]_vars

\* README: only "on_error" = FALSE may block a partition;
\* a pause that nobody undoes would as well.  With the other
\* settings every message is committed in the end, also one that cannot be
\* unmarshalled, whatever was refused, rebalanced, crashed or shut down.
PartitionAdvances ==
    \A p \in Partitions : \A o \in Offsets(p) :
        (config.initial = "earliest" /\ (config.after => config.onError) /\ produced[p] > o)
            ~> committed[p] > o

\* Shutdown: Close waits for the session; the handlers see it is done, also
\* the ones that wait for memory.
ShutdownEnds == proc = "stopping" ~> proc = "down"
=============================================================================
