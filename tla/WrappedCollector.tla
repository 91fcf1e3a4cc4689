-------------------------- MODULE WrappedCollector --------------------------
(***************************************************************************)
(* signozcol.WrappedCollector (src/signozcol/collector.go): the wrapper     *)
(* that starts, stops and restarts the OpenTelemetry collector inside the   *)
(* process.  Goroutines of the program call Run, Shutdown, Restart and      *)
(* GetState; each call takes wCol.mux and may block while it holds it.  Run *)
(* leaves two goroutines behind for every service instance: the one that    *)
(* executes svc.Run and the one that polls svc.GetState.                    *)
(*                                                                         *)
(* otelcol.Collector itself is a library: its life is modelled from how     *)
(* collector.go uses it (the actions Svc...).                               *)
(***************************************************************************)
EXTENDS Integers, Sequences

CONSTANTS
    Callers,       \* goroutines that call the methods of the wrapper
    Configs,       \* contents the configuration file may have
    GoodConfigs,   \* contents with which the collector is able to start
    Init0,         \* contents of the file when the process starts
    MaxStarts,     \* bound: how many service instances Run may create
    CtxBound,      \* possible kinds of context given to Run (see ctxBound)
    SettingsOK     \* possible outcomes of building the collector's settings

ASSUME CollectorAssumption ==
    /\ "free" \notin Callers
    /\ Init0 \in Configs
    /\ GoodConfigs \subseteq Configs
    /\ MaxStarts \in Nat
    /\ CtxBound \in SUBSET BOOLEAN
    /\ SettingsOK \in SUBSET BOOLEAN

VARIABLES
    mux,        \* holder of wCol.mux, or Free
    svc,        \* wCol.svc: the number of an instance, or 0 for nil
    inst,       \* the service instances created so far, with their goroutines
    started,    \* how many were created
    errChan,    \* wCol.errChan, a channel of capacity 1
    call,       \* where each caller is inside a method of the wrapper
    restarting, \* the callers whose Shutdown is the first half of Restart
    ret,        \* what the last call of each caller returned, until it is used
    file,       \* contents of the configuration file
    ctxDone,    \* the process's context is cancelled
    lastRes,    \* what the last svc.Run that ended has returned
    settingsOK, \* newOtelColSettings and NewCollector succeed in this process
    ctxBound    \* Run is given the context that a signal cancels

collectorVars == <<mux, svc, inst, started, errChan, call, restarting, ret,
                   file, ctxDone, lastRes, settingsOK, ctxBound>>

\* Chosen when the process starts, and never changed.
processVars == <<settingsOK, ctxBound>>

Free == "free"
Nil == "nil"
Err == "err"
ErrorValue == {Nil, Err}

SvcState == {"Starting", "Running", "Closing", "Closed"}
Ops == {"run", "shutdown", "restart", "getState"}
CallPc == {"idle", "run", "runWait", "shutdown", "shutdownWait",
           "shutdownNil", "getState"}

Insts == 1 .. MaxStarts

\* A service and the two goroutines Run starts for it.  g is the goroutine of
\* svc.Run, poll the one that waits for the Running state, colErr their
\* channel colErrorChannel (capacity 1), stop the closed shutdownChan.
Instance == [state : SvcState, cfg : Configs,
             g : {"none", "run", "report", "send", "done"},
             poll : {"on", "send", "off"},
             colErr : {<< >>} \cup {<<e>> : e \in ErrorValue},
             stop : BOOLEAN, res : ErrorValue]

NoInstance == [state |-> "Closed", cfg |-> Init0, g |-> "none",
               poll |-> "off", colErr |-> << >>, stop |-> FALSE, res |-> Nil]

NewInstance == [NoInstance EXCEPT !.state = "Starting", !.g = "run",
                                  !.poll = "on"]

CollectorInit ==
    /\ mux = Free
    /\ svc = 0
    /\ inst = [k \in Insts |-> NoInstance]
    /\ started = 0
    /\ errChan = << >>
    /\ call = [p \in Callers |-> "idle"]
    /\ restarting = {}
    /\ ret = [p \in Callers |-> Nil]
    /\ file = Init0
    /\ ctxDone = FALSE
    /\ lastRes = Nil
    /\ settingsOK \in SettingsOK
    /\ ctxBound \in CtxBound

-----------------------------------------------------------------------------
(* Calls and returns *)

\* Caller p enters a method of the wrapper.  Restart is Shutdown, then Run.
Invoke(p, op) ==
    /\ call[p] = "idle"
    /\ call' = [call EXCEPT ![p] = IF op = "restart" THEN "shutdown" ELSE op]
    /\ restarting' = IF op = "restart" THEN restarting \cup {p} ELSE restarting
    /\ ret' = [ret EXCEPT ![p] = Nil]
    /\ UNCHANGED <<mux, svc, inst, started, errChan, file, ctxDone,
                   lastRes, processVars>>

\* A method returns e to p.
Return(p, e) ==
    /\ call' = [call EXCEPT ![p] = "idle"]
    /\ ret' = [ret EXCEPT ![p] = e]
    /\ UNCHANGED restarting

\* p has used what was returned.
TakeResult(p) ==
    /\ call[p] = "idle"
    /\ ret' = [ret EXCEPT ![p] = Nil]
    /\ UNCHANGED <<mux, svc, inst, started, errChan, call, restarting, file,
                   ctxDone, lastRes, processVars>>

\* Shutdown returns: to the caller, or into the Run that ends Restart.
ReturnFromShutdown(p) ==
    IF p \in restarting
    THEN /\ call' = [call EXCEPT ![p] = "run"]
         /\ restarting' = restarting \ {p}
         /\ UNCHANGED ret
    ELSE Return(p, Nil)

-----------------------------------------------------------------------------
(* Run *)

\* The early returns of Run: a service exists already, or the settings or
\* the service cannot be built.
RunRefused(p) ==
    /\ call[p] = "run" /\ mux = Free
    /\ svc # 0 \/ ~settingsOK
    /\ Return(p, Err)
    /\ UNCHANGED <<mux, svc, inst, started, errChan, file, ctxDone,
                   lastRes, processVars>>

\* Run creates the service and its goroutines and, with mux held, waits.
RunStart(p) ==
    /\ call[p] = "run" /\ mux = Free
    /\ svc = 0 /\ settingsOK
    /\ started < MaxStarts
    /\ started' = started + 1
    /\ svc' = started'
    /\ inst' = [inst EXCEPT ![started'] = NewInstance]
    /\ mux' = p
    /\ call' = [call EXCEPT ![p] = "runWait"]
    /\ UNCHANGED <<errChan, restarting, ret, file, ctxDone,
                   lastRes, processVars>>

\* Mutant: Run returns with the mutex locked.
RunReturnLocked(p) ==
    /\ call[p] = "runWait"
    /\ inst[svc].colErr # << >>
    /\ Return(p, Head(inst[svc].colErr))
    /\ inst' = [inst EXCEPT ![svc].colErr = << >>]
    /\ UNCHANGED <<mux, svc, started, errChan, file, ctxDone, lastRes,
                   processVars>>

\* Run returns what it receives from colErrorChannel.
RunReturn(p) ==
    /\ call[p] = "runWait"
    /\ inst[svc].colErr # << >>
    /\ Return(p, Head(inst[svc].colErr))
    /\ inst' = [inst EXCEPT ![svc].colErr = << >>]
    /\ mux' = Free
    /\ UNCHANGED <<svc, started, errChan, file, ctxDone,
                   lastRes, processVars>>

-----------------------------------------------------------------------------
(* Shutdown and GetState *)

\* svc.Shutdown closes shutdownChan of a service that starts or runs.
Stopped(i) == IF i.state \in {"Starting", "Running"}
              THEN [i EXCEPT !.stop = TRUE] ELSE i

ShutdownStart(p) ==
    /\ call[p] = "shutdown" /\ mux = Free
    /\ svc # 0
    /\ mux' = p
    /\ inst' = [inst EXCEPT ![svc] = Stopped(@)]
    /\ call' = [call EXCEPT ![p] = "shutdownWait"]
    /\ UNCHANGED <<svc, started, errChan, restarting, ret, file, ctxDone,
                   lastRes, processVars>>

\* wg.Wait: every goroutine that executes a svc.Run has ended.
GoroutinesDone == \A k \in Insts : inst[k].g \in {"none", "done"}

\* What is left of an instance when nothing refers to it any more.
Gone == [NoInstance EXCEPT !.g = "done"]

\* Mutant: Shutdown does not wait for the goroutine of svc.Run.
ShutdownNoWait(p) ==
    /\ call[p] = "shutdownWait"
    /\ svc' = 0
    /\ mux' = Free
    /\ ReturnFromShutdown(p)
    /\ UNCHANGED <<inst, started, errChan, file, ctxDone, lastRes, processVars>>

ShutdownWait(p) ==
    /\ call[p] = "shutdownWait"
    /\ GoroutinesDone
    /\ svc' = 0
    /\ inst' = [inst EXCEPT ![svc] = Gone]
    /\ mux' = Free
    /\ ReturnFromShutdown(p)
    /\ UNCHANGED <<started, errChan, file, ctxDone,
                   lastRes, processVars>>

\* Shutdown without a service takes mux and sends nil to errChan.
ShutdownNil(p) ==
    /\ call[p] = "shutdown" /\ mux = Free
    /\ svc = 0
    /\ mux' = p
    /\ call' = [call EXCEPT ![p] = "shutdownNil"]
    /\ UNCHANGED <<svc, inst, started, errChan, restarting, ret, file, ctxDone,
                   lastRes, processVars>>

ShutdownNilSend(p) ==
    /\ call[p] = "shutdownNil"
    /\ errChan = << >>
    /\ errChan' = <<Nil>>
    /\ mux' = Free
    /\ ReturnFromShutdown(p)
    /\ UNCHANGED <<svc, inst, started, file, ctxDone,
                   lastRes, processVars>>

\* Of the state, callers only look whether it is StateClosed; without a
\* service it is StateUnknown.
GetState(p) ==
    /\ call[p] = "getState" /\ mux = Free
    /\ Return(p, IF svc # 0 /\ inst[svc].state = "Closed" THEN "Closed"
                                                          ELSE "NotClosed")
    /\ UNCHANGED <<mux, svc, inst, started, errChan, file, ctxDone,
                   lastRes, processVars>>

-----------------------------------------------------------------------------
(* The goroutines of a service instance *)

CallersUnchanged == UNCHANGED <<mux, svc, started, call, restarting, ret, file,
                           ctxDone, processVars>>

\* The polling goroutine of a closed service never sees it Running and never
\* does anything again.
PollAfterClose(poll) == IF poll = "on" THEN "off" ELSE poll

\* svc.Run reads the file and brings the pipelines up.
SvcStarts(k) ==
    /\ inst[k].g = "run" /\ inst[k].state = "Starting"
    /\ file \in GoodConfigs
    /\ inst' = [inst EXCEPT ![k].state = "Running", ![k].cfg = file]
    /\ UNCHANGED <<errChan, lastRes>> /\ CallersUnchanged

\* svc.Run cannot start: a bad file, or a component that fails to start.
SvcStartFails(k) ==
    /\ inst[k].g = "run" /\ inst[k].state = "Starting"
    /\ inst' = [inst EXCEPT ![k].state = "Closed", ![k].cfg = file,
                            ![k].g = "report", ![k].res = Err,
                            ![k].poll = PollAfterClose(@)]
    /\ lastRes' = Err
    /\ UNCHANGED errChan /\ CallersUnchanged

\* svc.Run leaves its loop because it is told to ...
SvcCloses(k) ==
    /\ inst[k].g = "run" /\ inst[k].state = "Running"
    /\ inst[k].stop \/ (ctxBound /\ ctxDone)
    /\ inst' = [inst EXCEPT ![k].state = "Closing"]
    /\ UNCHANGED <<errChan, lastRes>> /\ CallersUnchanged

\* ... or because a component reports a fatal error.
SvcDies(k) ==
    /\ inst[k].g = "run" /\ inst[k].state = "Running"
    /\ inst' = [inst EXCEPT ![k].state = "Closing"]
    /\ UNCHANGED <<errChan, lastRes>> /\ CallersUnchanged

\* svc.Run returns, with an error when a component cannot be shut down.
SvcReturns(k) ==
    /\ inst[k].g = "run" /\ inst[k].state = "Closing"
    /\ \E e \in ErrorValue :
          /\ inst' = [inst EXCEPT ![k].state = "Closed", ![k].g = "report",
                                  ![k].res = e, ![k].poll = PollAfterClose(@)]
          /\ lastRes' = e
    /\ UNCHANGED errChan /\ CallersUnchanged

\* Mutants: only an error is reported; the error is lost.
ReportOnlyErrors(k) ==
    /\ inst[k].g = "report"
    /\ errChan' = IF errChan = << >> /\ inst[k].res = Err THEN <<Err>> ELSE errChan
    /\ inst' = [inst EXCEPT ![k].g = "send"]
    /\ UNCHANGED lastRes /\ CallersUnchanged

ReportNil(k) ==
    /\ inst[k].g = "report"
    /\ errChan' = IF errChan = << >> THEN <<Nil>> ELSE errChan
    /\ inst' = [inst EXCEPT ![k].g = "send"]
    /\ UNCHANGED lastRes /\ CallersUnchanged

\* reportError: a send to errChan that is dropped when the channel is full.
ReportError(k) ==
    /\ inst[k].g = "report"
    /\ errChan' = IF errChan = << >> THEN <<inst[k].res>> ELSE errChan
    /\ inst' = [inst EXCEPT ![k].g = "send"]
    /\ UNCHANGED lastRes /\ CallersUnchanged

\* colErrorChannel <- err, then wg.Done.
SendColErr(k) ==
    /\ inst[k].g = "send" /\ inst[k].colErr = << >>
    /\ inst' = [inst EXCEPT ![k].g = "done", ![k].colErr = <<inst[k].res>>]
    /\ UNCHANGED <<errChan, lastRes>> /\ CallersUnchanged

PollRunning(k) ==
    /\ inst[k].poll = "on" /\ inst[k].state = "Running"
    /\ inst' = [inst EXCEPT ![k].poll = "send"]
    /\ UNCHANGED <<errChan, lastRes>> /\ CallersUnchanged

PollSend(k) ==
    /\ inst[k].poll = "send" /\ inst[k].colErr = << >>
    /\ inst' = [inst EXCEPT ![k].poll = "off", ![k].colErr = <<Nil>>]
    /\ UNCHANGED <<errChan, lastRes>> /\ CallersUnchanged

PollCtxDone(k) ==
    /\ inst[k].poll = "on" /\ ctxBound /\ ctxDone
    /\ inst' = [inst EXCEPT ![k] = [Stopped(@) EXCEPT !.poll = "off"]]
    /\ UNCHANGED <<errChan, lastRes>> /\ CallersUnchanged

-----------------------------------------------------------------------------
(* The environment: the file is rewritten, the context is cancelled *)

WriteConfig(c) ==
    /\ file' = c
    /\ UNCHANGED <<mux, svc, inst, started, errChan, call, restarting, ret,
                   ctxDone, lastRes, processVars>>

Cancel ==
    /\ ~ctxDone
    /\ ctxDone' = TRUE
    /\ UNCHANGED <<mux, svc, inst, started, errChan, call, restarting, ret,
                   file, lastRes, processVars>>

\* A client receives from ErrorChan().
ReceiveErr ==
    /\ errChan # << >>
    /\ errChan' = Tail(errChan)
    /\ UNCHANGED <<mux, svc, inst, started, call, restarting, ret, file,
                   ctxDone, lastRes, processVars>>

CallerStep(p) ==
    \/ RunRefused(p) \/ RunStart(p) \/ RunReturn(p)
    \/ ShutdownStart(p) \/ ShutdownWait(p)
    \/ ShutdownNil(p) \/ ShutdownNilSend(p)
    \/ GetState(p)

SvcStep(k) ==
    \/ SvcStarts(k) \/ SvcStartFails(k) \/ SvcCloses(k) \/ SvcDies(k)
    \/ SvcReturns(k) \/ ReportError(k) \/ SendColErr(k)
    \/ PollRunning(k) \/ PollSend(k) \/ PollCtxDone(k)

CollectorStep == \/ \E p \in Callers : CallerStep(p)
                 \/ \E k \in Insts : SvcStep(k)

CollectorNext ==
    \/ CollectorStep
    \/ \E p \in Callers, op \in Ops : Invoke(p, op)
    \/ \E p \in Callers : TakeResult(p)
    \/ \E c \in Configs : WriteConfig(c)
    \/ Cancel
    \/ ReceiveErr

CollectorSpec == CollectorInit /\ [][CollectorNext]_collectorVars

-----------------------------------------------------------------------------
(* Properties *)

CollectorTypeOK ==
    /\ mux \in Callers \cup {Free}
    /\ svc \in 0 .. started
    /\ started \in 0 .. MaxStarts
    /\ inst \in [Insts -> Instance]
    /\ errChan \in {<< >>} \cup {<<e>> : e \in ErrorValue}
    /\ call \in [Callers -> CallPc]
    /\ restarting \in SUBSET Callers
    /\ ret \in [Callers -> ErrorValue \cup {"Closed", "NotClosed"}]
    /\ file \in Configs
    /\ ctxDone \in BOOLEAN
    /\ lastRes \in ErrorValue
    /\ settingsOK \in BOOLEAN
    /\ ctxBound \in BOOLEAN

\* A goroutine that executes svc.Run has not ended.
Live(k) == inst[k].g \notin {"none", "done"}

\* Two service instances are never alive at the same time: Shutdown waits for
\* the goroutine of svc.Run before it clears wCol.svc, and Run refuses to
\* start a second service (collector.go, Run and Shutdown).
OneServiceAlive ==
    \A j, k \in Insts : Live(j) /\ Live(k) => j = k

\* Where a caller is when it holds wCol.mux.
Holding == {"runWait", "shutdownWait", "shutdownNil"}

\* wCol.mux is held by exactly the caller that waits inside a method, so a
\* blocked Run or Shutdown keeps every other caller out (collector.go, the
\* Lock / defer Unlock pairs).
MuxHeldByWaiter ==
    \A p \in Callers : call[p] \in Holding <=> mux = p

\* The service a caller waits for is the one in wCol.svc.
WaiterHasService ==
    \A p \in Callers : call[p] \in {"runWait", "shutdownWait"} => svc # 0

\* No service is forgotten: wCol.svc is cleared only once the goroutine of its
\* svc.Run has ended (collector.go, Shutdown).
NoOrphan == \A k \in Insts : Live(k) => svc = k

\* The inductive invariant behind OneServiceAlive.
CollectorInv ==
    /\ CollectorTypeOK
    /\ MuxHeldByWaiter
    /\ WaiterHasService
    /\ NoOrphan
=============================================================================
