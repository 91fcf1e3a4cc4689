------------------------- MODULE OpampServiceProofs -------------------------
(***************************************************************************)
(* Proofs about WrappedCollector, for every set of callers and every number *)
(* of starts, and about OpampService, for every set of configurations and   *)
(* every number of remote messages, starts and faults.  The service is      *)
(* shown to implement the specification of the wrapper it uses; what is     *)
(* proved of the wrapper then holds of the service.                         *)
(***************************************************************************)
EXTENDS OpampService, TLAPS

-----------------------------------------------------------------------------
(* The wrapper.  These proofs use CollectorAssumption alone, and nothing of  *)
(* the service.                                                             *)

\* The records and sequences the steps build have their types.
LEMMA InstanceTypes ==
    /\ NoInstance \in Instance
    /\ NewInstance \in Instance
    /\ Gone \in Instance
    /\ \A i \in Instance : Stopped(i) \in Instance
<1> USE CollectorAssumption DEF Instance, SvcState, ErrorValue, Nil, Err
<1>1. NoInstance \in Instance
  BY DEF NoInstance
<1>2. NewInstance \in Instance
  BY <1>1 DEF NewInstance
<1>3. Gone \in Instance
  BY DEF Gone, NoInstance
<1>4. \A i \in Instance : Stopped(i) \in Instance
  <2>1. ASSUME NEW i \in Instance
        PROVE  [i EXCEPT !.stop = TRUE] \in Instance
    OBVIOUS
  <2> HIDE DEF Instance
  <2> QED
    BY <2>1 DEF Stopped
<1> QED
  BY <1>1, <1>2, <1>3, <1>4

\* A channel of capacity one that is not empty yields an error value.
LEMMA HeadType ==
    ASSUME NEW c \in {<< >>} \cup {<<e>> : e \in ErrorValue}, c # << >>
    PROVE  /\ Head(c) \in ErrorValue
           /\ Tail(c) = << >>
<1>1. PICK e \in ErrorValue : c = <<e>>
  OBVIOUS
<1>2. Head(<<e>>) = e /\ Tail(<<e>>) = << >>
  OBVIOUS
<1> QED
  BY <1>1, <1>2

\* The invariant holds initially.
LEMMA CollectorInitInv == CollectorInit => CollectorInv
<1> SUFFICES ASSUME CollectorInit PROVE CollectorInv
  OBVIOUS
<1> USE CollectorAssumption DEF CollectorInit
<1>0. settingsOK \in BOOLEAN /\ ctxBound \in BOOLEAN
  OBVIOUS
<1>a. inst \in [Insts -> Instance] /\ svc \in 0 .. started /\ started \in 0 .. MaxStarts
  BY InstanceTypes
<1>1. CollectorTypeOK
  BY <1>0, <1>a DEF CollectorTypeOK, CallPc, ErrorValue, Nil, Free
<1>2. MuxHeldByWaiter /\ WaiterHasService
  BY DEF MuxHeldByWaiter, WaiterHasService, Holding, Free
<1>3. NoOrphan
  BY DEF NoOrphan, Live, NoInstance
<1> QED
  BY <1>1, <1>2, <1>3 DEF CollectorInv

\* A step of a caller inside a method of the wrapper preserves the invariant.
LEMMA CallerStepInv ==
    ASSUME CollectorInv, NEW p \in Callers, CallerStep(p)
    PROVE  CollectorInv'
<1> USE CollectorAssumption DEF CollectorInv, CollectorTypeOK
<1>0. /\ Nil \in ErrorValue /\ Err \in ErrorValue
      /\ p # Free
      /\ processVars' = processVars => UNCHANGED <<settingsOK, ctxBound>>
  BY DEF ErrorValue, Free, processVars
<1>1. CASE RunRefused(p)
  BY <1>0, <1>1 DEF RunRefused, Return, CallPc, MuxHeldByWaiter, WaiterHasService,
     NoOrphan, Live, Holding, Free
<1>2. CASE RunStart(p)
  <2>1. CollectorTypeOK'
    BY <1>0, <1>2, InstanceTypes DEF RunStart, CallPc, Insts
  <2>2. MuxHeldByWaiter' /\ WaiterHasService'
    BY <1>0, <1>2 DEF RunStart, MuxHeldByWaiter, WaiterHasService, Holding, Free
  <2>3. NoOrphan'
    BY <1>2 DEF RunStart, NoOrphan, Live, Insts, NewInstance, NoInstance
  <2> QED BY <2>1, <2>2, <2>3
<1>3. CASE RunReturn(p)
  <2>1. svc \in Insts /\ inst[svc] \in Instance
    BY <1>3 DEF RunReturn, WaiterHasService, Insts
  <2>2. inst[svc].colErr \in {<< >>} \cup {<<e>> : e \in ErrorValue}
    BY <2>1 DEF Instance
  <2>3. Head(inst[svc].colErr) \in ErrorValue
    BY <1>3, <2>2, HeadType DEF RunReturn
  <2>4. inst' \in [Insts -> Instance]
    BY <1>3, <2>1 DEF RunReturn, Instance
  <2>5. \A k \in Insts : inst'[k].g = inst[k].g
    BY <1>3, <2>1 DEF RunReturn, Instance
  <2>6. CollectorTypeOK'
    BY <1>0, <1>3, <2>3, <2>4 DEF RunReturn, Return, CallPc
  <2>7. MuxHeldByWaiter' /\ WaiterHasService'
    BY <1>0, <1>3 DEF RunReturn, Return, MuxHeldByWaiter, WaiterHasService, Holding, Free
  <2>8. NoOrphan'
    BY <1>3, <2>5 DEF RunReturn, NoOrphan, Live
  <2> QED BY <2>6, <2>7, <2>8
<1>4. CASE ShutdownStart(p)
  <2>1. svc \in Insts /\ inst[svc] \in Instance
    BY <1>4 DEF ShutdownStart, Insts
  <2>2. inst' \in [Insts -> Instance]
    BY <1>4, <2>1, InstanceTypes DEF ShutdownStart
  <2>3. \A k \in Insts : inst'[k].g = inst[k].g
    BY <1>4, <2>1 DEF ShutdownStart, Stopped, Instance
  <2>4. CollectorTypeOK'
    BY <1>0, <1>4, <2>2 DEF ShutdownStart, CallPc
  <2>5. MuxHeldByWaiter' /\ WaiterHasService'
    BY <1>0, <1>4 DEF ShutdownStart, MuxHeldByWaiter, WaiterHasService, Holding, Free
  <2>6. NoOrphan'
    BY <1>4, <2>3 DEF ShutdownStart, NoOrphan, Live
  <2> QED BY <2>4, <2>5, <2>6
<1>5. CASE ShutdownWait(p)
  <2>1. svc \in Insts
    BY <1>5 DEF ShutdownWait, WaiterHasService, Insts
  <2>2. CollectorTypeOK'
    BY <1>0, <1>5, <2>1, InstanceTypes
    DEF ShutdownWait, ReturnFromShutdown, Return, CallPc
  <2>3. MuxHeldByWaiter' /\ WaiterHasService'
    BY <1>0, <1>5 DEF ShutdownWait, ReturnFromShutdown, Return, MuxHeldByWaiter,
       WaiterHasService, Holding, Free
  <2>4. NoOrphan'
    BY <1>5, <2>1 DEF ShutdownWait, GoroutinesDone, NoOrphan, Live, Gone, NoInstance
  <2> QED BY <2>2, <2>3, <2>4
<1>6. CASE ShutdownNil(p)
  BY <1>0, <1>6 DEF ShutdownNil, CallPc, MuxHeldByWaiter, WaiterHasService, NoOrphan,
     Live, Holding, Free
<1>7. CASE ShutdownNilSend(p)
  <2>1. CollectorTypeOK'
    BY <1>0, <1>7 DEF ShutdownNilSend, ReturnFromShutdown, Return, CallPc
  <2>2. MuxHeldByWaiter' /\ WaiterHasService'
    BY <1>0, <1>7 DEF ShutdownNilSend, ReturnFromShutdown, Return, MuxHeldByWaiter,
       WaiterHasService, Holding, Free
  <2>3. NoOrphan'
    BY <1>7 DEF ShutdownNilSend, NoOrphan, Live
  <2> QED BY <2>1, <2>2, <2>3
<1>8. CASE GetState(p)
  BY <1>0, <1>8 DEF GetState, Return, CallPc, MuxHeldByWaiter, WaiterHasService,
     NoOrphan, Live, Holding, Free
<1> QED
  BY <1>1, <1>2, <1>3, <1>4, <1>5, <1>6, <1>7, <1>8 DEF CallerStep

\* A step of a goroutine of a service instance preserves the invariant: only a
\* goroutine that is alive changes where it is, and none comes alive.
LEMMA SvcStepInv ==
    ASSUME CollectorInv, NEW k \in Insts, SvcStep(k)
    PROVE  CollectorInv'
<1> USE CollectorAssumption DEF CollectorInv, CollectorTypeOK
<1>1. UNCHANGED <<mux, svc, started, call, restarting, ret, file, ctxDone,
                  settingsOK, ctxBound>>
  BY DEF SvcStep, SvcStarts, SvcStartFails, SvcCloses, SvcDies, SvcReturns,
     ReportError, SendColErr, PollRunning, PollSend, PollCtxDone,
     CallersUnchanged, processVars
<1>2. inst[k] \in Instance /\ Nil \in ErrorValue /\ Err \in ErrorValue
  BY DEF ErrorValue
<1> DEFINE Typed == /\ inst' \in [Insts -> Instance]
                    /\ lastRes' \in ErrorValue
                    /\ errChan' \in {<< >>} \cup {<<e>> : e \in ErrorValue}
           Local == /\ \A j \in Insts \ {k} : inst'[j] = inst[j]
                    /\ inst'[k].g # inst[k].g => inst[k].g \in {"run", "report", "send"}
<1>3. Typed /\ Local
  <2>1. CASE SvcStarts(k)
    BY <1>2, <2>1 DEF SvcStarts, Instance, SvcState
  <2>2. CASE SvcStartFails(k)
    BY <1>2, <2>2 DEF SvcStartFails, PollAfterClose, Instance, SvcState
  <2>3. CASE SvcCloses(k)
    BY <1>2, <2>3 DEF SvcCloses, Instance, SvcState
  <2>4. CASE SvcDies(k)
    BY <1>2, <2>4 DEF SvcDies, Instance, SvcState
  <2>5. CASE SvcReturns(k)
    BY <1>2, <2>5 DEF SvcReturns, PollAfterClose, Instance, SvcState
  <2>6. CASE ReportError(k)
    BY <1>2, <2>6 DEF ReportError, Instance
  <2>7. CASE SendColErr(k)
    BY <1>2, <2>7 DEF SendColErr, Instance
  <2>8. CASE PollRunning(k)
    BY <1>2, <2>8 DEF PollRunning, Instance
  <2>9. CASE PollSend(k)
    BY <1>2, <2>9 DEF PollSend, Instance
  <2>10. CASE PollCtxDone(k)
    BY <1>2, <2>10 DEF PollCtxDone, Stopped, Instance
  <2> QED
    BY <2>1, <2>2, <2>3, <2>4, <2>5, <2>6, <2>7, <2>8, <2>9, <2>10 DEF SvcStep
<1>4. Local
  BY <1>3
<1>5. NoOrphan'
  BY <1>1, <1>4 DEF NoOrphan, Live
<1>6. MuxHeldByWaiter' /\ WaiterHasService'
  BY <1>1 DEF MuxHeldByWaiter, WaiterHasService
<1> QED
  BY <1>1, <1>3, <1>5, <1>6

\* Every step of the wrapper and of its environment preserves the invariant.
LEMMA CollectorNextInv ==
    CollectorInv /\ [CollectorNext]_collectorVars => CollectorInv'
<1> SUFFICES ASSUME CollectorInv, [CollectorNext]_collectorVars
             PROVE  CollectorInv'
  OBVIOUS
<1>1. CASE CollectorStep
  BY <1>1, CallerStepInv, SvcStepInv DEF CollectorStep
<1>2. ASSUME NEW p \in Callers, NEW op \in Ops, Invoke(p, op)
      PROVE  CollectorInv'
  BY <1>2, CollectorAssumption
  DEF CollectorInv, CollectorTypeOK, Invoke, Ops, CallPc, processVars, ErrorValue,
      MuxHeldByWaiter, WaiterHasService, NoOrphan, Live, Holding, Free
<1>3. ASSUME NEW c \in Configs, WriteConfig(c)
      PROVE  CollectorInv'
  BY <1>3
  DEF CollectorInv, CollectorTypeOK, WriteConfig, processVars, MuxHeldByWaiter,
      WaiterHasService, NoOrphan, Live
<1>4. CASE Cancel
  BY <1>4
  DEF CollectorInv, CollectorTypeOK, Cancel, processVars, MuxHeldByWaiter,
      WaiterHasService, NoOrphan, Live
<1>5. CASE ReceiveErr
  BY <1>5, HeadType
  DEF CollectorInv, CollectorTypeOK, ReceiveErr, processVars, MuxHeldByWaiter,
      WaiterHasService, NoOrphan, Live
<1>6. ASSUME NEW p \in Callers, TakeResult(p)
      PROVE  CollectorInv'
  BY <1>6
  DEF CollectorInv, CollectorTypeOK, TakeResult, processVars, ErrorValue, MuxHeldByWaiter,
      WaiterHasService, NoOrphan, Live
<1>7. CASE UNCHANGED collectorVars
  BY <1>7
  DEF CollectorInv, CollectorTypeOK, collectorVars, MuxHeldByWaiter,
      WaiterHasService, NoOrphan, Live
<1> QED
  BY <1>1, <1>2, <1>3, <1>4, <1>5, <1>6, <1>7 DEF CollectorNext

\* The invariant holds in every state of the wrapper under any callers.
THEOREM CollectorInvariant == CollectorSpec => []CollectorInv
BY CollectorInitInv, CollectorNextInv, PTL DEF CollectorSpec

\* However Run, Shutdown, Restart and GetState are called, and whatever the
\* services do, no two services are alive at once (collector.go).
THEOREM OneServiceAliveTheorem == CollectorSpec => []OneServiceAlive
<1>1. CollectorInv => OneServiceAlive
  BY DEF CollectorInv, NoOrphan, OneServiceAlive
<1> QED
  BY <1>1, CollectorInvariant, PTL

-----------------------------------------------------------------------------
(* The service *)

\* The invariant: the wrapper's own, and the types of the service's state.
ServiceInv == CollectorInv /\ BaseTypeOK /\ ReloadTypeOK /\ WsTypeOK

\* The initial states satisfy the invariant.
LEMMA ServiceInit == Init => CollectorInit /\ ServiceInv
<1> SUFFICES ASSUME Init PROVE CollectorInit /\ ServiceInv
  OBVIOUS
<1> USE CollectorAssumption, ServiceAssumption
<1>1. CollectorInit /\ CollectorInv
  BY CollectorInitInv DEF Init
<1>b. stopped \in BOOLEAN /\ runningNop \in BOOLEAN /\ received \in BOOLEAN
      /\ wsChanged \in BOOLEAN /\ wsOverride \in BOOLEAN
  BY Zenon DEF Init
<1>2. BaseTypeOK
  BY <1>b DEF Init, BaseTypeOK, ErrorValue, Nil
<1>3. ReloadTypeOK
  BY DEF Init, ReloadTypeOK, ErrorValue, Nil, Reloaders, Free
<1>4. WsTypeOK
  BY <1>b DEF Init, WsTypeOK, ErrorValue, Nil
<1> QED
  BY <1>1, <1>2, <1>3, <1>4 DEF ServiceInv

\* A step inside reload is, for the wrapper, a call of Restart, a rewritten
\* file or nothing.
LEMMA ReloadStepMaps ==
    ASSUME ServiceInv, NEW p \in Reloaders, ReloadStep(p)
    PROVE  [CollectorNext]_collectorVars /\ BaseTypeOK' /\ ReloadTypeOK' /\ WsTypeOK'
<1> USE CollectorAssumption, ServiceAssumption
    DEF ServiceInv, ReloadTypeOK, ReloadFrame, ReloadTo, ReloadFails, Works
<1>0. /\ p \in Callers /\ Nil \in ErrorValue /\ Err \in ErrorValue
      /\ "restart" \in Ops
      /\ file \in Configs /\ Garbage \in Configs
  BY DEF Reloaders, ErrorValue, Ops, CollectorInv, CollectorTypeOK
<1>1. ReloadTypeOK'
  <2>1. CASE ReloadLock(p) BY <1>0, <2>1 DEF ReloadLock
  <2>2. CASE ReloadWrite(p) BY <1>0, <2>2 DEF ReloadWrite
  <2>3. CASE ReloadRestart(p) BY <1>0, <2>3 DEF ReloadRestart
  <2>4. CASE ReloadRestarted(p) BY <1>0, <2>4 DEF ReloadRestarted
  <2>5. CASE ReloadRollback(p) BY <1>0, <2>5 DEF ReloadRollback
  <2>6. CASE ReloadRolledBack(p) BY <1>0, <2>6 DEF ReloadRolledBack
  <2>7. CASE ReloadUnlock(p) BY <1>0, <2>7 DEF ReloadUnlock, Free
  <2> QED BY <2>1, <2>2, <2>3, <2>4, <2>5, <2>6, <2>7 DEF ReloadStep
<1>2. [CollectorNext]_collectorVars
  <2>1. CASE ReloadLock(p) BY <2>1 DEF ReloadLock
  <2>2. CASE ReloadWrite(p) BY <1>0, <2>2 DEF ReloadWrite, CollectorNext
  <2>3. CASE ReloadRestart(p) BY <1>0, <2>3 DEF ReloadRestart, CollectorNext
  <2>4. CASE ReloadRestarted(p) BY <2>4 DEF ReloadRestarted
  <2>5. CASE ReloadRollback(p) BY <1>0, <2>5 DEF ReloadRollback, CollectorNext
  <2>6. CASE ReloadRolledBack(p) BY <1>0, <2>6 DEF ReloadRolledBack, CollectorNext
  <2>7. CASE ReloadUnlock(p) BY <2>7 DEF ReloadUnlock
  <2> QED BY <2>1, <2>2, <2>3, <2>4, <2>5, <2>6, <2>7 DEF ReloadStep
<1>3. faults' \in 0 .. MaxFaults
  BY DEF BaseTypeOK, ReloadStep, ReloadLock, ReloadWrite, ReloadRestart,
     ReloadRestarted, ReloadRollback, ReloadRolledBack, ReloadUnlock, Fault
<1>4. UNCHANGED <<baseVars, wsVars>>
  BY DEF ReloadStep, ReloadLock, ReloadWrite, ReloadRestart, ReloadRestarted,
     ReloadRollback, ReloadRolledBack, ReloadUnlock
<1>5. BaseTypeOK'
  BY <1>3, <1>4 DEF BaseTypeOK, baseVars
<1>6. WsTypeOK'
  BY <1>4 DEF WsTypeOK, wsVars
<1> QED
  BY <1>1, <1>2, <1>5, <1>6

\* A step of the main goroutine is a call of Run or Shutdown, a receive from
\* the error channel, or nothing.
LEMMA MainStepMaps ==
    ASSUME ServiceInv, MainStep
    PROVE  [CollectorNext]_collectorVars /\ BaseTypeOK' /\ ReloadTypeOK' /\ WsTypeOK'
<1> USE CollectorAssumption, ServiceAssumption
    DEF ServiceInv, MainTo, Works
<1>0. /\ "main" \in Callers /\ "main" \in Reloaders
      /\ "run" \in Ops /\ "shutdown" \in Ops
      /\ Nop \in Configs
  BY DEF Ops, Reloaders
<1>1. CASE SimpleStart
  BY <1>0, <1>1 DEF SimpleStart, CollectorNext, BaseTypeOK, ReloadTypeOK, WsTypeOK,
     reloadVars, wsVars
<1>2. CASE SimpleStarted
  BY <1>2 DEF SimpleStarted, BaseTypeOK, ReloadTypeOK, WsTypeOK, reloadVars, wsVars
<1>3. CASE ServerStart
  BY <1>3 DEF ServerStart, BaseTypeOK, ReloadTypeOK, WsTypeOK, reloadVars
<1>4. CASE ServerStartFails
  BY <1>4 DEF ServerStartFails, Fault, BaseTypeOK, ReloadTypeOK, WsTypeOK,
     reloadVars, wsVars
<1>5. CASE ApplyNop
  BY <1>0, <1>5 DEF ApplyNop, EnterReload, BaseTypeOK, ReloadTypeOK, WsTypeOK, ErrorValue
<1>6. CASE ServerStarted
  BY <1>6 DEF ServerStarted, BaseTypeOK, ReloadTypeOK, WsTypeOK, reloadVars, wsVars
<1>7. CASE ContextDone
  BY <1>7 DEF ContextDone, BaseTypeOK, ReloadTypeOK, WsTypeOK, reloadVars, wsVars
<1>8. CASE ServiceError
  BY <1>8 DEF ServiceError, BaseTypeOK, ReloadTypeOK, WsTypeOK, reloadVars, wsVars
<1>9. CASE Stop
  BY <1>0, <1>9 DEF Stop, CollectorNext, BaseTypeOK, ReloadTypeOK, WsTypeOK,
     reloadVars, wsVars
<1>10. CASE StopShutdown
  BY <1>10 DEF StopShutdown, BaseTypeOK, ReloadTypeOK, WsTypeOK, reloadVars, wsVars
<1>11. CASE OpampStop
  BY <1>11 DEF OpampStop, BaseTypeOK, ReloadTypeOK, WsTypeOK, reloadVars
<1>12. CASE StopReturns
  <2>1. Head(errChan) \in ErrorValue
    BY <1>12, HeadType DEF StopReturns, ReceiveErr, CollectorInv, CollectorTypeOK
  <2> QED
    BY <1>12, <2>1 DEF StopReturns, CollectorNext, BaseTypeOK, ReloadTypeOK,
       WsTypeOK, reloadVars, wsVars
<1> QED
  BY <1>1, <1>2, <1>3, <1>4, <1>5, <1>6, <1>7, <1>8, <1>9, <1>10, <1>11, <1>12
  DEF MainStep

\* A step of ensureRunning is a call of GetState, or nothing.
LEMMA WatchStepMaps ==
    ASSUME ServiceInv, WatchStep
    PROVE  [CollectorNext]_collectorVars /\ BaseTypeOK' /\ ReloadTypeOK' /\ WsTypeOK'
<1> USE CollectorAssumption, ServiceAssumption
    DEF ServiceInv, WatchTo, WatchFrame
<1>0. "watch" \in Callers /\ "getState" \in Ops
  BY DEF Ops
<1>1. UNCHANGED <<reloadVars, wsVars, faults>>
  BY DEF WatchStep, EnsureStopped, EnsurePoll, EnsureState, EnsureFlag, EnsureSend
<1>2. ReloadTypeOK' /\ WsTypeOK'
  BY <1>1 DEF ReloadTypeOK, WsTypeOK, reloadVars, wsVars
<1>3. BaseTypeOK'
  BY <1>1 DEF WatchStep, EnsureStopped, EnsurePoll, EnsureState, EnsureFlag,
     EnsureSend, ErrCap, BaseTypeOK
<1>4. [CollectorNext]_collectorVars
  BY <1>0 DEF WatchStep, EnsureStopped, EnsurePoll, EnsureState, EnsureFlag,
     EnsureSend, CollectorNext
<1> QED
  BY <1>2, <1>3, <1>4

\* A step of the websocket goroutine outside reload leaves the wrapper alone.
LEMMA WsStepMaps ==
    ASSUME ServiceInv, WsStep
    PROVE  [CollectorNext]_collectorVars /\ BaseTypeOK' /\ ReloadTypeOK' /\ WsTypeOK'
<1> USE CollectorAssumption, ServiceAssumption
    DEF ServiceInv, WsFrame, WsReturn, Works, Fault
<1>0. /\ Nil \in ErrorValue /\ Err \in ErrorValue /\ "ws" \in Reloaders
      /\ file \in Configs
  BY DEF ErrorValue, Reloaders, CollectorInv, CollectorTypeOK
<1>1. UNCHANGED <<collectorVars, baseVars>>
  BY DEF WsStep, WsReceive, WsReloadFailed, WsHash, WsStatus, WsNopOff,
       WsLoadFlag, WsReport
<1>2. faults' \in 0 .. MaxFaults
  BY DEF WsStep, WsReceive, WsReloadFailed, WsHash, WsStatus, WsNopOff,
       WsLoadFlag, WsReport, BaseTypeOK
<1>3. BaseTypeOK'
  BY <1>1, <1>2 DEF BaseTypeOK, baseVars
<1>4. ReloadTypeOK' /\ WsTypeOK'
  <2>1. ASSUME NEW c \in Remote \cup {NoBody}, WsReceive(c)
        PROVE  ReloadTypeOK' /\ WsTypeOK'
    BY <1>0, <2>1 DEF WsReceive, EnterReload, ReloadTypeOK, WsTypeOK, reloadVars
  <2>2. CASE WsReloadFailed
    BY <1>0, <2>2 DEF WsReloadFailed, ReloadTypeOK, WsTypeOK, reloadVars
  <2>3. CASE WsHash
    BY <1>0, <2>3 DEF WsHash, ReloadTypeOK, WsTypeOK, reloadVars
  <2>4. CASE WsStatus
    <3>1. status' \in {<<>>} \cup ((Remote \cup {NoBody}) \X {"APPLIED", "FAILED"})
      BY <2>4 DEF WsStatus, WsTypeOK
    <3>2. wsChanged' \in BOOLEAN
      BY <2>4, Zenon DEF WsStatus, WsTypeOK
    <3> QED
      BY <1>0, <2>4, <3>1, <3>2 DEF WsStatus, ReloadTypeOK, WsTypeOK, reloadVars
  <2>5. CASE WsNopOff
    BY <1>0, <2>5 DEF WsNopOff, ReloadTypeOK, WsTypeOK, reloadVars
  <2>6. CASE WsLoadFlag \/ WsReport
    <3>1. wsOverride' \in BOOLEAN
      BY <2>6, Zenon DEF WsLoadFlag, WsReport, WsTypeOK
    <3> QED
      BY <2>6, <3>1 DEF WsLoadFlag, WsReport, ReloadTypeOK, WsTypeOK, reloadVars
  <2> QED
    BY <2>1, <2>2, <2>3, <2>4, <2>5, <2>6 DEF WsStep
<1> QED
  BY <1>1, <1>3, <1>4

\* Every step of the service is a step of the wrapper, or leaves it alone, and
\* preserves the invariant.
LEMMA ServiceNext ==
    ServiceInv /\ [Next]_vars => ServiceInv' /\ [CollectorNext]_collectorVars
<1> SUFFICES ASSUME ServiceInv, [Next]_vars
             PROVE  /\ [CollectorNext]_collectorVars
                    /\ BaseTypeOK' /\ ReloadTypeOK' /\ WsTypeOK'
  BY CollectorNextInv DEF ServiceInv
<1>1. CASE \E p \in Reloaders : ReloadStep(p)
  BY <1>1, ReloadStepMaps
<1>2. CASE MainStep
  BY <1>2, MainStepMaps
<1>3. CASE WatchStep
  BY <1>3, WatchStepMaps
<1>4. CASE WsStep
  BY <1>4, WsStepMaps
<1>5. CASE Signal
  BY <1>5 DEF Signal, Works, ServiceInv, CollectorNext, BaseTypeOK, ReloadTypeOK,
     WsTypeOK, baseVars, reloadVars, wsVars
<1>6. CASE Collector
  <2>1. CollectorStep /\ CollectorFrame
    BY <1>6 DEF Collector, CollectorStep, CallerStep, SvcStep
  <2> QED
    BY <2>1 DEF CollectorFrame, ServiceInv, CollectorNext, BaseTypeOK,
       ReloadTypeOK, WsTypeOK, baseVars, reloadVars, wsVars
<1>7. CASE UNCHANGED vars
  BY <1>7 DEF vars, ServiceInv, BaseTypeOK, ReloadTypeOK, WsTypeOK, baseVars,
     reloadVars, wsVars
<1> QED
  BY <1>1, <1>2, <1>3, <1>4, <1>5, <1>6, <1>7 DEF Next

\* The invariant holds in every state of the service.
THEOREM ServiceInvariant == Spec => []ServiceInv
BY ServiceInit, ServiceNext, PTL DEF Spec

\* Every variable of the service keeps its type.
THEOREM ServiceTypeOK == Spec => []TypeOK
<1>1. ServiceInv => TypeOK
  BY DEF ServiceInv, CollectorInv, TypeOK
<1> QED
  BY <1>1, ServiceInvariant, PTL

\* The process drives the wrapped collector only through Run, Shutdown, Restart
\* and GetState: it implements the specification of the wrapper.
THEOREM ServiceImplementsCollector == Spec => CollectorSpec
BY ServiceInit, ServiceNext, ServiceInvariant, PTL DEF Spec, CollectorSpec

\* In the whole process, with its three goroutines and any reloads, signals and
\* faults, no two collector services are alive at once.
THEOREM ServiceOneAlive == Spec => []OneServiceAlive
BY ServiceImplementsCollector, OneServiceAliveTheorem, PTL

-----------------------------------------------------------------------------
(* The configuration that runs *)

\* A reload has rewritten the file and not yet shut the collector down.
Changing ==
    \E p \in Reloaders :
        \/ rl[p] \in {"restart", "rollbackRestart"}
        \/ rl[p] \in {"restarting", "rollingBack"} /\ call[p] \in {"shutdown", "shutdownWait"}

WhoReloads ==
    /\ main # "reload" => rl["main"] = "off"
    /\ ws # "reload" => rl["ws"] = "off"
    /\ main = "start" => ws = "off"

FileInv ==
    /\ WhoReloads
    /\ Running => inst[svc].cfg = file \/ file = Garbage \/ Changing

\* A step that leaves the service, the file and every reload under way alone.
LEMMA SameFile ==
    ASSUME FileInv, UNCHANGED <<svc, inst, file>>,
           WhoReloads', Changing => Changing'
    PROVE  FileInv'
BY DEF FileInv, WhoReloads, Running

\* The steps of a reload: Changing begins with the write.
LEMMA FileReload ==
    ASSUME ServiceInv, FileInv, NEW p \in Reloaders, ReloadStep(p)
    PROVE  FileInv'
<1> USE DEF ReloadFrame, ReloadTo, ReloadFails, Works
<1>0. /\ rl \in [Reloaders -> {"off", "lock", "write", "restart", "restarting",
                               "rollbackRestart", "rollingBack", "unlock"}]
      /\ call \in [Callers -> CallPc] /\ p \in Callers /\ p \in {"main", "ws"}
      /\ Reloaders \subseteq Callers
  BY ServiceAssumption DEF ServiceInv, ReloadTypeOK, CollectorInv, CollectorTypeOK, Reloaders
<1>1. UNCHANGED <<main, ws>> /\ \A q \in Reloaders \ {p} : rl'[q] = rl[q]
  BY <1>0 DEF ReloadStep, ReloadLock, ReloadWrite, ReloadRestart, ReloadRestarted,
     ReloadRollback, ReloadRolledBack, ReloadUnlock, baseVars, wsVars
<1>2. WhoReloads'
  <2>1. rl[p] # "off"
    BY DEF ReloadStep, ReloadLock, ReloadWrite, ReloadRestart, ReloadRestarted,
       ReloadRollback, ReloadRolledBack, ReloadUnlock
  <2>2. (p = "main" => main = "reload") /\ (p = "ws" => ws = "reload")
    BY <2>1 DEF FileInv, WhoReloads
  <2> QED
    BY <1>0, <1>1, <2>2 DEF FileInv, WhoReloads, Reloaders
<1>3. CASE ReloadLock(p)
  BY <1>0, <1>1, <1>2, <1>3, SameFile DEF ReloadLock, Changing, collectorVars
<1>4. ASSUME NEW c, WriteConfig(c), c \in {file, Garbage}, rl[p] = "write", rl'[p] = "unlock"
      PROVE  FileInv'
  <2>1. Changing => Changing'
    BY <1>0, <1>1, <1>4 DEF Changing, WriteConfig
  <2> QED
    BY <1>2, <1>4, <2>1 DEF FileInv, WriteConfig, Running
<1>5. ASSUME rl'[p] \in {"restart", "rollbackRestart"}
      PROVE  FileInv'
  BY <1>2, <1>5 DEF FileInv, Changing
<1>6. CASE ReloadWrite(p)
  <2>1. CASE ReloadTo(p, "restart")
    BY <1>0, <1>5, <2>1
  <2>2. CASE (\E c \in {file, Garbage} : WriteConfig(c)) /\ ReloadFails(p)
    BY <1>0, <1>4, <1>6, <2>2 DEF ReloadWrite
  <2> QED
    BY <1>6, <2>1, <2>2 DEF ReloadWrite
<1>7. CASE ReloadRestart(p)
  <2>1. call'[p] = "shutdown" /\ rl'[p] \in {"restarting", "rollingBack"}
    BY <1>0, <1>7 DEF ReloadRestart, Invoke
  <2>2. Changing'
    BY <2>1 DEF Changing
  <2> QED
    BY <1>2, <2>2 DEF FileInv
<1>8. CASE ReloadRestarted(p) \/ ReloadRolledBack(p)
  BY <1>0, <1>1, <1>2, <1>8, SameFile DEF ReloadRestarted, ReloadRolledBack, Changing,
     TakeResult, collectorVars
<1>9. CASE ReloadRollback(p)
  BY <1>0, <1>5, <1>9 DEF ReloadRollback
<1>10. CASE ReloadUnlock(p)
  BY <1>0, <1>1, <1>2, <1>10, SameFile DEF ReloadUnlock, Changing, collectorVars
<1> QED
  BY <1>3, <1>6, <1>7, <1>8, <1>9, <1>10 DEF ReloadStep

\* The steps of the wrapper's methods: Changing ends with Shutdown.
LEMMA FileCaller ==
    ASSUME ServiceInv, FileInv, UNCHANGED <<main, ws, rl>>, NEW p \in Callers, CallerStep(p)
    PROVE  FileInv'
<1>0. /\ call \in [Callers -> CallPc] /\ Reloaders \subseteq Callers
      /\ inst \in [Insts -> Instance] /\ svc \in 0 .. started /\ started \in 0 .. MaxStarts
      /\ svc # 0 => svc \in Insts
  BY ServiceAssumption, CollectorAssumption
  DEF ServiceInv, CollectorInv, CollectorTypeOK, Reloaders, Insts
<1>1. CASE RunRefused(p) \/ GetState(p) \/ ShutdownNilSend(p)
  <2>1. UNCHANGED <<svc, inst, file>> /\ Changing => Changing'
    BY <1>0, <1>1 DEF RunRefused, GetState, ShutdownNilSend, ReturnFromShutdown, Return, Changing
  <2>2. UNCHANGED <<svc, inst, file>>
    BY <1>1 DEF RunRefused, GetState, ShutdownNilSend
  <2> QED
    BY <2>1, <2>2, SameFile DEF FileInv, WhoReloads
<1>2. CASE RunStart(p)
  <2>1. svc' \in Insts /\ inst' = [inst EXCEPT ![svc'] = NewInstance]
    BY <1>0, <1>2, CollectorAssumption DEF RunStart, Insts
  <2>2. inst'[svc'].state = "Starting"
    BY <1>0, <2>1 DEF NewInstance, NoInstance
  <2> QED
    BY <2>2 DEF FileInv, WhoReloads, Running
<1>3. CASE RunReturn(p)
  <2>1. /\ UNCHANGED <<svc, file>>
        /\ svc \in Insts => inst'[svc].state = inst[svc].state /\ inst'[svc].cfg = inst[svc].cfg
    BY <1>0, <1>3 DEF RunReturn, Instance
  <2>2. Changing => Changing'
    BY <1>0, <1>3 DEF RunReturn, Return, Changing
  <2> QED
    BY <1>0, <2>1, <2>2 DEF FileInv, WhoReloads, Running
<1>4. CASE ShutdownStart(p)
  <2>1. /\ UNCHANGED <<svc, file>>
        /\ svc \in Insts => inst'[svc].state = inst[svc].state /\ inst'[svc].cfg = inst[svc].cfg
    BY <1>0, <1>4 DEF ShutdownStart, Stopped, Instance
  <2>2. Changing => Changing'
    BY <1>0, <1>4 DEF ShutdownStart, Changing
  <2> QED
    BY <1>0, <2>1, <2>2 DEF FileInv, WhoReloads, Running
<1>5. CASE ShutdownWait(p) \/ ShutdownNil(p)
  BY <1>5 DEF ShutdownWait, ShutdownNil, FileInv, WhoReloads, Running
<1> QED
  BY <1>1, <1>2, <1>3, <1>4, <1>5 DEF CallerStep

\* A collector starts with what the file says, or stops.
LEMMA FileSvc ==
    ASSUME ServiceInv, FileInv, UNCHANGED <<main, ws, rl>>, NEW k \in Insts, SvcStep(k)
    PROVE  FileInv'
<1>0. /\ inst \in [Insts -> Instance] /\ svc \in 0 .. started /\ started \in 0 .. MaxStarts
      /\ svc # 0 => svc \in Insts
  BY CollectorAssumption DEF ServiceInv, CollectorInv, CollectorTypeOK, Insts
<1>1. UNCHANGED <<svc, file, call>>
  BY DEF SvcStep, SvcStarts, SvcStartFails, SvcCloses, SvcDies, SvcReturns, ReportError,
     SendColErr, PollRunning, PollSend, PollCtxDone, CallersUnchanged
<1>2. Changing' = Changing
  BY <1>1 DEF Changing
<1>3. CASE SvcStarts(k)
  <2>1. inst'[k].cfg = file /\ \A j \in Insts \ {k} : inst'[j] = inst[j]
    BY <1>0, <1>3 DEF SvcStarts, Instance
  <2> QED
    BY <1>0, <1>1, <1>2, <2>1 DEF FileInv, WhoReloads, Running
<1>4. CASE SvcStartFails(k) \/ SvcCloses(k) \/ SvcDies(k) \/ SvcReturns(k)
  <2>1. inst'[k].state # "Running" /\ \A j \in Insts \ {k} : inst'[j] = inst[j]
    <3>1. CASE SvcStartFails(k)
      BY <1>0, <3>1 DEF SvcStartFails, Instance
    <3>2. CASE SvcCloses(k) \/ SvcDies(k)
      BY <1>0, <3>2 DEF SvcCloses, SvcDies, Instance
    <3>3. CASE SvcReturns(k)
      BY <1>0, <3>3 DEF SvcReturns, Instance
    <3> QED
      BY <1>4, <3>1, <3>2, <3>3
  <2> QED
    BY <1>0, <1>1, <1>2, <2>1 DEF FileInv, WhoReloads, Running
<1>5. CASE ReportError(k) \/ SendColErr(k) \/ PollRunning(k) \/ PollSend(k) \/ PollCtxDone(k)
  <2>1. /\ inst'[k].state = inst[k].state /\ inst'[k].cfg = inst[k].cfg
        /\ \A j \in Insts \ {k} : inst'[j] = inst[j]
    BY <1>0, <1>5 DEF ReportError, SendColErr, PollRunning, PollSend, PollCtxDone, Stopped, Instance
  <2> QED
    BY <1>0, <1>1, <1>2, <2>1 DEF FileInv, WhoReloads, Running
<1> QED
  BY <1>3, <1>4, <1>5 DEF SvcStep

\* Every step of the service keeps FileInv.
LEMMA FileNext == ServiceInv /\ FileInv /\ [Next]_vars => FileInv'
<1> SUFFICES ASSUME ServiceInv, FileInv, [Next]_vars
             PROVE  FileInv'
  OBVIOUS
<1>0. /\ rl \in [Reloaders -> {"off", "lock", "write", "restart", "restarting",
                               "rollbackRestart", "rollingBack", "unlock"}]
      /\ call \in [Callers -> CallPc] /\ Reloaders = {"main", "ws"} /\ Reloaders \subseteq Callers
  BY ServiceAssumption DEF ServiceInv, ReloadTypeOK, CollectorInv, CollectorTypeOK, Reloaders
<1>1. CASE \E p \in Reloaders : ReloadStep(p)
  BY <1>1, FileReload
<1>2. CASE MainStep
  <2>1. UNCHANGED <<svc, inst, file>>
    BY <1>2 DEF MainStep, SimpleStart, SimpleStarted, ServerStart, ServerStartFails, ApplyNop,
       ServerStarted, ContextDone, ServiceError, Stop, StopShutdown, OpampStop, StopReturns,
       Invoke, ReceiveErr, collectorVars
  <2>2. Changing => Changing'
    <3>1. CASE ApplyNop
      BY <1>0, <3>1 DEF ApplyNop, EnterReload, FileInv, WhoReloads, Changing, collectorVars
    <3>2. CASE SimpleStart \/ Stop
      <4>1. UNCHANGED rl /\ call["main"] = "idle" /\ \A q \in Callers \ {"main"} : call'[q] = call[q]
        BY <1>0, <3>2 DEF SimpleStart, Stop, Invoke, reloadVars
      <4> QED
        BY <1>0, <4>1 DEF Changing
    <3>3. CASE ~ApplyNop /\ ~SimpleStart /\ ~Stop
      <4>1. UNCHANGED <<rl, call>>
        BY <1>2, <3>3 DEF MainStep, SimpleStarted, ServerStart, ServerStartFails,
           ServerStarted, ContextDone, ServiceError, StopShutdown, OpampStop, StopReturns,
           ReceiveErr, collectorVars, reloadVars
      <4> QED
        BY <4>1 DEF Changing
    <3> QED
      BY <3>1, <3>2, <3>3
  <2>3. WhoReloads'
    <3> USE DEF FileInv, WhoReloads, MainTo, reloadVars, wsVars
    <3>1. CASE SimpleStart \/ SimpleStarted \/ ServerStartFails \/ ContextDone \/ ServiceError
      BY <3>1 DEF SimpleStart, SimpleStarted, ServerStartFails, ContextDone, ServiceError
    <3>2. CASE ServerStart \/ ServerStarted \/ OpampStop
      BY <3>2 DEF ServerStart, ServerStarted, OpampStop
    <3>3. CASE Stop \/ StopShutdown \/ StopReturns
      BY <3>3 DEF Stop, StopShutdown, StopReturns
    <3>4. CASE ApplyNop
      BY <1>0, <3>4 DEF ApplyNop, EnterReload
    <3> QED
      BY <1>2, <3>1, <3>2, <3>3, <3>4 DEF MainStep
  <2> QED
    BY <2>1, <2>2, <2>3, SameFile
<1>3. CASE WatchStep
  <2>1. UNCHANGED <<svc, inst, file, rl, ws>>
    BY <1>3 DEF WatchStep, EnsureStopped, EnsurePoll, EnsureState, EnsureFlag, EnsureSend,
       WatchFrame, Invoke, TakeResult, collectorVars, reloadVars, wsVars
  <2>2. main' = main \/ (main = "wait" /\ main' = "stop")
    BY <1>3 DEF WatchStep, EnsureStopped, EnsurePoll, EnsureState, EnsureFlag, EnsureSend,
       ErrCap, WatchTo, ServiceInv, BaseTypeOK
  <2>3. \A q \in Reloaders : call'[q] = call[q]
    BY <1>0, <1>3 DEF WatchStep, EnsureStopped, EnsurePoll, EnsureState, EnsureFlag, EnsureSend,
       Invoke, TakeResult, collectorVars
  <2> QED
    BY <2>1, <2>2, <2>3, SameFile DEF FileInv, WhoReloads, Changing
<1>4. CASE WsStep
  <2>1. UNCHANGED <<svc, inst, file, call, main>>
    BY <1>4 DEF WsStep, WsReceive, WsReloadFailed, WsHash, WsStatus, WsNopOff,
       WsLoadFlag, WsReport, WsFrame,
       collectorVars, baseVars
  <2>2. /\ ws # "off"
        /\ \/ UNCHANGED rl /\ (ws # "reload" \/ rl["ws"] = "off")
           \/ ws = "idle" /\ ws' = "reload" /\ rl' = [rl EXCEPT !["ws"] = "lock"]
    BY <1>4 DEF WsStep, WsReceive, WsReloadFailed, WsHash, WsStatus, WsNopOff,
       WsLoadFlag, WsReport, EnterReload,
       reloadVars
  <2> QED
    BY <1>0, <2>1, <2>2, SameFile DEF FileInv, WhoReloads, Changing
<1>5. CASE Signal
  BY <1>5, SameFile DEF Signal, Cancel, FileInv, WhoReloads, Changing, baseVars, reloadVars, wsVars
<1>6. CASE Collector
  <2>1. CollectorStep /\ UNCHANGED <<main, ws, rl>>
    BY <1>6 DEF Collector, CollectorStep, CallerStep, SvcStep, CollectorFrame, baseVars,
       reloadVars, wsVars
  <2> QED
    BY <2>1, FileCaller, FileSvc DEF CollectorStep
<1>7. CASE UNCHANGED vars
  BY <1>7, SameFile DEF vars, collectorVars, baseVars, reloadVars, wsVars, FileInv, WhoReloads,
     Changing
<1> QED
  BY <1>1, <1>2, <1>3, <1>4, <1>5, <1>6, <1>7 DEF Next

\* The collector runs what is in the file whenever nobody is inside reload, for
\* any configurations, remote messages, restarts and failed writes: reload writes,
\* restarts, and after a failure copies back and restarts.
THEOREM RunningMatchesFileTheorem == Spec => []RunningMatchesFile
<1>1. Init => FileInv
  BY DEF Init, CollectorInit, FileInv, WhoReloads, Running, Reloaders
<1>2. FileInv => RunningMatchesFile
  BY DEF FileInv, RunningMatchesFile, ReloadIdle, Changing
<1> QED
  BY <1>1, <1>2, FileNext, ServiceInvariant, PTL DEF Spec

-----------------------------------------------------------------------------
(* Remote configurations *)

\* What FailureIsRetried says, and why: the hash is not that of the message
\* being handled, unless it was applied.
RetryInv ==
    /\ ws \in {"off", "idle", "nopOff", "report", "read"} =>
          \A c \in Remote : status = <<c, "FAILED">> /\ received => currentHash # c
    /\ ws = "reload" => wsCfg \in Remote /\ (received => currentHash # wsCfg)
    /\ ws = "status" /\ wsErr = Err => wsCfg \in Remote /\ (received => currentHash # wsCfg)
    /\ ws \in {"off", "idle", "report", "read", "reload"} => wsErr = Nil

\* The no-op configuration is nowhere but while runningNop hides it.
NopInv ==
    ~received /\ faults = 0 =>
        /\ runningNop \/ (file # Nop /\ rollback # Nop /\ \A p \in Reloaders : rlArg[p] # Nop)
        /\ ws # "nopOff" /\ ~wsChanged

\* The steps that are not of the websocket goroutine leave the handling of a
\* remote message alone, but for starting and stopping it.
LEMMA NotWs ==
    ASSUME ServiceInv, FileInv, [Next]_vars, ~WsStep
    PROVE  /\ UNCHANGED <<currentHash, received, wsCfg, wsChanged, wsErr, status>>
           /\ ws' = ws \/ (ws \in {"off", "idle"} /\ ws' \in {"off", "idle"})
<1>1. CASE \E p \in Reloaders : ReloadStep(p)
  BY <1>1 DEF ReloadStep, ReloadLock, ReloadWrite, ReloadRestart, ReloadRestarted,
     ReloadRollback, ReloadRolledBack, ReloadUnlock, ReloadFrame, wsVars
<1>2. CASE MainStep
  <2>1. CASE SimpleStart \/ SimpleStarted \/ ServerStartFails \/ ContextDone \/ ServiceError
    BY <2>1 DEF SimpleStart, SimpleStarted, ServerStartFails, ContextDone, ServiceError, wsVars
  <2>2. CASE ServerStart
    BY <2>2 DEF ServerStart, FileInv, WhoReloads
  <2>3. CASE ServerStarted \/ Stop \/ StopShutdown \/ StopReturns
    BY <2>3 DEF ServerStarted, Stop, StopShutdown, StopReturns, wsVars
  <2>4. CASE ApplyNop \/ OpampStop
    BY <2>4 DEF ApplyNop, OpampStop
  <2> QED
    BY <1>2, <2>1, <2>2, <2>3, <2>4 DEF MainStep
<1>3. CASE WatchStep
  BY <1>3 DEF WatchStep, EnsureStopped, EnsurePoll, EnsureState, EnsureFlag, EnsureSend,
     WatchFrame, wsVars
<1>4. CASE Signal
  BY <1>4 DEF Signal, wsVars
<1>5. CASE Collector
  <2>1. CollectorFrame
    BY <1>5 DEF Collector
  <2> QED
    BY <2>1 DEF CollectorFrame, wsVars
<1>6. CASE UNCHANGED vars
  BY <1>6 DEF vars, wsVars
<1> QED
  BY <1>1, <1>2, <1>3, <1>4, <1>5, <1>6 DEF Next

\* Every step of the service keeps RetryInv.
LEMMA RetryNext == ServiceInv /\ FileInv /\ RetryInv /\ [Next]_vars => RetryInv'
<1> SUFFICES ASSUME ServiceInv, FileInv, RetryInv, [Next]_vars
             PROVE  RetryInv'
  OBVIOUS
<1>0. /\ Err # Nil /\ Garbage \notin Remote /\ NoBody \notin Remote
      /\ wsErr \in {Nil, Err} /\ wsCfg \in Remote \cup {NoBody}
  BY ServiceAssumption DEF Err, Nil, ErrorValue, ServiceInv, WsTypeOK
<1>1. CASE ~WsStep
  BY <1>1, NotWs DEF RetryInv
<1>2. ASSUME NEW c \in Remote \cup {NoBody}, WsReceive(c)
      PROVE  RetryInv'
  BY <1>0, <1>2 DEF WsReceive, RetryInv
<1>3. CASE WsReloadFailed
  BY <1>0, <1>3 DEF WsReloadFailed, RetryInv
<1>4. CASE WsHash
  <2>1. ws = "reload" /\ ws' = "status" /\ UNCHANGED wsCfg /\ wsErr = Nil /\ wsCfg \in Remote
    BY <1>4 DEF WsHash, RetryInv
  <2>2. wsErr' = Err => currentHash' = Garbage
    BY <1>0, <1>4, <2>1 DEF WsHash
  <2> QED
    BY <1>0, <2>1, <2>2 DEF RetryInv
<1>5. CASE WsStatus
  <2>1. ws = "status" /\ UNCHANGED <<currentHash, received>> /\ ws' \in {"idle", "nopOff"}
    BY <1>5 DEF WsStatus, WsReturn
  <2>2. ws' = "idle" => wsErr' = Nil
    BY <1>5 DEF WsStatus, WsReturn
  <2>3. status' = <<>> \/ status' = <<wsCfg, IF wsErr = Nil THEN "APPLIED" ELSE "FAILED">>
    BY <1>5 DEF WsStatus
  <2>4. ASSUME NEW c \in Remote, status' = <<c, "FAILED">>
        PROVE  c = wsCfg /\ wsErr = Err
    BY <1>0, <2>3, <2>4
  <2> QED
    BY <2>1, <2>2, <2>4 DEF RetryInv
<1>6. CASE WsNopOff
  BY <1>6 DEF WsNopOff, WsReturn, RetryInv
<1>7. CASE WsLoadFlag \/ WsReport
  BY <1>7 DEF WsLoadFlag, WsReport, RetryInv
<1> QED
  BY <1>1, <1>2, <1>3, <1>4, <1>5, <1>6, <1>7 DEF WsStep

\* Every step of the service keeps NopInv.
LEMMA NopNext == ServiceInv /\ NopInv /\ [Next]_vars => NopInv'
<1> SUFFICES ASSUME ServiceInv, NopInv, [Next]_vars, ~received', faults' = 0
             PROVE  /\ runningNop' \/ (file' # Nop /\ rollback' # Nop
                                         /\ \A p \in Reloaders : rlArg'[p] # Nop)
                    /\ ws' # "nopOff" /\ ~wsChanged'
  BY DEF NopInv
<1>0. /\ Nop # Init0 /\ Nop \notin Remote /\ NoBody \notin Remote /\ faults \in Nat
      /\ rlArg \in [Reloaders -> Configs] /\ Reloaders = {"main", "ws"}
      /\ received \in BOOLEAN /\ wsChanged \in BOOLEAN
  BY ServiceAssumption DEF ServiceInv, BaseTypeOK, ReloadTypeOK, WsTypeOK, Reloaders
<1> DEFINE NoNop == file # Nop /\ rollback # Nop /\ \A p \in Reloaders : rlArg[p] # Nop
<1>1. ASSUME faults' = faults, ~received
      PROVE  (runningNop \/ NoNop) /\ ws # "nopOff" /\ ~wsChanged
  BY <1>1 DEF NopInv
<1>2. ASSUME NEW p \in Reloaders, ReloadStep(p)
      PROVE  /\ runningNop' \/ (file' # Nop /\ rollback' # Nop
                                  /\ \A q \in Reloaders : rlArg'[q] # Nop)
             /\ ws' # "nopOff" /\ ~wsChanged'
  <2>1. UNCHANGED wsVars
    BY <1>2 DEF ReloadStep, ReloadLock, ReloadWrite, ReloadRestart, ReloadRestarted,
       ReloadRollback, ReloadRolledBack, ReloadUnlock, ReloadFrame
  <2>2. Works
    BY <1>0, <1>2 DEF ReloadStep, ReloadLock, ReloadWrite, ReloadRestart, ReloadRestarted,
       ReloadRollback, ReloadRolledBack, ReloadUnlock, Works, Fault
  <2>3. faults' = faults /\ ~received /\ UNCHANGED <<runningNop, ws, wsChanged>>
    BY <2>1, <2>2 DEF Works, wsVars
  <2>4. NoNop => file' # Nop /\ rollback' # Nop /\ \A q \in Reloaders : rlArg'[q] # Nop
    <3> USE DEF Works, Fault
    <3>1. CASE ReloadLock(p)
      BY <3>1 DEF ReloadLock, collectorVars
    <3>2. CASE ReloadWrite(p)
      BY <1>0, <2>3, <3>2 DEF ReloadWrite, WriteConfig
    <3>3. CASE ReloadRestart(p) \/ ReloadRestarted(p) \/ ReloadRolledBack(p)
      BY <3>3 DEF ReloadRestart, ReloadRestarted, ReloadRolledBack, Invoke, TakeResult, collectorVars
    <3>4. CASE ReloadRollback(p)
      BY <1>0, <2>3, <3>4 DEF ReloadRollback, WriteConfig
    <3>5. CASE ReloadUnlock(p)
      BY <1>0, <3>5 DEF ReloadUnlock, collectorVars
    <3> QED
      BY <1>2, <3>1, <3>2, <3>3, <3>4, <3>5 DEF ReloadStep
  <2> QED
    BY <1>1, <2>3, <2>4
<1>3. CASE ApplyNop
  BY <1>1, <1>3 DEF ApplyNop, Works
<1>4. CASE MainStep /\ ~ApplyNop
  <2>1. UNCHANGED <<file, rollback, rlArg>>
    BY <1>4 DEF MainStep, SimpleStart, SimpleStarted, ServerStart, ServerStartFails,
       ServerStarted, ContextDone, ServiceError, Stop, StopShutdown, OpampStop, StopReturns,
       Invoke, ReceiveErr, collectorVars, reloadVars
  <2>2. faults' = faults
    BY <1>0, <1>4 DEF MainStep, SimpleStart, SimpleStarted, ServerStart, ServerStartFails,
       ServerStarted, ContextDone, ServiceError, Stop, StopShutdown, OpampStop, StopReturns,
       Works, Fault
  <2>3. UNCHANGED <<received, wsChanged, runningNop>> /\ (ws' = ws \/ ws' \in {"off", "idle"})
    BY <1>4 DEF MainStep, SimpleStart, SimpleStarted, ServerStart, ServerStartFails,
       ServerStarted, ContextDone, ServiceError, Stop, StopShutdown, OpampStop, StopReturns, wsVars
  <2> QED
    BY <1>1, <2>1, <2>2, <2>3
<1>5. CASE WatchStep \/ Signal \/ Collector \/ UNCHANGED vars
  <2>1. UNCHANGED <<reloadVars, wsVars, faults>>
    <3>1. CASE WatchStep
      BY <3>1 DEF WatchStep, EnsureStopped, EnsurePoll, EnsureState, EnsureFlag, EnsureSend,
         WatchFrame
    <3>2. CASE Signal \/ UNCHANGED vars
      BY <3>2 DEF Signal, Works, vars
    <3>3. CASE Collector
      BY <3>3 DEF Collector, CollectorFrame
    <3> QED
      BY <1>5, <3>1, <3>2, <3>3
  <2>2. file' = file
    <3>1. CASE WatchStep
      BY <3>1 DEF WatchStep, EnsureStopped, EnsurePoll, EnsureState, EnsureFlag, EnsureSend,
         Invoke, TakeResult, collectorVars
    <3>2. CASE Signal \/ UNCHANGED vars
      BY <3>2 DEF Signal, Cancel, vars, collectorVars
    <3>3. CASE Collector
      BY <3>3 DEF Collector, RunRefused, RunStart, RunReturn, ShutdownStart, ShutdownWait,
         ShutdownNil, ShutdownNilSend, GetState, SvcStarts, SvcStartFails, SvcCloses, SvcDies,
         SvcReturns, ReportError, SendColErr, PollRunning, PollSend, PollCtxDone,
         CallersUnchanged
    <3> QED
      BY <1>5, <3>1, <3>2, <3>3
  <2> QED
    BY <1>1, <2>1, <2>2 DEF reloadVars, wsVars
<1>6. CASE WsStep
  <2>1. UNCHANGED <<file, rollback>>
    BY <1>6 DEF WsStep, WsReceive, WsReloadFailed, WsHash, WsStatus, WsNopOff,
       WsLoadFlag, WsReport, WsFrame,
       EnterReload, collectorVars, reloadVars
  <2>2. faults' = faults
    BY <1>0, <1>6 DEF WsStep, WsReceive, WsReloadFailed, WsHash, WsStatus, WsNopOff,
       WsLoadFlag, WsReport, Works, Fault
  <2>3. ASSUME NEW c \in Remote \cup {NoBody}, WsReceive(c)
        PROVE  ~received /\ UNCHANGED <<runningNop, wsChanged>> /\ ws' # "nopOff"
               /\ ((\A p \in Reloaders : rlArg[p] # Nop) => \A p \in Reloaders : rlArg'[p] # Nop)
    BY <1>0, <2>3 DEF WsReceive, EnterReload, reloadVars
  <2>4. CASE WsReloadFailed
    BY <1>1, <2>1, <2>2, <2>4 DEF WsReloadFailed, reloadVars
  <2>5. CASE WsHash
    BY <1>0, <2>2, <2>5 DEF WsHash, Works, Fault
  <2>6. CASE WsStatus
    BY <1>1, <2>1, <2>2, <2>6 DEF WsStatus, WsReturn, reloadVars
  <2>7. CASE WsNopOff
    BY <1>1, <2>2, <2>7 DEF WsNopOff
  <2>8. CASE WsLoadFlag \/ WsReport
    BY <1>1, <2>1, <2>2, <2>8 DEF WsLoadFlag, WsReport, reloadVars
  <2> QED
    BY <1>1, <1>6, <2>1, <2>2, <2>3, <2>4, <2>5, <2>6, <2>7, <2>8 DEF WsStep
<1> QED
  BY <1>2, <1>3, <1>4, <1>5, <1>6 DEF Next

\* A remote configuration reported as FAILED is applied when it is sent again,
\* whatever was sent and whatever failed before: the hash is compared and
\* updated around the reload (applyRemoteConfig, UpdateCurrentHash).
THEOREM FailureIsRetriedTheorem == Spec => []FailureIsRetried
<1>1. Init => FileInv /\ RetryInv
  BY DEF Init, CollectorInit, FileInv, WhoReloads, Running, Reloaders, RetryInv
<1>2. RetryInv => FailureIsRetried
  BY DEF RetryInv, FailureIsRetried
<1> QED
  BY <1>1, <1>2, FileNext, RetryNext, ServiceInvariant, PTL DEF Spec

\* Until a remote configuration was applied, a report whose flag is still that of
\* the client does not hold the no-op configuration, however main and the
\* websocket goroutine interleave reloads and reports: runningNop is set before
\* the file is written.  Only Start's Store between the two reads of a report
\* lets it through.
THEOREM NopHiddenTheorem == Spec => []NopHidden
<1>1. Init => NopInv
  BY ServiceAssumption DEF Init, CollectorInit, Reloaders, NopInv
<1>2. NopInv => NopHidden
  BY ServiceAssumption DEF NopInv, NopHidden, EffectiveConfig
<1> QED
  BY <1>1, <1>2, NopNext, ServiceInvariant, PTL DEF Spec

-----------------------------------------------------------------------------
(* The simpleClient *)

\* Of the goroutines only main calls Run and Shutdown, each once; the service
\* has reported the error of svc.Run before it is done.
SimpleInv ==
    ~Server =>
        /\ ws = "off" /\ restarting = {} /\ \A p \in Reloaders : rl[p] = "off"
        /\ call["ws"] = "idle" /\ call["watch"] \in {"idle", "getState"}
        /\ main \in {"start", "simpleRun", "wait", "stop", "shutdown", "readErr", "done", "fatal"}
        /\ main = "start" => started = 0 /\ call["main"] = "idle"
        /\ call["main"] = "run" => main = "simpleRun" /\ started = 0
        /\ call["main"] = "runWait" => main = "simpleRun"
        /\ call["main"] \in {"shutdown", "shutdownWait"} => main = "shutdown" /\ svc # 0
        /\ call["main"] \notin {"shutdownNil", "getState"}
        /\ main = "simpleRun" /\ call["main"] = "idle" /\ ret["main"] = Nil => svc # 0
        /\ main \in {"wait", "stop"} => svc # 0
        /\ started \in {0, 1}
        /\ \A k \in Insts : inst[k].g = "report" => inst[k].res = lastRes
        /\ started = 0 \/ (svc # 0 /\ inst[svc].g \in {"run", "report"}) => errChan = << >>
        /\ errChan # << >> => errChan = <<lastRes>>
        /\ main = "done" => stopErr = lastRes

\* With the simpleClient, the methods of the wrapper keep SimpleInv.
LEMMA SimpleCaller ==
    ASSUME ServiceInv, SimpleInv, ~Server, NEW p \in Callers, CallerStep(p),
           UNCHANGED <<main, ws, rl, stopErr>>
    PROVE  SimpleInv'
<1>0. /\ call \in [Callers -> CallPc] /\ Callers = {"main", "ws", "watch"}
      /\ inst \in [Insts -> Instance] /\ svc \in 0 .. started /\ started \in 0 .. MaxStarts
      /\ svc # 0 => svc \in Insts
      /\ ret \in [Callers -> ErrorValue \cup {"Closed", "NotClosed"}] /\ Nil # Err
  BY ServiceAssumption, CollectorAssumption
  DEF ServiceInv, CollectorInv, CollectorTypeOK, Insts, Nil, Err
<1>1. p = "main" \/ (p = "watch" /\ GetState(p))
  BY <1>0 DEF SimpleInv, CallerStep, RunRefused, RunStart, RunReturn, ShutdownStart,
     ShutdownWait, ShutdownNil, ShutdownNilSend, GetState
<1>2. CASE GetState(p)
  BY <1>0, <1>1, <1>2 DEF SimpleInv, Server, GetState, Return, processVars
<1>3. CASE RunRefused(p)
  BY <1>0, <1>1, <1>3 DEF SimpleInv, Server, RunRefused, Return, processVars, GetState
<1>4. CASE RunStart(p)
  <2>1. /\ p = "main" /\ started = 0 /\ started' = 1 /\ svc' = 1 /\ 1 \in Insts
        /\ inst' = [inst EXCEPT ![1] = NewInstance]
        /\ call' = [call EXCEPT !["main"] = "runWait"] /\ main = "simpleRun"
        /\ UNCHANGED <<errChan, restarting, ret, lastRes, ctxBound>>
    BY <1>0, <1>1, <1>4, CollectorAssumption DEF SimpleInv, RunStart, GetState, Insts, processVars
  <2>2. inst'[1].g = "run" /\ \A k \in Insts \ {1} : inst'[k] = inst[k]
    BY <1>0, <2>1 DEF NewInstance, NoInstance
  <2> QED
    BY <1>0, <2>1, <2>2 DEF SimpleInv, Server
<1>5. CASE RunReturn(p) \/ ShutdownStart(p)
  <2>1. /\ svc \in Insts /\ p = "main"
        /\ UNCHANGED <<svc, started, errChan, restarting, lastRes, ctxBound>>
    BY <1>0, <1>1, <1>5 DEF RunReturn, ShutdownStart, Return, GetState, processVars,
       ServiceInv, CollectorInv, WaiterHasService
  <2>2. \A k \in Insts : inst'[k].g = inst[k].g /\ inst'[k].res = inst[k].res
    BY <1>0, <1>5, <2>1 DEF RunReturn, ShutdownStart, Stopped, Instance
  <2>3. /\ svc # 0 /\ inst'[svc].g = inst[svc].g
        /\ \A k \in Insts : inst'[k].g = "report" => inst'[k].res = lastRes
    BY <2>1, <2>2 DEF Insts, SimpleInv
  <2>4. CASE RunReturn(p)
    <3>1. main = "simpleRun" /\ call'["main"] = "idle"
          /\ \A q \in Callers \ {"main"} : call'[q] = call[q]
      BY <1>0, <2>1, <2>4 DEF RunReturn, Return, SimpleInv
    <3> QED
      BY <1>0, <2>1, <2>3, <3>1 DEF SimpleInv, Server
  <2>5. CASE ShutdownStart(p)
    <3>1. main = "shutdown" /\ call'["main"] = "shutdownWait" /\ UNCHANGED ret
          /\ \A q \in Callers \ {"main"} : call'[q] = call[q]
      BY <1>0, <2>1, <2>5 DEF ShutdownStart, SimpleInv
    <3> QED
      BY <1>0, <2>1, <2>3, <3>1 DEF SimpleInv, Server
  <2> QED
    BY <1>5, <2>4, <2>5
<1>6. CASE ShutdownWait(p)
  <2>1. /\ svc \in Insts /\ p = "main" /\ main = "shutdown" /\ svc' = 0 /\ p \notin restarting
        /\ UNCHANGED <<started, errChan, lastRes, ctxBound>>
        /\ inst' = [inst EXCEPT ![svc] = Gone]
    BY <1>0, <1>1, <1>6 DEF ShutdownWait, GetState, processVars, SimpleInv
  <2>2. call' = [call EXCEPT !["main"] = "idle"] /\ UNCHANGED restarting
    BY <1>6, <2>1 DEF ShutdownWait, ReturnFromShutdown, Return
  <2>3. inst'[svc].g = "done" /\ \A k \in Insts \ {svc} : inst'[k] = inst[k]
    BY <1>0, <2>1 DEF Gone, NoInstance
  <2> QED
    BY <1>0, <2>1, <2>2, <2>3 DEF SimpleInv, Server
<1>7. CASE ShutdownNil(p) \/ ShutdownNilSend(p)
  BY <1>1, <1>7 DEF ShutdownNil, ShutdownNilSend, SimpleInv, GetState
<1> QED
  BY <1>2, <1>3, <1>4, <1>5, <1>6, <1>7 DEF CallerStep

\* With the simpleClient, the steps of the collector keep SimpleInv.
LEMMA SimpleSvc ==
    ASSUME ServiceInv, SimpleInv, ~Server, NEW k \in Insts, SvcStep(k), main # "done",
           UNCHANGED <<main, ws, rl, stopErr>>
    PROVE  SimpleInv'
<1>0. /\ inst \in [Insts -> Instance] /\ svc \in 0 .. started /\ started \in 0 .. MaxStarts
      /\ svc # 0 => svc \in Insts
      /\ \A j \in Insts : Live(j) => svc = j
  BY CollectorAssumption DEF ServiceInv, CollectorInv, CollectorTypeOK, NoOrphan, Insts
<1>1. UNCHANGED <<svc, started, call, restarting, ret, ctxBound>>
  BY DEF SvcStep, SvcStarts, SvcStartFails, SvcCloses, SvcDies, SvcReturns, ReportError,
     SendColErr, PollRunning, PollSend, PollCtxDone, CallersUnchanged, processVars
<1>2. ASSUME inst'[k].g = inst[k].g, inst'[k].res = inst[k].res,
             \A j \in Insts \ {k} : inst'[j] = inst[j], UNCHANGED <<errChan, lastRes>>
      PROVE  SimpleInv'
  BY <1>0, <1>1, <1>2 DEF SimpleInv, Server
<1>3. CASE SvcStarts(k) \/ SvcCloses(k) \/ SvcDies(k) \/ PollRunning(k) \/ PollSend(k)
  <2>1. /\ inst'[k].g = inst[k].g /\ inst'[k].res = inst[k].res
        /\ \A j \in Insts \ {k} : inst'[j] = inst[j]
    BY <1>0, <1>3 DEF SvcStarts, SvcCloses, SvcDies, PollRunning, PollSend, Instance
  <2> QED
    BY <1>2, <1>3, <2>1 DEF SvcStarts, SvcCloses, SvcDies, PollRunning, PollSend
<1>4. CASE PollCtxDone(k)
  <2>1. /\ inst'[k].g = inst[k].g /\ inst'[k].res = inst[k].res
        /\ \A j \in Insts \ {k} : inst'[j] = inst[j]
    BY <1>0, <1>4 DEF PollCtxDone, Stopped, Instance
  <2> QED
    BY <1>2, <1>4, <2>1 DEF PollCtxDone
<1>5. CASE SvcStartFails(k) \/ SvcReturns(k)
  <2>1. inst[k].g = "run" /\ UNCHANGED errChan
    BY <1>5 DEF SvcStartFails, SvcReturns
  <2>2. svc = k /\ errChan = << >>
    BY <1>0, <2>1 DEF Live, Insts, SimpleInv
  <2>3. /\ inst'[k].g = "report" /\ inst'[k].res = lastRes'
        /\ \A j \in Insts \ {k} : inst'[j] = inst[j]
    <3>1. CASE SvcStartFails(k)
      BY <1>0, <3>1 DEF SvcStartFails, Instance
    <3>2. CASE SvcReturns(k)
      BY <1>0, <3>2 DEF SvcReturns, Instance
    <3> QED
      BY <1>5, <3>1, <3>2
  <2>4. \A j \in Insts \ {k} : inst[j].g # "report"
    BY <1>0, <2>2 DEF Live
  <2> QED
    BY <1>0, <1>1, <2>1, <2>2, <2>3, <2>4 DEF SimpleInv, Server
<1>6. CASE ReportError(k) \/ SendColErr(k)
  <2>1. /\ inst[k].g \in {"report", "send"} /\ inst'[k].g \in {"send", "done"} /\ UNCHANGED lastRes
        /\ \A j \in Insts \ {k} : inst'[j] = inst[j]
    BY <1>0, <1>6 DEF ReportError, SendColErr, Instance
  <2>2. svc = k /\ started # 0
    BY <1>0, <2>1 DEF Live, Insts
  <2>3. errChan' = errChan \/ errChan' = <<lastRes>>
    BY <1>6 DEF ReportError, SendColErr, SimpleInv
  <2> QED
    BY <1>0, <1>1, <2>1, <2>2, <2>3 DEF SimpleInv, Server
<1> QED
  BY <1>3, <1>4, <1>5, <1>6 DEF SvcStep

\* Every step of the service keeps SimpleInv.
LEMMA SimpleNext == ServiceInv /\ SimpleInv /\ [Next]_vars => SimpleInv'
<1> SUFFICES ASSUME ServiceInv, SimpleInv, [Next]_vars, ~Server'
             PROVE  SimpleInv'
  BY DEF SimpleInv
<1>0. /\ call \in [Callers -> CallPc] /\ Callers = {"main", "ws", "watch"}
      /\ Reloaders = {"main", "ws"} /\ err \in 0 .. 1
      /\ ret \in [Callers -> ErrorValue \cup {"Closed", "NotClosed"}]
  BY ServiceAssumption
  DEF ServiceInv, BaseTypeOK, CollectorInv, CollectorTypeOK, Reloaders
<1>1. ~Server
  <2>1. [CollectorNext]_collectorVars
    BY ServiceNext
  <2>2. UNCHANGED ctxBound
    BY <2>1 DEF CollectorNext, CollectorStep, CallerStep, SvcStep, Invoke, TakeResult, WriteConfig,
       Cancel, ReceiveErr, RunRefused, RunStart, RunReturn, ShutdownStart, ShutdownWait, ShutdownNil,
       ShutdownNilSend, GetState, SvcStarts, SvcStartFails, SvcCloses, SvcDies, SvcReturns,
       ReportError, SendColErr, PollRunning, PollSend, PollCtxDone, CallersUnchanged,
       processVars, collectorVars
  <2> QED
    BY <2>2 DEF Server
<1>2. CASE \E p \in Reloaders : ReloadStep(p)
  BY <1>1, <1>2 DEF SimpleInv, ReloadStep, ReloadLock, ReloadWrite, ReloadRestart,
     ReloadRestarted, ReloadRollback, ReloadRolledBack, ReloadUnlock
<1>3. CASE SimpleStart
  <2>1. /\ main = "start" /\ main' = "simpleRun" /\ call' = [call EXCEPT !["main"] = "run"]
        /\ UNCHANGED <<restarting, svc, inst, started, errChan, lastRes, ctxBound, ws, rl>>
    BY <1>3 DEF SimpleStart, Invoke, MainTo, processVars, reloadVars, wsVars
  <2> QED
    BY <1>0, <1>1, <2>1 DEF SimpleInv, Server
<1>4. CASE SimpleStarted \/ ContextDone \/ ServiceError
  <2>1. /\ UNCHANGED <<restarting, svc, inst, started, errChan, call, ret, lastRes, ctxBound>>
        /\ UNCHANGED <<ws, rl, stopErr>>
    BY <1>4 DEF SimpleStarted, ContextDone, ServiceError, MainTo, collectorVars, reloadVars, wsVars
  <2>2. \/ main = "simpleRun" /\ call["main"] = "idle" /\ ret["main"] = Nil /\ main' = "wait"
        \/ main = "simpleRun" /\ call["main"] = "idle" /\ main' = "fatal"
        \/ main = "wait" /\ main' = "stop"
    BY <1>4 DEF SimpleStarted, ContextDone, ServiceError, MainTo
  <2> QED
    BY <1>1, <2>1, <2>2 DEF SimpleInv, Server
<1>5. CASE ServerStart \/ ServerStartFails \/ ApplyNop \/ ServerStarted \/ OpampStop
  BY <1>1, <1>5 DEF SimpleInv, ServerStart, ServerStartFails, ApplyNop, ServerStarted, OpampStop
<1>6. CASE Stop
  <2>1. /\ main = "stop" /\ main' = "shutdown" /\ call' = [call EXCEPT !["main"] = "shutdown"]
        /\ UNCHANGED <<restarting, svc, inst, started, errChan, lastRes, ctxBound, ws, rl>>
    BY <1>6 DEF Stop, Invoke, processVars, reloadVars, wsVars
  <2> QED
    BY <1>0, <1>1, <2>1 DEF SimpleInv, Server
<1>7. CASE StopShutdown
  <2>1. /\ main = "shutdown" /\ main' = "readErr" /\ call["main"] = "idle"
        /\ UNCHANGED <<restarting, svc, inst, started, errChan, call, ret, lastRes, ctxBound>>
        /\ UNCHANGED <<ws, rl, stopErr>>
    BY <1>1, <1>7 DEF StopShutdown, MainTo, collectorVars, reloadVars, wsVars
  <2> QED
    BY <1>1, <2>1 DEF SimpleInv, Server
<1>8. CASE StopReturns
  <2>1. /\ main = "readErr" /\ main' = "done" /\ errChan # << >> /\ stopErr' = Head(errChan)
        /\ errChan' = Tail(errChan)
        /\ UNCHANGED <<restarting, svc, inst, started, call, ret, lastRes, ctxBound, ws, rl>>
    BY <1>8 DEF StopReturns, ReceiveErr, processVars, reloadVars, wsVars
  <2>2. stopErr' = lastRes /\ errChan' = << >>
    BY <1>1, <2>1 DEF SimpleInv
  <2> QED
    BY <1>1, <2>1, <2>2 DEF SimpleInv, Server
<1>9. CASE WatchStep
  <2>1. /\ UNCHANGED <<restarting, svc, inst, started, errChan, lastRes, ctxBound>>
        /\ ret'["main"] = ret["main"] /\ UNCHANGED <<ws, rl, stopErr>>
    BY <1>0, <1>9 DEF WatchStep, EnsureStopped, EnsurePoll, EnsureState, EnsureFlag, EnsureSend,
       WatchFrame, WatchTo, Invoke, TakeResult, collectorVars, processVars, reloadVars, wsVars
  <2>2. call' = call \/ call' = [call EXCEPT !["watch"] = "getState"]
    BY <1>9 DEF WatchStep, EnsureStopped, EnsurePoll, EnsureState, EnsureFlag, EnsureSend,
       Invoke, TakeResult, collectorVars
  <2>3. main' = main \/ (main = "wait" /\ main' = "stop")
    BY <1>0, <1>9 DEF WatchStep, EnsureStopped, EnsurePoll, EnsureState, EnsureFlag, EnsureSend,
       ErrCap, WatchTo
  <2> QED
    BY <1>0, <1>1, <2>1, <2>2, <2>3 DEF SimpleInv, Server
<1>10. CASE WsStep
  BY <1>0, <1>1, <1>10 DEF SimpleInv, WsStep, WsReceive, WsReloadFailed, WsHash, WsStatus, WsNopOff,
       WsLoadFlag, WsReport
<1>11. CASE Signal
  BY <1>1, <1>11 DEF SimpleInv, Server, Signal, Cancel, processVars, baseVars, reloadVars, wsVars
<1>12. CASE Collector
  <2>1. CollectorStep /\ CollectorFrame
    BY <1>12 DEF Collector, CollectorStep, CallerStep, SvcStep
  <2>2. UNCHANGED <<main, ws, rl, stopErr>> /\ main # "done"
    BY <2>1 DEF CollectorFrame, Exited, baseVars, reloadVars, wsVars
  <2> QED
    BY <1>1, <2>1, <2>2, SimpleCaller, SimpleSvc DEF CollectorStep
<1>13. CASE UNCHANGED vars
  BY <1>1, <1>13 DEF SimpleInv, Server, vars, collectorVars, baseVars, reloadVars, wsVars
<1> QED
  BY <1>2, <1>3, <1>4, <1>5, <1>6, <1>7, <1>8, <1>9, <1>10, <1>11, <1>12, <1>13
  DEF Next, MainStep

\* What Stop of the simpleClient returns is what svc.Run returned, for any
\* configuration and any order of failures, signals and polls: the wrapper
\* reports the error before its goroutine ends, and Shutdown waits for that.
THEOREM SimpleStopReportsErrorTheorem == Spec => []SimpleStopReportsError
<1>1. Init => SimpleInv
  <2> SUFFICES ASSUME Init
               PROVE  SimpleInv
    OBVIOUS
  <2>1. call["main"] = "idle" /\ call["ws"] = "idle" /\ call["watch"] = "idle"
    BY ServiceAssumption DEF Init, CollectorInit
  <2> QED
    BY <2>1 DEF Init, CollectorInit, SimpleInv, NoInstance, Reloaders
<1>2. SimpleInv => SimpleStopReportsError
  BY DEF SimpleInv, SimpleStopReportsError
<1> QED
  BY <1>1, <1>2, SimpleNext, ServiceInvariant, PTL DEF Spec

=============================================================================
