---------------------------- MODULE OpampService ----------------------------
(***************************************************************************)
(* The life of the collector process: runInteractive (cmd/...main.go), the  *)
(* service and the client it chose.  With a manager configuration the       *)
(* client is the OpAMP serverClient, which starts the collector with a      *)
(* no-op configuration and replaces it by what the server sends; without    *)
(* one it is the simpleClient, which only runs the collector.               *)
(*                                                                         *)
(* Three goroutines call the wrapped collector: "main", "ws" (the OpAMP     *)
(* client's websocket goroutine, which executes the callbacks one at a      *)
(* time) and "watch" (ensureRunning).                                       *)
(***************************************************************************)
EXTENDS WrappedCollector

CONSTANTS
    Nop,        \* the no-op configuration derived from the initial one
    Remote,     \* configurations the OpAMP server may send
    Garbage,    \* what a failed write leaves in the file
    NoBody,     \* a remote message without a collector configuration
    MaxRemote,  \* bound: messages the OpAMP server sends
    MaxFaults   \* bound: file operations and OpAMP calls that fail

ASSUME ServiceAssumption ==
    /\ Callers = {"main", "ws", "watch"}
    /\ {Nop, Garbage} \cup Remote \subseteq Configs
    /\ Garbage \notin GoodConfigs \cup Remote
    /\ Nop \notin Remote \cup {Init0}     \* contents tell configurations apart
    /\ NoBody \notin Configs
    /\ MaxRemote \in Nat
    /\ MaxStarts >= 2 * (MaxRemote + 1)
    /\ MaxFaults \in Nat

VARIABLES
    main,         \* where runInteractive and the client's Start and Stop are
    stopErr,      \* the collector's part of what Stop returns
    watch,        \* where ensureRunning is
    stopped,      \* the channel baseClient.stopped is closed
    err,          \* messages in the channel baseClient.err
    isReloading,  \* baseClient.isReloading
    reloadMux,    \* holder of reloadMux, or Free
    rl,           \* where main and ws are inside reload
    rlArg,        \* the contents each of them reloads
    rlRes,        \* what reload returned to each of them
    rollback,     \* contents of the .rollback file
    runningNop,   \* serverClient.runningNopConfig
    currentHash,  \* remoteControlledConfig.currentHash: whose hash it is
    received,     \* agentConfigManager.initialConfigReceived
    ws,           \* where the websocket goroutine is
    wsCfg,        \* the remote configuration it handles
    wsChanged,    \* the result "changed" of Apply
    wsErr,        \* the result "err" of Apply
    wsOverride,   \* GetEffectiveConfig found runningNopConfig set
    status,       \* the RemoteConfigStatus sent for the last message, or <<>>
    remotes,      \* remote messages received so far
    faults        \* file operations and OpAMP calls that failed so far

baseVars == <<main, stopErr, watch, stopped, err>>
reloadVars == <<isReloading, reloadMux, rl, rlArg, rlRes, rollback>>
wsVars == <<runningNop, currentHash, received, ws, wsCfg, wsChanged, wsErr,
            wsOverride, status, remotes>>
vars == <<collectorVars, baseVars, reloadVars, wsVars, faults>>

Server == ~ctxBound   \* service.New: a manager configuration was given
Reloaders == {"main", "ws"}
ErrCap == IF Server THEN 1 ELSE 0   \* capacity of baseClient.err

Init ==
    /\ CollectorInit
    /\ main = "start" /\ stopErr = Nil
    /\ watch = "off" /\ stopped = FALSE /\ err = 0
    /\ isReloading = FALSE /\ reloadMux = Free
    /\ rl = [p \in Reloaders |-> "off"]
    /\ rlArg = [p \in Reloaders |-> Init0]
    /\ rlRes = [p \in Reloaders |-> Nil]
    /\ rollback = Init0
    /\ runningNop = FALSE /\ currentHash = Init0 /\ received = FALSE
    /\ ws = "off" /\ wsCfg = NoBody /\ wsChanged = FALSE /\ wsErr = Nil
    /\ wsOverride = FALSE
    /\ status = <<>> /\ remotes = 0 /\ faults = 0

\* The process has ended: no goroutine takes another step.
Exited == main \in {"done", "fatal"}

\* An operation of the environment succeeds, or fails.
Works == UNCHANGED faults
Fault == faults < MaxFaults /\ faults' = faults + 1

-----------------------------------------------------------------------------
(* serverClient.reload, executed by main and by ws *)

ReloadFrame == ~Exited /\ UNCHANGED <<baseVars, wsVars>>

EnterReload(p, c) ==
    /\ rl' = [rl EXCEPT ![p] = "lock"]
    /\ rlArg' = [rlArg EXCEPT ![p] = c]
    /\ rlRes' = [rlRes EXCEPT ![p] = Nil]
    /\ UNCHANGED <<isReloading, reloadMux, rollback>>

ReloadTo(p, at) == rl' = [rl EXCEPT ![p] = at]

ReloadFails(p) ==
    /\ ReloadTo(p, "unlock")
    /\ rlRes' = [rlRes EXCEPT ![p] = Err]

\* The lock is taken and the file copied to .rollback.
ReloadLock(p) ==
    /\ rl[p] = "lock" /\ reloadMux = Free
    /\ reloadMux' = p
    /\ isReloading' = TRUE
    /\ \/ /\ Works
          /\ rollback' = file
          /\ ReloadTo(p, "write")
          /\ UNCHANGED rlRes
       \/ /\ Fault
          /\ ReloadFails(p)
          /\ UNCHANGED rollback
    /\ UNCHANGED <<collectorVars, rlArg>>
    /\ ReloadFrame

\* Mutant: a collector that is already there is not restarted.
ReloadOnlyWrites(p) ==
    /\ rl[p] = "write"
    /\ WriteConfig(rlArg[p])
    /\ ReloadTo(p, IF svc = 0 THEN "restart" ELSE "unlock")
    /\ UNCHANGED <<isReloading, reloadMux, rlArg, rlRes, rollback>>
    /\ Works
    /\ ReloadFrame

\* os.WriteFile truncates the file before it writes: a failure leaves the old
\* contents, or garbage, and reload returns without rolling back.
ReloadWrite(p) ==
    /\ rl[p] = "write"
    /\ \/ /\ Works
          /\ WriteConfig(rlArg[p])
          /\ ReloadTo(p, "restart")
          /\ UNCHANGED rlRes
       \/ /\ Fault
          /\ \E c \in {file, Garbage} : WriteConfig(c)
          /\ ReloadFails(p)
    /\ UNCHANGED <<isReloading, reloadMux, rlArg, rollback>>
    /\ ReloadFrame

ReloadRestart(p) ==
    /\ rl[p] \in {"restart", "rollbackRestart"}
    /\ Invoke(p, "restart")
    /\ ReloadTo(p, IF rl[p] = "restart" THEN "restarting" ELSE "rollingBack")
    /\ UNCHANGED <<isReloading, reloadMux, rlArg, rlRes, rollback>>
    /\ Works
    /\ ReloadFrame

ReloadRestarted(p) ==
    /\ rl[p] = "restarting" /\ call[p] = "idle" /\ ret[p] = Nil
    /\ ReloadTo(p, "unlock")
    /\ rlRes' = [rlRes EXCEPT ![p] = Nil]
    /\ UNCHANGED <<collectorVars, isReloading, reloadMux, rlArg, rollback>>
    /\ Works
    /\ ReloadFrame

\* A failed restart: the backup is copied back (a failure of the copy is only
\* logged), and the collector is restarted with it.
ReloadRollback(p) ==
    /\ rl[p] = "restarting" /\ call[p] = "idle" /\ ret[p] = Err
    /\ \/ Works /\ WriteConfig(rollback)
       \/ Fault /\ \E c \in {file, Garbage} : WriteConfig(c)
    /\ ReloadTo(p, "rollbackRestart")
    /\ UNCHANGED <<isReloading, reloadMux, rlArg, rlRes, rollback>>
    /\ ReloadFrame

ReloadRolledBack(p) ==
    /\ rl[p] = "rollingBack"
    /\ ReloadFails(p)
    /\ TakeResult(p)
    /\ UNCHANGED <<isReloading, reloadMux, rlArg, rollback>>
    /\ Works
    /\ ReloadFrame

\* Mutant: isReloading is not reset.
ReloadKeepsFlag(p) ==
    /\ rl[p] = "unlock"
    /\ reloadMux' = Free
    /\ ReloadTo(p, "off")
    /\ rlArg' = [rlArg EXCEPT ![p] = Init0]
    /\ UNCHANGED <<collectorVars, isReloading, rlRes, rollback>>
    /\ Works
    /\ ReloadFrame

ReloadUnlock(p) ==
    /\ rl[p] = "unlock"
    /\ isReloading' = FALSE
    /\ reloadMux' = Free
    /\ ReloadTo(p, "off")
    /\ rlArg' = [rlArg EXCEPT ![p] = Init0]
    /\ UNCHANGED <<collectorVars, rlRes, rollback>>
    /\ Works
    /\ ReloadFrame

ReloadStep(p) ==
    \/ ReloadLock(p) \/ ReloadWrite(p)
    \/ ReloadRestart(p) \/ ReloadRestarted(p) \/ ReloadRollback(p)
    \/ ReloadRolledBack(p) \/ ReloadUnlock(p)

-----------------------------------------------------------------------------
(* main: runInteractive, service, and the client's Start and Stop *)

MainTo(at) == main' = at /\ UNCHANGED <<stopErr, watch, stopped, err>>

\* simpleClient.Start
SimpleStart ==
    /\ main = "start" /\ ~Server
    /\ Invoke("main", "run")
    /\ MainTo("simpleRun")
    /\ UNCHANGED <<reloadVars, wsVars>>
    /\ Works

SimpleStarted ==
    /\ main = "simpleRun" /\ call["main"] = "idle"
    /\ \/ /\ ret["main"] = Nil
          /\ main' = "wait" /\ watch' = "sleep"
       \/ /\ ret["main"] # Nil
          /\ main' = "fatal" /\ UNCHANGED watch
    /\ UNCHANGED <<collectorVars, stopErr, stopped, err, reloadVars, wsVars>>
    /\ Works

\* serverClient.Start: opampClient.Start returns with its goroutine running.
ServerStart ==
    /\ main = "start" /\ Server
    /\ MainTo("nop")
    /\ ws' = "idle"
    /\ UNCHANGED <<collectorVars, reloadVars, runningNop, currentHash, received,
                   wsCfg, wsChanged, wsErr, wsOverride, status, remotes>>
    /\ Works

\* The OpAMP client or the no-op configuration cannot be set up.
ServerStartFails ==
    /\ main \in {"start", "nop"} /\ Server /\ Fault
    /\ MainTo("fatal")
    /\ UNCHANGED <<collectorVars, reloadVars, wsVars>>

\* Mutant: the no-op mode is not recorded.
ApplyNopUnmarked ==
    /\ main = "nop"
    /\ EnterReload("main", Nop)
    /\ MainTo("reload")
    /\ UNCHANGED <<collectorVars, wsVars>>
    /\ Works

ApplyNop ==
    /\ main = "nop"
    /\ runningNop' = TRUE
    /\ EnterReload("main", Nop)
    /\ MainTo("reload")
    /\ UNCHANGED <<collectorVars, currentHash, received, ws, wsCfg, wsChanged,
                   wsErr, wsOverride, status, remotes>>
    /\ Works

ServerStarted ==
    /\ main = "reload" /\ rl["main"] = "off"
    /\ \/ /\ rlRes["main"] = Nil
          /\ main' = "wait" /\ watch' = "sleep"
       \/ /\ rlRes["main"] = Err
          /\ main' = "fatal" /\ UNCHANGED watch
    /\ UNCHANGED <<collectorVars, stopErr, stopped, err, reloadVars, wsVars>>
    /\ Works

\* runInteractive leaves its select: the context is done, or the client
\* reports an error.
ContextDone ==
    /\ main = "wait" /\ ctxDone
    /\ MainTo("stop")
    /\ UNCHANGED <<collectorVars, reloadVars, wsVars>>
    /\ Works

ServiceError ==
    /\ main = "wait" /\ err > 0
    /\ main' = "stop" /\ err' = err - 1
    /\ UNCHANGED <<collectorVars, stopErr, watch, stopped, reloadVars, wsVars>>
    /\ Works

\* Stop of either client: close(stopped), then the collector's Shutdown.
Stop ==
    /\ main = "stop"
    /\ stopped' = TRUE
    /\ main' = "shutdown"
    /\ Invoke("main", "shutdown")
    /\ UNCHANGED <<stopErr, watch, err, reloadVars, wsVars>>
    /\ Works

StopShutdown ==
    /\ main = "shutdown" /\ call["main"] = "idle"
    /\ MainTo(IF Server THEN "opampStop" ELSE "readErr")
    /\ UNCHANGED <<collectorVars, reloadVars, wsVars>>
    /\ Works

\* opampClient.Stop waits for the callback in progress, at most until the
\* context of runInteractive expires (5 s).
OpampStop ==
    /\ main = "opampStop"
    /\ MainTo("readErr")
    /\ ws' = IF ws = "idle" THEN "off" ELSE ws
    /\ UNCHANGED <<collectorVars, reloadVars, runningNop, currentHash, received,
                   wsCfg, wsChanged, wsErr, wsOverride, status, remotes>>
    /\ Works

\* <-coll.ErrorChan(), and the process ends.
StopReturns ==
    /\ main = "readErr"
    /\ ReceiveErr
    /\ stopErr' = Head(errChan)
    /\ main' = "done"
    /\ UNCHANGED <<watch, stopped, err, reloadVars, wsVars>>
    /\ Works

\* SIGINT or SIGTERM
Signal ==
    /\ ~Exited
    /\ Cancel
    /\ UNCHANGED <<baseVars, reloadVars, wsVars>>
    /\ Works

MainStep ==
    \/ SimpleStart \/ SimpleStarted
    \/ ServerStart \/ ServerStartFails \/ ApplyNop \/ ServerStarted
    \/ ContextDone \/ ServiceError
    \/ Stop \/ StopShutdown \/ OpampStop \/ StopReturns

-----------------------------------------------------------------------------
(* watch: ensureRunning *)

WatchFrame == ~Exited /\ UNCHANGED <<reloadVars, wsVars, faults>>

WatchTo(at) == watch' = at /\ UNCHANGED <<main, stopErr, stopped, err>>

EnsureStopped ==
    /\ watch = "sleep" /\ stopped
    /\ WatchTo("done")
    /\ UNCHANGED collectorVars
    /\ WatchFrame

EnsurePoll ==
    /\ watch = "sleep"
    /\ Invoke("watch", "getState")
    /\ WatchTo("state")
    /\ WatchFrame

EnsureState ==
    /\ watch = "state"
    /\ WatchTo(IF ret["watch"] = "Closed" THEN "flag" ELSE "sleep")
    /\ TakeResult("watch")
    /\ WatchFrame

EnsureFlag ==
    /\ watch = "flag"
    /\ WatchTo(IF isReloading THEN "sleep" ELSE "send")
    /\ UNCHANGED collectorVars
    /\ WatchFrame

\* Mutant: the channel takes any number of errors.
EnsureSendAlways ==
    /\ watch = "send"
    /\ watch' = "sleep"
    /\ err' = err + 1
    /\ UNCHANGED <<collectorVars, main, stopErr, stopped>>
    /\ WatchFrame

\* The channel of the serverClient has room for one error; that of the
\* simpleClient hands it to runInteractive while it waits.
EnsureSend ==
    /\ watch = "send"
    /\ err < ErrCap \/ (ErrCap = 0 /\ main = "wait")
    /\ watch' = "sleep"
    /\ IF ErrCap = 0 THEN main' = "stop" /\ UNCHANGED err
                     ELSE err' = err + 1 /\ UNCHANGED main
    /\ UNCHANGED <<collectorVars, stopErr, stopped>>
    /\ WatchFrame

WatchStep ==
    EnsureStopped \/ EnsurePoll \/ EnsureState \/ EnsureFlag \/ EnsureSend

-----------------------------------------------------------------------------
(* ws: the callbacks of the OpAMP client *)

WsFrame == ~Exited /\ UNCHANGED <<collectorVars, baseVars>>

\* The handler returns; its locals are gone.
WsReturn(at) == ws' = at /\ wsCfg' = NoBody /\ wsChanged' = FALSE /\ wsErr' = Nil

\* GetEffectiveConfig: the library asks for the effective configuration when it
\* connects or the server wants a full report, and after a change (WsNopOff).
\* The flag is loaded ...
WsLoadFlag ==
    /\ ws = "report" \/ (ws = "idle" /\ main # "readErr")
    /\ wsOverride' = runningNop
    /\ ws' = "read"
    /\ UNCHANGED <<reloadVars, runningNop, currentHash, received, wsCfg, wsChanged,
                   wsErr, status, remotes>>
    /\ Works
    /\ WsFrame

\* ... and CreateEffectiveConfigMsg takes the override or reads the file, at a
\* time of its own and without reloadMux.  An error ends the report only.
EffectiveConfig == IF wsOverride THEN Init0 ELSE file

WsReport ==
    /\ ws = "read"
    /\ wsOverride' = FALSE
    /\ ws' = "idle"
    /\ UNCHANGED <<reloadVars, runningNop, currentHash, received, wsCfg, wsChanged,
                   wsErr, status, remotes>>
    /\ Works
    /\ WsFrame

\* Mutant: the hash is updated before the reload.
WsReceiveHash(c) ==
    /\ ws = "idle" /\ main # "readErr"
    /\ remotes < MaxRemote
    /\ remotes' = remotes + 1
    /\ wsCfg' = c
    /\ IF c = NoBody \/ (received /\ currentHash = c)
       THEN ws' = "status" /\ UNCHANGED <<reloadVars, currentHash>>
       ELSE ws' = "reload" /\ EnterReload("ws", c) /\ currentHash' = c
    /\ UNCHANGED <<runningNop, received, wsChanged, wsErr, wsOverride, status>>
    /\ Works
    /\ WsFrame

\* onMessageFuncHandler and Apply, up to the reload.  A message without a
\* collector configuration changes nothing and is reported as applied.
WsReceive(c) ==
    /\ ws = "idle" /\ main # "readErr"
    /\ remotes < MaxRemote
    /\ remotes' = remotes + 1
    /\ wsCfg' = c
    /\ IF c = NoBody \/ (received /\ currentHash = c)
       THEN ws' = "status" /\ UNCHANGED reloadVars
       ELSE ws' = "reload" /\ EnterReload("ws", c)
    /\ UNCHANGED <<runningNop, currentHash, received, wsChanged, wsErr, wsOverride,
                   status>>
    /\ Works
    /\ WsFrame

WsReloadFailed ==
    /\ ws = "reload" /\ rl["ws"] = "off" /\ rlRes["ws"] = Err
    /\ wsErr' = Err
    /\ ws' = "status"
    /\ rlRes' = [rlRes EXCEPT !["ws"] = Nil]
    /\ UNCHANGED <<isReloading, reloadMux, rl, rlArg, rollback, runningNop,
                   currentHash, received, wsCfg, wsChanged, wsOverride, status, remotes>>
    /\ Works
    /\ WsFrame

\* UpdateCurrentHash reads the file again, after reload has released its
\* lock.  If that fails the hash of an empty file is kept.
WsHash ==
    /\ ws = "reload" /\ rl["ws"] = "off" /\ rlRes["ws"] = Nil
    /\ wsChanged' = TRUE
    /\ ws' = "status"
    /\ \/ /\ Works
          /\ currentHash' = file
          /\ received' = TRUE
          /\ UNCHANGED wsErr
       \/ /\ Fault
          /\ currentHash' = Garbage
          /\ wsErr' = Err
          /\ UNCHANGED received
    /\ UNCHANGED <<reloadVars, runningNop, wsCfg, wsOverride, status, remotes>>
    /\ WsFrame

\* onRemoteConfigHandler reports the outcome; it returns early when the
\* report cannot be set.
WsStatus ==
    /\ ws = "status"
    /\ \/ /\ Works
          /\ status' = <<wsCfg, IF wsErr = Nil THEN "APPLIED" ELSE "FAILED">>
          /\ IF wsChanged THEN ws' = "nopOff" /\ UNCHANGED <<wsCfg, wsChanged, wsErr>>
                          ELSE WsReturn("idle")
       \/ /\ Fault
          /\ WsReturn("idle")
          /\ status' = <<>>
    /\ UNCHANGED <<reloadVars, runningNop, currentHash, received, wsOverride, remotes>>
    /\ WsFrame

\* A changed configuration ends the no-op mode; UpdateEffectiveConfig, the last
\* call of the handler, reports the effective configuration.
WsNopOff ==
    /\ ws = "nopOff"
    /\ runningNop' = FALSE
    /\ WsReturn("report")
    /\ UNCHANGED <<reloadVars, currentHash, received, wsOverride, status, remotes>>
    /\ Works
    /\ WsFrame

WsStep ==
    \/ \E c \in Remote \cup {NoBody} : WsReceive(c)
    \/ WsReloadFailed \/ WsHash \/ WsStatus \/ WsNopOff
    \/ WsLoadFlag \/ WsReport

-----------------------------------------------------------------------------

CollectorFrame == ~Exited /\ UNCHANGED <<baseVars, reloadVars, wsVars, faults>>

\* The steps of WrappedCollector, taken by its callers and its goroutines.
Collector ==
    \/ \E p \in Callers : RunRefused(p) /\ CollectorFrame
    \/ \E p \in Callers : RunStart(p) /\ CollectorFrame
    \/ \E p \in Callers : RunReturn(p) /\ CollectorFrame
    \/ \E p \in Callers : ShutdownStart(p) /\ CollectorFrame
    \/ \E p \in Callers : ShutdownWait(p) /\ CollectorFrame
    \/ \E p \in Callers : ShutdownNil(p) /\ CollectorFrame
    \/ \E p \in Callers : ShutdownNilSend(p) /\ CollectorFrame
    \/ \E p \in Callers : GetState(p) /\ CollectorFrame
    \/ \E k \in Insts : SvcStarts(k) /\ CollectorFrame
    \/ \E k \in Insts : SvcStartFails(k) /\ CollectorFrame
    \/ \E k \in Insts : SvcCloses(k) /\ CollectorFrame
    \/ \E k \in Insts : SvcDies(k) /\ CollectorFrame
    \/ \E k \in Insts : SvcReturns(k) /\ CollectorFrame
    \/ \E k \in Insts : ReportError(k) /\ CollectorFrame
    \/ \E k \in Insts : SendColErr(k) /\ CollectorFrame
    \/ \E k \in Insts : PollRunning(k) /\ CollectorFrame
    \/ \E k \in Insts : PollSend(k) /\ CollectorFrame
    \/ \E k \in Insts : PollCtxDone(k) /\ CollectorFrame

Next == \/ MainStep \/ WatchStep \/ WsStep \/ Signal \/ Collector
        \/ \E p \in Reloaders : ReloadStep(p)

\* Every goroutine that can take a step eventually does; a caller that waits
\* for the mutex eventually gets it (Go's mutexes do not starve a waiter); the
\* collector library finishes what it begins.  Signals, remote messages and
\* the failures of components need not happen.
Fairness ==
    /\ WF_vars(MainStep)
    /\ WF_vars(WatchStep)
    /\ WF_vars(ws # "idle" /\ WsStep)
    /\ \A p \in Reloaders : WF_vars(ReloadStep(p))
    /\ \A p \in Callers : SF_vars(CallerStep(p) /\ CollectorFrame)
    /\ \A k \in Insts :
          /\ WF_vars(CollectorFrame /\
                     (\/ SvcStarts(k) \/ SvcStartFails(k) \/ SvcCloses(k)
                      \/ SvcReturns(k) \/ ReportError(k) \/ SendColErr(k)))
          /\ WF_vars(CollectorFrame /\
                     (PollRunning(k) \/ PollSend(k) \/ PollCtxDone(k)))

Spec == Init /\ [][Next]_vars /\ Fairness
-----------------------------------------------------------------------------
(* Properties *)

BaseTypeOK ==
    /\ main \in {"start", "simpleRun", "nop", "reload", "wait", "stop",
                 "shutdown", "opampStop", "readErr", "done", "fatal"}
    /\ stopErr \in ErrorValue
    /\ watch \in {"off", "sleep", "state", "flag", "send", "done"}
    /\ stopped \in BOOLEAN
    /\ err \in 0 .. 1
    /\ faults \in 0 .. MaxFaults

ReloadTypeOK ==
    /\ isReloading \in BOOLEAN
    /\ reloadMux \in Reloaders \cup {Free}
    /\ rl \in [Reloaders -> {"off", "lock", "write", "restart", "restarting",
                             "rollbackRestart", "rollingBack", "unlock"}]
    /\ rlArg \in [Reloaders -> Configs]
    /\ rlRes \in [Reloaders -> ErrorValue]
    /\ rollback \in Configs

WsTypeOK ==
    /\ runningNop \in BOOLEAN
    /\ currentHash \in Configs
    /\ received \in BOOLEAN
    /\ ws \in {"off", "idle", "reload", "status", "nopOff", "report", "read"}
    /\ wsCfg \in Remote \cup {NoBody}
    /\ wsChanged \in BOOLEAN
    /\ wsErr \in ErrorValue
    /\ wsOverride \in BOOLEAN
    /\ status \in {<<>>} \cup ((Remote \cup {NoBody}) \X {"APPLIED", "FAILED"})
    /\ remotes \in 0 .. MaxRemote

TypeOK == CollectorTypeOK /\ BaseTypeOK /\ ReloadTypeOK /\ WsTypeOK

\* Nobody is inside reload.
ReloadIdle == \A p \in Reloaders : rl[p] \in {"off", "lock"}

\* The running service and its configuration.
Running == svc # 0 /\ inst[svc].state = "Running"
Dead == svc # 0 /\ inst[svc].state = "Closed" /\ inst[svc].g = "done"

\* Between reloads the configuration the collector runs is the one in the
\* file, even after a failed reload was rolled back (server_client.go, reload:
\* write, restart, copy back, restart); the exception is a file that a failed
\* write has left unusable.
RunningMatchesFile ==
    Running /\ ReloadIdle => inst[svc].cfg = file \/ file = Garbage

\* Until a remote configuration was applied, GetEffectiveConfig does not report
\* the no-op configuration that the client made up (server_client.go, "override
\* reading the copy.yaml; send default config"), unless Start enters the no-op
\* mode between the load of the flag and the read of the file.
NopHidden ==
    /\ ws = "read" /\ wsOverride = runningNop
    /\ ~received /\ faults = 0
    => EffectiveConfig # Nop

\* A remote configuration that was reported as FAILED is not taken for the
\* current one: sent again, it is applied again (config_manager.go,
\* applyRemoteConfig updates the hash only after a successful reload).
FailureIsRetried ==
    ws = "idle" =>
        \A c \in Remote :
            status = <<c, "FAILED">> /\ received => currentHash # c

\* When Stop has returned, what it returned is what the last svc.Run did,
\* as the comment in collector.go's Run promises; here for the simpleClient.
SimpleStopReportsError ==
    main = "done" /\ ~Server => stopErr = lastRes

\* A collector that stopped by itself does not go unnoticed: ensureRunning
\* makes runInteractive leave its select, unless a reload revives it.
DeathNoticed == (main = "wait" /\ Dead) ~> (main # "wait" \/ ~Dead)

\* The handler of a remote configuration always ends while the service is up:
\* no lock of the reload path is kept (server_client.go, reload).  Settings
\* that cannot be built are excepted: then the second Shutdown of the rollback
\* blocks on the full errChan and the service never starts.
RemoteHandled ==
    (settingsOK /\ ws = "reload") ~>
        (ws # "reload" \/ main \notin {"nop", "reload", "wait"})

\* Shutdown of the service terminates; here for the simpleClient.
SimpleServiceStops == (~Server /\ main = "stop") ~> (main = "done")
=============================================================================
