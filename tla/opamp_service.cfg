SPECIFICATION Spec
CONSTANTS
    Callers <- MCCallers
    Configs <- MCConfigs
    GoodConfigs <- MCGood
    Init0 = "init"
    Nop = "nop"
    Garbage = "garbage"
    NoBody = "nobody"
    Remote <- MCRemote
    MaxRemote = 2
    MaxStarts = 6
    CtxBound <- MCBool
    SettingsOK <- MCBool
    MaxFaults = 1
INVARIANTS TypeOK OneServiceAlive RunningMatchesFile FailureIsRetried SimpleStopReportsError NopHidden
CHECK_DEADLOCK FALSE
