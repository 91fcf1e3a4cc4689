SPECIFICATION Spec
CONSTANTS
    Callers <- MCCallers
    Configs <- MCConfigs
    GoodConfigs <- MCGood
    Init0 = "init"
    Nop = "nop"
    Garbage = "garbage"
    NoBody = "nobody"
    Remote <- MCRemote
    MaxRemote = 1
    MaxStarts = 4
    CtxBound <- MCBool
    SettingsOK <- MCBool
    MaxFaults = 0
PROPERTIES DeathNoticed RemoteHandled SimpleServiceStops
CHECK_DEADLOCK FALSE
