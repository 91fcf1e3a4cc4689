SPECIFICATION Spec
CONSTANTS
    Dropped = {"host"}
    EffectiveFrom = 2
    Pushes = {"p1", "p2"}
    Kinds = {"traces", "logs", "metrics", "meter"}
    Metrics <- MCMetrics
    Ruled <- MCRuled
    MaxTries = 3
    MaxFaults = 1
INVARIANTS
    AckedIsStored
    SamplesHaveSeries
    ConnectionOutlivesUsers
    UsageReported
PROPERTY
    ShutdownCompletes
CHECK_DEADLOCK FALSE
