SPECIFICATION Spec
CONSTANTS
    p1 = p1
    p2 = p2
    Partitions = {p1, p2}
    Size <- MCSize
    Bad <- MCBad
    MaxRefusals = 2
    MaxErrors = 1
    MaxEnds = 1
INVARIANTS
    NothingSkipped
PROPERTIES
    SkipsOnlyBeforeFirstCommit
    PartitionAdvances
    ShutdownEnds
CHECK_DEADLOCK FALSE
