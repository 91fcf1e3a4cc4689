SPECIFICATION Spec
CONSTANTS
    a = a
    b = b
    Pushes = {a, b}
    Configs <- MCConfigs
    NoValue = NoValue
    Nil = Nil
    Attached = Attached
    MaxDistinct = 1
INVARIANTS KnownIsWritten CacheIsBounded
PROPERTY LostIsWritten
CHECK_DEADLOCK FALSE
