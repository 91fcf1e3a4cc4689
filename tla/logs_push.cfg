SPECIFICATION Spec
CONSTANTS
    Pushes = {"a", "b"}
    Records = 3
    Limit = 2
    MaxFaults = 1
    MaxTries = 2
INVARIANTS
    StreamOutlivesProducers
    WholeBatchSent
PROPERTY
    PushEndsUnlessFault
CHECK_DEADLOCK FALSE
