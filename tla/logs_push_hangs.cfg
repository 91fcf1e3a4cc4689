SPECIFICATION Spec
CONSTANTS
    Pushes = {"a"}
    Records = 4
    Limit = 2
    MaxFaults = 1
    MaxTries = 1

PROPERTY
    ErrorEndsPush
CHECK_DEADLOCK FALSE
