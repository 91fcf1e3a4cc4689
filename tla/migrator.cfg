CONSTANTS
    Migrations <- MCMigrations
    Regular <- MCRegular
    Squashed <- MCSquashed
    Ops <- MCOps
    Ups = {up1, up2}
    Checks = {"check1"}
    LegacySets = {{}, {"logs", "metrics", "traces"}}
    Shards = {"s1"}
    MaxFaults = 1
SPECIFICATION Spec
INVARIANTS
    TypeOK
    UpsMarkFinished
PROPERTIES
    ImplementsOrdered
    ChecksSucceed
CHECK_DEADLOCK FALSE
