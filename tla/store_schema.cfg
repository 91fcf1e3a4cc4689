SPECIFICATION Spec
CONSTANT
    LegacySets <- MCLegacySets
INVARIANTS
    NoStatementRefused
    SchemaSound
    WritersServed
    Converges
CHECK_DEADLOCK FALSE
