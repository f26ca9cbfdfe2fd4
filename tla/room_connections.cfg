CONSTANTS
    MaxStrikes = 2
    MaxTurns = 1
    MaxConns = 2
    MaxRestarts = 1
SPECIFICATION Spec
INVARIANTS
    EndsOnceAndKnown
    DisconnectedIsTimed
PROPERTIES
    NoForfeitWhilePresent
    FrozenAfterEnd
CHECK_DEADLOCK FALSE
