CONSTANTS
    MaxStrikes = 2
    MaxTurns = 3
    MaxConns = 1
    MaxRestarts = 0
SPECIFICATION FairSpec
INVARIANTS
    BoardAndMatch
    StrikesAreDistinctPhases
    StruckPhasesEnd
PROPERTIES
    OfferLapses
    KeepsGoing
CHECK_DEADLOCK FALSE
