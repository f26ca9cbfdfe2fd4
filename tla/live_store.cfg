CONSTANTS
    MaxState = 5
    MaxStops = 2
    MaxFailures = 2
SPECIFICATION Spec
INVARIANTS
    RowSound
    DeletedForGood
    SavedBeforeDeleted
PROPERTIES
    DurableSpec
CHECK_DEADLOCK FALSE
