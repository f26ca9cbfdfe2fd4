SPECIFICATION Spec
CONSTANTS
  Catalog <- MCCatalog
  Starts <- WalkStarts
  MaxStrikes = 3
  ManaCap = 10
INVARIANTS
  TrackerFollowsBoard
CHECK_DEADLOCK FALSE
