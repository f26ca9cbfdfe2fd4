SPECIFICATION Spec
CONSTANTS
  Catalog <- MCCatalog
  Starts <- MCStarts
  MaxStrikes = 3
  ManaCap = 10
INVARIANTS
  BoardIsSound
  MoverHasAMove
  MovesShownAreAccepted
  TargetsShownAreAccepted
PROPERTIES
  FrozenStays
CHECK_DEADLOCK FALSE
