SPECIFICATION Spec
CONSTANTS
  MaxEvents = 2
INVARIANTS
  BoardIsShown
CHECK_DEADLOCK FALSE
