SPECIFICATION Spec
CONSTANTS
  MaxMoves = 1
  MaxHand = 1
INVARIANTS
  OfferAwaitsAnswer
CHECK_DEADLOCK FALSE
