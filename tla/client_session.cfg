SPECIFICATION FairSpec
CONSTANTS
  MaxMoves = 1
  MaxHand = 1
INVARIANTS
  Driven
  SessionAgrees
  InSync
  AnswerToCome
PROPERTIES
  KeepsTrying
CHECK_DEADLOCK FALSE
