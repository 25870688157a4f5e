SPECIFICATION WorkersSpec
CONSTANTS
  MaxActs = 3
  MaxAttempts = 2
  Files = {1, 2}
  MaxMoves = 4
CHECK_DEADLOCK FALSE
INVARIANTS
  WorkersTypeOK
  ShownIsCurrent
PROPERTIES
  AnswersAreLatest
  WaitingEnds
