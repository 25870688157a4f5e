SPECIFICATION TransfersSpec
CONSTANTS
  Names = {p1}
  NoRequest = NoRequest
  MaxConns = 2
  MaxAnswers = 1
  MaxRequests = 2
  Files = {f1, f2}
  MaxConcurrent = 1
  MaxWorkers = 2
  MaxOthers = 1
CHECK_DEADLOCK FALSE
INVARIANTS
  TransfersTypeOK
  EachEndsOnce
PROPERTIES
  TransfersSettle
