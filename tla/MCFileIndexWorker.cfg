SPECIFICATION FairSpec
CONSTANTS
  Roots = {r1}
  MaxRescanRetries = 1
  MaxWatchRetries = 1
  MaxGenerations = 3
  MaxRebuilds = 1
  MaxStops = 1
  MaxChanges = 1
  MaxFlips = 1
  None = None
INVARIANTS
  TypeOK
  DeliveredIsComplete
  RecordsDescribeIndex
  WatchedIsIndexed
PROPERTIES
  RequestsAreServed
CHECK_DEADLOCK FALSE
