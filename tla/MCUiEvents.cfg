SPECIFICATION EventsSpec
CONSTANTS
  Producers = {p1, p2}
  UI = ui
  BatchSizes <- MCBatchSizes
  MaxPushes = 5
  Workers = {w1, w2}
  NumQueues = 3
  Budget = 2
  QueueCap <- MCQueueCap
  MaxFailures = 1
  MaxBoxes = 1
  MaxActs = 4
  Ids = {p1}
  Queriers = {q1}
  Launchers = {l1}
  MaxTasks = 1
  MaxOthers = 0
  MaxRequests = 1
  Nobody = nobody
CHECK_DEADLOCK FALSE
INVARIANTS
  EventsTypeOK
  NoStrandedEvents
  OneMessageSuffices
  BarFollowsRecording
PROPERTIES
  StopIsFinal
  WaitingEnds
