SPECIFICATION ThreadsSpec
CONSTANTS
  Callers = {t1, t2}
  Writer = writer
  Nobody = nobody
  Sizes = {1, 2}
  MaxQueuedMessages = 2
  MaxQueuedBytes = 3
  MaxMessages = 2
  Conns = {c1, c2}
  Devices = {d1}
  Addresses = {a1}
  MaxWorkers = 2
  MaxPending = 2
  MaxPerAddress = 2
  MaxInvites = 1
  MaxStarts = 1
  UI = ui
  None = none
CHECK_DEADLOCK FALSE
INVARIANTS
  TypeOK
  WireInOrder
  ToldTheTruth
  NeverStuck
PROPERTY
  EveryoneReturns
