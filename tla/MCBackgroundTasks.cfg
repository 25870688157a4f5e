SPECIFICATION TasksSpec
CONSTANTS
  Workers = {w1, w2}
  Callers = {c1, c2}
  MaxTasks = 2
  None = None
  MaxSaves = 3
  MaxWrites = 1
  MaxMerges = 1
  MaxStarts = 2
CHECK_DEADLOCK FALSE
INVARIANTS
  TasksTypeOK
  NeverStuck
  StopLeavesWhole
  SavedIsTrueAtRest
PROPERTIES
  ShutdownsReturn
  ImplementsTaskPool
