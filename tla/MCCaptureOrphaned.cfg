SPECIFICATION Spec
CONSTANT MaxActs = 4
CHECK_DEADLOCK FALSE
INVARIANT RunningBelongsToSomeone
