SPECIFICATION SessionsSpec
CONSTANTS
  Conns = {c1, c2}
  Devices = {d1, d2}
  Addresses = {a1, a2}
  MaxWorkers = 2
  MaxPending = 2
  MaxPerAddress = 1
  MaxInvites = 2
  MaxStarts = 2
  UI = ui
  None = None
  MaxLinks = 2
  MaxMedia = 2
  MaxSessions = 2
  MaxStatuses = 1
  MaxCommands = 2
  MaxInputs = 1
  MaxTyped = 1
SYMMETRY MCSymmetry
INVARIANTS
  SessionsTypeOK
  SingleUse
  ConfirmedIsDurable
  ForgottenIsGone
  LimitsHold
  EndsEverywhere
CHECK_DEADLOCK FALSE
