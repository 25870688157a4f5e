SPECIFICATION SearchSpec
CONSTANTS
  Queries = {empty, text}
  CompactQueries = {empty}
  MaxTyped = 1
  MaxData = 2
  MaxShows = 2
  None = None
  Texts = {a, b}
  CacheLimit = 0
  MaxSearches = 4
  MaxReloads = 1
  Ids = {p1}
  Queriers = {q1}
  Launchers = {l1, l2}
  MaxRequests = 2
  MaxTasks = 2
  MaxOthers = 1
  Nobody = nobody
INVARIANTS
  SearchTypeOK
  ActivatesTheCurrent
  ShownAtRest
  HostsBelong
  AnswersOwnRequest
CHECK_DEADLOCK FALSE
