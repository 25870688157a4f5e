SPECIFICATION Spec
CONSTANTS
  Queries = {empty, text}
  CompactQueries = {empty}
  MaxTyped = 1
  MaxData = 2
  MaxShows = 2
  None = None
INVARIANT
  NoStaleReuse
CHECK_DEADLOCK FALSE
