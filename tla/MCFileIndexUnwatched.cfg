SPECIFICATION Spec
CONSTANTS
  Roots = {r1}
  MaxRescanRetries = 1
  MaxWatchRetries = 1
  MaxGenerations = 1
  MaxRebuilds = 0
  MaxStops = 0
  MaxChanges = 1
  MaxFlips = 0
  None = None
INVARIANT CrawlChangesRetained
CHECK_DEADLOCK FALSE
