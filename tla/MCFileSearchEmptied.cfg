SPECIFICATION Spec
CONSTANTS
  MaxActs = 3
CHECK_DEADLOCK FALSE
INVARIANT NewestCorpusSearched
