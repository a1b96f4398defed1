SPECIFICATION FairSpec
CONSTANTS
  Calls = {c1, c2}
  a = a
  b = b
  Paths <- MCPaths
  MaxCount = 2
  MaxEntries = 2
INVARIANTS RefreshIsFinal FetchesAreShared
PROPERTIES RequestsArePaced CallsEnd
CHECK_DEADLOCK FALSE
