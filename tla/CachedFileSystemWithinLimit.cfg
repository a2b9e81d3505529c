\* One goroutine and a limit of one entry.
SPECIFICATION Spec
CONSTANTS
  Clients = {c1}
  Paths <- MCPaths
  InitialTree <- MCInitialTree
  MaxCacheEntries = 1
  RepliesLost = FALSE
  MaxCalls = 5
  None = None
CHECK_DEADLOCK FALSE
INVARIANT WithinLimit
