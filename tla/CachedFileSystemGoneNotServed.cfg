\* One goroutine that loses no reply: a directory is renamed with a cached file.
SPECIFICATION Spec
CONSTANTS
  Clients = {c1}
  Paths <- MCPaths
  InitialTree <- MCInitialTree
  MaxCacheEntries = 4
  RepliesLost = FALSE
  MaxCalls = 3
  None = None
CHECK_DEADLOCK FALSE
INVARIANT GoneNotServed
