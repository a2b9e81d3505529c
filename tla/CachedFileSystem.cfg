\* Two goroutines over two directories and a file that moves between them.
SPECIFICATION Spec
CONSTANTS
  Clients = {c1, c2}
  Paths <- MCPaths
  InitialTree <- MCInitialTree
  MaxCacheEntries = 2
  RepliesLost = TRUE
  MaxCalls = 4
  None = None
SYMMETRY ClientSymmetry
CHECK_DEADLOCK FALSE
INVARIANTS
  TypeOK
  Tracked
  StatCoherent
  DirCoherent
PROPERTY LimitKept
