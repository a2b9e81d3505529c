\* Two connections that share a session, and the expiry loop.
SPECIFICATION Spec
CONSTANTS
  Conns = {c1, c2}
  Cleaner = Cleaner
  SessionIDs = {s1}
  Shares = {sh1}
  ReadOnly = {}
  Names = {a, b}
  Modes <- MCModes
  Dispositions = {"FILE_OPEN_IF"}
  DeleteOptions = {TRUE}
  MaxTrees = 1
  MaxHandles = 2
  MaxSetInfo = 1
  None = None
SYMMETRY ServerSymmetry
CHECK_DEADLOCK FALSE
INVARIANTS
  TypeOK
  FilesAccounted
  IndexConsistent
  SharingChecked
  TeardownComplete
