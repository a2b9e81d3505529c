\* One connection renames the file that it has open exclusively.
SPECIFICATION Spec
CONSTANTS
  Conns = {c1}
  Cleaner = Cleaner
  SessionIDs = {s1}
  Shares = {sh1}
  ReadOnly = {}
  Names = {a, b}
  Modes <- MCModes
  Dispositions = {"FILE_OPEN", "FILE_CREATE", "FILE_OPEN_IF", "FILE_OVERWRITE", "FILE_OVERWRITE_IF", "FILE_SUPERSEDE"}
  DeleteOptions = {FALSE, TRUE}
  MaxTrees = 1
  MaxHandles = 2
  MaxSetInfo = 1
  None = None
CHECK_DEADLOCK FALSE
INVARIANT SharingEnforced
