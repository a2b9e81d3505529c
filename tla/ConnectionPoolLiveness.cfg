\* Two callers over one slot, no symmetry: every call of get ends.
SPECIFICATION FairSpec
CONSTANTS
  Clients = {c1, c2}
  Conns = {x1, x2}
  Chans = {h1, h2}
  MaxOpen = 1
  MaxIdle = 2
  IdleTimeout = 1
  Nil = Nil
  Closed = Closed
  Cleaner = Cleaner
PROPERTIES
  GetReturns
  ClosedDrains
