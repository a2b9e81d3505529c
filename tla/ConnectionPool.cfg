\* Four callers over three slots; idle connections can expire together.
SPECIFICATION Spec
CONSTANTS
  Clients = {c1, c2, c3, c4}
  Conns = {x1, x2, x3}
  Chans = {h1, h2}
  MaxOpen = 3
  MaxIdle = 3
  IdleTimeout = 1
  Nil = Nil
  Closed = Closed
  Cleaner = Cleaner
SYMMETRY PoolSymmetry
INVARIANTS
  TypeOK
  SlotAccounting
  ExclusiveUse
  OwnedIsUsable
  NoMissedHandoff
  IdleBelowMaxIdle
  SessionsAccounted
PROPERTY ImplementsLease
