SPECIFICATION FairSpec
CONSTANTS
  Conns <- MCConns
  Nil <- MCNil
  Sids <- MCSids
  Deployments <- MCDeployments
\* A server that is not stopped may run out of messages.
CHECK_DEADLOCK FALSE
INVARIANTS
  TypeOK
  CountExact
  NothingLeftRunning
  KeysAgree
  RepliesSigned
  NoAbandonedSetup
PROPERTY StopReturns
