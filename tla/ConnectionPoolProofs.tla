------------------------ MODULE ConnectionPoolProofs ------------------------
(***************************************************************************)
(* Proofs about the connection pool, for any number of callers and         *)
(* connections, any MaxOpen and MaxIdle: its types, what numOpen counts,   *)
(* and who may use a connection.                                           *)
(***************************************************************************)
EXTENDS ConnectionPool, SliceLemmas, SequenceTheorems, FiniteSetTheorems, TLAPS

(* Both provers, the quicker one first.                                      *)
USE ZenonT(1), SMTT(60)

-----------------------------------------------------------------------------
(* Types *)

LEMMA TypeInit == Init => TypeOK
<1> SUFFICES ASSUME Init PROVE TypeOK
  OBVIOUS
<1>1. connections \in Seq(Conns) /\ waiters \in Seq(Chans) /\ tail \in Seq(Conns)
  BY DEF Init
<1>2. age \in [Conns -> 0 .. IdleTimeout + 1]
  BY PoolAssumption DEF Init
<1>3. pc \in [Clients -> PCs]
  BY DEF Init, PCs
<1>4. closed \in BOOLEAN /\ ctxDone \in BOOLEAN /\ panicked \in BOOLEAN
  BY Zenon DEF Init
<1>5. inUse \in [Conns -> BOOLEAN] /\ live \subseteq Conns /\ closing \subseteq Conns
  BY DEF Init
<1>6. numOpen \in Int /\ pos \in Nat /\ mu \in Clients \cup {Cleaner, Nil}
  BY DEF Init
<1>7. /\ held \in [Clients -> Conns \cup {Nil}] /\ chan \in [Clients -> Chans \cup {Nil}]
      /\ buf \in [Chans -> Conns \cup {Nil, Closed}]
  BY DEF Init
<1> QED
  BY <1>1, <1>2, <1>3, <1>4, <1>5, <1>6, <1>7 DEF TypeOK

(* Who holds p.mu, and what get and cleanup rely on while they hold it.      *)
LockInv ==
  /\ mu # Nil => pos > 0 /\ ~closed
  /\ mu \notin Clients => tail = <<>>
  /\ \A c \in Clients : pc[c] = "scan" <=> mu = c

(* A caller holds a connection between get and put, and has a channel        *)
(* exactly while it waits.                                                   *)
CallerInv ==
  \A c \in Clients : /\ pc[c] = "hold" <=> held[c] # Nil
                     /\ pc[c] \in {"wait", "cancel"} <=> chan[c] # Nil

BaseInv == TypeOK /\ LockInv /\ CallerInv

LEMMA RangeViewElements ==
  ASSUME BaseInv, mu # Nil, pos <= Len(RangeView)
  PROVE  /\ RangeView[pos] \in Conns
         /\ RangeView[pos] \in ToSet(connections) \/ RangeView[pos] \in ToSet(tail)
<1>1. /\ connections \in Seq(Conns) /\ tail \in Seq(Conns)
      /\ pos \in Nat /\ pos > 0
  BY DEF BaseInv, TypeOK, LockInv
<1>2. /\ Len(RangeView) = Len(connections) + Len(tail)
      /\ \A i \in 1 .. Len(connections) + Len(tail) : RangeView[i] =
           IF i <= Len(connections) THEN connections[i] ELSE tail[i - Len(connections)]
  BY <1>1, ConcatProperties, Zenon DEF RangeView
<1>3. CASE pos <= Len(connections)
  <2>1. RangeView[pos] = connections[pos] /\ pos \in 1 .. Len(connections)
    BY <1>1, <1>2, <1>3
  <2> QED
    BY <1>1, <2>1 DEF ToSet
<1>4. CASE pos > Len(connections)
  <2>1. /\ RangeView[pos] = tail[pos - Len(connections)]
        /\ pos - Len(connections) \in 1 .. Len(tail)
    BY <1>1, <1>2, <1>4
  <2> QED
    BY <1>1, <2>1 DEF ToSet
<1> QED
  BY <1>1, <1>3, <1>4

LEMMA BaseInit == Init => BaseInv
BY PoolAssumption, TypeInit DEF Init, BaseInv, LockInv, CallerInv

LEMMA BaseStep == BaseInv /\ [Next]_vars => BaseInv'
<1> SUFFICES ASSUME BaseInv, [Next]_vars PROVE BaseInv'
  OBVIOUS
<1> USE PoolAssumption DEF BaseInv
<1>1. ASSUME NEW c \in Clients, GetClosed(c) PROVE BaseInv'
  BY <1>1 DEF TypeOK, LockInv, CallerInv, GetClosed, vars, poolVars, connVars, loopVars, callerVars
<1>2. ASSUME NEW c \in Clients, GetLock(c) PROVE BaseInv'
  <2>1. TypeOK'
    BY <1>2 DEF TypeOK, PCs, GetLock, LockFree, poolVars, connVars
  <2>2. LockInv'
    BY <1>2 DEF TypeOK, LockInv, GetLock, LockFree, poolVars, connVars
  <2>3. CallerInv'
    BY <1>2 DEF TypeOK, CallerInv, GetLock, LockFree, poolVars, connVars
  <2> QED
    BY <2>1, <2>2, <2>3
<1>3. ASSUME NEW c \in Clients, GetSkip(c) PROVE BaseInv'
  <2>1. TypeOK'
    BY <1>3 DEF TypeOK, GetSkip, Scanning, poolVars, connVars, callerVars
  <2>2. LockInv'
    BY <1>3 DEF TypeOK, LockInv, GetSkip, Scanning, poolVars, connVars, callerVars
  <2>3. CallerInv'
    BY <1>3 DEF TypeOK, CallerInv, GetSkip, Scanning, poolVars, connVars, callerVars
  <2> QED
    BY <2>1, <2>2, <2>3
<1>4. ASSUME NEW c \in Clients, GetReuse(c) PROVE BaseInv'
  <2> DEFINE x == RangeView[pos]
  <2>1. x \in Conns
    BY <1>4, RangeViewElements DEF GetReuse, Scanning
  <2>2. /\ CheckOut(c, x) /\ Unlock /\ pc[c] = "scan" /\ mu = c
        /\ UNCHANGED <<poolVars, live, closing, chan, buf, ctxDone, panicked>>
    BY <1>4 DEF GetReuse, Scanning
  <2> HIDE DEF x
  <2>3. TypeOK'
    BY <2>1, <2>2 DEF TypeOK, PCs, CheckOut, Unlock, poolVars
  <2>4. LockInv'
    BY <2>2 DEF TypeOK, LockInv, CheckOut, Unlock, poolVars
  <2>5. CallerInv'
    BY <2>1, <2>2 DEF TypeOK, CallerInv, CheckOut
  <2> QED
    BY <2>3, <2>4, <2>5
<1>5. ASSUME NEW c \in Clients, GetExpire(c) PROVE BaseInv'
  <2>1. /\ connections \in Seq(Conns) /\ tail \in Seq(Conns)
        /\ pos \in 1 .. Len(connections)
    BY <1>5 DEF GetExpire, Scanning, TypeOK, LockInv
  <2>2. connections' \in Seq(Conns)
    BY <1>5, <2>1, RemoveAtProperties DEF GetExpire
  <2>3. tail' \in Seq(Conns)
    <3>1. connections[Len(connections)] \in Conns
      BY <2>1
    <3> QED
      BY <1>5, <2>1, <3>1, ConcatProperties DEF GetExpire
  <2>4. closing' \subseteq Conns
    BY <1>5, <2>1 DEF GetExpire, TypeOK
  <2>5. TypeOK'
    BY <1>5, <2>2, <2>3, <2>4 DEF GetExpire, TypeOK, Scanning, callerVars
  <2>6. LockInv' /\ CallerInv'
    BY <1>5 DEF GetExpire, TypeOK, LockInv, CallerInv, Scanning, callerVars
  <2> QED
    BY <2>5, <2>6
<1>6. ASSUME NEW c \in Clients, GetPanic(c) PROVE BaseInv'
  <2>1. TypeOK'
    BY <1>6 DEF TypeOK, GetPanic, Scanning, poolVars, connVars, loopVars, callerVars
  <2>2. LockInv'
    BY <1>6 DEF TypeOK, LockInv, GetPanic, Scanning, poolVars, connVars, loopVars, callerVars
  <2>3. CallerInv'
    BY <1>6 DEF TypeOK, CallerInv, GetPanic, Scanning, poolVars, connVars, loopVars, callerVars
  <2> QED
    BY <2>1, <2>2, <2>3
<1>7. ASSUME NEW c \in Clients, GetCreate(c) PROVE BaseInv'
  <2>1. TypeOK'
    BY <1>7 DEF TypeOK, PCs, GetCreate, Scanning, Unlock, connVars
  <2>2. LockInv'
    BY <1>7 DEF TypeOK, LockInv, GetCreate, Scanning, Unlock, connVars
  <2>3. CallerInv'
    BY <1>7 DEF TypeOK, CallerInv, GetCreate, Scanning, Unlock, connVars
  <2> QED
    BY <2>1, <2>2, <2>3
<1>8. ASSUME NEW c \in Clients, GetEnqueue(c) PROVE BaseInv'
  <2>1. TypeOK'
    BY <1>8 DEF TypeOK, PCs, GetEnqueue, Scanning, Unlock, connVars, FreeChans
  <2>2. LockInv'
    BY <1>8 DEF TypeOK, LockInv, GetEnqueue, Scanning, Unlock, connVars, FreeChans
  <2>3. CallerInv'
    BY <1>8 DEF TypeOK, CallerInv, GetEnqueue, Scanning, Unlock, connVars, FreeChans
  <2> QED
    BY <2>1, <2>2, <2>3
<1>9. ASSUME NEW c \in Clients, CreateSucceeds(c) PROVE BaseInv'
  <2>1. TypeOK'
    BY <1>9 DEF TypeOK, PCs, CreateSucceeds, LockFree, CheckOut, loopVars, FreeConns
  <2>2. LockInv'
    BY <1>9 DEF TypeOK, LockInv, CreateSucceeds, LockFree, CheckOut, loopVars, FreeConns
  <2>3. CallerInv'
    BY <1>9 DEF TypeOK, CallerInv, CreateSucceeds, LockFree, CheckOut, loopVars, FreeConns
  <2> QED
    BY <2>1, <2>2, <2>3
<1>10. ASSUME NEW c \in Clients, CreateFails(c) PROVE BaseInv'
  <2>1. TypeOK'
    BY <1>10 DEF TypeOK, PCs, CreateFails, LockFree, connVars, loopVars
  <2>2. LockInv'
    BY <1>10 DEF TypeOK, LockInv, CreateFails, LockFree, connVars, loopVars
  <2>3. CallerInv'
    BY <1>10 DEF TypeOK, CallerInv, CreateFails, LockFree, connVars, loopVars
  <2> QED
    BY <2>1, <2>2, <2>3
<1>11. ASSUME NEW c \in Clients, GetReceive(c) PROVE BaseInv'
  <2>1. TypeOK'
    BY <1>11 DEF TypeOK, CallerInv, PCs, GetReceive, poolVars, connVars, loopVars
  <2>2. LockInv'
    BY <1>11 DEF TypeOK, LockInv, GetReceive, poolVars, connVars, loopVars
  <2>3. CallerInv'
    BY <1>11 DEF TypeOK, CallerInv, GetReceive, poolVars, connVars, loopVars
  <2> QED
    BY <2>1, <2>2, <2>3
<1>12. ASSUME NEW c \in Clients, GetReceiveNil(c) PROVE BaseInv'
  <2>1. TypeOK'
    BY <1>12 DEF TypeOK, PCs, GetReceiveNil, poolVars, connVars, loopVars
  <2>2. LockInv'
    BY <1>12 DEF TypeOK, LockInv, GetReceiveNil, poolVars, connVars, loopVars
  <2>3. CallerInv'
    BY <1>12 DEF TypeOK, CallerInv, GetReceiveNil, poolVars, connVars, loopVars
  <2> QED
    BY <2>1, <2>2, <2>3
<1>13. ASSUME NEW c \in Clients, GetTimeout(c) PROVE BaseInv'
  <2>1. TypeOK'
    BY <1>13 DEF TypeOK, PCs, GetTimeout, poolVars, connVars, loopVars
  <2>2. LockInv'
    BY <1>13 DEF TypeOK, LockInv, GetTimeout, poolVars, connVars, loopVars
  <2>3. CallerInv'
    BY <1>13 DEF TypeOK, CallerInv, GetTimeout, poolVars, connVars, loopVars
  <2> QED
    BY <2>1, <2>2, <2>3
<1>14. ASSUME NEW c \in Clients, GetCancel(c) PROVE BaseInv'
  <2>1. TypeOK'
    BY <1>14 DEF TypeOK, PCs, GetCancel, poolVars, connVars, loopVars
  <2>2. LockInv'
    BY <1>14 DEF TypeOK, LockInv, GetCancel, poolVars, connVars, loopVars
  <2>3. CallerInv'
    BY <1>14 DEF TypeOK, CallerInv, GetCancel, poolVars, connVars, loopVars
  <2> QED
    BY <2>1, <2>2, <2>3
<1>15. ASSUME NEW c \in Clients, GetCancelled(c) PROVE BaseInv'
  <2>1. waiters' \in Seq(Chans)
    <3>1. waiters \in Seq(Chans)
      BY DEF TypeOK
    <3> QED
      BY <1>15, <3>1, RemoveAtProperties DEF GetCancelled
  <2>2. TypeOK'
    BY <1>15, <2>1 DEF GetCancelled, TypeOK, PCs, LockFree, connVars, loopVars
  <2>3. LockInv'
    BY <1>15 DEF GetCancelled, TypeOK, LockInv, LockFree, connVars, loopVars
  <2>4. CallerInv'
    BY <1>15 DEF GetCancelled, TypeOK, CallerInv, LockFree, connVars, loopVars
  <2> QED
    BY <2>2, <2>3, <2>4
<1>16. ASSUME NEW c \in Clients, PutClosed(c) PROVE BaseInv'
  <2>1. TypeOK'
    BY <1>16 DEF TypeOK, CallerInv, PCs, PutClosed, CheckIn, LockFree, poolVars, loopVars
  <2>2. LockInv'
    BY <1>16 DEF TypeOK, LockInv, PutClosed, CheckIn, LockFree, poolVars, loopVars
  <2>3. CallerInv'
    BY <1>16 DEF TypeOK, CallerInv, PutClosed, CheckIn, LockFree, poolVars, loopVars
  <2> QED
    BY <2>1, <2>2, <2>3
<1>17. ASSUME NEW c \in Clients, PutToWaiter(c) PROVE BaseInv'
  <2>1. TypeOK'
    BY <1>17 DEF TypeOK, CallerInv, PCs, PutToWaiter, CheckIn, LockFree, loopVars
  <2>2. LockInv'
    BY <1>17 DEF TypeOK, LockInv, PutToWaiter, CheckIn, LockFree, loopVars
  <2>3. CallerInv'
    BY <1>17 DEF TypeOK, CallerInv, PutToWaiter, CheckIn, LockFree, loopVars
  <2> QED
    BY <2>1, <2>2, <2>3
<1>18. ASSUME NEW c \in Clients, PutKeep(c) PROVE BaseInv'
  <2>1. TypeOK'
    BY <1>18 DEF TypeOK, CallerInv, PCs, PutKeep, CheckIn, LockFree, poolVars, loopVars
  <2>2. LockInv'
    BY <1>18 DEF TypeOK, LockInv, PutKeep, CheckIn, LockFree, poolVars, loopVars
  <2>3. CallerInv'
    BY <1>18 DEF TypeOK, CallerInv, PutKeep, CheckIn, LockFree, poolVars, loopVars
  <2> QED
    BY <2>1, <2>2, <2>3
<1>19. ASSUME NEW c \in Clients, PutDrop(c) PROVE BaseInv'
  <2>1. connections' \in Seq(Conns)
    <3>1. connections \in Seq(Conns)
      BY DEF TypeOK
    <3> QED
      BY <1>19, <3>1, RemoveAtProperties DEF PutDrop
  <2>2. held[c] \in Conns
    BY <1>19 DEF PutDrop, CheckIn, TypeOK, CallerInv
  <2>3. TypeOK'
    BY <1>19, <2>1, <2>2 DEF PutDrop, TypeOK, PCs, CheckIn, LockFree, loopVars
  <2>4. LockInv'
    BY <1>19 DEF PutDrop, TypeOK, LockInv, CheckIn, LockFree, loopVars
  <2>5. CallerInv'
    BY <1>19 DEF PutDrop, TypeOK, CallerInv, CheckIn, LockFree, loopVars
  <2> QED
    BY <2>3, <2>4, <2>5
<1>20. ASSUME NEW x \in Conns, ConnClose(x) PROVE BaseInv'
  <2>1. TypeOK'
    BY <1>20 DEF TypeOK, ConnClose, poolVars, loopVars, callerVars
  <2>2. LockInv'
    BY <1>20 DEF TypeOK, LockInv, ConnClose, poolVars, loopVars, callerVars
  <2>3. CallerInv'
    BY <1>20 DEF TypeOK, CallerInv, ConnClose, poolVars, loopVars, callerVars
  <2> QED
    BY <2>1, <2>2, <2>3
<1>21. ASSUME CleanupLock PROVE BaseInv'
  <2>1. TypeOK'
    BY <1>21 DEF TypeOK, CleanupLock, LockFree, poolVars, connVars, callerVars
  <2>2. LockInv'
    BY <1>21 DEF TypeOK, LockInv, CleanupLock, LockFree, poolVars, connVars, callerVars
  <2>3. CallerInv'
    BY <1>21 DEF TypeOK, CallerInv, CleanupLock, LockFree, poolVars, connVars, callerVars
  <2> QED
    BY <2>1, <2>2, <2>3
<1>22. ASSUME CleanupKeep PROVE BaseInv'
  <2>1. TypeOK'
    BY <1>22 DEF TypeOK, CleanupKeep, poolVars, connVars, callerVars
  <2>2. LockInv'
    BY <1>22 DEF TypeOK, LockInv, CleanupKeep, poolVars, connVars, callerVars
  <2>3. CallerInv'
    BY <1>22 DEF TypeOK, CallerInv, CleanupKeep, poolVars, connVars, callerVars
  <2> QED
    BY <2>1, <2>2, <2>3
<1>23. ASSUME CleanupRemove PROVE BaseInv'
  <2>1. connections \in Seq(Conns) /\ pos \in 1 .. Len(connections)
    BY <1>23 DEF CleanupRemove, TypeOK, LockInv
  <2>2. connections' \in Seq(Conns) /\ connections[pos] \in Conns
    BY <1>23, <2>1, RemoveAtProperties DEF CleanupRemove
  <2>3. TypeOK'
    BY <1>23, <2>2 DEF CleanupRemove, TypeOK, loopVars, callerVars
  <2>4. LockInv' /\ CallerInv'
    BY <1>23 DEF CleanupRemove, TypeOK, LockInv, CallerInv, loopVars, callerVars
  <2> QED
    BY <2>3, <2>4
<1>24. ASSUME CleanupDone PROVE BaseInv'
  <2>1. TypeOK'
    BY <1>24 DEF TypeOK, CleanupDone, Unlock, poolVars, connVars, callerVars
  <2>2. LockInv'
    BY <1>24 DEF TypeOK, LockInv, CleanupDone, Unlock, poolVars, connVars, callerVars
  <2>3. CallerInv'
    BY <1>24 DEF TypeOK, CallerInv, CleanupDone, Unlock, poolVars, connVars, callerVars
  <2> QED
    BY <2>1, <2>2, <2>3
<1>25. ASSUME FsCancel PROVE BaseInv'
  BY <1>25 DEF TypeOK, LockInv, CallerInv, FsCancel, poolVars, connVars, loopVars, callerVars
<1>26. ASSUME PoolClose PROVE BaseInv'
  <2>1. ToSet(connections) \subseteq Conns
    BY DEF TypeOK, ToSet
  <2>2. buf' \in [Chans -> Conns \cup {Nil, Closed}]
    BY <1>26 DEF PoolClose, TypeOK
  <2>3. closing' \subseteq Conns
    BY <1>26, <2>1 DEF PoolClose, TypeOK
  <2>4. connections' \in Seq(Conns) /\ waiters' \in Seq(Chans)
    BY <1>26 DEF PoolClose
  <2>5. closed' \in BOOLEAN /\ numOpen' \in Int
    BY <1>26 DEF PoolClose
  <2>6. TypeOK'
    BY <1>26, <2>2, <2>3, <2>4, <2>5 DEF PoolClose, TypeOK, LockFree, loopVars
  <2>7. LockInv' /\ CallerInv'
    BY <1>26 DEF PoolClose, TypeOK, LockInv, CallerInv, LockFree, loopVars
  <2> QED
    BY <2>6, <2>7
<1>27. ASSUME Tick PROVE BaseInv'
  <2>1. age' \in [Conns -> 0 .. IdleTimeout + 1]
    BY <1>27 DEF Tick, TypeOK
  <2>2. TypeOK'
    BY <1>27, <2>1 DEF Tick, TypeOK, poolVars, loopVars, callerVars
  <2>3. LockInv' /\ CallerInv'
    BY <1>27 DEF Tick, LockInv, CallerInv, poolVars, loopVars, callerVars
  <2> QED
    BY <2>2, <2>3
<1>28. ASSUME Crashed PROVE BaseInv'
  BY <1>28 DEF TypeOK, LockInv, CallerInv, Crashed, vars, poolVars, connVars, loopVars, callerVars
<1>29. CASE UNCHANGED vars
  BY <1>29 DEF TypeOK, LockInv, CallerInv, vars, poolVars, connVars, loopVars, callerVars
<1> QED
  BY <1>1, <1>2, <1>3, <1>4, <1>5, <1>6, <1>7, <1>8, <1>9, <1>10, <1>11, <1>12, <1>13, <1>14, <1>15, <1>16, <1>17, <1>18, <1>19, <1>20, <1>21, <1>22, <1>23, <1>24, <1>25, <1>26, <1>27, <1>28, <1>29 DEF Next, GetStep, CreateStep, WaitStep, PutStep, CleanupStep

(* The pool's state stays well typed: every connection a path of get, put,   *)
(* cleanup or Close stores, hands over or closes is one that was dialled,    *)
(* and nil is never handed to a caller as a connection.                      *)
THEOREM TypeCorrect == Spec => []TypeOK
<1>1. Init => BaseInv
  BY BaseInit
<1>2. BaseInv /\ [Next]_vars => BaseInv'
  BY BaseStep
<1>3. BaseInv => TypeOK
  BY DEF BaseInv
<1> QED
  BY <1>1, <1>2, <1>3, PTL DEF Spec

-----------------------------------------------------------------------------
(* Slots *)

LEMMA CreatingFinite ==
  IsFiniteSet(Creating) /\ Cardinality(Creating) \in Nat
BY PoolAssumption, FS_Subset, FS_CardinalityType DEF Creating

LEMMA SlotInit == Init => SlotAccounting
<1> SUFFICES ASSUME Init PROVE SlotAccounting
  OBVIOUS
<1>1. Creating = {}
  BY DEF Init, Creating
<1> QED
  BY <1>1, FS_EmptySet, PoolAssumption DEF Init, SlotAccounting

(* Steps that neither touch the slots nor begin or end a dial.               *)
LEMMA SlotFrame ==
  ASSUME SlotAccounting, UNCHANGED <<connections, numOpen, closed>>, Creating' = Creating
  PROVE  SlotAccounting'
BY DEF SlotAccounting

LEMMA SlotStep == BaseInv /\ SlotAccounting /\ [Next]_vars => SlotAccounting'
<1> SUFFICES ASSUME BaseInv, SlotAccounting, [Next]_vars PROVE SlotAccounting'
  OBVIOUS
<1> USE PoolAssumption DEF BaseInv
<1>1. ASSUME NEW c \in Clients, GetExpire(c) PROVE SlotAccounting'
  <2>1. connections \in Seq(Conns) /\ pos \in 1 .. Len(connections)
    BY <1>1 DEF GetExpire, Scanning, TypeOK, LockInv
  <2>2. Len(connections') = Len(connections) - 1
    BY <1>1, <2>1, RemoveAtProperties DEF GetExpire
  <2>3. Creating' = Creating
    BY <1>1 DEF GetExpire, callerVars, Creating
  <2>4. numOpen' = numOpen - 1 /\ closed' = closed
    BY <1>1 DEF GetExpire
  <2>5. numOpen \in Int /\ Len(connections) \in Nat
    BY DEF TypeOK
  <2> QED
    BY <2>2, <2>3, <2>4, <2>5, CreatingFinite DEF SlotAccounting
<1>2. ASSUME NEW c \in Clients, GetCreate(c) PROVE SlotAccounting'
  <2>1. Creating' = Creating \cup {c} /\ c \notin Creating
    BY <1>2 DEF GetCreate, Scanning, TypeOK, Creating
  <2>2. Cardinality(Creating') = Cardinality(Creating) + 1
    BY <2>1, CreatingFinite, FS_AddElement, Zenon
  <2>3. /\ numOpen < MaxOpen /\ numOpen' = numOpen + 1
        /\ connections' = connections /\ closed' = closed
    BY <1>2 DEF GetCreate
  <2>4. numOpen \in Int /\ Len(connections) \in Nat
    BY DEF TypeOK
  <2> QED
    BY <2>2, <2>3, <2>4, CreatingFinite DEF SlotAccounting
<1>3. ASSUME NEW c \in Clients, CreateSucceeds(c) PROVE SlotAccounting'
  <2>1. Creating' = Creating \ {c} /\ c \in Creating
    BY <1>3 DEF CreateSucceeds, CheckOut, TypeOK, Creating
  <2>2. Cardinality(Creating') = Cardinality(Creating) - 1
    BY <2>1, CreatingFinite, FS_RemoveElement, Zenon
  <2>3. Len(connections') = Len(connections) + 1
    BY <1>3 DEF CreateSucceeds, TypeOK
  <2> QED
    BY <1>3, <2>2, <2>3, CreatingFinite DEF CreateSucceeds, SlotAccounting, TypeOK
<1>4. ASSUME NEW c \in Clients, CreateFails(c) PROVE SlotAccounting'
  <2>1. Creating' = Creating \ {c} /\ c \in Creating
    BY <1>4 DEF CreateFails, TypeOK, Creating
  <2>2. Cardinality(Creating') = Cardinality(Creating) - 1
    BY <2>1, CreatingFinite, FS_RemoveElement, Zenon
  <2>3. numOpen' = numOpen - 1 /\ connections' = connections /\ closed' = closed
    BY <1>4 DEF CreateFails
  <2>4. numOpen \in Int /\ Len(connections) \in Nat
    BY DEF TypeOK
  <2> QED
    BY <2>2, <2>3, <2>4, CreatingFinite DEF SlotAccounting
<1>5. ASSUME NEW c \in Clients, PutDrop(c) PROVE SlotAccounting'
  <2>1. Len(connections') = Len(connections) - 1
    <3>1. connections \in Seq(Conns) /\ DOMAIN connections = 1 .. Len(connections)
      BY DEF TypeOK
    <3> QED
      BY <1>5, <3>1, RemoveAtProperties, Zenon DEF PutDrop
  <2>2. Creating' = Creating
    BY <1>5 DEF PutDrop, CheckIn, TypeOK, Creating
  <2>3. numOpen' = numOpen - 1 /\ ~closed
    BY <1>5 DEF PutDrop
  <2>4. numOpen \in Int /\ Len(connections) \in Nat /\ MaxOpen \in Nat
    BY PoolAssumption DEF TypeOK
  <2> QED
    BY <2>1, <2>2, <2>3, <2>4, CreatingFinite DEF SlotAccounting
<1>6. ASSUME CleanupRemove PROVE SlotAccounting'
  <2>1. connections \in Seq(Conns) /\ pos \in 1 .. Len(connections)
    BY <1>6 DEF CleanupRemove, TypeOK, LockInv
  <2>2. Len(connections') = Len(connections) - 1
    BY <1>6, <2>1, RemoveAtProperties DEF CleanupRemove
  <2>3. Creating' = Creating
    BY <1>6 DEF CleanupRemove, callerVars, Creating
  <2> QED
    BY <1>6, <2>2, <2>3, CreatingFinite DEF CleanupRemove, SlotAccounting, TypeOK
<1>7. ASSUME PoolClose PROVE SlotAccounting'
  BY <1>7 DEF PoolClose, SlotAccounting
<1>8. ASSUME NEW c \in Clients,
             GetClosed(c) \/ GetLock(c) \/ GetSkip(c) \/ GetReuse(c) \/ GetPanic(c) \/ GetEnqueue(c)
      PROVE  UNCHANGED <<connections, numOpen, closed>> /\ Creating' = Creating
  BY <1>8 DEF GetClosed, GetLock, GetSkip, GetReuse, GetPanic, GetEnqueue, CheckOut, Scanning,
              TypeOK, Creating, vars, poolVars, callerVars
<1>9. ASSUME NEW c \in Clients, WaitStep(c) \/ GetCancelled(c)
      PROVE  UNCHANGED <<connections, numOpen, closed>> /\ Creating' = Creating
  BY <1>9 DEF WaitStep, GetReceive, GetReceiveNil, GetTimeout, GetCancel, GetCancelled,
              TypeOK, Creating, poolVars
<1>10. ASSUME NEW c \in Clients, PutClosed(c) \/ PutToWaiter(c) \/ PutKeep(c)
       PROVE  UNCHANGED <<connections, numOpen, closed>> /\ Creating' = Creating
  BY <1>10 DEF PutClosed, PutToWaiter, PutKeep, CheckIn, TypeOK, Creating, poolVars
<1>11. ASSUME \/ \E x \in Conns : ConnClose(x)
              \/ CleanupLock \/ CleanupKeep \/ CleanupDone \/ FsCancel \/ Tick \/ Crashed
              \/ UNCHANGED vars
       PROVE  UNCHANGED <<connections, numOpen, closed>> /\ Creating' = Creating
  BY <1>11 DEF ConnClose, CleanupLock, CleanupKeep, CleanupDone, FsCancel, Tick, Crashed,
               Creating, vars, poolVars, callerVars
<1> QED
  BY <1>1, <1>2, <1>3, <1>4, <1>5, <1>6, <1>7, <1>8, <1>9, <1>10, <1>11, SlotFrame
     DEF Next, GetStep, CreateStep, PutStep, CleanupStep

(* For any MaxOpen and any number of callers: while the pool is open,        *)
(* numOpen counts the pooled connections and the dials under way exactly,    *)
(* and stays within MaxOpen, on every path of get, put and cleanup.          *)
THEOREM SlotsAccounted == Spec => []SlotAccounting
<1>1. Init => BaseInv /\ SlotAccounting
  BY BaseInit, SlotInit
<1>2. BaseInv /\ SlotAccounting /\ [Next]_vars => (BaseInv /\ SlotAccounting)'
  BY BaseStep, SlotStep
<1> QED
  BY <1>1, <1>2, PTL DEF Spec

-----------------------------------------------------------------------------
(* Ownership: a connection has one owner at a time and is not closed under   *)
(* it.  Neither property is inductive.  get hands out what its range loop    *)
(* sees, so the stale elements behind p.connections matter (TailInv); put    *)
(* hands over through channels, so no two callers may share one and a queued *)
(* one must be empty (QueueInv); a removal must remove the only occurrence   *)
(* (NoDuplicates), or the pool would keep a connection it is closing         *)
(* (PooledUsable).                                                           *)

(* p.connections never holds a connection twice. *)
NoDuplicates ==
  \A i, j \in DOMAIN connections : connections[i] = connections[j] => i = j

(* A queued channel is empty and queued once; no two callers wait on one.    *)
QueueInv ==
  /\ \A i, j \in DOMAIN waiters : waiters[i] = waiters[j] => i = j
  /\ \A k \in DOMAIN waiters : buf[waiters[k]] = Nil
  /\ \A c, d \in Clients : chan[c] # Nil /\ chan[c] = chan[d] => c = d

(* While the pool is open, nothing it holds is closed or about to be.        *)
PooledUsable ==
  ~closed => ToSet(connections) \subseteq live \ closing

(* What get's loop still sees behind p.connections is pooled, or has expired *)
(* and will not be handed out.                                               *)
TailInv ==
  \A x \in ToSet(tail) :
    x \in ToSet(connections) \/ (~inUse[x] /\ age[x] >= IdleTimeout)

OwnInv ==
  /\ BaseInv /\ NoDuplicates /\ QueueInv /\ PooledUsable /\ TailInv
  /\ ExclusiveUse /\ OwnedIsUsable

-----------------------------------------------------------------------------
(* No step of the pool puts a connection into p.connections a second time.   *)
LEMMA NoDuplicatesStep == BaseInv /\ NoDuplicates /\ [Next]_vars => NoDuplicates'
<1> SUFFICES ASSUME BaseInv, NoDuplicates, [Next]_vars PROVE NoDuplicates'
  OBVIOUS
<1> USE DEF BaseInv
<1>0. connections \in Seq(Conns) /\ DOMAIN connections = 1 .. Len(connections)
  BY DEF TypeOK
<1>1. ASSUME NEW k \in DOMAIN connections, connections' = RemoveAt(connections, k)
      PROVE  NoDuplicates'
  BY <1>0, <1>1, RemoveAtUnique DEF NoDuplicates
<1>2. ASSUME NEW c \in Clients, GetExpire(c) PROVE NoDuplicates'
  <2>1. pos \in 1 .. Len(connections)
    BY <1>2, PoolAssumption DEF GetExpire, Scanning, TypeOK, LockInv
  <2> QED
    BY <1>0, <1>1, <1>2, <2>1 DEF GetExpire
<1>3. ASSUME CleanupRemove PROVE NoDuplicates'
  <2>1. pos \in 1 .. Len(connections)
    BY <1>3, PoolAssumption DEF CleanupRemove, TypeOK, LockInv
  <2> QED
    BY <1>0, <1>1, <1>3, <2>1 DEF CleanupRemove
<1>4. ASSUME NEW c \in Clients, PutDrop(c) PROVE NoDuplicates'
  BY <1>1, <1>4 DEF PutDrop
<1>5. ASSUME NEW c \in Clients, CreateSucceeds(c) PROVE NoDuplicates'
  <2>1. PICK x \in FreeConns : connections' = Append(connections, x)
    BY <1>5 DEF CreateSucceeds
  <2>2. \A k \in DOMAIN connections : connections[k] # x
    BY <2>1 DEF FreeConns, ToSet
  <2> QED
    BY <1>0, <2>1, <2>2 DEF NoDuplicates, FreeConns
<1>6. ASSUME PoolClose PROVE NoDuplicates'
  BY <1>6 DEF PoolClose, NoDuplicates
<1>7. ASSUME UNCHANGED connections PROVE NoDuplicates'
  BY <1>7 DEF NoDuplicates
<1>8. ASSUME NEW c \in Clients,
             \/ GetClosed(c) \/ GetLock(c) \/ GetSkip(c) \/ GetReuse(c) \/ GetPanic(c)
             \/ GetCreate(c) \/ GetEnqueue(c) \/ CreateFails(c) \/ WaitStep(c)
             \/ GetCancelled(c) \/ PutClosed(c) \/ PutToWaiter(c) \/ PutKeep(c)
      PROVE  UNCHANGED connections
  BY <1>8 DEF GetClosed, GetLock, GetSkip, GetReuse, GetPanic, GetCreate, GetEnqueue, CreateFails,
       WaitStep, GetReceive, GetReceiveNil, GetTimeout, GetCancel, GetCancelled,
       PutClosed, PutToWaiter, PutKeep, vars, poolVars
<1>9. ASSUME \/ \E x \in Conns : ConnClose(x)
             \/ CleanupLock \/ CleanupKeep \/ CleanupDone \/ FsCancel \/ Tick \/ Crashed
             \/ UNCHANGED vars
      PROVE  UNCHANGED connections
  BY <1>9 DEF ConnClose, CleanupLock, CleanupKeep, CleanupDone, FsCancel, Tick, Crashed, vars, poolVars
<1> QED
  BY <1>2, <1>3, <1>4, <1>5, <1>6, <1>7, <1>8, <1>9
     DEF Next, GetStep, CreateStep, PutStep, CleanupStep

LEMMA QueueStep == BaseInv /\ QueueInv /\ [Next]_vars => QueueInv'
<1> SUFFICES ASSUME BaseInv, QueueInv, [Next]_vars PROVE QueueInv'
  OBVIOUS
<1> USE PoolAssumption DEF BaseInv
<1>0. waiters \in Seq(Chans) /\ DOMAIN waiters = 1 .. Len(waiters)
  BY DEF TypeOK
<1>1. ASSUME NEW c \in Clients, GetEnqueue(c) PROVE QueueInv'
  <2>1. PICK h \in FreeChans : /\ waiters' = Append(waiters, h)
                               /\ chan' = [chan EXCEPT ![c] = h]
                               /\ buf' = [buf EXCEPT ![h] = Nil]
    BY <1>1, Zenon DEF GetEnqueue
  <2>2. h \in Chans /\ (\A k \in DOMAIN waiters : waiters[k] # h) /\ \A d \in Clients : chan[d] # h
    BY <2>1 DEF FreeChans, ToSet, TypeOK
  <2>3. /\ Len(waiters') = Len(waiters) + 1 /\ DOMAIN waiters' = 1 .. Len(waiters) + 1
        /\ \A k \in 1 .. Len(waiters) : waiters'[k] = waiters[k] /\ waiters[k] \in Chans
        /\ waiters'[Len(waiters) + 1] = h
    BY <1>0, <2>1, <2>2
  <2>4. \A i, j \in DOMAIN waiters' : waiters'[i] = waiters'[j] => i = j
    BY <1>0, <2>2, <2>3 DEF QueueInv
  <2>5. \A k \in DOMAIN waiters' : buf'[waiters'[k]] = Nil
    BY <1>0, <2>1, <2>2, <2>3 DEF QueueInv, TypeOK
  <2>6. \A a, b \in Clients : chan'[a] # Nil /\ chan'[a] = chan'[b] => a = b
    BY <2>1, <2>2 DEF QueueInv, TypeOK
  <2> QED
    BY <2>4, <2>5, <2>6 DEF QueueInv
<1>2. ASSUME NEW c \in Clients, GetReceive(c) PROVE QueueInv'
  BY <1>2 DEF GetReceive, QueueInv, TypeOK, CallerInv, poolVars
<1>3. ASSUME NEW c \in Clients, GetReceiveNil(c) \/ GetTimeout(c) PROVE QueueInv'
  BY <1>3, ZenonT(30) DEF GetReceiveNil, GetTimeout, QueueInv, TypeOK, poolVars
<1>4. ASSUME NEW c \in Clients, GetCancelled(c) PROVE QueueInv'
  <2>1. /\ \A i, j \in DOMAIN waiters' : waiters'[i] = waiters'[j] => i = j
        /\ ToSet(waiters') \subseteq ToSet(waiters)
    <3>1. \/ waiters' = waiters
          \/ \E k \in 1 .. Len(waiters) : waiters' = RemoveAt(waiters, k)
      BY <1>0, <1>4 DEF GetCancelled
    <3>2. CASE waiters' = waiters
      BY <3>2 DEF QueueInv
    <3>3. ASSUME NEW k \in 1 .. Len(waiters), waiters' = RemoveAt(waiters, k)
          PROVE  /\ \A i, j \in DOMAIN waiters' : waiters'[i] = waiters'[j] => i = j
                 /\ ToSet(waiters') \subseteq ToSet(waiters)
      <4>1. \A i, j \in DOMAIN waiters : waiters[i] = waiters[j] => i = j
        BY DEF QueueInv
      <4>2. \A i, j \in DOMAIN RemoveAt(waiters, k) :
              RemoveAt(waiters, k)[i] = RemoveAt(waiters, k)[j] => i = j
        BY <1>0, <4>1, RemoveAtUnique
      <4>3. ToSet(RemoveAt(waiters, k)) \subseteq ToSet(waiters)
        BY <1>0, RemoveAtElements
      <4> QED
        BY <3>3, <4>2, <4>3
    <3> QED
      BY <3>1, <3>2, <3>3
  <2>2. \A k \in DOMAIN waiters' : buf'[waiters'[k]] = Nil
    BY <1>4, <2>1 DEF GetCancelled, QueueInv, ToSet
  <2>3. \A a, b \in Clients : chan'[a] # Nil /\ chan'[a] = chan'[b] => a = b
    BY <1>4 DEF GetCancelled, QueueInv, TypeOK
  <2> QED
    BY <2>1, <2>2, <2>3 DEF QueueInv
<1>5. ASSUME NEW c \in Clients, PutToWaiter(c) PROVE QueueInv'
  <2>1. /\ waiters # <<>> /\ waiters' = Tail(waiters) /\ chan' = chan
        /\ buf' = [buf EXCEPT ![Head(waiters)] = held[c]]
    BY <1>5 DEF PutToWaiter, CheckIn
  <2>2. /\ DOMAIN waiters' = 1 .. Len(waiters) - 1 /\ Head(waiters) = waiters[1]
        /\ \A k \in 1 .. Len(waiters) - 1 : waiters'[k] = waiters[k + 1]
        /\ Len(waiters) \in Nat /\ Len(waiters) > 0
    BY <1>0, <2>1, HeadTailProperties
  <2>3. \A i, j \in DOMAIN waiters' : waiters'[i] = waiters'[j] => i = j
    <3> TAKE i, j \in DOMAIN waiters'
    <3>1. /\ i + 1 \in DOMAIN waiters /\ j + 1 \in DOMAIN waiters
          /\ waiters'[i] = waiters[i + 1] /\ waiters'[j] = waiters[j + 1]
      BY <1>0, <2>2
    <3> QED
      BY <2>2, <3>1 DEF QueueInv
  <2>4. \A k \in DOMAIN waiters' : buf'[waiters'[k]] = Nil
    <3> TAKE k \in DOMAIN waiters'
    <3>1. /\ waiters'[k] = waiters[k + 1] /\ k + 1 \in DOMAIN waiters
          /\ 1 \in DOMAIN waiters /\ k + 1 # 1
      BY <1>0, <2>2
    <3>2. waiters[k + 1] # Head(waiters)
      BY <2>2, <3>1 DEF QueueInv
    <3> QED
      BY <2>1, <3>1, <3>2 DEF QueueInv, TypeOK
  <2> QED
    BY <2>1, <2>3, <2>4 DEF QueueInv
<1>6. ASSUME PoolClose PROVE QueueInv'
  BY <1>6 DEF PoolClose, QueueInv
<1>7. ASSUME UNCHANGED <<waiters, chan, buf>> PROVE QueueInv'
  BY <1>7 DEF QueueInv
<1>8. ASSUME NEW c \in Clients,
             \/ GetClosed(c) \/ GetLock(c) \/ GetSkip(c) \/ GetReuse(c) \/ GetExpire(c) \/ GetPanic(c)
             \/ GetCreate(c) \/ CreateStep(c) \/ GetCancel(c)
             \/ PutClosed(c) \/ PutKeep(c) \/ PutDrop(c)
      PROVE  UNCHANGED <<waiters, chan, buf>>
  BY <1>8 DEF GetClosed, GetLock, GetSkip, GetReuse, GetExpire, GetPanic, GetCreate,
       CreateStep, CreateSucceeds, CreateFails, GetCancel, PutClosed, PutKeep, PutDrop,
       CheckIn, vars, poolVars, callerVars
<1>9. ASSUME \/ \E x \in Conns : ConnClose(x)
             \/ CleanupLock \/ CleanupStep \/ FsCancel \/ Tick \/ Crashed
             \/ UNCHANGED vars
      PROVE  UNCHANGED <<waiters, chan, buf>>
  BY <1>9 DEF ConnClose, CleanupLock, CleanupStep, CleanupKeep, CleanupRemove, CleanupDone, FsCancel,
       Tick, Crashed, vars, poolVars, callerVars
<1> QED
  BY <1>1, <1>2, <1>3, <1>4, <1>5, <1>6, <1>7, <1>8, <1>9
     DEF Next, GetStep, WaitStep, PutStep

LEMMA PooledStep ==
  BaseInv /\ NoDuplicates /\ PooledUsable /\ [Next]_vars => PooledUsable'
<1> SUFFICES ASSUME BaseInv, NoDuplicates, PooledUsable, [Next]_vars PROVE PooledUsable'
  OBVIOUS
<1> USE PoolAssumption DEF BaseInv
<1>0. connections \in Seq(Conns) /\ DOMAIN connections = 1 .. Len(connections)
  BY DEF TypeOK
<1>1. ASSUME NEW k \in DOMAIN connections, connections' = RemoveAt(connections, k),
             closing' = closing \cup {connections[k]}, live' = live, closed' = closed
      PROVE  PooledUsable'
  <2>1. /\ ToSet(connections') \subseteq ToSet(connections)
        /\ connections[k] \notin ToSet(connections')
    BY <1>0, <1>1, RemoveAtElements, RemoveAtUnique DEF NoDuplicates
  <2> QED
    BY <1>1, <2>1 DEF PooledUsable
<1>2. ASSUME NEW c \in Clients, GetExpire(c) PROVE PooledUsable'
  <2>1. pos \in 1 .. Len(connections)
    BY <1>2 DEF GetExpire, Scanning, TypeOK, LockInv
  <2> QED
    BY <1>0, <1>1, <1>2, <2>1 DEF GetExpire
<1>3. ASSUME CleanupRemove PROVE PooledUsable'
  <2>1. pos \in 1 .. Len(connections)
    BY <1>3 DEF CleanupRemove, TypeOK, LockInv
  <2> QED
    BY <1>0, <1>1, <1>3, <2>1 DEF CleanupRemove
<1>4. ASSUME NEW c \in Clients, PutDrop(c) PROVE PooledUsable'
  BY <1>1, <1>4 DEF PutDrop
<1>5. ASSUME NEW c \in Clients, CreateSucceeds(c) PROVE PooledUsable'
  <2>1. PICK x \in FreeConns : connections' = Append(connections, x) /\ live' = live \cup {x}
    BY <1>5 DEF CreateSucceeds
  <2>2. closing' = closing /\ closed' = closed /\ x \notin closing /\ x \in Conns
    BY <1>5, <2>1 DEF CreateSucceeds, FreeConns
  <2>3. ToSet(connections') \subseteq ToSet(connections) \cup {x}
    BY <1>0, <2>1, <2>2, AppendProperties DEF ToSet
  <2> QED
    BY <2>1, <2>2, <2>3 DEF PooledUsable
<1>6. ASSUME PoolClose \/ \E c \in Clients : PutClosed(c) PROVE PooledUsable'
  BY <1>6 DEF PoolClose, PutClosed, PooledUsable, poolVars
<1>7. ASSUME NEW x \in Conns, ConnClose(x) PROVE PooledUsable'
  BY <1>7 DEF ConnClose, PooledUsable, poolVars
<1>8. ASSUME UNCHANGED <<connections, closed, live, closing>> PROVE PooledUsable'
  BY <1>8 DEF PooledUsable
<1>9. ASSUME NEW c \in Clients,
             \/ GetClosed(c) \/ GetLock(c) \/ GetSkip(c) \/ GetReuse(c) \/ GetPanic(c)
             \/ GetCreate(c) \/ GetEnqueue(c) \/ CreateFails(c) \/ WaitStep(c)
             \/ GetCancelled(c) \/ PutToWaiter(c) \/ PutKeep(c)
      PROVE  UNCHANGED <<connections, closed, live, closing>>
  BY <1>9 DEF GetClosed, GetLock, GetSkip, GetReuse, GetPanic, GetCreate, GetEnqueue, CreateFails,
       WaitStep, GetReceive, GetReceiveNil, GetTimeout, GetCancel, GetCancelled,
       PutToWaiter, PutKeep, vars, poolVars, connVars
<1>10. ASSUME \/ CleanupLock \/ CleanupKeep \/ CleanupDone \/ FsCancel \/ Tick \/ Crashed
              \/ UNCHANGED vars
       PROVE  UNCHANGED <<connections, closed, live, closing>>
  BY <1>10 DEF CleanupLock, CleanupKeep, CleanupDone, FsCancel, Tick, Crashed, vars, poolVars, connVars
<1> QED
  BY <1>2, <1>3, <1>4, <1>5, <1>6, <1>7, <1>8, <1>9, <1>10
     DEF Next, GetStep, CreateStep, PutStep, CleanupStep

LEMMA TailStep == BaseInv /\ TailInv /\ [Next]_vars => TailInv'
<1> SUFFICES ASSUME BaseInv, TailInv, [Next]_vars PROVE TailInv'
  OBVIOUS
<1> USE PoolAssumption DEF BaseInv
<1>0. connections \in Seq(Conns) /\ tail \in Seq(Conns)
  BY DEF TypeOK
<1>1. ASSUME tail' = <<>> PROVE TailInv'
  BY <1>1 DEF TailInv, ToSet
<1>2. ASSUME NEW c \in Clients, GetExpire(c) PROVE TailInv'
  <2> DEFINE n == Len(connections)
             x == connections[pos]
  <2>1. pos \in 1 .. n /\ n \in Nat /\ n \in 1 .. n
    BY <1>0, <1>2 DEF GetExpire, Scanning, TypeOK, LockInv
  <2>2. /\ ~inUse[x] /\ age[x] >= IdleTimeout /\ inUse' = inUse /\ age' = age
        /\ connections' = RemoveAt(connections, pos)
        /\ tail' = <<connections[n]>> \o tail
    BY <1>2 DEF GetExpire
  <2>3. ToSet(connections) \subseteq ToSet(connections') \cup {x}
    BY <1>0, <2>1, <2>2, RemoveAtElements
  <2>4. ToSet(tail') \subseteq ToSet(tail) \cup {connections[n]}
    BY <1>0, <2>1, <2>2 DEF ToSet
  <2>5. connections[n] \in ToSet(connections)
    BY <1>0, <2>1 DEF ToSet
  <2> HIDE DEF n, x
  <2>6. ASSUME NEW y \in ToSet(tail')
        PROVE  y \in ToSet(connections') \/ (~inUse'[y] /\ age'[y] >= IdleTimeout)
    <3>1. y \in ToSet(connections) \/ (~inUse[y] /\ age[y] >= IdleTimeout)
      BY <2>4, <2>5, <2>6 DEF TailInv
    <3> QED
      BY <2>2, <2>3, <3>1
  <2> QED
    BY <2>6 DEF TailInv
<1>3. ASSUME Tick PROVE TailInv'
  <2>1. \A x \in Conns : age'[x] >= age[x]
    BY <1>3 DEF Tick, TypeOK
  <2>2. UNCHANGED <<connections, tail, inUse>>
    BY <1>3 DEF Tick, poolVars, loopVars
  <2>3. ToSet(tail) \subseteq Conns
    BY <1>0 DEF ToSet
  <2>4. \A x \in Conns : age[x] \in Int /\ age'[x] \in Int
    BY <1>3 DEF Tick, TypeOK
  <2> QED
    BY <2>1, <2>2, <2>3, <2>4 DEF TailInv
<1>4. ASSUME UNCHANGED <<connections, tail, inUse, age>> PROVE TailInv'
  BY <1>4 DEF TailInv
<1>5. ASSUME NEW c \in Clients,
             \/ GetLock(c) \/ GetReuse(c) \/ GetCreate(c) \/ GetEnqueue(c)
             \/ CreateStep(c) \/ PutStep(c)
      PROVE  tail' = <<>>
  BY <1>5 DEF GetLock, GetReuse, GetCreate, GetEnqueue, Unlock, CreateStep, CreateSucceeds, CreateFails,
       PutStep, PutClosed, PutToWaiter, PutKeep, PutDrop, CheckIn, LockFree, LockInv, loopVars
<1>6. ASSUME CleanupLock \/ CleanupStep \/ PoolClose PROVE tail' = <<>>
  BY <1>6 DEF CleanupLock, CleanupStep, CleanupKeep, CleanupRemove, CleanupDone, Unlock, PoolClose,
       LockFree, LockInv, loopVars
<1>7. ASSUME NEW c \in Clients,
             \/ GetClosed(c) \/ GetSkip(c) \/ GetPanic(c) \/ WaitStep(c) \/ GetCancelled(c)
      PROVE  UNCHANGED <<connections, tail, inUse, age>>
  BY <1>7 DEF GetClosed, GetSkip, GetPanic, WaitStep, GetReceive, GetReceiveNil, GetTimeout,
       GetCancel, GetCancelled, vars, poolVars, connVars, loopVars
<1>8. ASSUME (\E x \in Conns : ConnClose(x)) \/ FsCancel \/ Crashed \/ UNCHANGED vars
      PROVE  UNCHANGED <<connections, tail, inUse, age>>
  BY <1>8 DEF ConnClose, FsCancel, Crashed, vars, poolVars, connVars, loopVars
<1> QED
  BY <1>1, <1>2, <1>3, <1>4, <1>5, <1>6, <1>7, <1>8 DEF Next, GetStep

-----------------------------------------------------------------------------
(* What get's loop takes is pooled, and nobody's.                            *)
LEMMA ReuseIsFree ==
  ASSUME OwnInv, NEW c \in Clients, GetReuse(c)
  PROVE  /\ RangeView[pos] \in Conns
         /\ RangeView[pos] \in ToSet(connections)
         /\ \A d \in Clients : ~Owns(d, RangeView[pos])
         /\ ~closed
<1> USE PoolAssumption DEF OwnInv, BaseInv
<1> DEFINE x == RangeView[pos]
<1>1. mu # Nil /\ ~closed /\ pos <= Len(RangeView) /\ ~inUse[x] /\ age[x] < IdleTimeout
  BY DEF GetReuse, Scanning, LockInv
<1>2. x \in Conns /\ (x \in ToSet(connections) \/ x \in ToSet(tail))
  BY <1>1, RangeViewElements
<1>3. age[x] \in Int
  BY <1>2 DEF TypeOK
<1> HIDE DEF x
<1>4. x \in ToSet(connections)
  BY <1>1, <1>2, <1>3 DEF TailInv
<1>5. \A d \in Clients : ~Owns(d, x)
  BY <1>1, <1>2 DEF OwnedIsUsable
<1> QED
  BY <1>1, <1>2, <1>4, <1>5 DEF x

LEMMA ExclusiveStep == OwnInv /\ [Next]_vars => ExclusiveUse'
<1> SUFFICES ASSUME OwnInv, [Next]_vars PROVE ExclusiveUse'
  OBVIOUS
<1> USE PoolAssumption DEF OwnInv, BaseInv
<1>1. ASSUME NEW c \in Clients, NEW y \in Conns, \A d \in Clients : ~Owns(d, y),
             held' = [held EXCEPT ![c] = y], UNCHANGED <<chan, buf>>
      PROVE  ExclusiveUse'
  BY <1>1 DEF ExclusiveUse, Owns, TypeOK
<1>2. ASSUME NEW c \in Clients, GetReuse(c) PROVE ExclusiveUse'
  BY <1>1, <1>2, ReuseIsFree, Zenon DEF GetReuse, CheckOut
<1>3. ASSUME NEW c \in Clients, CreateSucceeds(c) PROVE ExclusiveUse'
  BY <1>1, <1>3, Zenon DEF CreateSucceeds, CheckOut, FreeConns
<1>4. ASSUME NEW c \in Clients, GetReceive(c) PROVE ExclusiveUse'
  <2>1. \A d \in Clients, x \in Conns : Owns(d, x)' => Owns(d, x)
    BY <1>4 DEF GetReceive, Owns, TypeOK, CallerInv
  <2> QED
    BY <2>1 DEF ExclusiveUse
<1>5. ASSUME NEW c \in Clients, GetEnqueue(c) PROVE ExclusiveUse'
  <2>1. PICK h \in FreeChans : /\ chan' = [chan EXCEPT ![c] = h]
                               /\ buf' = [buf EXCEPT ![h] = Nil]
    BY <1>5, Zenon DEF GetEnqueue
  <2>2. held' = held /\ h \in Chans
    BY <1>5, <2>1 DEF GetEnqueue, FreeChans
  <2>3. \A d \in Clients, x \in Conns : Owns(d, x)' => Owns(d, x)
    BY <2>1, <2>2 DEF Owns, TypeOK
  <2> QED
    BY <2>3 DEF ExclusiveUse
<1>6. ASSUME NEW c \in Clients, GetReceiveNil(c) \/ GetTimeout(c) \/ GetCancelled(c)
      PROVE  ExclusiveUse'
  <2>1. held' = held /\ buf' = buf /\ chan' = [chan EXCEPT ![c] = Nil]
    BY <1>6 DEF GetReceiveNil, GetTimeout, GetCancelled
  <2>2. \A d \in Clients, x \in Conns : Owns(d, x)' => Owns(d, x)
    BY <2>1 DEF Owns, TypeOK
  <2> QED
    BY <2>2 DEF ExclusiveUse
<1>7. ASSUME NEW c \in Clients, PutClosed(c) \/ PutKeep(c) \/ PutDrop(c) PROVE ExclusiveUse'
  <2>1. chan' = chan /\ buf' = buf /\ held' = [held EXCEPT ![c] = Nil]
    BY <1>7 DEF PutClosed, PutKeep, PutDrop, CheckIn
  <2>2. \A d \in Clients, x \in Conns : Owns(d, x)' => Owns(d, x)
    BY <2>1 DEF Owns, TypeOK
  <2> QED
    BY <2>2 DEF ExclusiveUse
<1>8. ASSUME NEW c \in Clients, PutToWaiter(c) PROVE ExclusiveUse'
  <2>0. waiters \in Seq(Chans) /\ waiters # <<>>
    BY <1>8 DEF PutToWaiter, TypeOK
  <2>1. Head(waiters) \in Chans
    BY <2>0, HeadTailProperties
  <2>1a. held[c] \in Conns /\ chan[c] = Nil
    BY <1>8, Zenon DEF PutToWaiter, CheckIn, TypeOK, CallerInv
  <2>2. PICK h \in Chans, x \in Conns : h = Head(waiters) /\ x = held[c]
    BY <2>1, <2>1a
  <2>3. /\ buf' = [buf EXCEPT ![h] = x] /\ chan' = chan
        /\ held' = [held EXCEPT ![c] = Nil]
    BY <1>8, <2>2 DEF PutToWaiter, CheckIn
  <2>4. \A d \in Clients : Owns(d, x) => d = c
    BY <2>2 DEF ExclusiveUse, Owns
  <2>5. \A d \in Clients : Owns(d, x)' => chan[d] = h /\ chan[d] # Nil
    BY <2>1a, <2>2, <2>3, <2>4 DEF Owns, TypeOK
  <2>6. \A d \in Clients, y \in Conns : y # x /\ Owns(d, y)' => Owns(d, y)
    BY <2>3 DEF Owns, TypeOK
  <2> QED
    BY <2>5, <2>6 DEF ExclusiveUse, QueueInv
<1>9. ASSUME PoolClose PROVE ExclusiveUse'
  <2>1. \A d \in Clients, x \in Conns : Owns(d, x)' => Owns(d, x)
    BY <1>9 DEF PoolClose, Owns, TypeOK
  <2> QED
    BY <2>1 DEF ExclusiveUse
<1>10. ASSUME UNCHANGED <<held, chan, buf>> PROVE ExclusiveUse'
  BY <1>10 DEF ExclusiveUse, Owns
<1>11. ASSUME NEW c \in Clients,
              \/ GetClosed(c) \/ GetLock(c) \/ GetSkip(c) \/ GetExpire(c) \/ GetPanic(c)
              \/ GetCreate(c) \/ CreateFails(c) \/ GetCancel(c)
       PROVE  UNCHANGED <<held, chan, buf>>
  BY <1>11 DEF GetClosed, GetLock, GetSkip, GetExpire, GetPanic, GetCreate, CreateFails, GetCancel,
       vars, callerVars
<1>12. ASSUME \/ \E x \in Conns : ConnClose(x)
              \/ CleanupLock \/ CleanupStep \/ FsCancel \/ Tick \/ Crashed \/ UNCHANGED vars
       PROVE  UNCHANGED <<held, chan, buf>>
  BY <1>12 DEF ConnClose, CleanupLock, CleanupStep, CleanupKeep, CleanupRemove, CleanupDone, FsCancel,
       Tick, Crashed, vars, callerVars
<1> QED
  BY <1>2, <1>3, <1>4, <1>5, <1>6, <1>7, <1>8, <1>9, <1>10, <1>11, <1>12
     DEF Next, GetStep, CreateStep, WaitStep, PutStep

LEMMA UsableStep == OwnInv /\ [Next]_vars => OwnedIsUsable'
<1> SUFFICES ASSUME OwnInv, [Next]_vars PROVE OwnedIsUsable'
  OBVIOUS
<1> USE PoolAssumption DEF OwnInv, BaseInv
<1>0. connections \in Seq(Conns) /\ DOMAIN connections = 1 .. Len(connections)
  BY DEF TypeOK
<1>1. ASSUME NEW c \in Clients, GetReuse(c) PROVE OwnedIsUsable'
  <2>1. PICK y \in Conns : y = RangeView[pos]
    BY <1>1, ReuseIsFree
  <2>2. /\ y \in ToSet(connections) /\ y \in live \ closing /\ ~closed
        /\ inUse' = [inUse EXCEPT ![y] = TRUE] /\ held' = [held EXCEPT ![c] = y]
        /\ UNCHANGED <<connections, live, closing, closed, chan, buf>>
    BY <1>1, <2>1, ReuseIsFree, Zenon DEF GetReuse, CheckOut, PooledUsable, poolVars
  <2>3. \A d \in Clients, x \in Conns : Owns(d, x)' => Owns(d, x) \/ x = y
    BY <2>2 DEF Owns, TypeOK
  <2> QED
    BY <2>2, <2>3 DEF OwnedIsUsable, TypeOK
<1>2. ASSUME NEW c \in Clients, CreateSucceeds(c) PROVE OwnedIsUsable'
  <2>1. PICK y \in FreeConns : /\ connections' = Append(connections, y)
                               /\ live' = live \cup {y} /\ CheckOut(c, y)
    BY <1>2 DEF CreateSucceeds
  <2>2. /\ y \in Conns /\ y \notin closing
        /\ inUse' = [inUse EXCEPT ![y] = TRUE] /\ held' = [held EXCEPT ![c] = y]
        /\ UNCHANGED <<closing, closed, chan, buf>>
    BY <1>2, <2>1, Zenon DEF CreateSucceeds, FreeConns, CheckOut
  <2>3. ToSet(connections') = ToSet(connections) \cup {y}
    BY <1>0, <2>1, <2>2, AppendProperties DEF ToSet
  <2>4. \A d \in Clients, x \in Conns : Owns(d, x)' => Owns(d, x) \/ x = y
    BY <2>2 DEF Owns, TypeOK
  <2> QED
    BY <2>1, <2>2, <2>3, <2>4 DEF OwnedIsUsable, TypeOK
<1>3. ASSUME NEW k \in DOMAIN connections, connections' = RemoveAt(connections, k),
             closing' = closing \cup {connections[k]}, UNCHANGED <<live, closed>>,
             \A d \in Clients, x \in Conns :
               Owns(d, x)' => Owns(d, x) /\ x # connections[k] /\ inUse'[x] = inUse[x]
      PROVE  OwnedIsUsable'
  <2>1. ToSet(connections) \subseteq ToSet(connections') \cup {connections[k]}
    BY <1>0, <1>3, RemoveAtElements
  <2> QED
    BY <1>3, <2>1 DEF OwnedIsUsable
<1>4. ASSUME NEW c \in Clients, GetExpire(c) PROVE OwnedIsUsable'
  <2>1. pos \in DOMAIN connections /\ connections[pos] \in Conns /\ ~closed
    BY <1>0, <1>4 DEF GetExpire, Scanning, TypeOK, LockInv
  <2>2. \A d \in Clients : ~Owns(d, connections[pos])
    BY <1>4, <2>1 DEF GetExpire, OwnedIsUsable
  <2>3. /\ connections' = RemoveAt(connections, pos)
        /\ closing' = closing \cup {connections[pos]} /\ UNCHANGED <<live, closed>>
        /\ UNCHANGED <<inUse, held, chan, buf>>
    BY <1>4 DEF GetExpire, callerVars
  <2>4. \A d \in Clients, x \in Conns : Owns(d, x)' <=> Owns(d, x)
    BY <2>3 DEF Owns
  <2> QED
    BY <1>3, <2>1, <2>2, <2>3, <2>4
<1>5. ASSUME CleanupRemove PROVE OwnedIsUsable'
  <2>1. pos \in DOMAIN connections /\ connections[pos] \in Conns /\ ~closed
    BY <1>0, <1>5 DEF CleanupRemove, TypeOK, LockInv
  <2>2. \A d \in Clients : ~Owns(d, connections[pos])
    BY <1>5, <2>1 DEF CleanupRemove, OwnedIsUsable
  <2>3. /\ connections' = RemoveAt(connections, pos)
        /\ closing' = closing \cup {connections[pos]} /\ UNCHANGED <<live, closed>>
        /\ UNCHANGED <<inUse, held, chan, buf>>
    BY <1>5 DEF CleanupRemove, callerVars
  <2>4. \A d \in Clients, x \in Conns : Owns(d, x)' <=> Owns(d, x)
    BY <2>3 DEF Owns
  <2> QED
    BY <1>3, <2>1, <2>2, <2>3, <2>4
<1>6. ASSUME NEW c \in Clients, PutKeep(c) \/ PutDrop(c)
      PROVE  \A d \in Clients, x \in Conns :
               Owns(d, x)' => Owns(d, x) /\ x # held[c] /\ inUse'[x] = inUse[x]
  <2>1. PICK y \in Conns : y = held[c]
    BY <1>6 DEF PutKeep, PutDrop, CheckIn, TypeOK, CallerInv
  <2>2. /\ chan' = chan /\ buf' = buf /\ held' = [held EXCEPT ![c] = Nil]
        /\ inUse' = [inUse EXCEPT ![y] = FALSE] /\ chan[c] = Nil
    BY <1>6, <2>1 DEF PutKeep, PutDrop, CheckIn, CallerInv, poolVars
  <2>3. \A d \in Clients : Owns(d, y) => d = c
    BY <2>1 DEF ExclusiveUse, Owns
  <2>4. \A d \in Clients, x \in Conns : Owns(d, x)' => Owns(d, x) /\ d # c
    BY <2>2 DEF Owns, TypeOK
  <2> QED
    BY <2>1, <2>2, <2>3, <2>4, Zenon DEF TypeOK
<1>7. ASSUME NEW c \in Clients, PutKeep(c) PROVE OwnedIsUsable'
  <2>1. UNCHANGED <<connections, live, closing, closed>>
    BY <1>7 DEF PutKeep, poolVars
  <2> QED
    BY <1>6, <1>7, <2>1 DEF OwnedIsUsable
<1>8. ASSUME NEW c \in Clients, PutDrop(c) PROVE OwnedIsUsable'
  <2>1. PICK k \in DOMAIN connections : connections[k] = held[c] /\ connections' = RemoveAt(connections, k)
    BY <1>8 DEF PutDrop
  <2>2. closing' = closing \cup {connections[k]} /\ UNCHANGED <<live, closed>>
    BY <1>8, <2>1 DEF PutDrop
  <2> QED
    BY <1>3, <1>6, <1>8, <2>1, <2>2
<1>9. ASSUME NEW c \in Clients, PutToWaiter(c) PROVE OwnedIsUsable'
  <2>1. PICK y \in Conns : y = held[c]
    BY <1>9 DEF PutToWaiter, CheckIn, TypeOK, CallerInv
  <2>2. /\ chan' = chan /\ buf' = [buf EXCEPT ![Head(waiters)] = y]
        /\ held' = [held EXCEPT ![c] = Nil]
        /\ inUse' = [inUse EXCEPT ![y] = TRUE]
        /\ UNCHANGED <<connections, closed, live, closing>>
    BY <1>9, <2>1 DEF PutToWaiter, CheckIn
  <2>3. \A d \in Clients, x \in Conns : Owns(d, x)' => Owns(d, x) \/ x = y
    BY <2>2 DEF Owns, TypeOK
  <2>4. Owns(c, y)
    BY <2>1 DEF Owns
  <2> QED
    BY <2>2, <2>3, <2>4 DEF OwnedIsUsable, TypeOK
<1>10. ASSUME NEW c \in Clients, GetReceive(c) \/ GetReceiveNil(c) \/ GetTimeout(c) \/ GetCancelled(c)
       PROVE  OwnedIsUsable'
  <2>1. \A d \in Clients, x \in Conns : Owns(d, x)' => Owns(d, x)
    BY <1>10 DEF GetReceive, GetReceiveNil, GetTimeout, GetCancelled, Owns, TypeOK, CallerInv
  <2>2. UNCHANGED <<connections, inUse, live, closing, closed>>
    BY <1>10 DEF GetReceive, GetReceiveNil, GetTimeout, GetCancelled, poolVars, connVars
  <2> QED
    BY <2>1, <2>2 DEF OwnedIsUsable
<1>11. ASSUME NEW c \in Clients, GetEnqueue(c) PROVE OwnedIsUsable'
  <2>1. PICK h \in FreeChans : /\ chan' = [chan EXCEPT ![c] = h]
                               /\ buf' = [buf EXCEPT ![h] = Nil]
    BY <1>11, Zenon DEF GetEnqueue
  <2>2. held' = held /\ h \in Chans
    BY <1>11, <2>1 DEF GetEnqueue, FreeChans
  <2>3. \A d \in Clients, x \in Conns : Owns(d, x)' => Owns(d, x)
    BY <2>1, <2>2 DEF Owns, TypeOK
  <2>4. UNCHANGED <<connections, inUse, live, closing, closed>>
    BY <1>11 DEF GetEnqueue, connVars
  <2> QED
    BY <2>3, <2>4 DEF OwnedIsUsable
<1>12. ASSUME PoolClose \/ \E c \in Clients : PutClosed(c) PROVE OwnedIsUsable'
  BY <1>12 DEF PoolClose, PutClosed, OwnedIsUsable, poolVars
<1>13. ASSUME NEW y \in Conns, ConnClose(y) PROVE OwnedIsUsable'
  BY <1>13 DEF ConnClose, OwnedIsUsable, Owns, poolVars, callerVars
<1>14. ASSUME UNCHANGED <<connections, closed, inUse, live, closing, held, chan, buf>>
       PROVE  OwnedIsUsable'
  BY <1>14 DEF OwnedIsUsable, Owns
<1>15. ASSUME NEW c \in Clients,
              \/ GetClosed(c) \/ GetLock(c) \/ GetSkip(c) \/ GetPanic(c)
              \/ GetCreate(c) \/ CreateFails(c) \/ GetCancel(c)
       PROVE  UNCHANGED <<connections, closed, inUse, live, closing, held, chan, buf>>
  BY <1>15 DEF GetClosed, GetLock, GetSkip, GetPanic, GetCreate, CreateFails, GetCancel,
       vars, poolVars, connVars, callerVars
<1>16. ASSUME \/ CleanupLock \/ CleanupKeep \/ CleanupDone \/ FsCancel \/ Tick \/ Crashed
              \/ UNCHANGED vars
       PROVE  UNCHANGED <<connections, closed, inUse, live, closing, held, chan, buf>>
  BY <1>16 DEF CleanupLock, CleanupKeep, CleanupDone, FsCancel, Tick, Crashed,
       vars, poolVars, connVars, callerVars
<1> QED
  BY <1>1, <1>2, <1>4, <1>5, <1>7, <1>8, <1>9, <1>10, <1>11, <1>12, <1>13, <1>14, <1>15, <1>16
     DEF Next, GetStep, CreateStep, WaitStep, PutStep, CleanupStep

-----------------------------------------------------------------------------
LEMMA OwnInit == Init => OwnInv
<1> SUFFICES ASSUME Init PROVE OwnInv
  OBVIOUS
<1>1. BaseInv
  BY BaseInit
<1>2. NoDuplicates /\ QueueInv /\ PooledUsable /\ TailInv
  BY DEF Init, NoDuplicates, QueueInv, PooledUsable, TailInv, ToSet
<1>3. \A c \in Clients, x \in Conns : ~Owns(c, x)
  BY PoolAssumption DEF Init, Owns
<1> QED
  BY <1>1, <1>2, <1>3 DEF OwnInv, ExclusiveUse, OwnedIsUsable

LEMMA OwnStep == OwnInv /\ [Next]_vars => OwnInv'
BY BaseStep, NoDuplicatesStep, QueueStep, PooledStep, TailStep, ExclusiveStep, UsableStep DEF OwnInv

(* For any number of callers and connections: no path of get, put or the     *)
(* hand-over through a waiter's channel gives a connection to two callers.   *)
THEOREM ExclusiveOwnership == Spec => []ExclusiveUse
<1>1. OwnInv => ExclusiveUse
  BY DEF OwnInv
<1> QED
  BY <1>1, OwnInit, OwnStep, PTL DEF Spec

(* For any number of callers and connections: while the pool is open, what a *)
(* caller owns is pooled, mounted and not about to be closed, whatever get,  *)
(* cleanup and put remove meanwhile.                                         *)
THEOREM OwnedStaysUsable == Spec => []OwnedIsUsable
<1>1. OwnInv => OwnedIsUsable
  BY DEF OwnInv
<1> QED
  BY <1>1, OwnInit, OwnStep, PTL DEF Spec
=============================================================================
