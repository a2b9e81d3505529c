------------------------ MODULE ConnectionPoolHandoff -----------------------
(***************************************************************************)
(* Nothing is left lying: proofs, for any number of callers, that no       *)
(* connection is idle while a waiter is queued, that fewer than MaxIdle    *)
(* are idle, and that no open session is forgotten; and that the pool      *)
(* implements ConnectionLease.                                             *)
(***************************************************************************)
EXTENDS ConnectionPoolProofs, ConnectionPoolRefinement

(* Both provers, the quicker one first.                                      *)
USE ZenonT(1), SMTT(60)

(* When get's loop has skipped only connections in use, it may conclude that *)
(* none is idle.  Once it has removed an expired one the conclusion fails    *)
(* (the next element slips past the loop), but then a slot is free and get   *)
(* dials instead of queueing.                                                *)
ScanInv ==
  mu \in Clients =>
    \/ numOpen < MaxOpen
    \/ /\ tail = <<>>
       /\ \A k \in DOMAIN connections : k < pos => inUse[connections[k]]

HandoffInv == BaseInv /\ SlotAccounting /\ ScanInv /\ NoMissedHandoff

LEMMA ScanStep == BaseInv /\ SlotAccounting /\ ScanInv /\ [Next]_vars => ScanInv'
<1> SUFFICES ASSUME BaseInv, SlotAccounting, ScanInv, [Next]_vars PROVE ScanInv'
  OBVIOUS
<1> USE PoolAssumption DEF BaseInv
<1>0. connections \in Seq(Conns) /\ DOMAIN connections = 1 .. Len(connections) /\ pos \in Nat
  BY DEF TypeOK
<1>1. ASSUME NEW c \in Clients, GetLock(c) PROVE ScanInv'
  <2>1. tail' = <<>> /\ pos' = 1 /\ connections' = connections
    BY <1>1 DEF GetLock, poolVars
  <2> QED
    BY <1>0, <2>1 DEF ScanInv
<1>2. ASSUME NEW c \in Clients, GetSkip(c) PROVE ScanInv'
  <2>1. /\ mu = c /\ mu' = mu /\ pos' = pos + 1 /\ pos > 0 /\ inUse[RangeView[pos]]
        /\ UNCHANGED <<connections, tail, inUse, numOpen>>
    BY <1>2 DEF GetSkip, Scanning, LockInv, poolVars, connVars
  <2>2. CASE numOpen < MaxOpen
    BY <2>1, <2>2 DEF ScanInv
  <2>3. CASE ~(numOpen < MaxOpen)
    <3>1. tail = <<>> /\ \A k \in DOMAIN connections : k < pos => inUse[connections[k]]
      BY <2>1, <2>3 DEF ScanInv
    <3>2. RangeView = connections
      BY <1>0, <3>1, ConcatEmptySeq DEF RangeView
    <3> QED
      BY <1>0, <2>1, <3>1, <3>2 DEF ScanInv
  <2> QED
    BY <2>2, <2>3
<1>3. ASSUME NEW c \in Clients, GetExpire(c) PROVE ScanInv'
  <2>1. numOpen' = numOpen - 1 /\ numOpen <= MaxOpen
    BY <1>3 DEF GetExpire, Scanning, LockInv, SlotAccounting
  <2> QED
    BY <2>1 DEF ScanInv, TypeOK
<1>4. ASSUME mu' \notin Clients PROVE ScanInv'
  BY <1>4 DEF ScanInv
<1>5. ASSUME UNCHANGED <<mu, pos, tail, connections, inUse, numOpen>> PROVE ScanInv'
  BY <1>5 DEF ScanInv
<1>6. ASSUME NEW c \in Clients,
             \/ GetReuse(c) \/ GetCreate(c) \/ GetEnqueue(c)
             \/ CreateStep(c) \/ GetCancelled(c) \/ PutStep(c)
      PROVE  mu' = Nil
  BY <1>6 DEF GetReuse, GetCreate, GetEnqueue, Unlock, CreateStep, CreateSucceeds, CreateFails,
       GetCancelled, PutStep, PutClosed, PutToWaiter, PutKeep, PutDrop, CheckIn, LockFree, loopVars
<1>7. ASSUME CleanupLock \/ CleanupStep \/ PoolClose PROVE mu' \in {Cleaner, Nil}
  BY <1>7 DEF CleanupLock, CleanupStep, CleanupKeep, CleanupRemove, CleanupDone, Unlock, PoolClose,
       LockFree, loopVars
<1>8. ASSUME NEW c \in Clients, GetClosed(c) \/ GetPanic(c) \/ WaitStep(c)
      PROVE  UNCHANGED <<mu, pos, tail, connections, inUse, numOpen>>
  BY <1>8 DEF GetClosed, GetPanic, WaitStep, GetReceive, GetReceiveNil, GetTimeout, GetCancel,
       vars, poolVars, connVars, loopVars
<1>9. ASSUME (\E x \in Conns : ConnClose(x)) \/ FsCancel \/ Tick \/ Crashed \/ UNCHANGED vars
      PROVE  UNCHANGED <<mu, pos, tail, connections, inUse, numOpen>>
  BY <1>9 DEF ConnClose, FsCancel, Tick, Crashed, vars, poolVars, connVars, loopVars
<1> QED
  BY <1>1, <1>2, <1>3, <1>4, <1>5, <1>6, <1>7, <1>8, <1>9 DEF Next, GetStep

LEMMA HandoffStep == HandoffInv /\ [Next]_vars => NoMissedHandoff'
<1> SUFFICES ASSUME HandoffInv, [Next]_vars PROVE NoMissedHandoff'
  OBVIOUS
<1> USE PoolAssumption DEF HandoffInv, BaseInv
<1>0. /\ connections \in Seq(Conns) /\ DOMAIN connections = 1 .. Len(connections)
      /\ waiters \in Seq(Chans) /\ pos \in Nat
  BY DEF TypeOK
<1>1. ASSUME NEW c \in Clients, GetEnqueue(c) PROVE NoMissedHandoff'
  <2>1. /\ mu = c /\ pos > Len(RangeView) /\ ~(numOpen < MaxOpen)
        /\ UNCHANGED <<connections, inUse>>
    BY <1>1 DEF GetEnqueue, Scanning, TypeOK, connVars
  <2>2. tail = <<>> /\ \A k \in DOMAIN connections : k < pos => inUse[connections[k]]
    BY <2>1 DEF ScanInv
  <2>3. RangeView = connections
    BY <1>0, <2>2, ConcatEmptySeq DEF RangeView
  <2>4. \A k \in DOMAIN connections : inUse[connections[k]]
    BY <1>0, <2>1, <2>2, <2>3
  <2> QED
    BY <2>1, <2>4 DEF NoMissedHandoff, Idle, ToSet
<1>2. ASSUME ToSet(waiters') \subseteq ToSet(waiters), Idle' \subseteq Idle PROVE NoMissedHandoff'
  <2>1. ASSUME waiters' # <<>>, waiters' \in Seq(Chans) PROVE waiters # <<>>
    <3>1. waiters'[1] \in ToSet(waiters')
      BY <2>1 DEF ToSet
    <3> QED
      BY <1>2, <3>1 DEF ToSet
  <2>2. waiters' \in Seq(Chans)
    BY BaseStep DEF TypeOK
  <2> QED
    BY <1>2, <2>1, <2>2 DEF NoMissedHandoff
<1>3. ASSUME NEW k \in DOMAIN connections, connections' = RemoveAt(connections, k), inUse' = inUse
      PROVE  Idle' \subseteq Idle
  BY <1>0, <1>3, RemoveAtElements DEF Idle
<1>4. ASSUME NEW c \in Clients, GetExpire(c) PROVE NoMissedHandoff'
  <2>1. pos \in DOMAIN connections
    BY <1>0, <1>4 DEF GetExpire, Scanning, LockInv
  <2> QED
    BY <1>2, <1>3, <1>4, <2>1 DEF GetExpire
<1>5. ASSUME CleanupRemove PROVE NoMissedHandoff'
  <2>1. pos \in DOMAIN connections
    BY <1>0, <1>5 DEF CleanupRemove, LockInv
  <2> QED
    BY <1>2, <1>3, <1>5, <2>1 DEF CleanupRemove
<1>6. ASSUME NEW c \in Clients, GetReuse(c) PROVE NoMissedHandoff'
  <2>1. UNCHANGED <<connections, waiters>> /\ inUse' = [inUse EXCEPT ![RangeView[pos]] = TRUE]
    BY <1>6 DEF GetReuse, CheckOut, poolVars
  <2>2. ToSet(connections) \subseteq Conns
    BY <1>0 DEF ToSet
  <2>3. Idle' \subseteq Idle
    BY <2>1, <2>2 DEF Idle, TypeOK
  <2> QED
    BY <1>2, <2>1, <2>3
<1>7. ASSUME NEW c \in Clients, CreateSucceeds(c) PROVE NoMissedHandoff'
  <2>1. PICK x \in FreeConns : connections' = Append(connections, x) /\ CheckOut(c, x)
    BY <1>7 DEF CreateSucceeds
  <2>2. x \in Conns /\ inUse' = [inUse EXCEPT ![x] = TRUE] /\ waiters' = waiters
    BY <1>7, <2>1, Zenon DEF CreateSucceeds, FreeConns, CheckOut
  <2>3. ToSet(connections') \subseteq ToSet(connections) \cup {x} /\ ToSet(connections) \subseteq Conns
    BY <1>0, <2>1, <2>2, AppendProperties DEF ToSet
  <2>4. Idle' \subseteq Idle
    BY <2>2, <2>3 DEF Idle, TypeOK
  <2> QED
    BY <1>2, <2>2, <2>4
<1>8. ASSUME NEW c \in Clients, PutToWaiter(c) PROVE NoMissedHandoff'
  <2>1. waiters # <<>> /\ waiters' = Tail(waiters) /\ connections' = connections
        /\ inUse' = [inUse EXCEPT ![held[c]] = TRUE]
    BY <1>8 DEF PutToWaiter
  <2>2. ToSet(connections) \subseteq Conns
    BY <1>0 DEF ToSet
  <2>3. Idle' \subseteq Idle
    BY <2>1, <2>2 DEF Idle, TypeOK
  <2> QED
    BY <2>1, <2>3 DEF NoMissedHandoff
<1>9. ASSUME NEW c \in Clients, PutKeep(c) \/ PutDrop(c) PROVE NoMissedHandoff'
  BY <1>9 DEF PutKeep, PutDrop, NoMissedHandoff, poolVars
<1>10. ASSUME NEW c \in Clients, GetCancelled(c) PROVE NoMissedHandoff'
  <2>1. ToSet(waiters') \subseteq ToSet(waiters)
    BY <1>0, <1>10, RemoveAtElements DEF GetCancelled
  <2>2. Idle' = Idle
    BY <1>10 DEF GetCancelled, Idle, connVars
  <2> QED
    BY <1>2, <2>1, <2>2
<1>11. ASSUME PoolClose PROVE NoMissedHandoff'
  BY <1>11 DEF PoolClose, NoMissedHandoff
<1>12. ASSUME UNCHANGED <<waiters, connections, inUse>> PROVE NoMissedHandoff'
  BY <1>12 DEF NoMissedHandoff, Idle
<1>13. ASSUME NEW c \in Clients,
              \/ GetClosed(c) \/ GetLock(c) \/ GetSkip(c) \/ GetPanic(c) \/ GetCreate(c)
              \/ CreateFails(c) \/ WaitStep(c) \/ PutClosed(c)
       PROVE  UNCHANGED <<waiters, connections, inUse>>
  BY <1>13 DEF GetClosed, GetLock, GetSkip, GetPanic, GetCreate, CreateFails, WaitStep, GetReceive,
       GetReceiveNil, GetTimeout, GetCancel, PutClosed, vars, poolVars, connVars
<1>14. ASSUME \/ \E x \in Conns : ConnClose(x)
              \/ CleanupLock \/ CleanupKeep \/ CleanupDone \/ FsCancel \/ Tick \/ Crashed
              \/ UNCHANGED vars
       PROVE  UNCHANGED <<waiters, connections, inUse>>
  BY <1>14 DEF ConnClose, CleanupLock, CleanupKeep, CleanupDone, FsCancel, Tick, Crashed,
       vars, poolVars, connVars
<1> QED
  BY <1>1, <1>4, <1>5, <1>6, <1>7, <1>8, <1>9, <1>10, <1>11, <1>12, <1>13, <1>14
     DEF Next, GetStep, CreateStep, PutStep, CleanupStep

(* For any MaxOpen and any number of callers: get and put never miss each    *)
(* other, no connection lies idle while a channel is queued in p.waiters.    *)
THEOREM HandoffNeverMissed == Spec => []NoMissedHandoff
<1>1. Init => HandoffInv
  BY BaseInit, SlotInit, PoolAssumption DEF Init, HandoffInv, ScanInv, NoMissedHandoff
<1>2. HandoffInv /\ [Next]_vars => HandoffInv'
  BY BaseStep, SlotStep, ScanStep, HandoffStep DEF HandoffInv
<1>3. HandoffInv => NoMissedHandoff
  BY DEF HandoffInv
<1> QED
  BY <1>1, <1>2, <1>3, PTL DEF Spec

-----------------------------------------------------------------------------
LEMMA SessionsStep == OwnInv /\ SessionsAccounted /\ [Next]_vars => SessionsAccounted'
<1> SUFFICES ASSUME OwnInv, SessionsAccounted, [Next]_vars PROVE SessionsAccounted'
  OBVIOUS
<1> USE PoolAssumption DEF OwnInv, BaseInv
<1>0. /\ connections \in Seq(Conns) /\ DOMAIN connections = 1 .. Len(connections)
      /\ held \in [Clients -> Conns \cup {Nil}] /\ live \subseteq Conns
  BY DEF TypeOK
<1>1. ASSUME NEW k \in DOMAIN connections, connections' = RemoveAt(connections, k),
             closing' = closing \cup {connections[k]}, UNCHANGED <<live, closed>>,
             ToSet(held) \subseteq ToSet(held') \cup {connections[k]}
      PROVE  SessionsAccounted'
  <2>1. ToSet(connections) \subseteq ToSet(connections') \cup {connections[k]}
    BY <1>0, <1>1, RemoveAtElements
  <2> QED
    BY <1>1, <2>1 DEF SessionsAccounted
<1>2. ASSUME NEW c \in Clients, GetExpire(c) PROVE SessionsAccounted'
  <2>1. pos \in DOMAIN connections
    BY <1>0, <1>2 DEF GetExpire, Scanning, LockInv, TypeOK
  <2> QED
    BY <1>1, <1>2, <2>1 DEF GetExpire, callerVars
<1>3. ASSUME CleanupRemove PROVE SessionsAccounted'
  <2>1. pos \in DOMAIN connections
    BY <1>0, <1>3 DEF CleanupRemove, LockInv, TypeOK
  <2> QED
    BY <1>1, <1>3, <2>1 DEF CleanupRemove, callerVars
<1>4. ASSUME NEW c \in Clients, NEW x \in Conns, held[c] = Nil, held' = [held EXCEPT ![c] = x]
      PROVE  /\ ToSet(held) \subseteq ToSet(held') \cup {Nil}
             /\ x \in ToSet(held')
  BY <1>0, <1>4 DEF ToSet
<1>5. ASSUME NEW c \in Clients, GetReuse(c) PROVE SessionsAccounted'
  <2>1. /\ held[c] = Nil /\ RangeView[pos] \in Conns /\ held' = [held EXCEPT ![c] = RangeView[pos]]
        /\ UNCHANGED <<live, closing, connections, closed>>
    BY <1>5, ReuseIsFree, Zenon DEF GetReuse, Scanning, CheckOut, CallerInv, poolVars
  <2> QED
    BY <1>0, <1>4, <2>1, ZenonT(30) DEF SessionsAccounted
<1>6. ASSUME NEW c \in Clients, GetReceive(c) PROVE SessionsAccounted'
  <2>1. /\ held[c] = Nil /\ buf[chan[c]] \in Conns /\ held' = [held EXCEPT ![c] = buf[chan[c]]]
        /\ UNCHANGED <<live, closing, connections, closed>>
    BY <1>6 DEF GetReceive, CallerInv, poolVars, connVars
  <2>2. ToSet(held) \subseteq ToSet(held') \cup {Nil}
    BY <1>4, <2>1, Zenon
  <2> QED
    BY <1>0, <2>1, <2>2, ZenonT(30) DEF SessionsAccounted
<1>7. ASSUME NEW c \in Clients, CreateSucceeds(c) PROVE SessionsAccounted'
  <2>1. PICK x \in FreeConns : /\ connections' = Append(connections, x)
                               /\ live' = live \cup {x} /\ CheckOut(c, x)
    BY <1>7 DEF CreateSucceeds
  <2>2. /\ held[c] = Nil /\ x \in Conns /\ held' = [held EXCEPT ![c] = x]
        /\ UNCHANGED <<closing, closed>>
    BY <1>7, <2>1, Zenon DEF CreateSucceeds, CheckOut, CallerInv, FreeConns
  <2>3. ToSet(connections) \subseteq ToSet(connections')
    BY <1>0, <2>1, <2>2, AppendProperties DEF ToSet
  <2>4. ToSet(held) \subseteq ToSet(held') \cup {Nil} /\ x \in ToSet(held')
    BY <1>4, <2>2, Zenon
  <2> QED
    BY <1>0, <2>1, <2>2, <2>3, <2>4, ZenonT(30) DEF SessionsAccounted
<1>8. ASSUME NEW c \in Clients, CheckIn(c)
      PROVE  ToSet(held) \subseteq ToSet(held') \cup {held[c]}
  BY <1>0, <1>8 DEF CheckIn, ToSet
<1>9. ASSUME NEW c \in Clients, PutClosed(c) PROVE SessionsAccounted'
  BY <1>8, <1>9 DEF PutClosed, SessionsAccounted, poolVars
<1>10. ASSUME NEW c \in Clients, PutToWaiter(c) \/ PutKeep(c) PROVE SessionsAccounted'
  <2>1. /\ CheckIn(c) /\ ~closed /\ held[c] \in Conns
        /\ UNCHANGED <<connections, closed, live, closing>>
    BY <1>10 DEF PutToWaiter, PutKeep, CheckIn, CallerInv, TypeOK, poolVars
  <2>2. held[c] \in ToSet(connections)
    BY <2>1 DEF OwnedIsUsable, Owns
  <2> QED
    BY <1>8, <2>1, <2>2 DEF SessionsAccounted
<1>11. ASSUME NEW c \in Clients, PutDrop(c) PROVE SessionsAccounted'
  <2>1. PICK k \in DOMAIN connections : connections[k] = held[c] /\ connections' = RemoveAt(connections, k)
    BY <1>11 DEF PutDrop
  <2>2. CheckIn(c) /\ closing' = closing \cup {connections[k]} /\ UNCHANGED <<live, closed>>
    BY <1>11, <2>1 DEF PutDrop
  <2> QED
    BY <1>1, <1>8, <2>1, <2>2
<1>12. ASSUME PoolClose PROVE SessionsAccounted'
  <2>1. ~closed /\ closed' /\ closing' = closing \cup ToSet(connections) /\ UNCHANGED <<live, held>>
    BY <1>12 DEF PoolClose
  <2> QED
    BY <2>1 DEF SessionsAccounted
<1>13. ASSUME NEW x \in Conns, ConnClose(x) PROVE SessionsAccounted'
  <2>1. /\ closing' = closing \ {x} /\ live' = live \ {x}
        /\ UNCHANGED <<connections, closed, held>>
    BY <1>13 DEF ConnClose, poolVars, callerVars
  <2> QED
    BY <2>1 DEF SessionsAccounted
<1>14. ASSUME UNCHANGED <<connections, closed, live, closing, held>> PROVE SessionsAccounted'
  BY <1>14 DEF SessionsAccounted
<1>15. ASSUME NEW c \in Clients,
              \/ GetClosed(c) \/ GetLock(c) \/ GetSkip(c) \/ GetPanic(c) \/ GetCreate(c) \/ GetEnqueue(c)
              \/ CreateFails(c) \/ GetReceiveNil(c) \/ GetTimeout(c) \/ GetCancel(c) \/ GetCancelled(c)
       PROVE  UNCHANGED <<connections, closed, live, closing, held>>
  BY <1>15 DEF GetClosed, GetLock, GetSkip, GetPanic, GetCreate, GetEnqueue, CreateFails,
       GetReceiveNil, GetTimeout, GetCancel, GetCancelled, vars, poolVars, connVars, callerVars
<1>16. ASSUME \/ CleanupLock \/ CleanupKeep \/ CleanupDone \/ FsCancel \/ Tick \/ Crashed
              \/ UNCHANGED vars
       PROVE  UNCHANGED <<connections, closed, live, closing, held>>
  BY <1>16 DEF CleanupLock, CleanupKeep, CleanupDone, FsCancel, Tick, Crashed,
       vars, poolVars, connVars, callerVars
<1> QED
  BY <1>2, <1>3, <1>5, <1>6, <1>7, <1>9, <1>10, <1>11, <1>12, <1>13, <1>14, <1>15, <1>16
     DEF Next, GetStep, CreateStep, WaitStep, PutStep, CleanupStep

(* For any number of callers and connections: no path of put, Close or a     *)
(* dial that ends after Close drops the last reference to an open session.   *)
THEOREM NoSessionForgotten == Spec => []SessionsAccounted
<1>1. Init => OwnInv /\ SessionsAccounted
  BY OwnInit DEF Init, SessionsAccounted
<1>2. OwnInv /\ SessionsAccounted /\ [Next]_vars => (OwnInv /\ SessionsAccounted)'
  BY OwnStep, SessionsStep
<1> QED
  BY <1>1, <1>2, PTL DEF Spec

-----------------------------------------------------------------------------
(* The elements of a sequence are finitely many.                             *)
LEMMA ElementsFinite ==
  ASSUME NEW S, NEW s \in Seq(S)
  PROVE  IsFiniteSet(ToSet(s))
<1>1. s \in Surjection(1 .. Len(s), ToSet(s))
  BY DEF ToSet, Surjection
<1>2. IsFiniteSet(1 .. Len(s))
  BY FS_Interval
<1> QED
  BY <1>1, <1>2, FS_Surjection DEF ExistsSurjection

LEMMA IdleStep ==
  BaseInv /\ NoDuplicates /\ IdleBelowMaxIdle /\ [Next]_vars => IdleBelowMaxIdle'
<1> SUFFICES ASSUME BaseInv, NoDuplicates, IdleBelowMaxIdle, [Next]_vars PROVE IdleBelowMaxIdle'
  OBVIOUS
<1> USE PoolAssumption DEF BaseInv
<1>0. /\ connections \in Seq(Conns) /\ DOMAIN connections = 1 .. Len(connections)
      /\ ToSet(connections) \subseteq Conns
  BY DEF TypeOK, ToSet
<1>1. IsFiniteSet(Idle)
  BY <1>0, ElementsFinite, FS_Subset DEF Idle
<1>2. ASSUME Idle' \subseteq Idle PROVE IdleBelowMaxIdle'
  <2>1. Cardinality(Idle') <= Cardinality(Idle) /\ Cardinality(Idle) \in Nat
        /\ Cardinality(Idle') \in Nat
    BY <1>1, <1>2, FS_Subset, FS_CardinalityType
  <2> QED
    BY <2>1 DEF IdleBelowMaxIdle
<1>3. ASSUME NEW c \in Clients, PutKeep(c) PROVE IdleBelowMaxIdle'
  <2>1. PICK x \in Conns : x = held[c]
    BY <1>3 DEF PutKeep, CheckIn, TypeOK, CallerInv
  <2>2. /\ inUse' = [inUse EXCEPT ![x] = FALSE] /\ connections' = connections
        /\ IdleCount(x) < MaxIdle
    BY <1>3, <2>1 DEF PutKeep, poolVars
  <2>3. Idle' = {y \in ToSet(connections) : y = x \/ ~inUse[y]}
    BY <1>0, <2>2 DEF Idle, TypeOK
  <2> QED
    BY <2>2, <2>3 DEF IdleBelowMaxIdle, IdleCount
<1>4. ASSUME NEW c \in Clients, PutDrop(c) PROVE IdleBelowMaxIdle'
  <2>1. PICK k \in DOMAIN connections : connections[k] = held[c] /\ connections' = RemoveAt(connections, k)
    BY <1>4 DEF PutDrop
  <2>2. ToSet(connections') \subseteq ToSet(connections) /\ connections[k] \notin ToSet(connections')
    BY <1>0, <2>1, RemoveAtElements, RemoveAtUnique DEF NoDuplicates
  <2>3. inUse' = [inUse EXCEPT ![connections[k]] = FALSE]
    BY <1>4, <2>1 DEF PutDrop
  <2>4. Idle' \subseteq Idle
    BY <1>0, <2>2, <2>3 DEF Idle, TypeOK
  <2> QED
    BY <1>2, <2>4
<1>5. ASSUME NEW k \in DOMAIN connections, connections' = RemoveAt(connections, k), inUse' = inUse
      PROVE  IdleBelowMaxIdle'
  <2>1. Idle' \subseteq Idle
    BY <1>0, <1>5, RemoveAtElements DEF Idle
  <2> QED
    BY <1>2, <2>1
<1>6. ASSUME NEW c \in Clients, GetExpire(c) PROVE IdleBelowMaxIdle'
  <2>1. pos \in DOMAIN connections
    BY <1>0, <1>6 DEF GetExpire, Scanning, LockInv, TypeOK
  <2> QED
    BY <1>5, <1>6, <2>1 DEF GetExpire
<1>7. ASSUME CleanupRemove PROVE IdleBelowMaxIdle'
  <2>1. pos \in DOMAIN connections
    BY <1>0, <1>7 DEF CleanupRemove, LockInv, TypeOK
  <2> QED
    BY <1>5, <1>7, <2>1 DEF CleanupRemove
<1>8. ASSUME NEW c \in Clients, GetReuse(c) \/ PutToWaiter(c) PROVE IdleBelowMaxIdle'
  <2>1. PICK x : connections' = connections /\ inUse' = [inUse EXCEPT ![x] = TRUE]
    BY <1>8 DEF GetReuse, CheckOut, PutToWaiter, poolVars
  <2>2. Idle' \subseteq Idle
    BY <1>0, <2>1 DEF Idle, TypeOK
  <2> QED
    BY <1>2, <2>2
<1>9. ASSUME NEW c \in Clients, CreateSucceeds(c) PROVE IdleBelowMaxIdle'
  <2>1. PICK x \in FreeConns : connections' = Append(connections, x) /\ CheckOut(c, x)
    BY <1>9 DEF CreateSucceeds
  <2>2. x \in Conns /\ inUse' = [inUse EXCEPT ![x] = TRUE]
    BY <2>1 DEF FreeConns, CheckOut
  <2>3. ToSet(connections') \subseteq ToSet(connections) \cup {x}
    BY <1>0, <2>1, <2>2, AppendProperties DEF ToSet
  <2>4. Idle' \subseteq Idle
    BY <1>0, <2>2, <2>3 DEF Idle, TypeOK
  <2> QED
    BY <1>2, <2>4
<1>10. ASSUME PoolClose PROVE IdleBelowMaxIdle'
  <2>1. Idle' = {}
    BY <1>10 DEF PoolClose, Idle, ToSet
  <2> QED
    BY <1>2, <2>1
<1>11. ASSUME UNCHANGED <<connections, inUse>> PROVE IdleBelowMaxIdle'
  BY <1>11 DEF IdleBelowMaxIdle, Idle
<1>12. ASSUME NEW c \in Clients,
              \/ GetClosed(c) \/ GetLock(c) \/ GetSkip(c) \/ GetPanic(c) \/ GetCreate(c) \/ GetEnqueue(c)
              \/ CreateFails(c) \/ WaitStep(c) \/ GetCancelled(c) \/ PutClosed(c)
       PROVE  UNCHANGED <<connections, inUse>>
  BY <1>12 DEF GetClosed, GetLock, GetSkip, GetPanic, GetCreate, GetEnqueue, CreateFails, WaitStep,
       GetReceive, GetReceiveNil, GetTimeout, GetCancel, GetCancelled, PutClosed, vars, poolVars, connVars
<1>13. ASSUME \/ \E x \in Conns : ConnClose(x)
              \/ CleanupLock \/ CleanupKeep \/ CleanupDone \/ FsCancel \/ Tick \/ Crashed
              \/ UNCHANGED vars
       PROVE  UNCHANGED <<connections, inUse>>
  BY <1>13 DEF ConnClose, CleanupLock, CleanupKeep, CleanupDone, FsCancel, Tick, Crashed,
       vars, poolVars, connVars
<1> QED
  BY <1>3, <1>4, <1>6, <1>7, <1>8, <1>9, <1>10, <1>11, <1>12, <1>13
     DEF Next, GetStep, CreateStep, PutStep, CleanupStep

(* For any MaxIdle: put counts the connection it returns among the idle      *)
(* ones, so the pool keeps at most MaxIdle - 1 of them.                      *)
THEOREM IdleStaysBelowMaxIdle == Spec => []IdleBelowMaxIdle
<1>1. Init => IdleBelowMaxIdle
  <2> SUFFICES ASSUME Init PROVE IdleBelowMaxIdle
    OBVIOUS
  <2>1. Idle = {}
    BY DEF Init, Idle, ToSet
  <2> QED
    BY <2>1, FS_EmptySet, PoolAssumption DEF IdleBelowMaxIdle
<1>2. OwnInv /\ IdleBelowMaxIdle /\ [Next]_vars => (OwnInv /\ IdleBelowMaxIdle)'
  BY OwnStep, IdleStep DEF OwnInv
<1> QED
  BY <1>1, <1>2, OwnInit, PTL DEF Spec

-----------------------------------------------------------------------------
(* The pool implements ConnectionLease: every step of the pool is a step of  *)
(* the lease or leaves it unchanged, under the refinement mapping of         *)
(* ConnectionPoolRefinement.                                                 *)

LeaseInv == OwnInv /\ SessionsAccounted

LEMMA LentValues ==
  ASSUME BaseInv, NEW c \in Clients
  PROVE  /\ pc[c] = "hold" => Lent(c) = held[c] /\ held[c] \in Conns /\ chan[c] = Nil
         /\ pc[c] # "hold" => held[c] = Nil
         /\ pc[c] \notin {"hold", "wait", "cancel"} => Lent(c) = Nil /\ chan[c] = Nil
         /\ Lent(c) \in Conns \cup {Nil}
         /\ \A x \in Conns : Lent(c) = x => Owns(c, x)
BY PoolAssumption DEF BaseInv, TypeOK, CallerInv, Lent, Owns

(* A connection nobody owns is free in the lease.                            *)
LEMMA NobodyHasIt ==
  ASSUME BaseInv, NEW x \in Conns, \A d \in Clients : ~Owns(d, x)
  PROVE  Lease!Free(x)
BY LentValues DEF Lease!Free

(* What a caller is lent changes with what it holds or waits on, only.       *)
LEMMA LentSame ==
  ASSUME NEW d \in Clients, held'[d] = held[d], chan'[d] = chan[d],
         chan[d] # Nil => \/ buf'[chan[d]] = buf[chan[d]]
                          \/ buf[chan[d]] \notin Conns /\ buf'[chan[d]] \notin Conns
  PROVE  Lent(d)' = Lent(d)
BY DEF Lent

LEMMA LeaseStutters ==
  ASSUME \A d \in Clients : Lent(d)' = Lent(d),
         live' \ closing' = live \ closing, closed' = closed
  PROVE  UNCHANGED Lease!vars
BY DEF Lease!vars

LEMMA LeaseReturns ==
  ASSUME NEW c \in Clients, Lent(c) # Nil, Lent(c)' = Nil,
         \A d \in Clients \ {c} : Lent(d)' = Lent(d),
         \/ live' \ closing' = live \ closing
         \/ live' \ closing' = (live \ closing) \ {Lent(c)},
         closed' = closed
  PROVE  Lease!Next
<1> DEFINE L == [d \in Clients |-> Lent(d)]
<1>1. \A d \in Clients : Lent(d)' = IF d = c THEN Nil ELSE Lent(d)
  OBVIOUS
<1>2. L' = [d \in Clients |-> IF d = c THEN Nil ELSE Lent(d)]
  BY <1>1
<1>3. L[c] = Lent(c) /\ L' = [L EXCEPT ![c] = Nil]
  BY <1>2, Zenon
<1>4. (live \ closing)' \in {live \ closing, (live \ closing) \ {L[c]}}
  BY <1>3
<1>5. Lease!Return(c)
  BY <1>3, <1>4 DEF Lease!Return
<1> QED
  BY <1>5 DEF Lease!Next

LEMMA LeaseDiscards ==
  ASSUME NEW x \in Conns, x \in live \ closing, Lease!Free(x),
         \A d \in Clients : Lent(d)' = Lent(d),
         live' \ closing' = (live \ closing) \ {x}, closed' = closed
  PROVE  Lease!Next
<1>1. Lease!Discard(x)
  BY DEF Lease!Discard
<1> QED
  BY <1>1 DEF Lease!Next

(* get. *)
LEMMA LeaseGet ==
  ASSUME LeaseInv, NEW c \in Clients, GetStep(c)
  PROVE  Lease!Next \/ UNCHANGED Lease!vars
<1> USE DEF LeaseInv, OwnInv
<1>0. BaseInv
  OBVIOUS
<1>1. CASE GetReuse(c)
  <2> DEFINE x == RangeView[pos]
  <2>1. x \in Conns /\ x \in ToSet(connections) /\ (\A d \in Clients : ~Owns(d, x)) /\ ~closed
    BY <1>1, ReuseIsFree
  <2>2. x \in live \ closing /\ Lease!Free(x)
    BY <1>0, <2>1, NobodyHasIt DEF PooledUsable
  <2>3. pc[c] = "scan" /\ Lent(c) = Nil /\ chan[c] = Nil
    BY <1>0, <1>1, LentValues DEF GetReuse, Scanning
  <2>4. /\ held' = [held EXCEPT ![c] = x] /\ chan' = chan /\ buf' = buf
        /\ live' = live /\ closing' = closing /\ closed' = closed
    BY <1>1 DEF GetReuse, CheckOut, poolVars
  <2> HIDE DEF x
  <2>5. Lent(c)' = x
    BY <1>0, <2>1, <2>4, PoolAssumption DEF Lent, BaseInv, TypeOK
  <2>6. \A d \in Clients \ {c} : Lent(d)' = Lent(d)
    BY <1>0, <2>4, LentSame DEF BaseInv, TypeOK
  <2>7. Lease!Lend(c, x)
    BY <2>1, <2>2, <2>3, <2>4, <2>5, <2>6, Zenon DEF Lease!Lend
  <2> QED
    BY <2>1, <2>7 DEF Lease!Next
<1>2. CASE GetExpire(c)
  <2> DEFINE x == connections[pos]
  <2>1. /\ mu = c /\ ~closed /\ pos \in 1 .. Len(connections) /\ ~inUse[x]
        /\ closing' = closing \cup {x}
        /\ UNCHANGED <<held, chan, buf, live, closed>>
    BY <1>0, <1>2, PoolAssumption DEF GetExpire, Scanning, callerVars, BaseInv, TypeOK, LockInv
  <2>2. x \in Conns /\ x \in ToSet(connections)
    BY <1>0, <2>1 DEF BaseInv, TypeOK, ToSet
  <2> HIDE DEF x
  <2>3. x \in live \ closing /\ \A d \in Clients : ~Owns(d, x)
    BY <2>1, <2>2 DEF PooledUsable, OwnedIsUsable
  <2>4. Lease!Free(x)
    BY <1>0, <2>2, <2>3, NobodyHasIt
  <2>5. \A d \in Clients : Lent(d)' = Lent(d)
    BY <2>1, LentSame
  <2> QED
    BY <2>1, <2>2, <2>3, <2>4, <2>5, LeaseDiscards
<1>3. CASE GetEnqueue(c)
  <2>1. PICK h \in FreeChans : /\ chan' = [chan EXCEPT ![c] = h]
                               /\ buf' = [buf EXCEPT ![h] = Nil]
    BY <1>3, ZenonT(30) DEF GetEnqueue
  <2>2. h \in Chans /\ \A d \in Clients : chan[d] # h
    BY <1>0, <2>1 DEF FreeChans, ToSet, BaseInv, TypeOK
  <2>3. pc[c] = "scan" /\ UNCHANGED <<held, live, closing, closed>>
    BY <1>3 DEF GetEnqueue, Scanning, connVars
  <2>4. Lent(c) = Nil /\ held[c] = Nil
    BY <1>0, <2>3, LentValues
  <2>5. Lent(c)' = Nil
    BY <1>0, <2>1, <2>2, <2>3, <2>4, PoolAssumption DEF Lent, BaseInv, TypeOK
  <2>6. \A d \in Clients \ {c} : Lent(d)' = Lent(d)
    BY <1>0, <2>1, <2>2, <2>3, LentSame DEF BaseInv, TypeOK
  <2> QED
    BY <2>3, <2>4, <2>5, <2>6, LeaseStutters
<1>4. CASE GetSkip(c) \/ GetPanic(c) \/ GetCreate(c)
  <2>1. UNCHANGED <<held, chan, buf, live, closing, closed>>
    BY <1>4 DEF GetSkip, GetPanic, GetCreate, poolVars, connVars, callerVars
  <2> QED
    BY <2>1, LentSame, LeaseStutters
<1> QED
  BY <1>1, <1>2, <1>3, <1>4 DEF GetStep

(* The caller that waits: what lies in its channel is its own already.       *)
LEMMA LeaseWait ==
  ASSUME LeaseInv, NEW c \in Clients, WaitStep(c) \/ GetCancelled(c)
  PROVE  Lease!Next \/ UNCHANGED Lease!vars
<1> USE DEF LeaseInv, OwnInv
<1>0. BaseInv /\ held \in [Clients -> Conns \cup {Nil}] /\ chan \in [Clients -> Chans \cup {Nil}]
  BY DEF BaseInv, TypeOK
<1>1. CASE GetReceive(c)
  <2> DEFINE h == chan[c]
             x == buf[h]
  <2>1. /\ pc[c] = "wait" /\ x \in Conns
        /\ held' = [held EXCEPT ![c] = x] /\ chan' = [chan EXCEPT ![c] = Nil]
        /\ buf' = [buf EXCEPT ![h] = Nil] /\ UNCHANGED <<live, closing, closed>>
    BY <1>1 DEF GetReceive, poolVars, connVars
  <2>2. h # Nil /\ held[c] = Nil /\ \A d \in Clients \ {c} : chan[d] # h
    BY <1>0, <2>1, LentValues DEF BaseInv, CallerInv, QueueInv
  <2>3. Lent(c)' = x /\ Lent(c) = x
    BY <1>0, <2>1, <2>2, PoolAssumption DEF Lent
  <2>4. \A d \in Clients \ {c} : Lent(d)' = Lent(d)
    BY <1>0, <2>1, <2>2, LentSame DEF BaseInv, TypeOK
  <2> QED
    BY <2>1, <2>3, <2>4, LeaseStutters
<1>2. CASE GetReceiveNil(c) \/ GetTimeout(c) \/ GetCancelled(c)
  <2>1. /\ pc[c] \in {"wait", "cancel"} /\ chan' = [chan EXCEPT ![c] = Nil]
        /\ UNCHANGED <<held, buf, live, closing, closed>>
    BY <1>2 DEF GetReceiveNil, GetTimeout, GetCancelled, poolVars, connVars
  <2>2. held[c] = Nil
    BY <1>0, <2>1, LentValues
  <2>3. Lent(c)' = Nil
    BY <1>0, <2>1, <2>2 DEF Lent
  <2>4. \A d \in Clients \ {c} : Lent(d)' = Lent(d)
    BY <1>0, <2>1, LentSame
  <2>5. CASE Lent(c) = Nil
    BY <2>1, <2>3, <2>4, <2>5, LeaseStutters
  <2>6. CASE Lent(c) # Nil
    BY <2>1, <2>3, <2>4, <2>6, LeaseReturns
  <2> QED
    BY <2>5, <2>6
<1>3. CASE GetCancel(c)
  <2>1. UNCHANGED <<held, chan, buf, live, closing, closed>>
    BY <1>3 DEF GetCancel, poolVars, connVars
  <2> QED
    BY <2>1, LentSame, LeaseStutters
<1> QED
  BY <1>1, <1>2, <1>3 DEF WaitStep

(* A dial ends. *)
LEMMA LeaseCreate ==
  ASSUME LeaseInv, NEW c \in Clients, CreateStep(c)
  PROVE  Lease!Next \/ UNCHANGED Lease!vars
<1> USE DEF LeaseInv, OwnInv
<1>0. BaseInv /\ held \in [Clients -> Conns \cup {Nil}] /\ chan \in [Clients -> Chans \cup {Nil}]
  BY DEF BaseInv, TypeOK
<1>1. CASE CreateSucceeds(c)
  <2>1. PICK x \in FreeConns : live' = live \cup {x} /\ held' = [held EXCEPT ![c] = x]
    BY <1>1, Zenon DEF CreateSucceeds, CheckOut
  <2>2. pc[c] = "create" /\ UNCHANGED <<closing, closed, chan, buf>>
    BY <1>1 DEF CreateSucceeds
  <2>3. x \in Conns /\ x \notin live /\ x \notin closing /\ \A d \in Clients : ~Owns(d, x)
    BY <2>1 DEF FreeConns
  <2>4. Lease!Free(x) /\ Lent(c) = Nil
    BY <1>0, <2>2, <2>3, NobodyHasIt, LentValues
  <2>5. Lent(c)' = x
    BY <1>0, <2>1, <2>3, PoolAssumption DEF Lent
  <2>6. \A d \in Clients \ {c} : Lent(d)' = Lent(d)
    BY <1>0, <2>1, <2>2, LentSame
  <2>7. live' \ closing' = (live \ closing) \cup {x}
    BY <2>1, <2>2, <2>3
  <2>8. Lease!Dial(c, x)
    BY <2>2, <2>3, <2>4, <2>5, <2>6, <2>7, Zenon DEF Lease!Dial
  <2> QED
    BY <2>3, <2>8 DEF Lease!Next
<1>2. CASE CreateFails(c)
  <2>1. UNCHANGED <<held, chan, buf, live, closing, closed>>
    BY <1>2 DEF CreateFails, connVars
  <2> QED
    BY <2>1, LentSame, LeaseStutters
<1> QED
  BY <1>1, <1>2 DEF CreateStep

(* put. *)
LEMMA LeasePut ==
  ASSUME LeaseInv, NEW c \in Clients, PutStep(c)
  PROVE  Lease!Next \/ UNCHANGED Lease!vars
<1> USE DEF LeaseInv, OwnInv
<1>0. /\ BaseInv /\ held \in [Clients -> Conns \cup {Nil}] /\ waiters \in Seq(Chans)
      /\ buf \in [Chans -> Conns \cup {Nil, Closed}]
  BY DEF BaseInv, TypeOK
<1>1. CheckIn(c)
  BY DEF PutStep, PutClosed, PutToWaiter, PutKeep, PutDrop
<1>2. pc[c] = "hold" /\ held' = [held EXCEPT ![c] = Nil] /\ chan' = chan
  BY <1>1 DEF CheckIn
<1>3. Lent(c) = held[c] /\ held[c] \in Conns /\ chan[c] = Nil /\ Lent(c) # Nil
  BY <1>0, <1>2, LentValues, PoolAssumption
<1>4. Lent(c)' = Nil
  BY <1>0, <1>2, <1>3 DEF Lent
<1>5. CASE PutClosed(c) \/ PutKeep(c) \/ PutDrop(c)
  <2>1. /\ UNCHANGED <<buf, live, closed>>
        /\ closing' = closing \/ closing' = closing \cup {held[c]}
    BY <1>5 DEF PutClosed, PutKeep, PutDrop, poolVars
  <2>2. \A d \in Clients \ {c} : Lent(d)' = Lent(d)
    BY <1>0, <1>2, <2>1, LentSame
  <2>3. \/ live' \ closing' = live \ closing
        \/ live' \ closing' = (live \ closing) \ {Lent(c)}
    BY <1>3, <2>1
  <2> QED
    BY <1>3, <1>4, <2>1, <2>2, <2>3, LeaseReturns
<1>6. CASE PutToWaiter(c)
  <2> DEFINE h == Head(waiters)
  <2>1. /\ ~closed /\ waiters # <<>> /\ buf' = [buf EXCEPT ![h] = held[c]]
        /\ UNCHANGED <<live, closing, closed>>
    BY <1>6 DEF PutToWaiter
  <2>2. h \in Chans /\ buf[h] = Nil
    BY <1>0, <2>1 DEF QueueInv
  <2> HIDE DEF h
  <2>3. CASE \E d \in Clients : chan[d] = h
    <3>1. PICK d \in Clients : chan[d] = h
      BY <2>3
    <3>2. d # c /\ h # Nil /\ \A e \in Clients \ {d} : chan[e] # h
      BY <1>3, <2>2, <3>1, PoolAssumption DEF QueueInv
    <3>3. held[d] = Nil /\ held'[d] = Nil
      BY <1>0, <1>2, <3>1, <3>2, LentValues DEF BaseInv, CallerInv
    <3>4. Lent(d) = Nil /\ Lent(d)' = held[c]
      BY <1>0, <1>2, <1>3, <2>1, <2>2, <3>1, <3>2, <3>3, PoolAssumption DEF Lent
    <3>5. \A e \in Clients \ {c, d} : Lent(e)' = Lent(e)
      BY <1>0, <1>2, <2>1, <2>2, <3>2, LentSame
    <3> DEFINE L == [e \in Clients |-> Lent(e)]
    <3>6. \A e \in Clients :
            Lent(e)' = IF e = d THEN Lent(c) ELSE IF e = c THEN Nil ELSE Lent(e)
      BY <1>3, <1>4, <3>4, <3>5
    <3>7. L' = [e \in Clients |-> IF e = d THEN Lent(c) ELSE IF e = c THEN Nil ELSE Lent(e)]
      BY <3>6
    <3>8. L[c] = Lent(c) /\ L[d] = Lent(d)
      OBVIOUS
    <3>9. L' = [L EXCEPT ![c] = Nil, ![d] = L[c]]
      BY <3>2, <3>7, <3>8, Zenon
    <3>10. Lease!HandOver(c, d)
      BY <1>3, <2>1, <3>4, <3>8, <3>9 DEF Lease!HandOver
    <3> QED
      BY <3>10 DEF Lease!Next
  <2>4. CASE \A d \in Clients : chan[d] # h
    <3>1. \A d \in Clients \ {c} : Lent(d)' = Lent(d)
      <4>1. SUFFICES ASSUME NEW d \in Clients \ {c} PROVE Lent(d)' = Lent(d)
        OBVIOUS
      <4>2. held'[d] = held[d] /\ chan'[d] = chan[d]
        BY <1>0, <1>2
      <4>3. chan[d] # Nil => buf'[chan[d]] = buf[chan[d]]
        BY <1>0, <2>1, <2>2, <2>4 DEF BaseInv, TypeOK
      <4> QED
        BY <4>2, <4>3, LentSame
    <3> QED
      BY <1>3, <1>4, <2>1, <3>1, LeaseReturns
  <2> QED
    BY <2>3, <2>4
<1> QED
  BY <1>5, <1>6 DEF PutStep

(* Close: everything that was usable was pooled.                             *)
LEMMA LeaseClose ==
  ASSUME LeaseInv, PoolClose
  PROVE  Lease!Next
<1> USE DEF LeaseInv, OwnInv
<1>0. /\ BaseInv /\ held \in [Clients -> Conns \cup {Nil}]
      /\ chan \in [Clients -> Chans \cup {Nil}] /\ waiters \in Seq(Chans)
      /\ buf \in [Chans -> Conns \cup {Nil, Closed}] /\ live \subseteq Conns
  BY DEF BaseInv, TypeOK
<1>1. /\ ~closed /\ closed' = TRUE
      /\ buf' = [h \in Chans |-> IF h \in ToSet(waiters) THEN Closed ELSE buf[h]]
      /\ closing' = closing \cup ToSet(connections) /\ UNCHANGED <<live, held, chan>>
  BY DEF PoolClose
<1>2. \A x \in ToSet(held) \cap Conns : x \in ToSet(connections)
  <2>1. SUFFICES ASSUME NEW x \in ToSet(held), x \in Conns PROVE x \in ToSet(connections)
    OBVIOUS
  <2>2. PICK c \in Clients : held[c] = x
    BY <1>0 DEF ToSet
  <2> QED
    BY <1>1, <2>1, <2>2 DEF OwnedIsUsable, Owns
<1>3. live' \ closing' = {}
  BY <1>0, <1>1, <1>2 DEF SessionsAccounted
<1>4. \A h \in ToSet(waiters) : buf[h] = Nil
  BY <1>0 DEF QueueInv, ToSet
<1>5. ASSUME NEW d \in Clients PROVE Lent(d)' = Lent(d)
  BY <1>0, <1>1, <1>4, PoolAssumption, LentSame, Zenon
<1>6. Lease!Shut
  BY <1>1, <1>3, <1>5 DEF Lease!Shut
<1> QED
  BY <1>6 DEF Lease!Next

LEMMA LeaseStep == LeaseInv /\ [Next]_vars => [Lease!Next]_Lease!vars
<1> SUFFICES ASSUME LeaseInv, [Next]_vars PROVE [Lease!Next]_Lease!vars
  OBVIOUS
<1>0. BaseInv /\ PooledUsable /\ OwnedIsUsable
  BY DEF LeaseInv, OwnInv
<1>1. ASSUME NEW c \in Clients,
             \/ GetStep(c) \/ CreateStep(c) \/ WaitStep(c) \/ GetCancelled(c) \/ PutStep(c)
      PROVE  Lease!Next \/ UNCHANGED Lease!vars
  BY <1>1, LeaseGet, LeaseCreate, LeaseWait, LeasePut
<1>2. ASSUME CleanupRemove PROVE Lease!Next
  <2> DEFINE x == connections[pos]
  <2>1. /\ ~closed /\ pos \in 1 .. Len(connections) /\ ~inUse[x]
        /\ closing' = closing \cup {x}
        /\ UNCHANGED <<held, chan, buf, live, closed>>
    BY <1>0, <1>2, PoolAssumption DEF CleanupRemove, callerVars, BaseInv, TypeOK, LockInv
  <2>2. x \in Conns /\ x \in ToSet(connections)
    BY <1>0, <2>1 DEF BaseInv, TypeOK, ToSet
  <2> HIDE DEF x
  <2>3. x \in live \ closing /\ \A d \in Clients : ~Owns(d, x)
    BY <1>0, <2>1, <2>2 DEF PooledUsable, OwnedIsUsable
  <2>4. Lease!Free(x)
    BY <1>0, <2>2, <2>3, NobodyHasIt
  <2>5. \A d \in Clients : Lent(d)' = Lent(d)
    BY <2>1, LentSame
  <2> QED
    BY <2>1, <2>2, <2>3, <2>4, <2>5, LeaseDiscards
<1>3. ASSUME NEW x \in Conns, ConnClose(x) PROVE UNCHANGED Lease!vars
  <2>1. /\ x \in closing /\ closing' = closing \ {x} /\ live' = live \ {x}
        /\ UNCHANGED <<held, chan, buf, closed>>
    BY <1>3 DEF ConnClose, callerVars, poolVars
  <2>2. live' \ closing' = live \ closing
    BY <2>1
  <2> QED
    BY <2>1, <2>2, LentSame, LeaseStutters
<1>4. ASSUME UNCHANGED <<held, chan, buf, live, closing, closed>> PROVE UNCHANGED Lease!vars
  BY <1>4, LentSame, LeaseStutters
<1>5. ASSUME \/ \E c \in Clients : GetClosed(c) \/ GetLock(c)
             \/ CleanupLock \/ CleanupKeep \/ CleanupDone \/ FsCancel \/ Tick \/ Crashed
             \/ UNCHANGED vars
      PROVE  UNCHANGED <<held, chan, buf, live, closing, closed>>
  BY <1>5 DEF GetClosed, GetLock, CleanupLock, CleanupKeep, CleanupDone, FsCancel, Tick,
       Crashed, vars, poolVars, connVars, callerVars
<1> QED
  BY <1>1, <1>2, <1>3, <1>4, <1>5, LeaseClose DEF Next, CleanupStep

(* The pool keeps the promise of ConnectionLease, for any number of callers, *)
(* connections and channels: a connection is lent to one caller at a time    *)
(* and only while it is mounted, and until Close nobody takes it away from   *)
(* its holder.                                                               *)
THEOREM PoolImplementsLease == Spec => ImplementsLease
<1>1. Init => LeaseInv
  BY OwnInit DEF Init, SessionsAccounted, LeaseInv
<1>2. LeaseInv /\ [Next]_vars => LeaseInv'
  BY OwnStep, SessionsStep DEF LeaseInv
<1>3. Init => Lease!Init
  <2> SUFFICES ASSUME Init PROVE Lease!Init
    OBVIOUS
  <2>1. \A c \in Clients : Lent(c) = Nil
    BY DEF Init, Lent
  <2>2. live \ closing = {} /\ closed = FALSE
    BY DEF Init
  <2> QED
    BY <2>1, <2>2 DEF Lease!Init
<1> QED
  BY <1>1, <1>2, <1>3, LeaseStep, PTL DEF Spec, ImplementsLease, Lease!Spec
=============================================================================
