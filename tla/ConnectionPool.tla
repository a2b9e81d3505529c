--------------------------- MODULE ConnectionPool ---------------------------
(***************************************************************************)
(* The client's connection pool (connection.go): callers check connections *)
(* out with get and back in with put, a cleaner removes idle connections,  *)
(* and FileSystem.Close cancels the context and closes the pool.           *)
(*                                                                         *)
(* One step is one critical section of p.mu, or one operation on a channel *)
(* or a timer outside of it.  The two loops that remove from p.connections *)
(* while p.mu is held (in get and in cleanup) take one step per iteration, *)
(* with mu naming the goroutine that holds the lock.                       *)
(*                                                                         *)
(* A definition named D_<slip> is D with a plausible mistake in it; no     *)
(* specification uses it, the mutation checks put it in D's place.         *)
(*                                                                         *)
(* Time: age[x] is the time since conn.lastUsed in ticks, capped one above *)
(* IdleTimeout (the code only compares it with IdleTimeout).  It stands    *)
(* still while x is checked out: put resets lastUsed before it is read.    *)
(***************************************************************************)
EXTENDS Integers, Sequences, FiniteSets, SequencesExt

CONSTANTS
  Clients,      \* goroutines that call get and put
  Conns,        \* identities of pooledConn values (bound on those alive)
  Chans,        \* identities of waiter channels (bound on those alive)
  MaxOpen,      \* Config.MaxOpen
  MaxIdle,      \* Config.MaxIdle
  IdleTimeout,  \* Config.IdleTimeout, in ticks
  Nil,          \* no connection, no channel, no lock holder
  Closed,       \* what a closed channel yields
  Cleaner       \* the goroutine of startCleanup

ASSUME PoolAssumption ==
  /\ IsFiniteSet(Clients)
  /\ MaxOpen \in Nat \ {0} /\ MaxIdle \in Nat \ {0}
  /\ IdleTimeout \in Nat \ {0}
  /\ Nil \notin Conns \cup Chans \cup Clients
  /\ Closed \notin Conns \cup {Nil}
  /\ Cleaner \notin Clients \cup {Nil}

VARIABLES
  connections,  \* p.connections
  waiters,      \* p.waiters
  numOpen,      \* p.numOpen
  closed,       \* p.closed
  inUse,        \* conn.inUse
  age,          \* time since conn.lastUsed
  live,         \* connections whose share and session are not nil
  closing,      \* connections with a pending `go conn.close()`
  mu,           \* who holds p.mu across steps
  pos,          \* index of the loop that runs under p.mu
  tail,         \* what get's range loop still sees behind p.connections
  pc,           \* where each caller is
  held,         \* the connection each caller has checked out
  chan,         \* the channel each caller waits on
  buf,          \* the content of each waiter channel
  ctxDone,      \* fsys.ctx is cancelled
  panicked      \* the process died of a run-time panic

poolVars == <<connections, waiters, numOpen, closed>>
connVars == <<inUse, age, live, closing>>
loopVars == <<mu, pos, tail>>
callerVars == <<pc, held, chan, buf>>
vars == <<poolVars, connVars, loopVars, callerVars, ctxDone, panicked>>

PCs == {"idle", "scan", "create", "wait", "cancel", "hold"}

TypeOK ==
  /\ connections \in Seq(Conns)
  /\ waiters \in Seq(Chans)
  /\ numOpen \in Int
  /\ closed \in BOOLEAN
  /\ inUse \in [Conns -> BOOLEAN]
  /\ age \in [Conns -> 0 .. IdleTimeout + 1]
  /\ live \subseteq Conns
  /\ closing \subseteq Conns
  /\ mu \in Clients \cup {Cleaner, Nil}
  /\ pos \in Nat
  /\ tail \in Seq(Conns)
  /\ pc \in [Clients -> PCs]
  /\ held \in [Clients -> Conns \cup {Nil}]
  /\ chan \in [Clients -> Chans \cup {Nil}]
  /\ buf \in [Chans -> Conns \cup {Nil, Closed}]
  /\ ctxDone \in BOOLEAN
  /\ panicked \in BOOLEAN

Init ==
  /\ connections = <<>> /\ waiters = <<>> /\ numOpen = 0 /\ closed = FALSE
  /\ inUse = [x \in Conns |-> FALSE]
  /\ age = [x \in Conns |-> 0]
  /\ live = {} /\ closing = {}
  /\ mu = Nil /\ pos = 0 /\ tail = <<>>
  /\ pc = [c \in Clients |-> "idle"]
  /\ held = [c \in Clients |-> Nil]
  /\ chan = [c \in Clients |-> Nil]
  /\ buf = [h \in Chans |-> Nil]
  /\ ctxDone = FALSE
  /\ panicked = FALSE

-----------------------------------------------------------------------------
(* The lock.  LockFree guards the steps that lock and unlock at once.  A     *)
(* panic under the lock leaves it held, which stops all of these; the steps  *)
(* that need no lock ask for ~panicked.                                      *)

LockFree == mu = Nil
Unlock == mu' = Nil /\ pos' = 0 /\ tail' = <<>>

(* A caller owns what it has checked out and what lies in the channel it is  *)
(* still waiting on.                                                         *)
Owns(c, x) == held[c] = x \/ (chan[c] # Nil /\ buf[chan[c]] = x)

(* Identities no one refers to any more stand for freshly allocated values.  *)
FreeConns ==
  {x \in Conns \ (live \cup closing \cup ToSet(connections)) :
     \A c \in Clients : ~Owns(c, x)}
FreeChans == Chans \ (ToSet(waiters) \cup ToSet(chan))

CheckOut(c, x) ==
  /\ inUse' = [inUse EXCEPT ![x] = TRUE]
  /\ age' = [age EXCEPT ![x] = 0]
  /\ pc' = [pc EXCEPT ![c] = "hold"]
  /\ held' = [held EXCEPT ![c] = x]

-----------------------------------------------------------------------------
(* get *)

(* A closed pool refuses at once. *)
GetClosed(c) ==
  /\ pc[c] = "idle" /\ LockFree /\ closed
  /\ UNCHANGED vars

(* get takes p.mu and starts `for i, conn := range p.connections`.  Callers  *)
(* start only while a channel identity is left for the wait (bound).         *)
GetLock(c) ==
  /\ pc[c] = "idle" /\ LockFree /\ ~closed
  /\ FreeChans # {}
  /\ pc' = [pc EXCEPT ![c] = "scan"]
  /\ mu' = c /\ pos' = 1 /\ tail' = <<>>
  /\ UNCHANGED <<poolVars, connVars, held, chan, buf, ctxDone, panicked>>

(* The range loop walks the slice p.connections had when the loop began.  A  *)
(* removal shifts the elements of that same array left, so the loop sees the *)
(* current p.connections followed by tail, the old elements left behind it.  *)
RangeView == connections \o tail
Scanning(c) == pc[c] = "scan" /\ mu = c /\ ~panicked

GetSkip(c) ==
  /\ Scanning(c) /\ pos <= Len(RangeView)
  /\ inUse[RangeView[pos]]
  /\ pos' = pos + 1
  /\ UNCHANGED <<poolVars, connVars, mu, tail, callerVars, ctxDone, panicked>>

GetReuse(c) ==
  /\ Scanning(c) /\ pos <= Len(RangeView)
  /\ ~inUse[RangeView[pos]] /\ age[RangeView[pos]] < IdleTimeout
  /\ CheckOut(c, RangeView[pos])
  /\ Unlock
  /\ UNCHANGED <<poolVars, live, closing, chan, buf, ctxDone, panicked>>

GetExpire(c) ==
  /\ Scanning(c) /\ pos <= Len(connections)
  /\ ~inUse[connections[pos]] /\ age[connections[pos]] >= IdleTimeout
  /\ connections' = RemoveAt(connections, pos)
  /\ tail' = <<connections[Len(connections)]>> \o tail
  /\ numOpen' = numOpen - 1
  /\ closing' = closing \cup {connections[pos]}
  /\ pos' = pos + 1
  /\ UNCHANGED <<waiters, closed, inUse, age, live, mu, callerVars, ctxDone, panicked>>

(* The expired connection is one left behind p.connections: the slice        *)
(* expression p.connections[i+1:] is out of range and the program dies.      *)
GetPanic(c) ==
  /\ Scanning(c) /\ pos > Len(connections) /\ pos <= Len(RangeView)
  /\ ~inUse[RangeView[pos]] /\ age[RangeView[pos]] >= IdleTimeout
  /\ panicked' = TRUE
  /\ UNCHANGED <<poolVars, connVars, loopVars, callerVars, ctxDone>>

(* The loop is over: reserve a slot and go and dial without the lock, ... *)
GetCreate(c) ==
  /\ Scanning(c) /\ pos > Len(RangeView)
  /\ numOpen < MaxOpen
  /\ numOpen' = numOpen + 1
  /\ pc' = [pc EXCEPT ![c] = "create"]
  /\ Unlock
  /\ UNCHANGED <<connections, waiters, closed, connVars, held, chan, buf, ctxDone, panicked>>

(* ... or queue up behind the other waiters. *)
GetEnqueue(c) ==
  /\ Scanning(c) /\ pos > Len(RangeView)
  /\ numOpen >= MaxOpen
  /\ \E h \in FreeChans :
       /\ waiters' = Append(waiters, h)
       /\ chan' = [chan EXCEPT ![c] = h]
       /\ buf' = [buf EXCEPT ![h] = Nil]
  /\ pc' = [pc EXCEPT ![c] = "wait"]
  /\ Unlock
  /\ UNCHANGED <<connections, numOpen, closed, connVars, held, ctxDone, panicked>>

(* createConnection: dial, session setup and mount happen without the lock;  *)
(* the connection joins p.connections whatever became of the pool meanwhile. *)
CreateSucceeds(c) ==
  /\ pc[c] = "create" /\ LockFree
  /\ \E x \in FreeConns :
       /\ connections' = Append(connections, x)
       /\ live' = live \cup {x}
       /\ CheckOut(c, x)
  /\ UNCHANGED <<waiters, numOpen, closed, closing, loopVars, chan, buf, ctxDone, panicked>>

CreateFails_KeepsSlot(c) ==
  /\ pc[c] = "create" /\ LockFree
  /\ pc' = [pc EXCEPT ![c] = "idle"]
  /\ UNCHANGED <<poolVars, connVars, loopVars, held, chan, buf, ctxDone, panicked>>

CreateFails(c) ==
  /\ pc[c] = "create" /\ LockFree
  /\ numOpen' = numOpen - 1
  /\ pc' = [pc EXCEPT ![c] = "idle"]
  /\ UNCHANGED <<connections, waiters, closed, connVars, loopVars, held, chan, buf,
                 ctxDone, panicked>>

(* The select of a waiter.  Its three cases race: each may be taken while    *)
(* another is ready.                                                         *)
GetReceive(c) ==
  /\ pc[c] = "wait" /\ buf[chan[c]] \in Conns /\ ~panicked
  /\ pc' = [pc EXCEPT ![c] = "hold"]
  /\ held' = [held EXCEPT ![c] = buf[chan[c]]]
  /\ chan' = [chan EXCEPT ![c] = Nil]
  /\ buf' = [buf EXCEPT ![chan[c]] = Nil]
  /\ UNCHANGED <<poolVars, connVars, loopVars, ctxDone, panicked>>

GetReceiveNil_Unchecked(c) ==
  /\ pc[c] = "wait" /\ buf[chan[c]] = Closed /\ ~panicked
  /\ pc' = [pc EXCEPT ![c] = "hold"]
  /\ held' = [held EXCEPT ![c] = buf[chan[c]]]
  /\ chan' = [chan EXCEPT ![c] = Nil]
  /\ UNCHANGED <<poolVars, connVars, loopVars, buf, ctxDone, panicked>>

GetReceiveNil(c) ==
  /\ pc[c] = "wait" /\ buf[chan[c]] = Closed /\ ~panicked
  /\ pc' = [pc EXCEPT ![c] = "idle"]
  /\ chan' = [chan EXCEPT ![c] = Nil]
  /\ UNCHANGED <<poolVars, connVars, loopVars, held, buf, ctxDone, panicked>>

GetTimeout_Never(c) == FALSE /\ UNCHANGED vars

(* ConnTimeout: the caller leaves, its channel stays in p.waiters. *)
GetTimeout(c) ==
  /\ pc[c] = "wait" /\ ~panicked
  /\ pc' = [pc EXCEPT ![c] = "idle"]
  /\ chan' = [chan EXCEPT ![c] = Nil]
  /\ UNCHANGED <<poolVars, connVars, loopVars, held, buf, ctxDone, panicked>>

(* ctx.Done() is chosen first, the waiter removed once p.mu is free. *)
GetCancel(c) ==
  /\ pc[c] = "wait" /\ ctxDone /\ ~panicked
  /\ pc' = [pc EXCEPT ![c] = "cancel"]
  /\ UNCHANGED <<poolVars, connVars, loopVars, held, chan, buf, ctxDone, panicked>>

GetCancelled(c) ==
  /\ pc[c] = "cancel" /\ LockFree
  /\ \/ /\ \A k \in DOMAIN waiters : waiters[k] # chan[c]
        /\ UNCHANGED waiters
     \/ \E k \in DOMAIN waiters :
          /\ waiters[k] = chan[c]
          /\ \A j \in 1 .. k - 1 : waiters[j] # chan[c]
          /\ waiters' = RemoveAt(waiters, k)
  /\ pc' = [pc EXCEPT ![c] = "idle"]
  /\ chan' = [chan EXCEPT ![c] = Nil]
  /\ UNCHANGED <<connections, numOpen, closed, connVars, loopVars, held, buf, ctxDone, panicked>>

-----------------------------------------------------------------------------
(* put *)

CheckIn(c) ==
  /\ pc[c] = "hold" /\ LockFree
  /\ pc' = [pc EXCEPT ![c] = "idle"]
  /\ held' = [held EXCEPT ![c] = Nil]
  /\ UNCHANGED <<loopVars, chan, ctxDone, panicked>>

PutClosed_NoClose(c) ==
  /\ CheckIn(c) /\ closed
  /\ UNCHANGED <<poolVars, connVars, buf>>

PutClosed(c) ==
  /\ CheckIn(c) /\ closed
  /\ closing' = closing \cup {held[c]}
  /\ UNCHANGED <<poolVars, inUse, age, live, buf>>

PutToWaiter_LeavesIdle(c) ==
  /\ CheckIn(c) /\ ~closed /\ waiters # <<>>
  /\ waiters' = Tail(waiters)
  /\ buf' = [buf EXCEPT ![Head(waiters)] = held[c]]
  /\ inUse' = [inUse EXCEPT ![held[c]] = FALSE]
  /\ age' = [age EXCEPT ![held[c]] = 0]
  /\ UNCHANGED <<connections, numOpen, closed, live, closing>>

PutToWaiter(c) ==
  /\ CheckIn(c) /\ ~closed /\ waiters # <<>>
  /\ waiters' = Tail(waiters)
  /\ buf' = [buf EXCEPT ![Head(waiters)] = held[c]]
  /\ inUse' = [inUse EXCEPT ![held[c]] = TRUE]
  /\ age' = [age EXCEPT ![held[c]] = 0]
  /\ UNCHANGED <<connections, numOpen, closed, live, closing>>

IdleCount_BeforeRelease(x) ==
  Cardinality({y \in ToSet(connections) : ~inUse[y]})

(* idleCount is taken after conn.inUse = false, so it counts conn as well.   *)
(* (No connection is in p.connections twice: NoDuplicates of the proofs.)    *)
IdleCount(x) ==
  Cardinality({y \in ToSet(connections) : y = x \/ ~inUse[y]})

PutKeep_IgnoresWaiters(c) ==
  /\ CheckIn(c) /\ ~closed
  /\ IdleCount(held[c]) < MaxIdle
  /\ inUse' = [inUse EXCEPT ![held[c]] = FALSE]
  /\ age' = [age EXCEPT ![held[c]] = 0]
  /\ UNCHANGED <<poolVars, live, closing, buf>>

PutKeep(c) ==
  /\ CheckIn(c) /\ ~closed /\ waiters = <<>>
  /\ IdleCount(held[c]) < MaxIdle
  /\ inUse' = [inUse EXCEPT ![held[c]] = FALSE]
  /\ age' = [age EXCEPT ![held[c]] = 0]
  /\ UNCHANGED <<poolVars, live, closing, buf>>

PutDrop_StaysListed(c) ==
  /\ CheckIn(c) /\ ~closed /\ waiters = <<>>
  /\ IdleCount(held[c]) >= MaxIdle
  /\ numOpen' = numOpen - 1
  /\ closing' = closing \cup {held[c]}
  /\ inUse' = [inUse EXCEPT ![held[c]] = FALSE]
  /\ age' = [age EXCEPT ![held[c]] = 0]
  /\ UNCHANGED <<connections, waiters, closed, live, buf>>
PutDrop(c) ==
  /\ CheckIn(c) /\ ~closed /\ waiters = <<>>
  /\ IdleCount(held[c]) >= MaxIdle
  /\ \E k \in DOMAIN connections :
       /\ connections[k] = held[c]
       /\ connections' = RemoveAt(connections, k)
  /\ numOpen' = numOpen - 1
  /\ closing' = closing \cup {held[c]}
  /\ inUse' = [inUse EXCEPT ![held[c]] = FALSE]
  /\ age' = [age EXCEPT ![held[c]] = 0]
  /\ UNCHANGED <<waiters, closed, live, buf>>

-----------------------------------------------------------------------------
(* pooledConn.close, in a goroutine of its own; closing twice is harmless. *)
ConnClose(x) ==
  /\ x \in closing /\ ~panicked
  /\ closing' = closing \ {x}
  /\ live' = live \ {x}
  /\ UNCHANGED <<poolVars, inUse, age, loopVars, callerVars, ctxDone, panicked>>

(* cleanup, one step per connection; the compaction in place is a removal.   *)
CleanupLock ==
  /\ LockFree /\ ~closed
  /\ mu' = Cleaner /\ pos' = 1 /\ tail' = <<>>
  /\ UNCHANGED <<poolVars, connVars, callerVars, ctxDone, panicked>>

CleanupKeep ==
  /\ mu = Cleaner /\ pos <= Len(connections)
  /\ inUse[connections[pos]] \/ age[connections[pos]] <= IdleTimeout
  /\ pos' = pos + 1
  /\ UNCHANGED <<poolVars, connVars, mu, tail, callerVars, ctxDone, panicked>>

CleanupRemove_InUseToo ==
  /\ mu = Cleaner /\ pos <= Len(connections)
  /\ connections' = RemoveAt(connections, pos)
  /\ numOpen' = numOpen - 1
  /\ closing' = closing \cup {connections[pos]}
  /\ UNCHANGED <<waiters, closed, inUse, age, live, loopVars, callerVars, ctxDone, panicked>>

CleanupRemove ==
  /\ mu = Cleaner /\ pos <= Len(connections)
  /\ ~inUse[connections[pos]] /\ age[connections[pos]] > IdleTimeout
  /\ connections' = RemoveAt(connections, pos)
  /\ numOpen' = numOpen - 1
  /\ closing' = closing \cup {connections[pos]}
  /\ UNCHANGED <<waiters, closed, inUse, age, live, loopVars, callerVars, ctxDone, panicked>>

CleanupDone ==
  /\ mu = Cleaner /\ pos > Len(connections)
  /\ Unlock
  /\ UNCHANGED <<poolVars, connVars, callerVars, ctxDone, panicked>>

(* FileSystem.Close: cancel the context, then close the pool.                *)
FsCancel ==
  /\ ~ctxDone /\ ~panicked
  /\ ctxDone' = TRUE
  /\ UNCHANGED <<poolVars, connVars, loopVars, callerVars, panicked>>

PoolClose_NoConnClose ==
  /\ ctxDone /\ LockFree /\ ~closed
  /\ closed' = TRUE
  /\ buf' = [h \in Chans |-> IF h \in ToSet(waiters) THEN Closed ELSE buf[h]]
  /\ waiters' = <<>> /\ connections' = <<>> /\ numOpen' = 0
  /\ UNCHANGED <<connVars, loopVars, pc, held, chan, ctxDone, panicked>>

PoolClose ==
  /\ ctxDone /\ LockFree /\ ~closed
  /\ closed' = TRUE
  /\ buf' = [h \in Chans |-> IF h \in ToSet(waiters) THEN Closed ELSE buf[h]]
  /\ closing' = closing \cup ToSet(connections)
  /\ waiters' = <<>> /\ connections' = <<>> /\ numOpen' = 0
  /\ UNCHANGED <<inUse, age, live, loopVars, pc, held, chan, ctxDone, panicked>>

(* Time passes for the idle connections; cleanup reads the clock only once.  *)
Tick ==
  /\ mu # Cleaner /\ ~panicked
  /\ \E x \in ToSet(connections) : ~inUse[x] /\ age[x] <= IdleTimeout
  /\ age' = [x \in Conns |->
               IF x \in ToSet(connections) /\ ~inUse[x] /\ age[x] <= IdleTimeout
               THEN age[x] + 1 ELSE age[x]]
  /\ UNCHANGED <<poolVars, inUse, live, closing, loopVars, callerVars, ctxDone, panicked>>

(* A dead process takes no further step. *)
Crashed == panicked /\ UNCHANGED vars

-----------------------------------------------------------------------------
GetStep(c) ==
  \/ GetSkip(c) \/ GetReuse(c) \/ GetExpire(c) \/ GetPanic(c)
  \/ GetCreate(c) \/ GetEnqueue(c)

CreateStep(c) == CreateSucceeds(c) \/ CreateFails(c)

WaitStep(c) == GetReceive(c) \/ GetReceiveNil(c) \/ GetTimeout(c) \/ GetCancel(c)

PutStep(c) == PutClosed(c) \/ PutToWaiter(c) \/ PutKeep(c) \/ PutDrop(c)

CleanupStep == CleanupKeep \/ CleanupRemove \/ CleanupDone

Next ==
  \/ \E c \in Clients :
       \/ GetClosed(c) \/ GetLock(c) \/ GetStep(c) \/ CreateStep(c)
       \/ WaitStep(c) \/ GetCancelled(c) \/ PutStep(c)
  \/ \E x \in Conns : ConnClose(x)
  \/ CleanupLock \/ CleanupStep
  \/ FsCancel \/ PoolClose \/ Tick
  \/ Crashed

Spec == Init /\ [][Next]_vars

(***************************************************************************)
(* Fairness.  Goroutines that can run do run (WF); a goroutine that asks   *)
(* for p.mu gets it in the end, however often others take it (SF: a Go     *)
(* mutex in starvation mode hands itself to the longest waiter); a dial    *)
(* ends one way or the other and a ConnTimeout timer fires (WF); callers   *)
(* give back what they check out, as PERFORMANCE.md asks of them.  Nothing *)
(* makes callers call get, the cleaner run, or anyone close the pool.      *)
(***************************************************************************)
Fairness ==
  /\ \A c \in Clients :
       /\ WF_vars(GetStep(c))
       /\ SF_vars(CreateStep(c))
       /\ WF_vars(GetReceive(c) \/ GetReceiveNil(c) \/ GetTimeout(c))
       /\ SF_vars(GetCancelled(c))
       /\ SF_vars(PutStep(c))
  /\ \A x \in Conns : WF_vars(ConnClose(x))
  /\ WF_vars(CleanupStep)

FairSpec == Spec /\ Fairness

-----------------------------------------------------------------------------
Creating == {c \in Clients : pc[c] = "create"}
Idle == {x \in ToSet(connections) : ~inUse[x]}

(* While the pool is open, numOpen is exactly the pooled connections plus    *)
(* the dials under way, and never exceeds MaxOpen: no path of get, put,      *)
(* cleanup or a failed dial forgets or double-counts a slot.                 *)
SlotAccounting ==
  ~closed => /\ numOpen = Len(connections) + Cardinality(Creating)
             /\ numOpen <= MaxOpen

(* A connection has at most one owner: get, put and the hand-over through a  *)
(* waiter's channel never give it to two callers.                            *)
ExclusiveUse ==
  \A c, d \in Clients, x \in Conns : Owns(c, x) /\ Owns(d, x) => c = d

(* While the pool is open, what a caller owns is still pooled, marked inUse, *)
(* mounted, and has no pending close: neither the expiry in get, nor cleanup *)
(* nor the MaxIdle limit of put closes a connection under its user.          *)
OwnedIsUsable ==
  ~closed => \A c \in Clients, x \in Conns :
               Owns(c, x) => /\ x \in ToSet(connections)
                             /\ inUse[x]
                             /\ x \in live \ closing

(* put and get never miss each other: no connection lies idle while a        *)
(* channel is queued in p.waiters.                                           *)
NoMissedHandoff ==
  waiters # <<>> => Idle = {}

(* The pool keeps fewer than MaxIdle idle connections: put counts the        *)
(* connection it returns, so MaxIdle itself is never reached.                *)
IdleBelowMaxIdle ==
  Cardinality(Idle) < MaxIdle

(* Every mounted session is in the hands of a caller, about to be closed, or *)
(* in the pool while the pool is open: no path of put, Close or a dial that  *)
(* ends after Close drops the last reference to an open session.             *)
SessionsAccounted ==
  live \subseteq closing \cup ToSet(held) \cup (IF closed THEN {} ELSE ToSet(connections))

(* get always returns: whoever scans, dials, waits or withdraws ends with a  *)
(* connection or an error (unless the process has died).                     *)
GetReturns ==
  \A c \in Clients :
    pc[c] \in {"scan", "create", "wait", "cancel"} ~> (pc[c] \in {"idle", "hold"} \/ panicked)

(* After Close, once callers have returned what they hold, every session     *)
(* ends up logged off, the ones dialled while Close ran included.            *)
ClosedDrains ==
  closed ~> (live = {} \/ panicked)

(* A connection the pool counts as in use has a user: a caller that owns it. *)
NoLeakedConnection ==
  ~closed => \A k \in DOMAIN connections :
               inUse[connections[k]] => \E c \in Clients : Owns(c, connections[k])

(* get survives whatever mix of expired and busy connections it scans.       *)
NoPanic == ~panicked
=============================================================================
