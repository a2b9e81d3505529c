------------------------------- MODULE Server -------------------------------
(***************************************************************************)
(* The goroutines of the SMB server (server.go): the accept loop, one      *)
(* handler per connection, the session cleaner and a caller of Stop.  What *)
(* a handler does with a message is left to the module that composes this  *)
(* one with the message handlers (ServerConnections).                      *)
(***************************************************************************)
EXTENDS Integers, FiniteSets

CONSTANTS
  Conns,        \* connections that peers may open, numbered as they arrive
  Nil,          \* no connection, no session
  Deployments   \* records: the server's options and the bounds that go with them

ASSUME LifecycleAssumption ==
  /\ IsFiniteSet(Conns) /\ Nil \notin Conns
  /\ \A d \in Deployments : d.MaxConnections \in Int

VARIABLES
  options,      \* Server.options, fixed by NewServer
  acceptLoop,   \* where acceptLoop stands
  pending,      \* the connection acceptLoop has in hand
  cleanupLoop,  \* where sessionCleanupLoop stands
  stop,         \* where the caller of Stop stands
  ctxDone,      \* s.cancel has been called
  listening,    \* the listener is open
  handler,      \* where the handler of each connection stands
  sock,         \* the server's end of each connection
  conns,        \* s.conns
  connCount,    \* s.connCount
  wg            \* s.wg

serverVars ==
  <<options, acceptLoop, pending, cleanupLoop, stop, ctxDone, listening,
    handler, sock, conns, connCount, wg>>

HandlerPC == {"none", "started", "loop", "reading", "handling", "writing",
              "closing", "leaving", "finishing", "returned"}

ServerTypeOK ==
  /\ options \in Deployments
  /\ acceptLoop \in {"accept", "limit", "spawn", "returned"}
  /\ pending \in Conns \cup {Nil}
  /\ cleanupLoop \in {"running", "returned"}
  /\ stop \in {"idle", "cancelled", "unlistened", "waiting", "returned"}
  /\ ctxDone \in BOOLEAN /\ listening \in BOOLEAN
  /\ handler \in [Conns -> HandlerPC]
  /\ sock \in [Conns -> {"none", "backlog", "open", "closed"}]
  /\ conns \subseteq Conns
  /\ connCount \in -Cardinality(Conns) .. Cardinality(Conns)
  /\ wg \in 0 .. Cardinality(Conns) + 2

(* NewServer and Listen: both loops are started and counted.                 *)
ServerInit ==
  /\ options \in Deployments
  /\ acceptLoop = "accept" /\ pending = Nil
  /\ cleanupLoop = "running"
  /\ stop = "idle" /\ ctxDone = FALSE
  /\ listening = TRUE
  /\ handler = [k \in Conns |-> "none"]
  /\ sock = [k \in Conns |-> "none"]
  /\ conns = {}
  /\ connCount = 0
  /\ wg = 2
-----------------------------------------------------------------------------
(* The accept loop.                                                          *)

(* A peer's connection reaches the listener's backlog.                       *)
Connect(k) ==
  /\ listening /\ sock[k] = "none" /\ k <= options.peers
  /\ \A j \in Conns : j < k => sock[j] # "none"
  /\ sock' = [sock EXCEPT ![k] = "backlog"]
  /\ UNCHANGED <<options, acceptLoop, pending, cleanupLoop, stop, ctxDone,
                 listening, handler, conns, connCount, wg>>

Accept(k) ==
  /\ acceptLoop = "accept" /\ sock[k] = "backlog"
  /\ acceptLoop' = "limit" /\ pending' = k
  /\ sock' = [sock EXCEPT ![k] = "open"]
  /\ UNCHANGED <<options, cleanupLoop, stop, ctxDone, listening, handler,
                 conns, connCount, wg>>

(* Accept fails once the context is cancelled, because Stop has closed the   *)
(* listener or for a reason of its own, and the loop returns; an error that  *)
(* comes before the cancellation changes nothing.                            *)
AcceptFails ==
  /\ acceptLoop = "accept" /\ ctxDone
  /\ acceptLoop' = "returned"
  /\ wg' = wg - 1
  /\ UNCHANGED <<options, pending, cleanupLoop, stop, ctxDone, listening,
                 handler, sock, conns, connCount>>

LimitReached_Late ==
  options.MaxConnections > 0 /\ connCount > options.MaxConnections

LimitReached ==
  options.MaxConnections > 0 /\ connCount >= options.MaxConnections

(* Without a limit the count is not raised, although every handler lowers it. *)
CheckLimit ==
  /\ acceptLoop = "limit"
  /\ IF LimitReached
       THEN /\ sock' = [sock EXCEPT ![pending] = "closed"]
            /\ acceptLoop' = "accept" /\ pending' = Nil
            /\ UNCHANGED connCount
       ELSE /\ connCount' = IF options.MaxConnections > 0
                              THEN connCount + 1 ELSE connCount
            /\ acceptLoop' = "spawn"
            /\ UNCHANGED <<sock, pending>>
  /\ UNCHANGED <<options, cleanupLoop, stop, ctxDone, listening, handler,
                 conns, wg>>

(* The handler counts itself only when it runs.                              *)
Spawn_Uncounted ==
  /\ acceptLoop = "spawn"
  /\ handler' = [handler EXCEPT ![pending] = "started"]
  /\ acceptLoop' = "accept" /\ pending' = Nil
  /\ UNCHANGED <<options, cleanupLoop, stop, ctxDone, listening, sock, conns,
                 connCount, wg>>

Spawn ==
  /\ acceptLoop = "spawn"
  /\ wg' = wg + 1
  /\ handler' = [handler EXCEPT ![pending] = "started"]
  /\ acceptLoop' = "accept" /\ pending' = Nil
  /\ UNCHANGED <<options, cleanupLoop, stop, ctxDone, listening, sock, conns,
                 connCount>>
-----------------------------------------------------------------------------
(* handleConnection.                                                         *)

Goto(k, from, to) ==
  /\ handler[k] = from
  /\ handler' = [handler EXCEPT ![k] = to]
  /\ UNCHANGED <<options, acceptLoop, pending, cleanupLoop, stop, ctxDone,
                 listening>>

Register(k) ==
  /\ Goto(k, "started", "loop")
  /\ conns' = conns \cup {k}
  /\ UNCHANGED <<sock, connCount, wg>>

(* The context is looked at before every read, and only there.               *)
TestContext_Never(k) ==
  /\ Goto(k, "loop", "reading")
  /\ UNCHANGED <<sock, conns, connCount, wg>>

TestContext(k) ==
  /\ Goto(k, "loop", IF ctxDone THEN "closing" ELSE "reading")
  /\ UNCHANGED <<sock, conns, connCount, wg>>

(* readMessage returns a message.                                            *)
Receive(k) ==
  /\ sock[k] = "open"
  /\ Goto(k, "reading", "handling")
  /\ UNCHANGED <<sock, conns, connCount, wg>>

(* The server's end is closed under the handler.                             *)
ReadClosed(k) ==
  /\ sock[k] = "closed"
  /\ Goto(k, "reading", "closing")
  /\ UNCHANGED <<sock, conns, connCount, wg>>

(* The peer is gone or silent for ReadTimeout, or its frame is invalid.      *)
ReadFails(k) ==
  /\ sock[k] = "open" /\ options.drops
  /\ Goto(k, "reading", "closing")
  /\ UNCHANGED <<sock, conns, connCount, wg>>

(* HandleMessage has a response, or has none (CANCEL).                       *)
Respond(k) ==
  /\ Goto(k, "handling", "writing")
  /\ UNCHANGED <<sock, conns, connCount, wg>>

NoResponse(k) ==
  /\ Goto(k, "handling", "loop")
  /\ UNCHANGED <<sock, conns, connCount, wg>>

Written(k) ==
  /\ sock[k] = "open"
  /\ Goto(k, "writing", "loop")
  /\ UNCHANGED <<sock, conns, connCount, wg>>

WriteFails(k) ==
  /\ sock[k] = "closed" \/ options.drops
  /\ Goto(k, "writing", "closing")
  /\ UNCHANGED <<sock, conns, connCount, wg>>

(* The deferred calls: conn.Close, the bookkeeping under connMu, wg.Done.    *)
CloseConn(k) ==
  /\ Goto(k, "closing", "leaving")
  /\ sock' = [sock EXCEPT ![k] = "closed"]
  /\ UNCHANGED <<conns, connCount, wg>>

Deregister(k) ==
  /\ Goto(k, "leaving", "finishing")
  /\ conns' = conns \ {k}
  /\ connCount' = connCount - 1
  /\ UNCHANGED <<sock, wg>>

Finish_Twice(k) ==
  /\ Goto(k, "finishing", "returned")
  /\ wg' = wg - 2
  /\ UNCHANGED <<sock, conns, connCount>>

Finish(k) ==
  /\ Goto(k, "finishing", "returned")
  /\ wg' = wg - 1
  /\ UNCHANGED <<sock, conns, connCount>>
-----------------------------------------------------------------------------
(* The cleaner and Stop.                                                     *)

CleanupReturns ==
  /\ cleanupLoop = "running" /\ ctxDone
  /\ cleanupLoop' = "returned"
  /\ wg' = wg - 1
  /\ UNCHANGED <<options, acceptLoop, pending, stop, ctxDone, listening,
                 handler, sock, conns, connCount>>

StopCancel ==
  /\ stop = "idle" /\ options.stops
  /\ stop' = "cancelled" /\ ctxDone' = TRUE
  /\ UNCHANGED <<options, acceptLoop, pending, cleanupLoop, listening,
                 handler, sock, conns, connCount, wg>>

(* Connections still in the backlog are reset with the listener.             *)
StopListener ==
  /\ stop = "cancelled"
  /\ stop' = "unlistened" /\ listening' = FALSE
  /\ sock' = [k \in Conns |-> IF sock[k] = "backlog" THEN "closed" ELSE sock[k]]
  /\ UNCHANGED <<options, acceptLoop, pending, cleanupLoop, ctxDone, handler,
                 conns, connCount, wg>>

StopConns ==
  /\ stop = "unlistened"
  /\ stop' = "waiting"
  /\ sock' = [k \in Conns |-> IF k \in conns THEN "closed" ELSE sock[k]]
  /\ UNCHANGED <<options, acceptLoop, pending, cleanupLoop, ctxDone,
                 listening, handler, conns, connCount, wg>>

StopWait ==
  /\ stop = "waiting" /\ wg = 0
  /\ stop' = "returned"
  /\ UNCHANGED <<options, acceptLoop, pending, cleanupLoop, ctxDone,
                 listening, handler, sock, conns, connCount, wg>>
-----------------------------------------------------------------------------
(* Properties.                                                               *)

(* Connections that hold a slot: from the limit check in acceptLoop to the   *)
(* deferred bookkeeping of handleConnection.                                 *)
Counted ==
  {k \in Conns :
     \/ pending = k /\ acceptLoop = "spawn"
     \/ handler[k] \in HandlerPC \ {"none", "finishing", "returned"}}

(* s.connCount is the number of connections that hold a slot, never above    *)
(* MaxConnections, whatever accept, rejection and the handlers' exits do; a  *)
(* server without a limit counts its departed connections downwards from     *)
(* zero instead, because only a limit makes acceptLoop raise the count.      *)
CountExact ==
  IF options.MaxConnections > 0
    THEN connCount = Cardinality(Counted) /\ connCount <= options.MaxConnections
    ELSE connCount = -Cardinality({k \in Conns :
                                     handler[k] \in {"finishing", "returned"}})

(* When Stop returns, neither loop nor any handler is running, no connection *)
(* that was ever accepted is open, and none is registered.                   *)
NothingLeftRunning ==
  stop = "returned" =>
    /\ acceptLoop = "returned" /\ cleanupLoop = "returned"
    /\ \A k \in Conns : handler[k] \in {"none", "returned"} /\ sock[k] # "open"
    /\ conns = {}

(* Stop returns, although peers may stay connected and silent: a connection  *)
(* that it misses because its handler had not registered it yet sees the     *)
(* cancelled context before its first read.                                  *)
StopReturns == stop = "cancelled" ~> stop = "returned"
=============================================================================
