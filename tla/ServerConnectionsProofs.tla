----------------------- MODULE ServerConnectionsProofs -----------------------
(***************************************************************************)
(* Proofs about the server's connections and the set-up of sessions.  The  *)
(* goroutines come first: what a handler does with a message touches their *)
(* state only through Receive, Respond, NoResponse and Written, so their   *)
(* invariant, LoopInv, is preserved whatever the message is.  Inv adds to  *)
(* it what the handlers and the clients of all connections know of each    *)
(* other's sessions and keys.  Counting comes last: the wait group and     *)
(* connCount of the server, what Stop leaves behind, and the types, whose  *)
(* bounds are cardinalities.                                               *)
(***************************************************************************)
EXTENDS ServerConnections, FiniteSetTheorems, TLAPS

(* Both provers, the quicker one first.                                      *)
USE ZenonT(1), SMTT(60)

-----------------------------------------------------------------------------
(* The goroutines.                                                           *)

ServerTypes ==
  /\ options \in Deployments
  /\ acceptLoop \in {"accept", "limit", "spawn", "returned"}
  /\ pending \in Conns \cup {Nil}
  /\ cleanupLoop \in {"running", "returned"}
  /\ stop \in {"idle", "cancelled", "unlistened", "waiting", "returned"}
  /\ ctxDone \in BOOLEAN /\ listening \in BOOLEAN
  /\ handler \in [Conns -> HandlerPC]
  /\ sock \in [Conns -> {"none", "backlog", "open", "closed"}]
  /\ connCount \in Int /\ wg \in Int

(* The accept loop has a connection in hand exactly while it checks the      *)
(* limit and starts the handler; nobody else knows that connection.          *)
PendingInv ==
  IF acceptLoop \in {"limit", "spawn"}
    THEN pending \in Conns /\ handler[pending] = "none" /\ sock[pending] = "open"
    ELSE pending = Nil

(* A handler has a connection that was accepted, and has closed it when it   *)
(* leaves; an open connection without a handler is the pending one.          *)
SockInv ==
  \A k \in Conns :
    /\ handler[k] # "none" => sock[k] \in {"open", "closed"}
    /\ handler[k] \in {"leaving", "finishing", "returned"} => sock[k] = "closed"
    /\ handler[k] = "none" /\ sock[k] = "open" => pending = k

(* s.conns holds the connections between the two ends of the bookkeeping.    *)
RegisteredInv ==
  conns = {k \in Conns : handler[k] \in {"loop", "reading", "handling", "writing",
                                         "closing", "leaving"}}

LoopInv == ServerTypes /\ PendingInv /\ SockInv /\ RegisteredInv

(* What the steps of ServerConnections are to the goroutines.                *)
ServerNext ==
  \/ Lifecycle
  \/ \E k \in Conns : Receive(k) \/ Respond(k) \/ NoResponse(k) \/ Written(k)

(* A handler goes on inside the loop, or leaves it for its deferred calls.   *)
Inside == {"loop", "reading", "handling", "writing", "closing"}

Moves(k) ==
  /\ handler[k] \in Inside
  /\ \E to \in Inside : handler' = [handler EXCEPT ![k] = to]
  /\ UNCHANGED <<options, acceptLoop, pending, cleanupLoop, stop, ctxDone,
                 listening, sock, conns, connCount, wg>>

(* Every step of the goroutines is one of these.                             *)
LEMMA StepKinds ==
  ASSUME ServerNext
  PROVE  \/ AcceptFails \/ CheckLimit \/ Spawn \/ CleanupReturns
         \/ StopCancel \/ StopListener \/ StopConns \/ StopWait
         \/ \E k \in Conns : \/ Connect(k) \/ Accept(k) \/ Register(k)
                             \/ Moves(k)
                             \/ CloseConn(k) \/ Deregister(k) \/ Finish(k)
<1>1. ASSUME NEW k \in Conns, NEW from \in Inside, NEW to \in Inside,
             Goto(k, from, to), UNCHANGED <<sock, conns, connCount, wg>>
      PROVE  Moves(k)
  BY <1>1, Zenon DEF Goto, Moves
<1>2. ASSUME NEW k \in Conns,
             \/ TestContext(k) \/ ReadClosed(k) \/ ReadFails(k) \/ WriteFails(k)
             \/ Receive(k) \/ Respond(k) \/ NoResponse(k) \/ Written(k)
      PROVE  Moves(k)
  <2>1. /\ "loop" \in Inside /\ "reading" \in Inside /\ "handling" \in Inside
        /\ "writing" \in Inside /\ "closing" \in Inside
    BY DEF Inside
  <2>2. (IF ctxDone THEN "closing" ELSE "reading") \in Inside
    BY <2>1
  <2> QED
    BY <1>1, <1>2, <2>1, <2>2 DEF TestContext, ReadClosed, ReadFails, WriteFails,
                                  Receive, Respond, NoResponse, Written
<1> QED
  BY <1>2 DEF ServerNext, Lifecycle

LEMMA ServerTypesStep ==
  ASSUME ServerTypes, PendingInv, ServerNext
  PROVE  ServerTypes'
<1> USE DEF ServerTypes
<1>1. CASE AcceptFails
  BY <1>1 DEF AcceptFails
<1>2. CASE CheckLimit
  BY <1>2 DEF CheckLimit
<1>3. CASE Spawn
  <2>1. handler' \in [Conns -> HandlerPC]
    BY <1>3, Zenon DEF Spawn, HandlerPC
  <2> QED
    BY <1>3, <2>1 DEF Spawn
<1>4. CASE CleanupReturns
  BY <1>4 DEF CleanupReturns
<1>10. CASE StopCancel
  BY <1>10 DEF StopCancel
<1>11. CASE StopWait
  BY <1>11 DEF StopWait
<1>5. CASE StopListener \/ StopConns
  BY <1>5, Zenon DEF StopListener, StopConns
<1>6. ASSUME NEW k \in Conns, Connect(k) \/ Accept(k)
      PROVE  ServerTypes'
  BY <1>6 DEF Connect, Accept
<1>7. ASSUME NEW k \in Conns, Moves(k)
      PROVE  ServerTypes'
  BY <1>7 DEF Moves, Inside, HandlerPC
<1>8. ASSUME NEW k \in Conns,
             Register(k) \/ CloseConn(k) \/ Deregister(k) \/ Finish(k)
      PROVE  ServerTypes'
  BY <1>8 DEF Register, CloseConn, Deregister, Finish, Goto, HandlerPC
<1> HIDE DEF ServerTypes
<1> QED
  BY <1>1, <1>2, <1>3, <1>4, <1>5, <1>6, <1>7, <1>8, <1>10, <1>11, StepKinds

LEMMA SocketsStep ==
  ASSUME ServerTypes, PendingInv, SockInv, RegisteredInv, ServerNext
  PROVE  PendingInv' /\ SockInv' /\ RegisteredInv'
<1> DEFINE Result == PendingInv' /\ SockInv' /\ RegisteredInv'
<1> USE LifecycleAssumption DEF ServerTypes, PendingInv, SockInv, RegisteredInv
<1>1. CASE AcceptFails \/ CleanupReturns \/ StopCancel \/ StopWait
  BY <1>1 DEF AcceptFails, CleanupReturns, StopCancel, StopWait
<1>2. CASE CheckLimit
  BY <1>2 DEF CheckLimit
<1>3. CASE Spawn
  BY <1>3 DEF Spawn, HandlerPC
<1>5. CASE StopListener \/ StopConns
  BY <1>5 DEF StopListener, StopConns
<1>6. ASSUME NEW k \in Conns, Connect(k) \/ Accept(k)
      PROVE  Result
  BY <1>6 DEF Connect, Accept
<1>7. ASSUME NEW k \in Conns, Moves(k)
      PROVE  Result
  BY <1>7 DEF Moves, Inside, HandlerPC
<1>8. ASSUME NEW k \in Conns, Register(k) \/ CloseConn(k)
      PROVE  Result
  BY <1>8 DEF Register, CloseConn, Goto, HandlerPC
<1>9. ASSUME NEW k \in Conns, Deregister(k) \/ Finish(k)
      PROVE  Result
  BY <1>9 DEF Deregister, Finish, Goto, HandlerPC
<1> HIDE DEF Result, ServerTypes, PendingInv, SockInv, RegisteredInv
<1>10. Result
  BY <1>1, <1>2, <1>3, <1>5, <1>6, <1>7, <1>8, <1>9, StepKinds DEF Result
<1> QED
  BY <1>10 DEF Result

LEMMA LoopInvStep ==
  ASSUME LoopInv, ServerNext \/ UNCHANGED serverVars
  PROVE  LoopInv'
<1>1. CASE ServerNext
  BY <1>1, ServerTypesStep, SocketsStep DEF LoopInv
<1>2. CASE UNCHANGED serverVars
  <2>1. ServerTypes'
    BY <1>2 DEF serverVars, LoopInv, ServerTypes
  <2>2. PendingInv' /\ SockInv' /\ RegisteredInv'
    BY <1>2 DEF serverVars, LoopInv, PendingInv, SockInv, RegisteredInv
  <2> QED
    BY <2>1, <2>2 DEF LoopInv
<1> QED
  BY <1>1, <1>2

LEMMA LoopInvInit ==
  ASSUME ServerInit
  PROVE  LoopInv
<1>1. ServerTypes
  <2>1. handler \in [Conns -> HandlerPC]
    BY DEF ServerInit, HandlerPC
  <2>2. sock \in [Conns -> {"none", "backlog", "open", "closed"}]
    BY DEF ServerInit
  <2>3. ctxDone \in BOOLEAN /\ listening \in BOOLEAN
    BY Zenon DEF ServerInit
  <2>4. connCount \in Int /\ wg \in Int
    BY DEF ServerInit
  <2> QED
    BY <2>1, <2>2, <2>3, <2>4 DEF ServerInit, ServerTypes
<1>2. PendingInv /\ SockInv /\ RegisteredInv
  <2>1. \A k \in Conns : handler[k] = "none" /\ sock[k] = "none"
    BY DEF ServerInit
  <2>2. PendingInv
    BY DEF ServerInit, PendingInv
  <2>3. SockInv
    BY <2>1 DEF SockInv
  <2>4. RegisteredInv
    BY <2>1 DEF ServerInit, RegisteredInv
  <2> QED
    BY <2>2, <2>3, <2>4
<1> QED
  BY <1>1, <1>2 DEF LoopInv

-----------------------------------------------------------------------------
(* The set-up of sessions.                                                   *)

Bytes == {Req(n) : n \in Nat} \cup {Resp(n) : n \in Nat} \cup {NoBytes}
Bases == {<< >>, CompatKey} \cup {SessionBaseKey(n) : n \in Nat}
         \cup {ExportedSessionKey(n) : n \in Nat}
Labels == {"none", "SessionKey", "SMBSigningKey", "SMB2AESCMAC"}
Contexts == Seq(Bytes) \cup {<<"SmbSign">>}
Keys == [label : Labels, base : Bases, context : Contexts]
Authenticators == [challenge : Nat, keyExch : BOOLEAN]
Session == [State : {"InProgress", "Valid"}, SigningKey : Keys,
            Authenticator : Authenticators]
Peer == [dialect : SupportedDialects \cup {0}, neg : Seq(Bytes), tr : Seq(Bytes),
         sid : Sids \cup {Nil}, challenge : Authenticators, key : Keys,
         serverKey : Keys, required : BOOLEAN, negs : Nat, setups : Nat,
         steady : Sids \cup {Nil}, gone : BOOLEAN]

ConnTypes ==
  /\ dialect \in [Conns -> SupportedDialects \cup {0}]
  /\ signingRequired \in [Conns -> BOOLEAN]
  /\ session \in [Conns -> used \cup {Nil}]
  /\ preauthHash \in [Conns -> Seq(Bytes)]

SessTypes ==
  /\ sessions \subseteq used /\ used \subseteq Sids
  /\ sess \in [Sids -> Session]
  /\ \A s \in Sids : sess[s].Authenticator.challenge <= msgs
  /\ \A s \in Sids \ used : sess[s].Authenticator = NewNTLMAuthenticator

WorkTypes ==
  /\ DOMAIN request = Conns /\ DOMAIN reply = Conns
  /\ found \in [Conns -> [sid : used \cup {Nil}, new : BOOLEAN]]
  /\ peer \in [Conns -> Peer]
  /\ msgs \in 0 .. options.msgs /\ expiries \in 0 .. options.expiries

Blob(b) ==
  \/ b.type = "negotiate" /\ b.keyExch \in BOOLEAN
  \/ b.type \in {"raw", "other"}
  \/ /\ b.type = "authenticate" /\ b.known \in BOOLEAN
     /\ b.answers \in Nat /\ b.exports \in BOOLEAN

Busy(k) == handler[k] \in {"handling", "writing"}
Doing(k, cmd) == Busy(k) /\ request[k].cmd = cmd

(* A handler that has not begun to leave.                                    *)
Serving(k) == handler[k] \in {"none", "started", "loop", "reading"} \/ Busy(k)

(* What the request in a handler's hands looks like, and what its sender has *)
(* put down on sending it.                                                   *)
RequestInv(k) ==
  LET m == request[k]  p == peer[k] IN
    Busy(k) =>
      /\ m.n \in 1 .. msgs
      /\ m.cmd \in {"NEGOTIATE", "SESSION_SETUP", "LOGOFF", "ECHO", "CANCEL"}
      /\ m.cmd = "NEGOTIATE" => /\ m.smb1 \in BOOLEAN /\ m.required \in BOOLEAN
                                /\ p.steady = Nil /\ p.negs > 0
      /\ m.cmd = "SESSION_SETUP" => /\ Blob(m.blob)
                                    /\ m.sid \in used \cup {Nil}
                                    /\ m.prev \in used \cup {Nil}
                                    /\ p.steady = Nil /\ p.challenge = NoChallenge
                                    /\ p.key = NoKey /\ p.setups > 0
      /\ m.cmd = "LOGOFF" => p.steady = Nil
      /\ m.cmd = "ECHO" => m.signed = p.required

(* The session looked up for a request is looked up once.                    *)
FoundInv(k) ==
  found[k] # NotFound =>
    handler[k] = "handling" /\ request[k].cmd = "SESSION_SETUP" /\ found[k].sid \in used

(* What the response waiting to be written says.                             *)
ReplyInv(k) ==
  LET m == request[k]  r == reply[k] IN
    handler[k] = "writing" =>
      /\ r.cmd = m.cmd /\ r.n = m.n /\ r.cmd # "CANCEL"
      /\ r.cmd = "NEGOTIATE" /\ r.status = "SUCCESS" /\ ~m.smb1
           => /\ r.body.dialect = dialect[k] /\ dialect[k] # 0
              /\ r.body.required \in BOOLEAN
      /\ r.cmd = "SESSION_SETUP" /\ r.status = "MORE_PROCESSING"
           => r.sid \in used /\ r.body = sess[r.sid].Authenticator
      /\ r.cmd = "SESSION_SETUP" /\ r.status = "SUCCESS"
           => r.sid \in used /\ session[k] = r.sid /\ r.key = sess[r.sid].SigningKey

(* Sessions that connection k may still set up anew: the one whose challenge *)
(* its client has to answer or uses steadily, the ones its request names,    *)
(* the one looked up for it, and the one its response is about.              *)
Claims(k, s) ==
  /\ s # Nil
  /\ \/ peer[k].steady = s
     \/ peer[k].challenge # NoChallenge /\ peer[k].sid = s
     \/ found[k] # NotFound /\ found[k].sid = s
     \/ /\ found[k] = NotFound
        /\ handler[k] = "handling" /\ request[k].cmd = "SESSION_SETUP"
        /\ request[k].sid = s \/ request[k].prev = s
     \/ /\ handler[k] = "writing" /\ reply[k].cmd = "SESSION_SETUP"
        /\ reply[k].status \in {"SUCCESS", "MORE_PROCESSING"}
        /\ reply[k].sid = s

(* No session is claimed by two connections, and none before it exists.      *)
ClaimInv ==
  \A k \in Conns, s \in Sids :
    Claims(k, s) => /\ s \in used
                    /\ \A j \in Conns : Claims(j, s) => j = k

(* The client's idea of the challenge is the server's, from the reply that   *)
(* carries it to the request that answers it, unless the session has been    *)
(* removed meanwhile and a new one has taken its place.                      *)
ChallengeInv(k) ==
  LET m == request[k]  p == peer[k] IN
    /\ p.challenge # NoChallenge
         => p.sid \in used /\ sess[p.sid].Authenticator = p.challenge /\ p.setups > 0
    /\ Doing(k, "SESSION_SETUP") /\ m.blob.type = "authenticate"
         => LET answered == [challenge |-> m.blob.answers, keyExch |-> m.blob.exports]
            IN  /\ m.prev = Nil /\ m.sid # Nil
                /\ p.setups > 1
                /\ handler[k] = "handling" /\ found[k] = NotFound
                     => sess[m.sid].Authenticator = answered
                /\ found[k] # NotFound
                     => sess[found[k].sid].Authenticator
                          \in {answered, NewNTLMAuthenticator}

(* What the client computes from the challenge it has answered.              *)
ClientBase(b) == IF b.exports THEN ExportedSessionKey(b.answers)
                 ELSE SessionBaseKey(b.answers)

(* Client and server know the same dialect, except while a response to       *)
(* NEGOTIATE is on its way.                                                  *)
DialectInv(k) ==
  LET p == peer[k] IN
    /\ p.dialect = 0 => p.key = NoKey /\ p.challenge = NoChallenge /\ p.setups = 0
    /\ p.negs = 0 => p.dialect = 0
    /\ Serving(k) =>
         \/ p.dialect = dialect[k]
         \/ /\ handler[k] = "writing" /\ reply[k].cmd = "NEGOTIATE"
            /\ reply[k].status = "SUCCESS" /\ ~request[k].smb1

(* On a 3.1.1 connection that has negotiated once, the connection's hash is  *)
(* the client's transcript until the first set-up of a session is over.      *)
TranscriptInv(k) ==
  LET m == request[k]  p == peer[k]  hash == preauthHash[k] IN
    Serving(k) =>
      /\ p.negs = 0 => hash = << >>
      /\ p.setups = 0 => session[k] = Nil
      /\ (p.negs = 1 /\ p.dialect >= SMB3_1_1 /\ ~Doing(k, "SESSION_SETUP")) =>
           /\ p.setups = 0 => hash = p.neg
           /\ p.setups = 1 /\ p.challenge # NoChallenge
                => hash = p.tr /\ session[k] = Nil
      /\ Doing(k, "NEGOTIATE") /\ p.negs = 1
           => p.dialect = 0 /\ (~m.smb1 => hash = <<Req(m.n)>>)
      /\ (p.negs = 1 /\ p.dialect >= SMB3_1_1 /\ Doing(k, "SESSION_SETUP")) =>
           /\ p.setups = 1 \/ (p.setups = 2 /\ m.blob.type = "authenticate")
                => hash = p.tr \o <<Req(m.n)>>
           /\ p.setups = 1 /\ handler[k] = "handling" => session[k] = Nil
           /\ /\ p.setups = 1 /\ handler[k] = "writing"
              /\ reply[k].status = "MORE_PROCESSING"
              => session[k] = Nil

(* The key the server has settled on, on its way to the client: not absent,  *)
(* and the client's own unless the proof was wrong.                          *)
KeyInv(k) ==
  LET m == request[k]  r == reply[k] IN
    /\ handler[k] = "writing" /\ r.cmd = "SESSION_SETUP" /\ r.status = "SUCCESS"
    /\ m.blob.type = "authenticate" /\ m.blob.known
    => /\ r.key # NoKey
       /\ r.key.base # CompatKey
            => r.key = DeriveSigningKey(ClientBase(m.blob), dialect[k], preauthHash[k])

(* The session a client uses steadily is the connection's, with the key that *)
(* was established for it.                                                   *)
SteadyInv(k) ==
  LET p == peer[k] IN
    p.steady # Nil =>
      /\ p.challenge = NoChallenge
      /\ session[k] = p.steady
      /\ p.serverKey # NoKey /\ sess[p.steady].SigningKey = p.serverKey

(* A session that is neither established nor challenged belongs to the       *)
(* request that has created it and will remove it on failure.                *)
SetupInv ==
  \A s \in sessions :
    \/ sess[s].State = "Valid"
    \/ sess[s].Authenticator.challenge # 0
    \/ \E k \in Conns : found[k] # NotFound /\ found[k].sid = s /\ found[k].new

(* A message adds itself and its response to the hash.                       *)
HashInv(k) == Len(preauthHash[k]) <= 2 * msgs - (IF Busy(k) THEN 1 ELSE 0)

(* KeysAgree and RepliesSigned for one connection.                           *)
KeyAgreed(k) ==
  LET p == peer[k] IN
    (/\ p.key # NoKey /\ p.serverKey.base # CompatKey
     /\ p.dialect < SMB3_1_1 \/ (p.negs = 1 /\ p.setups = 2))
    => p.serverKey = p.key

ReplySigned(k) ==
  (/\ handler[k] = "writing" /\ peer[k].required
   /\ peer[k].steady # Nil /\ reply[k].sid = peer[k].steady)
  => reply[k].sign = SignMessage(peer[k].serverKey, peer[k].dialect)

PerConn(k) ==
  /\ RequestInv(k) /\ FoundInv(k) /\ ReplyInv(k) /\ ChallengeInv(k)
  /\ DialectInv(k) /\ TranscriptInv(k) /\ KeyInv(k) /\ SteadyInv(k) /\ HashInv(k)
  /\ KeyAgreed(k) /\ ReplySigned(k)

Inv ==
  /\ LoopInv /\ ConnTypes /\ SessTypes /\ WorkTypes
  /\ \A k \in Conns : PerConn(k)
  /\ ClaimInv /\ SetupInv

-----------------------------------------------------------------------------
(* Keys, authentication and dialects as functions.                           *)

(* A derived key is never the absent one, and below 3.1.1 the hash does not  *)
(* enter it.                                                                 *)
LEMMA DerivedKeys ==
  ASSUME NEW base \in Bases, NEW d \in SupportedDialects \cup {0}, NEW hash \in Seq(Bytes)
  PROVE  /\ NoKey \in Keys
         /\ DeriveSigningKey(base, d, hash) \in Keys
         /\ DeriveSigningKey(base, d, hash) # NoKey
         /\ DeriveSigningKey(base, d, hash).base = base
         /\ d < SMB3_1_1 => \A h : DeriveSigningKey(base, d, h)
                                     = DeriveSigningKey(base, d, hash)
<1>1. << >> \in Seq(Bytes) /\ << >> \in Bases
  BY DEF Bases
<1>2. NoKey \in Keys
  BY <1>1 DEF NoKey, Keys, Labels, Contexts
<1>6. \E x \in Labels \ {"none"}, c \in Contexts :
        DeriveSigningKey(base, d, hash) = [label |-> x, base |-> base, context |-> c]
  <2>1. /\ "SessionKey" \in Labels \ {"none"} /\ "SMBSigningKey" \in Labels \ {"none"}
        /\ "SMB2AESCMAC" \in Labels \ {"none"}
        /\ << >> \in Contexts /\ hash \in Contexts /\ <<"SmbSign">> \in Contexts
    BY <1>1 DEF Labels, Contexts
  <2>2. CASE d < SMB3_0
    BY <2>1, <2>2 DEF DeriveSigningKey
  <2>3. CASE ~(d < SMB3_0) /\ d >= SMB3_1_1 /\ hash # << >>
    BY <2>1, <2>3 DEF DeriveSigningKey
  <2>4. CASE ~(d < SMB3_0) /\ ~(d >= SMB3_1_1 /\ hash # << >>)
    BY <2>1, <2>4 DEF DeriveSigningKey
  <2> QED
    BY <2>2, <2>3, <2>4
<1>7. PICK x \in Labels \ {"none"}, c \in Contexts :
        DeriveSigningKey(base, d, hash) = [label |-> x, base |-> base, context |-> c]
  BY <1>6
<1>3. DeriveSigningKey(base, d, hash) \in Keys
  BY <1>7 DEF Keys
<1>8. NoKey.label = "none"
  BY DEF NoKey
<1>4. /\ DeriveSigningKey(base, d, hash) # NoKey
      /\ DeriveSigningKey(base, d, hash).base = base
  BY <1>7, <1>8
<1>5. ASSUME d < SMB3_1_1, NEW h
      PROVE  DeriveSigningKey(base, d, h) = DeriveSigningKey(base, d, hash)
  <2>1. d \in Int
    BY DEF SupportedDialects, SMB2_0_2, SMB2_1, SMB3_0, SMB3_0_2, SMB3_1_1
  <2> QED
    BY <1>5, <2>1 DEF DeriveSigningKey, SMB3_0, SMB3_1_1
<1> QED
  BY <1>2, <1>3, <1>4, <1>5

(* What Authenticate does with the session's authenticator and which key it  *)
(* arrives at.                                                               *)
Authenticated(a, auth, b, n) ==
  /\ a.result \in {"challenge", "failed", "guest", "user"}
  /\ a.result = "challenge" => /\ b.type = "negotiate"
                               /\ a.auth \in Authenticators
                               /\ a.auth.challenge = n /\ a.blob = a.auth
  /\ a.result # "challenge" => a.auth = auth
  /\ b.type = "authenticate" /\ b.known <=> a.result = "user"
  /\ a.result = "user" =>
       /\ a.key \in Bases
       /\ auth = [challenge |-> b.answers, keyExch |-> b.exports]
            => a.key \in {CompatKey, ClientBase(b)}
       /\ auth = NewNTLMAuthenticator => a.key = CompatKey

LEMMA AuthenticateResult ==
  ASSUME NEW opts, NEW auth \in Authenticators, NEW b, Blob(b), NEW n \in Nat \ {0}
  PROVE  Authenticated(Authenticate(opts, auth, b, n), auth, b, n)
<1> USE DEF Authenticated
<1> DEFINE a == Authenticate(opts, auth, b, n)
<1>1. CASE b.type = "other"
  <2>1. a = Outcome("failed", << >>, auth, << >>)
    BY <1>1 DEF Authenticate
  <2> QED
    BY <1>1, <2>1 DEF Outcome
<1>2. CASE b.type = "raw"
  <2>1. a = GuestOrFailed(opts, auth)
    BY <1>2 DEF Authenticate
  <2> QED
    BY <1>2, <2>1 DEF Outcome, GuestOrFailed
<1>3. CASE b.type = "negotiate"
  <2>1. b.keyExch \in BOOLEAN
    BY <1>3 DEF Blob
  <2>2. a = ntlmNegotiate(b, n)
    BY <1>3 DEF Authenticate
  <2>3. PICK c \in Authenticators : c = [challenge |-> n, keyExch |-> b.keyExch]
    BY <2>1, Zenon DEF Authenticators
  <2>4. buildChallengeMessage(c) = c
    BY <2>3 DEF buildChallengeMessage, buildResponseFlags
  <2>5. a = [result |-> "challenge", key |-> << >>, auth |-> c, blob |-> c]
    BY <2>2, <2>3, <2>4 DEF ntlmNegotiate, Outcome
  <2>6. c.challenge = n
    BY <2>3
  <2> QED
    BY <1>3, <2>5, <2>6
<1>4. CASE b.type = "authenticate"
  <2>1. b.known \in BOOLEAN /\ b.answers \in Nat /\ b.exports \in BOOLEAN
    BY <1>4 DEF Blob
  <2>2. a = ntlmAuthenticate(opts, auth, b)
    BY <1>4 DEF Authenticate
  <2>3. CASE ~b.known
    <3>1. a = GuestOrFailed(opts, auth)
      BY <2>2, <2>3 DEF ntlmAuthenticate
    <3> QED
      BY <1>4, <2>3, <3>1 DEF GuestOrFailed, Outcome
  <2>4. CASE b.known
    <3> DEFINE v == verifyAndComputeSessionKey(auth, b)
    <3>1. a = Outcome("user", v, auth, << >>)
      BY <2>2, <2>4 DEF ntlmAuthenticate
    <3>2. auth.challenge \in Nat
      BY DEF Authenticators
    <3>3. v \in Bases
      BY <3>2 DEF verifyAndComputeSessionKey, Bases
    <3>4. auth = [challenge |-> b.answers, keyExch |-> b.exports]
            => v \in {CompatKey, ClientBase(b)}
      BY DEF verifyAndComputeSessionKey, ClientBase
    <3>5. auth = NewNTLMAuthenticator => v = CompatKey
      BY DEF verifyAndComputeSessionKey, NewNTLMAuthenticator
    <3> HIDE DEF v
    <3> QED
      BY <1>4, <2>4, <3>1, <3>3, <3>4, <3>5 DEF Outcome
  <2> QED
    BY <2>1, <2>3, <2>4
<1> HIDE DEF a
<1>5. b.type \in {"other", "raw", "negotiate", "authenticate"}
  BY DEF Blob
<1> QED
  BY <1>1, <1>2, <1>3, <1>4, <1>5 DEF a

(* The dialect chosen is one that is offered.                                *)
LEMMA SelectedDialect ==
  ASSUME NEW opts, NEW offered
  PROVE  selectDialect(opts, offered) \in SupportedDialects \cup {0}
<1> DEFINE common == {d \in SupportedDialects \cap offered :
                        opts.MinDialect <= d /\ d <= opts.MaxDialect}
<1>1. common \subseteq SupportedDialects
  OBVIOUS
<1>2. ASSUME NEW C \in SUBSET SupportedDialects, C # {}
      PROVE  \E x \in C : \A y \in C : x >= y
  <2>1. C \subseteq {514, 528, 768, 770, 785}
    BY DEF SupportedDialects, SMB2_0_2, SMB2_1, SMB3_0, SMB3_0_2, SMB3_1_1
  <2>2. CASE 785 \in C
    BY <2>1, <2>2
  <2>3. CASE 785 \notin C /\ 770 \in C
    BY <2>1, <2>3
  <2>4. CASE 785 \notin C /\ 770 \notin C /\ 768 \in C
    BY <2>1, <2>4
  <2>5. CASE C \subseteq {514, 528} /\ 528 \in C
    BY <2>5
  <2>6. CASE C \subseteq {514}
    <3>1. C = {514}
      BY <1>2, <2>6, ZenonT(30)
    <3> QED
      BY <3>1
  <2> QED
    BY <2>1, <2>2, <2>3, <2>4, <2>5, <2>6
<1>3. common # {} => Max(common) \in common
  BY <1>1, <1>2, Zenon DEF Max
<1> QED
  BY <1>1, <1>3 DEF selectDialect

-----------------------------------------------------------------------------
(* Steps that a connection does not take part in.                            *)

(* A handler that does not take or answer a message in this step.            *)
Calm(k) ==
  \/ handler'[k] = handler[k]
  \/ /\ handler[k] \in {"none", "started", "loop", "reading"}
     /\ handler'[k] \in {"started", "loop", "reading", "closing"}
  \/ /\ handler[k] # "handling"
     /\ handler'[k] \in {"closing", "leaving", "finishing", "returned"}

(* What other connections, the cleaner and the goroutines' own steps do to   *)
(* connection k at most: its client may give it up, and sessions may change  *)
(* that it does not claim.                                                   *)
Apart(k) ==
  /\ Calm(k)
  /\ request'[k] = request[k] /\ found'[k] = found[k] /\ reply'[k] = reply[k]
  /\ dialect'[k] = dialect[k] /\ session'[k] = session[k]
  /\ preauthHash'[k] = preauthHash[k]
  /\ \/ peer'[k] = peer[k]
     \/ peer'[k] = [peer[k] EXCEPT !.steady = Nil, !.gone = TRUE]
  /\ used \subseteq used' /\ msgs' \in Int /\ msgs <= msgs'
  /\ \A s \in Sids : Claims(k, s) => sess'[s] = sess[s]

LEMMA LifecycleCalm ==
  ASSUME ServerTypes, PendingInv, Lifecycle, NEW k \in Conns
  PROVE  Calm(k)
<1> USE DEF Calm
<1>1. CASE AcceptFails \/ CheckLimit \/ CleanupReturns \/ StopCancel
  BY <1>1 DEF AcceptFails, CheckLimit, CleanupReturns, StopCancel
<1>2. CASE StopListener \/ StopConns \/ StopWait
  BY <1>2 DEF StopListener, StopConns, StopWait
<1>3. CASE Spawn
  BY <1>3 DEF Spawn, ServerTypes, PendingInv
<1>4. ASSUME NEW j \in Conns, Connect(j) \/ Accept(j)
      PROVE  Calm(k)
  BY <1>4 DEF Connect, Accept
<1>5. ASSUME NEW j \in Conns, Register(j) \/ TestContext(j) \/ ReadClosed(j) \/ ReadFails(j)
      PROVE  Calm(k)
  BY <1>5 DEF Register, TestContext, ReadClosed, ReadFails, Goto, ServerTypes
<1>6. ASSUME NEW j \in Conns, WriteFails(j) \/ CloseConn(j) \/ Deregister(j) \/ Finish(j)
      PROVE  Calm(k)
  BY <1>6 DEF WriteFails, CloseConn, Deregister, Finish, Goto, ServerTypes
<1> HIDE DEF Calm
<1> QED
  BY <1>1, <1>2, <1>3, <1>4, <1>5, <1>6 DEF Lifecycle

(* The client's record of a connection it may have given up.                 *)
LEMMA ApartPeer ==
  ASSUME WorkTypes, NEW k \in Conns, Apart(k)
  PROVE  LET p == peer[k]  q == peer'[k] IN
           /\ q \in Peer
           /\ q.dialect = p.dialect /\ q.neg = p.neg /\ q.tr = p.tr /\ q.sid = p.sid
           /\ q.challenge = p.challenge /\ q.key = p.key /\ q.serverKey = p.serverKey
           /\ q.required = p.required /\ q.negs = p.negs /\ q.setups = p.setups
           /\ q.steady \in {p.steady, Nil}
<1>1. PICK p \in Peer : p = peer[k]
  BY DEF WorkTypes
<1>2. [p EXCEPT !.steady = Nil, !.gone = TRUE] \in Peer
  BY Zenon DEF Peer
<1>3. PICK q \in Peer : q = [p EXCEPT !.steady = Nil, !.gone = TRUE]
  BY <1>2
<1>4. /\ q.dialect = p.dialect /\ q.neg = p.neg /\ q.tr = p.tr /\ q.sid = p.sid
      /\ q.challenge = p.challenge /\ q.key = p.key /\ q.serverKey = p.serverKey
      /\ q.required = p.required /\ q.negs = p.negs /\ q.setups = p.setups
      /\ q.steady = Nil
  BY <1>3 DEF Peer
<1>5. peer'[k] = p \/ peer'[k] = q
  BY <1>1, <1>3 DEF Apart
<1> QED
  BY <1>1, <1>4, <1>5

LEMMA ApartClaims ==
  ASSUME WorkTypes, NEW k \in Conns, Apart(k), NEW s \in Sids, Claims(k, s)'
  PROVE  Claims(k, s)
<1>1. /\ peer'[k].steady \in {peer[k].steady, Nil}
      /\ peer'[k].challenge = peer[k].challenge /\ peer'[k].sid = peer[k].sid
  BY ApartPeer
<1>2. /\ handler'[k] = "handling" => handler[k] = "handling"
      /\ handler'[k] = "writing" => handler[k] = "writing"
  BY DEF Apart, Calm
<1> QED
  BY <1>1, <1>2 DEF Apart, Claims

LEMMA ApartKeeps ==
  ASSUME ConnTypes, SessTypes, WorkTypes, ServerTypes,
         NEW k \in Conns, PerConn(k), Apart(k)
  PROVE  PerConn(k)'
<1> DEFINE p == peer[k]
           q == peer'[k]
<1>1. /\ q.dialect = p.dialect /\ q.neg = p.neg /\ q.tr = p.tr /\ q.sid = p.sid
      /\ q.challenge = p.challenge /\ q.key = p.key /\ q.serverKey = p.serverKey
      /\ q.required = p.required /\ q.negs = p.negs /\ q.setups = p.setups
      /\ q.steady \in {p.steady, Nil}
  BY ApartPeer
<1>2. /\ handler'[k] = "handling" <=> handler[k] = "handling"
      /\ handler'[k] = "writing" => handler[k] = "writing"
      /\ Serving(k)' => /\ Serving(k) /\ (Busy(k)' <=> Busy(k))
                        /\ handler'[k] = "writing" <=> handler[k] = "writing"
      /\ Busy(k)' => Busy(k)
  BY DEF Apart, Calm, Serving, Busy
<1>3. /\ request'[k] = request[k] /\ found'[k] = found[k] /\ reply'[k] = reply[k]
      /\ dialect'[k] = dialect[k] /\ session'[k] = session[k]
      /\ preauthHash'[k] = preauthHash[k]
      /\ used \subseteq used' /\ msgs' \in Int /\ msgs <= msgs'
  BY DEF Apart
<1>4. \A s \in Sids : Claims(k, s) => sess'[s] = sess[s]
  BY DEF Apart
<1>5. Nil \notin used /\ used \subseteq Sids
  BY SetupAssumption, Zenon DEF SessTypes
<1> HIDE DEF p, q
<1>6. RequestInv(k)'
  <2>1. msgs \in Int
    BY DEF WorkTypes
  <2> QED
    BY <1>1, <1>2, <1>3, <2>1 DEF PerConn, RequestInv, p, q
<1>7. FoundInv(k)'
  BY <1>2, <1>3 DEF PerConn, FoundInv, NotFound
<1>8. ReplyInv(k)'
  BY <1>2, <1>3, <1>4, <1>5 DEF PerConn, ReplyInv, Claims
<1>9. ChallengeInv(k)'
  <2>1. ASSUME q.challenge # NoChallenge
        PROVE  /\ q.sid \in used' /\ sess'[q.sid].Authenticator = q.challenge
               /\ q.setups > 0
    <3>1. p.sid \in used /\ sess[p.sid].Authenticator = p.challenge /\ p.setups > 0
      BY <1>1, <2>1 DEF PerConn, ChallengeInv, p
    <3>2. sess'[p.sid] = sess[p.sid]
      BY <1>1, <1>4, <1>5, <2>1, <3>1 DEF Claims, p
    <3> QED
      BY <1>1, <1>3, <3>1, <3>2
  <2>2. ASSUME Doing(k, "SESSION_SETUP")', request[k].blob.type = "authenticate"
        PROVE  LET m == request[k]
                   answered == [challenge |-> m.blob.answers, keyExch |-> m.blob.exports]
               IN  /\ m.prev = Nil /\ m.sid # Nil
                   /\ q.setups > 1
                   /\ handler'[k] = "handling" /\ found[k] = NotFound
                        => sess'[m.sid].Authenticator = answered
                   /\ found[k] # NotFound
                        => sess'[found[k].sid].Authenticator
                             \in {answered, NewNTLMAuthenticator}
    <3>1. Doing(k, "SESSION_SETUP")
      BY <1>2, <1>3, <2>2 DEF Doing
    <3>2. request[k].cmd = "SESSION_SETUP" /\ request[k].sid \in used \cup {Nil}
      BY <3>1 DEF PerConn, RequestInv, Doing
    <3>3. request[k].sid # Nil
      BY <2>2, <3>1 DEF PerConn, ChallengeInv
    <3>4. handler[k] = "handling" /\ found[k] = NotFound
            => sess'[request[k].sid] = sess[request[k].sid]
      BY <1>4, <1>5, <3>2, <3>3 DEF Claims
    <3>5. found[k] # NotFound => sess'[found[k].sid] = sess[found[k].sid]
      BY <1>4, <1>5 DEF Claims, PerConn, FoundInv
    <3> QED
      BY <1>1, <1>2, <2>2, <3>1, <3>4, <3>5 DEF PerConn, ChallengeInv, p
  <2> QED
    BY <1>3, <2>1, <2>2 DEF ChallengeInv, q, NotFound
<1>10. DialectInv(k)'
  BY <1>1, <1>2, <1>3 DEF PerConn, DialectInv, p, q
<1>11. TranscriptInv(k)'
  BY <1>1, <1>2, <1>3 DEF PerConn, TranscriptInv, Doing, p, q
<1>12. KeyInv(k)'
  BY <1>2, <1>3 DEF PerConn, KeyInv
<1>13. SteadyInv(k)'
  <2>1. p.steady \in Sids \cup {Nil}
    BY DEF p, WorkTypes, Peer
  <2> QED
    BY <1>1, <1>3, <1>4, <2>1 DEF PerConn, SteadyInv, Claims, p, q
<1>14. HashInv(k)'
  <2>1. msgs \in Int /\ Len(preauthHash[k]) \in Nat
    BY DEF WorkTypes, ConnTypes
  <2>2. Len(preauthHash[k]) <= 2 * msgs - (IF Busy(k) THEN 1 ELSE 0)
    BY DEF PerConn, HashInv
  <2>3. (Busy(k)' => Busy(k)) /\ msgs' \in Int /\ msgs <= msgs'
    BY <1>2, <1>3
  <2>4. CASE Busy(k)'
    <3>1. Len(preauthHash[k]) <= 2 * msgs - 1
      BY <2>2, <2>3, <2>4
    <3>2. Len(preauthHash[k]) <= 2 * msgs' - 1
      BY <2>1, <2>3, <3>1
    <3> QED
      BY <1>3, <2>4, <3>2 DEF HashInv
  <2>5. CASE ~Busy(k)'
    <3>1. \/ Len(preauthHash[k]) <= 2 * msgs - 1
          \/ Len(preauthHash[k]) <= 2 * msgs - 0
      BY <2>2
    <3>2. Len(preauthHash[k]) <= 2 * msgs' - 0
      BY <2>1, <2>3, <3>1
    <3> QED
      BY <1>3, <2>5, <3>2 DEF HashInv
  <2> QED
    BY <2>4, <2>5
<1>15. KeyAgreed(k)'
  BY <1>1 DEF PerConn, KeyAgreed, p, q
<1>16. ReplySigned(k)'
  BY <1>1, <1>2, <1>3 DEF PerConn, ReplySigned, p, q
<1> QED
  BY <1>6, <1>7, <1>8, <1>9, <1>10, <1>11, <1>12, <1>13, <1>14, <1>15, <1>16
     DEF PerConn

(* A step keeps the claims apart when the connection that takes it claims    *)
(* only what it claimed before, what is new, and what the others give up.    *)
LEMMA ClaimStep ==
  ASSUME ClaimInv, WorkTypes, NEW k \in Conns,
         \A j \in Conns \ {k} : Apart(j),
         used \subseteq used',
         \A s \in Sids : Claims(k, s)' =>
           /\ s \in used'
           /\ \/ Claims(k, s)
              \/ s \notin used
              \/ \A j \in Conns \ {k} : ~Claims(j, s)'
  PROVE  ClaimInv'
<1>1. ASSUME NEW i \in Conns, NEW s \in Sids, Claims(i, s)'
      PROVE  s \in used'
  <2>1. CASE i = k
    BY <1>1, <2>1
  <2>2. CASE i # k
    BY <1>1, <2>2, ApartClaims DEF ClaimInv
  <2> QED
    BY <2>1, <2>2
<1>2. ASSUME NEW i \in Conns, NEW s \in Sids, Claims(i, s)', NEW j \in Conns,
             Claims(j, s)', i # j
      PROVE  FALSE
  <2>1. ASSUME NEW o \in Conns \ {k}, Claims(o, s)'
        PROVE  Claims(o, s) /\ s \in used
    BY <2>1, ApartClaims DEF ClaimInv
  <2>2. CASE i # k /\ j # k
    BY <1>2, <2>1, <2>2 DEF ClaimInv
  <2>3. CASE i = k
    BY <1>2, <2>1, <2>3 DEF ClaimInv
  <2>4. CASE j = k
    BY <1>2, <2>1, <2>4 DEF ClaimInv
  <2> QED
    BY <2>2, <2>3, <2>4
<1> QED
  BY <1>1, <1>2 DEF ClaimInv

(* A step in which no message is taken or answered.                          *)
LEMMA ApartStep ==
  ASSUME Inv, \A k \in Conns : Apart(k)
  PROVE  (\A k \in Conns : PerConn(k)') /\ ClaimInv'
<1>1. \A k \in Conns : PerConn(k)'
  BY ApartKeeps DEF Inv, LoopInv
<1>2. ASSUME NEW k \in Conns, NEW s \in Sids, Claims(k, s)'
      PROVE  Claims(k, s)
  BY <1>2, ApartClaims DEF Inv
<1>3. \A k \in Conns : used \subseteq used'
  BY Zenon DEF Apart
<1>4. ClaimInv'
  BY <1>2, <1>3 DEF Inv, ClaimInv
<1> QED
  BY <1>1, <1>4

LEMMA UnchangedTypes ==
  ASSUME ConnTypes, SessTypes, WorkTypes, UNCHANGED protocolVars, options' = options
  PROVE  ConnTypes' /\ SessTypes' /\ WorkTypes'
BY DEF ConnTypes, SessTypes, WorkTypes, protocolVars, connVars, sessVars, workVars,
       boundVars

LEMMA LifecycleStep ==
  ASSUME Inv, Lifecycle, UNCHANGED protocolVars
  PROVE  Inv'
<1>1. LoopInv'
  BY LoopInvStep DEF Inv, ServerNext
<1>3. \A k \in Conns : Calm(k)
  BY LifecycleCalm DEF Inv, LoopInv
<1>4. msgs \in Int
  BY DEF Inv, WorkTypes
<1>5. \A k \in Conns : Apart(k)
  BY <1>3, <1>4 DEF Apart, protocolVars, connVars, sessVars, workVars, boundVars
<1>6. (\A k \in Conns : PerConn(k)') /\ ClaimInv'
  BY <1>5, ApartStep
<1>7. SetupInv'
  BY DEF Inv, SetupInv, protocolVars, sessVars, workVars, NotFound
<1>8. options' = options
  BY DEF Lifecycle, AcceptFails, CheckLimit, Spawn, CleanupReturns, StopCancel,
         StopListener, StopConns, StopWait, Connect, Accept, Register, TestContext,
         ReadClosed, ReadFails, WriteFails, CloseConn, Deregister, Finish, Goto
<1> QED
  BY <1>1, <1>6, <1>7, <1>8, UnchangedTypes DEF Inv

LEMMA ExpiryStep ==
  ASSUME Inv, CleanupExpired
  PROVE  Inv'
<1>1. /\ UNCHANGED <<dialect, signingRequired, session, preauthHash, used, sess,
                     request, found, reply, peer, msgs>>
      /\ UNCHANGED serverVars /\ sessions' \subseteq sessions
      /\ expiries' = expiries + 1 /\ expiries < options.expiries
  BY DEF CleanupExpired, connVars, workVars
<1>2. options' = options /\ handler' = handler
  BY <1>1 DEF serverVars
<1>3. LoopInv'
  BY <1>1, LoopInvStep DEF Inv
<1>4. \A k \in Conns : Apart(k)
  BY <1>1, <1>2 DEF Inv, WorkTypes, Apart, Calm
<1>5. (\A k \in Conns : PerConn(k)') /\ ClaimInv'
  BY <1>4, ApartStep
<1>6. SetupInv'
  BY <1>1 DEF Inv, SetupInv, NotFound
<1>7. options.expiries \in Nat
  BY SetupAssumption DEF Inv, LoopInv, ServerTypes
<1>8. ConnTypes' /\ SessTypes'
  BY <1>1 DEF Inv, ConnTypes, SessTypes
<1>9. WorkTypes'
  BY <1>1, <1>2, <1>7 DEF Inv, WorkTypes
<1> QED
  BY <1>3, <1>5, <1>6, <1>8, <1>9 DEF Inv

-----------------------------------------------------------------------------
(* Requests outside the set-up of a session.                                 *)

(* What Answer does to the connection and to the others.                     *)
LEMMA AnswerEffect ==
  ASSUME ServerTypes, ConnTypes, WorkTypes, NEW k \in Conns,
         NEW status, NEW sid, NEW ptr, NEW newSess, NEW body,
         Answer(k, status, sid, ptr, newSess, body)
  PROVE  /\ handler[k] = "handling" /\ handler'[k] = "writing"
         /\ session'[k] = ptr /\ sess' = newSess
         /\ reply'[k].cmd = request[k].cmd /\ reply'[k].status = status
         /\ reply'[k].sid = sid /\ reply'[k].n = request[k].n
         /\ reply'[k].body = body
         /\ reply'[k].key = (IF ptr = Nil THEN NoKey ELSE newSess[ptr].SigningKey)
         /\ LET by == SigningKeyFor(reply'[k].key, signingRequired[k],
                                    request[k].signed, request[k].cmd, status)
            IN  reply'[k].sign = IF by = NoKey THEN Unsigned
                                 ELSE SignMessage(by, dialect[k])
         /\ DOMAIN reply' = Conns /\ options' = options
         /\ \A j \in Conns \ {k} : /\ handler'[j] = handler[j] /\ reply'[j] = reply[j]
                                   /\ session'[j] = session[j]
         /\ ServerNext
<1>1. /\ handler[k] = "handling" /\ handler' = [handler EXCEPT ![k] = "writing"]
      /\ options' = options
  BY DEF Answer, Respond, Goto
<1>2. /\ handler'[k] = "writing"
      /\ \A j \in Conns \ {k} : handler'[j] = handler[j]
  BY <1>1 DEF ServerTypes
<1>3. /\ session'[k] = ptr /\ sess' = newSess
      /\ \A j \in Conns \ {k} : session'[j] = session[j]
  BY DEF Answer, ConnTypes
<1>4. ServerNext
  BY DEF Answer, ServerNext
<1>5. DOMAIN reply = Conns
  BY DEF WorkTypes
<1>6. /\ DOMAIN reply' = Conns
      /\ \A j \in Conns \ {k} : reply'[j] = reply[j]
  BY <1>5 DEF Answer
<1>7. /\ reply'[k].cmd = request[k].cmd /\ reply'[k].status = status
      /\ reply'[k].sid = sid /\ reply'[k].n = request[k].n
      /\ reply'[k].body = body
      /\ reply'[k].key = (IF ptr = Nil THEN NoKey ELSE newSess[ptr].SigningKey)
  BY <1>5 DEF Answer
<1>8. reply'[k].sign
        = LET by == SigningKeyFor(reply'[k].key, signingRequired[k],
                                  request[k].signed, request[k].cmd, status)
          IN  IF by = NoKey THEN Unsigned ELSE SignMessage(by, dialect[k])
  BY <1>5 DEF Answer
<1> QED
  BY <1>1, <1>2, <1>3, <1>4, <1>6, <1>7, <1>8

(* A request that is answered without a change of any session object.        *)
PlainAnswer(k) ==
  /\ request[k].cmd \in {"NEGOTIATE", "LOGOFF", "ECHO"}
  /\ handler[k] = "handling" /\ handler'[k] = "writing"
  /\ UNCHANGED <<options, sess, used, request, found, peer, msgs, expiries, preauthHash>>
  /\ sessions' \subseteq sessions
  /\ reply'[k].cmd = request[k].cmd /\ reply'[k].n = request[k].n
  /\ DOMAIN reply' = Conns
  /\ \A j \in Conns \ {k} :
       /\ handler'[j] = handler[j] /\ reply'[j] = reply[j]
       /\ session'[j] = session[j] /\ dialect'[j] = dialect[j]
  /\ ServerNext

LEMMA PlainAnswerStep ==
  ASSUME Inv, NEW k \in Conns, PlainAnswer(k), ConnTypes',
         ReplyInv(k)', DialectInv(k)', TranscriptInv(k)', SteadyInv(k)', ReplySigned(k)'
  PROVE  Inv'
<1>1. PerConn(k) /\ found[k] = NotFound
  BY DEF Inv, PlainAnswer, PerConn, FoundInv
<1>2. msgs \in Int
  BY DEF Inv, WorkTypes
<1>3. \A j \in Conns \ {k} : Apart(j)
  BY <1>2 DEF PlainAnswer, Apart, Calm
<1>4. \A j \in Conns \ {k} : PerConn(j)'
  BY <1>3, ApartKeeps DEF Inv, LoopInv
<1>5. RequestInv(k)' /\ FoundInv(k)'
  BY <1>1 DEF PlainAnswer, PerConn, RequestInv, FoundInv, Busy, NotFound
<1>6. ChallengeInv(k)'
  BY <1>1 DEF PlainAnswer, PerConn, ChallengeInv, Doing
<1>7. KeyInv(k)'
  BY <1>1 DEF PlainAnswer, KeyInv
<1>8. HashInv(k)' /\ KeyAgreed(k)'
  BY <1>1 DEF PlainAnswer, PerConn, HashInv, Busy, KeyAgreed
<1>9. PerConn(k)'
  BY <1>5, <1>6, <1>7, <1>8 DEF PerConn
<1>10. ASSUME NEW s \in Sids, Claims(k, s)'
       PROVE  Claims(k, s)
  BY <1>1, <1>10 DEF PlainAnswer, Claims, NotFound
<1>11. ClaimInv'
  <2>1. \A s \in Sids : Claims(k, s) => s \in used
    BY DEF Inv, ClaimInv
  <2>2. used' = used /\ WorkTypes /\ ClaimInv
    BY DEF PlainAnswer, Inv
  <2> QED
    BY <1>3, <1>10, <2>1, <2>2, ClaimStep
<1>12. SessTypes' /\ WorkTypes'
  BY DEF PlainAnswer, Inv, SessTypes, WorkTypes
<1>13. SetupInv'
  BY DEF PlainAnswer, Inv, SetupInv, NotFound
<1>14. LoopInv'
  BY LoopInvStep DEF PlainAnswer, Inv
<1> QED
  BY <1>4, <1>9, <1>11, <1>12, <1>13, <1>14 DEF Inv

LEMMA EchoStep ==
  ASSUME Inv, NEW k \in Conns, handleEcho(k)
  PROVE  Inv'
<1>1. /\ request[k].cmd = "ECHO" /\ handler[k] = "handling"
      /\ Answer(k, "SUCCESS", request[k].sid, session[k], sess, << >>)
      /\ UNCHANGED <<sessions, dialect, signingRequired, preauthHash, used, request,
                     found, peer, msgs, expiries>>
  BY DEF handleEcho, boundVars
<1> DEFINE r == reply'[k]
           p == peer[k]
<1>2. /\ handler'[k] = "writing"
      /\ session'[k] = session[k] /\ sess' = sess
      /\ r.cmd = "ECHO" /\ r.status = "SUCCESS" /\ r.n = request[k].n
      /\ r.key = (IF session[k] = Nil THEN NoKey ELSE sess[session[k]].SigningKey)
      /\ DOMAIN reply' = Conns /\ options' = options
      /\ \A j \in Conns \ {k} : /\ handler'[j] = handler[j] /\ reply'[j] = reply[j]
                                /\ session'[j] = session[j]
      /\ ServerNext
  BY <1>1, AnswerEffect DEF Inv, LoopInv
<1>3. LET by == SigningKeyFor(r.key, signingRequired[k], request[k].signed, "ECHO",
                              "SUCCESS")
      IN  r.sign = IF by = NoKey THEN Unsigned ELSE SignMessage(by, dialect[k])
  BY <1>1, AnswerEffect DEF Inv, LoopInv
<1>4. PlainAnswer(k)
  BY <1>1, <1>2 DEF PlainAnswer
<1>5. PerConn(k)
  BY DEF Inv
<1>6. session' = session
  BY <1>1 DEF Answer, Inv, ConnTypes
<1>7. ConnTypes'
  BY <1>1, <1>6 DEF Inv, ConnTypes
<1> HIDE DEF r, p
<1>8. ReplyInv(k)'
  BY <1>1, <1>2 DEF ReplyInv, r
<1>9. DialectInv(k)'
  BY <1>1, <1>2, <1>5 DEF PerConn, DialectInv, Serving, Busy
<1>10. TranscriptInv(k)'
  BY <1>1, <1>2, <1>5 DEF PerConn, TranscriptInv, Serving, Busy, Doing
<1>11. SteadyInv(k)'
  BY <1>1, <1>2, <1>5 DEF PerConn, SteadyInv
<1>12. ReplySigned(k)'
  <2>1. ASSUME p.required, p.steady # Nil
        PROVE  r.sign = SignMessage(p.serverKey, p.dialect)
    <3>1. r.key = p.serverKey /\ p.serverKey # NoKey
      BY <1>2, <1>5, <2>1 DEF PerConn, SteadyInv, p
    <3>2. p.dialect = dialect[k]
      BY <1>1, <1>5 DEF PerConn, DialectInv, Serving, Busy, p
    <3>3. request[k].signed
      BY <1>1, <1>5, <2>1, Zenon DEF PerConn, RequestInv, Busy, p
    <3>4. SigningKeyFor(r.key, signingRequired[k], request[k].signed, "ECHO", "SUCCESS")
            = p.serverKey
      BY <3>1, <3>3 DEF SigningKeyFor
    <3> QED
      BY <1>3, <3>1, <3>2, <3>4
  <2> QED
    BY <1>1, <2>1 DEF ReplySigned, r, p
<1> QED
  BY <1>4, <1>7, <1>8, <1>9, <1>10, <1>11, <1>12, PlainAnswerStep

LEMMA LogoffStep ==
  ASSUME Inv, NEW k \in Conns, handleLogoff(k)
  PROVE  Inv'
<1>1. PICK status \in {"SUCCESS", "USER_SESSION_DELETED"}, ptr \in {Nil, session[k]} :
        /\ Answer(k, status, request[k].sid, ptr, sess, << >>)
        /\ sessions' \subseteq sessions
  BY DEF handleLogoff
<1>2. /\ request[k].cmd = "LOGOFF" /\ handler[k] = "handling"
      /\ UNCHANGED <<dialect, signingRequired, preauthHash, used, request, found,
                     peer, msgs, expiries>>
  BY DEF handleLogoff, boundVars
<1>3. /\ handler'[k] = "writing"
      /\ session'[k] = ptr /\ sess' = sess
      /\ reply'[k].cmd = "LOGOFF" /\ reply'[k].n = request[k].n
      /\ DOMAIN reply' = Conns /\ options' = options
      /\ \A j \in Conns \ {k} : /\ handler'[j] = handler[j] /\ reply'[j] = reply[j]
                                /\ session'[j] = session[j]
      /\ ServerNext
  BY <1>1, <1>2, AnswerEffect DEF Inv, LoopInv
<1>4. PlainAnswer(k)
  BY <1>1, <1>2, <1>3 DEF PlainAnswer
<1>5. PerConn(k)
  BY DEF Inv
<1>6. peer[k].steady = Nil
  BY <1>2, <1>5 DEF PerConn, RequestInv, Busy
<1>7. ConnTypes'
  BY <1>1, <1>2 DEF Inv, ConnTypes, Answer
<1>8. ReplyInv(k)'
  BY <1>2, <1>3 DEF ReplyInv
<1>9. DialectInv(k)'
  BY <1>2, <1>3, <1>5 DEF PerConn, DialectInv, Serving, Busy
<1>10. TranscriptInv(k)'
  BY <1>2, <1>3, <1>5 DEF PerConn, TranscriptInv, Serving, Busy, Doing
<1>11. SteadyInv(k)' /\ ReplySigned(k)'
  BY <1>2, <1>6 DEF SteadyInv, ReplySigned
<1> QED
  BY <1>4, <1>7, <1>8, <1>9, <1>10, <1>11, PlainAnswerStep

LEMMA NegotiateStep ==
  ASSUME Inv, NEW k \in Conns, handleNegotiate(k)
  PROVE  Inv'
<1> DEFINE m == request[k]
           d == selectDialect(options, m.dialects)
<1>1. /\ m.cmd = "NEGOTIATE" /\ handler[k] = "handling"
      /\ UNCHANGED <<sessions, preauthHash, used, request, found, peer, msgs, expiries>>
  BY DEF handleNegotiate, boundVars
<1>2. PerConn(k)
  BY DEF Inv
<1>3. peer[k].steady = Nil
  BY <1>1, <1>2 DEF PerConn, RequestInv, Busy
<1>4. ASSUME NEW status, NEW body, NEW ptr \in {Nil, session[k]},
             Answer(k, status, Nil, ptr, sess, body)
      PROVE  /\ handler'[k] = "writing"
             /\ session'[k] = ptr /\ sess' = sess
             /\ reply'[k].cmd = "NEGOTIATE" /\ reply'[k].n = m.n
             /\ reply'[k].status = status /\ reply'[k].body = body
             /\ DOMAIN reply' = Conns /\ options' = options
             /\ \A j \in Conns \ {k} : /\ handler'[j] = handler[j]
                                       /\ reply'[j] = reply[j]
                                       /\ session'[j] = session[j]
             /\ ServerNext
             /\ session' \in [Conns -> used \cup {Nil}]
  <2>1. session' \in [Conns -> used \cup {Nil}]
    BY <1>4 DEF Inv, ConnTypes, Answer
  <2> QED
    BY <1>1, <1>4, <2>1, AnswerEffect DEF Inv, LoopInv
<1>5. SteadyInv(k)' /\ ReplySigned(k)'
  BY <1>1, <1>3 DEF SteadyInv, ReplySigned
<1> HIDE DEF d
<1>6. ASSUME NEW status, NEW body, Answer(k, status, Nil, session[k], sess, body),
             m.smb1 \/ status # "SUCCESS", UNCHANGED <<dialect, signingRequired>>
      PROVE  Inv'
  <2>1. PlainAnswer(k)
    BY <1>1, <1>4, <1>6 DEF PlainAnswer
  <2>2. ConnTypes'
    BY <1>1, <1>4, <1>6 DEF Inv, ConnTypes
  <2>3. ReplyInv(k)'
    BY <1>1, <1>4, <1>6 DEF ReplyInv
  <2>4. DialectInv(k)'
    BY <1>1, <1>2, <1>4, <1>6 DEF PerConn, DialectInv, Serving, Busy
  <2>5. TranscriptInv(k)'
    BY <1>1, <1>2, <1>4, <1>6 DEF PerConn, TranscriptInv, Serving, Busy, Doing
  <2> QED
    BY <1>5, <2>1, <2>2, <2>3, <2>4, <2>5, PlainAnswerStep
<1>7. ASSUME ~m.smb1, d # 0,
             dialect' = [dialect EXCEPT ![k] = d],
             signingRequired' = [signingRequired EXCEPT ![k] =
                                   m.required \/ options.SigningRequired],
             Answer(k, "SUCCESS", Nil, Nil, sess, buildNegotiateResponse(options, d))
      PROVE  Inv'
  <2>1. d \in SupportedDialects \cup {0}
    BY SelectedDialect DEF d
  <2>2. dialect' \in [Conns -> SupportedDialects \cup {0}] /\ dialect'[k] = d
    BY <1>7, <2>1 DEF Inv, ConnTypes
  <2>3. PlainAnswer(k)
    BY <1>1, <1>4, <1>7 DEF PlainAnswer, Inv, ConnTypes
  <2>4. ConnTypes'
    <3>1. signingRequired' \in [Conns -> BOOLEAN]
      BY <1>7 DEF Inv, ConnTypes
    <3> QED
      BY <1>1, <1>4, <1>7, <2>2, <3>1 DEF Inv, ConnTypes
  <2>5. options.SigningRequired \in BOOLEAN
    BY SetupAssumption DEF Inv, LoopInv, ServerTypes
  <2>6. ReplyInv(k)'
    BY <1>1, <1>4, <1>7, <2>2, <2>5 DEF ReplyInv, buildNegotiateResponse
  <2>7. DialectInv(k)'
    BY <1>1, <1>2, <1>4, <1>7 DEF PerConn, DialectInv, Serving, Busy
  <2>8. TranscriptInv(k)'
    BY <1>1, <1>2, <1>4, <1>7 DEF PerConn, TranscriptInv, Serving, Busy, Doing
  <2> QED
    BY <1>5, <2>3, <2>4, <2>6, <2>7, <2>8, PlainAnswerStep
<1> QED
  BY <1>6, <1>7 DEF handleNegotiate, d

LEMMA CancelStep ==
  ASSUME Inv, NEW k \in Conns, handleCancel(k)
  PROVE  Inv'
<1>1. /\ request[k].cmd = "CANCEL" /\ handler[k] = "handling" /\ handler'[k] = "loop"
      /\ options' = options
      /\ \A j \in Conns \ {k} : handler'[j] = handler[j]
      /\ ServerNext
  BY Zenon DEF handleCancel, NoResponse, Goto, ServerNext, Inv, LoopInv, ServerTypes
<1>2. /\ UNCHANGED <<dialect, signingRequired, session, preauthHash, sessions, used,
                     sess, request, found, reply, peer, msgs, expiries>>
      /\ UNCHANGED protocolVars
  BY DEF handleCancel, protocolVars, connVars, sessVars, workVars, boundVars
<1>3. PerConn(k) /\ msgs \in Int /\ Len(preauthHash[k]) \in Nat
  BY DEF Inv, WorkTypes, ConnTypes
<1>4. found[k] = NotFound
  BY <1>1, <1>3 DEF PerConn, FoundInv
<1>5. \A j \in Conns \ {k} : Apart(j)
  BY <1>1, <1>2, <1>3 DEF Apart, Calm
<1>6. \A j \in Conns \ {k} : PerConn(j)'
  BY <1>5, ApartKeeps DEF Inv, LoopInv
<1>7. PerConn(k)'
  <2>1. RequestInv(k)' /\ FoundInv(k)' /\ ReplyInv(k)' /\ KeyInv(k)' /\ ReplySigned(k)'
    BY <1>1, <1>2, <1>4 DEF RequestInv, FoundInv, ReplyInv, KeyInv, ReplySigned, Busy,
                            NotFound
  <2>2. ChallengeInv(k)' /\ SteadyInv(k)' /\ KeyAgreed(k)'
    BY <1>1, <1>2, <1>3 DEF PerConn, ChallengeInv, SteadyInv, KeyAgreed, Doing, Busy
  <2>3. DialectInv(k)'
    BY <1>1, <1>2, <1>3 DEF PerConn, DialectInv, Serving, Busy
  <2>4. TranscriptInv(k)'
    BY <1>1, <1>2, <1>3 DEF PerConn, TranscriptInv, Serving, Busy, Doing
  <2>5. HashInv(k)'
    BY <1>1, <1>2, <1>3 DEF PerConn, HashInv, Busy
  <2> QED
    BY <2>1, <2>2, <2>3, <2>4, <2>5 DEF PerConn
<1>8. \A s \in Sids : Claims(k, s)' => Claims(k, s)
  BY <1>1, <1>2, <1>4 DEF Claims, NotFound
<1>9. ClaimInv'
  <2>1. \A s \in Sids : Claims(k, s) => s \in used
    BY DEF Inv, ClaimInv
  <2>2. used' = used /\ WorkTypes /\ ClaimInv
    BY <1>2 DEF Inv
  <2> QED
    BY <1>5, <1>8, <2>1, <2>2, ClaimStep
<1>10. ConnTypes' /\ SessTypes' /\ WorkTypes'
  BY <1>1, <1>2, UnchangedTypes DEF Inv
<1>11. SetupInv'
  BY <1>2 DEF Inv, SetupInv, NotFound
<1>12. LoopInv'
  BY <1>1, LoopInvStep DEF Inv
<1> QED
  BY <1>6, <1>7, <1>9, <1>10, <1>11, <1>12 DEF Inv
-----------------------------------------------------------------------------
(* The set-up of a session.                                                  *)

LEMMA LookupStep ==
  ASSUME Inv, NEW k \in Conns, setupLookup(k)
  PROVE  Inv'
<1> DEFINE m == request[k]
<1>1. /\ m.cmd = "SESSION_SETUP" /\ handler[k] = "handling" /\ found[k] = NotFound
      /\ UNCHANGED serverVars
      /\ UNCHANGED <<dialect, signingRequired, session, preauthHash, sess, request,
                     reply, peer, msgs, expiries>>
  BY DEF setupLookup, connVars, boundVars, sessVars
<1>2. options' = options /\ handler' = handler
  BY <1>1 DEF serverVars
<1>3. PerConn(k) /\ msgs \in Int
  BY DEF Inv, WorkTypes
<1>4. sessions \subseteq used /\ used \subseteq Sids /\ Nil \notin Sids
  BY SetupAssumption DEF Inv, SessTypes
<1>5. PICK s \in Sids, new \in BOOLEAN :
        /\ found' = [found EXCEPT ![k] = [sid |-> s, new |-> new]]
        /\ \/ /\ s \in sessions /\ s \in {m.prev, m.sid} /\ (m.prev = Nil => s = m.sid)
              /\ used' = used /\ sessions' = sessions
           \/ /\ s \notin used /\ new
              /\ used' = used \cup {s} /\ sessions' = sessions \cup {s}
  <2>1. CASE /\ m.prev \in sessions
             /\ found' = [found EXCEPT ![k] = [sid |-> m.prev, new |-> FALSE]]
             /\ UNCHANGED sessVars
    <3>1. m.prev \in Sids /\ m.prev # Nil /\ used' = used /\ sessions' = sessions
      BY <1>4, <2>1 DEF sessVars
    <3> QED
      BY <2>1, <3>1, Zenon
  <2>2. CASE /\ m.prev \notin sessions /\ m.sid \in sessions
             /\ found' = [found EXCEPT ![k] = [sid |-> m.sid, new |-> FALSE]]
             /\ UNCHANGED sessVars
    <3>1. m.sid \in Sids /\ used' = used /\ sessions' = sessions
      BY <1>4, <2>2 DEF sessVars
    <3> QED
      BY <2>2, <3>1, Zenon
  <2>3. ASSUME NEW s \in Sids \ used,
               found' = [found EXCEPT ![k] = [sid |-> s, new |-> TRUE]],
               used' = used \cup {s}, sessions' = sessions \cup {s}
        PROVE  \E t \in Sids, new \in BOOLEAN :
                 /\ found' = [found EXCEPT ![k] = [sid |-> t, new |-> new]]
                 /\ t \notin used /\ new
                 /\ used' = used \cup {t} /\ sessions' = sessions \cup {t}
    BY <2>3, Zenon
  <2> QED
    BY <2>1, <2>2, <2>3 DEF setupLookup
<1>6. /\ found'[k].sid = s /\ (found'[k].new <=> new) /\ found'[k] # NotFound
      /\ \A j \in Conns \ {k} : found'[j] = found[j]
      /\ found' \in [Conns -> [sid : used' \cup {Nil}, new : BOOLEAN]]
  <2>1. s \in used' /\ used \subseteq used'
    BY <1>4, <1>5
  <2>2. /\ found'[k] = [sid |-> s, new |-> new]
        /\ \A j \in Conns \ {k} : found'[j] = found[j]
        /\ found' \in [Conns -> [sid : used' \cup {Nil}, new : BOOLEAN]]
    BY <1>5, <2>1 DEF Inv, WorkTypes
  <2> QED
    BY <1>4, <2>2 DEF NotFound
<1>7. used \subseteq used' /\ s \in used' /\ used' \subseteq Sids /\ sessions' \subseteq used'
  BY <1>4, <1>5
<1>8. \A j \in Conns \ {k} : Apart(j)
  BY <1>1, <1>2, <1>3, <1>6, <1>7 DEF Apart, Calm
<1>9. \A j \in Conns \ {k} : PerConn(j)'
  BY <1>8, ApartKeeps DEF Inv, LoopInv
<1> HIDE DEF m
<1>10. PerConn(k)'
  <2>1. RequestInv(k)'
    BY <1>1, <1>2, <1>3, <1>7 DEF PerConn, RequestInv, Busy, m
  <2>2. FoundInv(k)'
    BY <1>1, <1>2, <1>6, <1>7 DEF FoundInv, m
  <2>3. ReplyInv(k)' /\ KeyInv(k)' /\ ReplySigned(k)'
    BY <1>1, <1>2 DEF ReplyInv, KeyInv, ReplySigned, m
  <2>4. ChallengeInv(k)'
    <3>1. peer[k].challenge = NoChallenge
      BY <1>1, <1>3 DEF PerConn, RequestInv, Busy, m
    <3>2. ASSUME m.blob.type = "authenticate"
          PROVE  /\ m.prev = Nil /\ m.sid # Nil /\ peer[k].setups > 1
                 /\ sess[s].Authenticator
                      \in {[challenge |-> m.blob.answers, keyExch |-> m.blob.exports],
                           NewNTLMAuthenticator}
      <4>1. /\ m.prev = Nil /\ m.sid # Nil /\ peer[k].setups > 1
            /\ sess[m.sid].Authenticator
                 = [challenge |-> m.blob.answers, keyExch |-> m.blob.exports]
        BY <1>1, <1>3, <3>2 DEF PerConn, ChallengeInv, Doing, Busy, m
      <4>2. s = m.sid \/ s \in Sids \ used
        BY <1>4, <1>5, <4>1
      <4>3. s \in Sids \ used => sess[s].Authenticator = NewNTLMAuthenticator
        BY DEF Inv, SessTypes
      <4> QED
        BY <4>1, <4>2, <4>3
    <3> QED
      BY <1>1, <1>2, <1>6, <3>1, <3>2 DEF ChallengeInv, m, NotFound
  <2>5. DialectInv(k)'
    BY <1>1, <1>2, <1>3 DEF PerConn, DialectInv, Serving, Busy, m
  <2>6. TranscriptInv(k)'
    BY <1>1, <1>2, <1>3 DEF PerConn, TranscriptInv, Serving, Busy, Doing, m
  <2>7. SteadyInv(k)' /\ HashInv(k)' /\ KeyAgreed(k)'
    BY <1>1, <1>2, <1>3 DEF PerConn, SteadyInv, HashInv, Busy, KeyAgreed
  <2> QED
    BY <2>1, <2>2, <2>3, <2>4, <2>5, <2>6, <2>7 DEF PerConn
<1>11. ClaimInv'
  <2>1. ASSUME NEW t \in Sids, Claims(k, t)'
        PROVE  t \in used' /\ (Claims(k, t) \/ t \notin used)
    <3>1. \/ peer[k].steady = t
          \/ peer[k].challenge # NoChallenge /\ peer[k].sid = t
          \/ t = s
      BY <1>1, <1>2, <1>6, <2>1 DEF Claims, NotFound
    <3>2. CASE peer[k].steady = t \/ (peer[k].challenge # NoChallenge /\ peer[k].sid = t)
      BY <1>4, <1>7, <3>2 DEF Inv, ClaimInv, Claims
    <3>3. CASE t = s /\ s \in {m.prev, m.sid}
      BY <1>1, <1>4, <1>7, <3>3 DEF Claims, m
    <3>4. CASE t = s /\ s \notin used
      BY <1>7, <3>4
    <3> QED
      BY <1>5, <3>1, <3>2, <3>3, <3>4
  <2> QED
    BY <1>7, <1>8, <2>1, ClaimStep DEF Inv
<1>12. ConnTypes' /\ SessTypes' /\ WorkTypes'
  <2>1. ConnTypes'
    BY <1>1, <1>7 DEF Inv, ConnTypes
  <2>2. SessTypes'
    BY <1>1, <1>7 DEF Inv, SessTypes
  <2>3. WorkTypes'
    BY <1>1, <1>2, <1>6 DEF Inv, WorkTypes
  <2> QED
    BY <2>1, <2>2, <2>3
<1>13. SetupInv'
  <2>1. ASSUME NEW t \in sessions'
        PROVE  \/ sess[t].State = "Valid"
               \/ sess[t].Authenticator.challenge # 0
               \/ \E j \in Conns : found'[j] # NotFound /\ found'[j].sid = t /\ found'[j].new
    <3>1. CASE t \in sessions
      <4>1. ASSUME NEW j \in Conns, found[j] # NotFound, found[j].sid = t, found[j].new
            PROVE  found'[j] # NotFound /\ found'[j].sid = t /\ found'[j].new
        BY <1>1, <1>6, <4>1
      <4> QED
        BY <3>1, <4>1 DEF Inv, SetupInv
    <3>2. CASE t \notin sessions
      BY <1>5, <1>6, <2>1, <3>2
    <3> QED
      BY <3>1, <3>2
  <2> QED
    BY <1>1, <2>1 DEF SetupInv, NotFound
<1>14. LoopInv'
  BY <1>1, LoopInvStep DEF Inv
<1> QED
  BY <1>9, <1>10, <1>11, <1>12, <1>13, <1>14 DEF Inv

(* The answer to a SESSION_SETUP, whatever it is: only the session that was  *)
(* looked up for it has changed.                                             *)
SetupAnswer(k, s) ==
  /\ found[k] # NotFound /\ found[k].sid = s
  /\ found' = [found EXCEPT ![k] = NotFound]
  /\ handler'[k] = "writing"
  /\ UNCHANGED <<options, dialect, signingRequired, preauthHash, used, request, peer,
                 msgs, expiries>>
  /\ sessions' \subseteq sessions
  /\ reply'[k].cmd = "SESSION_SETUP" /\ reply'[k].n = request[k].n
  /\ reply'[k].status \in {"SUCCESS", "MORE_PROCESSING"} => reply'[k].sid = s
  /\ DOMAIN reply' = Conns
  /\ session' \in [Conns -> used \cup {Nil}]
  /\ reply'[k].status # "SUCCESS" => session'[k] = session[k]
  /\ sess' \in [Sids -> Session]
  /\ sess'[s].Authenticator.challenge <= msgs
  /\ \A t \in Sids \ {s} : sess'[t] = sess[t]
  /\ \A j \in Conns \ {k} :
       /\ handler'[j] = handler[j] /\ reply'[j] = reply[j] /\ session'[j] = session[j]
  /\ ServerNext

LEMMA SetupAnswerStep ==
  ASSUME Inv, NEW k \in Conns, NEW s \in Sids, SetupAnswer(k, s),
         ReplyInv(k)', KeyInv(k)', SetupInv'
  PROVE  Inv'
<1>1. PerConn(k) /\ msgs \in Int
  BY DEF Inv, WorkTypes
<1>2. /\ handler[k] = "handling" /\ request[k].cmd = "SESSION_SETUP" /\ s \in used
      /\ found[k] # NotFound /\ s = found[k].sid
  BY <1>1 DEF SetupAnswer, PerConn, FoundInv
<1>3. /\ peer[k].steady = Nil /\ peer[k].challenge = NoChallenge /\ peer[k].setups > 0
  BY <1>1, <1>2 DEF PerConn, RequestInv, Busy
<1>4. /\ found'[k] = NotFound /\ \A j \in Conns \ {k} : found'[j] = found[j]
      /\ found' \in [Conns -> [sid : used \cup {Nil}, new : BOOLEAN]]
  BY DEF SetupAnswer, Inv, WorkTypes, NotFound
<1>5. Claims(k, s)
  BY <1>2, SetupAssumption DEF Claims
<1>6. \A j \in Conns \ {k}, t \in Sids : Claims(j, t) => sess'[t] = sess[t]
  BY <1>5 DEF SetupAnswer, Inv, ClaimInv
<1>7. \A j \in Conns \ {k} : Apart(j)
  BY <1>1, <1>4, <1>6 DEF SetupAnswer, Apart, Calm
<1>8. \A j \in Conns \ {k} : PerConn(j)'
  BY <1>7, ApartKeeps DEF Inv, LoopInv
<1>9. PerConn(k)'
  <2>1. RequestInv(k)' /\ FoundInv(k)'
    BY <1>1, <1>2, <1>4 DEF SetupAnswer, PerConn, RequestInv, FoundInv, Busy, NotFound
  <2>2. ChallengeInv(k)'
    <3>1. peer'[k].challenge = NoChallenge /\ found'[k] = NotFound'
      BY <1>3, <1>4 DEF SetupAnswer, NotFound
    <3> QED
      BY <1>1, <1>2, <3>1 DEF SetupAnswer, PerConn, ChallengeInv, Doing, Busy, NoChallenge
  <2>3. SteadyInv(k)' /\ ReplySigned(k)' /\ KeyAgreed(k)'
    BY <1>1, <1>3 DEF SetupAnswer, PerConn, SteadyInv, ReplySigned, KeyAgreed
  <2>4. DialectInv(k)'
    BY <1>1, <1>2 DEF SetupAnswer, PerConn, DialectInv, Serving, Busy
  <2>5. TranscriptInv(k)'
    BY <1>1, <1>2, <1>3 DEF SetupAnswer, PerConn, TranscriptInv, Serving, Busy, Doing
  <2>6. HashInv(k)'
    BY <1>1, <1>2 DEF SetupAnswer, PerConn, HashInv, Busy
  <2> QED
    BY <2>1, <2>2, <2>3, <2>4, <2>5, <2>6 DEF PerConn
<1>10. ClaimInv'
  <2>1. ASSUME NEW t \in Sids, Claims(k, t)'
        PROVE  Claims(k, t) /\ t \in used'
    <3>1. t = s
      BY <1>3, <1>4, <2>1, SetupAssumption DEF SetupAnswer, Claims, NotFound, NoChallenge
    <3> QED
      BY <1>2, <1>5, <3>1 DEF SetupAnswer
  <2> QED
    BY <1>7, <2>1, ClaimStep DEF Inv, SetupAnswer
<1>11. ConnTypes' /\ WorkTypes'
  BY <1>4 DEF SetupAnswer, Inv, ConnTypes, WorkTypes
<1>12. SessTypes'
  <2>1. \A t \in Sids : sess'[t].Authenticator.challenge <= msgs
    BY DEF SetupAnswer, Inv, SessTypes
  <2>2. \A t \in Sids \ used : sess'[t].Authenticator = NewNTLMAuthenticator
    BY <1>2 DEF SetupAnswer, Inv, SessTypes
  <2> QED
    BY <2>1, <2>2 DEF SetupAnswer, Inv, SessTypes
<1>13. LoopInv'
  BY LoopInvStep DEF SetupAnswer, Inv
<1> QED
  BY <1>8, <1>9, <1>10, <1>11, <1>12, <1>13 DEF Inv

LEMMA AuthenticateStep ==
  ASSUME Inv, NEW k \in Conns, setupAuthenticate(k)
  PROVE  Inv'
<1> DEFINE m == request[k]
           s == found[k].sid
           auth == sess[s].Authenticator
           a == Authenticate(options, auth, m.blob, m.n)
           now == [sess EXCEPT ![s].Authenticator = a.auth]
<1>1. /\ found[k] # NotFound /\ found' = [found EXCEPT ![k] = NotFound]
      /\ UNCHANGED <<dialect, signingRequired, preauthHash, used, request, peer, msgs,
                     expiries>>
  BY Zenon DEF setupAuthenticate, boundVars
<1>2. PerConn(k) /\ msgs \in Int
  BY DEF Inv, WorkTypes
<1>3. /\ handler[k] = "handling" /\ m.cmd = "SESSION_SETUP" /\ s \in used
  BY <1>1, <1>2 DEF PerConn, FoundInv
<1>4. s \in Sids /\ s # Nil
  BY <1>3, SetupAssumption, Zenon DEF Inv, SessTypes
<1>5. /\ sess[s] \in Session /\ auth \in Authenticators
      /\ Blob(m.blob) /\ m.n \in Nat \ {0} /\ m.n <= msgs /\ auth.challenge <= msgs
  BY <1>2, <1>3, <1>4 DEF Inv, SessTypes, Session, PerConn, RequestInv, Busy
<1>6. /\ a.result \in {"challenge", "failed", "guest", "user"}
      /\ a.result = "challenge" => /\ a.auth \in Authenticators
                                   /\ a.auth.challenge = m.n /\ a.blob = a.auth
      /\ a.result # "challenge" => a.auth = auth
      /\ m.blob.type = "authenticate" /\ m.blob.known <=> a.result = "user"
      /\ a.result = "user" =>
           /\ a.key \in Bases
           /\ auth = [challenge |-> m.blob.answers, keyExch |-> m.blob.exports]
                => a.key \in {CompatKey, ClientBase(m.blob)}
           /\ auth = NewNTLMAuthenticator => a.key = CompatKey
  <2>1. Authenticated(a, auth, m.blob, m.n)
    BY <1>5, AuthenticateResult
  <2> HIDE DEF a
  <2> QED
    BY <2>1 DEF Authenticated
<1>7. \A j \in Conns : found'[j] = IF j = k THEN NotFound ELSE found[j]
  BY <1>1 DEF Inv, WorkTypes
<1> HIDE DEF a
<1>8. /\ a.auth \in Authenticators /\ a.auth.challenge <= msgs
      /\ now \in [Sids -> Session]
      /\ now[s].Authenticator = a.auth /\ now[s].State = sess[s].State
      /\ now[s].SigningKey = sess[s].SigningKey
      /\ \A t \in Sids \ {s} : now[t] = sess[t]
  <2>1. a.auth \in Authenticators /\ a.auth.challenge <= msgs
    BY <1>5, <1>6
  <2>2. PICK x \in Session : x = sess[s]
    BY <1>5
  <2>3. PICK y \in Session : y = [x EXCEPT !.Authenticator = a.auth]
    BY <2>1, Zenon DEF Session
  <2>4. y.Authenticator = a.auth /\ y.State = x.State /\ y.SigningKey = x.SigningKey
    BY <2>3 DEF Session
  <2>5. now = [sess EXCEPT ![s] = y]
    BY <1>4, <2>2, <2>3 DEF Inv, SessTypes
  <2> HIDE DEF now
  <2>6. now \in [Sids -> Session] /\ now[s] = y /\ \A t \in Sids \ {s} : now[t] = sess[t]
    BY <1>4, <2>5 DEF Inv, SessTypes
  <2> QED
    BY <2>1, <2>2, <2>4, <2>6
<1> HIDE DEF now
<1>9. ASSUME NEW status \in {"MORE_PROCESSING", "LOGON_FAILURE", "SUCCESS"},
             NEW sid, NEW ptr, NEW newSess, NEW body,
             Answer(k, status, sid, ptr, newSess, body),
             status # "LOGON_FAILURE" => sid = s,
             ptr = IF status = "SUCCESS" THEN s ELSE session[k],
             newSess \in [Sids -> Session], newSess[s].Authenticator = a.auth,
             \A t \in Sids \ {s} : newSess[t] = sess[t],
             sessions' \subseteq sessions
      PROVE  /\ SetupAnswer(k, s)
             /\ handler'[k] = "writing" /\ session'[k] = ptr /\ sess' = newSess
             /\ reply'[k].cmd = "SESSION_SETUP" /\ reply'[k].status = status
             /\ reply'[k].sid = sid /\ reply'[k].n = m.n /\ reply'[k].body = body
             /\ reply'[k].key = (IF ptr = Nil THEN NoKey ELSE newSess[ptr].SigningKey)
  <2>1. /\ handler'[k] = "writing" /\ session'[k] = ptr /\ sess' = newSess
        /\ reply'[k].cmd = "SESSION_SETUP" /\ reply'[k].status = status
        /\ reply'[k].sid = sid /\ reply'[k].n = m.n /\ reply'[k].body = body
        /\ reply'[k].key = (IF ptr = Nil THEN NoKey ELSE newSess[ptr].SigningKey)
        /\ DOMAIN reply' = Conns /\ options' = options
        /\ \A j \in Conns \ {k} : /\ handler'[j] = handler[j] /\ reply'[j] = reply[j]
                                  /\ session'[j] = session[j]
        /\ ServerNext
    BY <1>3, <1>9, AnswerEffect DEF Inv, LoopInv
  <2>2. ptr \in used \cup {Nil}
    BY <1>3, <1>9 DEF Inv, ConnTypes
  <2>3. session' \in [Conns -> used \cup {Nil}]
    BY <1>9, <2>2 DEF Inv, ConnTypes, Answer
  <2>4. SetupAnswer(k, s)
    BY <1>1, <1>8, <1>9, <2>1, <2>3 DEF SetupAnswer
  <2> QED
    BY <2>1, <2>4
<1>10. CASE /\ a.result = "challenge" /\ UNCHANGED sessions
            /\ Answer(k, "MORE_PROCESSING", s, session[k], now, a.blob)
  <2>1. /\ SetupAnswer(k, s)
        /\ handler'[k] = "writing" /\ session'[k] = session[k] /\ sess' = now
        /\ reply'[k].cmd = "SESSION_SETUP" /\ reply'[k].status = "MORE_PROCESSING"
        /\ reply'[k].sid = s /\ reply'[k].n = m.n /\ reply'[k].body = a.blob
    BY <1>8, <1>9, <1>10
  <2>2. ReplyInv(k)' /\ KeyInv(k)'
    BY <1>1, <1>3, <1>6, <1>8, <1>10, <2>1 DEF ReplyInv, KeyInv
  <2>3. SetupInv'
    <3>1. ASSUME NEW t \in sessions
          PROVE  \/ now[t].State = "Valid"
                 \/ now[t].Authenticator.challenge # 0
                 \/ \E j \in Conns : found'[j] # NotFound /\ found'[j].sid = t /\ found'[j].new
      <4>1. CASE t = s
        BY <1>5, <1>6, <1>8, <1>10, <4>1
      <4>2. CASE t # s
        <5>1. now[t] = sess[t]
          BY <1>8, <4>2 DEF Inv, SessTypes
        <5>2. \A j \in Conns : found[j].sid = t => found'[j] = found[j]
          BY <1>7, <4>2
        <5> QED
          BY <5>1, <5>2 DEF Inv, SetupInv
      <4> QED
        BY <4>1, <4>2
    <3> QED
      BY <1>10, <2>1, <3>1 DEF SetupInv, NotFound
  <2> QED
    BY <1>4, <2>1, <2>2, <2>3, SetupAnswerStep
<1>11. CASE /\ a.result = "failed" /\ sessions' = AfterFailure(k)
            /\ Answer(k, "LOGON_FAILURE", m.sid, session[k], now, << >>)
  <2>1. sessions' \subseteq sessions
    BY <1>11 DEF AfterFailure
  <2>2. /\ SetupAnswer(k, s)
        /\ handler'[k] = "writing" /\ session'[k] = session[k] /\ sess' = now
        /\ reply'[k].cmd = "SESSION_SETUP" /\ reply'[k].status = "LOGON_FAILURE"
        /\ reply'[k].n = m.n
    BY <1>8, <1>9, <1>11, <2>1
  <2>3. ReplyInv(k)' /\ KeyInv(k)'
    BY <1>1, <1>3, <2>2 DEF ReplyInv, KeyInv
  <2>4. SetupInv'
    <3>1. ASSUME NEW t \in sessions'
          PROVE  \/ now[t].State = "Valid"
                 \/ now[t].Authenticator.challenge # 0
                 \/ \E j \in Conns : found'[j] # NotFound /\ found'[j].sid = t /\ found'[j].new
      <4>1. /\ t \in sessions /\ t \in Sids
            /\ now[t].State = sess[t].State
            /\ now[t].Authenticator = sess[t].Authenticator
        BY <1>6, <1>8, <1>11, <2>1, <3>1 DEF Inv, SessTypes
      <4>2. ASSUME NEW j \in Conns, found[j] # NotFound, found[j].sid = t, found[j].new
            PROVE  found'[j] = found[j]
        <5>1. j # k
          BY <1>11, <3>1, <4>2 DEF AfterFailure
        <5> QED
          BY <1>7, <5>1
      <4> QED
        BY <4>1, <4>2 DEF Inv, SetupInv
    <3> QED
      BY <2>2, <3>1 DEF SetupInv, NotFound
  <2> QED
    BY <1>4, <2>2, <2>3, <2>4, SetupAnswerStep
<1>12. CASE /\ a.result \in {"guest", "user"} /\ UNCHANGED sessions
            /\ Answer(k, "SUCCESS", s, s,
                 [now EXCEPT ![s].State = "Valid",
                             ![s].SigningKey =
                               IF a.result = "guest" THEN NoKey
                               ELSE DeriveSigningKey(a.key, dialect[k],
                                                     preauthHash[k])],
                 a.blob)
  <2> DEFINE key == IF a.result = "guest" THEN NoKey
                    ELSE DeriveSigningKey(a.key, dialect[k], preauthHash[k])
             set == [now EXCEPT ![s].State = "Valid", ![s].SigningKey = key]
  <2>1. dialect[k] \in SupportedDialects \cup {0} /\ preauthHash[k] \in Seq(Bytes)
    BY DEF Inv, ConnTypes
  <2>2. << >> \in Bases
    BY DEF Bases
  <2>3. key \in Keys
    BY <1>6, <1>12, <2>1, <2>2, DerivedKeys, Zenon
  <2> HIDE DEF key
  <2>4. /\ set \in [Sids -> Session] /\ set[s].Authenticator = a.auth
        /\ set[s].State = "Valid" /\ set[s].SigningKey = key
        /\ \A t \in Sids \ {s} : set[t] = sess[t]
    <3>1. PICK x \in Session : x = now[s]
      BY <1>4, <1>8
    <3>2. PICK y \in Session : y = [x EXCEPT !.State = "Valid", !.SigningKey = key]
      BY <2>3, Zenon DEF Session
    <3>3. y.Authenticator = a.auth /\ y.State = "Valid" /\ y.SigningKey = key
      BY <1>8, <3>1, <3>2 DEF Session
    <3>4. set = [now EXCEPT ![s] = y]
      BY <1>4, <1>8, <3>1, <3>2, ZenonT(30)
    <3> HIDE DEF set
    <3> QED
      BY <1>4, <1>8, <3>3, <3>4
  <2>5. Answer(k, "SUCCESS", s, s, set, a.blob) /\ sessions' = sessions
    BY <1>12 DEF key
  <2> HIDE DEF set
  <2>6. /\ SetupAnswer(k, s)
        /\ handler'[k] = "writing" /\ session'[k] = s /\ sess' = set
        /\ reply'[k].cmd = "SESSION_SETUP" /\ reply'[k].status = "SUCCESS"
        /\ reply'[k].sid = s /\ reply'[k].n = m.n /\ reply'[k].key = key
    BY <1>4, <1>9, <2>4, <2>5
  <2>7. ReplyInv(k)'
    BY <1>1, <1>3, <2>4, <2>6 DEF ReplyInv
  <2>8. KeyInv(k)'
    <3>1. ASSUME m.blob.type = "authenticate", m.blob.known
          PROVE  /\ key # NoKey
                 /\ key.base # CompatKey
                      => key = DeriveSigningKey(ClientBase(m.blob), dialect[k],
                                                preauthHash[k])
      <4>1. a.result = "user" /\ a.key \in Bases
        BY <1>6, <3>1
      <4>2. key = DeriveSigningKey(a.key, dialect[k], preauthHash[k])
        BY <4>1 DEF key
      <4>3. key # NoKey /\ key.base = a.key
        BY <2>1, <4>1, <4>2, DerivedKeys, Zenon
      <4>4. auth \in {[challenge |-> m.blob.answers, keyExch |-> m.blob.exports],
                      NewNTLMAuthenticator}
        BY <1>1, <1>2, <1>3, <3>1 DEF PerConn, ChallengeInv, Doing, Busy
      <4>5. a.key \in {CompatKey, ClientBase(m.blob)}
        BY <1>6, <4>1, <4>4
      <4> QED
        BY <4>2, <4>3, <4>5
    <3> QED
      BY <1>1, <2>6, <3>1 DEF KeyInv
  <2>9. SetupInv'
    <3>1. ASSUME NEW t \in sessions
          PROVE  \/ set[t].State = "Valid"
                 \/ set[t].Authenticator.challenge # 0
                 \/ \E j \in Conns : found'[j] # NotFound /\ found'[j].sid = t /\ found'[j].new
      <4>1. CASE t = s
        BY <2>4, <4>1
      <4>2. CASE t # s
        <5>1. set[t] = sess[t]
          BY <2>4, <4>2 DEF Inv, SessTypes
        <5>2. \A j \in Conns : found[j].sid = t => found'[j] = found[j]
          BY <1>7, <4>2
        <5> QED
          BY <5>1, <5>2 DEF Inv, SetupInv
      <4> QED
        BY <4>1, <4>2
    <3> QED
      BY <2>5, <2>6, <3>1 DEF SetupInv, NotFound
  <2> QED
    BY <1>4, <2>6, <2>7, <2>8, <2>9, SetupAnswerStep
<1> QED
  BY <1>10, <1>11, <1>12, ZenonT(30) DEF setupAuthenticate, a, now

-----------------------------------------------------------------------------
(* The client sends.                                                         *)

(* What a client may send, by kind.                                          *)
LEMMA RequestKinds ==
  ASSUME Inv, NEW k \in Conns, NEW m, m \in Requests(k)
  PROVE  /\ m.n = msgs + 1
         /\ \/ m.cmd = "NEGOTIATE" /\ m.smb1 \in BOOLEAN /\ m.required \in BOOLEAN
            \/ /\ m.cmd = "SESSION_SETUP" /\ peer[k].dialect # 0
               /\ Blob(m.blob) /\ m.blob.type # "authenticate" /\ m.sid = Nil
               /\ m.prev \in {peer[j].steady : j \in Conns \ {k}} \cup {Nil}
            \/ /\ m.cmd = "SESSION_SETUP" /\ peer[k].dialect # 0
               /\ peer[k].challenge # NoChallenge
               /\ Blob(m.blob) /\ m.blob.type = "authenticate"
               /\ m.blob.answers = peer[k].challenge.challenge
               /\ m.blob.exports = peer[k].challenge.keyExch
               /\ m.sid = peer[k].sid /\ m.prev = Nil
            \/ m.cmd \in {"LOGOFF", "ECHO"} /\ m.signed = peer[k].required
            \/ m.cmd = "CANCEL"
<1> DEFINE d == options
<1>1. /\ d.SigningRequired \in BOOLEAN
      /\ \A o \in d.offers : o.required \in BOOLEAN
      /\ \A b \in d.blobs : \/ b.type = "negotiate" /\ b.keyExch \in BOOLEAN
                            \/ b.type \in {"raw", "other"}
      /\ d.users \subseteq BOOLEAN
  BY SetupAssumption DEF Inv, LoopInv, ServerTypes
<1>2. peer[k] \in Peer /\ peer[k].challenge \in Authenticators
  BY DEF Inv, WorkTypes, Peer
<1>3. CASE m \in NegotiateRequests(k)
  <2>1. ASSUME NEW o \in d.offers,
               m = [cmd |-> "NEGOTIATE", n |-> msgs + 1, smb1 |-> FALSE, sid |-> Nil,
                    signed |-> FALSE, dialects |-> o.dialects, required |-> o.required]
        PROVE  /\ m.n = msgs + 1 /\ m.cmd = "NEGOTIATE" /\ m.smb1 \in BOOLEAN
               /\ m.required \in BOOLEAN
    <3>1. m.smb1 = FALSE /\ m.required = o.required /\ m.n = msgs + 1
      BY <2>1
    <3>2. m.cmd = "NEGOTIATE"
      BY <2>1
    <3> QED
      BY <1>1, <3>1, <3>2, Zenon
  <2>2. ASSUME m = [cmd |-> "NEGOTIATE", n |-> msgs + 1, smb1 |-> TRUE, sid |-> Nil,
                    signed |-> FALSE, dialects |-> {}, required |-> FALSE]
        PROVE  /\ m.n = msgs + 1 /\ m.cmd = "NEGOTIATE" /\ m.smb1 \in BOOLEAN
               /\ m.required \in BOOLEAN
    BY <2>2
  <2>3. \/ \E o \in d.offers :
             m = [cmd |-> "NEGOTIATE", n |-> msgs + 1, smb1 |-> FALSE, sid |-> Nil,
                  signed |-> FALSE, dialects |-> o.dialects, required |-> o.required]
        \/ m = [cmd |-> "NEGOTIATE", n |-> msgs + 1, smb1 |-> TRUE, sid |-> Nil,
                signed |-> FALSE, dialects |-> {}, required |-> FALSE]
    BY <1>3 DEF NegotiateRequests
  <2> QED
    BY <2>1, <2>2, <2>3
<1>4. CASE m \in SetupRequests(k) /\ peer[k].dialect # 0
  <2>1. ASSUME NEW prev \in {peer[j].steady : j \in Conns \ {k}} \cup {Nil},
               NEW b \in d.blobs, m = Setup(Nil, prev, b)
        PROVE  /\ m.n = msgs + 1 /\ m.cmd = "SESSION_SETUP"
               /\ Blob(m.blob) /\ m.blob.type # "authenticate" /\ m.sid = Nil
               /\ m.prev \in {peer[j].steady : j \in Conns \ {k}} \cup {Nil}
    <3>1. /\ m.n = msgs + 1 /\ m.cmd = "SESSION_SETUP" /\ m.blob = b /\ m.sid = Nil
          /\ m.prev = prev
      BY <2>1 DEF Setup
    <3>2. Blob(b) /\ b.type # "authenticate"
      BY <1>1 DEF Blob
    <3> QED
      BY <3>1, <3>2
  <2>2. ASSUME peer[k].challenge # NoChallenge, NEW u \in d.users,
               NEW b, b = [type |-> "authenticate", known |-> u,
                           answers |-> peer[k].challenge.challenge,
                           exports |-> peer[k].challenge.keyExch],
               m = Setup(peer[k].sid, Nil, b)
        PROVE  /\ m.n = msgs + 1 /\ m.cmd = "SESSION_SETUP"
               /\ Blob(m.blob) /\ m.blob.type = "authenticate"
               /\ m.blob.answers = peer[k].challenge.challenge
               /\ m.blob.exports = peer[k].challenge.keyExch
               /\ m.sid = peer[k].sid /\ m.prev = Nil
    <3>1. /\ m.n = msgs + 1 /\ m.cmd = "SESSION_SETUP" /\ m.blob = b
          /\ m.sid = peer[k].sid /\ m.prev = Nil
      BY <2>2 DEF Setup
    <3>2. /\ b.type = "authenticate" /\ b.known = u
          /\ b.answers = peer[k].challenge.challenge
          /\ b.exports = peer[k].challenge.keyExch
      BY <2>2
    <3>3. b.answers \in Nat /\ b.exports \in BOOLEAN /\ b.known \in BOOLEAN
      BY <1>1, <1>2, <3>2 DEF Authenticators
    <3> QED
      BY <3>1, <3>2, <3>3 DEF Blob
  <2>3. \/ \E prev \in {peer[j].steady : j \in Conns \ {k}} \cup {Nil}, b \in d.blobs :
             m = Setup(Nil, prev, b)
        \/ /\ peer[k].challenge # NoChallenge
           /\ \E u \in d.users :
                m = Setup(peer[k].sid, Nil,
                          [type |-> "authenticate", known |-> u,
                           answers |-> peer[k].challenge.challenge,
                           exports |-> peer[k].challenge.keyExch])
    BY <1>4 DEF SetupRequests
  <2> QED
    BY <1>4, <2>1, <2>2, <2>3, Zenon
<1>5. CASE m \in SessionRequests(k)
  BY <1>5 DEF SessionRequests
<1>6. CASE m \in {[cmd |-> c, n |-> msgs + 1, sid |-> Nil, signed |-> FALSE] :
                    c \in options.cmds \cap {"CANCEL"}}
  BY <1>6
<1> QED
  BY <1>3, <1>4, <1>5, <1>6 DEF Requests

(* What its sender puts down.                                                *)
LEMMA SenderRecord ==
  ASSUME Inv, NEW k \in Conns, NEW m, m \in Requests(k), PeerSends(k, m)
  PROVE  LET p == peer[k]  q == peer'[k] IN
           /\ peer' \in [Conns -> Peer]
           /\ q.dialect = p.dialect /\ q.neg = p.neg /\ q.serverKey = p.serverKey
           /\ q.negs = (IF m.cmd = "NEGOTIATE" THEN p.negs + 1 ELSE p.negs)
           /\ q.setups = (IF m.cmd = "SESSION_SETUP" THEN p.setups + 1 ELSE p.setups)
           /\ m.cmd # "NEGOTIATE" => q.required = p.required
           /\ IF m.cmd = "SESSION_SETUP"
                THEN /\ q.tr = (IF m.sid = Nil THEN p.neg ELSE p.tr) /\ q.sid = m.sid
                     /\ q.key = NoKey /\ q.challenge = NoChallenge
                ELSE /\ q.tr = p.tr /\ q.sid = p.sid
                     /\ q.key = p.key /\ q.challenge = p.challenge
           /\ q.steady = (IF m.cmd \in {"NEGOTIATE", "SESSION_SETUP", "LOGOFF"}
                            THEN Nil ELSE p.steady)
           /\ \A j \in Conns \ {k} :
                IF m.cmd = "SESSION_SETUP" /\ m.prev # Nil /\ peer[j].steady = m.prev
                  THEN peer'[j] = [peer[j] EXCEPT !.steady = Nil, !.gone = TRUE]
                  ELSE peer'[j] = peer[j]
<1>1. /\ peer \in [Conns -> Peer]
      /\ \A j \in Conns : [peer[j] EXCEPT !.steady = Nil, !.gone = TRUE] \in Peer
  <2>1. \A p \in Peer : [p EXCEPT !.steady = Nil, !.gone = TRUE] \in Peer
    BY ZenonT(30) DEF Peer
  <2> QED
    BY <2>1, Zenon DEF Inv, WorkTypes
<1>2. /\ \A j \in Conns \ {k} :
           IF m.cmd = "SESSION_SETUP" /\ m.prev # Nil /\ peer[j].steady = m.prev
             THEN peer'[j] = [peer[j] EXCEPT !.steady = Nil, !.gone = TRUE]
             ELSE peer'[j] = peer[j]
  BY Zenon DEF PeerSends
<1>3. PICK p \in Peer : p = peer[k]
  BY <1>1, Zenon
<1>4. PICK o \in Peer : o = [p EXCEPT !.steady = Nil]
  BY Zenon DEF Peer
<1>5. /\ o.dialect = p.dialect /\ o.neg = p.neg /\ o.serverKey = p.serverKey
      /\ o.negs = p.negs /\ o.setups = p.setups /\ o.required = p.required
      /\ o.tr = p.tr /\ o.sid = p.sid /\ o.key = p.key /\ o.challenge = p.challenge
      /\ o.steady = Nil
  BY <1>4 DEF Peer
<1>6. p.negs \in Nat /\ p.setups \in Nat /\ p.neg \in Seq(Bytes) /\ p.tr \in Seq(Bytes)
  BY DEF Peer
<1>7. CASE m.cmd = "NEGOTIATE"
  <2>1. m.required \in BOOLEAN
    BY <1>7, RequestKinds
  <2>6. o.negs + 1 \in Nat
    BY <1>5, <1>6
  <2>7. [o EXCEPT !.negs = o.negs + 1, !.required = m.required] \in Peer
    BY <2>1, <2>6, ZenonT(30) DEF Peer
  <2>2. PICK q \in Peer : q = [o EXCEPT !.negs = o.negs + 1, !.required = m.required]
    BY <2>7
  <2>3. /\ q.dialect = o.dialect /\ q.neg = o.neg /\ q.serverKey = o.serverKey
        /\ q.negs = o.negs + 1 /\ q.setups = o.setups
        /\ q.tr = o.tr /\ q.sid = o.sid /\ q.key = o.key /\ q.challenge = o.challenge
        /\ q.steady = o.steady
    BY <2>2 DEF Peer
  <2>4. peer'[k] = q
    BY <1>3, <1>4, <1>7, <2>2 DEF PeerSends
  <2>5. peer' \in [Conns -> Peer]
    BY <1>1, <1>2, <2>4, Zenon DEF PeerSends
  <2> QED
    BY <1>2, <1>3, <1>5, <1>7, <2>3, <2>4, <2>5
<1>8. CASE m.cmd = "SESSION_SETUP"
  <2>1. m.sid \in Sids \cup {Nil}
    BY <1>1, <1>8, RequestKinds, Zenon DEF Peer
  <2>2. NoKey \in Keys /\ NoChallenge \in Authenticators
    <3>1. << >> \in Bases /\ << >> \in Seq(Bytes) /\ 0 \in SupportedDialects \cup {0}
      BY DEF Bases
    <3>2. NoKey \in Keys
      BY <3>1, DerivedKeys, Zenon
    <3> QED
      BY <3>2 DEF NoChallenge, Authenticators
  <2>3. PICK tr \in Seq(Bytes) : tr = IF m.sid = Nil THEN o.neg ELSE o.tr
    BY <1>5, <1>6
  <2>9. o.setups + 1 \in Nat
    BY <1>5, <1>6
  <2>10. [o EXCEPT !.setups = o.setups + 1, !.tr = tr, !.sid = m.sid,
                   !.key = NoKey, !.challenge = NoChallenge] \in Peer
    BY <2>1, <2>2, <2>9, Zenon DEF Peer
  <2>4. PICK q \in Peer : q = [o EXCEPT !.setups = o.setups + 1, !.tr = tr, !.sid = m.sid,
                                        !.key = NoKey, !.challenge = NoChallenge]
    BY <2>10
  <2>5. /\ q.dialect = o.dialect /\ q.neg = o.neg /\ q.serverKey = o.serverKey
        /\ q.negs = o.negs /\ q.setups = o.setups + 1 /\ q.required = o.required
        /\ q.tr = tr /\ q.sid = m.sid /\ q.key = NoKey /\ q.challenge = NoChallenge
        /\ q.steady = o.steady
    BY <2>4 DEF Peer
  <2>11. (IF m.cmd \in {"NEGOTIATE", "SESSION_SETUP", "LOGOFF"}
            THEN [peer[k] EXCEPT !.steady = Nil] ELSE peer[k]) = o
    BY <1>3, <1>4, <1>8
  <2>6. peer'[k] = [o EXCEPT !.setups = o.setups + 1,
                             !.tr = IF m.sid = Nil THEN o.neg ELSE o.tr, !.sid = m.sid,
                             !.key = NoKey, !.challenge = NoChallenge]
    <3> DEFINE w == IF m.cmd \in {"NEGOTIATE", "SESSION_SETUP", "LOGOFF"}
                      THEN [peer[k] EXCEPT !.steady = Nil] ELSE peer[k]
    <3>1. peer'[k] = [w EXCEPT !.setups = @ + 1,
                               !.tr = IF m.sid = Nil THEN w.neg ELSE @,
                               !.sid = m.sid, !.key = NoKey, !.challenge = NoChallenge]
      BY <1>8, Zenon DEF PeerSends
    <3>2. w = o
      BY <2>11
    <3> HIDE DEF w
    <3> QED
      BY <3>1, <3>2 DEF Peer
  <2>7. peer'[k] = q
    BY <2>3, <2>4, <2>6
  <2>8. peer' \in [Conns -> Peer]
    BY <1>1, <1>2, <2>7, ZenonT(30) DEF PeerSends
  <2> QED
    BY <1>2, <1>3, <1>5, <1>8, <2>3, <2>5, <2>7, <2>8, ZenonT(30)
<1>9. CASE m.cmd \notin {"NEGOTIATE", "SESSION_SETUP"}
  <2>1. peer'[k] = IF m.cmd = "LOGOFF" THEN o ELSE p
    BY <1>3, <1>4, <1>9, Zenon DEF PeerSends
  <2>3. peer'[k] \in Peer
    BY <2>1
  <2>2. peer' \in [Conns -> Peer]
    BY <1>1, <1>2, <2>3, Zenon DEF PeerSends
  <2> QED
    BY <1>2, <1>3, <1>5, <1>9, <2>1, <2>2, ZenonT(30)
<1> QED
  BY <1>7, <1>8, <1>9, ZenonT(30)

LEMMA ReceiveStep ==
  ASSUME Inv, NEW k \in Conns, ReceiveMessage(k)
  PROVE  Inv'
<1> DEFINE p == peer[k]
           q == peer'[k]
           hash == preauthHash[k]
           valid == session[k] # Nil /\ sess[session[k]].State = "Valid"
<1>1. PICK m \in Requests(k) :
        /\ request' = [request EXCEPT ![k] = m]
        /\ preauthHash' =
             IF HashesRequest(dialect[k], m.cmd, valid)
               THEN [preauthHash EXCEPT ![k] =
                       UpdatePreauthHash(@, IF m.cmd = "NEGOTIATE" /\ m.smb1 THEN NoBytes
                                            ELSE Req(msgs + 1))]
               ELSE preauthHash
        /\ PeerSends(k, m)
  BY Zenon DEF ReceiveMessage
<1>2. /\ handler[k] = "reading" /\ handler'[k] = "handling" /\ options' = options
      /\ \A j \in Conns \ {k} : handler'[j] = handler[j]
      /\ ServerNext
  BY Zenon DEF ReceiveMessage, Receive, Goto, ServerNext, Inv, LoopInv, ServerTypes
<1>3. /\ UNCHANGED <<dialect, signingRequired, session, sessions, used, sess, found,
                     reply, expiries>>
      /\ msgs < options.msgs /\ msgs' = msgs + 1
  BY DEF ReceiveMessage, sessVars
<1>4. PerConn(k) /\ msgs \in Nat /\ options.msgs \in Nat
  BY SetupAssumption DEF Inv, WorkTypes, LoopInv, ServerTypes
<1>5. /\ used \subseteq Sids /\ Nil \notin used /\ p \in Peer
      /\ p.negs \in Nat /\ p.setups \in Nat /\ p.neg \in Seq(Bytes) /\ p.tr \in Seq(Bytes)
      /\ p.dialect \in Int /\ p.challenge \in Authenticators /\ hash \in Seq(Bytes)
  <2>1. used \subseteq Sids /\ Nil \notin used
    BY SetupAssumption, Zenon DEF Inv, SessTypes
  <2>2. p \in Peer
    BY DEF Inv, WorkTypes
  <2>3. /\ p.negs \in Nat /\ p.setups \in Nat /\ p.neg \in Seq(Bytes) /\ p.tr \in Seq(Bytes)
        /\ p.dialect \in SupportedDialects \cup {0} /\ p.challenge \in Authenticators
    BY <2>2 DEF Peer
  <2>4. hash \in Seq(Bytes)
    BY DEF Inv, ConnTypes
  <2> QED
    BY <2>1, <2>2, <2>3, <2>4
       DEF SupportedDialects, SMB2_0_2, SMB2_1, SMB3_0, SMB3_0_2, SMB3_1_1
<1>6. /\ request'[k] = m /\ DOMAIN request' = Conns
      /\ \A j \in Conns \ {k} : request'[j] = request[j]
  BY <1>1 DEF Inv, WorkTypes
<1>7. /\ m.n = msgs + 1
      /\ \/ m.cmd = "NEGOTIATE" /\ m.smb1 \in BOOLEAN /\ m.required \in BOOLEAN
         \/ /\ m.cmd = "SESSION_SETUP" /\ p.dialect # 0
            /\ Blob(m.blob) /\ m.blob.type # "authenticate" /\ m.sid = Nil
            /\ m.prev \in {peer[j].steady : j \in Conns \ {k}} \cup {Nil}
         \/ /\ m.cmd = "SESSION_SETUP" /\ p.dialect # 0 /\ p.challenge # NoChallenge
            /\ Blob(m.blob) /\ m.blob.type = "authenticate"
            /\ m.blob.answers = p.challenge.challenge
            /\ m.blob.exports = p.challenge.keyExch
            /\ m.sid = p.sid /\ m.prev = Nil
         \/ m.cmd \in {"LOGOFF", "ECHO"} /\ m.signed = p.required
         \/ m.cmd = "CANCEL"
  BY RequestKinds
<1>8. /\ peer' \in [Conns -> Peer]
      /\ q.dialect = p.dialect /\ q.neg = p.neg /\ q.serverKey = p.serverKey
      /\ q.negs = (IF m.cmd = "NEGOTIATE" THEN p.negs + 1 ELSE p.negs)
      /\ q.setups = (IF m.cmd = "SESSION_SETUP" THEN p.setups + 1 ELSE p.setups)
      /\ m.cmd # "NEGOTIATE" => q.required = p.required
      /\ IF m.cmd = "SESSION_SETUP"
           THEN /\ q.tr = (IF m.sid = Nil THEN p.neg ELSE p.tr) /\ q.sid = m.sid
                /\ q.key = NoKey /\ q.challenge = NoChallenge
           ELSE /\ q.tr = p.tr /\ q.sid = p.sid
                /\ q.key = p.key /\ q.challenge = p.challenge
      /\ q.steady = (IF m.cmd \in {"NEGOTIATE", "SESSION_SETUP", "LOGOFF"}
                       THEN Nil ELSE p.steady)
  BY <1>1, SenderRecord, ZenonT(30)
<1>29. \A j \in Conns \ {k} :
         IF m.cmd = "SESSION_SETUP" /\ m.prev # Nil /\ peer[j].steady = m.prev
           THEN peer'[j] = [peer[j] EXCEPT !.steady = Nil, !.gone = TRUE]
           ELSE peer'[j] = peer[j]
  BY <1>1, SenderRecord, Zenon
<1>9. /\ preauthHash' \in [Conns -> Seq(Bytes)]
      /\ preauthHash'[k] = IF HashesRequest(dialect[k], m.cmd, valid)
                             THEN Append(hash, IF m.cmd = "NEGOTIATE" /\ m.smb1
                                                 THEN NoBytes ELSE Req(msgs + 1))
                             ELSE hash
      /\ \A j \in Conns \ {k} : preauthHash'[j] = preauthHash[j]
  <2>1. PICK b \in Bytes : b = IF m.cmd = "NEGOTIATE" /\ m.smb1 THEN NoBytes
                               ELSE Req(msgs + 1)
    BY <1>4 DEF Bytes
  <2>2. preauthHash \in [Conns -> Seq(Bytes)]
    BY DEF Inv, ConnTypes
  <2>3. preauthHash' = IF HashesRequest(dialect[k], m.cmd, valid)
                         THEN [preauthHash EXCEPT ![k] = Append(hash, b)]
                         ELSE preauthHash
    BY <1>1, <2>1 DEF UpdatePreauthHash
  <2>4. Append(hash, b) \in Seq(Bytes)
    BY <1>5
  <2> QED
    BY <2>1, <2>2, <2>3, <2>4
<1>10. /\ found[k] = NotFound
       /\ p.dialect = dialect[k]
       /\ Serving(k) /\ ~Busy(k)
  BY <1>2, <1>4 DEF PerConn, FoundInv, DialectInv, Serving, Busy
<1>11. \A j \in Conns \ {k} : Apart(j)
  <2>1. \A j \in Conns \ {k} :
          \/ peer'[j] = peer[j]
          \/ peer'[j] = [peer[j] EXCEPT !.steady = Nil, !.gone = TRUE]
    BY <1>29, Zenon
  <2>2. used \subseteq used' /\ msgs' \in Int /\ msgs <= msgs'
    BY <1>3, <1>4
  <2>3. \A j \in Conns \ {k} : Calm(j)
    BY <1>2 DEF Calm
  <2>4. \A s \in Sids : sess'[s] = sess[s]
    BY <1>3
  <2>5. \A j \in Conns \ {k} :
          /\ request'[j] = request[j] /\ found'[j] = found[j] /\ reply'[j] = reply[j]
          /\ dialect'[j] = dialect[j] /\ session'[j] = session[j]
          /\ preauthHash'[j] = preauthHash[j]
    BY <1>3, <1>6, <1>9
  <2> QED
    BY <2>1, <2>2, <2>3, <2>4, <2>5, Zenon DEF Apart
<1>12. \A j \in Conns \ {k} : PerConn(j)'
  BY <1>11, ApartKeeps DEF Inv, LoopInv
<1>13. m.prev \in {peer[j].steady : j \in Conns \ {k}} \cup {Nil}
         => m.prev \in used \cup {Nil}
  <2>1. ASSUME NEW j \in Conns, peer[j].steady # Nil
        PROVE  peer[j].steady \in used
    <3>1. peer[j].steady \in Sids
      BY <2>1 DEF Inv, WorkTypes, Peer
    <3> QED
      BY <2>1, <3>1 DEF Inv, ClaimInv, Claims
  <2> QED
    BY <2>1
<1>14. p.challenge # NoChallenge =>
         p.sid \in used /\ sess[p.sid].Authenticator = p.challenge /\ p.setups > 0
  BY <1>4 DEF PerConn, ChallengeInv
<1>15. /\ p.dialect = 0 => p.key = NoKey /\ p.challenge = NoChallenge /\ p.setups = 0
       /\ p.negs = 0 => p.dialect = 0
  BY <1>4 DEF PerConn, DialectInv
<1> HIDE DEF p, q, hash, valid
<1>16. RequestInv(k)'
  <2>1. m.cmd = "SESSION_SETUP" => m.sid \in used \cup {Nil} /\ m.prev \in used \cup {Nil}
    BY <1>7, <1>13, <1>14
  <2>2. m.n \in 1 .. msgs'
    BY <1>3, <1>4, <1>7
  <2> QED
    BY <1>3, <1>5, <1>6, <1>7, <1>8, <2>1, <2>2 DEF RequestInv, q
<1>17. FoundInv(k)' /\ ReplyInv(k)' /\ KeyInv(k)' /\ ReplySigned(k)'
  BY <1>2, <1>3, <1>10 DEF FoundInv, ReplyInv, KeyInv, ReplySigned, NotFound
<1>18. ChallengeInv(k)'
  <2>1. q.challenge # NoChallenge
          => q.sid \in used /\ sess[q.sid].Authenticator = q.challenge /\ q.setups > 0
    BY <1>8, <1>14
  <2>2. ASSUME m.cmd = "SESSION_SETUP", m.blob.type = "authenticate"
        PROVE  /\ m.prev = Nil /\ m.sid # Nil /\ q.setups > 1
               /\ sess[m.sid].Authenticator
                    = [challenge |-> m.blob.answers, keyExch |-> m.blob.exports]
    <3>1. /\ p.challenge # NoChallenge /\ m.blob.answers = p.challenge.challenge
          /\ m.blob.exports = p.challenge.keyExch /\ m.sid = p.sid /\ m.prev = Nil
      BY <1>7, <2>2
    <3>2. p.challenge = [challenge |-> p.challenge.challenge,
                         keyExch |-> p.challenge.keyExch]
      BY <1>5 DEF Authenticators
    <3> QED
      BY <1>5, <1>8, <1>14, <2>2, <3>1, <3>2
  <2> QED
    BY <1>3, <1>6, <1>10, <2>1, <2>2 DEF ChallengeInv, Doing, q, NotFound
<1>19. DialectInv(k)'
  <2>1. /\ q.dialect = 0 => q.key = NoKey /\ q.challenge = NoChallenge /\ q.setups = 0
        /\ q.negs = 0 => q.dialect = 0
    BY <1>5, <1>7, <1>8, <1>15
  <2> QED
    BY <1>3, <1>8, <1>10, <2>1 DEF DialectInv, q
<1>20. TranscriptInv(k)'
  <2>1. /\ p.negs = 0 => hash = << >>
        /\ p.setups = 0 => session[k] = Nil
        /\ (p.negs = 1 /\ p.dialect >= SMB3_1_1) =>
             /\ p.setups = 0 => hash = p.neg
             /\ p.setups = 1 /\ p.challenge # NoChallenge
                  => hash = p.tr /\ session[k] = Nil
    BY <1>4, <1>10 DEF PerConn, TranscriptInv, Doing, p, hash
  <2>2. CASE m.cmd \in {"LOGOFF", "ECHO", "CANCEL"}
    <3>1. preauthHash'[k] = hash
      BY <1>9, <2>2 DEF HashesRequest
    <3> QED
      BY <1>3, <1>6, <1>8, <2>1, <2>2, <3>1 DEF TranscriptInv, Doing, q
  <2>3. CASE m.cmd = "NEGOTIATE"
    <3>1. q.negs > 0 /\ (q.negs = 1 => p.negs = 0)
      BY <1>5, <1>8, <2>3
    <3>2. q.negs = 1 => q.dialect = 0 /\ ~(q.dialect >= SMB3_1_1)
      BY <1>8, <1>15, <3>1 DEF SMB3_1_1
    <3>3. q.negs = 1 /\ ~m.smb1 => preauthHash'[k] = <<Req(m.n)>>
      <4>1. ~m.smb1 => preauthHash'[k] = Append(hash, Req(m.n))
        BY <1>7, <1>9, <2>3 DEF HashesRequest
      <4>2. \A b : Append(<< >>, b) = <<b>>
        OBVIOUS
      <4> QED
        BY <2>1, <3>1, <4>1, <4>2
    <3>4. q.setups = 0 => session'[k] = Nil
      BY <1>3, <1>8, <2>1, <2>3
    <3> QED
      BY <1>6, <2>3, <3>1, <3>2, <3>3, <3>4 DEF TranscriptInv, Doing, q
  <2>4. CASE m.cmd = "SESSION_SETUP"
    <3>1. p.dialect # 0 /\ q.setups > 0 /\ q.negs # 0
      BY <1>5, <1>7, <1>8, <1>15, <2>4
    <3>2. ASSUME q.negs = 1, q.dialect >= SMB3_1_1, session[k] = Nil
          PROVE  preauthHash'[k] = Append(hash, Req(m.n))
      BY <1>7, <1>8, <1>9, <1>10, <2>4, <3>2 DEF HashesRequest, valid
    <3>3. ASSUME NEW h \in Seq(Bytes) PROVE Append(h, Req(m.n)) = h \o <<Req(m.n)>>
      OBVIOUS
    <3>4. ASSUME q.negs = 1, q.dialect >= SMB3_1_1, q.setups = 1
          PROVE  session[k] = Nil /\ preauthHash'[k] = q.tr \o <<Req(m.n)>>
      <4>1. p.setups = 0 /\ p.negs = 1 /\ p.dialect >= SMB3_1_1
        BY <1>5, <1>8, <2>4, <3>4
      <4>2. m.sid = Nil
        BY <1>5, <1>7, <1>14, <2>4, <4>1
      <4>3. session[k] = Nil /\ hash = q.tr
        BY <1>8, <2>1, <2>4, <4>1, <4>2
      <4> QED
        BY <1>5, <3>2, <3>3, <3>4, <4>3, ZenonT(30)
    <3>5. ASSUME q.negs = 1, q.dialect >= SMB3_1_1, q.setups = 2,
                 m.blob.type = "authenticate"
          PROVE  preauthHash'[k] = q.tr \o <<Req(m.n)>>
      <4>1. p.setups = 1 /\ p.negs = 1 /\ p.dialect >= SMB3_1_1
        BY <1>5, <1>8, <2>4, <3>5
      <4>2. p.challenge # NoChallenge /\ m.sid = p.sid /\ m.sid # Nil
        BY <1>5, <1>7, <1>14, <2>4, <3>5
      <4>3. session[k] = Nil /\ hash = q.tr
        BY <1>8, <2>1, <2>4, <4>1, <4>2
      <4> QED
        BY <1>5, <3>2, <3>3, <3>5, <4>3, ZenonT(30)
    <3> QED
      BY <1>2, <1>3, <1>6, <2>4, <3>1, <3>4, <3>5 DEF TranscriptInv, Doing, Busy, q
  <2> QED
    BY <1>7, <2>2, <2>3, <2>4
<1>21. SteadyInv(k)'
  BY <1>3, <1>4, <1>8 DEF PerConn, SteadyInv, p, q
<1>22. HashInv(k)'
  <2>1. Len(hash) \in Nat /\ Len(hash) <= 2 * msgs
    BY <1>4, <1>5, <1>10 DEF PerConn, HashInv, hash
  <2>2. \A b : Len(Append(hash, b)) = Len(hash) + 1
    BY <1>5
  <2>3. Len(preauthHash'[k]) \in {Len(hash), Len(hash) + 1}
    BY <1>9, <2>2
  <2>4. Len(preauthHash'[k]) <= 2 * msgs + 1 /\ Len(preauthHash'[k]) \in Int
    BY <1>4, <2>1, <2>3
  <2>5. msgs' \in Int /\ 2 * msgs + 1 = 2 * msgs' - 1
    BY <1>3, <1>4
  <2> QED
    BY <2>4, <2>5 DEF HashInv
<1>23. KeyAgreed(k)'
  <2>1. KeyAgreed(k)
    BY <1>4 DEF PerConn
  <2>2. CASE m.cmd = "SESSION_SETUP"
    BY <1>8, <2>2 DEF KeyAgreed, q
  <2>3. CASE m.cmd = "NEGOTIATE"
    <3>1. q.key # NoKey => q.negs # 1
      BY <1>5, <1>8, <1>15, <2>3
    <3> QED
      BY <1>8, <2>1, <2>3, <3>1 DEF KeyAgreed, p, q
  <2>4. CASE m.cmd \notin {"SESSION_SETUP", "NEGOTIATE"}
    BY <1>8, <2>1, <2>4 DEF KeyAgreed, p, q
  <2> QED
    BY <2>2, <2>3, <2>4
<1>24. PerConn(k)'
  BY <1>16, <1>17, <1>18, <1>19, <1>20, <1>21, <1>22, <1>23 DEF PerConn
<1>25. ClaimInv'
  <2>1. ASSUME NEW s \in Sids, Claims(k, s)', ~Claims(k, s)
        PROVE  m.cmd = "SESSION_SETUP" /\ m.prev = s /\ s # Nil
               /\ m.prev \in {peer[j].steady : j \in Conns \ {k}}
    <3>1. /\ s # Nil
          /\ \/ q.steady = s
             \/ q.challenge # NoChallenge /\ q.sid = s
             \/ m.cmd = "SESSION_SETUP" /\ (m.sid = s \/ m.prev = s)
      BY <1>2, <1>3, <1>6, <1>10, <2>1 DEF Claims, q, NotFound
    <3>2. p.steady # s /\ ~(p.challenge # NoChallenge /\ p.sid = s)
      BY <2>1, <3>1 DEF Claims, p
    <3> QED
      BY <1>7, <1>8, <3>1, <3>2
  <2>2. ASSUME NEW s \in Sids, Claims(k, s)', ~Claims(k, s),
               NEW i \in Conns \ {k}, Claims(i, s)'
        PROVE  FALSE
    <3>1. /\ m.cmd = "SESSION_SETUP" /\ m.prev = s /\ s # Nil
          /\ m.prev \in {peer[j].steady : j \in Conns \ {k}}
      BY <2>1, <2>2
    <3>2. PICK j \in Conns \ {k} : peer[j].steady = s
      BY <3>1
    <3>3. Claims(j, s)
      BY <3>1, <3>2 DEF Claims
    <3>4. Claims(i, s)
      BY <1>11, <2>2, ApartClaims DEF Inv
    <3>5. i = j
      BY <3>3, <3>4 DEF Inv, ClaimInv
    <3>6. peer'[j] = [peer[j] EXCEPT !.steady = Nil, !.gone = TRUE]
      BY <1>29, <3>1, <3>2, Zenon
    <3>7. peer[j] \in Peer /\ PerConn(j) /\ Apart(j)
      BY <1>11 DEF Inv, WorkTypes
    <3>8. peer'[j].steady = Nil /\ peer'[j].challenge = peer[j].challenge
      BY <3>6, <3>7 DEF Peer
    <3>9. peer[j].challenge = NoChallenge
      BY <3>1, <3>2, <3>7 DEF PerConn, SteadyInv
    <3>10. ~Doing(j, "SESSION_SETUP")
      BY <3>1, <3>2, <3>7 DEF PerConn, RequestInv, Doing
    <3>11. /\ found[j] = NotFound
           /\ ~(handler[j] = "handling" /\ request[j].cmd = "SESSION_SETUP")
           /\ ~(handler[j] = "writing" /\ reply[j].cmd = "SESSION_SETUP")
      BY <3>7, <3>10 DEF PerConn, FoundInv, ReplyInv, Doing, Busy
    <3>12. /\ found'[j] = NotFound /\ request'[j] = request[j] /\ reply'[j] = reply[j]
           /\ handler'[j] = handler[j]
      BY <1>2, <1>3, <1>6, <3>11
    <3> QED
      BY <2>2, <3>1, <3>5, <3>8, <3>9, <3>11, <3>12 DEF Claims, NotFound, NoChallenge
  <2>3. ASSUME NEW s \in Sids, Claims(k, s)'
        PROVE  /\ s \in used'
               /\ Claims(k, s) \/ \A j \in Conns \ {k} : ~Claims(j, s)'
    <3>1. CASE Claims(k, s)
      BY <1>3, <3>1 DEF Inv, ClaimInv
    <3>2. CASE ~Claims(k, s)
      BY <1>3, <1>13, <2>1, <2>2, <2>3, <3>2
    <3> QED
      BY <3>1, <3>2
  <2> QED
    BY <1>3, <1>11, <2>3, ClaimStep DEF Inv
<1>26. ConnTypes' /\ SessTypes' /\ WorkTypes'
  <2>1. ConnTypes'
    BY <1>3, <1>9 DEF Inv, ConnTypes
  <2>2. \A s \in Sids : sess[s].Authenticator.challenge <= msgs + 1
    <3>1. \A s \in Sids : sess[s].Authenticator.challenge \in Nat
      BY DEF Inv, SessTypes, Session, Authenticators
    <3> QED
      BY <1>4, <3>1 DEF Inv, SessTypes
  <2>3. SessTypes'
    BY <1>3, <2>2 DEF Inv, SessTypes
  <2>4. WorkTypes'
    BY <1>2, <1>3, <1>4, <1>6, <1>8 DEF Inv, WorkTypes
  <2> QED
    BY <2>1, <2>3, <2>4
<1>27. SetupInv'
  BY <1>3 DEF Inv, SetupInv, NotFound
<1>28. LoopInv'
  BY <1>2, LoopInvStep DEF Inv
<1> QED
  BY <1>12, <1>24, <1>25, <1>26, <1>27, <1>28 DEF Inv

-----------------------------------------------------------------------------
(* A response is written and hashed, and its client takes it in.             *)

(* What a response may bring the client: a dialect, a challenge, a session.  *)
BringsDialect(k) ==
  reply[k].cmd = "NEGOTIATE" /\ reply[k].status = "SUCCESS" /\ ~request[k].smb1
BringsChallenge(k) ==
  reply[k].cmd = "SESSION_SETUP" /\ reply[k].status = "MORE_PROCESSING"
BringsSession(k) ==
  /\ reply[k].cmd = "SESSION_SETUP" /\ reply[k].status = "SUCCESS"
  /\ request[k].blob.type = "authenticate" /\ request[k].blob.known

LEMMA ReceiverRecord ==
  ASSUME Inv, NEW k \in Conns, handler[k] = "writing", PeerReceives(k)
  PROVE  LET p == peer[k]  q == peer'[k]  r == reply[k]
             full == p.tr \o <<Req(r.n)>>
         IN
           /\ peer' \in [Conns -> Peer]
           /\ \A j \in Conns \ {k} : peer'[j] = peer[j]
           /\ q.negs = p.negs /\ q.setups = p.setups
           /\ BringsDialect(k) =>
                /\ q.neg = <<Req(r.n), Resp(r.n)>> /\ q.dialect = dialect[k]
                /\ q.key = NoKey /\ q.challenge = NoChallenge /\ q.tr = p.tr
                /\ q.steady = p.steady
           /\ BringsChallenge(k) =>
                /\ q.tr = full \o <<Resp(r.n)>> /\ q.sid = r.sid /\ q.challenge = r.body
                /\ q.neg = p.neg /\ q.dialect = p.dialect /\ q.key = p.key
                /\ q.steady = p.steady
           /\ BringsSession(k) =>
                /\ q.key = DeriveSigningKey(ClientBase(request[k].blob), p.dialect, full)
                /\ q.serverKey = r.key /\ q.sid = r.sid /\ q.steady = r.sid
                /\ q.neg = p.neg /\ q.tr = p.tr /\ q.dialect = p.dialect
                /\ q.challenge = p.challenge
           /\ ~BringsDialect(k) /\ ~BringsChallenge(k) /\ ~BringsSession(k) => q = p
<1> DEFINE r == reply[k]
           m == request[k]
           full == peer[k].tr \o <<Req(r.n)>>
<1>1. PICK p \in Peer : p = peer[k]
  BY DEF Inv, WorkTypes
<1>2. /\ peer \in [Conns -> Peer] /\ PerConn(k) /\ dialect[k] \in SupportedDialects \cup {0}
      /\ used \subseteq Sids /\ sess \in [Sids -> Session] /\ msgs \in Nat
  BY SetupAssumption DEF Inv, WorkTypes, ConnTypes, SessTypes, LoopInv, ServerTypes
<1>3. /\ r.cmd = m.cmd /\ r.n = m.n /\ m.n \in 1 .. msgs
      /\ BringsDialect(k) => r.body.dialect = dialect[k] /\ r.body.required \in BOOLEAN
      /\ BringsChallenge(k) => r.sid \in used /\ r.body = sess[r.sid].Authenticator
      /\ BringsSession(k) => r.sid \in used /\ r.key = sess[r.sid].SigningKey
      /\ r.cmd = "SESSION_SETUP" => Blob(m.blob)
  BY <1>2 DEF PerConn, ReplyInv, RequestInv, Busy, BringsDialect, BringsChallenge,
              BringsSession
<1>4. /\ Req(r.n) \in Bytes /\ Resp(r.n) \in Bytes
      /\ full \in Seq(Bytes) /\ full \o <<Resp(r.n)>> \in Seq(Bytes)
  <2>1. Req(r.n) \in Bytes /\ Resp(r.n) \in Bytes
    BY <1>2, <1>3 DEF Bytes
  <2>2. peer[k].tr \in Seq(Bytes)
    BY <1>1 DEF Peer
  <2> QED
    BY <2>1, <2>2
<1>5. NoKey \in Keys /\ NoChallenge \in Authenticators
  <2>1. << >> \in Bases /\ << >> \in Seq(Bytes) /\ 0 \in SupportedDialects \cup {0}
    BY DEF Bases
  <2>2. NoKey \in Keys
    BY <2>1, DerivedKeys, Zenon
  <2> QED
    BY <2>2 DEF NoChallenge, Authenticators
<1>6. /\ \A j \in Conns \ {k} : peer'[j] = peer[j]
      /\ peer'[k] \in Peer => peer' \in [Conns -> Peer]
  <2>1. PICK v : peer' = [peer EXCEPT ![k] = v]
    BY Zenon DEF PeerReceives
  <2> QED
    BY <1>2, <2>1
<1>7. CASE BringsDialect(k)
  <2>1. p.required \in BOOLEAN
    BY DEF Peer
  <2>2. PICK b \in BOOLEAN : b = (p.required \/ r.body.required)
    <3>1. \A x, y \in BOOLEAN : \E b \in BOOLEAN : b = (x \/ y)
      OBVIOUS
    <3>2. PICK y \in BOOLEAN : y = r.body.required
      BY <1>3, <1>7
    <3>3. PICK x \in BOOLEAN : x = p.required
      BY <2>1
    <3>4. PICK b \in BOOLEAN : b = (x \/ y)
      BY <3>1
    <3> QED
      BY <3>2, <3>3, <3>4, Zenon
  <2>3. PICK neg \in Seq(Bytes) : neg = <<Req(r.n), Resp(r.n)>>
    <3>1. \A x, y \in Bytes : <<x, y>> \in Seq(Bytes)
      OBVIOUS
    <3> QED
      BY <1>4, <3>1, Zenon
  <2>4. [p EXCEPT !.neg = neg, !.dialect = dialect[k], !.required = b, !.key = NoKey,
                  !.challenge = NoChallenge] \in Peer
    BY <1>2, <1>5, Zenon DEF Peer
  <2>5. PICK q \in Peer : q = [p EXCEPT !.neg = neg, !.dialect = dialect[k], !.required = b,
                                        !.key = NoKey, !.challenge = NoChallenge]
    BY <2>4
  <2>6. /\ q.negs = p.negs /\ q.setups = p.setups /\ q.neg = neg /\ q.dialect = dialect[k]
        /\ q.key = NoKey /\ q.challenge = NoChallenge /\ q.tr = p.tr /\ q.steady = p.steady
    BY <2>5 DEF Peer
  <2>7. peer'[k] = [p EXCEPT !.neg = neg, !.dialect = dialect[k],
                             !.required = p.required \/ r.body.required,
                             !.key = NoKey, !.challenge = NoChallenge]
    <3>1. peer'[k] = [peer[k] EXCEPT !.neg = <<Req(r.n), Resp(r.n)>>,
                                     !.dialect = r.body.dialect,
                                     !.required = @ \/ r.body.required,
                                     !.key = NoKey, !.challenge = NoChallenge]
      BY <1>2, <1>7 DEF PeerReceives, BringsDialect
    <3> QED
      BY <1>1, <1>3, <1>7, <2>3, <3>1, Zenon DEF Peer
  <2>8. peer'[k] = q
    BY <2>2, <2>5, <2>7
  <2>9. ~BringsChallenge(k) /\ ~BringsSession(k)
    BY <1>7 DEF BringsDialect, BringsChallenge, BringsSession
  <2> QED
    BY <1>1, <1>2, <1>6, <1>7, <2>3, <2>6, <2>8, <2>9
<1>8. CASE BringsChallenge(k)
  <2>1. r.sid \in Sids /\ r.body \in Authenticators
    BY <1>2, <1>3, <1>8 DEF Session
  <2>2. PICK tr \in Seq(Bytes) : tr = full \o <<Resp(r.n)>>
    BY <1>4, Zenon
  <2>3. [p EXCEPT !.tr = tr, !.sid = r.sid, !.challenge = r.body] \in Peer
    BY <2>1, Zenon DEF Peer
  <2>4. PICK q \in Peer : q = [p EXCEPT !.tr = tr, !.sid = r.sid, !.challenge = r.body]
    BY <2>3
  <2>5. /\ q.negs = p.negs /\ q.setups = p.setups /\ q.tr = tr /\ q.sid = r.sid
        /\ q.challenge = r.body /\ q.neg = p.neg /\ q.dialect = p.dialect
        /\ q.key = p.key /\ q.steady = p.steady
    BY <2>4 DEF Peer
  <2>6. peer'[k] = q
    BY <1>1, <1>2, <1>8, <2>2, <2>4 DEF PeerReceives, BringsChallenge
  <2>7. ~BringsDialect(k) /\ ~BringsSession(k)
    BY <1>8 DEF BringsDialect, BringsChallenge, BringsSession
  <2> QED
    BY <1>1, <1>2, <1>6, <1>8, <2>2, <2>5, <2>6, <2>7
<1>9. CASE BringsSession(k)
  <2>1. r.sid \in Sids /\ r.key \in Keys
    BY <1>2, <1>3, <1>9 DEF Session
  <2>2. ClientBase(m.blob) \in Bases
    BY <1>3, <1>9 DEF BringsSession, ClientBase, Bases, Blob
  <2>3. p.dialect \in SupportedDialects \cup {0}
    BY DEF Peer
  <2>4. PICK key \in Keys : key = DeriveSigningKey(ClientBase(m.blob), p.dialect, full)
    BY <1>4, <2>2, <2>3, DerivedKeys, Zenon
  <2>5. [p EXCEPT !.key = key, !.serverKey = r.key, !.sid = r.sid, !.steady = r.sid] \in Peer
    BY <2>1, Zenon DEF Peer
  <2>6. PICK q \in Peer : q = [p EXCEPT !.key = key, !.serverKey = r.key, !.sid = r.sid,
                                        !.steady = r.sid]
    BY <2>5
  <2>7. /\ q.negs = p.negs /\ q.setups = p.setups /\ q.key = key /\ q.serverKey = r.key
        /\ q.sid = r.sid /\ q.steady = r.sid /\ q.neg = p.neg /\ q.tr = p.tr
        /\ q.dialect = p.dialect /\ q.challenge = p.challenge
    BY <2>6 DEF Peer
  <2>8. peer'[k] = q
    BY <1>1, <1>2, <1>9, <2>4, <2>6 DEF PeerReceives, BringsSession, ClientBase
  <2>9. ~BringsDialect(k) /\ ~BringsChallenge(k)
    BY <1>9 DEF BringsDialect, BringsChallenge, BringsSession
  <2> QED
    BY <1>1, <1>2, <1>6, <1>9, <2>4, <2>7, <2>8, <2>9
<1>10. CASE ~BringsDialect(k) /\ ~BringsChallenge(k) /\ ~BringsSession(k)
  <2>1. peer'[k] = p
    BY <1>1, <1>2, <1>10 DEF PeerReceives, BringsDialect, BringsChallenge, BringsSession
  <2> QED
    BY <1>1, <1>2, <1>6, <1>10, <2>1
<1> QED
  BY <1>7, <1>8, <1>9, <1>10

LEMMA WriteStep ==
  ASSUME Inv, NEW k \in Conns, WriteMessage(k)
  PROVE  Inv'
<1> DEFINE p == peer[k]
           q == peer'[k]
           r == reply[k]
           m == request[k]
           hash == preauthHash[k]
           full == p.tr \o <<Req(r.n)>>
           hashes == HashesResponse(dialect[k], r.cmd, r.status)
<1>1. /\ handler[k] = "writing" /\ handler'[k] = "loop" /\ options' = options
      /\ \A j \in Conns \ {k} : handler'[j] = handler[j]
      /\ ServerNext
  BY Zenon DEF WriteMessage, Written, Goto, ServerNext, Inv, LoopInv, ServerTypes
<1>2. UNCHANGED <<dialect, signingRequired, session, sessions, used, sess, found, msgs,
                  expiries>>
  BY DEF WriteMessage, sessVars, boundVars
<1>3. PerConn(k) /\ msgs \in Nat
  BY SetupAssumption DEF Inv, WorkTypes, LoopInv, ServerTypes
<1>4. /\ p \in Peer /\ p.negs \in Nat /\ p.setups \in Nat
      /\ p.tr \in Seq(Bytes) /\ p.dialect \in SupportedDialects \cup {0}
      /\ hash \in Seq(Bytes) /\ used \subseteq Sids /\ Nil \notin used
  <2>1. p \in Peer
    BY DEF Inv, WorkTypes
  <2>2. /\ p.negs \in Nat /\ p.setups \in Nat /\ p.tr \in Seq(Bytes)
        /\ p.dialect \in SupportedDialects \cup {0}
    BY <2>1 DEF Peer
  <2>3. hash \in Seq(Bytes) /\ used \subseteq Sids /\ Nil \notin used
    BY SetupAssumption, Zenon DEF Inv, ConnTypes, SessTypes
  <2> QED
    BY <2>1, <2>2, <2>3
<1>5. /\ request'[k] = NoRequest /\ DOMAIN request' = Conns
      /\ reply'[k] = NoReply /\ DOMAIN reply' = Conns
      /\ \A j \in Conns \ {k} : request'[j] = request[j] /\ reply'[j] = reply[j]
  BY DEF WriteMessage, Inv, WorkTypes
<1>6. /\ peer' \in [Conns -> Peer]
      /\ \A j \in Conns \ {k} : peer'[j] = peer[j]
      /\ q.negs = p.negs /\ q.setups = p.setups
      /\ BringsDialect(k) =>
           /\ q.neg = <<Req(r.n), Resp(r.n)>> /\ q.dialect = dialect[k]
           /\ q.key = NoKey /\ q.challenge = NoChallenge /\ q.tr = p.tr
           /\ q.steady = p.steady
      /\ BringsChallenge(k) =>
           /\ q.tr = full \o <<Resp(r.n)>> /\ q.sid = r.sid /\ q.challenge = r.body
           /\ q.neg = p.neg /\ q.dialect = p.dialect /\ q.key = p.key
           /\ q.steady = p.steady
      /\ BringsSession(k) =>
           /\ q.key = DeriveSigningKey(ClientBase(m.blob), p.dialect, full)
           /\ q.serverKey = r.key /\ q.sid = r.sid /\ q.steady = r.sid
           /\ q.neg = p.neg /\ q.tr = p.tr /\ q.dialect = p.dialect
           /\ q.challenge = p.challenge
      /\ ~BringsDialect(k) /\ ~BringsChallenge(k) /\ ~BringsSession(k) => q = p
  BY <1>1, ReceiverRecord DEF WriteMessage
<1>27. Req(r.n) \in Bytes /\ Resp(r.n) \in Bytes
  <2>1. r.n \in Nat
    BY <1>1, <1>3 DEF PerConn, ReplyInv, RequestInv, Busy
  <2> QED
    BY <2>1 DEF Bytes
<1>7. /\ preauthHash' \in [Conns -> Seq(Bytes)]
      /\ preauthHash'[k] = IF hashes THEN Append(hash, Resp(r.n)) ELSE hash
      /\ \A j \in Conns \ {k} : preauthHash'[j] = preauthHash[j]
  <2>2. PICK b \in Bytes : b = Resp(r.n)
    BY <1>27
  <2>3. preauthHash \in [Conns -> Seq(Bytes)]
    BY DEF Inv, ConnTypes
  <2>4. preauthHash' = IF hashes THEN [preauthHash EXCEPT ![k] = Append(hash, b)]
                       ELSE preauthHash
    BY <2>2 DEF WriteMessage, UpdatePreauthHash
  <2>5. Append(hash, b) \in Seq(Bytes)
    BY <1>4
  <2> QED
    BY <2>2, <2>3, <2>4, <2>5
<1>8. \A j \in Conns \ {k} : Apart(j)
  <2>1. \A s \in Sids : sess'[s] = sess[s]
    BY <1>2
  <2>2. \A j \in Conns \ {k} : Calm(j)
    BY <1>1 DEF Calm
  <2>3. used \subseteq used' /\ msgs' \in Int /\ msgs <= msgs'
    BY <1>2, <1>3
  <2>4. \A j \in Conns \ {k} :
          /\ request'[j] = request[j] /\ found'[j] = found[j] /\ reply'[j] = reply[j]
          /\ dialect'[j] = dialect[j] /\ session'[j] = session[j]
          /\ preauthHash'[j] = preauthHash[j]
          /\ peer'[j] = peer[j]
    BY <1>2, <1>5, <1>6, <1>7
  <2> QED
    BY <2>1, <2>2, <2>3, <2>4, Zenon DEF Apart
<1>9. \A j \in Conns \ {k} : PerConn(j)'
  BY <1>8, ApartKeeps DEF Inv, LoopInv
<1>10. /\ r.cmd = m.cmd /\ r.n = m.n
       /\ m.cmd \in {"NEGOTIATE", "SESSION_SETUP", "LOGOFF", "ECHO"}
       /\ m.cmd = "NEGOTIATE" => p.negs > 0 /\ p.steady = Nil
       /\ m.cmd = "SESSION_SETUP" => /\ p.steady = Nil /\ p.challenge = NoChallenge
                                     /\ p.key = NoKey /\ p.setups > 0 /\ Blob(m.blob)
       /\ BringsDialect(k) => dialect[k] # 0
       /\ BringsChallenge(k) => r.sid \in used /\ r.body = sess[r.sid].Authenticator
       /\ BringsSession(k)
            => r.sid \in used /\ session[k] = r.sid /\ r.key = sess[r.sid].SigningKey
       /\ found[k] = NotFound
  BY <1>1, <1>3 DEF PerConn, RequestInv, ReplyInv, FoundInv, Busy, BringsDialect,
                    BringsChallenge, BringsSession
<1>11. /\ BringsDialect(k) => m.cmd = "NEGOTIATE" /\ ~BringsChallenge(k) /\ ~BringsSession(k)
       /\ BringsChallenge(k) => m.cmd = "SESSION_SETUP" /\ ~BringsSession(k)
       /\ BringsSession(k) => m.cmd = "SESSION_SETUP"
  BY <1>10 DEF BringsDialect, BringsChallenge, BringsSession
<1>12. /\ p.dialect = 0 => p.key = NoKey /\ p.challenge = NoChallenge /\ p.setups = 0
       /\ p.negs = 0 => p.dialect = 0
       /\ ~BringsDialect(k) => p.dialect = dialect[k]
  BY <1>1, <1>3 DEF PerConn, DialectInv, Serving, Busy, BringsDialect
<1>13. /\ BringsSession(k) => r.key # NoKey
       /\ BringsSession(k) /\ r.key.base # CompatKey
            => r.key = DeriveSigningKey(ClientBase(m.blob), dialect[k], hash)
  BY <1>1, <1>3 DEF PerConn, KeyInv, BringsSession
<1>14. SteadyInv(k) /\ ChallengeInv(k) /\ KeyAgreed(k)
  BY <1>3 DEF PerConn
<1> HIDE DEF p, q, r, m, hash, full, hashes
<1>15. RequestInv(k)' /\ FoundInv(k)' /\ ReplyInv(k)' /\ KeyInv(k)' /\ ReplySigned(k)'
  BY <1>1, <1>2, <1>10 DEF RequestInv, FoundInv, ReplyInv, KeyInv, ReplySigned, Busy, NotFound
<1>16. ChallengeInv(k)'
  <2>1. q.challenge # NoChallenge
          => q.sid \in used /\ sess[q.sid].Authenticator = q.challenge /\ q.setups > 0
    <3>1. p.challenge # NoChallenge
            => p.sid \in used /\ sess[p.sid].Authenticator = p.challenge /\ p.setups > 0
      BY <1>14 DEF ChallengeInv, p
    <3> QED
      BY <1>6, <1>10, <1>11, <3>1
  <2> QED
    BY <1>1, <1>2, <1>10, <2>1 DEF ChallengeInv, Doing, Busy, q, NotFound
<1>17. DialectInv(k)'
  <2>1. /\ q.dialect = 0 => q.key = NoKey /\ q.challenge = NoChallenge /\ q.setups = 0
        /\ q.negs = 0 => q.dialect = 0
        /\ q.dialect = dialect[k]
    BY <1>4, <1>6, <1>10, <1>11, <1>12
  <2> QED
    BY <1>2, <2>1 DEF DialectInv, q
<1>18. TranscriptInv(k)'
  <2>1. /\ p.negs = 0 => hash = << >>
        /\ p.setups = 0 => session[k] = Nil
        /\ (p.negs = 1 /\ p.dialect >= SMB3_1_1 /\ m.cmd # "SESSION_SETUP") =>
             /\ p.setups = 0 => hash = p.neg
             /\ p.setups = 1 /\ p.challenge # NoChallenge
                  => hash = p.tr /\ session[k] = Nil
        /\ m.cmd = "NEGOTIATE" /\ p.negs = 1
             => p.dialect = 0 /\ (~m.smb1 => hash = <<Req(m.n)>>)
        /\ (p.negs = 1 /\ p.dialect >= SMB3_1_1 /\ m.cmd = "SESSION_SETUP") =>
             /\ p.setups = 1 => hash = p.tr \o <<Req(m.n)>>
             /\ p.setups = 1 /\ r.status = "MORE_PROCESSING" => session[k] = Nil
    BY <1>1, <1>3 DEF PerConn, TranscriptInv, Doing, Serving, Busy, p, r, m, hash
  <2>2. /\ p.dialect \in Int /\ ~(0 >= SMB3_1_1)
        /\ \A x, y \in Bytes : Append(<<x>>, y) = <<x, y>>
        /\ \A s \in Seq(Bytes), y \in Bytes : Append(s, y) = s \o <<y>>
    <3>1. p.dialect \in Int /\ ~(0 >= SMB3_1_1)
      BY <1>4 DEF SupportedDialects, SMB2_0_2, SMB2_1, SMB3_0, SMB3_0_2, SMB3_1_1
    <3>2. ASSUME NEW x \in Bytes, NEW y \in Bytes
          PROVE  Append(<<x>>, y) = <<x, y>>
      <4>9. <<x>> \in Seq(Bytes)
        OBVIOUS
      <4>7. PICK w \in Seq(Bytes) : w = <<x>>
        BY <4>9, Zenon
      <4>10. Append(w, y) \in Seq(Bytes)
        OBVIOUS
      <4>1. PICK s \in Seq(Bytes) : s = Append(w, y)
        BY <4>10, Zenon
      <4>2. Len(s) = 2 /\ s[1] = x /\ s[2] = y
        BY <4>1, <4>7
      <4>8. <<x, y>> \in Seq(Bytes)
        OBVIOUS
      <4>3. PICK t \in Seq(Bytes) : t = <<x, y>>
        BY <4>8, Zenon
      <4>4. Len(t) = 2 /\ t[1] = x /\ t[2] = y
        BY <4>3
      <4>5. \A i \in 1 .. Len(s) : s[i] = t[i]
        BY <4>2, <4>4
      <4>6. s = t
        BY <4>2, <4>4, <4>5
      <4> QED
        BY <4>1, <4>3, <4>6, <4>7, Zenon
    <3>3. \A s \in Seq(Bytes), y \in Bytes : Append(s, y) = s \o <<y>>
      OBVIOUS
    <3> QED
      BY <3>1, <3>2, <3>3
  <2>3. q.negs = 0 => preauthHash'[k] = << >>
    <3>1. p.negs = 0 => ~hashes
      BY <1>4, <1>10, <1>11, <1>12, <2>2 DEF hashes, HashesResponse
    <3> QED
      BY <1>6, <1>7, <2>1, <3>1
  <2>4. ASSUME q.negs = 1, q.dialect >= SMB3_1_1, q.setups = 0
        PROVE  preauthHash'[k] = q.neg
    <3>1. m.cmd # "SESSION_SETUP"
      BY <1>4, <1>6, <1>10, <2>4
    <3>2. CASE m.cmd = "NEGOTIATE"
      <4>1. BringsDialect(k)
        BY <1>6, <1>11, <2>1, <2>2, <2>4, <3>2
      <4>2. hash = <<Req(m.n)>> /\ hashes
        BY <1>6, <1>10, <2>1, <2>4, <3>2, <4>1
           DEF BringsDialect, hashes, HashesResponse, m, r
      <4> QED
        BY <1>6, <1>7, <1>10, <1>27, <2>2, <4>1, <4>2
    <3>3. CASE m.cmd # "NEGOTIATE"
      BY <1>6, <1>7, <1>10, <1>11, <2>1, <2>4, <3>1, <3>3 DEF hashes, HashesResponse
    <3> QED
      BY <3>2, <3>3
  <2>5. ASSUME q.negs = 1, q.dialect >= SMB3_1_1, q.setups = 1, q.challenge # NoChallenge
        PROVE  preauthHash'[k] = q.tr /\ session[k] = Nil
    <3>1. CASE BringsChallenge(k)
      <4>1. p.negs = 1 /\ p.dialect >= SMB3_1_1 /\ m.cmd = "SESSION_SETUP" /\ p.setups = 1
            /\ dialect[k] >= SMB3_1_1
        BY <1>6, <1>11, <1>12, <2>5, <3>1
      <4>2. r.cmd = "SESSION_SETUP" /\ r.status = "MORE_PROCESSING"
        BY <3>1 DEF BringsChallenge, r
      <4>3. hashes
        BY <4>1, <4>2 DEF hashes, HashesResponse
      <4>4. hash = full /\ session[k] = Nil
        BY <1>10, <2>1, <4>1, <4>2 DEF full
      <4>5. Append(hash, Resp(r.n)) = hash \o <<Resp(r.n)>>
        BY <1>4, <1>27, <2>2
      <4> QED
        BY <1>6, <1>7, <3>1, <4>3, <4>4, <4>5
    <3>2. CASE ~BringsChallenge(k)
      <4>1. ~BringsDialect(k) /\ m.cmd # "SESSION_SETUP" /\ q = p
        BY <1>6, <1>10, <1>11, <2>5, <3>2
      <4>2. m.cmd # "NEGOTIATE"
        BY <2>1, <2>2, <2>5, <4>1
      <4>3. ~hashes
        BY <1>10, <4>1, <4>2 DEF hashes, HashesResponse
      <4> QED
        BY <1>7, <2>1, <2>5, <4>1, <4>3
    <3> QED
      BY <3>1, <3>2
  <2> QED
    BY <1>1, <1>2, <1>6, <2>1, <2>3, <2>4, <2>5 DEF TranscriptInv, Doing, Busy, q
<1>19. SteadyInv(k)'
  <2>1. q.steady # Nil =>
          /\ q.challenge = NoChallenge /\ session[k] = q.steady
          /\ q.serverKey # NoKey /\ sess[q.steady].SigningKey = q.serverKey
    <3>1. p.steady # Nil =>
            /\ p.challenge = NoChallenge /\ session[k] = p.steady
            /\ p.serverKey # NoKey /\ sess[p.steady].SigningKey = p.serverKey
      BY <1>14 DEF SteadyInv, p
    <3> QED
      BY <1>6, <1>10, <1>11, <1>13, <3>1
  <2> QED
    BY <1>2, <2>1 DEF SteadyInv, q
<1>20. HashInv(k)'
  <2>1. Len(hash) \in Nat /\ Len(hash) <= 2 * msgs - 1
    BY <1>1, <1>3, <1>4 DEF PerConn, HashInv, Busy, hash
  <2>2. \A b : Len(Append(hash, b)) = Len(hash) + 1
    BY <1>4
  <2>3. Len(preauthHash'[k]) \in {Len(hash), Len(hash) + 1}
    BY <1>7, <2>2
  <2>4. Len(preauthHash'[k]) <= 2 * msgs
    BY <1>3, <2>1, <2>3
  <2>5. 2 * msgs - 0 = 2 * msgs
    BY <1>3
  <2> QED
    BY <1>1, <1>2, <2>4, <2>5 DEF HashInv, Busy
<1>21. KeyAgreed(k)'
  <2>1. CASE BringsSession(k)
    <3>1. p.dialect = dialect[k] /\ m.cmd = "SESSION_SETUP" /\ p.dialect \in Int
      BY <1>4, <1>11, <1>12, <2>1
         DEF SupportedDialects, SMB2_0_2, SMB2_1, SMB3_0, SMB3_0_2, SMB3_1_1
    <3>2. ClientBase(m.blob) \in Bases /\ m.blob.type = "authenticate"
      BY <1>10, <2>1, <3>1 DEF BringsSession, ClientBase, Bases, Blob, m
    <3>3. (p.negs = 1 /\ p.dialect >= SMB3_1_1 /\ p.setups = 2) => hash = full
      BY <1>1, <1>3, <1>10, <3>1, <3>2, ZenonT(30)
         DEF PerConn, TranscriptInv, Doing, Serving, Busy, p, m, hash, full
    <3>4. p.dialect < SMB3_1_1
            => DeriveSigningKey(ClientBase(m.blob), p.dialect, full)
                 = DeriveSigningKey(ClientBase(m.blob), p.dialect, hash)
      BY <1>4, <3>2, DerivedKeys
    <3>5. p.dialect < SMB3_1_1 \/ p.dialect >= SMB3_1_1
      BY <3>1 DEF SMB3_1_1
    <3> QED
      BY <1>6, <1>13, <2>1, <3>1, <3>3, <3>4, <3>5 DEF KeyAgreed, q
  <2>2. CASE BringsDialect(k) \/ BringsChallenge(k)
    <3>1. q.key = NoKey
      BY <1>6, <1>10, <1>11, <2>2
    <3> QED
      BY <3>1 DEF KeyAgreed, q
  <2>3. CASE ~BringsDialect(k) /\ ~BringsChallenge(k) /\ ~BringsSession(k)
    BY <1>6, <1>14, <2>3 DEF KeyAgreed, p, q
  <2> QED
    BY <2>1, <2>2, <2>3
<1>22. PerConn(k)'
  BY <1>15, <1>16, <1>17, <1>18, <1>19, <1>20, <1>21 DEF PerConn
<1>23. ClaimInv'
  <2>1. ASSUME NEW s \in Sids, Claims(k, s)'
        PROVE  Claims(k, s)
    <3>1. s # Nil /\ (q.steady = s \/ (q.challenge # NoChallenge /\ q.sid = s))
      BY <1>1, <1>2, <1>10, <2>1 DEF Claims, q, NotFound
    <3>2. \/ p.steady = s
          \/ p.challenge # NoChallenge /\ p.sid = s
          \/ (BringsChallenge(k) \/ BringsSession(k)) /\ r.sid = s
      BY <1>6, <1>10, <1>11, <3>1
    <3> QED
      BY <1>1, <3>1, <3>2 DEF Claims, BringsChallenge, BringsSession, p, r
  <2> QED
    BY <1>2, <1>8, <2>1, ClaimStep DEF Inv, ClaimInv
<1>24. ConnTypes' /\ SessTypes' /\ WorkTypes'
  <2>1. ConnTypes'
    BY <1>2, <1>7 DEF Inv, ConnTypes
  <2>2. SessTypes'
    BY <1>2 DEF Inv, SessTypes
  <2>3. WorkTypes'
    BY <1>1, <1>2, <1>5, <1>6 DEF Inv, WorkTypes
  <2> QED
    BY <2>1, <2>2, <2>3
<1>25. SetupInv'
  BY <1>2 DEF Inv, SetupInv, NotFound
<1>26. LoopInv'
  BY <1>1, LoopInvStep DEF Inv
<1> QED
  BY <1>9, <1>22, <1>23, <1>24, <1>25, <1>26 DEF Inv

-----------------------------------------------------------------------------
LEMMA InvInit ==
  ASSUME Init
  PROVE  Inv
<1>1. LoopInv
  BY LoopInvInit DEF Init
<1>2. NoKey \in Keys /\ NoChallenge \in Authenticators /\ NewNTLMAuthenticator = NoChallenge
  <2>1. << >> \in Bases /\ << >> \in Seq(Bytes) /\ 0 \in SupportedDialects \cup {0}
    BY DEF Bases
  <2>2. NoKey \in Keys
    BY <2>1, DerivedKeys, Zenon
  <2> QED
    BY <2>2 DEF NoChallenge, Authenticators, NewNTLMAuthenticator
<1>3. ConnTypes
  <2>1. << >> \in Seq(Bytes)
    OBVIOUS
  <2> QED
    BY <2>1 DEF Init, ConnTypes
<1>4. [State |-> "InProgress", SigningKey |-> NoKey,
       Authenticator |-> NewNTLMAuthenticator] \in Session
  BY <1>2 DEF Session
<1>5. SessTypes
  <2>1. \A s \in Sids : sess[s] = [State |-> "InProgress", SigningKey |-> NoKey,
                                   Authenticator |-> NewNTLMAuthenticator]
    BY DEF Init
  <2>2. \A s \in Sids : sess[s].Authenticator = NewNTLMAuthenticator
    BY <2>1
  <2>3. NewNTLMAuthenticator.challenge = 0
    BY DEF NewNTLMAuthenticator
  <2>4. \A s \in Sids : sess[s].Authenticator.challenge <= msgs
    BY <2>2, <2>3 DEF Init
  <2>5. sess \in [Sids -> Session]
    BY <1>4 DEF Init
  <2> QED
    BY <2>2, <2>4, <2>5 DEF Init, SessTypes
<1>6. NewPeer \in Peer
  <2>1. << >> \in Seq(Bytes)
    OBVIOUS
  <2> QED
    BY <1>2, <2>1 DEF NewPeer, Peer
<1>7. WorkTypes
  <2>1. options.msgs \in Nat /\ options.expiries \in Nat
    BY <1>1, SetupAssumption DEF LoopInv, ServerTypes
  <2>2. NotFound \in [sid : used \cup {Nil}, new : BOOLEAN]
    BY DEF NotFound
  <2>3. found \in [Conns -> [sid : used \cup {Nil}, new : BOOLEAN]]
    BY <2>2 DEF Init
  <2>4. peer \in [Conns -> Peer]
    BY <1>6 DEF Init
  <2> QED
    BY <2>1, <2>3, <2>4 DEF Init, WorkTypes
<1>8. ASSUME NEW k \in Conns
      PROVE  /\ handler[k] = "none" /\ found[k] = NotFound /\ peer[k] = NewPeer
             /\ preauthHash[k] = << >> /\ session[k] = Nil /\ dialect[k] = 0 /\ msgs = 0
  BY DEF Init, ServerInit
<1>9. /\ NewPeer.dialect = 0 /\ NewPeer.key = NoKey /\ NewPeer.challenge = NoChallenge
      /\ NewPeer.setups = 0 /\ NewPeer.negs = 0 /\ NewPeer.steady = Nil
      /\ NewPeer.neg = << >>
  BY DEF NewPeer
<1>10. ASSUME NEW k \in Conns
       PROVE  PerConn(k)
  <2>1. ~Busy(k)
    BY <1>8 DEF Busy
  <2>2. RequestInv(k) /\ FoundInv(k) /\ ReplyInv(k) /\ KeyInv(k) /\ ReplySigned(k)
    BY <1>8, <2>1 DEF RequestInv, FoundInv, ReplyInv, KeyInv, ReplySigned
  <2>3. ChallengeInv(k) /\ DialectInv(k) /\ SteadyInv(k) /\ KeyAgreed(k)
    BY <1>8, <1>9, <2>1 DEF ChallengeInv, DialectInv, SteadyInv, KeyAgreed, Doing
  <2>4. TranscriptInv(k)
    BY <1>8, <1>9, <2>1 DEF TranscriptInv, Doing
  <2>5. HashInv(k)
    BY <1>8, <2>1 DEF HashInv
  <2> QED
    BY <2>2, <2>3, <2>4, <2>5 DEF PerConn
<1>11. ClaimInv
  <2>1. ASSUME NEW k \in Conns, NEW s \in Sids PROVE ~Claims(k, s)
    BY <1>8, <1>9 DEF Claims
  <2> QED
    BY <2>1 DEF ClaimInv
<1>12. SetupInv
  BY DEF Init, SetupInv
<1> QED
  BY <1>1, <1>3, <1>5, <1>7, <1>10, <1>11, <1>12 DEF Inv

LEMMA InvStep ==
  ASSUME Inv, [Next]_vars
  PROVE  Inv'
<1>1. CASE Lifecycle /\ UNCHANGED protocolVars
  BY <1>1, LifecycleStep
<1>2. ASSUME NEW k \in Conns, ReceiveMessage(k) \/ HandleMessage(k) \/ WriteMessage(k)
      PROVE  Inv'
  BY <1>2, ReceiveStep, NegotiateStep, LookupStep, AuthenticateStep, LogoffStep, EchoStep,
     CancelStep, WriteStep DEF HandleMessage
<1>3. CASE CleanupExpired
  BY <1>3, ExpiryStep
<1>4. CASE UNCHANGED vars
  <2>1. UNCHANGED serverVars /\ UNCHANGED protocolVars
    BY <1>4 DEF vars
  <2>2. LoopInv'
    BY <2>1, LoopInvStep DEF Inv
  <2>3. options' = options /\ handler' = handler
    BY <2>1 DEF serverVars
  <2>4. msgs \in Int
    BY DEF Inv, WorkTypes
  <2>5. \A k \in Conns : Apart(k)
    BY <2>1, <2>3, <2>4 DEF Apart, Calm, protocolVars, connVars, sessVars, workVars,
                            boundVars
  <2>6. (\A k \in Conns : PerConn(k)') /\ ClaimInv'
    BY <2>5, ApartStep
  <2>7. SetupInv'
    BY <2>1 DEF Inv, SetupInv, protocolVars, sessVars, workVars, NotFound
  <2> QED
    BY <2>1, <2>2, <2>3, <2>6, <2>7, UnchangedTypes DEF Inv
<1> QED
  BY <1>1, <1>2, <1>3, <1>4 DEF Next

(* Inv is an invariant of the server and its peers.                          *)
THEOREM InvHolds == Spec => []Inv
<1>1. Init => Inv
  BY InvInit
<1>2. Inv /\ [Next]_vars => Inv'
  BY InvStep
<1> QED
  BY <1>1, <1>2, PTL DEF Spec

(* Client and server agree on the signing key, for any number of             *)
(* connections that set up, share and give up sessions at once: see          *)
(* KeysAgree.                                                                *)
THEOREM KeysStayAgreed == Spec => []KeysAgree
<1>1. Inv => KeysAgree
  BY DEF Inv, PerConn, KeyAgreed, KeysAgree
<1> QED
  BY <1>1, InvHolds, PTL

(* Replies in an established session are signed with its key: see            *)
(* RepliesSigned.  What makes it true is that no other connection can set    *)
(* the session up anew while its client uses it (ClaimInv).                  *)
THEOREM RepliesStaySigned == Spec => []RepliesSigned
<1>1. Inv => RepliesSigned
  BY DEF Inv, PerConn, ReplySigned, RepliesSigned
<1> QED
  BY <1>1, InvHolds, PTL

(* No session is left behind by a failed set-up: see NoAbandonedSetup.       *)
THEOREM NoSetupAbandoned == Spec => []NoAbandonedSetup
<1>1. Inv => NoAbandonedSetup
  BY DEF Inv, SetupInv, NoAbandonedSetup
<1> QED
  BY <1>1, InvHolds, PTL

-----------------------------------------------------------------------------
(* Counting.                                                                 *)

(* Handlers that Spawn has counted in wg and that have not called Done.      *)
Running == {k \in Conns : handler[k] \notin {"none", "returned"}}

(* Handlers that are past their bookkeeping.                                 *)
Departed == {k \in Conns : handler[k] \in {"finishing", "returned"}}

(* The wait group counts the two loops and the running handlers.             *)
WaitInv ==
  wg = (IF acceptLoop = "returned" THEN 0 ELSE 1)
       + (IF cleanupLoop = "returned" THEN 0 ELSE 1) + Cardinality(Running)

ServerInv ==
  /\ LoopInv /\ WaitInv /\ CountExact
  /\ stop = "returned" => wg = 0

(* Counting connections.                                                     *)
LEMMA ConnsCounted ==
  ASSUME NEW A \in SUBSET Conns
  PROVE  /\ IsFiniteSet(A) /\ Cardinality(A) \in Nat
         /\ Cardinality(A) <= Cardinality(Conns)
         /\ Cardinality(A) = 0 <=> A = {}
         /\ \A k \in Conns \ A : Cardinality(A \cup {k}) = Cardinality(A) + 1
         /\ \A k \in A : Cardinality(A \ {k}) = Cardinality(A) - 1
<1>1. IsFiniteSet(A) /\ Cardinality(A) <= Cardinality(Conns)
  BY LifecycleAssumption, FS_Subset
<1>2. Cardinality(A) \in Nat
  BY <1>1, FS_CardinalityType
<1>3. Cardinality(A) = 0 <=> A = {}
  BY <1>1, FS_EmptySet
<1>4. ASSUME NEW k \in Conns \ A
      PROVE  Cardinality(A \cup {k}) = Cardinality(A) + 1
  BY <1>1, <1>4, FS_AddElement
<1>5. ASSUME NEW k \in A
      PROVE  Cardinality(A \ {k}) = Cardinality(A) - 1
  BY <1>1, <1>5, FS_RemoveElement
<1> QED
  BY <1>1, <1>2, <1>3, <1>4, <1>5

LEMMA WaitStep ==
  ASSUME ServerTypes, PendingInv, WaitInv, ServerNext
  PROVE  WaitInv'
<1>1. Running \in SUBSET Conns
  BY DEF Running
<1>2. Cardinality(Running) \in Nat
  BY <1>1, ConnsCounted
<1>3. CASE Spawn
  <2>1. pending \in Conns /\ handler[pending] = "none"
    BY <1>3 DEF Spawn, PendingInv
  <2>2. pending \in Conns \ Running
    BY <2>1 DEF Running
  <2>3. Running' = Running \cup {pending}
    BY <1>3, <2>1 DEF Spawn, Running, ServerTypes
  <2>4. Cardinality(Running') = Cardinality(Running) + 1
    BY <1>1, <2>2, <2>3, ConnsCounted
  <2> QED
    BY <1>2, <1>3, <2>4 DEF Spawn, WaitInv
<1>4. ASSUME NEW k \in Conns, Finish(k)
      PROVE  WaitInv'
  <2>1. k \in Running
    BY <1>4 DEF Finish, Goto, Running
  <2>2. Running' = Running \ {k}
    BY <1>4 DEF Finish, Goto, Running, ServerTypes
  <2>3. Cardinality(Running') = Cardinality(Running) - 1
    BY <1>1, <2>1, <2>2, ConnsCounted
  <2> QED
    BY <1>2, <1>4, <2>3 DEF Finish, Goto, WaitInv
<1>5. ASSUME NEW k \in Conns,
             Moves(k) \/ Register(k) \/ CloseConn(k) \/ Deregister(k)
      PROVE  WaitInv'
  <2>1. Running' = Running
    BY <1>5 DEF Moves, Inside, Register, CloseConn, Deregister, Goto, Running,
                ServerTypes
  <2> QED
    BY <1>5, <2>1 DEF Moves, Register, CloseConn, Deregister, Goto, WaitInv
<1>6. ASSUME UNCHANGED handler
      PROVE  Running' = Running
  BY <1>6 DEF Running
<1>7. CASE AcceptFails \/ CleanupReturns
  BY <1>2, <1>6, <1>7 DEF AcceptFails, CleanupReturns, WaitInv
<1>8. CASE CheckLimit \/ StopCancel \/ StopListener \/ StopConns \/ StopWait
  BY <1>6, <1>8 DEF CheckLimit, StopCancel, StopListener, StopConns, StopWait,
                    WaitInv
<1>9. ASSUME NEW k \in Conns, Connect(k) \/ Accept(k)
      PROVE  WaitInv'
  BY <1>6, <1>9 DEF Connect, Accept, WaitInv
<1> QED
  BY <1>3, <1>4, <1>5, <1>7, <1>8, <1>9, StepKinds

LEMMA CountStep ==
  ASSUME ServerTypes, PendingInv, CountExact, ServerNext
  PROVE  CountExact'
<1> DEFINE Limited == options.MaxConnections > 0
<1>1. /\ Counted \in SUBSET Conns /\ Departed \in SUBSET Conns
      /\ options.MaxConnections \in Int /\ connCount \in Int
  BY LifecycleAssumption DEF Counted, Departed, ServerTypes
<1>2. Cardinality(Counted) \in Nat /\ Cardinality(Departed) \in Nat
  BY <1>1, ConnsCounted
<1>3. CountExact <=> IF Limited
                       THEN /\ connCount = Cardinality(Counted)
                            /\ connCount <= options.MaxConnections
                       ELSE connCount = -Cardinality(Departed)
  BY DEF CountExact, Departed
<1>4. CountExact' <=> IF Limited'
                        THEN /\ connCount' = Cardinality(Counted')
                             /\ connCount' <= options'.MaxConnections
                        ELSE connCount' = -Cardinality(Departed')
  BY DEF CountExact, Departed
<1>5. ASSUME UNCHANGED <<options, connCount>>, Counted' = Counted,
             Departed' = Departed
      PROVE  CountExact'
  BY <1>3, <1>4, <1>5
<1>6. CASE CheckLimit
  <2>1. Departed' = Departed /\ options' = options
    BY <1>6 DEF CheckLimit, Departed
  <2>2. CASE LimitReached
    <3>1. Counted' = Counted /\ connCount' = connCount
      BY <1>6, <2>2 DEF CheckLimit, Counted, PendingInv
    <3> QED
      BY <1>5, <2>1, <3>1
  <2>3. CASE ~LimitReached
    <3>1. pending \in Conns /\ handler[pending] = "none"
      BY <1>6 DEF CheckLimit, PendingInv
    <3>2. pending \in Conns \ Counted
      BY <1>6, <3>1 DEF CheckLimit, Counted
    <3>3. Counted' = Counted \cup {pending}
      BY <1>6, <2>3, <3>1 DEF CheckLimit, Counted
    <3>4. Cardinality(Counted') = Cardinality(Counted) + 1
      BY <1>1, <3>2, <3>3, ConnsCounted
    <3>5. connCount' = IF Limited THEN connCount + 1 ELSE connCount
      BY <1>6, <2>3 DEF CheckLimit
    <3>6. Limited => connCount < options.MaxConnections
      BY <1>1, <2>3 DEF LimitReached
    <3> QED
      BY <1>1, <1>2, <1>3, <1>4, <2>1, <3>4, <3>5, <3>6
  <2> QED
    BY <2>2, <2>3
<1>7. CASE Spawn
  <2>1. pending \in Conns /\ handler[pending] = "none"
    BY <1>7 DEF Spawn, PendingInv
  <2>2. Counted' = Counted /\ Departed' = Departed
    BY <1>7, <2>1 DEF Spawn, Counted, Departed, ServerTypes, HandlerPC
  <2> QED
    BY <1>5, <1>7, <2>2 DEF Spawn
<1>8. ASSUME NEW k \in Conns, Deregister(k)
      PROVE  CountExact'
  <2>1. k \in Counted /\ k \in Conns \ Departed
    BY <1>8 DEF Deregister, Goto, Counted, Departed, HandlerPC
  <2>2. ~(pending = k /\ acceptLoop = "spawn")
    BY <1>8 DEF Deregister, Goto, PendingInv
  <2>3. Counted' = Counted \ {k}
    BY <1>8, <2>2 DEF Deregister, Goto, Counted, ServerTypes, HandlerPC
  <2>4. Departed' = Departed \cup {k}
    BY <1>8 DEF Deregister, Goto, Departed, ServerTypes
  <2>5. /\ Cardinality(Counted') = Cardinality(Counted) - 1
        /\ Cardinality(Departed') = Cardinality(Departed) + 1
    BY <1>1, <2>1, <2>3, <2>4, ConnsCounted
  <2>6. connCount' = connCount - 1 /\ options' = options
    BY <1>8 DEF Deregister, Goto
  <2> QED
    BY <1>1, <1>2, <1>3, <1>4, <2>5, <2>6
<1>9. ASSUME NEW k \in Conns, Moves(k)
      PROVE  CountExact'
  <2>1. Counted' = Counted /\ Departed' = Departed
    BY <1>9 DEF Moves, Inside, Counted, Departed, ServerTypes, HandlerPC
  <2> QED
    BY <1>5, <1>9, <2>1 DEF Moves
<1>10. ASSUME NEW k \in Conns, Register(k) \/ CloseConn(k) \/ Finish(k)
       PROVE  CountExact'
  <2>1. Counted' = Counted /\ Departed' = Departed
    BY <1>10 DEF Register, CloseConn, Finish, Goto, Counted, Departed,
                 ServerTypes, HandlerPC
  <2> QED
    BY <1>5, <1>10, <2>1 DEF Register, CloseConn, Finish, Goto
<1>11. ASSUME NEW k \in Conns, Connect(k) \/ Accept(k)
       PROVE  CountExact'
  <2>1. Counted' = Counted /\ Departed' = Departed
    BY <1>11 DEF Connect, Accept, Counted, Departed
  <2> QED
    BY <1>5, <1>11, <2>1 DEF Connect, Accept
<1>12. CASE \/ AcceptFails \/ CleanupReturns \/ StopCancel \/ StopListener
            \/ StopConns \/ StopWait
  <2>1. Counted' = Counted /\ Departed' = Departed
    BY <1>12 DEF AcceptFails, CleanupReturns, StopCancel, StopListener,
                 StopConns, StopWait, Counted, Departed
  <2> QED
    BY <1>5, <1>12, <2>1 DEF AcceptFails, CleanupReturns, StopCancel,
                             StopListener, StopConns, StopWait
<1> QED
  BY <1>6, <1>7, <1>8, <1>9, <1>10, <1>11, <1>12, StepKinds

(* Once the wait group is at zero nothing runs that could change it.         *)
LEMMA WaitZero ==
  ASSUME ServerTypes, WaitInv, wg = 0
  PROVE  /\ acceptLoop = "returned" /\ cleanupLoop = "returned"
         /\ \A k \in Conns : handler[k] \in {"none", "returned"}
<1>1. Running \in SUBSET Conns
  BY DEF Running
<1>2. Cardinality(Running) \in Nat
  BY <1>1, ConnsCounted
<1>3. acceptLoop = "returned" /\ cleanupLoop = "returned" /\ Cardinality(Running) = 0
  BY <1>2 DEF WaitInv
<1>4. Running = {}
  BY <1>1, <1>3, ConnsCounted
<1> QED
  BY <1>3, <1>4 DEF Running

LEMMA StoppedStep ==
  ASSUME ServerTypes, WaitInv, stop = "returned" => wg = 0, ServerNext,
         stop' = "returned"
  PROVE  wg' = 0
<1>1. CASE StopWait
  BY <1>1 DEF StopWait
<1>2. CASE StopCancel \/ StopListener \/ StopConns
  BY <1>2 DEF StopCancel, StopListener, StopConns
<1>3. CASE AcceptFails \/ Spawn \/ CleanupReturns
  <2>1. stop = "returned"
    BY <1>3 DEF AcceptFails, Spawn, CleanupReturns
  <2> QED
    BY <1>3, <2>1, WaitZero DEF AcceptFails, Spawn, CleanupReturns
<1>4. ASSUME NEW k \in Conns, Finish(k)
      PROVE  FALSE
  <2>1. stop = "returned"
    BY <1>4 DEF Finish, Goto
  <2> QED
    BY <1>4, <2>1, WaitZero DEF Finish, Goto
<1>5. CASE CheckLimit
  BY <1>5 DEF CheckLimit
<1>6. ASSUME NEW k \in Conns,
             \/ Connect(k) \/ Accept(k) \/ Register(k) \/ Moves(k)
             \/ CloseConn(k) \/ Deregister(k)
      PROVE  wg' = 0
  BY <1>6 DEF Connect, Accept, Register, Moves, CloseConn, Deregister, Goto
<1> QED
  BY <1>1, <1>2, <1>3, <1>4, <1>5, <1>6, StepKinds

LEMMA ServerInvStep ==
  ASSUME ServerInv, ServerNext \/ UNCHANGED serverVars
  PROVE  ServerInv'
<1>1. LoopInv'
  BY LoopInvStep DEF ServerInv
<1>2. CASE ServerNext
  BY <1>1, <1>2, WaitStep, CountStep, StoppedStep DEF ServerInv, LoopInv
<1>3. CASE UNCHANGED serverVars
  <2>1. stop' = "returned" => wg' = 0
    BY <1>3 DEF serverVars, ServerInv
  <2>2. WaitInv'
    BY <1>3 DEF serverVars, ServerInv, WaitInv, Running
  <2>3. CountExact'
    BY <1>3 DEF serverVars, ServerInv, CountExact, Counted
  <2> QED
    BY <1>1, <2>1, <2>2, <2>3 DEF ServerInv
<1> QED
  BY <1>2, <1>3

LEMMA ServerInvInit ==
  ASSUME ServerInit
  PROVE  ServerInv
<1>1. LoopInv
  BY LoopInvInit
<1>3. Running = {} /\ Counted = {}
  BY DEF ServerInit, Running, Counted, HandlerPC
<1>4. {k \in Conns : handler[k] \in {"finishing", "returned"}} = {}
  BY DEF ServerInit
<1>5. Cardinality({}) = 0
  BY FS_EmptySet
<1>6. WaitInv
  BY <1>3, <1>5 DEF ServerInit, WaitInv
<1>7. options.MaxConnections \in Int
  BY LifecycleAssumption DEF ServerInit
<1>8. CountExact
  BY <1>3, <1>4, <1>5, <1>7 DEF ServerInit, CountExact
<1> QED
  BY <1>1, <1>6, <1>8 DEF ServerInit, ServerInv

(* The steps that do something with a message are steps of the goroutines    *)
(* that Server knows, or leave them alone.                                   *)
LEMMA NextIsServerNext ==
  ASSUME [Next]_vars
  PROVE  ServerNext \/ UNCHANGED serverVars
<1>1. CASE Lifecycle /\ UNCHANGED protocolVars
  BY <1>1 DEF ServerNext
<1>2. ASSUME NEW k \in Conns, ReceiveMessage(k) \/ WriteMessage(k)
      PROVE  ServerNext
  BY <1>2 DEF ReceiveMessage, WriteMessage, ServerNext
<1>3. ASSUME NEW k \in Conns, HandleMessage(k)
      PROVE  ServerNext \/ UNCHANGED serverVars
  <2>1. CASE \/ handleNegotiate(k) \/ setupAuthenticate(k) \/ handleLogoff(k)
             \/ handleEcho(k)
    <3>1. Respond(k)
      BY <2>1, Zenon DEF handleNegotiate, setupAuthenticate, handleLogoff, handleEcho,
                  Answer
    <3> QED
      BY <3>1 DEF ServerNext
  <2>2. CASE setupLookup(k)
    BY <2>2 DEF setupLookup
  <2>3. CASE handleCancel(k)
    BY <2>3 DEF handleCancel, ServerNext
  <2> QED
    BY <1>3, <2>1, <2>2, <2>3 DEF HandleMessage
<1>4. CASE CleanupExpired
  BY <1>4 DEF CleanupExpired
<1>5. CASE UNCHANGED vars
  BY <1>5 DEF vars
<1> QED
  BY <1>1, <1>2, <1>3, <1>4, <1>5 DEF Next

(* ServerInv is an invariant of the server with its message handlers.        *)
THEOREM ServerInvHolds == Spec => []ServerInv
<1>1. Init => ServerInv
  BY ServerInvInit DEF Init
<1>2. ServerInv /\ [Next]_vars => ServerInv'
  BY ServerInvStep, NextIsServerNext
<1> QED
  BY <1>1, <1>2, PTL DEF Spec

(* For any number of connections and any limit, connCount is exact: see      *)
(* CountExact.  The argument is that a connection takes its slot in the      *)
(* limit check of acceptLoop, keeps it through Spawn, and gives it back in   *)
(* the bookkeeping of handleConnection, once.                                *)
THEOREM CountStaysExact == Spec => []CountExact
<1>1. ServerInv => CountExact
  BY DEF ServerInv
<1> QED
  BY <1>1, ServerInvHolds, PTL

(* For any number of connections, when Stop returns nothing is left running, *)
(* open or registered: see NothingLeftRunning.  Stop waits for wg, and wg    *)
(* counts both loops and every handler that acceptLoop has started.          *)
THEOREM StopLeavesNothing == Spec => []NothingLeftRunning
<1>1. ServerInv => NothingLeftRunning
  <2>1. SUFFICES ASSUME ServerInv, stop = "returned"
                 PROVE  /\ acceptLoop = "returned" /\ cleanupLoop = "returned"
                        /\ \A k \in Conns : /\ handler[k] \in {"none", "returned"}
                                            /\ sock[k] # "open"
                        /\ conns = {}
    BY DEF NothingLeftRunning
  <2>2. /\ acceptLoop = "returned" /\ cleanupLoop = "returned"
        /\ \A k \in Conns : handler[k] \in {"none", "returned"}
    BY <2>1, WaitZero DEF ServerInv, LoopInv
  <2>3. pending \notin Conns
    BY <2>1, <2>2, LifecycleAssumption DEF ServerInv, LoopInv, PendingInv
  <2>4. \A k \in Conns : sock[k] # "open"
    BY <2>1, <2>2, <2>3 DEF ServerInv, LoopInv, SockInv
  <2>5. conns = {}
    BY <2>1, <2>2 DEF ServerInv, LoopInv, RegisteredInv
  <2> QED
    BY <2>2, <2>4, <2>5
<1> QED
  BY <1>1, ServerInvHolds, PTL

(* The types hold for any number of connections, sessions and messages, the  *)
(* bounds of the counters and of the hash among them.                        *)
THEOREM TypesKept == Spec => []TypeOK
<1>1. ASSUME Inv, ServerInv PROVE TypeOK
  <2>1. ServerTypes /\ RegisteredInv /\ WaitInv /\ CountExact
    BY <1>1 DEF ServerInv, LoopInv
  <2>2. conns \subseteq Conns
    BY <2>1 DEF RegisteredInv
  <2>3. Cardinality(Conns) \in Nat
    BY ConnsCounted
  <2>4. wg \in 0 .. Cardinality(Conns) + 2
    <3>1. Running \subseteq Conns
      BY DEF Running
    <3>2. PICK c \in Nat : c = Cardinality(Running) /\ c <= Cardinality(Conns)
      BY <3>1, ConnsCounted
    <3> QED
      BY <2>1, <2>3, <3>2 DEF WaitInv
  <2>5. connCount \in -Cardinality(Conns) .. Cardinality(Conns)
    <3>1. PICK c \in Nat : c = Cardinality(Counted) /\ c <= Cardinality(Conns)
      <4>1. Counted \subseteq Conns
        BY DEF Counted
      <4> QED
        BY <4>1, ConnsCounted
    <3>2. PICK g \in Nat :
            /\ g = Cardinality({k \in Conns : handler[k] \in {"finishing", "returned"}})
            /\ g <= Cardinality(Conns)
      <4>1. {k \in Conns : handler[k] \in {"finishing", "returned"}} \subseteq Conns
        OBVIOUS
      <4> QED
        BY <4>1, ConnsCounted, Zenon
    <3>3. connCount = c \/ connCount = -g
      BY <2>1, <3>1, <3>2 DEF CountExact
    <3> QED
      BY <2>3, <3>1, <3>2, <3>3
  <2>6. ServerTypeOK
    BY <2>1, <2>2, <2>4, <2>5 DEF ServerTypes, ServerTypeOK
  <2>7. \A s \in Sids : /\ sess[s].State \in {"InProgress", "Valid"}
                        /\ sess[s].Authenticator.challenge \in 0 .. msgs
    <3>1. \A s \in Sids : /\ sess[s].State \in {"InProgress", "Valid"}
                          /\ sess[s].Authenticator.challenge \in Nat
      BY <1>1 DEF Inv, SessTypes, Session, Authenticators
    <3>2. \A s \in Sids : sess[s].Authenticator.challenge <= msgs
      BY <1>1 DEF Inv, SessTypes
    <3>3. msgs \in Int
      BY <1>1 DEF Inv, WorkTypes
    <3> QED
      BY <3>1, <3>2, <3>3
  <2>8. \A k \in Conns : Len(preauthHash[k]) <= 2 * msgs
    <3>1. msgs \in Int /\ \A k \in Conns : Len(preauthHash[k]) \in Nat
      BY <1>1 DEF Inv, WorkTypes, ConnTypes
    <3>2. \A k \in Conns : Len(preauthHash[k]) <= 2 * msgs - (IF Busy(k) THEN 1 ELSE 0)
      BY <1>1 DEF Inv, PerConn, HashInv
    <3>3. ASSUME NEW k \in Conns, NEW d \in {0, 1}, Len(preauthHash[k]) <= 2 * msgs - d
          PROVE  Len(preauthHash[k]) <= 2 * msgs
      BY <3>1, <3>3
    <3>4. \A k \in Conns : (IF Busy(k) THEN 1 ELSE 0) \in {0, 1}
      OBVIOUS
    <3> QED
      BY <3>2, <3>3, <3>4
  <2> QED
    BY <1>1, <2>6, <2>7, <2>8 DEF Inv, ConnTypes, SessTypes, WorkTypes, TypeOK
<1> QED
  BY <1>1, InvHolds, ServerInvHolds, PTL

=============================================================================
