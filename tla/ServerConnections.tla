-------------------------- MODULE ServerConnections --------------------------
(***************************************************************************)
(* The server's goroutines composed with what they do for a connection     *)
(* until a session exists and when it ends: NEGOTIATE, SESSION_SETUP,      *)
(* LOGOFF, the preauthentication hash, the choice of the signing key, and  *)
(* session expiry.  ECHO stands for every request that leaves this state   *)
(* alone; FileServer models those.  The peers follow MS-SMB2: each keeps   *)
(* its own transcript and derives its own key.                             *)
(***************************************************************************)
EXTENDS Server, SMBProtocol

CONSTANT Sids   \* session ids

(* What clients may offer and send: offers of dialects, first legs of a      *)
(* SESSION_SETUP, and whether the user of a second leg is configured.        *)
ASSUME SetupAssumption ==
  /\ Sids \subseteq Int /\ Nil \notin Sids
  /\ \A d \in Deployments :
       /\ d.SigningRequired \in BOOLEAN
       /\ d.msgs \in Nat /\ d.expiries \in Nat
       /\ \A o \in d.offers : o.required \in BOOLEAN
       /\ \A b \in d.blobs : \/ b.type = "negotiate" /\ b.keyExch \in BOOLEAN
                             \/ b.type \in {"raw", "other"}
       /\ d.users \subseteq BOOLEAN

VARIABLES
  dialect, signingRequired, session, preauthHash,  \* connState, per connection
  sessions,     \* SessionManager.sessions: the ids in the map
  used,         \* ids handed out so far (CreateSession draws a fresh one)
  sess,         \* each session object: State, SigningKey, its authenticator
  request,      \* the message a handler works on
  found,        \* the session SESSION_SETUP has looked up or created
  reply,        \* the response to be written
  peer,         \* the client's side of each connection
  msgs,         \* messages received so far
  expiries      \* rounds of the cleaner that found something

connVars == <<dialect, signingRequired, session, preauthHash>>
sessVars == <<sessions, used, sess>>
workVars == <<request, found, reply>>
boundVars == <<msgs, expiries>>
protocolVars == <<connVars, sessVars, workVars, peer, boundVars>>
vars == <<serverVars, protocolVars>>

NoRequest == [cmd |-> "none"]
NoReply == [cmd |-> "none"]
NotFound == [sid |-> Nil, new |-> FALSE]

NoChallenge == [challenge |-> 0, keyExch |-> FALSE]

(* The client's own record of a connection: transcripts, the session it is   *)
(* setting up or has, the challenge to answer, its key and the server's, the *)
(* counts of what it sent, and the session whose replies it verifies.        *)
NewPeer ==
  [dialect |-> 0, neg |-> << >>, tr |-> << >>, sid |-> Nil,
   challenge |-> NoChallenge, key |-> NoKey, serverKey |-> NoKey, required |-> FALSE,
   negs |-> 0, setups |-> 0, steady |-> Nil, gone |-> FALSE]

Init ==
  /\ ServerInit
  /\ dialect = [k \in Conns |-> 0]
  /\ signingRequired = [k \in Conns |-> FALSE]
  /\ session = [k \in Conns |-> Nil]
  /\ preauthHash = [k \in Conns |-> << >>]
  /\ sessions = {} /\ used = {}
  /\ sess = [s \in Sids |-> [State |-> "InProgress", SigningKey |-> NoKey,
                             Authenticator |-> NewNTLMAuthenticator]]
  /\ request = [k \in Conns |-> NoRequest]
  /\ found = [k \in Conns |-> NotFound]
  /\ reply = [k \in Conns |-> NoReply]
  /\ peer = [k \in Conns |-> NewPeer]
  /\ msgs = 0 /\ expiries = 0

Req(n) == <<"request", n>>
Resp(n) == <<"response", n>>
NoBytes == <<"empty">>
-----------------------------------------------------------------------------
(* What a client may send next, out of the repertoire of the deployment.     *)

NegotiateRequests(k) ==
  {[cmd |-> "NEGOTIATE", n |-> msgs + 1, smb1 |-> FALSE, sid |-> Nil,
    signed |-> FALSE, dialects |-> o.dialects, required |-> o.required] :
     o \in IF peer[k].dialect = 0 \/ "RENEGOTIATE" \in options.cmds
            THEN options.offers ELSE {}}
  \cup (IF peer[k].negs = 0 /\ "SMB1" \in options.cmds
          THEN {[cmd |-> "NEGOTIATE", n |-> msgs + 1, smb1 |-> TRUE,
                 sid |-> Nil, signed |-> FALSE, dialects |-> {}, required |-> FALSE]}
          ELSE {})

Setup(sid, prev, blob) ==
  [cmd |-> "SESSION_SETUP", n |-> msgs + 1, sid |-> sid, prev |-> prev, signed |-> FALSE,
   blob |-> blob]

(* A first leg may name the session of a connection the client has lost; a   *)
(* second leg answers the challenge.                                         *)
SetupRequests(k) ==
  {Setup(Nil, prev, b) :
     prev \in {peer[j].steady : j \in Conns \ {k}} \cup {Nil},
     b \in options.blobs}
  \cup {Setup(peer[k].sid, Nil, b) :
          b \in IF peer[k].challenge = NoChallenge THEN {}
                ELSE {[type |-> "authenticate", known |-> u,
                       answers |-> peer[k].challenge.challenge,
                       exports |-> peer[k].challenge.keyExch] :
                        u \in options.users}}

SessionRequests(k) ==
  {[cmd |-> c, n |-> msgs + 1, sid |-> s, signed |-> peer[k].required] :
     c \in options.cmds \cap {"LOGOFF", "ECHO"},
     s \in IF peer[k].key = NoKey THEN {} ELSE {peer[k].sid}}

Requests(k) ==
  IF peer[k].gone THEN {} ELSE NegotiateRequests(k) \cup SessionRequests(k)
  \cup (IF peer[k].dialect = 0 THEN {} ELSE SetupRequests(k))
  \cup {[cmd |-> c, n |-> msgs + 1, sid |-> Nil, signed |-> FALSE] :
          c \in options.cmds \cap {"CANCEL"}}

(* Sending a NEGOTIATE, SESSION_SETUP or LOGOFF ends the steady use of the   *)
(* connection's session; naming a session as the previous one gives up the   *)
(* connection it was used on.                                                *)
PeerSends(k, m) ==
  peer' = [j \in Conns |->
    IF j # k
      THEN IF m.cmd = "SESSION_SETUP" /\ m.prev # Nil /\ peer[j].steady = m.prev
             THEN [peer[j] EXCEPT !.steady = Nil, !.gone = TRUE] ELSE peer[j]
      ELSE LET p == IF m.cmd \in {"NEGOTIATE", "SESSION_SETUP", "LOGOFF"}
                      THEN [peer[k] EXCEPT !.steady = Nil] ELSE peer[k]
           IN  CASE m.cmd = "NEGOTIATE" ->
                    [p EXCEPT !.negs = @ + 1, !.required = m.required]
               [] m.cmd = "SESSION_SETUP" ->
                    [p EXCEPT !.setups = @ + 1,
                              !.tr = IF m.sid = Nil THEN p.neg ELSE @,
                              !.sid = m.sid, !.key = NoKey,
                              !.challenge = NoChallenge]
               [] OTHER -> p]

(* readMessage and the hashing of the request.  An SMB1 negotiate becomes a  *)
(* NEGOTIATE without payload or raw bytes.                                   *)
ReceiveMessage(k) ==
  /\ msgs < options.msgs
  /\ Receive(k)
  /\ \E m \in Requests(k) :
       /\ request' = [request EXCEPT ![k] = m]
       /\ LET valid == session[k] # Nil /\ sess[session[k]].State = "Valid"
              bytes == IF m.cmd = "NEGOTIATE" /\ m.smb1 THEN NoBytes
                       ELSE Req(msgs + 1)
          IN  preauthHash' =
                IF HashesRequest(dialect[k], m.cmd, valid)
                  THEN [preauthHash EXCEPT ![k] = UpdatePreauthHash(@, bytes)]
                  ELSE preauthHash
       /\ PeerSends(k, m)
  /\ msgs' = msgs + 1
  /\ UNCHANGED <<dialect, signingRequired, session, sessVars, found, reply,
                 expiries>>
-----------------------------------------------------------------------------
(* HandleMessage: the handlers give a status, the session id of the response *)
(* and the connection's new session pointer; the tail chooses the key.       *)

Answer(k, status, sid, ptr, newSess, body) ==
  LET m == request[k]
      key == IF ptr = Nil THEN NoKey ELSE newSess[ptr].SigningKey
  IN  /\ session' = [session EXCEPT ![k] = ptr]
      /\ sess' = newSess
      /\ reply' = [reply EXCEPT ![k] =
           [cmd |-> m.cmd, status |-> status, sid |-> sid, n |-> m.n, key |-> key,
            body |-> body,
            sign |-> LET by == SigningKeyFor(key, signingRequired[k], m.signed,
                                             m.cmd, status)
                     IN  IF by = NoKey THEN Unsigned
                         ELSE SignMessage(by, dialect[k])]]
      /\ Respond(k)

handleNegotiate(k) ==
  /\ request[k].cmd = "NEGOTIATE" /\ handler[k] = "handling"
  /\ LET m == request[k]
         d == selectDialect(options, m.dialects)
     IN  \/ /\ m.smb1
            /\ UNCHANGED <<dialect, signingRequired, sessions>>
            /\ Answer(k, "SUCCESS", Nil, session[k], sess,
                      buildNegotiateResponse(options, options.MaxDialect))
         \/ /\ ~m.smb1 /\ d = 0
            /\ UNCHANGED <<dialect, signingRequired, sessions>>
            /\ Answer(k, "NOT_SUPPORTED", Nil, session[k], sess, << >>)
         \/ /\ ~m.smb1 /\ d # 0
            /\ dialect' = [dialect EXCEPT ![k] = d]
            /\ signingRequired' = [signingRequired EXCEPT ![k] =
                                     m.required \/ options.SigningRequired]
            /\ UNCHANGED sessions
            /\ Answer(k, "SUCCESS", Nil, Nil, sess,
                      buildNegotiateResponse(options, d))
  /\ UNCHANGED <<preauthHash, used, request, found, peer, boundVars>>

(* SESSION_SETUP finds the previous session, or the one in the header, or    *)
(* creates one.                                                              *)
setupLookup(k) ==
  /\ request[k].cmd = "SESSION_SETUP" /\ handler[k] = "handling"
  /\ found[k] = NotFound
  /\ LET m == request[k] IN
       \/ /\ m.prev \in sessions
          /\ found' = [found EXCEPT ![k] = [sid |-> m.prev, new |-> FALSE]]
          /\ UNCHANGED sessVars
       \/ /\ m.prev \notin sessions /\ m.sid \in sessions
          /\ found' = [found EXCEPT ![k] = [sid |-> m.sid, new |-> FALSE]]
          /\ UNCHANGED sessVars
       \/ /\ m.prev \notin sessions /\ m.sid \notin sessions
          /\ \E s \in Sids \ used :
               /\ \A r \in Sids \ used : s <= r
               /\ found' = [found EXCEPT ![k] = [sid |-> s, new |-> TRUE]]
               /\ used' = used \cup {s}
               /\ sessions' = sessions \cup {s}
               /\ UNCHANGED sess
  /\ UNCHANGED <<serverVars, connVars, request, reply, peer, boundVars>>

AfterFailure_Keep(k) == sessions

(* A session that this request created does not survive its failure.         *)
AfterFailure(k) ==
  IF found[k].new THEN sessions \ {found[k].sid} ELSE sessions

(* ... and authenticates.                                                    *)
setupAuthenticate(k) ==
  /\ found[k] # NotFound
  /\ found' = [found EXCEPT ![k] = NotFound]
  /\ LET m == request[k]
         s == found[k].sid
         a == Authenticate(options, sess[s].Authenticator, m.blob, m.n)
         now == [sess EXCEPT ![s].Authenticator = a.auth]
     IN  \/ /\ a.result = "challenge"
            /\ UNCHANGED sessions
            /\ Answer(k, "MORE_PROCESSING", s, session[k], now, a.blob)
         \/ /\ a.result = "failed"
            /\ sessions' = AfterFailure(k)
            /\ Answer(k, "LOGON_FAILURE", m.sid, session[k], now, << >>)
         \/ /\ a.result \in {"guest", "user"}
            /\ UNCHANGED sessions
            /\ Answer(k, "SUCCESS", s, s,
                 [now EXCEPT ![s].State = "Valid",
                             ![s].SigningKey =
                               IF a.result = "guest" THEN NoKey
                               ELSE DeriveSigningKey(a.key, dialect[k],
                                                     preauthHash[k])],
                 a.blob)
  /\ UNCHANGED <<dialect, signingRequired, preauthHash, used, request, peer,
                 boundVars>>

ValidSession(s) == s \in sessions /\ sess[s].State = "Valid"

(* LOGOFF; the release of handles is FileServer's.                           *)
handleLogoff(k) ==
  /\ request[k].cmd = "LOGOFF" /\ handler[k] = "handling"
  /\ LET s == request[k].sid IN
       \/ /\ ValidSession(s)
          /\ sessions' = sessions \ {s}
          /\ Answer(k, "SUCCESS", s, Nil, sess, << >>)
       \/ /\ ~ValidSession(s)
          /\ UNCHANGED sessions
          /\ Answer(k, "USER_SESSION_DELETED", s, session[k], sess, << >>)
  /\ UNCHANGED <<dialect, signingRequired, preauthHash, used, request, found,
                 peer, boundVars>>

handleEcho(k) ==
  /\ request[k].cmd = "ECHO" /\ handler[k] = "handling"
  /\ UNCHANGED sessions
  /\ Answer(k, "SUCCESS", request[k].sid, session[k], sess, << >>)
  /\ UNCHANGED <<dialect, signingRequired, preauthHash, used, request, found,
                 peer, boundVars>>

handleCancel(k) ==
  /\ request[k].cmd = "CANCEL"
  /\ NoResponse(k)
  /\ UNCHANGED protocolVars

HandleMessage(k) ==
  \/ handleNegotiate(k)
  \/ setupLookup(k)
  \/ setupAuthenticate(k)
  \/ handleLogoff(k)
  \/ handleEcho(k)
  \/ handleCancel(k)
-----------------------------------------------------------------------------
(* The response is written and hashed, and the client takes it in.           *)

PeerReceives(k) ==
  LET r == reply[k]
      m == request[k]
      p == peer[k]
      full == p.tr \o <<Req(r.n)>>
  IN  peer' = [peer EXCEPT ![k] =
        CASE r.cmd = "NEGOTIATE" /\ r.status = "SUCCESS" /\ ~m.smb1 ->
               [p EXCEPT !.neg = <<Req(r.n), Resp(r.n)>>, 
                         !.dialect = r.body.dialect,
                         !.required = @ \/ r.body.required,
                         !.key = NoKey, !.challenge = NoChallenge]
          [] r.cmd = "SESSION_SETUP" /\ r.status = "MORE_PROCESSING" ->
               [p EXCEPT !.tr = full \o <<Resp(r.n)>>, !.sid = r.sid,
                         !.challenge = r.body]
          [] /\ r.cmd = "SESSION_SETUP" /\ r.status = "SUCCESS"
             /\ m.blob.type = "authenticate" /\ m.blob.known ->
               [p EXCEPT !.key = DeriveSigningKey(
                                   IF m.blob.exports
                                     THEN ExportedSessionKey(m.blob.answers)
                                     ELSE SessionBaseKey(m.blob.answers),
                                   p.dialect, full),
                         !.serverKey = r.key, !.sid = r.sid, !.steady = r.sid]
          [] OTHER -> p]

WriteMessage(k) ==
  /\ Written(k)
  /\ LET r == reply[k] IN
       preauthHash' =
         IF HashesResponse(dialect[k], r.cmd, r.status)
           THEN [preauthHash EXCEPT ![k] = UpdatePreauthHash(@, Resp(r.n))]
           ELSE preauthHash
  /\ PeerReceives(k)
  /\ request' = [request EXCEPT ![k] = NoRequest]
  /\ reply' = [reply EXCEPT ![k] = NoReply]
  /\ UNCHANGED <<dialect, signingRequired, session, sessVars, found, boundVars>>

CleanupExpired_Wipes ==
  /\ cleanupLoop = "running"
  /\ expiries < options.expiries
  /\ \E old \in (SUBSET sessions) \ {{}} :
       /\ sessions' = sessions \ old
       /\ sess' = [s \in Sids |-> IF s \in old
                                   THEN [sess[s] EXCEPT !.SigningKey = NoKey]
                                   ELSE sess[s]]
  /\ expiries' = expiries + 1
  /\ UNCHANGED <<serverVars, connVars, used, workVars, peer, msgs>>

(* CleanupExpired removes whatever sessions are old by now: established or   *)
(* not, in use or not, since nothing ever refreshes LastActivity.            *)
CleanupExpired ==
  /\ cleanupLoop = "running"
  /\ expiries < options.expiries
  /\ \E old \in (SUBSET sessions) \ {{}} : sessions' = sessions \ old
  /\ expiries' = expiries + 1
  /\ UNCHANGED <<serverVars, connVars, used, sess, workVars, peer, msgs>>
-----------------------------------------------------------------------------
Lifecycle ==
  \/ AcceptFails \/ CheckLimit \/ Spawn
  \/ CleanupReturns
  \/ StopCancel \/ StopListener \/ StopConns \/ StopWait
  \/ \E k \in Conns :
       \/ Connect(k) \/ Accept(k)
       \/ Register(k) \/ TestContext(k)
       \/ ReadClosed(k) \/ ReadFails(k) \/ WriteFails(k)
       \/ CloseConn(k) \/ Deregister(k) \/ Finish(k)

Next ==
  \/ Lifecycle /\ UNCHANGED protocolVars
  \/ \E k \in Conns : ReceiveMessage(k) \/ HandleMessage(k) \/ WriteMessage(k)
  \/ CleanupExpired

Spec == Init /\ [][Next]_vars

(* Every goroutine of the server runs on when it can.  Nothing is assumed of *)
(* the peers: they need not send, hang up or run into the read timeout.      *)
AcceptStep == AcceptFails \/ CheckLimit \/ Spawn \/ \E k \in Conns : Accept(k)

HandlerStep(k) ==
  \/ /\ \/ Register(k) \/ TestContext(k) \/ ReadClosed(k) \/ WriteFails(k)
        \/ CloseConn(k) \/ Deregister(k) \/ Finish(k)
     /\ UNCHANGED protocolVars
  \/ HandleMessage(k)
  \/ WriteMessage(k)

Fairness ==
  /\ WF_vars(AcceptStep /\ UNCHANGED protocolVars)
  /\ WF_vars(CleanupReturns /\ UNCHANGED protocolVars)
  /\ WF_vars((StopListener \/ StopConns \/ StopWait) /\ UNCHANGED protocolVars)
  /\ \A k \in Conns : WF_vars(HandlerStep(k))

FairSpec == Spec /\ Fairness
-----------------------------------------------------------------------------
TypeOK ==
  /\ ServerTypeOK
  /\ dialect \in [Conns -> SupportedDialects \cup {0}]
  /\ signingRequired \in [Conns -> BOOLEAN]
  /\ session \in [Conns -> used \cup {Nil}]
  /\ sessions \subseteq used /\ used \subseteq Sids
  /\ \A s \in Sids : /\ sess[s].State \in {"InProgress", "Valid"}
                     /\ sess[s].Authenticator.challenge \in 0 .. msgs
  /\ \A k \in Conns : Len(preauthHash[k]) <= 2 * msgs
  /\ msgs \in 0 .. options.msgs /\ expiries \in 0 .. options.expiries

(* Client and server derive the same signing key whenever the server has     *)
(* found the proof of the client right: always below 3.1.1, and for 3.1.1 on *)
(* a connection that negotiated once and whose two SESSION_SETUP legs were   *)
(* its first.  The connection's hash is never reset, so a later setup on the *)
(* same connection has more in it than the client's transcript.              *)
KeysAgree ==
  \A k \in Conns :
    LET p == peer[k] IN
      (/\ p.key # NoKey /\ p.serverKey.base # CompatKey
       /\ p.dialect < SMB3_1_1 \/ (p.negs = 1 /\ p.setups = 2))
      => p.serverKey = p.key

(* Once a client that must have its replies signed has established a session *)
(* and goes on using it, every reply it gets in that session is signed with  *)
(* the key established for it on this connection, also after the cleaner has *)
(* removed the session.  A client here is one that follows MS-SMB2.          *)
RepliesSigned ==
  \A k \in Conns :
    (/\ handler[k] = "writing" /\ peer[k].required
     /\ peer[k].steady # Nil /\ reply[k].sid = peer[k].steady)
    => reply[k].sign = SignMessage(peer[k].serverKey, peer[k].dialect)

(* A session in the map is established, or has sent the challenge its client *)
(* can answer, or is just being set up: a first leg that fails leaves no     *)
(* session behind that nobody knows of.  A second leg that fails does leave  *)
(* its session, challenged and in progress, until the cleaner takes it.      *)
NoAbandonedSetup ==
  \A s \in sessions :
    \/ sess[s].State = "Valid"
    \/ sess[s].Authenticator.challenge # 0
    \/ \E k \in Conns : found[k] # NotFound /\ found[k].sid = s
=============================================================================
