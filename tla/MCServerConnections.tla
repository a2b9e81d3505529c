------------------------ MODULE MCServerConnections ------------------------
(* Small deployments: three connections that come and go around Stop, a      *)
(* server without a limit, one connection that may send anything, the older  *)
(* dialects, a client that reconnects, and sessions that expire.             *)
EXTENDS ServerConnections, TLC

Deployment(limit, required, guest) ==
  [MaxConnections |-> limit, SigningRequired |-> required, AllowGuest |-> guest,
   MinDialect |-> SMB2_0_2, MaxDialect |-> SMB3_1_1]

With(d, peers, n, drops, e, s, offers, blobs, users, cmds) ==
  d @@ [peers |-> peers, msgs |-> n, drops |-> drops, expiries |-> e, stops |-> s,
        offers |-> offers, blobs |-> blobs, users |-> users, cmds |-> cmds]

New == [dialects |-> {SMB2_1, SMB3_1_1}, required |-> TRUE]
Mid == [dialects |-> {SMB3_0}, required |-> FALSE]
Old == [dialects |-> {SMB2_1}, required |-> FALSE]
None == [dialects |-> {1}, required |-> FALSE]

Ntlm(x) == [type |-> "negotiate", keyExch |-> x]
Raw == [type |-> "raw"]
Other == [type |-> "other"]

Starting == With(Deployment(2, FALSE, FALSE), 3, 1, TRUE, 0, TRUE,
           {New}, {}, {}, {"CANCEL"})
NoLimit == With(Deployment(0, FALSE, TRUE), 2, 2, TRUE, 1, TRUE,
           {Mid}, {Raw}, {}, {})
OneConnection == With(Deployment(1, FALSE, FALSE), 1, 6, FALSE, 1, FALSE, {New, None},
           {Ntlm(TRUE), Raw, Other}, {TRUE, FALSE},
           {"SMB1", "RENEGOTIATE", "LOGOFF", "ECHO"})
OldDialects == With(Deployment(2, FALSE, TRUE), 1, 6, FALSE, 0, FALSE, {Mid, Old},
           {Ntlm(TRUE), Ntlm(FALSE), Raw}, {TRUE, FALSE}, {"ECHO"})
Reconnecting == With(Deployment(2, TRUE, FALSE), 2, 7, FALSE, 0, FALSE,
           {New}, {Ntlm(TRUE)}, {TRUE}, {"ECHO"})
Expiring == With(Deployment(2, TRUE, FALSE), 2, 5, FALSE, 1, FALSE,
           {New}, {Ntlm(FALSE)}, {TRUE}, {"ECHO"})
MCDeployments ==
  {Starting, NoLimit, OneConnection, OldDialects, Reconnecting, Expiring}

MCConns == {1, 2, 3}
MCNil == 0
MCSids == 11 .. 15
=============================================================================
