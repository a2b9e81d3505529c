---------------------------- MODULE SMBProtocol ----------------------------
(***************************************************************************)
(* Dialects, key derivation, signing and NTLM as functions of what they    *)
(* depend on.  A key is the record of what it is derived from and a hash   *)
(* the sequence of what was hashed: both primitives are taken as injective.*)
(***************************************************************************)
EXTENDS Integers, Sequences, FiniteSetsExt

SMB2_0_2 == 514
SMB2_1 == 528
SMB3_0 == 768
SMB3_0_2 == 770
SMB3_1_1 == 785

SupportedDialects == {SMB2_0_2, SMB2_1, SMB3_0, SMB3_0_2, SMB3_1_1}

NoKey == [label |-> "none", base |-> << >>, context |-> << >>]

(* The highest dialect both sides speak within the server's limits, or 0.    *)
selectDialect(opts, clientDialects) ==
  LET common == {d \in SupportedDialects \cap clientDialects :
                   opts.MinDialect <= d /\ d <= opts.MaxDialect}
  IN  IF common = {} THEN 0 ELSE Max(common)

(* What the client reads in the response: the dialect, whether the server    *)
(* insists on signing, and whether there are negotiate contexts.             *)
buildNegotiateResponse(opts, d) ==
  [dialect |-> d, required |-> opts.SigningRequired, contexts |-> d >= SMB3_1_1]

UpdatePreauthHash(hash, message) == Append(hash, message)

(* Which messages enter the connection's hash.                               *)
HashesRequest(d, cmd, valid) ==
  \/ cmd = "NEGOTIATE"
  \/ d >= SMB3_1_1 /\ cmd = "SESSION_SETUP" /\ ~valid

HashesResponse_NegotiateOnly(d, cmd, status) ==
  d >= SMB3_1_1 /\ cmd = "NEGOTIATE"

HashesResponse(d, cmd, status) ==
  /\ d >= SMB3_1_1
  /\ cmd = "NEGOTIATE" \/ (cmd = "SESSION_SETUP" /\ status # "SUCCESS")

DeriveSigningKey(sessionKey, d, hash) ==
  IF d < SMB3_0
    THEN [label |-> "SessionKey", base |-> sessionKey, context |-> << >>]
  ELSE IF d >= SMB3_1_1 /\ hash # << >>
    THEN [label |-> "SMBSigningKey", base |-> sessionKey, context |-> hash]
    ELSE [label |-> "SMB2AESCMAC", base |-> sessionKey, context |-> <<"SmbSign">>]

(* The signature a message carries: which algorithm, under which key.        *)
SignMessage(key, d) ==
  [algorithm |-> IF d >= SMB3_0 THEN "AES-CMAC" ELSE "HMAC-SHA256", key |-> key]

Unsigned == SignMessage(NoKey, 0)

(* The signing key of a response, or NoKey: only what the connection's       *)
(* session pointer says counts, neither its state nor the request's session. *)
SigningKeyFor(sessionKey, required, signed, cmd, status) ==
  IF /\ sessionKey # NoKey
     /\ required \/ signed
     /\ ~(cmd = "SESSION_SETUP" /\ status # "SUCCESS")
     /\ cmd # "NEGOTIATE"
    THEN sessionKey ELSE NoKey
-----------------------------------------------------------------------------
(* NTLMAuthenticator.  Its state is the challenge it sent last, 0 before     *)
(* that, and whether the client asked for a key exchange.  A blob is no NTLM *)
(* message, a NEGOTIATE, an AUTHENTICATE of a configured user or of anyone   *)
(* else (guest, anonymous, unknown) that answers a challenge, or another.    *)

NewNTLMAuthenticator == [challenge |-> 0, keyExch |-> FALSE]

CompatKey == <<"compat">>   \* of a response that does not match the challenge

(* The key both sides compute from a matching response, or the random one    *)
(* that the client sends encrypted under it.                                 *)
SessionBaseKey(challenge) == <<"base", challenge>>
ExportedSessionKey(challenge) == <<"exported", challenge>>

Outcome(result, key, auth, blob) ==
  [result |-> result, key |-> key, auth |-> auth, blob |-> blob]

GuestOrFailed(opts, auth) ==
  Outcome(IF opts.AllowGuest THEN "guest" ELSE "failed", << >>, auth, << >>)

(* Every flag the client asked for is echoed.                                *)
buildResponseFlags(auth) == auth.keyExch

buildChallengeMessage(auth) ==
  [challenge |-> auth.challenge, keyExch |-> buildResponseFlags(auth)]

ntlmNegotiate(blob, fresh) ==
  LET auth == [challenge |-> fresh, keyExch |-> blob.keyExch]
  IN  Outcome("challenge", << >>, auth, buildChallengeMessage(auth))

verifyAndComputeSessionKey(auth, blob) ==
  IF auth.challenge = 0 \/ blob.answers # auth.challenge THEN CompatKey
  ELSE IF auth.keyExch /\ blob.exports THEN ExportedSessionKey(auth.challenge)
  ELSE SessionBaseKey(auth.challenge)

ntlmAuthenticate(opts, auth, blob) ==
  IF blob.known
    THEN Outcome("user", verifyAndComputeSessionKey(auth, blob), auth, << >>)
    ELSE GuestOrFailed(opts, auth)

Authenticate(opts, auth, blob, fresh) ==
  CASE blob.type = "other" -> Outcome("failed", << >>, auth, << >>)
    [] blob.type = "raw" -> GuestOrFailed(opts, auth)
    [] blob.type = "negotiate" -> ntlmNegotiate(blob, fresh)
    [] blob.type = "authenticate" -> ntlmAuthenticate(opts, auth, blob)
=============================================================================
