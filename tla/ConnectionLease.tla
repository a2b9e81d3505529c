--------------------------- MODULE ConnectionLease ---------------------------
(***************************************************************************)
(* What the connection pool promises its callers: a connection is lent to  *)
(* one caller at a time, only connections that are mounted are lent, and   *)
(* while the pool is open nobody takes a connection away from its holder.  *)
(***************************************************************************)
CONSTANTS Clients, Conns, Nil

VARIABLES
  usable,  \* mounted connections that nobody has decided to close
  lent,    \* the connection each caller holds, or Nil
  shut     \* FileSystem.Close has run

vars == <<usable, lent, shut>>

Free(x) == \A c \in Clients : lent[c] # x

Init ==
  /\ usable = {}
  /\ lent = [c \in Clients |-> Nil]
  /\ shut = FALSE

(* A new connection goes to the caller that dialled it.                      *)
Dial(c, x) ==
  /\ lent[c] = Nil /\ x \notin usable /\ Free(x)
  /\ usable' = usable \cup {x}
  /\ lent' = [lent EXCEPT ![c] = x]
  /\ UNCHANGED shut

Lend(c, x) ==
  /\ ~shut
  /\ lent[c] = Nil /\ x \in usable /\ Free(x)
  /\ lent' = [lent EXCEPT ![c] = x]
  /\ UNCHANGED <<usable, shut>>

(* The connection goes straight to a caller that waits for one.              *)
HandOver(c, d) ==
  /\ ~shut
  /\ lent[c] # Nil /\ lent[d] = Nil
  /\ lent' = [lent EXCEPT ![c] = Nil, ![d] = lent[c]]
  /\ UNCHANGED <<usable, shut>>

(* It comes back, and may be given up at the same time.                      *)
Return(c) ==
  /\ lent[c] # Nil
  /\ lent' = [lent EXCEPT ![c] = Nil]
  /\ usable' \in {usable, usable \ {lent[c]}}
  /\ UNCHANGED shut

Discard(x) ==
  /\ x \in usable /\ Free(x)
  /\ usable' = usable \ {x}
  /\ UNCHANGED <<lent, shut>>

(* Close takes everything away from everybody, once.                         *)
Shut ==
  /\ ~shut /\ shut' = TRUE
  /\ usable' = {}
  /\ UNCHANGED lent

Next ==
  \/ \E c \in Clients, x \in Conns : Dial(c, x) \/ Lend(c, x)
  \/ \E c, d \in Clients : HandOver(c, d)
  \/ \E c \in Clients : Return(c)
  \/ \E x \in Conns : Discard(x)
  \/ Shut

Spec == Init /\ [][Next]_vars
=============================================================================
