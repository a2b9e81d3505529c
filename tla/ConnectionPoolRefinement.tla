---------------------- MODULE ConnectionPoolRefinement ----------------------
(* The connection pool implements ConnectionLease.                           *)
EXTENDS ConnectionPool

(* A caller holds what it has checked out, and what lies in the channel it   *)
(* still waits on.                                                           *)
Lent(c) ==
  IF held[c] # Nil THEN held[c]
  ELSE IF chan[c] # Nil /\ buf[chan[c]] \in Conns THEN buf[chan[c]] ELSE Nil

Lease == INSTANCE ConnectionLease
           WITH usable <- live \ closing,
                lent <- [c \in Clients |-> Lent(c)],
                shut <- closed

(* get, put, the cleaner and Close only ever lend, hand over, take back and  *)
(* discard connections as ConnectionLease allows: exclusively, while they    *)
(* are mounted, and never away from their holder while the pool is open.     *)
ImplementsLease == Lease!Spec
=============================================================================
