------------------------------- MODULE HandleIO -------------------------------
(***************************************************************************)
(* The handles of a share at work: a file handle that several connections  *)
(* (or goroutines of a client) transfer on, and a directory handle that is *)
(* enumerated.  The two share nothing but the program, so a behaviour uses *)
(* one of them; a panic on either ends the program.                        *)
(***************************************************************************)
EXTENDS FileHandle, DirectoryEnumeration

Init ==
    /\ HandleInit
    /\ DirInit
    /\ work.budget = 0 \/ scenario.budget = 0

Next ==
    \/ HandleNext /\ UNCHANGED dirVars
    \/ DirNext /\ UNCHANGED vars

Spec == Init /\ [][Next]_<<vars, dirVars>>

(* The shapes of the state.                                                *)
TypeOK ==
    /\ content \in Seq(Nat) /\ pos \in Nat /\ offset \in Nat /\ stream \in Nat
    /\ \A v \in {closed, file, conn, listed, panicked, contended, calm, disturbed,
               dirPanicked} : v \in BOOLEAN
    /\ returned \in Nat
    /\ \A c \in Callers : Busy(c) => task[c].before \in Seq(Nat) /\ Len(task[c].rest) > 0
    /\ budget \in 0..work.budget /\ faults \in 0..work.faults
    /\ entries \subseteq Names /\ given \in Seq(Names)
    /\ dirState.position \in Nat /\ listing.pos \in 0..Len(listing.names)
=============================================================================
