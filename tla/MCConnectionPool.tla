-------------------------- MODULE MCConnectionPool --------------------------
(* Instances of ConnectionPool for TLC. *)
EXTENDS ConnectionPoolRefinement, TLC

(* Callers, connections and channels are interchangeable. *)
PoolSymmetry ==
  Permutations(Clients) \cup Permutations(Conns) \cup Permutations(Chans)
=============================================================================
