------------------------- MODULE MCCachedFileSystem -------------------------
(* A directory that can be renamed with the file in it. *)
EXTENDS CachedFileSystem, TLC

MCPaths == {<<>>, <<"a">>, <<"b">>, <<"a", "f">>, <<"b", "f">>}

MCInitialTree ==
  [p \in MCPaths |-> IF p \in {<<>>, <<"a">>} THEN [kind |-> "dir", meta |-> 0]
                     ELSE IF p = <<"a", "f">> THEN [kind |-> "file", meta |-> 0]
                     ELSE None]

ClientSymmetry == Permutations(Clients)
=============================================================================
