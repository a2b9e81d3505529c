-------------------------- MODULE MCClientFileSystem --------------------------
(***************************************************************************)
(* Instances of ClientFileSystem.  A behaviour is about one situation.     *)
(***************************************************************************)
EXTENDS ClientFileSystem

CONSTANTS c1, c2

MCClients == {c1, c2}
MCAlphabet == <<"a", "b", "c">>
MCLower == [n \in {"a", "b", "c", "A", "..a", "a0"} |-> IF n = "A" THEN "a" ELSE n]
MCDotDotNames == {"..a"}
MCNulNames == {"a0"}

Abs(parts) == [abs |-> TRUE, parts |-> parts]
On(op, parts) == [op |-> op, raw |-> Abs(parts)]
Exclusive(parts) == [op |-> "OpenFile", raw |-> Abs(parts), flags |-> {"CREATE", "EXCL", "WRITE"}]
RenameTo(parts, to) == [op |-> "Rename", raw |-> Abs(parts), to |-> Abs(to)]

(* Shares: the root, perhaps b, perhaps a with perhaps a/a and a/b.        *)
Share(a, aa, ab, b) ==
    LET at == [p \in {<<"a">>, <<"a", "a">>, <<"a", "b">>, <<"b">>} |->
                  CASE p = <<"a">> -> a [] p = <<"a", "a">> -> aa
                    [] p = <<"a", "b">> -> ab [] p = <<"b">> -> b]
        there == {p \in DOMAIN at : at[p] # "none"}
    IN  [p \in {Root} \cup there |-> IF p = Root THEN "dir" ELSE at[p]]
Kinds == {"none", "file", "dir"}
Shares ==
    {Share(a, "none", "none", b) : a \in {"none", "file"}, b \in Kinds}
    \cup {Share("dir", aa, ab, b) : aa \in Kinds, ab \in Kinds, b \in Kinds}

(* Every path of at most four parts.                                       *)
Parts == {"", ".", "..", "a", "A", "..a", "a0"}
RawPaths ==
    LET seqs == UNION {[1..n -> Parts] : n \in 0..4}
    IN  [abs : {TRUE}, parts : seqs]
        \cup [abs : {FALSE}, parts : {s \in seqs : s = << >> \/ Head(s) # ""}]
Naming ==
    [callers |-> {c1}, shares |-> {Share("dir", "file", "none", "none")},
     calls |-> {[op |-> "Chdir", raw |-> raw] : raw \in RawPaths},
     conns |-> 1, budget |-> 1, faults |-> 0, ways |-> {}, closes |-> FALSE]

(* One call on every small share; calls that are retried fail twice.       *)
Alone ==
    [callers |-> {c1}, shares |-> Shares,
     calls |-> {On(op, p) : op \in {"Chdir", "MkdirAll", "RemoveAll", "ReadDir", "ReadFile",
                                    "Truncate", "Chmod"},
                            p \in {<<"a">>, <<"A", "b">>}}
               \cup {Exclusive(<<"a", "c">>), On("MkdirAll", <<"a", "b", "c">>)},
     conns |-> 1, budget |-> 1, faults |-> 2, ways |-> {"unsent", "lost", "cut", "dial"},
     closes |-> FALSE]

(* Two clients at one lock file, with one connection between them.         *)
Locking ==
    [callers |-> MCClients, shares |-> {Share("none", "none", "none", "none")},
     calls |-> {Exclusive(<<"a">>), On("RemoveAll", <<"a">>)},
     conns |-> 1, budget |-> 3, faults |-> 1, ways |-> {"unsent", "lost"}, closes |-> FALSE]

(* Two clients in one tree.                                                *)
Trees ==
    [callers |-> MCClients,
     shares |-> {Share("none", "none", "none", "none"), Share("dir", "file", "dir", "none"),
                 Share("dir", "file", "file", "none")},
     calls |-> {On("MkdirAll", <<"a", "b">>), On("RemoveAll", <<"a">>),
                RenameTo(<<"a">>, <<"c">>), RenameTo(<<"c">>, <<"a", "..", "b">>)},
     conns |-> 2, budget |-> 2, faults |-> 1, ways |-> {"lost"}, closes |-> FALSE]

(* Close while calls are under way.                                        *)
Closing ==
    [callers |-> MCClients, shares |-> {Share("dir", "file", "none", "none")},
     calls |-> {Exclusive(<<"b">>), On("RemoveAll", <<"a">>)},
     conns |-> 1, budget |-> 2, faults |-> 1, ways |-> {"dial"}, closes |-> TRUE]

MCSituations ==
    [naming |-> Naming, alone |-> Alone, locking |-> Locking, trees |-> Trees,
     closing |-> Closing]
==============================================================================
