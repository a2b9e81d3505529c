-------------------------------- MODULE Paths --------------------------------
(***************************************************************************)
(* The paths of path.go as operators.  What a caller writes, raw, is       *)
(* whether it begins with a separator and the parts between separators     *)
(* (slashes or backslashes, which the code makes the same first).  A part  *)
(* is "", ".", "..", or a name.  A normalized path is the sequence of its  *)
(* names; the root is the empty sequence.                                  *)
(***************************************************************************)
EXTENDS Integers, Sequences, FiniteSets, SequencesExt

CONSTANTS
    Lower,        \* the lower-case form of every name that occurs
    DotDotNames,  \* the names that begin with two dots
    NulNames      \* the names that hold a NUL byte

(* path.Clean: empty parts and "." go; ".." goes with the part before it,  *)
(* and is dropped at the root.                                             *)
Clean(abs, parts) ==
    LET step(done, part) ==
            IF part \in {"", "."} THEN done
            ELSE IF part # ".." THEN Append(done, part)
            ELSE IF done # << >> /\ Last(done) # ".." THEN Front(done)
            ELSE IF abs THEN done
            ELSE Append(done, part)
    IN  FoldLeft(step, << >>, parts)

(* validatePath: not empty, no NUL, and no part of the clean path begins   *)
(* with two dots, whether it is ".." or a name.                            *)
validatePath_Prefix(raw) ==
    /\ raw.abs \/ raw.parts # << >>
    /\ NulNames \cap ToSet(raw.parts) = {}
    /\ raw.parts = << >> \/ Head(raw.parts) \notin {".."} \cup DotDotNames
validatePath(raw) ==
    /\ raw.abs \/ raw.parts # << >>
    /\ NulNames \cap ToSet(raw.parts) = {}
    /\ ({".."} \cup DotDotNames) \cap ToSet(Clean(raw.abs, raw.parts)) = {}

(* normalize: clean, absolute and in lower case.                           *)
normalize(raw) ==
    LET parts == Clean(raw.abs, raw.parts)
    IN  [i \in DOMAIN parts |-> IF parts[i] = ".." THEN ".." ELSE Lower[parts[i]]]

(* toSMBPath drops the leading slash and the share puts it back.           *)
toSMBPath(p) == [abs |-> FALSE, parts |-> p]
normalizeMockPath(smbPath) == Clean(TRUE, smbPath.parts)

(* dir and join of normalized paths.                                       *)
dir(p) == Front(p)
join(p, name) == Append(p, Lower[name])

(***************************************************************************)
(* What a path means, without folding over it.  A name stays when no run   *)
(* of parts after it holds more ".." than names; a relative path leaves    *)
(* the share when some beginning of it does.                               *)
(***************************************************************************)
Count(parts, i, j, set) == Cardinality({k \in i..j : parts[k] \in set})
Outweighed(parts, i, j) ==
    Count(parts, i, j, {".."}) > Count(parts, i, j, DOMAIN Lower)
Stays(parts, i) ==
    /\ parts[i] \in DOMAIN Lower
    /\ \A j \in i + 1 .. Len(parts) : ~Outweighed(parts, i + 1, j)
Meaning(parts) ==
    LET kept == SetToSortSeq({i \in DOMAIN parts : Stays(parts, i)}, <)
    IN  [n \in DOMAIN kept |-> Lower[parts[kept[n]]]]
LeavesShare(raw) ==
    ~raw.abs /\ \E j \in DOMAIN raw.parts : Outweighed(raw.parts, 1, j)
==============================================================================
