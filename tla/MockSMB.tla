------------------------------- MODULE MockSMB -------------------------------
(***************************************************************************)
(* The in-memory share of mock_smb.go, the backend the repository's own    *)
(* tests mount, as operators on values: a function from the paths that     *)
(* exist to what stands there.  (MockSMBFile is what an open file does.)   *)
(* Every operation of the backend holds the backend's lock throughout, so  *)
(* each one is a single step of whoever calls it.  A path is the sequence  *)
(* of its components; the root is the empty sequence.                      *)
(***************************************************************************)
EXTENDS Integers, Sequences, FiniteSets, SequencesExt

Root == << >>
Parent(p) == SubSeq(p, 1, Len(p) - 1)
Exists(files, p) == p \in DOMAIN files
IsDir(files, p) == Exists(files, p) /\ files[p] = "dir"
Below(files, p) == {q \in DOMAIN files : Len(q) > Len(p) /\ IsPrefix(p, q)}
Ancestors(p) == {SubSeq(p, 1, i) : i \in 1..(Len(p) - 1)}    \* but the root

(* The paths added, with what now stands there.                            *)
With(files, ps, what) ==
    [q \in DOMAIN files \cup ps |-> IF q \in ps THEN what ELSE files[q]]
Without(files, p) == [q \in DOMAIN files \ {p} |-> files[q]]

(* MockSMBShare.OpenFile: the error, or the share afterwards.  Creating a  *)
(* file creates the missing directories above it (ensureParentDirs stops   *)
(* at the first one that exists).                                          *)
OpenError_NotExclusive(files, p, flags) ==
    IF ~Exists(files, p) /\ "CREATE" \notin flags THEN "ErrNotExist"
    ELSE IF IsDir(files, p) /\ "WRITE" \in flags THEN "IsDirectory"
    ELSE "nil"
OpenError(files, p, flags) ==
    IF "EXCL" \in flags /\ Exists(files, p) THEN "ErrExist"
    ELSE IF ~Exists(files, p) /\ "CREATE" \notin flags THEN "ErrNotExist"
    ELSE IF IsDir(files, p) /\ "WRITE" \in flags THEN "IsDirectory"
    ELSE "nil"
ensureParentDirs(files, p) ==
    With(files, {q \in Ancestors(p) :
                    \A r \in Ancestors(p) : Len(r) >= Len(q) => ~Exists(files, r)}, "dir")
OpenEffect(files, p, flags) ==
    IF OpenError(files, p, flags) = "nil" /\ ~Exists(files, p)
    THEN ensureParentDirs(With(files, {p}, "file"), p)
    ELSE files

(* MockSMBShare.Stat, Mkdir and Remove; nothing is looked for below the    *)
(* root, whose prefix would be two slashes.                                *)
StatError(files, p) == IF Exists(files, p) THEN "nil" ELSE "ErrNotExist"
MkdirError(files, p) ==
    IF Exists(files, p) THEN "ErrExist"
    ELSE IF ~Exists(files, Parent(p)) THEN "ErrNotExist"
    ELSE IF ~IsDir(files, Parent(p)) THEN "ParentNotDirectory"
    ELSE "nil"
RemoveError(files, p) ==
    IF ~Exists(files, p) THEN "ErrNotExist"
    ELSE IF IsDir(files, p) /\ p # Root /\ Below(files, p) # {} THEN "NotEmpty"
    ELSE "nil"

(* MockSMBShare.Rename: a directory takes what is below it along.          *)
RenameError(files, p, to) ==
    IF ~Exists(files, p) THEN "ErrNotExist"
    ELSE IF Exists(files, to) THEN "ErrExist"
    ELSE "nil"
RenameEffect(files, p, to) ==
    LET moved == {p} \cup (IF IsDir(files, p) /\ p # Root THEN Below(files, p) ELSE {})
        old(q) == p \o SubSeq(q, Len(to) + 1, Len(q))
        new == {to \o SubSeq(q, Len(p) + 1, Len(q)) : q \in moved}
    IN  [q \in (DOMAIN files \ moved) \cup new |->
            IF q \in new THEN files[old(q)] ELSE files[q]]

(* MockSMBFile.Readdir(-1): the direct children.                           *)
Children(files, p) == {q \in Below(files, p) : Len(q) = Len(p) + 1}
==============================================================================
