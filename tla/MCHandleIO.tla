------------------------------ MODULE MCHandleIO ------------------------------
(* The workloads and scenarios the handles are checked under.              *)
EXTENDS HandleIO, TLC

CONSTANTS c1, c2

Read(op, off, n) == [op |-> op, off |-> off, n |-> n]
Write(op, off, data) == [op |-> op, off |-> off, data |-> data]
Seek(off, whence) == [op |-> "Seek", off |-> off, whence |-> whence]
Resize(op, size) == [op |-> op, off |-> size]
Plain(op) == [op |-> op]

Nothing == [calls |-> {}, budget |-> 0, faults |-> 0, content |-> <<1, 2, 3>>,
            flags |-> {"WRITE"}, access |-> {}, readOnly |-> FALSE]

(* A program with the file open for reading and writing.                   *)
Library == [Nothing EXCEPT !.budget = 3, !.faults = 1,
    !.calls = {Read("Read", 0, 2), Write("Write", 0, <<7>>),
               Read("ReadAt", 1, 1), Write("WriteAt", 4, <<8>>),
               Resize("Truncate", 1), Resize("Truncate", 4),
               Seek(1, "start"), Seek(-1, "current"), Seek(-1, "end"),
               Plain("Sync"), Plain("Close")}]

(* The requests of clients: with the right to write, on a read-only share, *)
(* and on a handle opened for reading.                                     *)
Serving == [Nothing EXCEPT !.budget = 3, !.faults = 1, !.access = {"GENERIC_WRITE"},
    !.calls = {Read("READ", 1, 2), Read("READ", 0, 9), Read("READ", -1, 1),
               Write("WRITE", 1, <<7, 8>>), Write("WRITE", 4, <<9>>), Write("WRITE", 1, << >>),
               Resize("SET_EOF", 1), Resize("SET_EOF", 4),
               Plain("STANDARD_INFO"), Plain("ALL_INFO"),
               Plain("FLUSH"), Plain("CLOSE"), Plain("CLOSE_STAT")}]
ReadOnly == [Serving EXCEPT !.budget = 2, !.readOnly = TRUE]
ForReading == [Serving EXCEPT !.budget = 2, !.access = {"GENERIC_READ"}, !.flags = {}]

MCWorkloads == {Nothing, Library, Serving, ReadOnly, ForReading}

NoQuery == [names |-> {1, 2, 3}, patterns |-> {Names}, flags |-> {{}},
            rooms |-> {2}, budget |-> 0, changes |-> 0, faults |-> 0]

(* A client that goes through the directory, with "*" and with patterns    *)
(* that leave entries out; one that also restarts and repositions.         *)
Through == [NoQuery EXCEPT !.patterns = {Names}, !.flags = {{}, {"SINGLE"}, {"CLASS"}},
            !.rooms = {1, 2, 3}, !.budget = 6, !.changes = 1, !.faults = 1]
Filtered == [NoQuery EXCEPT !.patterns = {{2, 3}, {3}}, !.flags = {{}, {"SINGLE"}},
            !.rooms = {1, 2, 3}, !.budget = 6]
Restarting == [Through EXCEPT !.patterns = {Names, {3}}, !.budget = 4, !.rooms = {3},
            !.flags = {{}, {"SINGLE"}, {"RESTART_SCANS"}, {"INDEX"}}]
MCScenarios == {NoQuery, Through, [Through EXCEPT !.names = {}], Filtered, Restarting}

MCWidth == [n \in Names |-> IF n = 2 THEN 2 ELSE 1]

Symmetry == Permutations({c1, c2})
=============================================================================
