------------------------------ MODULE FileHandle ------------------------------
(***************************************************************************)
(* One open file, a File of file.go over a MockSMBFile of mock_smb.go, in  *)
(* the hands of several callers at once: goroutines of a program that use  *)
(* the library, or the connection goroutines of the server whose READ,     *)
(* WRITE, FLUSH, SET_INFO, QUERY_INFO and CLOSE requests name one handle.  *)
(*                                                                         *)
(* A File keeps an offset of its own beside the one the backend keeps, and *)
(* no lock.  The backend's calls are atomic (each holds the lock of the    *)
(* MockSMBFile); everything between two of them is not.  A method is       *)
(* therefore a nil check of f.file followed by one step per backend call   *)
(* and one per access to f.offset.  f.offset += n is a load and a store.   *)
(***************************************************************************)
EXTENDS MockSMBFile

CONSTANTS
    Callers,      \* goroutines
    Workloads,    \* what they may do: see WorkloadAssumption
    Chunk,        \* bytes Truncate writes at a time (4096)
    MaxReadSize,  \* ServerOptions.MaxReadSize
    AllocationUnit \* what sizes are rounded up to (4096)

ASSUME HandleAssumption == {Chunk, MaxReadSize, AllocationUnit} \subseteq Nat \ {0}

(* The calls there are, and what Go's types say of their arguments: an     *)
(* int64 offset or size, the length of a buffer, bytes, one of io's three  *)
(* whences.                                                                *)
Queries == {"STANDARD_INFO", "ALL_INFO"}   \* without and with a position
Requests == Queries \cup {"READ", "WRITE", "FLUSH", "SET_EOF", "CLOSE", "CLOSE_STAT"}
Ops == Requests \cup {"Seek", "Read", "ReadAt", "Write", "WriteAt", "Truncate", "Stat",
                      "Sync", "Close"}
WellFormed(call) ==
    /\ call.op \in Ops
    /\ call.op \in {"Seek", "READ", "ReadAt", "WRITE", "WriteAt", "SET_EOF", "Truncate"}
           => call.off \in Int
    /\ call.op \in {"READ", "Read", "ReadAt"} => call.n \in Nat
    /\ call.op \in {"WRITE", "Write", "WriteAt"} => call.data \in Seq(Nat)
    /\ call.op = "Seek" => call.whence \in {"start", "current", "end"}

(* A workload: the calls to choose from, how many are made in all          *)
(* (budget), how many backend calls may fail (faults), the content of the  *)
(* file, the flags it was opened with, the rights of the handle (access)   *)
(* and whether its tree is read-only.                                      *)
ASSUME WorkloadAssumption ==
    \A w \in Workloads : /\ w.content \in Seq(Nat)
                         /\ \A call \in w.calls : WellFormed(call)

VARIABLES
    work,         \* the workload of this behaviour
    content,      \* mockFileData.content
    pos,          \* MockSMBFile.offset
    closed,       \* MockSMBFile.closed
    offset,       \* File.offset
    file,         \* File.file # nil
    conn,         \* File.conn # nil
    returned,     \* how often File.conn has been put back into the pool
    listed,       \* the handle is in the server's handle table
    task,         \* what each caller is in the middle of
    budget,       \* calls still to be made
    faults,       \* backend failures still to come
    panicked,     \* a method was called on a nil f.file
    contended,    \* history: two callers have been inside File.Close at once
    overlapped,   \* history: callers whose call another call has overlapped
    stream,       \* history: where the next Read or Write should be
    calm,         \* history: stream is meaningful
    last          \* history: the call that returned last

backend == <<content, pos, closed>>
lease == <<conn, returned, contended>>
history == <<overlapped, stream, calm, last>>
vars == <<work, backend, offset, file, lease, listed, task, budget, faults, panicked, history>>

Idle == [pc |-> "idle"]
NoCall == [call |-> [op |-> "none"], err |-> "nil", got |-> << >>, alone |-> FALSE,
           before |-> << >>, from |-> 0, calm |-> FALSE]
Busy(c) == task[c].pc # "idle"
Method(c) == Head(task[c].rest)
Alone(c) == c \notin overlapped
At(c, pc) == task[c].pc = pc /\ ~panicked

(***************************************************************************)
(* The methods of File that a request runs, in order.  READ and WRITE are  *)
(* a Seek and a transfer on the handle's File; QUERY_INFO stats the file   *)
(* and, for the classes with a position, seeks by nothing; CLOSE stats the *)
(* file if asked to (POSTQUERY_ATTRIB), takes the handle out of the table  *)
(* and closes its file.                                                    *)
(***************************************************************************)
handleRead == <<"Seek", "Read">>
handleWrite == <<"Seek", "Write">>
handleFlush == <<"Sync">>
setFileEndOfFileInformation == <<"Truncate">>
queryFileInfo(op) == IF op = "STANDARD_INFO" THEN <<"Stat">> ELSE <<"Stat", "Seek">>
handleClose(op) == IF op = "CLOSE_STAT" THEN <<"Stat", "Release", "Close">>
                                        ELSE <<"Release", "Close">>

Methods(op) ==
    CASE op = "READ"    -> handleRead
      [] op = "WRITE"   -> handleWrite
      [] op = "FLUSH"   -> handleFlush
      [] op = "SET_EOF" -> setFileEndOfFileInformation
      [] op \in Queries -> queryFileInfo(op)
      [] op \in {"CLOSE", "CLOSE_STAT"} -> handleClose(op)
      [] OTHER          -> <<op>>

(* mapGenericAccess, on the rights that reading and writing data need.     *)
mapGenericAccess(access) ==
    access \cup (IF "GENERIC_READ" \in access THEN {"READ_DATA"} ELSE {})
           \cup (IF "GENERIC_WRITE" \in access THEN {"WRITE_DATA", "APPEND_DATA"} ELSE {})
           \cup (IF "GENERIC_ALL" \in access
                 THEN {"READ_DATA", "WRITE_DATA", "APPEND_DATA"} ELSE {})

(* What the handlers refuse before they touch the file.                    *)
Refused(call) ==
    IF call.op \notin Requests THEN "nil"
    ELSE IF ~listed THEN "FILE_CLOSED"
    ELSE IF call.op \in {"WRITE", "SET_EOF"} /\ work.readOnly THEN "ACCESS_DENIED"
    ELSE IF /\ call.op = "WRITE"
            /\ mapGenericAccess(work.access) \cap {"WRITE_DATA", "APPEND_DATA"} = {}
         THEN "ACCESS_DENIED"
    ELSE "nil"

(* What the client is told of an error of the File; reading nothing is one *)
(* as well.                                                                *)
mapGoErrorToNTStatus(err) ==
    CASE err = "nil"       -> "nil"
      [] err = "ErrClosed" -> "FILE_CLOSED"
      [] OTHER             -> "INVALID_DEVICE_REQUEST"
Status(op, err, got) ==
    IF op = "READ" /\ err = "nil" /\ got = << >> THEN "END_OF_FILE"
    ELSE IF op \notin Requests \/ err = "nil" THEN err
    ELSE IF op = "SET_EOF" THEN "ACCESS_DENIED"
    ELSE IF op \in Queries THEN "NO_SUCH_FILE"
    ELSE mapGoErrorToNTStatus(err)

(* The sizes QUERY_INFO reports: the length, and the length in whole       *)
(* allocation units.                                                       *)
Sizes(n) == <<n, ((n + AllocationUnit - 1) \div AllocationUnit) * AllocationUnit>>

(* The length of a read: the handler's is capped.                          *)
Length(call) == IF call.op = "READ" /\ call.n > MaxReadSize THEN MaxReadSize ELSE call.n
Whence(call) == CASE call.op = "Seek"     -> call.whence
                  [] call.op \in Queries  -> "current"
                  [] OTHER                -> "start"
Offset(call) == IF call.op \in Queries THEN 0 ELSE call.off

(***************************************************************************)
(* The start and the end of a call.                                        *)
(***************************************************************************)
(* Where the next Read or Write should be once a call that began at from   *)
(* has returned.                                                           *)
StreamAfter(call, err, got, from) ==
    CASE call.op \in {"READ", "WRITE"} /\ call.off >= 0 ->
             call.off + (IF err # "nil" THEN 0
                         ELSE IF call.op = "READ" THEN Len(got) ELSE Len(call.data))
      [] call.op = "Seek" /\ err = "nil"  -> got[1]
      [] call.op = "Read"                 -> from + Len(got)
      [] call.op = "Write" /\ err = "nil" -> from + Len(call.data)
      [] OTHER                            -> from

(* A call that ran by itself leaves the position known if it set it, and   *)
(* leaves it as it was otherwise; a Truncate that found another size has   *)
(* moved the backend's offset and not the File's.                          *)
CalmAfter(t, alone, err) ==
    /\ alone
    /\ \/ t.call.op \in {"READ", "WRITE"} /\ t.call.off >= 0
       \/ t.call.op = "Seek" /\ err = "nil" /\ t.call.whence # "current"
       \/ calm /\ (t.call.op \in {"Truncate", "SET_EOF"} => t.call.off = Len(t.before))

Finish(c, err, got) ==
    LET t == task[c]
    IN  /\ task' = [task EXCEPT ![c] = Idle]
        /\ last' = [call |-> t.call, err |-> Status(t.call.op, err, got), got |-> got,
                    alone |-> Alone(c), before |-> t.before, from |-> stream, calm |-> calm]
        /\ stream' = IF Alone(c) THEN StreamAfter(t.call, err, got, stream) ELSE stream
        /\ calm' = CalmAfter(t, Alone(c), err)
        /\ overlapped' = overlapped \ {c}

(* A caller starts a call.  Whoever is in the middle of one is no longer   *)
(* alone, and neither is the newcomer.                                     *)
Started(call) ==
    [call |-> call, pc |-> "enter", rest |-> Methods(call.op), saved |-> 0, left |-> 0,
     got |-> << >>, err |-> "nil", before |-> content]

Begin(c, call) ==
    /\ At(c, "idle") /\ budget > 0
    /\ Refused(call) = "nil"
    /\ budget' = budget - 1
    /\ LET others == {d \in Callers \ {c} : Busy(d)}
       IN  /\ overlapped' = IF others = {} THEN {} ELSE others \cup {c}
           /\ calm' = (calm /\ others = {})
    /\ task' = [task EXCEPT ![c] = Started(call)]
    /\ UNCHANGED <<work, backend, offset, file, lease, listed, faults, panicked, stream, last>>

Refuse(c, call) ==
    /\ At(c, "idle") /\ budget > 0
    /\ Refused(call) # "nil"
    /\ budget' = budget - 1
    /\ last' = [NoCall EXCEPT !.call = call, !.err = Refused(call)]
    /\ UNCHANGED <<work, backend, offset, file, lease, listed, task, faults, panicked,
                   overlapped, stream, calm>>

(* The method returns: the handler goes on to its next one, or the call    *)
(* is over.                                                                *)
Return(c, err, got) ==
    IF err = "nil" /\ Len(task[c].rest) > 1
    THEN /\ task' = [task EXCEPT ![c] = [@ EXCEPT !.rest = Tail(task[c].rest), !.pc = "enter",
                                             !.got = got]]
         /\ UNCHANGED history
    ELSE Finish(c, err, got)

(* An error ends the call, except that ReadAt and WriteAt put the position *)
(* back after a failed transfer, that a query goes on without the position *)
(* when its Seek fails and CLOSE without the attributes when Stat does.    *)
Restores(c) == Method(c) \in {"ReadAt", "WriteAt"}
Ignored(c) == \/ task[c].call.op \in Queries /\ Method(c) = "Seek"
              \/ task[c].call.op = "CLOSE_STAT" /\ Method(c) = "Stat"
Fail(c, err) ==
    IF Restores(c) /\ task[c].pc = "transfer"
    THEN /\ task' = [task EXCEPT ![c] = [@ EXCEPT !.pc = "restore", !.err = err]]
         /\ UNCHANGED history
    ELSE IF Ignored(c)
    THEN Return(c, "nil", IF Method(c) = "Seek" THEN Append(task[c].got, 0) ELSE << >>)
    ELSE Finish(c, err, << >>)

(***************************************************************************)
(* The methods of File.                                                    *)
(***************************************************************************)
(* What every method does first: a nil f.file is ErrClosed, except that    *)
(* Close of a closed file is no error.  Sync does nothing else.            *)
NilCheck_CloseOnly(c) == ~file /\ Method(c) = "Close"   \* slip: the others do not check
NilCheck(c) == ~file /\ Method(c) # "Release"
FirstStep(m) == CASE m \in {"ReadAt", "WriteAt"} -> "save"
                  [] m = "Seek"                  -> "seek"
                  [] m \in {"Read", "Write"}     -> "transfer"
                  [] m \in {"Stat", "Truncate"}  -> "stat"
                  [] m = "Close"                 -> "close"

(* A caller inside File.Close, past the nil check.                         *)
InClose(d) == task[d].pc \in {"close", "drop", "return", "forget"}

Enter(c) ==
    /\ At(c, "enter") /\ Method(c) # "Release"
    /\ \/ /\ NilCheck(c)
          /\ IF Method(c) = "Close" THEN Return(c, "nil", << >>) ELSE Fail(c, "ErrClosed")
          /\ UNCHANGED contended
       \/ /\ ~NilCheck(c) /\ Method(c) = "Sync"
          /\ Return(c, "nil", << >>)
          /\ UNCHANGED contended
       \/ /\ ~NilCheck(c) /\ Method(c) # "Sync"
          /\ task' = [task EXCEPT ![c] = [@ EXCEPT !.pc = FirstStep(Method(c))]]
          /\ contended' = (contended \/ (Method(c) = "Close" /\ \E d \in Callers : InClose(d)))
          /\ UNCHANGED history
    /\ UNCHANGED <<work, backend, offset, file, conn, returned, listed, budget, faults, panicked>>

(* FileHandleMap.Release: of two CLOSEs of a handle the second finds no    *)
(* handle and closes nothing.                                              *)
Release(c) ==
    /\ At(c, "enter") /\ Method(c) = "Release"
    /\ listed' = FALSE
    /\ IF listed THEN Return(c, "nil", << >>) ELSE Finish(c, "nil", << >>)
    /\ UNCHANGED <<work, backend, offset, file, lease, budget, faults, panicked>>

(* The steps that call a method of f.file.                                 *)
Calling == {"seek", "transfer", "restore", "stat", "cut", "end", "shrink", "grow", "close"}

(* f.file became nil after the check: the call panics.                     *)
Panic(c) ==
    /\ task[c].pc \in Calling /\ ~panicked /\ ~file
    /\ panicked' = TRUE
    /\ UNCHANGED <<work, backend, offset, file, lease, listed, task, budget, faults, history>>

(* A backend call that fails: the file is closed underneath, the file was  *)
(* not opened for writing, the new offset would be negative, or a failure  *)
(* is injected (never into a Seek or a Close).                             *)
Target(c) ==
    LET call == task[c].call
    IN  CASE task[c].pc = "seek" -> SeekTarget(content, pos, Offset(call), Whence(call))
          [] task[c].pc = "cut"  -> call.off
          [] OTHER               -> 0
Writing(c) == \/ task[c].pc \in {"shrink", "grow"}
              \/ task[c].pc = "transfer" /\ Method(c) \in {"Write", "WriteAt"}
(* Slip: offsets are not checked for their sign.                           *)
CallError_NoSign(c) ==
    IF closed THEN "ErrClosed"
    ELSE IF Writing(c) /\ "WRITE" \notin work.flags THEN "NotForWriting"
    ELSE "nil"
CallError(c) ==
    IF closed THEN "ErrClosed"
    ELSE IF Writing(c) /\ "WRITE" \notin work.flags THEN "NotForWriting"
    ELSE IF Target(c) < 0 THEN "NegativeOffset"
    ELSE "nil"

CallFails(c) ==
    /\ task[c].pc \in Calling \ {"close"} /\ ~panicked /\ file
    /\ \/ /\ CallError(c) # "nil"
          /\ Fail(c, CallError(c))
          /\ UNCHANGED faults
       \/ /\ CallError(c) = "nil" /\ faults > 0
          /\ task[c].pc \in {"transfer", "stat", "shrink", "grow"}
          /\ faults' = faults - 1
          /\ Fail(c, "Injected")
    /\ UNCHANGED <<work, backend, offset, file, lease, listed, budget, panicked>>

Calls(c, pc) == At(c, pc) /\ file /\ (pc # "close" => CallError(c) = "nil")
Unmoved == <<work, closed, file, lease, listed, budget, faults, panicked>>

(* Seek: the backend's offset first, then, in Seek itself, the File's.     *)
SeekBackend(c) ==
    /\ Calls(c, "seek")
    /\ pos' = Target(c)
    /\ task' = [task EXCEPT ![c] =
                 [@ EXCEPT !.left = Target(c),
                           !.pc = IF Method(c) = "Seek" THEN "moved" ELSE "transfer"]]
    /\ UNCHANGED <<Unmoved, content, offset, history>>

SeekFile(c) ==
    /\ At(c, "moved")
    /\ offset' = task[c].left
    /\ Return(c, "nil", Append(task[c].got, task[c].left))
    /\ UNCHANGED <<Unmoved, content, pos>>

(* Read and ReadAt, Write and WriteAt: the transfer itself.                *)
AfterTransfer(c) == IF Restores(c) THEN "restore" ELSE "load"
Transfer(c) ==
    /\ Calls(c, "transfer")
    /\ LET call == task[c].call
           got  == IF Writing(c) THEN call.data ELSE FileRead(content, pos, Length(call))
       IN  /\ content' = IF Writing(c) THEN FileWrite(content, pos, got) ELSE content
           /\ pos' = pos + Len(got)
           /\ task' = [task EXCEPT ![c] = [@ EXCEPT !.got = got, !.pc = AfterTransfer(c)]]
    /\ UNCHANGED <<Unmoved, offset, history>>

(* f.offset += n, a load and a store.                                      *)
LoadOffset(c) ==
    /\ At(c, "load")
    /\ task' = [task EXCEPT ![c] = [@ EXCEPT !.saved = offset, !.pc = "store"]]
    /\ UNCHANGED <<Unmoved, content, pos, offset, history>>

Advanced(saved, n) == saved + n
StoreOffset(c) ==
    /\ At(c, "store")
    /\ offset' = Advanced(task[c].saved, Len(task[c].got))
    /\ Return(c, "nil", task[c].got)
    /\ UNCHANGED <<Unmoved, content, pos>>

(* ReadAt and WriteAt read f.offset before they seek, and seek back to it. *)
SaveOffset(c) ==
    /\ At(c, "save")
    /\ task' = [task EXCEPT ![c] = [@ EXCEPT !.saved = offset, !.pc = "seek"]]
    /\ UNCHANGED <<Unmoved, content, pos, offset, history>>

Restored_Late(c) == pos                \* slip: saved after the seek
Restored(c) == task[c].saved
RestorePosition(c) ==
    /\ Calls(c, "restore")
    /\ pos' = Restored(c)
    /\ Return(c, task[c].err, task[c].got)
    /\ UNCHANGED <<Unmoved, content, offset>>

(* Stat, and the size Truncate starts from: nothing to do, cut the file,   *)
(* or write zeros from its end.                                            *)
StatFile(c) ==
    /\ Calls(c, "stat")
    /\ LET size == task[c].call.off
       IN  IF Method(c) = "Stat" \/ size = Len(content)
           THEN Return(c, "nil", IF Method(c) = "Stat" THEN Sizes(Len(content)) ELSE << >>)
           ELSE /\ task' = [task EXCEPT ![c] =
                      [@ EXCEPT !.left = size - Len(content),
                                !.pc = IF size < Len(content) THEN "cut" ELSE "end"]]
                /\ UNCHANGED history
    /\ UNCHANGED <<Unmoved, content, pos, offset>>

TruncateSeek(c) ==
    /\ \/ Calls(c, "cut") /\ pos' = Target(c)
       \/ Calls(c, "end") /\ pos' = Len(content)
    /\ task' = [task EXCEPT ![c] = [@ EXCEPT !.pc = IF task[c].pc = "cut" THEN "shrink" ELSE "grow"]]
    /\ UNCHANGED <<Unmoved, content, offset, history>>

Shrink(c) ==
    /\ Calls(c, "shrink")
    /\ content' = FileWrite(content, pos, << >>)
    /\ Return(c, "nil", << >>)
    /\ UNCHANGED <<Unmoved, pos, offset>>

toWrite_Whole(left) == Chunk           \* slip: always a whole chunk
toWrite(left) == IF left > Chunk THEN Chunk ELSE left
Grow(c) ==
    /\ Calls(c, "grow")
    /\ LET n == toWrite(task[c].left)
       IN  /\ content' = FileWrite(content, pos, [i \in 1..n |-> Zero])
           /\ pos' = pos + n
           /\ IF task[c].left > n
              THEN /\ task' = [task EXCEPT ![c] = [@ EXCEPT !.left = task[c].left - n]]
                   /\ UNCHANGED history
              ELSE Return(c, "nil", << >>)
    /\ UNCHANGED <<Unmoved, offset>>

(* Close: the backend's file, then f.file; then the connection goes back to *)
(* the pool, if f.conn still holds it, and f.conn is cleared.              *)
CloseBackend(c) ==
    /\ Calls(c, "close")
    /\ closed' = TRUE
    /\ task' = [task EXCEPT ![c] = [@ EXCEPT !.pc = "drop"]]
    /\ UNCHANGED <<work, content, pos, offset, file, lease, listed, budget, faults, panicked,
                   history>>

CloseFile(c) ==
    /\ At(c, "drop")
    /\ file' = FALSE
    /\ task' = [task EXCEPT ![c] = [@ EXCEPT !.pc = "return"]]
    /\ UNCHANGED <<work, backend, offset, lease, listed, budget, faults, panicked, history>>

ReturnConnection(c) ==
    /\ At(c, "return")
    /\ \/ /\ conn
          /\ returned' = returned + 1
          /\ task' = [task EXCEPT ![c] = [@ EXCEPT !.pc = "forget"]]
          /\ UNCHANGED history
       \/ /\ ~conn
          /\ Return(c, "nil", << >>)
          /\ UNCHANGED returned
    /\ UNCHANGED <<work, backend, offset, file, conn, contended, listed, budget, faults, panicked>>

ForgetConnection(c) ==
    /\ At(c, "forget")
    /\ conn' = FALSE
    /\ Return(c, "nil", << >>)
    /\ UNCHANGED <<work, backend, offset, file, returned, contended, listed, budget, faults,
                   panicked>>

(***************************************************************************)
(* The specification.                                                      *)
(***************************************************************************)
HandleInit ==
    /\ work \in Workloads
    /\ content = work.content /\ pos = 0 /\ closed = FALSE
    /\ offset = 0 /\ file = TRUE /\ listed = TRUE
    /\ conn = TRUE /\ returned = 0 /\ contended = FALSE
    /\ task = [c \in Callers |-> Idle]
    /\ budget = work.budget /\ faults = work.faults
    /\ panicked = FALSE
    /\ overlapped = {} /\ stream = 0 /\ calm = TRUE /\ last = NoCall

HandleNext ==
    \E c \in Callers :
        \/ \E call \in work.calls : Begin(c, call)
        \/ \E call \in work.calls : Refuse(c, call)
        \/ Enter(c)
        \/ Release(c)
        \/ Panic(c)
        \/ CallFails(c)
        \/ SaveOffset(c)
        \/ SeekBackend(c)
        \/ SeekFile(c)
        \/ Transfer(c)
        \/ LoadOffset(c)
        \/ StoreOffset(c)
        \/ RestorePosition(c)
        \/ StatFile(c)
        \/ TruncateSeek(c)
        \/ Shrink(c)
        \/ Grow(c)
        \/ CloseBackend(c)
        \/ CloseFile(c)
        \/ ReturnConnection(c)
        \/ ForgetConnection(c)

HandleSpec == HandleInit /\ [][HandleNext]_vars

(***************************************************************************)
(* Properties.                                                             *)
(***************************************************************************)
(* What a call should return and leave behind, said without positions of   *)
(* files: at is where it reads or writes.                                  *)
Resized(before, size) ==
    [i \in 1..size |-> IF i <= Len(before) THEN before[i] ELSE Zero]
ExpectedData(call, before, at) ==
    IF call.op \in {"READ", "Read", "ReadAt"} THEN FileRead(before, at, Length(call))
    ELSE IF call.op = "STANDARD_INFO" THEN Sizes(Len(before))
    ELSE Append(Sizes(Len(before)), at)
ExpectedContent(call, before, at) ==
    CASE call.op \in {"WRITE", "Write", "WriteAt"} -> FileWrite(before, at, call.data)
      [] call.op \in {"Truncate", "SET_EOF"}       -> Resized(before, call.off)
      [] OTHER                                     -> before

(* A call that no other call on the same File overlaps, and that reports   *)
(* success, has transferred at its own offset: READ, WRITE, ReadAt and     *)
(* WriteAt where they were told, Read, Write and the position query where  *)
(* the calls before left off.  Truncate and SET_INFO of the end of file    *)
(* leave exactly the requested size, old bytes kept and new ones zero.     *)
(* (file.go, smb2_file.go:430: the seek and the transfer are two calls, so *)
(* with an overlap none of this holds.)                                    *)
AloneExact ==
    LET call == last.call
        at   == IF call.op \in {"READ", "WRITE", "ReadAt", "WriteAt"} THEN call.off ELSE last.from
    IN  last.alone /\ last.err \in {"nil", "END_OF_FILE"} /\ (\A c \in Callers : ~Busy(c)) =>
            /\ call.op \in {"READ", "ReadAt", "STANDARD_INFO"} => last.got = ExpectedData(call, last.before, at)
            /\ call.op \in {"Read", "ALL_INFO"} /\ last.calm =>
                   last.got = ExpectedData(call, last.before, at)
            /\ call.op \notin {"Write"} \/ last.calm =>
                   content = ExpectedContent(call, last.before, at)

(* The comment of Seek (file.go:55) and the position a client queries:     *)
(* while nobody is in the middle of a call, File.offset, the backend's     *)
(* offset and the place where the sequence of calls has left off are one   *)
(* position, after ReadAt and WriteAt as well, also when one of them       *)
(* failed.  Two things end this until the next Seek, READ or WRITE: two    *)
(* calls that overlapped, and a Truncate that changed the size, which      *)
(* moves the backend's offset and not the File's (file.go:131, 148).       *)
OffsetTracks ==
    (\A c \in Callers : ~Busy(c)) /\ calm /\ ~closed => offset = stream /\ pos = stream

(* A method is called on a nil f.file only inside a call that another call *)
(* on the same File has overlapped.                                        *)
PanicNeedsRace ==
    panicked => \E c \in overlapped : Busy(c)

(* What a lock-free Close (file.go:69) still promises.  A method is called *)
(* on a nil f.file only inside a call that another one has overlapped:     *)
(* once Close has returned, every call that starts later is answered with  *)
(* an error.  The connection of a closed File has gone back to the pool    *)
(* when nobody is in the middle of a call, and it has gone back twice only *)
(* if two callers were inside Close at once, which CLOSE requests, taking  *)
(* the handle out of its table first, never are.                           *)
CloseSafe ==
    /\ PanicNeedsRace
    /\ ~file /\ (\A c \in Callers : ~Busy(c)) => returned > 0
    /\ returned > 1 => contended
    /\ contended => \E call \in work.calls : call.op = "Close"
=============================================================================
