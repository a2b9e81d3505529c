--------------------------- MODULE ClientFileSystem ---------------------------
(***************************************************************************)
(* FileSystem of filesystem.go above a share.  An operation is a list of   *)
(* share calls, each with a connection borrowed from the pool, some of     *)
(* them retried (retry.go).  Several goroutines work at once on the share  *)
(* of mock_smb.go; calls fail, replies get lost, the pool runs dry and the *)
(* file system is closed under their feet.                                 *)
(*                                                                         *)
(* The metadata cache is off, as it is by default (CachedFileSystem is     *)
(* about the cache).  Of the pool it keeps the count of connections, the   *)
(* slots of those being dialled and the queue of waiters with their        *)
(* channels; which connection is which is ConnectionPool's matter.         *)
(***************************************************************************)
EXTENDS MockSMB, Paths

CONSTANTS
    Clients,      \* goroutines
    Situations,   \* what may happen, by name: who calls (callers) what (calls)
                  \* and how often (budget), the share at first (shares), the
                  \* connections (conns is MaxOpen), how many share calls go
                  \* wrong (faults) in which ways, whether Close is called (closes)
    Alphabet,     \* the names of the share in the order Readdir sorts them
    MaxAttempts,  \* RetryPolicy.MaxAttempts; 0 would mean the same as 1
    Nobody        \* the reader of a channel whose waiter has left

ASSUME AttemptsAssumption == MaxAttempts \in Nat \ {0}
ASSUME SituationAssumption ==
    /\ IsFiniteSet(Clients) /\ Nobody \notin Clients
    /\ \A s \in DOMAIN Situations :
          Situations[s].conns \in Nat /\ Situations[s].callers \subseteq Clients

VARIABLES
    situation,    \* the one this behaviour is about
    files,        \* the share
    free,         \* connections idle or yet to be dialled
    waiters,      \* p.waiters: who reads each channel
    handed,       \* clients whose channel holds a connection
    lost,         \* connections in channels that nobody reads
    state,        \* "open", then "cancelled" (fsys.ctx is done), then "closed" (the pool)
    task,         \* what each client is in the middle of
    open,         \* how many open files each client holds
    mine,         \* paths a client was told it created with O_EXCL, until removed
    budget,       \* calls still to be made
    faults        \* how many more share calls go wrong

poolVars == <<free, waiters, handed, lost>>
vars == <<situation, files, poolVars, state, task, open, mine, budget, faults>>

Now == Situations[situation]
Idle == [pc |-> "idle"]
Busy(c) == task[c].pc # "idle"
At(c, pc) == task[c].pc = pc

(***************************************************************************)
(* Errors.                                                                 *)
(***************************************************************************)
(* convertError and isRetryable.  What the share says is converted first,  *)
(* so a closed connection is retried only when the pool reports it.        *)
convertError(err) == IF err = "ErrConnectionClosed" THEN "ErrClosed" ELSE err
isRetryable(err) == err \in {"Temporary", "ErrConnectionClosed", "ErrPoolExhausted"}

(***************************************************************************)
(* The share calls an operation is made of.  OpenFile and Stat retry, the  *)
(* others do not; with MaxAttempts of 1 nothing is retried.                *)
(***************************************************************************)
Step(do, path) == [do |-> do, path |-> path]
Retried(step) == step.do \in {"stat", "open"} /\ MaxAttempts > 1

FirstStep(call, path) ==
    Step(CASE call.op \in {"OpenFile", "ReadDir", "ReadFile", "Truncate"} -> "open"
           [] call.op \in {"Chdir", "MkdirAll", "RemoveAll"} -> "stat"
           [] call.op = "Rename" -> "rename"
           [] call.op = "Chmod"  -> "chmod", path)

(* The flags an operation opens with; Create and OpenFile pass on their own. *)
Flags(call) ==
    CASE call.op = "OpenFile" -> call.flags
      [] call.op = "Truncate" -> {"WRITE"}
      [] call.op \in {"ReadDir", "ReadFile", "RemoveAll"} -> {}

(* What the share answers and what the call leaves behind.                 *)
ShareError(call, step, p) ==
    CASE step.do = "stat"   -> StatError(files, p)
      [] step.do = "open"   -> OpenError(files, p, Flags(call))
      [] step.do = "mkdir"  -> MkdirError(files, p)
      [] step.do = "remove" -> RemoveError(files, p)
      [] step.do = "rename" -> RenameError(files, p, normalize(call.to))
      [] step.do = "chmod"  -> StatError(files, p)
ShareEffect(call, step, p) ==
    CASE ShareError(call, step, p) # "nil" -> files
      [] ShareError(call, step, p) = "nil" /\ step.do = "open" ->
             OpenEffect(files, p, Flags(call))
      [] ShareError(call, step, p) = "nil" /\ step.do = "mkdir"  -> With(files, {p}, "dir")
      [] ShareError(call, step, p) = "nil" /\ step.do = "remove" -> Without(files, p)
      [] ShareError(call, step, p) = "nil" /\ step.do = "rename" ->
             RenameEffect(files, p, normalize(call.to))
      [] ShareError(call, step, p) = "nil" /\ step.do \in {"stat", "chmod"} -> files

(***************************************************************************)
(* What an operation does with an answer.  The outcome is the share calls  *)
(* left to make, and the error that ends the operation before them.        *)
(***************************************************************************)
Ends(err) == [agenda |-> << >>, err |-> err]
Goes(agenda) == [agenda |-> agenda, err |-> "nil"]

(* MkdirAll: when Stat fails, for whatever reason, the directory above is  *)
(* made first, unless that is the root, and then this one.                 *)
AfterMkdirAll(step, rest, err, kind) ==
    CASE step.do = "stat" /\ err = "nil" ->
             IF kind = "dir" THEN Goes(rest) ELSE Ends("ErrNotDirectory")
      [] step.do = "stat" /\ err # "nil" ->
             Goes((IF Len(step.path) > 1 THEN <<Step("stat", dir(step.path))>> ELSE << >>)
                  \o <<Step("mkdir", step.path)>> \o rest)
      [] step.do = "mkdir" ->
             IF err = "nil" THEN Goes(rest) ELSE Ends(err)

(* RemoveAll: what is not there is removed already; a file is removed, a   *)
(* directory is listed, its children are removed and then it is.           *)
AfterRemoveAll_EmptyDone(step, rest, err, kind, names) ==
    CASE step.do = "stat" /\ err = "ErrNotExist" -> Goes(rest)
      [] step.do = "open" /\ err = "EOF" -> Goes(rest)
      [] err = "nil" /\ step.do = "stat" ->
             Goes(<<Step(IF kind = "dir" THEN "open" ELSE "remove", step.path)>> \o rest)
      [] err = "nil" /\ step.do = "open" ->
             Goes([i \in DOMAIN names |-> Step("stat", join(step.path, names[i]))]
                  \o <<Step("remove", step.path)>> \o rest)
      [] err = "nil" /\ step.do = "remove" -> Goes(rest)
      [] OTHER -> Ends(err)
AfterRemoveAll(step, rest, err, kind, names) ==
    CASE step.do = "stat" /\ err = "ErrNotExist" -> Goes(rest)
      [] err = "nil" /\ step.do = "stat" ->
             Goes(<<Step(IF kind = "dir" THEN "open" ELSE "remove", step.path)>> \o rest)
      [] err = "nil" /\ step.do = "open" ->
             Goes([i \in DOMAIN names |-> Step("stat", join(step.path, names[i]))]
                  \o <<Step("remove", step.path)>> \o rest)
      [] err = "nil" /\ step.do = "remove" -> Goes(rest)
      [] OTHER -> Ends(err)

Outcome(call, step, rest, err, kind, names) ==
    CASE call.op = "MkdirAll"  -> AfterMkdirAll(step, rest, err, kind)
      [] call.op = "RemoveAll" -> AfterRemoveAll(step, rest, err, kind, names)
      [] call.op = "Chdir" ->
             Ends(IF err = "nil" /\ kind # "dir" THEN "ErrNotDirectory" ELSE err)
      [] OTHER -> Ends(err)

(***************************************************************************)
(* Steps of a client.  A task holds the call, the share calls left (the    *)
(* first is the one under way) and the attempt at it, what the file it has *)
(* open is, and the error to return.  before, made, gone and calm are      *)
(* history: the share at the call, the paths that appeared and vanished    *)
(* since, and whether nothing the operation does not hide has happened.    *)
(***************************************************************************)
StartPc(step) == IF Retried(step) THEN "loop" ELSE "get"

Answered(t, err, kind, names) ==
    LET out == Outcome(t.call, Head(t.agenda), Tail(t.agenda), err, kind, names)
    IN  IF out.err = "nil" /\ out.agenda # << >>
        THEN [t EXCEPT !.agenda = out.agenda, !.pc = StartPc(Head(out.agenda)), !.attempt = 1]
        ELSE [t EXCEPT !.agenda = << >>, !.pc = "return", !.err = out.err]

(* withRetry after a failed attempt: whether it returns the error.         *)
GivesUp_Late(t, err) ==
    \/ ~Retried(Head(t.agenda))
    \/ ~isRetryable(err)
    \/ t.attempt > MaxAttempts
GivesUp_Early(t, err) ==
    \/ ~Retried(Head(t.agenda))
    \/ ~isRetryable(err)
    \/ t.attempt + 1 >= MaxAttempts
GivesUp(t, err) ==
    \/ ~Retried(Head(t.agenda))
    \/ ~isRetryable(err)
    \/ t.attempt = MaxAttempts

(* What ends the calm: a closed connection or file system, a dial that is  *)
(* refused, and a passing failure where nothing is retried or of the last  *)
(* attempt there is.                                                       *)
Disturbs(t, err) ==
    \/ err \in {"ErrConnectionClosed", "ErrClosed", "Canceled", "Permanent", "unmounted"}
    \/ /\ err \in {"Temporary", "ErrPoolExhausted"}
       /\ Head(t.agenda).do \notin {"stat", "open"} \/ t.attempt >= MaxAttempts
Failed(t, err) ==
    LET u == [t EXCEPT !.calm = @ /\ ~Disturbs(t, err)]
    IN  IF GivesUp(t, err) THEN Answered(u, err, "none", << >>)
        ELSE [u EXCEPT !.pc = "backoff"]

(* c goes on with t; every operation under way sees the share change.      *)
Settle(c, t) ==
    LET saw(u, own) ==
            IF u.pc = "idle" THEN u
            ELSE [u EXCEPT !.made = @ \cup (DOMAIN files' \ DOMAIN files),
                           !.gone = @ \cup (DOMAIN files \ DOMAIN files'),
                           !.calm = @ /\ (own \/ files' = files)]
    IN  task' = [d \in Clients |-> IF d = c THEN saw(t, TRUE) ELSE saw(task[d], FALSE)]
Quietly(c, t) == task' = [task EXCEPT ![c] = t] /\ UNCHANGED files

(* put: the first waiter's channel gets the connection, whether or not     *)
(* that waiter still reads it; after Close the connection is closed.       *)
Put ==
    \/ state = "closed" /\ UNCHANGED poolVars
    \/ /\ state # "closed" /\ waiters = << >>
       /\ free' = free + 1
       /\ UNCHANGED <<waiters, handed, lost>>
    \/ /\ state # "closed" /\ waiters # << >>
       /\ waiters' = Tail(waiters)
       /\ handed' = handed \cup ({Head(waiters)} \ {Nobody})
       /\ lost' = IF Head(waiters) = Nobody THEN lost + 1 ELSE lost
       /\ UNCHANGED free

(* A call: the path is checked and normalized before anything else.        *)
Call(c, call) ==
    /\ ~Busy(c) /\ budget > 0
    /\ budget' = budget - 1
    /\ LET valid == validatePath(call.raw) /\ (call.op = "Rename" => validatePath(call.to))
           t == [call |-> call, pc |-> "return", agenda |-> << >>, attempt |-> 1, kind |-> "none",
                 err |-> "ErrInvalidPath", before |-> files, made |-> {}, gone |-> {},
                 calm |-> state = "open"]
           first == FirstStep(call, normalize(call.raw))
       IN  Quietly(c, IF valid THEN [t EXCEPT !.pc = StartPc(first), !.agenda = <<first>>,
                                              !.err = "nil"]
                      ELSE t)
    /\ UNCHANGED <<situation, poolVars, state, open, mine, faults>>

(* withRetry: the context is looked at before every attempt and during the *)
(* wait between two.                                                       *)
Loop(c) ==
    /\ At(c, "loop")
    /\ Quietly(c, IF state = "open" THEN [task[c] EXCEPT !.pc = "get"]
                  ELSE Failed(task[c], "Canceled"))
    /\ UNCHANGED <<situation, poolVars, state, open, mine, budget, faults>>
Backoff(c) ==
    /\ At(c, "backoff")
    /\ \/ Quietly(c, [task[c] EXCEPT !.pc = "loop", !.attempt = @ + 1])
       \/ state # "open" /\ Quietly(c, Failed(task[c], "Canceled"))
    /\ UNCHANGED <<situation, poolVars, state, open, mine, budget, faults>>

(* connectionPool.get: an idle connection, or a slot to dial one in, or a  *)
(* place in the queue, even when others already wait for a slot that has   *)
(* come free.                                                              *)
Borrow(c) ==
    /\ At(c, "get") /\ state # "closed" /\ free > 0
    /\ free' = free - 1
    /\ \E pc \in {"call", "dial"} : Quietly(c, [task[c] EXCEPT !.pc = pc])
    /\ UNCHANGED <<situation, waiters, handed, lost, state, open, mine, budget, faults>>
Wait(c) ==
    /\ At(c, "get") /\ state # "closed" /\ free = 0
    /\ waiters' = Append(waiters, c)
    /\ Quietly(c, [task[c] EXCEPT !.pc = "wait"])
    /\ UNCHANGED <<situation, free, handed, lost, state, open, mine, budget, faults>>
PoolClosed(c) ==
    /\ At(c, "get") /\ state = "closed"
    /\ Quietly(c, Failed(task[c], "ErrConnectionClosed"))
    /\ UNCHANGED <<situation, poolVars, state, open, mine, budget, faults>>

(* createConnection succeeds, or fails, perhaps for good (the network is   *)
(* there but session setup or the mount is refused), or ends with the      *)
(* file system.  The slot is given back, and to no waiter.                 *)
Dial(c) ==
    /\ At(c, "dial")
    /\ Quietly(c, [task[c] EXCEPT !.pc = "call"])
    /\ UNCHANGED <<situation, poolVars, state, open, mine, budget, faults>>
DialFails(c) ==
    /\ At(c, "dial")
    /\ \/ /\ faults > 0 /\ "dial" \in Now.ways
          /\ faults' = faults - 1
          /\ \E err \in {"Temporary", "Permanent"} : Quietly(c, Failed(task[c], err))
       \/ /\ state # "open"
          /\ Quietly(c, Failed(task[c], "Canceled"))
          /\ UNCHANGED faults
    /\ free' = IF state = "closed" THEN free ELSE free + 1
    /\ UNCHANGED <<situation, waiters, handed, lost, state, open, mine, budget>>

(* The wait ends with a connection, with ConnTimeout, which leaves the     *)
(* channel in the queue, or with the context, which takes it out.  Close   *)
(* closes the channels of the queue: the same error as the timeout.        *)
Receive(c) ==
    /\ At(c, "wait") /\ c \in handed
    /\ handed' = handed \ {c}
    /\ Quietly(c, [task[c] EXCEPT !.pc = "call"])
    /\ UNCHANGED <<situation, free, waiters, lost, state, open, mine, budget, faults>>
Leaves(c) ==
    /\ handed' = handed \ {c}
    /\ lost' = IF c \in handed THEN lost + 1 ELSE lost
TimesOut_Patient(c) ==
    /\ At(c, "wait") /\ state = "closed"
    /\ waiters' = [i \in DOMAIN waiters |-> IF waiters[i] = c THEN Nobody ELSE waiters[i]]
    /\ Leaves(c)
    /\ Quietly(c, Failed(task[c], "ErrPoolExhausted"))
    /\ UNCHANGED <<situation, free, state, open, mine, budget, faults>>
TimesOut(c) ==
    /\ At(c, "wait")
    /\ waiters' = [i \in DOMAIN waiters |-> IF waiters[i] = c THEN Nobody ELSE waiters[i]]
    /\ Leaves(c)
    /\ Quietly(c, Failed(task[c], "ErrPoolExhausted"))
    /\ UNCHANGED <<situation, free, state, open, mine, budget, faults>>
Canceled(c) ==
    /\ At(c, "wait") /\ state # "open"
    /\ \/ \E i \in DOMAIN waiters : waiters[i] = c /\ waiters' = RemoveAt(waiters, i)
       \/ c \notin ToSet(waiters) /\ UNCHANGED waiters
    /\ Leaves(c)
    /\ Quietly(c, Failed(task[c], "Canceled"))
    /\ UNCHANGED <<situation, free, state, open, mine, budget, faults>>

(* The share call and what its caller does with the answer: OpenFile keeps *)
(* the connection in the File, everything else puts it back.               *)
Path(c) == normalizeMockPath(toSMBPath(Head(task[c].agenda).path))
StillMine == [d \in Clients |-> mine[d] \cap DOMAIN files']
Served(c) ==
    LET t == task[c]  step == Head(t.agenda)  err == ShareError(t.call, step, Path(c))
    IN  /\ At(c, "call") /\ err = "nil"
        /\ files' = ShareEffect(t.call, step, Path(c))
        /\ LET kind == IF step.do \in {"stat", "open"} THEN files'[Path(c)] ELSE "none"
               kept == step.do = "open" /\ t.call.op = "OpenFile"
               used == step.do = "open" /\ t.call.op # "OpenFile"
           IN  /\ Settle(c, IF used THEN [t EXCEPT !.pc = "use", !.kind = kind]
                            ELSE Answered(t, "nil", kind, << >>))
               /\ IF kept THEN open' = [open EXCEPT ![c] = @ + 1] ELSE UNCHANGED open
               /\ IF kept \/ used THEN UNCHANGED poolVars ELSE Put
               /\ mine' = [StillMine EXCEPT ![c] =
                              IF kept /\ "EXCL" \in Flags(t.call) THEN @ \cup {Path(c)} ELSE @]
        /\ UNCHANGED <<situation, state, budget, faults>>
Refused_OpenKeeps(c) ==
    LET t == task[c]  err == ShareError(t.call, Head(t.agenda), Path(c))
    IN  /\ At(c, "call") /\ err # "nil"
        /\ Quietly(c, Failed(t, convertError(err)))
        /\ IF Head(t.agenda).do = "open" THEN UNCHANGED poolVars ELSE Put
        /\ UNCHANGED <<situation, state, open, mine, budget, faults>>
Refused(c) ==
    LET t == task[c]  err == ShareError(t.call, Head(t.agenda), Path(c))
    IN  /\ At(c, "call") /\ err # "nil"
        /\ Quietly(c, Failed(t, convertError(err)))
        /\ Put
        /\ UNCHANGED <<situation, state, open, mine, budget, faults>>

(* The network fails before the request is sent, or the reply is lost      *)
(* after the share did its part, or the connection turns out to be closed. *)
GoesWrong(c, way) ==
    LET t == task[c]  step == Head(t.agenda)
        exclusive == step.do = "open" /\ "EXCL" \in Flags(t.call)
    IN  /\ At(c, "call")
        /\ faults > 0 /\ way \in Now.ways \ {"dial"}
        /\ faults' = faults - 1
        /\ files' = IF way = "lost" THEN ShareEffect(t.call, step, Path(c)) ELSE files
        /\ mine' = StillMine
        /\ Settle(c, Failed([t EXCEPT !.calm = @ /\ ~(way = "lost" /\ exclusive)],
                            IF way = "cut" THEN convertError("ErrConnectionClosed")
                            ELSE "Temporary"))
        /\ Put
        /\ UNCHANGED <<situation, state, open, budget>>

(* After Close the share of a borrowed connection is unmounted, or already *)
(* nil: calling it is an error or a panic.                                 *)
Unmounted(c) ==
    /\ At(c, "call") /\ state = "closed"
    /\ \/ Quietly(c, Failed(task[c], "unmounted"))
       \/ Quietly(c, [task[c] EXCEPT !.pc = "return", !.err = "panic", !.calm = FALSE])
    /\ UNCHANGED <<situation, poolVars, state, open, mine, budget, faults>>

(* ReadDir, ReadFile and Truncate with the file they opened, and its       *)
(* Close.  Nothing here is retried; an empty listing is io.EOF; after      *)
(* Close the session of the file may be gone.                              *)
Listing(p) == SelectSeq(Alphabet, LAMBDA name : Append(p, name) \in Children(files, p))
UseError(call, kind, names) ==
    CASE call.op = "Truncate" -> "nil"
      [] call.op = "ReadFile" -> IF kind = "dir" THEN "ErrNotDirectory" ELSE "nil"
      [] call.op \in {"ReadDir", "RemoveAll"} ->
             IF kind # "dir" THEN "ErrNotDirectory"
             ELSE IF names = << >> THEN "EOF" ELSE "nil"
UseFile(c) ==
    /\ At(c, "use")
    /\ \/ /\ LET names == Listing(Path(c))
             IN  Quietly(c, Answered(task[c], UseError(task[c].call, task[c].kind, names),
                                     "none", names))
          /\ UNCHANGED faults
       \/ /\ state = "closed"
          /\ Quietly(c, Answered(task[c], "unmounted", "none", << >>))
          /\ UNCHANGED faults
       \/ /\ faults > 0 /\ "unsent" \in Now.ways
          /\ faults' = faults - 1
          /\ Quietly(c, Answered([task[c] EXCEPT !.calm = FALSE], "Temporary", "none", << >>))
    /\ Put
    /\ UNCHANGED <<situation, state, open, mine, budget>>

Return(c) ==
    /\ At(c, "return")
    /\ Quietly(c, Idle)
    /\ UNCHANGED <<situation, poolVars, state, open, mine, budget, faults>>

(* File.Close, by whoever opened the file, sooner or later or never.       *)
CloseFile(c) ==
    /\ ~Busy(c) /\ open[c] > 0
    /\ open' = [open EXCEPT ![c] = @ - 1]
    /\ Put
    /\ UNCHANGED <<situation, files, state, task, mine, budget, faults>>

(* FileSystem.Close: the context, then the pool.                           *)
Close ==
    /\ \/ state = "open" /\ Now.closes /\ state' = "cancelled" /\ UNCHANGED poolVars
       \/ /\ state = "cancelled" /\ state' = "closed"
          /\ free' = 0 /\ waiters' = << >> /\ UNCHANGED <<handed, lost>>
    /\ task' = [c \in Clients |-> IF Busy(c) THEN [task[c] EXCEPT !.calm = FALSE] ELSE Idle]
    /\ UNCHANGED <<situation, files, open, mine, budget, faults>>

Init ==
    /\ situation \in DOMAIN Situations
    /\ files \in Now.shares
    /\ free = Now.conns /\ waiters = << >> /\ handed = {} /\ lost = 0
    /\ state = "open"
    /\ task = [c \in Clients |-> Idle]
    /\ open = [c \in Clients |-> 0]
    /\ mine = [c \in Clients |-> {}]
    /\ budget = Now.budget
    /\ faults = Now.faults

(* What a client inside a call does by itself, whatever it meets.          *)
Proceeds(c) ==
    \/ Loop(c) \/ Backoff(c)
    \/ Borrow(c) \/ Wait(c) \/ PoolClosed(c) \/ Dial(c) \/ DialFails(c)
    \/ Receive(c) \/ TimesOut(c) \/ Canceled(c)
    \/ Served(c) \/ Refused(c) \/ Unmounted(c)
    \/ \E way \in Now.ways : GoesWrong(c, way)
    \/ UseFile(c)
    \/ Return(c)

Next ==
    \/ \E c \in Now.callers : \E call \in Now.calls : Call(c, call)
    \/ \E c \in Clients : Proceeds(c)
    \/ \E c \in Clients : CloseFile(c)
    \/ Close

(* A goroutine inside a call keeps running: waits are bounded by           *)
(* ConnTimeout and by the backoff, and the share answers or fails.         *)
Spec == Init /\ [][Next]_vars /\ \A c \in Clients : WF_vars(Proceeds(c))

(***************************************************************************)
(* Properties.                                                             *)
(***************************************************************************)
(* A client on its way to a share call has one to make, and never tries it *)
(* more often than the policy of withRetry says, whichever of its attempts *)
(* fail where: at the pool, at the dial, at the share or after it.         *)
WithinPolicy ==
    \A c \in Clients :
        task[c].pc \in {"loop", "get", "dial", "wait", "call", "use", "backoff"} =>
            task[c].agenda # << >> /\ task[c].attempt \in 1..MaxAttempts

(* The types; what stands on the share has a path of names of the share,   *)
(* and attempts stay within the policy.                                    *)
TypeOK ==
    /\ \A p \in DOMAIN files : files[p] \in {"dir", "file"} /\ p \in Seq(ToSet(Alphabet))
    /\ free \in 0..Now.conns /\ lost \in Nat
    /\ waiters \in Seq(Clients \cup {Nobody}) /\ handed \subseteq Clients
    /\ state \in {"open", "cancelled", "closed"}
    /\ \A c \in Clients :
          task[c].pc \in {"idle", "loop", "get", "dial", "wait", "call", "use", "backoff",
                          "return"}
    /\ WithinPolicy

(* Only a path that stays on the share, and none of whose names is odd, is *)
(* accepted, and every share call is then made for what the path means or, *)
(* in MkdirAll and RemoveAll, for a directory above or something below it: *)
(* validatePath, normalize, dir and join agree on what ".." takes away.    *)
NamesResolved ==
    \A c \in Clients : Busy(c) =>
        LET raw == task[c].call.raw
            meant == Meaning(raw.parts)
            odd == \/ ~raw.abs /\ raw.parts = << >>
                   \/ LeavesShare(raw)
                   \/ ToSet(raw.parts) \cap NulNames # {}
                   \/ \E i \in DOMAIN raw.parts :
                         raw.parts[i] \in DotDotNames /\ Stays(raw.parts, i)
        IN  /\ task[c].agenda # << >> =>
                  /\ ~odd
                  /\ IsPrefix(Path(c), meant) \/ IsPrefix(meant, Path(c))
            /\ odd /\ task[c].call.op # "Rename" => At(c, "return") /\ task[c].err = "ErrInvalidPath"

(* O_CREATE|O_EXCL makes a file a lock: two clients are never both told    *)
(* they created it unless it was removed in between, whatever is retried.  *)
ExclusiveOnce ==
    \A c, d \in Clients : c # d => mine[c] \cap mine[d] = {}

(* A nil from RemoveAll: of what stood there when it was called nothing    *)
(* remains; a nil from MkdirAll: every directory on the path stands or was *)
(* removed since.  Whatever other clients did meanwhile, and through any   *)
(* failed or repeated call.                                                *)
NilMeansDone ==
    \A c \in Clients : At(c, "return") /\ task[c].err = "nil" =>
        LET path == normalize(task[c].call.raw)
        IN  /\ task[c].call.op = "RemoveAll" =>
                  \A p \in DOMAIN files : IsPrefix(path, p) => p \in task[c].made
            /\ task[c].call.op = "MkdirAll" =>
                  \A k \in 1..Len(path) :
                      IsDir(files, SubSeq(path, 1, k)) \/ SubSeq(path, 1, k) \in task[c].gone

(* What an operation does to a share nobody else touches.  RemoveAll fails *)
(* at the first empty directory: listing it is io.EOF.                     *)
EmptyDir(share, p) == IsDir(share, p) /\ Below(share, p) = {}
OnPath(p) == {SubSeq(p, 1, k) : k \in 0..Len(p)}
Expected(call, path, share) ==
    CASE call.op \in {"Chdir", "MkdirAll"} ->
             LET file == \E p \in OnPath(path) : Exists(share, p) /\ ~IsDir(share, p)
             IN  IF call.op = "Chdir"
                 THEN [err |-> IF ~Exists(share, path) THEN "ErrNotExist"
                               ELSE IF file THEN "ErrNotDirectory" ELSE "nil", files |-> share]
                 ELSE [err |-> IF file THEN "ErrNotDirectory" ELSE "nil",
                       files |-> IF file THEN share ELSE With(share, OnPath(path), "dir")]
      [] call.op = "ReadFile" ->
             [err |-> IF ~Exists(share, path) THEN "ErrNotExist"
                      ELSE IF IsDir(share, path) THEN "ErrNotDirectory" ELSE "nil",
              files |-> share]
      [] call.op = "Truncate" ->
             [err |-> IF ~Exists(share, path) THEN "ErrNotExist"
                      ELSE IF IsDir(share, path) THEN "IsDirectory" ELSE "nil",
              files |-> share]
      [] call.op = "OpenFile" ->
             [err |-> IF Exists(share, path) THEN "ErrExist" ELSE "nil",
              files |-> IF Exists(share, path) THEN share
                        ELSE [p \in DOMAIN share \cup OnPath(path) |->
                                 IF p \in DOMAIN share THEN share[p]
                                 ELSE IF p = path THEN "file" ELSE "dir"]]

(* Alone, an operation does exactly what its name says, and fewer than     *)
(* MaxAttempts failures of a call that is retried do not show.  RemoveAll  *)
(* is the exception: it succeeds only where no directory is empty.         *)
RetriesInvisible ==
    \A c \in Clients : At(c, "return") /\ task[c].calm /\ task[c].err # "ErrInvalidPath" =>
        LET call == task[c].call
            path == normalize(call.raw)
            share == task[c].before
        IN  /\ call.op \in {"Chdir", "MkdirAll", "ReadFile", "Truncate", "OpenFile"} =>
                  [err |-> task[c].err, files |-> files] = Expected(call, path, share)
            /\ call.op = "RemoveAll" =>
                  LET stuck == \E p \in DOMAIN share : IsPrefix(path, p) /\ EmptyDir(share, p)
                  IN  /\ task[c].err = IF stuck THEN "EOF" ELSE "nil"
                      /\ Exists(files, path) <=> stuck

(* Until Close every connection is accounted for, on any way out of any    *)
(* attempt: it is free, being dialled, in a share call, in a file, in the  *)
(* channel of a client that waits, or in a channel whose waiter has left   *)
(* at its timeout or with the context.  And a client that waits is not     *)
(* forgotten: it stands in the queue once, or its channel has a            *)
(* connection.                                                             *)
Borrowers == {c \in Clients : task[c].pc \in {"dial", "call", "use"}}
OpenFiles == UNION {{c} \X (1..open[c]) : c \in Clients}
Places(c) == {i \in DOMAIN waiters : waiters[i] = c}
ConnectionsAccounted ==
    state # "closed" =>
        /\ free + Cardinality(Borrowers) + Cardinality(OpenFiles) + Cardinality(handed) + lost
             = Now.conns
        /\ \A c \in handed : At(c, "wait")
        /\ \A c \in Clients :
              IF At(c, "wait") /\ c \notin handed THEN \E i \in DOMAIN waiters : Places(c) = {i}
              ELSE Places(c) = {}

(* Every call returns, though it waits for connections others hold, or its *)
(* own caller does, for ever.                                              *)
CallsReturn == \A c \in Clients : Busy(c) ~> ~Busy(c)
==============================================================================
