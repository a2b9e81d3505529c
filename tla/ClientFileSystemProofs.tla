----------------------- MODULE ClientFileSystemProofs -----------------------
(***************************************************************************)
(* Proofs about the client's file system, for any number of goroutines,    *)
(* connections and attempts, any share and any operations on it: that a    *)
(* file made with O_EXCL has one maker, that every connection is accounted *)
(* for, and that nothing is tried more often than the policy says.         *)
(***************************************************************************)
EXTENDS ClientFileSystem, FiniteSetTheorems, TLAPS

(* Both provers, the quicker one first.                                      *)
USE ZenonT(1), SMTT(60)

-----------------------------------------------------------------------------
(* Exclusive creation.  What a client was told it created still stands, so   *)
(* the share refuses to create it for another.                               *)

ExclInv ==
  /\ DOMAIN mine = Clients
  /\ \A c \in Clients : mine[c] \subseteq DOMAIN files
  /\ ExclusiveOnce

(* Creating p leaves p on the share.                                         *)
LEMMA OpenedExists ==
  ASSUME NEW f, NEW p, NEW flags, OpenError(f, p, flags) = "nil", "EXCL" \in flags
  PROVE  p \notin DOMAIN f /\ p \in DOMAIN OpenEffect(f, p, flags)
<1>1. p \notin DOMAIN f
  BY DEF OpenError, Exists
<1>2. OpenEffect(f, p, flags) = ensureParentDirs(With(f, {p}, "file"), p)
  BY <1>1 DEF OpenEffect, Exists
<1>3. p \in DOMAIN With(f, {p}, "file")
  BY DEF With
<1>4. \A g, ps : DOMAIN g \subseteq DOMAIN With(g, ps, "dir")
  BY DEF With
<1>5. DOMAIN With(f, {p}, "file") \subseteq DOMAIN ensureParentDirs(With(f, {p}, "file"), p)
  BY <1>4 DEF ensureParentDirs
<1> QED
  BY <1>1, <1>2, <1>3, <1>5

(* What a client loses only by the share losing it keeps the invariant.      *)
LEMMA StillMineKeeps == ExclInv /\ mine' = StillMine => ExclInv'
  BY DEF ExclInv, ExclusiveOnce, StillMine

LEMMA ServedKeeps ==
  ASSUME ExclInv, NEW c \in Clients, Served(c)
  PROVE  ExclInv'
<1> DEFINE t == task[c]
           step == Head(t.agenda)
           new == step.do = "open" /\ t.call.op = "OpenFile" /\ "EXCL" \in Flags(t.call)
<1>1. /\ ShareError(t.call, step, Path(c)) = "nil"
      /\ files' = ShareEffect(t.call, step, Path(c))
      /\ mine' = [StillMine EXCEPT ![c] = IF new THEN @ \cup {Path(c)} ELSE @]
  BY DEF Served
<1>2. CASE ~new
  <2>1. mine' = StillMine
    BY <1>1, <1>2 DEF StillMine
  <2> QED
    BY <2>1, StillMineKeeps
<1>3. CASE new
  <2>1. /\ OpenError(files, Path(c), Flags(t.call)) = "nil"
        /\ files' = OpenEffect(files, Path(c), Flags(t.call))
    BY <1>1, <1>3 DEF ShareError, ShareEffect
  <2>2. Path(c) \notin DOMAIN files /\ Path(c) \in DOMAIN files'
    BY <1>3, <2>1, OpenedExists
  <2>3. /\ DOMAIN mine' = Clients
        /\ mine'[c] = (mine[c] \cap DOMAIN files') \cup {Path(c)}
        /\ \A d \in Clients \ {c} : mine'[d] = mine[d] \cap DOMAIN files'
    BY <1>1, <1>3 DEF StillMine
  <2>4. \A d \in Clients : Path(c) \notin mine[d]
    BY <2>2 DEF ExclInv
  <2>5. \A d \in Clients : mine'[d] \subseteq DOMAIN files'
    BY <2>2, <2>3
  <2>6. ASSUME NEW a \in Clients, NEW b \in Clients, a # b
        PROVE  mine'[a] \cap mine'[b] = {}
    <3>1. mine[a] \cap mine[b] = {}
      BY <2>6 DEF ExclInv, ExclusiveOnce
    <3> QED
      BY <2>3, <2>4, <2>6, <3>1
  <2> QED
    BY <2>3, <2>5, <2>6 DEF ExclInv, ExclusiveOnce
<1> QED
  BY <1>2, <1>3

LEMMA ExclStep == ExclInv /\ [Next]_vars => ExclInv'
<1> SUFFICES ASSUME ExclInv, [Next]_vars PROVE ExclInv'
  OBVIOUS
<1>1. ASSUME UNCHANGED <<files, mine>> PROVE ExclInv'
  BY <1>1 DEF ExclInv, ExclusiveOnce
<1>2. ASSUME NEW c \in Clients, Proceeds(c) PROVE ExclInv'
  <2>1. CASE Loop(c) \/ Backoff(c) \/ Borrow(c) \/ Wait(c) \/ PoolClosed(c)
    BY <1>1, <2>1 DEF Loop, Backoff, Borrow, Wait, PoolClosed, Quietly
  <2>2. CASE Dial(c) \/ DialFails(c) \/ Receive(c) \/ TimesOut(c) \/ Canceled(c)
    BY <1>1, <2>2 DEF Dial, DialFails, Receive, TimesOut, Canceled, Quietly
  <2>3. CASE Served(c)
    BY <2>3, ServedKeeps
  <2>4. CASE Refused(c) \/ Unmounted(c) \/ UseFile(c) \/ Return(c)
    BY <1>1, <2>4 DEF Refused, Unmounted, UseFile, Return, Quietly
  <2>5. CASE \E way \in Now.ways : GoesWrong(c, way)
    BY <2>5, StillMineKeeps DEF GoesWrong
  <2> QED
    BY <1>2, <2>1, <2>2, <2>3, <2>4, <2>5 DEF Proceeds
<1>3. ASSUME NEW c, NEW call, Call(c, call) PROVE ExclInv'
  BY <1>1, <1>3 DEF Call, Quietly
<1>4. ASSUME NEW c, CloseFile(c) PROVE ExclInv'
  BY <1>1, <1>4 DEF CloseFile
<1>5. CASE Close
  BY <1>1, <1>5 DEF Close
<1>6. CASE UNCHANGED vars
  BY <1>1, <1>6 DEF vars
<1> QED
  BY <1>2, <1>3, <1>4, <1>5, <1>6 DEF Next

(* O_CREATE|O_EXCL makes one owner, whoever else tries, whatever is lost or  *)
(* retried and whenever files are renamed or removed (FileSystem.OpenFile).  *)
THEOREM ExclusiveMakers == Spec => []ExclusiveOnce
<1>1. Init => ExclInv
  BY DEF Init, ExclInv, ExclusiveOnce
<1>2. ExclInv => ExclusiveOnce
  BY DEF ExclInv
<1> QED
  BY <1>1, <1>2, ExclStep, PTL DEF Spec

-----------------------------------------------------------------------------
(* Tasks.  A client inside a call has a task with these fields, and wherever *)
(* it is on its way to a share call there is one on its agenda.  Attempts    *)
(* stay within the policy because a client in backoff has one left.          *)

Shaped(t) == {"pc", "agenda", "attempt", "kind", "err", "made", "gone", "calm"} \subseteq DOMAIN t
Pending == {"loop", "get", "dial", "wait", "call", "use", "backoff"}
TaskOK(t) ==
  \/ t = Idle
  \/ /\ Shaped(t) /\ t.pc \in Pending \cup {"return"}
     /\ t.pc \in Pending => t.agenda # << >> /\ t.attempt \in 1 .. MaxAttempts
     /\ t.pc = "backoff" => t.attempt < MaxAttempts

TasksInv == DOMAIN task = Clients /\ \A c \in Clients : TaskOK(task[c])

(* u is t with another history.                                              *)
Like(u, t) == Shaped(u) /\ u.pc = t.pc /\ u.agenda = t.agenda /\ u.attempt = t.attempt

LEMMA LikeKeeps == \A t, u : TaskOK(t) /\ t # Idle /\ Like(u, t) => TaskOK(u)
  BY DEF TaskOK, Like

(* Being told of an answer: the next share call, or the return.              *)
LEMMA AnsweredFacts ==
  ASSUME NEW t, Shaped(t), NEW err, NEW kind, NEW names
  PROVE  /\ TaskOK(Answered(t, err, kind, names))
         /\ Answered(t, err, kind, names).pc \in {"loop", "get", "return"}
<1> DEFINE out == Outcome(t.call, Head(t.agenda), Tail(t.agenda), err, kind, names)
           a == Answered(t, err, kind, names)
<1>1. CASE out.err = "nil" /\ out.agenda # << >>
  <2> HIDE DEF out
  <2>1. a = [t EXCEPT !.agenda = out.agenda, !.pc = StartPc(Head(out.agenda)), !.attempt = 1]
    BY <1>1 DEF Answered, out
  <2>2. StartPc(Head(out.agenda)) \in {"loop", "get"}
    BY DEF StartPc
  <2> HIDE DEF a
  <2>3. /\ DOMAIN a = DOMAIN t /\ a.agenda = out.agenda /\ a.attempt = 1
        /\ a.pc = StartPc(Head(out.agenda))
    BY <2>1 DEF Shaped
  <2>4. TaskOK(a) /\ a.pc \in {"loop", "get", "return"}
    BY <1>1, <2>2, <2>3, AttemptsAssumption DEF TaskOK, Shaped, Pending
  <2> QED
    BY <2>4 DEF a
<1>2. CASE ~(out.err = "nil" /\ out.agenda # << >>)
  <2> HIDE DEF out
  <2>1. a = [t EXCEPT !.agenda = << >>, !.pc = "return", !.err = out.err]
    BY <1>2 DEF Answered, out
  <2> HIDE DEF a
  <2>2. DOMAIN a = DOMAIN t /\ a.pc = "return"
    BY <2>1 DEF Shaped
  <2>3. TaskOK(a) /\ a.pc \in {"loop", "get", "return"}
    BY <2>2 DEF TaskOK, Shaped, Pending
  <2> QED
    BY <2>3 DEF a
<1> QED
  BY <1>1, <1>2

(* A failed attempt: as an answer, or once more if one is left.              *)
LEMMA FailedFacts ==
  ASSUME NEW t, TaskOK(t), t.pc \in Pending, NEW err
  PROVE  TaskOK(Failed(t, err)) /\ Failed(t, err).pc \in {"loop", "get", "backoff", "return"}
<1>0. Shaped(t) /\ t.agenda # << >> /\ t.attempt \in 1 .. MaxAttempts
  BY DEF TaskOK, Idle, Pending
<1> PICK u : u = [t EXCEPT !.calm = @ /\ ~Disturbs(t, err)]
  OBVIOUS
<1>1. Shaped(u) /\ u.agenda = t.agenda /\ u.attempt = t.attempt
  BY <1>0 DEF Shaped
<1>2. CASE GivesUp(t, err)
  <2>1. Failed(t, err) = Answered(u, err, "none", << >>)
    BY <1>2 DEF Failed
  <2> QED
    BY <1>1, <2>1, AnsweredFacts
<1>3. CASE ~GivesUp(t, err)
  <2>1. Failed(t, err) = [u EXCEPT !.pc = "backoff"]
    BY <1>3 DEF Failed
  <2>2. t.attempt < MaxAttempts
    BY <1>0, <1>3, AttemptsAssumption DEF GivesUp
  <2>3. /\ Shaped([u EXCEPT !.pc = "backoff"]) /\ [u EXCEPT !.pc = "backoff"].pc = "backoff"
        /\ [u EXCEPT !.pc = "backoff"].agenda = u.agenda
        /\ [u EXCEPT !.pc = "backoff"].attempt = u.attempt
    BY <1>1 DEF Shaped
  <2> QED
    BY <1>0, <1>1, <2>1, <2>2, <2>3 DEF TaskOK, Pending
<1> QED
  BY <1>2, <1>3

(* The step of one client that only moves pc, to a share call or away.       *)
LEMMA MovedFacts ==
  ASSUME NEW t, TaskOK(t), t.pc \in Pending, NEW pc \in Pending \ {"backoff"}
  PROVE  /\ TaskOK([t EXCEPT !.pc = pc]) /\ [t EXCEPT !.pc = pc].pc = pc
         /\ Shaped([t EXCEPT !.pc = pc])
<1>1. Shaped(t) /\ t.agenda # << >> /\ t.attempt \in 1 .. MaxAttempts
  BY DEF TaskOK, Idle, Pending
<1>2. /\ Shaped([t EXCEPT !.pc = pc]) /\ [t EXCEPT !.pc = pc].pc = pc
      /\ [t EXCEPT !.pc = pc].agenda = t.agenda /\ [t EXCEPT !.pc = pc].attempt = t.attempt
  BY <1>1 DEF Shaped
<1> QED
  BY <1>1, <1>2 DEF TaskOK

(* Every operation under way has its history brought up to date, no more.    *)
LEMMA SettleFacts ==
  ASSUME TasksInv, NEW c \in Clients, NEW t, TaskOK(t), t # Idle, Settle(c, t)
  PROVE  /\ TasksInv' /\ task'[c].pc = t.pc
         /\ \A d \in Clients \ {c} : task'[d].pc = task[d].pc
<1> DEFINE saw(u, own) ==
            IF u.pc = "idle" THEN u
            ELSE [u EXCEPT !.made = @ \cup (DOMAIN files' \ DOMAIN files),
                           !.gone = @ \cup (DOMAIN files \ DOMAIN files'),
                           !.calm = @ /\ (own \/ files' = files)]
<1>1. task' = [d \in Clients |-> IF d = c THEN saw(t, TRUE) ELSE saw(task[d], FALSE)]
  BY DEF Settle
<1>2. ASSUME NEW u, NEW own, TaskOK(u)
      PROVE  TaskOK(saw(u, own)) /\ saw(u, own).pc = u.pc
  <2>1. CASE u = Idle
    BY <2>1, <1>2 DEF Idle
  <2>2. CASE u # Idle
    <3>1. Shaped(u) /\ u.pc # "idle"
      BY <1>2, <2>2 DEF TaskOK, Pending
    <3> PICK m, g, k : saw(u, own) = [u EXCEPT !.made = m, !.gone = g, !.calm = k]
      BY <3>1
    <3>2. Like([u EXCEPT !.made = m, !.gone = g, !.calm = k], u)
      BY <3>1 DEF Like, Shaped
    <3> QED
      BY <1>2, <2>2, <3>2, LikeKeeps DEF Like
  <2> QED
    BY <2>1, <2>2
<1> HIDE DEF saw
<1> QED
  BY <1>1, <1>2 DEF TasksInv

LEMMA QuietlyFacts ==
  ASSUME TasksInv, NEW c \in Clients, NEW t, TaskOK(t), Quietly(c, t)
  PROVE  /\ TasksInv' /\ task'[c] = t
         /\ \A d \in Clients \ {c} : task'[d].pc = task[d].pc
  BY DEF Quietly, TasksInv

-----------------------------------------------------------------------------
(* Connections.  What a step of client c may do to them.                     *)

Holds(c) == task[c].pc \in {"dial", "call", "use"}
Waits(c) == task[c].pc = "wait"
OthersStay(c) == \A d \in Clients \ {c} : task'[d].pc = task[d].pc

Keeps(c) ==
  (Holds(c)' <=> Holds(c)) /\ (Waits(c)' <=> Waits(c)) /\ UNCHANGED <<poolVars, open>>
Borrows(c) ==
  /\ ~Holds(c) /\ Holds(c)' /\ ~Waits(c) /\ free > 0 /\ free' = free - 1
  /\ UNCHANGED <<waiters, handed, lost, open>>
GivesBack(c) ==
  /\ Holds(c) /\ ~Holds(c)' /\ ~Waits(c)'
  /\ free' = IF state = "closed" THEN free ELSE free + 1
  /\ UNCHANGED <<waiters, handed, lost, open>>
Queues(c) ==
  /\ ~Holds(c) /\ ~Waits(c) /\ Waits(c)' /\ waiters' = Append(waiters, c)
  /\ UNCHANGED <<free, handed, lost, open>>
Receives(c) ==
  /\ Waits(c) /\ Holds(c)' /\ c \in handed /\ handed' = handed \ {c}
  /\ UNCHANGED <<free, waiters, lost, open>>
Quits(c) ==
  /\ Waits(c) /\ ~Waits(c)' /\ ~Holds(c)' /\ Leaves(c) /\ UNCHANGED <<free, open>>
  /\ \/ waiters' = [i \in DOMAIN waiters |-> IF waiters[i] = c THEN Nobody ELSE waiters[i]]
     \/ \E i \in DOMAIN waiters : waiters[i] = c /\ waiters' = RemoveAt(waiters, i)
     \/ c \notin ToSet(waiters) /\ UNCHANGED waiters
Puts(c) == Holds(c) /\ ~Holds(c)' /\ ~Waits(c)' /\ Put /\ UNCHANGED open
Opens(c) ==
  /\ Holds(c) /\ ~Holds(c)' /\ ~Waits(c)'
  /\ open' = [open EXCEPT ![c] = @ + 1] /\ UNCHANGED poolVars

Moves(c) ==
  /\ TasksInv' /\ OthersStay(c) /\ UNCHANGED <<situation, state>>
  /\ \/ Keeps(c) \/ Borrows(c) \/ GivesBack(c) \/ Queues(c) \/ Receives(c) \/ Quits(c)
     \/ Puts(c) \/ Opens(c)
     \/ state = "closed" /\ UNCHANGED <<poolVars, open>>

LEMMA LoopMoves == ASSUME TasksInv, NEW c \in Clients, Loop(c) \/ Backoff(c) PROVE Moves(c)
<1>1. TaskOK(task[c]) /\ task[c].pc \in Pending /\ ~Holds(c) /\ ~Waits(c)
  BY DEF TasksInv, Loop, Backoff, At, Pending, Holds, Waits
<1>2. ASSUME NEW t, TaskOK(t), t.pc \in {"loop", "get", "backoff", "return"}, Quietly(c, t)
      PROVE  Moves(c)
  <2>1. TasksInv' /\ OthersStay(c) /\ ~Holds(c)' /\ ~Waits(c)'
    BY <1>2, QuietlyFacts DEF OthersStay, Holds, Waits
  <2> QED
    BY <1>1, <2>1 DEF Moves, Keeps, Loop, Backoff
<1>3. CASE Quietly(c, Failed(task[c], "Canceled"))
  BY <1>1, <1>2, <1>3, FailedFacts
<1>4. CASE Loop(c) /\ Quietly(c, [task[c] EXCEPT !.pc = "get"])
  <2>1. TaskOK([task[c] EXCEPT !.pc = "get"]) /\ [task[c] EXCEPT !.pc = "get"].pc = "get"
    BY <1>1, MovedFacts DEF Pending
  <2> QED
    BY <1>2, <1>4, <2>1
<1>5. CASE Backoff(c) /\ Quietly(c, [task[c] EXCEPT !.pc = "loop", !.attempt = @ + 1])
  <2> PICK u : u = [task[c] EXCEPT !.pc = "loop", !.attempt = @ + 1]
    OBVIOUS
  <2>1. /\ Shaped(task[c]) /\ task[c].agenda # << >>
        /\ task[c].attempt \in 1 .. MaxAttempts /\ task[c].attempt < MaxAttempts
    BY <1>1, <1>5 DEF TaskOK, Backoff, At, Idle, Pending
  <2>2. Shaped(u) /\ u.pc = "loop" /\ u.agenda = task[c].agenda /\ u.attempt = task[c].attempt + 1
    BY <2>1 DEF Shaped
  <2>3. TaskOK(u)
    BY <2>1, <2>2, AttemptsAssumption DEF TaskOK, Pending
  <2> QED
    BY <1>2, <1>5, <2>2, <2>3
<1> QED
  BY <1>3, <1>4, <1>5 DEF Loop, Backoff

(* get, up to the connection, the dial or the queue.                         *)
LEMMA GetMoves ==
  ASSUME TasksInv, NEW c \in Clients, Borrow(c) \/ Wait(c) \/ PoolClosed(c)
  PROVE  Moves(c)
<1>1. TaskOK(task[c]) /\ task[c].pc \in Pending /\ ~Holds(c) /\ ~Waits(c)
  BY DEF TasksInv, Borrow, Wait, PoolClosed, At, Pending, Holds, Waits
<1>2. CASE Borrow(c)
  <2> PICK pc \in {"call", "dial"} : Quietly(c, [task[c] EXCEPT !.pc = pc])
    BY <1>2 DEF Borrow
  <2>1. TaskOK([task[c] EXCEPT !.pc = pc]) /\ [task[c] EXCEPT !.pc = pc].pc = pc
    BY <1>1, MovedFacts DEF Pending
  <2>2. TasksInv' /\ OthersStay(c) /\ Holds(c)'
    BY <2>1, QuietlyFacts DEF OthersStay, Holds
  <2> QED
    BY <1>1, <1>2, <2>2 DEF Moves, Borrows, Borrow
<1>3. CASE Wait(c)
  <2>1. TaskOK([task[c] EXCEPT !.pc = "wait"]) /\ [task[c] EXCEPT !.pc = "wait"].pc = "wait"
    BY <1>1, MovedFacts DEF Pending
  <2>2. TasksInv' /\ OthersStay(c) /\ Waits(c)'
    BY <1>3, <2>1, QuietlyFacts DEF OthersStay, Waits, Wait
  <2> QED
    BY <1>1, <1>3, <2>2 DEF Moves, Queues, Wait
<1>4. CASE PoolClosed(c)
  <2>1. TasksInv' /\ OthersStay(c)
    BY <1>1, <1>4, FailedFacts, QuietlyFacts DEF OthersStay, PoolClosed
  <2> QED
    BY <1>4, <2>1 DEF Moves, PoolClosed
<1> QED
  BY <1>2, <1>3, <1>4

LEMMA DialMoves ==
  ASSUME TasksInv, NEW c \in Clients, Dial(c) \/ DialFails(c)
  PROVE  Moves(c)
<1>1. TaskOK(task[c]) /\ task[c].pc \in Pending /\ Holds(c) /\ ~Waits(c)
  BY DEF TasksInv, Dial, DialFails, At, Pending, Holds, Waits
<1>2. CASE Dial(c)
  <2>1. TaskOK([task[c] EXCEPT !.pc = "call"]) /\ [task[c] EXCEPT !.pc = "call"].pc = "call"
    BY <1>1, MovedFacts DEF Pending
  <2>2. TasksInv' /\ OthersStay(c) /\ Holds(c)' /\ ~Waits(c)'
    BY <1>2, <2>1, QuietlyFacts DEF OthersStay, Holds, Waits, Dial
  <2> QED
    BY <1>1, <1>2, <2>2 DEF Moves, Keeps, Dial
<1>3. CASE DialFails(c)
  <2> PICK err : Quietly(c, Failed(task[c], err))
    BY <1>3 DEF DialFails
  <2>1. TasksInv' /\ OthersStay(c) /\ ~Holds(c)' /\ ~Waits(c)'
    BY <1>1, FailedFacts, QuietlyFacts DEF OthersStay, Holds, Waits
  <2> QED
    BY <1>1, <1>3, <2>1 DEF Moves, GivesBack, DialFails
<1> QED
  BY <1>2, <1>3

(* The ends of the wait.                                                     *)
LEMMA WaitMoves ==
  ASSUME TasksInv, NEW c \in Clients, Receive(c) \/ TimesOut(c) \/ Canceled(c)
  PROVE  Moves(c)
<1>1. TaskOK(task[c]) /\ task[c].pc \in Pending /\ ~Holds(c) /\ Waits(c)
  BY DEF TasksInv, Receive, TimesOut, Canceled, At, Pending, Holds, Waits
<1>2. CASE Receive(c)
  <2>1. TaskOK([task[c] EXCEPT !.pc = "call"]) /\ [task[c] EXCEPT !.pc = "call"].pc = "call"
    BY <1>1, MovedFacts DEF Pending
  <2>2. TasksInv' /\ OthersStay(c) /\ Holds(c)'
    BY <1>2, <2>1, QuietlyFacts DEF OthersStay, Holds, Receive
  <2> QED
    BY <1>1, <1>2, <2>2 DEF Moves, Receives, Receive
<1>3. CASE TimesOut(c) \/ Canceled(c)
  <2> PICK err : Quietly(c, Failed(task[c], err))
    BY <1>3 DEF TimesOut, Canceled
  <2>1. TasksInv' /\ OthersStay(c) /\ ~Holds(c)' /\ ~Waits(c)'
    BY <1>1, FailedFacts, QuietlyFacts DEF OthersStay, Holds, Waits
  <2> QED
    BY <1>1, <1>3, <2>1 DEF Moves, Quits, TimesOut, Canceled
<1> QED
  BY <1>2, <1>3

LEMMA ServedMoves == ASSUME TasksInv, NEW c \in Clients, Served(c) PROVE Moves(c)
<1> DEFINE t == task[c]
           step == Head(t.agenda)
           used == step.do = "open" /\ t.call.op # "OpenFile"
           kept == step.do = "open" /\ t.call.op = "OpenFile"
<1>1. TaskOK(t) /\ t.pc = "call" /\ Holds(c) /\ Shaped(t)
  BY DEF TasksInv, Served, At, Holds, TaskOK, Idle
<1>0. ~Waits(c)
  BY <1>1 DEF Waits
<1> PICK kind : Settle(c, IF used THEN [t EXCEPT !.pc = "use", !.kind = kind]
                          ELSE Answered(t, "nil", kind, << >>))
  BY DEF Served
<1>2. /\ UNCHANGED <<situation, state>>
      /\ IF kept THEN open' = [open EXCEPT ![c] = @ + 1] ELSE UNCHANGED open
      /\ IF kept \/ used THEN UNCHANGED poolVars ELSE Put
  BY DEF Served
<1>3. CASE used
  <2> PICK u : u = [t EXCEPT !.pc = "use", !.kind = kind]
    OBVIOUS
  <2>1. Shaped(u) /\ u.pc = "use" /\ u.agenda = t.agenda /\ u.attempt = t.attempt
    BY <1>1 DEF Shaped
  <2>2. t.agenda # << >> /\ t.attempt \in 1 .. MaxAttempts
    BY <1>1 DEF TaskOK, Pending, Idle
  <2>3. TaskOK(u)
    BY <2>1, <2>2 DEF TaskOK, Pending
  <2>4. u # Idle
    BY <2>1 DEF Idle
  <2>5. Settle(c, u)
    BY <1>3
  <2>6. TasksInv' /\ task'[c].pc = "use" /\ OthersStay(c)
    BY <2>1, <2>3, <2>4, <2>5, SettleFacts DEF OthersStay
  <2>7. Holds(c)' /\ ~Waits(c)'
    BY <2>6 DEF Holds, Waits
  <2> QED
    BY <1>0, <1>1, <1>2, <1>3, <2>6, <2>7 DEF Moves, Keeps
<1>4. CASE ~used
  <2> PICK u : u = Answered(t, "nil", kind, << >>)
    OBVIOUS
  <2>1. TaskOK(u) /\ u.pc \in {"loop", "get", "return"}
    BY <1>1, AnsweredFacts
  <2>2. u # Idle
    BY <2>1 DEF Idle
  <2>3. Settle(c, u)
    BY <1>4
  <2>4. TasksInv' /\ task'[c].pc \in {"loop", "get", "return"} /\ OthersStay(c)
    BY <2>1, <2>2, <2>3, SettleFacts DEF OthersStay
  <2>5. ~Holds(c)' /\ ~Waits(c)'
    BY <2>4 DEF Holds, Waits
  <2> QED
    BY <1>1, <1>2, <1>4, <2>4, <2>5 DEF Moves, Puts, Opens
<1> QED
  BY <1>3, <1>4

LEMMA FailureMoves ==
  ASSUME TasksInv, NEW c \in Clients,
         Refused(c) \/ Unmounted(c) \/ \E way \in Now.ways : GoesWrong(c, way)
  PROVE  Moves(c)
<1>0. TaskOK(task[c]) /\ task[c].pc = "call"
  BY DEF TasksInv, Refused, Unmounted, GoesWrong, At
<1>1. TaskOK(task[c]) /\ task[c].pc = "call" /\ task[c].pc \in Pending /\ Holds(c) /\ Shaped(task[c])
  BY <1>0 DEF Holds, TaskOK, Idle, Pending
<1>2. CASE Refused(c)
  <2> PICK err : Quietly(c, Failed(task[c], err))
    BY <1>2 DEF Refused
  <2>1. TasksInv' /\ OthersStay(c) /\ ~Holds(c)' /\ ~Waits(c)'
    BY <1>1, FailedFacts, QuietlyFacts DEF OthersStay, Holds, Waits
  <2> QED
    BY <1>1, <1>2, <2>1 DEF Moves, Puts, Refused
<1>3. CASE Unmounted(c)
  <2>1. CASE Quietly(c, Failed(task[c], "unmounted"))
    BY <1>1, <1>3, <2>1, FailedFacts, QuietlyFacts DEF Moves, OthersStay, Unmounted
  <2>2. CASE Quietly(c, [task[c] EXCEPT !.pc = "return", !.err = "panic", !.calm = FALSE])
    <3> PICK u : u = [task[c] EXCEPT !.pc = "return", !.err = "panic", !.calm = FALSE]
      OBVIOUS
    <3>1. Shaped(u) /\ u.pc = "return"
      BY <1>1 DEF Shaped
    <3>2. TaskOK(u)
      BY <3>1 DEF TaskOK, Pending
    <3> QED
      BY <1>3, <2>2, <3>2, QuietlyFacts DEF Moves, OthersStay, Unmounted
  <2> QED
    BY <1>3, <2>1, <2>2 DEF Unmounted
<1>4. ASSUME NEW way \in Now.ways, GoesWrong(c, way) PROVE Moves(c)
  <2> PICK k, err : Settle(c, Failed([task[c] EXCEPT !.calm = k], err))
    BY <1>4 DEF GoesWrong
  <2> PICK u : u = [task[c] EXCEPT !.calm = k]
    OBVIOUS
  <2>1. Like(u, task[c])
    BY <1>1 DEF Like, Shaped
  <2>2. TaskOK(u) /\ u.pc \in Pending
    BY <1>1, <2>1, LikeKeeps DEF Like, Idle
  <2>3. TaskOK(Failed(u, err)) /\ Failed(u, err).pc \in {"loop", "get", "backoff", "return"}
    BY <2>2, FailedFacts
  <2>4. Failed(u, err) # Idle
    BY <2>3 DEF Idle
  <2>5. TasksInv' /\ OthersStay(c) /\ task'[c].pc \in {"loop", "get", "backoff", "return"}
    BY <2>3, <2>4, SettleFacts DEF OthersStay
  <2>6. ~Holds(c)' /\ ~Waits(c)'
    BY <2>5 DEF Holds, Waits
  <2> QED
    BY <1>1, <1>4, <2>5, <2>6 DEF Moves, Puts, GoesWrong
<1> QED
  BY <1>2, <1>3, <1>4

LEMMA ReturnMoves ==
  ASSUME TasksInv, NEW c \in Clients, UseFile(c) \/ Return(c)
  PROVE  Moves(c)
<1>1. TaskOK(task[c]) /\ Shaped(task[c])
  BY DEF TasksInv, UseFile, Return, At, TaskOK, Idle
<1>2. CASE Return(c)
  BY <1>2, QuietlyFacts DEF Moves, Keeps, OthersStay, Holds, Waits, Return, At, Idle, TaskOK
<1>3. CASE UseFile(c)
  <2> PICK u, err, names : Quietly(c, Answered(u, err, "none", names))
                           /\ (u = task[c] \/ u = [task[c] EXCEPT !.calm = FALSE])
    BY <1>3 DEF UseFile
  <2>1. Shaped(u)
    BY <1>1 DEF Shaped
  <2>2. TasksInv' /\ OthersStay(c) /\ ~Holds(c)' /\ ~Waits(c)'
    BY <2>1, AnsweredFacts, QuietlyFacts DEF OthersStay, Holds, Waits
  <2> QED
    BY <1>3, <2>2 DEF Moves, Puts, UseFile, At, Holds
<1> QED
  BY <1>2, <1>3

(* Counting: one more, one less.                                             *)
LEMMA Counting ==
  ASSUME NEW A, IsFiniteSet(A)
  PROVE  /\ Cardinality(A) \in Nat
         /\ \A x : x \notin A => /\ IsFiniteSet(A \cup {x})
                                 /\ Cardinality(A \cup {x}) = Cardinality(A) + 1
         /\ \A x \in A : /\ IsFiniteSet(A \ {x})
                         /\ Cardinality(A \ {x}) = Cardinality(A) - 1
<1>1. Cardinality(A) \in Nat
  BY FS_CardinalityType
<1>2. ASSUME NEW x, x \notin A
      PROVE  IsFiniteSet(A \cup {x}) /\ Cardinality(A \cup {x}) = Cardinality(A) + 1
  BY <1>2, FS_AddElement
<1>3. ASSUME NEW x \in A
      PROVE  IsFiniteSet(A \ {x}) /\ Cardinality(A \ {x}) = Cardinality(A) - 1
  BY <1>3, FS_RemoveElement
<1> QED
  BY <1>1, <1>2, <1>3

LEMMA OpenFilesAre ==
  \A x : x \in OpenFiles <=> \E d \in Clients : \E i \in 1 .. open[d] : x = <<d, i>>
  BY DEF OpenFiles

(* The user opens a file, or closes one.                                     *)
LEMMA FileOpened ==
  ASSUME open \in [Clients -> Nat], IsFiniteSet(OpenFiles),
         NEW c \in Clients, open' = [open EXCEPT ![c] = @ + 1]
  PROVE  /\ open' \in [Clients -> Nat] /\ IsFiniteSet(OpenFiles')
         /\ Cardinality(OpenFiles') = Cardinality(OpenFiles) + 1
<1>1. \A x : x \in OpenFiles' <=> \E d \in Clients : \E i \in 1 .. open'[d] : x = <<d, i>>
  BY DEF OpenFiles
<1>2. 1 .. open'[c] = (1 .. open[c]) \cup {open[c] + 1} /\ open[c] \in Nat
  OBVIOUS
<1>3. \A d \in Clients \ {c} : open'[d] = open[d]
  OBVIOUS
<1>4. \A x : x \in OpenFiles' <=> x \in OpenFiles \cup {<<c, open[c] + 1>>}
  BY <1>1, <1>2, <1>3, OpenFilesAre
<1>5. open[c] + 1 \notin 1 .. open[c]
  BY <1>2
<1>6. OpenFiles' = OpenFiles \cup {<<c, open[c] + 1>>} /\ <<c, open[c] + 1>> \notin OpenFiles
  BY <1>4, <1>5, OpenFilesAre
<1>7. IsFiniteSet(OpenFiles') /\ Cardinality(OpenFiles') = Cardinality(OpenFiles) + 1
  BY <1>6, Counting
<1> QED
  BY <1>7

LEMMA FileClosed ==
  ASSUME open \in [Clients -> Nat], IsFiniteSet(OpenFiles),
         NEW c \in Clients, open[c] > 0, open' = [open EXCEPT ![c] = @ - 1]
  PROVE  /\ open' \in [Clients -> Nat] /\ IsFiniteSet(OpenFiles')
         /\ Cardinality(OpenFiles') = Cardinality(OpenFiles) - 1
<1>1. \A x : x \in OpenFiles' <=> \E d \in Clients : \E i \in 1 .. open'[d] : x = <<d, i>>
  BY DEF OpenFiles
<1>2. 1 .. open'[c] = (1 .. open[c]) \ {open[c]} /\ open[c] \in 1 .. open[c]
  OBVIOUS
<1>3. \A d \in Clients \ {c} : open'[d] = open[d]
  OBVIOUS
<1>4. \A x : x \in OpenFiles' <=> x \in OpenFiles \ {<<c, open[c]>>}
  BY <1>1, <1>2, <1>3, OpenFilesAre
<1>5. OpenFiles' = OpenFiles \ {<<c, open[c]>>} /\ <<c, open[c]>> \in OpenFiles
  BY <1>2, <1>4, OpenFilesAre
<1>6. IsFiniteSet(OpenFiles') /\ Cardinality(OpenFiles') = Cardinality(OpenFiles) - 1
  BY <1>5, Counting
<1>7. open[c] - 1 \in Nat
  OBVIOUS
<1> QED
  BY <1>6, <1>7

(* The queue ws of the waiters W, of whom those of h have been handed a      *)
(* connection: the others stand in it, once each.                            *)
QueueIs(W, ws, h) ==
  /\ h \subseteq W
  /\ \A i \in DOMAIN ws : ws[i] # Nobody => ws[i] \in W \ h
  /\ \A c \in W \ h : \E i \in DOMAIN ws : ws[i] = c
  /\ \A i, j \in DOMAIN ws : ws[i] = ws[j] /\ ws[i] # Nobody => i = j

Channels == Seq(Clients \cup {Nobody})

LEMMA QueuePut ==
  ASSUME NEW W \in SUBSET Clients, NEW ws \in Channels, NEW h, QueueIs(W, ws, h), ws # << >>
  PROVE  /\ Tail(ws) \in Channels
         /\ QueueIs(W, Tail(ws), h \cup ({Head(ws)} \ {Nobody}))
         /\ Head(ws) # Nobody => Head(ws) \in W \ h
<1>1. /\ Len(ws) \in Nat \ {0} /\ DOMAIN ws = 1 .. Len(ws) /\ Head(ws) = ws[1]
      /\ Tail(ws) \in Channels /\ DOMAIN Tail(ws) = 1 .. Len(ws) - 1
      /\ \A i \in 1 .. Len(ws) - 1 : Tail(ws)[i] = ws[i + 1]
  BY DEF Channels
<1>2. 1 \in DOMAIN ws /\ \A i \in DOMAIN Tail(ws) : i + 1 \in DOMAIN ws /\ i + 1 # 1
  BY <1>1
<1>3. Head(ws) # Nobody => Head(ws) \in W \ h
  BY <1>1, <1>2 DEF QueueIs
<1>4. \A c \in W \ h : c # Head(ws) => \E i \in DOMAIN Tail(ws) : Tail(ws)[i] = c
  <2> SUFFICES ASSUME NEW c \in W \ h, c # Head(ws)
               PROVE  \E i \in DOMAIN Tail(ws) : Tail(ws)[i] = c
    OBVIOUS
  <2> PICK k \in DOMAIN ws : ws[k] = c
    BY DEF QueueIs
  <2>1. k - 1 \in DOMAIN Tail(ws) /\ k - 1 + 1 = k
    BY <1>1
  <2> QED
    BY <1>1, <2>1
<1>5. \A i \in DOMAIN Tail(ws) :
        Tail(ws)[i] # Nobody => Tail(ws)[i] \in W \ h /\ Tail(ws)[i] # Head(ws)
  BY <1>1, <1>2 DEF QueueIs
<1>6. \A i, j \in DOMAIN Tail(ws) :
        Tail(ws)[i] = Tail(ws)[j] /\ Tail(ws)[i] # Nobody => i = j
  BY <1>1, <1>2 DEF QueueIs
<1>7. QueueIs(W, Tail(ws), h \cup ({Head(ws)} \ {Nobody}))
  <2> PICK g : g = h \cup ({Head(ws)} \ {Nobody})
    OBVIOUS
  <2>1. g \subseteq W
    BY <1>3 DEF QueueIs
  <2>2. \A c \in W \ g : c \in W \ h /\ c # Head(ws)
    BY SituationAssumption
  <2>3. \A c : c \in W \ h /\ c # Head(ws) => c \in W \ g
    OBVIOUS
  <2> QED
    BY <1>3, <1>4, <1>5, <1>6, <2>1, <2>2, <2>3 DEF QueueIs
<1> QED
  BY <1>1, <1>3, <1>7

LEMMA QueueWait ==
  ASSUME NEW W, NEW ws \in Channels, NEW h, QueueIs(W, ws, h), NEW c \in Clients, c \notin W
  PROVE  Append(ws, c) \in Channels /\ QueueIs(W \cup {c}, Append(ws, c), h)
<1>1. /\ Len(ws) \in Nat /\ DOMAIN ws = 1 .. Len(ws)
      /\ Append(ws, c) \in Channels /\ DOMAIN Append(ws, c) = 1 .. Len(ws) + 1
      /\ \A i \in 1 .. Len(ws) : Append(ws, c)[i] = ws[i]
      /\ Append(ws, c)[Len(ws) + 1] = c
  BY DEF Channels
<1>2. c # Nobody /\ c \notin h /\ \A i \in DOMAIN ws : ws[i] # c
  BY SituationAssumption DEF QueueIs
<1>3. \A i \in DOMAIN Append(ws, c) : i \in DOMAIN ws \/ i = Len(ws) + 1
  BY <1>1
<1>4. DOMAIN ws \subseteq DOMAIN Append(ws, c) /\ Len(ws) + 1 \in DOMAIN Append(ws, c)
  BY <1>1
<1> QED
  BY <1>1, <1>2, <1>3, <1>4 DEF QueueIs

LEMMA QueueReceive ==
  ASSUME NEW W, NEW ws, NEW h, QueueIs(W, ws, h), NEW c \in h
  PROVE  QueueIs(W \ {c}, ws, h \ {c})
  BY DEF QueueIs

LEMMA QueueTimesOut ==
  ASSUME NEW W, NEW ws \in Channels, NEW h, QueueIs(W, ws, h), NEW c \in W, NEW us,
         us = [i \in DOMAIN ws |-> IF ws[i] = c THEN Nobody ELSE ws[i]]
  PROVE  us \in Channels /\ QueueIs(W \ {c}, us, h \ {c})
<1>1. us \in Channels
  BY DEF Channels
<1>2. DOMAIN us = DOMAIN ws /\ \A i \in DOMAIN ws : us[i] # Nobody => us[i] = ws[i] /\ us[i] # c
  OBVIOUS
<1>3. \A i \in DOMAIN ws : ws[i] # c => us[i] = ws[i]
  OBVIOUS
<1> QED
  BY <1>1, <1>2, <1>3 DEF QueueIs

LEMMA QueueCanceled ==
  ASSUME NEW W, NEW ws \in Channels, NEW h, QueueIs(W, ws, h), NEW c \in W, c # Nobody,
         NEW k \in DOMAIN ws, ws[k] = c
  PROVE  RemoveAt(ws, k) \in Channels /\ QueueIs(W \ {c}, RemoveAt(ws, k), h \ {c})
<1> PICK us : us = RemoveAt(ws, k)
  OBVIOUS
<1>1. Len(ws) \in Nat /\ DOMAIN ws = 1 .. Len(ws) /\ k \in 1 .. Len(ws)
  BY DEF Channels
<1>2. us = SubSeq(ws, 1, k - 1) \o SubSeq(ws, k + 1, Len(ws))
  BY DEF RemoveAt
<1>3. /\ us \in Channels /\ Len(us) = Len(ws) - 1
      /\ \A i \in 1 .. Len(ws) - 1 : us[i] = IF i < k THEN ws[i] ELSE ws[i + 1]
  BY <1>1, <1>2 DEF Channels
<1>4. DOMAIN us = 1 .. Len(ws) - 1
  BY <1>3 DEF Channels
<1>5. \A i \in DOMAIN us : \E j \in DOMAIN ws : us[i] = ws[j] /\ j # k
  BY <1>1, <1>3, <1>4
<1>6. \A j \in DOMAIN ws : j # k => \E i \in DOMAIN us : us[i] = ws[j]
  <2> SUFFICES ASSUME NEW j \in DOMAIN ws, j # k PROVE \E i \in DOMAIN us : us[i] = ws[j]
    OBVIOUS
  <2>1. CASE j < k
    BY <1>1, <1>3, <1>4, <2>1
  <2>2. CASE j > k
    <3>1. j - 1 \in DOMAIN us /\ us[j - 1] = ws[j]
      BY <1>1, <1>3, <1>4, <2>2
    <3> QED
      BY <3>1
  <2> QED
    BY <1>1, <2>1, <2>2
<1>7. \A i, j \in DOMAIN us : us[i] = us[j] /\ us[i] # Nobody => i = j
  BY <1>1, <1>3, <1>4 DEF QueueIs
<1>8. \A j \in DOMAIN ws : j # k => ws[j] # c
  BY DEF QueueIs
<1>9. c \notin h
  BY DEF QueueIs
<1> QED
  BY <1>3, <1>5, <1>6, <1>7, <1>8, <1>9 DEF QueueIs

(* The accounts balance.                                                     *)
Waiting == {c \in Clients : Waits(c)}
PoolTyped ==
  /\ free \in Nat /\ lost \in Nat /\ handed \subseteq Clients /\ waiters \in Channels
Balanced ==
  state # "closed" =>
    /\ free + Cardinality(Borrowers) + Cardinality(OpenFiles) + Cardinality(handed) + lost
         = Now.conns
    /\ QueueIs(Waiting, waiters, handed)

AccountInv ==
  /\ TasksInv
  /\ situation \in DOMAIN Situations
  /\ PoolTyped /\ open \in [Clients -> Nat] /\ IsFiniteSet(OpenFiles)
  /\ Balanced

LEMMA AccountFacts ==
  ASSUME AccountInv
  PROVE  /\ IsFiniteSet(Borrowers) /\ Cardinality(Borrowers) \in Nat
         /\ IsFiniteSet(handed) /\ Cardinality(handed) \in Nat
         /\ Cardinality(OpenFiles) \in Nat /\ Now.conns \in Nat
         /\ free \in Nat /\ lost \in Nat
<1>1. IsFiniteSet(Borrowers) /\ IsFiniteSet(handed)
  BY SituationAssumption, FS_Subset DEF Borrowers, AccountInv, PoolTyped
<1> QED
  BY <1>1, Counting, SituationAssumption DEF AccountInv, PoolTyped, Now

(* What put does to the pool.                                                *)
LEMMA PutFacts ==
  ASSUME AccountInv, Put
  PROVE  /\ PoolTyped'
         /\ state # "closed" =>
              /\ free' + Cardinality(handed') + lost' = free + Cardinality(handed) + lost + 1
              /\ QueueIs(Waiting, waiters', handed')
<1>1. CASE state = "closed"
  BY <1>1 DEF Put, poolVars, AccountInv, PoolTyped
<1>2. CASE state # "closed" /\ waiters = << >>
  BY <1>2, AccountFacts DEF Put, AccountInv, PoolTyped, Balanced
<1>3. CASE state # "closed" /\ waiters # << >>
  <2>1. /\ waiters \in Channels /\ QueueIs(Waiting, waiters, handed)
        /\ waiters' = Tail(waiters) /\ handed' = handed \cup ({Head(waiters)} \ {Nobody})
        /\ free' = free /\ lost' = IF Head(waiters) = Nobody THEN lost + 1 ELSE lost
    BY <1>3 DEF Put, AccountInv, PoolTyped, Balanced
  <2>2. /\ waiters' \in Channels /\ QueueIs(Waiting, waiters', handed')
        /\ Head(waiters) # Nobody => Head(waiters) \in Waiting \ handed
    BY <1>3, <2>1, QueuePut DEF Waiting
  <2>3. CASE Head(waiters) = Nobody
    <3>1. handed' = handed /\ lost' = lost + 1
      BY <2>1, <2>3
    <3>0. free' = free /\ free \in Nat /\ lost \in Nat /\ Cardinality(handed) \in Nat
      BY <2>1, AccountFacts
    <3>2. free' + Cardinality(handed') + lost' = free + Cardinality(handed) + lost + 1
      BY <3>0, <3>1
    <3>3. PoolTyped'
      BY <2>2, <3>0, <3>1 DEF AccountInv, PoolTyped
    <3> QED
      BY <2>2, <3>2, <3>3
  <2>4. CASE Head(waiters) # Nobody
    <3>1. /\ handed' = handed \cup {Head(waiters)} /\ lost' = lost
          /\ Head(waiters) \in Clients \ handed
      BY <2>1, <2>2, <2>4 DEF Waiting
    <3>2. Cardinality(handed') = Cardinality(handed) + 1 /\ handed' \subseteq Clients
      BY <3>1, AccountFacts, Counting DEF AccountInv, PoolTyped
    <3> QED
      BY <1>3, <2>1, <2>2, <3>1, <3>2, AccountFacts DEF PoolTyped
  <2> QED
    BY <2>3, <2>4
<1> QED
  BY <1>1, <1>2, <1>3

(* What leaving the queue without a connection does to it.                   *)
LEMMA QuitsFacts ==
  ASSUME AccountInv, NEW c \in Clients, Quits(c)
  PROVE  /\ PoolTyped'
         /\ free' + Cardinality(handed') + lost' = free + Cardinality(handed) + lost
         /\ state # "closed" => QueueIs(Waiting \ {c}, waiters', handed')
<1>1. /\ Leaves(c) /\ free' = free /\ c \in Waiting /\ c # Nobody
      /\ waiters \in Channels /\ handed \subseteq Clients
  BY SituationAssumption DEF Quits, Waiting, AccountInv, PoolTyped
<1>2. /\ handed' = handed \ {c} /\ handed' \subseteq Clients /\ lost' \in Nat
      /\ Cardinality(handed') + lost' = Cardinality(handed) + lost
  <2>1. CASE c \in handed
    BY <1>1, <2>1, AccountFacts, Counting DEF Leaves
  <2>2. CASE c \notin handed
    <3>1. handed \ {c} = handed
      BY <2>2
    <3> QED
      BY <1>1, <2>2, <3>1, AccountFacts DEF Leaves
  <2> QED
    BY <2>1, <2>2
<1>3. waiters' \in Channels /\ (state # "closed" => QueueIs(Waiting \ {c}, waiters', handed'))
  <2>1. CASE waiters' = [i \in DOMAIN waiters |-> IF waiters[i] = c THEN Nobody ELSE waiters[i]]
    <3>1. waiters' \in Channels
      BY <1>1, <2>1 DEF Channels
    <3> QED
      BY <1>1, <1>2, <2>1, <3>1, QueueTimesOut DEF AccountInv, Balanced
  <2>2. CASE \E i \in DOMAIN waiters : waiters[i] = c /\ waiters' = RemoveAt(waiters, i)
    <3> PICK k \in DOMAIN waiters : waiters[k] = c /\ waiters' = RemoveAt(waiters, k)
      BY <2>2
    <3>1. RemoveAt(waiters, k) \in Channels
      BY <1>1 DEF Channels, RemoveAt
    <3> QED
      BY <1>1, <1>2, <3>1, QueueCanceled DEF AccountInv, Balanced
  <2>3. CASE c \notin ToSet(waiters) /\ UNCHANGED waiters
    <3>1. state # "closed" => c \in handed
      BY <1>1, <2>3 DEF AccountInv, Balanced, QueueIs, ToSet
    <3> QED
      BY <1>1, <1>2, <2>3, <3>1, QueueReceive DEF AccountInv, Balanced
  <2> QED
    BY <2>1, <2>2, <2>3 DEF Quits
<1>4. PoolTyped'
  BY <1>1, <1>2, <1>3, AccountFacts DEF PoolTyped
<1>5. Cardinality(handed') \in Nat
  BY <1>2, SituationAssumption, FS_Subset, Counting
<1>6. free' + Cardinality(handed') + lost' = free + Cardinality(handed) + lost
  BY <1>1, <1>2, <1>5, AccountFacts
<1> QED
  BY <1>3, <1>4, <1>6

LEMMA MovesAccounted ==
  ASSUME AccountInv, NEW c \in Clients, Moves(c)
  PROVE  AccountInv'
<1>1. TasksInv' /\ situation' \in DOMAIN Situations /\ Now' = Now /\ state' = state
  BY DEF AccountInv, Moves, Now
<1>2. UNCHANGED open => OpenFiles' = OpenFiles /\ open' \in [Clients -> Nat] /\ IsFiniteSet(OpenFiles')
  BY DEF OpenFiles, AccountInv
<1>3. /\ Holds(c)' /\ Holds(c) => Borrowers' = Borrowers
      /\ ~Holds(c)' /\ ~Holds(c) => Borrowers' = Borrowers
      /\ Holds(c)' /\ ~Holds(c) => Cardinality(Borrowers') = Cardinality(Borrowers) + 1
      /\ ~Holds(c)' /\ Holds(c) => Cardinality(Borrowers') = Cardinality(Borrowers) - 1
  <2>1. \A d \in Clients \ {c} : d \in Borrowers' <=> d \in Borrowers
    BY DEF Borrowers, Moves, OthersStay
  <2>2. /\ c \in Borrowers' <=> Holds(c)'
        /\ c \in Borrowers <=> Holds(c)
        /\ Borrowers \subseteq Clients /\ Borrowers' \subseteq Clients
    BY DEF Borrowers, Holds
  <2>3. /\ Holds(c)' /\ Holds(c) => Borrowers' = Borrowers
        /\ ~Holds(c)' /\ ~Holds(c) => Borrowers' = Borrowers
        /\ Holds(c)' /\ ~Holds(c) => Borrowers' = Borrowers \cup {c} /\ c \notin Borrowers
        /\ ~Holds(c)' /\ Holds(c) => Borrowers' = Borrowers \ {c} /\ c \in Borrowers
    BY <2>1, <2>2
  <2> QED
    BY <2>3, AccountFacts, Counting
<1>4. /\ Waits(c)' /\ Waits(c) => Waiting' = Waiting
      /\ ~Waits(c)' /\ ~Waits(c) => Waiting' = Waiting
      /\ Waits(c)' /\ ~Waits(c) => Waiting' = Waiting \cup {c} /\ c \notin Waiting
      /\ ~Waits(c)' /\ Waits(c) => Waiting' = Waiting \ {c}
  <2>1. \A d \in Clients \ {c} : d \in Waiting' <=> d \in Waiting
    BY DEF Waiting, Waits, Moves, OthersStay
  <2>2. /\ c \in Waiting' <=> Waits(c)'
        /\ c \in Waiting <=> Waits(c)
        /\ Waiting \subseteq Clients /\ Waiting' \subseteq Clients
    BY DEF Waiting
  <2> QED
    BY <2>1, <2>2
<1>5. Holds(c) => ~Waits(c)
  BY DEF Holds, Waits
<1>6. Holds(c)' => ~Waits(c)'
  BY DEF Holds, Waits
<1>7. ASSUME PoolTyped', open' \in [Clients -> Nat], IsFiniteSet(OpenFiles'),
             state # "closed" =>
               /\ free' + Cardinality(Borrowers') + Cardinality(OpenFiles') + Cardinality(handed') + lost'
                    = free + Cardinality(Borrowers) + Cardinality(OpenFiles) + Cardinality(handed) + lost
               /\ QueueIs(Waiting', waiters', handed')
      PROVE  AccountInv'
  BY <1>1, <1>7 DEF AccountInv, Balanced
<1>8. CASE Keeps(c)
  <2>1. /\ UNCHANGED <<free, waiters, handed, lost>> /\ PoolTyped'
        /\ Borrowers' = Borrowers /\ Waiting' = Waiting
    BY <1>3, <1>4, <1>8 DEF Keeps, poolVars, AccountInv, PoolTyped
  <2> QED
    BY <1>2, <1>7, <1>8, <2>1 DEF Keeps, AccountInv, Balanced
<1>9. CASE Borrows(c)
  <2>1. /\ UNCHANGED <<waiters, handed, lost>> /\ free' = free - 1 /\ PoolTyped'
        /\ Cardinality(Borrowers') = Cardinality(Borrowers) + 1 /\ Waiting' = Waiting
    BY <1>3, <1>4, <1>6, <1>9 DEF Borrows, AccountInv, PoolTyped
  <2> QED
    BY <1>2, <1>7, <1>9, <2>1, AccountFacts DEF Borrows, AccountInv, Balanced
<1>10. CASE GivesBack(c)
  <2>1. /\ UNCHANGED <<waiters, handed, lost>> /\ PoolTyped'
        /\ state # "closed" => free' = free + 1
        /\ Cardinality(Borrowers') = Cardinality(Borrowers) - 1 /\ Waiting' = Waiting
    BY <1>3, <1>4, <1>5, <1>10 DEF GivesBack, AccountInv, PoolTyped
  <2> QED
    BY <1>2, <1>7, <1>10, <2>1, AccountFacts DEF GivesBack, AccountInv, Balanced
<1>11. CASE Queues(c)
  <2>1. /\ UNCHANGED <<free, handed, lost>> /\ waiters' = Append(waiters, c)
        /\ Borrowers' = Borrowers /\ Waiting' = Waiting \cup {c} /\ c \notin Waiting
    BY <1>3, <1>4, <1>6, <1>11 DEF Queues
  <2>2. PoolTyped'
    BY <2>1 DEF AccountInv, PoolTyped, Channels
  <2>3. state # "closed" => QueueIs(Waiting', waiters', handed')
    BY <2>1, QueueWait DEF AccountInv, PoolTyped, Balanced
  <2> QED
    BY <1>2, <1>7, <1>11, <2>1, <2>2, <2>3 DEF Queues
<1>12. CASE Receives(c)
  <2>1. /\ UNCHANGED <<free, waiters, lost>> /\ c \in handed /\ handed' = handed \ {c}
        /\ Cardinality(Borrowers') = Cardinality(Borrowers) + 1 /\ Waiting' = Waiting \ {c}
    BY <1>3, <1>4, <1>5, <1>6, <1>12 DEF Receives
  <2>2. PoolTyped' /\ Cardinality(handed') = Cardinality(handed) - 1
    BY <2>1, AccountFacts, Counting DEF AccountInv, PoolTyped
  <2>3. state # "closed" => QueueIs(Waiting', waiters', handed')
    BY <2>1, QueueReceive DEF AccountInv, Balanced
  <2> QED
    BY <1>2, <1>7, <1>12, <2>1, <2>2, <2>3, AccountFacts DEF Receives
<1>13. CASE Quits(c)
  <2>1. Borrowers' = Borrowers /\ Waiting' = Waiting \ {c} /\ UNCHANGED open
    BY <1>3, <1>4, <1>5, <1>13 DEF Quits
  <2>2. Cardinality(handed') \in Nat /\ free' \in Nat /\ lost' \in Nat /\ PoolTyped'
    BY <1>13, QuitsFacts, SituationAssumption, FS_Subset, Counting DEF PoolTyped
  <2>3. /\ free' + Cardinality(handed') + lost' = free + Cardinality(handed) + lost
        /\ state # "closed" => QueueIs(Waiting', waiters', handed')
    BY <1>13, <2>1, QuitsFacts
  <2>4. free' + Cardinality(Borrowers') + Cardinality(OpenFiles') + Cardinality(handed') + lost'
          = free + Cardinality(Borrowers) + Cardinality(OpenFiles) + Cardinality(handed) + lost
    BY <1>2, <2>1, <2>2, <2>3, AccountFacts
  <2> QED
    BY <1>2, <1>7, <2>1, <2>2, <2>3, <2>4
<1>14. CASE Puts(c)
  <2>1. /\ Cardinality(Borrowers') = Cardinality(Borrowers) - 1 /\ Waiting' = Waiting
        /\ UNCHANGED open /\ Put
    BY <1>3, <1>4, <1>5, <1>14 DEF Puts
  <2>2. Cardinality(handed') \in Nat /\ free' \in Nat /\ lost' \in Nat /\ PoolTyped'
    BY <2>1, PutFacts, SituationAssumption, FS_Subset, Counting DEF PoolTyped
  <2> QED
    BY <1>2, <1>7, <2>1, <2>2, PutFacts, AccountFacts
<1>15. CASE Opens(c)
  <2>1. /\ UNCHANGED <<free, waiters, handed, lost>> /\ PoolTyped'
        /\ Cardinality(Borrowers') = Cardinality(Borrowers) - 1 /\ Waiting' = Waiting
    BY <1>3, <1>4, <1>5, <1>15 DEF Opens, poolVars, AccountInv, PoolTyped
  <2>2. /\ open' \in [Clients -> Nat] /\ IsFiniteSet(OpenFiles')
        /\ Cardinality(OpenFiles') = Cardinality(OpenFiles) + 1
    BY <1>15, FileOpened DEF Opens, AccountInv
  <2> QED
    BY <1>7, <2>1, <2>2, AccountFacts DEF AccountInv, Balanced
<1>16. CASE state = "closed" /\ UNCHANGED <<poolVars, open>>
  <2>1. PoolTyped'
    BY <1>16 DEF poolVars, AccountInv, PoolTyped
  <2> QED
    BY <1>2, <1>7, <1>16, <2>1
<1> QED
  BY <1>8, <1>9, <1>10, <1>11, <1>12, <1>13, <1>14, <1>15, <1>16 DEF Moves

LEMMA CallMoves ==
  ASSUME TasksInv, NEW c \in Clients, NEW call, Call(c, call)
  PROVE  Moves(c)
<1> DEFINE t == [call |-> call, pc |-> "return", agenda |-> << >>, attempt |-> 1, kind |-> "none",
                 err |-> "ErrInvalidPath", before |-> files, made |-> {}, gone |-> {},
                 calm |-> state = "open"]
           first == FirstStep(call, normalize(call.raw))
           u == [t EXCEPT !.pc = StartPc(first), !.agenda = <<first>>, !.err = "nil"]
<1>1. /\ ~Holds(c) /\ ~Waits(c) /\ UNCHANGED <<situation, poolVars, state, open>>
      /\ Quietly(c, t) \/ Quietly(c, u)
  BY DEF Call, Busy, Holds, Waits
<1>2. Shaped(t) /\ t.pc = "return"
  BY DEF Shaped
<1>3. TaskOK(t)
  BY <1>2 DEF TaskOK, Pending
<1>4. StartPc(first) \in {"loop", "get"} /\ <<first>> # << >>
  BY DEF StartPc
<1>5. Shaped(u) /\ u.pc = StartPc(first) /\ u.agenda = <<first>> /\ u.attempt = 1
  <2> HIDE DEF first
  <2> QED
    BY DEF Shaped
<1> HIDE DEF t, u, first
<1>6. TaskOK(u)
  BY <1>4, <1>5, AttemptsAssumption DEF TaskOK, Pending
<1>7. TasksInv' /\ OthersStay(c) /\ ~Holds(c)' /\ ~Waits(c)'
  BY <1>1, <1>2, <1>3, <1>4, <1>5, <1>6, QuietlyFacts DEF OthersStay, Holds, Waits
<1> QED
  BY <1>1, <1>7 DEF Moves, Keeps

(* File.Close gives back the connection the file held.                       *)
LEMMA CloseFileAccounted ==
  ASSUME AccountInv, NEW c \in Clients, CloseFile(c)
  PROVE  AccountInv'
<1>1. /\ UNCHANGED <<situation, state, task>> /\ Put
      /\ open[c] > 0 /\ open' = [open EXCEPT ![c] = @ - 1]
  BY DEF CloseFile
<1>2. TasksInv' /\ Borrowers' = Borrowers /\ Waiting' = Waiting /\ Now' = Now
  BY <1>1 DEF AccountInv, TasksInv, Borrowers, Waiting, Waits, Now
<1>3. /\ open' \in [Clients -> Nat] /\ IsFiniteSet(OpenFiles')
      /\ Cardinality(OpenFiles') = Cardinality(OpenFiles) - 1
  BY <1>1, FileClosed DEF AccountInv
<1>4. Cardinality(handed') \in Nat /\ free' \in Nat /\ lost' \in Nat /\ PoolTyped'
  BY <1>1, PutFacts, SituationAssumption, FS_Subset, Counting DEF PoolTyped
<1>5. Balanced'
  BY <1>1, <1>2, <1>3, <1>4, PutFacts, AccountFacts DEF AccountInv, Balanced
<1> QED
  BY <1>1, <1>2, <1>3, <1>4, <1>5 DEF AccountInv

(* FileSystem.Close cancels every operation and closes the pool.             *)
LEMMA CloseAccounted == AccountInv /\ Close => AccountInv'
<1> SUFFICES ASSUME AccountInv, Close PROVE AccountInv'
  OBVIOUS
<1>1. /\ UNCHANGED <<situation, open>>
      /\ task' = [c \in Clients |-> IF Busy(c) THEN [task[c] EXCEPT !.calm = FALSE] ELSE Idle]
      /\ \/ state' = "closed" /\ free' = 0 /\ waiters' = << >> /\ UNCHANGED <<handed, lost>>
         \/ state # "closed" /\ UNCHANGED <<free, waiters, handed, lost>>
  BY DEF Close, poolVars
<1>2. ASSUME NEW c \in Clients PROVE TaskOK(task'[c]) /\ task'[c].pc = task[c].pc
  <2>0. TaskOK(task[c])
    BY DEF AccountInv, TasksInv
  <2>1. CASE ~Busy(c)
    BY <1>1, <2>1 DEF Busy, Idle, TaskOK
  <2>2. CASE Busy(c)
    <3>1. task[c] # Idle /\ Shaped(task[c]) /\ task'[c] = [task[c] EXCEPT !.calm = FALSE]
      BY <1>1, <2>0, <2>2 DEF Busy, Idle, TaskOK
    <3>2. Like(task'[c], task[c])
      BY <3>1 DEF Like, Shaped
    <3> QED
      BY <2>0, <3>1, <3>2, LikeKeeps DEF Like
  <2> QED
    BY <2>1, <2>2
<1>3. /\ TasksInv' /\ Borrowers' = Borrowers /\ Waiting' = Waiting
      /\ OpenFiles' = OpenFiles /\ Now' = Now
  BY <1>1, <1>2 DEF TasksInv, Borrowers, Waiting, Waits, OpenFiles, Now
<1>4. PoolTyped'
  <2>1. << >> \in Channels /\ 0 \in Nat
    BY DEF Channels
  <2> QED
    BY <1>1, <2>1 DEF AccountInv, PoolTyped
<1> QED
  BY <1>1, <1>3, <1>4 DEF AccountInv, Balanced

LEMMA AccountInit == Init => AccountInv
<1> SUFFICES ASSUME Init PROVE AccountInv
  OBVIOUS
<1>1. Now.conns \in Nat
  BY SituationAssumption DEF Init, Now
<1>2. TasksInv /\ \A c \in Clients : task[c].pc = "idle"
  BY DEF Init, TasksInv, TaskOK, Idle
<1>3. Borrowers = {} /\ OpenFiles = {} /\ Waiting = {}
  BY <1>2 DEF Init, Borrowers, OpenFiles, Waiting, Waits
<1>4. Cardinality({}) = 0 /\ IsFiniteSet({})
  BY FS_EmptySet
<1>5. PoolTyped /\ QueueIs({}, << >>, {})
  BY <1>1 DEF Init, PoolTyped, Channels, QueueIs
<1> QED
  BY <1>1, <1>2, <1>3, <1>4, <1>5 DEF Init, AccountInv, Balanced

LEMMA AccountStep == AccountInv /\ [Next]_vars => AccountInv'
<1> SUFFICES ASSUME AccountInv, [Next]_vars PROVE AccountInv'
  OBVIOUS
<1>1. ASSUME NEW c \in Now.callers, NEW call, Call(c, call) PROVE AccountInv'
  <2>1. c \in Clients
    BY SituationAssumption DEF AccountInv, Now
  <2> QED
    BY <1>1, <2>1, CallMoves, MovesAccounted DEF AccountInv
<1>2. ASSUME NEW c \in Clients, Proceeds(c) PROVE AccountInv'
  <2>1. TasksInv
    BY DEF AccountInv
  <2>2. Moves(c)
    BY <1>2, <2>1, LoopMoves, GetMoves, DialMoves, WaitMoves, ServedMoves, FailureMoves, ReturnMoves
    DEF Proceeds
  <2> QED
    BY <2>2, MovesAccounted
<1>3. ASSUME NEW c \in Clients, CloseFile(c) PROVE AccountInv'
  BY <1>3, CloseFileAccounted
<1>4. CASE Close
  BY <1>4, CloseAccounted
<1>5. CASE UNCHANGED vars
  <2>1. /\ Borrowers' = Borrowers /\ OpenFiles' = OpenFiles /\ Waiting' = Waiting
        /\ Now' = Now /\ TasksInv'
    BY <1>5 DEF vars, Borrowers, OpenFiles, Waiting, Waits, Now, TasksInv, AccountInv
  <2>2. PoolTyped'
    BY <1>5 DEF vars, poolVars, AccountInv, PoolTyped
  <2> QED
    BY <1>5, <2>1, <2>2 DEF vars, poolVars, AccountInv, Balanced
<1> QED
  BY <1>1, <1>2, <1>3, <1>4, <1>5 DEF Next

(* However attempts end and until the pool is closed, a connection is free,  *)
(* being dialled, in a share call, in an open file, in the channel of a      *)
(* client that waits, or in the channel of one that gave up: get and put     *)
(* around every operation of filesystem.go lose none in another way and put  *)
(* none back twice, and a client that waits is in the queue exactly once.    *)
THEOREM ConnectionsStayAccounted == Spec => []ConnectionsAccounted
<1>1. AccountInv => ConnectionsAccounted
  <2> SUFFICES ASSUME AccountInv, state # "closed"
               PROVE  /\ \A c \in handed : At(c, "wait")
                      /\ \A c \in Clients :
                            IF At(c, "wait") /\ c \notin handed
                            THEN \E i \in DOMAIN waiters : Places(c) = {i}
                            ELSE Places(c) = {}
    BY DEF AccountInv, Balanced, ConnectionsAccounted
  <2>1. QueueIs(Waiting, waiters, handed)
    BY DEF AccountInv, Balanced
  <2>2. \A c \in handed : At(c, "wait")
    BY <2>1 DEF QueueIs, Waiting, Waits, At
  <2>3. ASSUME NEW c \in Clients, At(c, "wait"), c \notin handed
        PROVE  \E i \in DOMAIN waiters : Places(c) = {i}
    <3>1. c \in Waiting \ handed /\ c # Nobody
      BY <2>3, SituationAssumption DEF Waiting, Waits, At
    <3> PICK k \in DOMAIN waiters : waiters[k] = c
      BY <2>1, <3>1 DEF QueueIs
    <3>2. Places(c) = {k}
      BY <2>1, <3>1 DEF QueueIs, Places
    <3> QED
      BY <3>2
  <2>4. ASSUME NEW c \in Clients, ~(At(c, "wait") /\ c \notin handed) PROVE Places(c) = {}
    <3>1. c \notin Waiting \ handed /\ c # Nobody
      BY <2>4, SituationAssumption DEF Waiting, Waits, At
    <3> QED
      BY <2>1, <3>1 DEF QueueIs, Places
  <2> QED
    BY <2>2, <2>3, <2>4
<1> QED
  BY <1>1, AccountInit, AccountStep, PTL DEF Spec

(* No share call is tried more often than MaxAttempts, and a client never    *)
(* goes for a connection without a share call to make (withRetry).           *)
THEOREM AttemptsStayWithinPolicy == Spec => []WithinPolicy
<1>1. AccountInv => WithinPolicy
  BY DEF AccountInv, TasksInv, TaskOK, WithinPolicy, Pending, Idle
<1> QED
  BY <1>1, AccountInit, AccountStep, PTL DEF Spec
=============================================================================
