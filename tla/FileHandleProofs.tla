--------------------------- MODULE FileHandleProofs ---------------------------
(***************************************************************************)
(* Proofs about one open file: for any number of callers, any calls and    *)
(* any content, a call that nothing overlaps transfers at its own place,   *)
(* the File's offset and the backend's stay one position, and only an      *)
(* overlapping Close makes a method panic.                                 *)
(*                                                                         *)
(* A caller that is alone is the only busy one, so between its steps       *)
(* nothing moves: Lone says, for each point of each method, where the two  *)
(* offsets, the content and the data are by then.  A caller that is not    *)
(* alone may be interrupted anywhere; of it only Control is known.         *)
(***************************************************************************)
EXTENDS FileHandle, TLAPS

(* Both provers, the quicker one first.                                      *)
USE ZenonT(1), SMTT(60)

-----------------------------------------------------------------------------
(* Where a call can be, overlapped or not.                                   *)

Errors == {"nil", "ErrClosed", "NotForWriting", "NegativeOffset", "Injected"}
PCs == Calling \cup {"enter", "save", "moved", "load", "store", "drop", "return", "forget"}
(* A method that is past its nil check and will call f.file.                 *)
Checked == Calling \cup {"save"}
(* Close has closed the file of the share.                                   *)
Closing == {"drop", "return", "forget"}
USE DEF Closing
MethodNames == {"Seek", "Read", "ReadAt", "Write", "WriteAt", "Truncate", "Stat",
                "Sync", "Close", "Release"}
AllCalls == UNION {w.calls : w \in Workloads}

Task == [call : AllCalls, pc : PCs, rest : Seq(MethodNames), saved : Nat, left : Int,
         got : Seq(Int), err : Errors, before : Seq(Nat)]

(* What is left of the methods of a request.                                 *)
Rests(op) ==
  CASE op = "READ"       -> {<<"Seek", "Read">>, <<"Read">>}
    [] op = "WRITE"      -> {<<"Seek", "Write">>, <<"Write">>}
    [] op = "FLUSH"      -> {<<"Sync">>}
    [] op = "SET_EOF"    -> {<<"Truncate">>}
    [] op = "STANDARD_INFO" -> {<<"Stat">>}
    [] op = "ALL_INFO"   -> {<<"Stat", "Seek">>, <<"Seek">>}
    [] op = "CLOSE"      -> {<<"Release", "Close">>, <<"Close">>}
    [] op = "CLOSE_STAT" -> {<<"Stat", "Release", "Close">>, <<"Release", "Close">>, <<"Close">>}
    [] OTHER             -> {<<op>>}

(* The steps of a method.                                                    *)
Steps(m) ==
  CASE m = "Seek"                  -> {"enter", "seek", "moved"}
    [] m \in {"ReadAt", "WriteAt"} -> {"enter", "save", "seek", "transfer", "restore"}
    [] m \in {"Read", "Write"}     -> {"enter", "transfer", "load", "store"}
    [] m = "Stat"                  -> {"enter", "stat"}
    [] m = "Truncate"              -> {"enter", "stat", "cut", "end", "shrink", "grow"}
    [] m = "Close"                 -> {"enter", "close", "drop", "return", "forget"}
    [] OTHER                       -> {"enter"}

Control(t) ==
  /\ t \in Task
  /\ t.rest \in Rests(t.call.op)
  /\ t.pc \in Steps(Head(t.rest))
  /\ t.pc = "moved" => t.left >= 0
  /\ t.pc \in {"end", "grow"} => t.left > 0

-----------------------------------------------------------------------------
(* Where a call that is alone is.                                            *)

Settled == calm /\ ~closed => offset = stream /\ pos = stream

(* READ and WRITE after their Seek.                                          *)
Sought(t) == t.call.op \in {"READ", "WRITE"} /\ Head(t.rest) # "Seek"

(* Nothing has been transferred, and the offsets are where the calls before  *)
(* left them, or where the Seek of READ and WRITE has put them.              *)
AtStart(t) ==
  /\ content = t.before
  /\ IF Sought(t) THEN t.call.off >= 0 /\ offset = t.call.off /\ pos = t.call.off
                  ELSE Settled

(* The position query has its sizes; nobody has closed the file since.       *)
Sized(t) == file /\ ~closed /\ t.got = Sizes(Len(t.before))

AtMoved(t) ==
  /\ content = t.before /\ pos = t.left
  /\ t.call.op = "ALL_INFO" => Settled
  /\ t.call.op \in {"READ", "WRITE"} => t.left = t.call.off

(* ReadAt and WriteAt know where to go back to.                              *)
Recalls(t) == t.saved = offset /\ (calm /\ ~closed => offset = stream)
AtElsewhere(t) ==
  content = t.before /\ pos = t.call.off /\ t.call.off >= 0 /\ Recalls(t)
AtRestore(t) ==
  /\ Recalls(t)
  /\ t.err = "nil" =>
       IF Head(t.rest) = "ReadAt"
       THEN content = t.before /\ t.got = FileRead(t.before, t.call.off, Length(t.call))
       ELSE content = FileWrite(t.before, t.call.off, t.call.data)

(* Read and Write have transferred and the File's offset lags behind.        *)
AtLag(t) ==
  /\ ~closed
  /\ IF Sought(t) THEN t.call.off >= 0 /\ offset = t.call.off ELSE calm => offset = stream
  /\ Head(t.rest) = "Read" => content = t.before
  /\ Head(t.rest) = "Write" => t.got = t.call.data
  /\ Sought(t) \/ calm =>
       /\ pos = offset + Len(t.got)
       /\ Head(t.rest) = "Read" => t.got = FileRead(t.before, offset, Length(t.call))
       /\ Head(t.rest) = "Write" => content = FileWrite(t.before, offset, t.call.data)

(* Truncate that has found another size.                                     *)
AtCut(t) == content = t.before /\ t.call.off < Len(t.before)
AtShrink(t) == AtCut(t) /\ t.call.off >= 0 /\ pos = t.call.off
AtEnd(t) == content = t.before /\ t.left = t.call.off - Len(t.before)
AtGrow(t) ==
  /\ Len(content) >= Len(t.before) /\ content = Resized(t.before, Len(content))
  /\ pos = Len(content) /\ t.left = t.call.off - Len(content)

Lone(t) ==
  /\ t.pc \in {"enter", "save", "stat", "close", "seek"} => AtStart(t)
  /\ t.pc = "seek" /\ Head(t.rest) # "Seek" => t.saved = offset
  /\ t.pc = "transfer" => IF Head(t.rest) \in {"Read", "Write"} THEN AtStart(t)
                                                                ELSE AtElsewhere(t)
  /\ t.pc = "moved" => AtMoved(t)
  /\ t.pc = "restore" => AtRestore(t)
  /\ t.pc \in {"load", "store"} => AtLag(t)
  /\ t.pc = "store" => t.saved = offset
  /\ t.pc = "cut" => AtCut(t)
  /\ t.pc = "shrink" => AtShrink(t)
  /\ t.pc = "end" => AtEnd(t)
  /\ t.pc = "grow" => AtGrow(t)
  /\ t.pc \in Closing => content = t.before
  /\ t.call.op = "ALL_INFO" /\ Head(t.rest) = "Seek" => Sized(t)
  /\ t.call.op = "Seek" => t.got = << >>

-----------------------------------------------------------------------------
(* The invariant.                                                            *)

SharedTypes ==
  /\ work \in Workloads
  /\ content \in Seq(Nat) /\ pos \in Nat /\ offset \in Nat
  /\ overlapped \subseteq Callers
  /\ task \in [Callers -> Task \cup {Idle}]

(* Whoever is busy beside another caller is overlapped; a file is nil only   *)
(* after Close, and a method that has seen it before is overlapped then.     *)
RaceInv ==
  /\ \A c, d \in Callers : c # d /\ Busy(c) /\ Busy(d) => c \in overlapped
  /\ ~file => closed
  /\ \A c \in Callers : task[c].pc \in Closing => closed
  /\ \A c \in Callers : ~file /\ task[c].pc \in Checked => c \in overlapped
  /\ PanicNeedsRace

TaskInv(c) == Busy(c) => Control(task[c]) /\ (Alone(c) => Lone(task[c]))

HandleInv ==
  /\ SharedTypes /\ RaceInv
  /\ \A c \in Callers : TaskInv(c)
  /\ OffsetTracks /\ AloneExact

-----------------------------------------------------------------------------
(* Facts about the data.                                                     *)

LEMMA CallsWellFormed ==
  ASSUME NEW call \in AllCalls
  PROVE  WellFormed(call)
BY WorkloadAssumption DEF AllCalls

(* Whether a method is followed by another one, and by which.                *)
More(op, m) ==
  \/ op \in {"READ", "WRITE"} /\ m = "Seek"
  \/ op = "ALL_INFO" /\ m = "Stat"
  \/ op \in {"CLOSE", "CLOSE_STAT"} /\ m # "Close"
Following(op, m) ==
  CASE op = "READ"     -> "Read"
    [] op = "WRITE"    -> "Write"
    [] op = "ALL_INFO" -> "Seek"
    [] op = "CLOSE_STAT" /\ m = "Stat" -> "Release"
    [] OTHER           -> "Close"
Phase(op) ==
  CASE op = "READ"       -> {"Seek", "Read"}
    [] op = "WRITE"      -> {"Seek", "Write"}
    [] op = "FLUSH"      -> {"Sync"}
    [] op = "SET_EOF"    -> {"Truncate"}
    [] op = "STANDARD_INFO" -> {"Stat"}
    [] op = "ALL_INFO"   -> {"Stat", "Seek"}
    [] op = "CLOSE"      -> {"Release", "Close"}
    [] op = "CLOSE_STAT" -> {"Stat", "Release", "Close"}
    [] OTHER             -> {op}

(* A last method, and one that is followed by others.                        *)
Ends(op, r) ==
  /\ r \in Seq(MethodNames) /\ Len(r) = 1
  /\ Head(r) \in Phase(op) /\ ~More(op, Head(r))
GoesOn(op, r) ==
  /\ r \in Seq(MethodNames) /\ Len(r) \in Nat /\ Len(r) > 1
  /\ Head(r) \in Phase(op) /\ More(op, Head(r))
  /\ Tail(r) \in Rests(op) /\ Head(Tail(r)) = Following(op, Head(r))

LEMMA Tuples ==
  ASSUME NEW a \in MethodNames, NEW b \in MethodNames, NEW c \in MethodNames
  PROVE  /\ <<a>> \in Seq(MethodNames) /\ Len(<<a>>) = 1 /\ Head(<<a>>) = a
         /\ <<a, b>> \in Seq(MethodNames) /\ Len(<<a, b>>) = 2 /\ Head(<<a, b>>) = a
         /\ Tail(<<a, b>>) = <<b>>
         /\ <<a, b, c>> \in Seq(MethodNames) /\ Len(<<a, b, c>>) = 3 /\ Head(<<a, b, c>>) = a
         /\ Tail(<<a, b, c>>) = <<b, c>>
OBVIOUS

LEMMA Phases ==
  ASSUME NEW op \in Ops, NEW r \in Rests(op)
  PROVE  /\ r \in Seq(MethodNames) /\ Len(r) \in Nat /\ Len(r) > 0
         /\ Head(r) \in Phase(op)
         /\ Len(r) > 1 <=> More(op, Head(r))
         /\ Len(r) > 1 => /\ Tail(r) \in Rests(op)
                          /\ Head(Tail(r)) = Following(op, Head(r))
<1>1. ASSUME op = "READ" PROVE \A s \in Rests(op) : Ends(op, s) \/ GoesOn(op, s)
  <2>1. Rests(op) = {<<"Seek", "Read">>, <<"Read">>}
    BY <1>1 DEF Rests
  <2>2. Phase(op) = {"Seek", "Read"}
    BY <1>1 DEF Phase
  <2>3. More(op, "Seek") /\ ~More(op, "Read")
    BY <1>1 DEF More
  <2>4. Following(op, "Seek") = "Read"
    BY <1>1 DEF Following
  <2>5. GoesOn(op, <<"Seek", "Read">>)
    BY <2>1, <2>2, <2>3, <2>4, Tuples DEF GoesOn, MethodNames
  <2>6. Ends(op, <<"Read">>)
    BY <2>2, <2>3, Tuples DEF Ends, MethodNames
  <2> QED
    BY <2>1, <2>5, <2>6
<1>2. ASSUME op = "WRITE" PROVE \A s \in Rests(op) : Ends(op, s) \/ GoesOn(op, s)
  <2>1. Rests(op) = {<<"Seek", "Write">>, <<"Write">>}
    BY <1>2 DEF Rests
  <2>2. Phase(op) = {"Seek", "Write"}
    BY <1>2 DEF Phase
  <2>3. More(op, "Seek") /\ ~More(op, "Write")
    BY <1>2 DEF More
  <2>4. Following(op, "Seek") = "Write"
    BY <1>2 DEF Following
  <2>5. GoesOn(op, <<"Seek", "Write">>)
    BY <2>1, <2>2, <2>3, <2>4, Tuples DEF GoesOn, MethodNames
  <2>6. Ends(op, <<"Write">>)
    BY <2>2, <2>3, Tuples DEF Ends, MethodNames
  <2> QED
    BY <2>1, <2>5, <2>6
<1>3. ASSUME op = "ALL_INFO" PROVE \A s \in Rests(op) : Ends(op, s) \/ GoesOn(op, s)
  <2>1. Rests(op) = {<<"Stat", "Seek">>, <<"Seek">>}
    BY <1>3 DEF Rests
  <2>2. Phase(op) = {"Stat", "Seek"}
    BY <1>3 DEF Phase
  <2>3. More(op, "Stat") /\ ~More(op, "Seek")
    BY <1>3 DEF More
  <2>4. Following(op, "Stat") = "Seek"
    BY <1>3 DEF Following
  <2>5. GoesOn(op, <<"Stat", "Seek">>)
    BY <2>1, <2>2, <2>3, <2>4, Tuples DEF GoesOn, MethodNames
  <2>6. Ends(op, <<"Seek">>)
    BY <2>2, <2>3, Tuples DEF Ends, MethodNames
  <2> QED
    BY <2>1, <2>5, <2>6
<1>4. ASSUME op = "CLOSE" PROVE \A s \in Rests(op) : Ends(op, s) \/ GoesOn(op, s)
  <2>1. Rests(op) = {<<"Release", "Close">>, <<"Close">>}
    BY <1>4 DEF Rests
  <2>2. Phase(op) = {"Release", "Close"}
    BY <1>4 DEF Phase
  <2>3. More(op, "Release") /\ ~More(op, "Close")
    BY <1>4 DEF More
  <2>4. Following(op, "Release") = "Close"
    BY <1>4 DEF Following
  <2>5. GoesOn(op, <<"Release", "Close">>)
    BY <2>1, <2>2, <2>3, <2>4, Tuples DEF GoesOn, MethodNames
  <2>6. Ends(op, <<"Close">>)
    BY <2>2, <2>3, Tuples DEF Ends, MethodNames
  <2> QED
    BY <2>1, <2>5, <2>6
<1>5. ASSUME op = "CLOSE_STAT" PROVE \A s \in Rests(op) : Ends(op, s) \/ GoesOn(op, s)
  <2>1. Rests(op) = {<<"Stat", "Release", "Close">>, <<"Release", "Close">>, <<"Close">>}
    BY <1>5 DEF Rests
  <2>2. Phase(op) = {"Stat", "Release", "Close"}
    BY <1>5 DEF Phase
  <2>3. More(op, "Stat") /\ More(op, "Release") /\ ~More(op, "Close")
    BY <1>5 DEF More
  <2>4. Following(op, "Stat") = "Release" /\ Following(op, "Release") = "Close"
    BY <1>5 DEF Following
  <2>5. GoesOn(op, <<"Stat", "Release", "Close">>)
    BY <2>1, <2>2, <2>3, <2>4, Tuples DEF GoesOn, MethodNames
  <2>6. GoesOn(op, <<"Release", "Close">>)
    BY <2>1, <2>2, <2>3, <2>4, Tuples DEF GoesOn, MethodNames
  <2>7. Ends(op, <<"Close">>)
    BY <2>2, <2>3, Tuples DEF Ends, MethodNames
  <2> QED
    BY <2>1, <2>5, <2>6, <2>7
<1>6. ASSUME op \in Ops \ {"READ", "WRITE", "ALL_INFO", "CLOSE", "CLOSE_STAT"}
      PROVE  \A s \in Rests(op) : Ends(op, s)
  <2>1. PICK m \in MethodNames : Rests(op) = {<<m>>} /\ Phase(op) = {m}
    <3>1. CASE op \in {"FLUSH", "SET_EOF", "STANDARD_INFO"}
      BY <1>6, <3>1 DEF Rests, Phase, MethodNames
    <3>2. CASE op \notin {"FLUSH", "SET_EOF", "STANDARD_INFO"}
      BY <1>6, <3>2 DEF Rests, Phase, Ops, Requests, Queries, MethodNames
    <3> QED
      BY <3>1, <3>2
  <2>2. ~More(op, m)
    BY <1>6 DEF More
  <2> QED
    BY <2>1, <2>2, Tuples DEF Ends
<1>7. Ends(op, r) \/ GoesOn(op, r)
  BY <1>1, <1>2, <1>3, <1>4, <1>5, <1>6
<1> QED
  BY <1>7 DEF Ends, GoesOn

LEMMA MethodsStart ==
  ASSUME NEW op \in Ops
  PROVE  /\ Methods(op) \in Rests(op)
         /\ op \in {"READ", "WRITE"} => Head(Methods(op)) = "Seek"
         /\ op = "ALL_INFO" => Head(Methods(op)) = "Stat"
<1>1. CASE op = "READ"
  <2>1. Methods(op) = <<"Seek", "Read">>
    BY <1>1 DEF Methods, handleRead, Queries
  <2>2. Rests(op) = {<<"Seek", "Read">>, <<"Read">>}
    BY <1>1 DEF Rests
  <2> QED
    BY <1>1, <2>1, <2>2, Tuples DEF MethodNames
<1>2. CASE op = "WRITE"
  <2>1. Methods(op) = <<"Seek", "Write">>
    BY <1>2 DEF Methods, handleWrite, Queries
  <2>2. Rests(op) = {<<"Seek", "Write">>, <<"Write">>}
    BY <1>2 DEF Rests
  <2> QED
    BY <1>2, <2>1, <2>2, Tuples DEF MethodNames
<1>3. CASE op = "ALL_INFO"
  <2>1. Methods(op) = <<"Stat", "Seek">>
    BY <1>3 DEF Methods, queryFileInfo, Queries
  <2>2. Rests(op) = {<<"Stat", "Seek">>, <<"Seek">>}
    BY <1>3 DEF Rests
  <2> QED
    BY <1>3, <2>1, <2>2, Tuples DEF MethodNames
<1>4. CASE op = "CLOSE"
  <2>1. Methods(op) = <<"Release", "Close">>
    BY <1>4 DEF Methods, handleClose, Queries
  <2>2. Rests(op) = {<<"Release", "Close">>, <<"Close">>}
    BY <1>4 DEF Rests
  <2> QED
    BY <1>4, <2>1, <2>2, Tuples DEF MethodNames
<1>5. CASE op = "CLOSE_STAT"
  <2>1. Methods(op) = <<"Stat", "Release", "Close">>
    BY <1>5 DEF Methods, handleClose, Queries
  <2>2. Rests(op) = {<<"Stat", "Release", "Close">>, <<"Release", "Close">>, <<"Close">>}
    BY <1>5 DEF Rests
  <2> QED
    BY <1>5, <2>1, <2>2, Tuples DEF MethodNames
<1>6. CASE op \in {"FLUSH", "SET_EOF", "STANDARD_INFO"}
  BY <1>6 DEF Methods, Rests, handleFlush, setFileEndOfFileInformation, queryFileInfo,
              Queries
<1>7. CASE op \in Ops \ {"READ", "WRITE", "ALL_INFO", "CLOSE", "CLOSE_STAT", "FLUSH",
                        "SET_EOF", "STANDARD_INFO"}
  BY <1>7 DEF Methods, Rests, Queries
<1> QED
  BY <1>1, <1>2, <1>3, <1>4, <1>5, <1>6, <1>7

LEMMA FileReadType ==
  ASSUME NEW s \in Seq(Nat), NEW at \in Nat, NEW n \in Nat
  PROVE  FileRead(s, at, n) \in Seq(Nat)
BY DEF FileRead

LEMMA FileWriteType ==
  ASSUME NEW s \in Seq(Nat), NEW at \in Nat, NEW data \in Seq(Nat)
  PROVE  FileWrite(s, at, data) \in Seq(Nat)
<1>1. CASE data = << >>
  BY <1>1 DEF FileWrite
<1>2. CASE data # << >>
  <2> DEFINE end == at + Len(data)
             n == IF end > Len(s) THEN end ELSE Len(s)
             e(i) == IF i > at /\ i <= end THEN data[i - at]
                     ELSE IF i <= Len(s) THEN s[i] ELSE Zero
  <2>1. n \in Nat /\ \A i \in 1 .. n : e(i) \in Nat
    BY DEF Zero
  <2>2. FileWrite(s, at, data) = [i \in 1 .. n |-> e(i)]
    BY <1>2 DEF FileWrite
  <2> HIDE DEF n, e
  <2> QED
    BY <2>1, <2>2
<1> QED
  BY <1>1, <1>2

LEMMA ResizedSame ==
  ASSUME NEW s \in Seq(Nat)
  PROVE  Resized(s, Len(s)) = s
BY DEF Resized

(* A write of nothing cuts the file, a write of zeros at its end extends it: *)
(* what Truncate relies on.                                                  *)
LEMMA ResizedCut ==
  ASSUME NEW s \in Seq(Nat), NEW n \in Nat, n <= Len(s)
  PROVE  FileWrite(s, n, << >>) = Resized(s, n)
<1>1. FileWrite(s, n, << >>) = SubSeq(s, 1, n)
  BY DEF FileWrite
<1>2. Resized(s, n) = [i \in 1 .. n |-> s[i]]
  BY DEF Resized
<1>3. SubSeq(s, 1, n) \in Seq(Nat) /\ [i \in 1 .. n |-> s[i]] \in Seq(Nat)
  OBVIOUS
<1>4. Len(SubSeq(s, 1, n)) = n /\ Len([i \in 1 .. n |-> s[i]]) = n
  OBVIOUS
<1>5. \A i \in 1 .. n : SubSeq(s, 1, n)[i] = s[i] /\ [j \in 1 .. n |-> s[j]][i] = s[i]
  OBVIOUS
<1> QED
  BY <1>1, <1>2, <1>3, <1>4, <1>5

LEMMA ResizedGrown ==
  ASSUME NEW b \in Seq(Nat), NEW s \in Seq(Nat), Len(s) >= Len(b),
         s = Resized(b, Len(s)), NEW n \in Nat, n > 0
  PROVE  /\ FileWrite(s, Len(s), [i \in 1 .. n |-> Zero]) = Resized(b, Len(s) + n)
         /\ Len(Resized(b, Len(s) + n)) = Len(s) + n
<1>1. [i \in 1 .. n |-> Zero] # << >> /\ Len([i \in 1 .. n |-> Zero]) = n
      /\ \A i \in 1 .. n : [j \in 1 .. n |-> Zero][i] = Zero
  OBVIOUS
<1>2. FileWrite(s, Len(s), [i \in 1 .. n |-> Zero])
        = [i \in 1 .. (Len(s) + n) |-> IF i > Len(s) THEN Zero ELSE s[i]]
  <2> DEFINE z == [i \in 1 .. n |-> Zero]
             w(i) == IF i > Len(s) /\ i <= Len(s) + Len(z) THEN z[i - Len(s)]
                     ELSE IF i <= Len(s) THEN s[i] ELSE Zero
  <2>1. FileWrite(s, Len(s), z)
          = [i \in 1 .. (IF Len(s) + Len(z) > Len(s) THEN Len(s) + Len(z) ELSE Len(s)) |-> w(i)]
    BY <1>1 DEF FileWrite
  <2>2. Len(z) = n /\ \A i \in 1 .. n : z[i] = Zero
    BY <1>1
  <2>3. ASSUME NEW i \in 1 .. (Len(s) + n)
        PROVE  w(i) = IF i > Len(s) THEN Zero ELSE s[i]
    <3> HIDE DEF z
    <3> QED
      BY <2>2
  <2> HIDE DEF z, w
  <2> QED
    BY <2>1, <2>2, <2>3 DEF z
<1>3. \A i \in 1 .. Len(s) : s[i] = IF i <= Len(b) THEN b[i] ELSE Zero
  BY DEF Resized
<1>4. Resized(b, Len(s) + n) = [i \in 1 .. (Len(s) + n) |-> IF i <= Len(b) THEN b[i] ELSE Zero]
  BY DEF Resized
<1>5. \A i \in 1 .. (Len(s) + n) : (IF i > Len(s) THEN Zero ELSE s[i])
                                    = IF i <= Len(b) THEN b[i] ELSE Zero
  BY <1>3
<1>6. FileWrite(s, Len(s), [i \in 1 .. n |-> Zero]) = Resized(b, Len(s) + n)
  BY <1>2, <1>4, <1>5
<1>7. Len(Resized(b, Len(s) + n)) = Len(s) + n
  BY <1>4
<1> QED
  BY <1>6, <1>7

-----------------------------------------------------------------------------
(* A call goes on, or is over.                                               *)

LEMMA TaskFacts ==
  ASSUME HandleInv, NEW c \in Callers, Busy(c)
  PROVE  /\ task[c] \in Task /\ Control(task[c]) /\ (Alone(c) => Lone(task[c]))
         /\ task[c].call \in AllCalls /\ WellFormed(task[c].call)
         /\ task[c].call.op \in Ops
         /\ Method(c) = Head(task[c].rest) /\ Method(c) \in Phase(task[c].call.op)
         /\ Len(task[c].rest) > 1 <=> More(task[c].call.op, Method(c))
<1>1. Control(task[c]) /\ (Alone(c) => Lone(task[c]))
  BY DEF HandleInv, TaskInv
<1>2. task[c] \in Task /\ task[c].rest \in Rests(task[c].call.op)
  BY <1>1 DEF Control
<1>3. task[c].call \in AllCalls
  BY <1>2 DEF Task
<1>4. WellFormed(task[c].call) /\ task[c].call.op \in Ops
  BY <1>3, CallsWellFormed DEF WellFormed
<1> QED
  BY <1>1, <1>2, <1>3, <1>4, Phases DEF Method

LEMMA TaskIsBusy ==
  ASSUME NEW u \in Task
  PROVE  u.pc # "idle" /\ u.pc \in PCs
BY DEF Task, PCs, Calling

LEMMA ContinueStep ==
  ASSUME HandleInv, NEW c \in Callers, Busy(c), NEW u, Control(u),
         task' = [task EXCEPT ![c] = u],
         Alone(c) => Lone(u)',
         work' = work, content' \in Seq(Nat), pos' \in Nat, offset' \in Nat,
         UNCHANGED history, file' = file \/ (u.pc \notin Checked /\ closed'),
         closed => closed', u.pc \in Closing => closed',
         ~file /\ u.pc \in Checked => c \in overlapped,
         ~panicked, ~panicked'
  PROVE  HandleInv'
<1>1. u \in Task /\ u.pc # "idle"
  BY TaskIsBusy DEF Control
<1>2. /\ task \in [Callers -> Task \cup {Idle}] /\ work \in Workloads
      /\ overlapped \subseteq Callers
  BY DEF HandleInv, SharedTypes
<1>3. task'[c] = u /\ \A d \in Callers \ {c} : task'[d] = task[d]
  BY <1>2
<1>4. overlapped' = overlapped
  BY DEF history
<1>5. SharedTypes'
  <2>1. task' \in [Callers -> Task \cup {Idle}]
    BY <1>1, <1>2
  <2> QED
    BY <1>2, <1>4, <2>1 DEF SharedTypes
<1>6. \A d \in Callers \ {c} : Busy(d) => d \in overlapped
  BY DEF HandleInv, RaceInv
<1>7. Busy(c)' /\ \A d \in Callers \ {c} : Busy(d)' <=> Busy(d)
  BY <1>1, <1>3 DEF Busy
<1>8. RaceInv'
  <2>1. \A a, d \in Callers : a # d /\ Busy(a)' /\ Busy(d)' => a \in overlapped'
    BY <1>4, <1>7 DEF HandleInv, RaceInv
  <2>2. ~file' => closed'
    BY DEF HandleInv, RaceInv
  <2>3. \A d \in Callers : task'[d].pc \in Closing => closed'
    BY <1>3 DEF HandleInv, RaceInv
  <2>4. ASSUME NEW d \in Callers, ~file', task'[d].pc \in Checked PROVE d \in overlapped'
    <3>1. CASE d = c
      BY <1>3, <1>4, <2>4, <3>1
    <3>2. CASE d # c
      BY <1>3, <1>4, <1>6, <2>4, <3>2 DEF Busy, Checked, Calling
    <3> QED
      BY <3>1, <3>2
  <2>5. PanicNeedsRace'
    BY DEF PanicNeedsRace
  <2> QED
    BY <2>1, <2>2, <2>3, <2>4, <2>5 DEF RaceInv
<1>9. TaskInv(c)'
  BY <1>3, <1>4 DEF TaskInv, Alone
<1>10. ASSUME NEW d \in Callers \ {c} PROVE TaskInv(d)'
  <2>1. Busy(d)' => Control(task'[d]) /\ d \in overlapped'
    BY <1>3, <1>4, <1>6, <1>7 DEF HandleInv, TaskInv
  <2> QED
    BY <2>1 DEF TaskInv, Alone
<1>11. OffsetTracks' /\ AloneExact'
  BY <1>7 DEF OffsetTracks, AloneExact
<1> QED
  BY <1>5, <1>8, <1>9, <1>10, <1>11 DEF HandleInv

(* What a call that ran alone must have done by the time it returns.         *)
Place(call) == IF call.op \in {"READ", "WRITE", "ReadAt", "WriteAt"} THEN call.off ELSE stream
Exact(t, got) ==
  /\ t.call.op \in {"READ", "ReadAt", "STANDARD_INFO"} =>
       got = ExpectedData(t.call, t.before, Place(t.call))
  /\ t.call.op \in {"Read", "ALL_INFO"} /\ calm =>
       got = ExpectedData(t.call, t.before, Place(t.call))
  /\ t.call.op # "Write" \/ calm =>
       content' = ExpectedContent(t.call, t.before, Place(t.call))
Tracks(t, err, got) ==
  CalmAfter(t, TRUE, err) /\ ~closed' =>
    /\ offset' = StreamAfter(t.call, err, got, stream)
    /\ pos' = StreamAfter(t.call, err, got, stream)

LEMMA StatusOfSuccess ==
  ASSUME NEW op, NEW err \in Errors, NEW got, Status(op, err, got) \in {"nil", "END_OF_FILE"}
  PROVE  err = "nil"
BY DEF Status, mapGoErrorToNTStatus, Errors

LEMMA FinishStep ==
  ASSUME HandleInv, NEW c \in Callers, Busy(c), NEW err \in Errors, NEW got,
         Finish(c, err, got),
         Alone(c) => Tracks(task[c], err, got) /\ (err = "nil" => Exact(task[c], got)),
         work' = work, content' \in Seq(Nat), pos' \in Nat, offset' \in Nat,
         closed => closed', ~file' => closed',
         ~panicked, ~panicked'
  PROVE  HandleInv'
<1>2. /\ task \in [Callers -> Task \cup {Idle}] /\ work \in Workloads
      /\ overlapped \subseteq Callers
  BY DEF HandleInv, SharedTypes
<1>3. task'[c] = Idle /\ \A d \in Callers \ {c} : task'[d] = task[d]
  BY <1>2 DEF Finish
<1>4. overlapped' = overlapped \ {c}
  BY DEF Finish
<1>5. SharedTypes'
  <2>1. task' \in [Callers -> Task \cup {Idle}]
    BY <1>2 DEF Finish
  <2> QED
    BY <1>2, <1>4, <2>1 DEF SharedTypes
<1>6. \A d \in Callers \ {c} : Busy(d) => d \in overlapped /\ c \in overlapped
  BY DEF HandleInv, RaceInv
<1>7. ~Busy(c)' /\ \A d \in Callers \ {c} : Busy(d)' <=> Busy(d)
  BY <1>3 DEF Busy, Idle
<1>8. task'[c].pc = "idle"
  BY <1>3 DEF Idle
<1>9. RaceInv'
  <2>1. \A a, d \in Callers : a # d /\ Busy(a)' /\ Busy(d)' => a \in overlapped'
    BY <1>4, <1>6, <1>7
  <2>2. ASSUME NEW d \in Callers, task'[d].pc \in Closing PROVE closed'
    BY <1>3, <1>8, <2>2 DEF HandleInv, RaceInv
  <2>3. ASSUME NEW d \in Callers, task'[d].pc \in Checked PROVE d \in overlapped'
    <3>1. d # c
      BY <1>8, <2>3 DEF Checked, Calling
    <3>2. Busy(d)
      BY <1>3, <2>3, <3>1 DEF Busy, Checked, Calling
    <3> QED
      BY <1>4, <1>6, <3>1, <3>2
  <2>4. PanicNeedsRace'
    BY DEF PanicNeedsRace
  <2> QED
    BY <2>1, <2>2, <2>3, <2>4 DEF RaceInv
<1>10. ASSUME NEW d \in Callers PROVE TaskInv(d)'
  <2>1. CASE d = c
    BY <1>7, <2>1 DEF TaskInv
  <2>2. CASE d # c
    <3>1. Busy(d)' => Control(task'[d]) /\ d \in overlapped'
      BY <1>3, <1>4, <1>6, <1>7, <2>2 DEF HandleInv, TaskInv
    <3> QED
      BY <3>1 DEF TaskInv, Alone
  <2> QED
    BY <2>1, <2>2
<1>11. OffsetTracks'
  <2>1. CASE Alone(c)
    <3>1. /\ calm' = CalmAfter(task[c], TRUE, err)
          /\ stream' = StreamAfter(task[c].call, err, got, stream)
      BY <2>1 DEF Finish
    <3> QED
      BY <2>1, <3>1 DEF Tracks, OffsetTracks
  <2>2. CASE ~Alone(c)
    <3>1. ~calm'
      BY <2>2 DEF Finish, CalmAfter
    <3> QED
      BY <3>1 DEF OffsetTracks
  <2> QED
    BY <2>1, <2>2
<1>12. AloneExact'
  <2>1. /\ last'.call = task[c].call /\ last'.err = Status(task[c].call.op, err, got)
        /\ last'.got = got /\ last'.before = task[c].before /\ last'.from = stream
        /\ last'.alone = Alone(c) /\ last'.calm = calm
    BY Zenon DEF Finish
  <2>2. SUFFICES ASSUME Alone(c), last'.err \in {"nil", "END_OF_FILE"}
                 PROVE  AloneExact'
    BY <2>1 DEF AloneExact
  <2>3. err = "nil"
    BY <2>1, <2>2, StatusOfSuccess
  <2>4. Exact(task[c], got)
    BY <2>2, <2>3
  <2> QED
    BY <2>1, <2>4, Zenon DEF Exact, Place, AloneExact
<1> QED
  BY <1>5, <1>9, <1>10, <1>11, <1>12 DEF HandleInv

(* Return, for a method that is followed by another one and for the last.    *)
LEMMA ReturnFinishes ==
  ASSUME HandleInv, NEW c \in Callers, Busy(c), NEW err, NEW got, Return(c, err, got),
         err # "nil" \/ ~More(task[c].call.op, Method(c))
  PROVE  Finish(c, err, got)
BY TaskFacts DEF Return

LEMMA ReturnContinues ==
  ASSUME HandleInv, NEW c \in Callers, Busy(c), NEW got \in Seq(Int), Return(c, "nil", got),
         More(task[c].call.op, Method(c))
  PROVE  \E u : /\ Control(u) /\ task' = [task EXCEPT ![c] = u] /\ UNCHANGED history
                /\ u.call = task[c].call /\ u.before = task[c].before
                /\ u.pc = "enter" /\ u.got = got
                /\ Head(u.rest) = Following(task[c].call.op, Method(c))
<1>1. /\ task' = [task EXCEPT ![c] = [task[c] EXCEPT !.rest = Tail(task[c].rest),
                                                     !.pc = "enter", !.got = got]]
      /\ UNCHANGED history
  BY TaskFacts DEF Return
<1>2. PICK t : t = task[c]
  OBVIOUS
<1>3. t \in Task /\ t.rest \in Rests(t.call.op) /\ t.call.op \in Ops /\ Len(t.rest) > 1
  BY <1>2, TaskFacts DEF Control
<1>4. PICK r : r = Tail(t.rest) /\ r \in Rests(t.call.op)
               /\ Head(r) = Following(t.call.op, Head(t.rest)) /\ r \in Seq(MethodNames)
  BY <1>3, Phases
<1>5. PICK u : u = [t EXCEPT !.rest = r, !.pc = "enter", !.got = got]
  OBVIOUS
<1>6. /\ u \in Task /\ u.call = t.call /\ u.before = t.before /\ u.rest = r
      /\ u.pc = "enter" /\ u.got = got
  BY <1>3, <1>4, <1>5 DEF Task, PCs
<1>7. \A m : "enter" \in Steps(m)
  BY DEF Steps
<1>8. Control(u)
  BY <1>4, <1>6, <1>7 DEF Control
<1> QED
  BY <1>1, <1>2, <1>4, <1>5, <1>6, <1>8 DEF Method

(* A method that has returned with nothing moved.                            *)
LEMMA NextMethod ==
  ASSUME HandleInv, NEW c \in Callers, Busy(c), NEW got \in Seq(Int), Return(c, "nil", got),
         More(task[c].call.op, Method(c)),
         ~panicked, UNCHANGED <<work, content, closed, file, panicked>>,
         pos' \in Nat, offset' \in Nat,
         Alone(c) =>
           /\ content = task[c].before
           /\ IF task[c].call.op \in {"READ", "WRITE"}
              THEN task[c].call.off >= 0 /\ offset' = task[c].call.off /\ pos' = task[c].call.off
              ELSE offset' = offset /\ pos' = pos /\ Settled
           /\ task[c].call.op = "ALL_INFO" => file /\ ~closed /\ got = Sizes(Len(task[c].before))
  PROVE  HandleInv'
<1>1. PICK u : /\ Control(u) /\ task' = [task EXCEPT ![c] = u] /\ UNCHANGED history
               /\ u.call = task[c].call /\ u.before = task[c].before
               /\ u.pc = "enter" /\ u.got = got
               /\ Head(u.rest) = Following(task[c].call.op, Method(c))
  BY ReturnContinues
<1>2. task[c].call.op \in {"READ", "WRITE"} => Head(u.rest) # "Seek"
  BY <1>1 DEF Following
<1>3. Alone(c) => Lone(u)'
  <2>1. SUFFICES ASSUME Alone(c) PROVE Lone(u)'
    OBVIOUS
  <2>2. calm' = calm /\ stream' = stream
    BY <1>1 DEF history
  <2>3. AtStart(u)'
    BY <1>1, <1>2, <2>1, <2>2 DEF AtStart, Sought, Settled
  <2>4. u.call.op = "ALL_INFO" => Sized(u)'
    BY <1>1, <2>1 DEF Sized
  <2>5. u.call.op # "Seek"
    BY <1>1 DEF More
  <2> QED
    BY <1>1, <2>3, <2>4, <2>5 DEF Lone
<1>4. u.pc \notin Checked \cup Closing
  BY <1>1 DEF Checked, Calling, Closing
<1>5. content' \in Seq(Nat)
  BY DEF HandleInv, SharedTypes
<1> QED
  BY <1>1, <1>3, <1>4, <1>5, ContinueStep

(* Calls that fail or end before they have moved anything.                   *)
LEMMA StartFails ==
  ASSUME NEW t, WellFormed(t.call), AtStart(t), NEW err, err # "nil",
         UNCHANGED <<pos, offset, closed>>, offset \in Nat,
         t.call.op \in {"READ", "WRITE"} /\ t.call.off >= 0 /\ ~Sought(t) => closed
  PROVE  Tracks(t, err, << >>)
<1>1. CASE t.call.op \in {"READ", "WRITE"} /\ t.call.off >= 0
  <2>1. StreamAfter(t.call, err, << >>, stream) = t.call.off
    BY <1>1 DEF StreamAfter, WellFormed
  <2> QED
    BY <1>1, <2>1 DEF Tracks, AtStart
<1>2. CASE ~(t.call.op \in {"READ", "WRITE"} /\ t.call.off >= 0)
  <2>1. SUFFICES ASSUME CalmAfter(t, TRUE, err), ~closed
                 PROVE  offset = StreamAfter(t.call, err, << >>, stream)
                        /\ pos = StreamAfter(t.call, err, << >>, stream)
    BY DEF Tracks
  <2>2. calm
    BY <1>2, <2>1, Zenon DEF CalmAfter
  <2>4. ~Sought(t)
    BY <1>2, Zenon DEF Sought, AtStart
  <2>3. offset = stream /\ pos = stream
    BY <2>1, <2>2, <2>4 DEF AtStart, Settled
  <2> QED
    BY <1>2, <2>3 DEF StreamAfter
<1> QED
  BY <1>1, <1>2

(* Calls that move nothing and change nothing.                               *)
LEMMA StillEnds ==
  ASSUME NEW t, AtStart(t), NEW got, UNCHANGED <<pos, offset, closed>>,
         t.call.op \notin {"READ", "WRITE", "Seek", "Read", "Write"}
  PROVE  Tracks(t, "nil", got)
<1>1. StreamAfter(t.call, "nil", got, stream) = stream
  BY DEF StreamAfter
<1>2. CalmAfter(t, TRUE, "nil") => calm
  BY DEF CalmAfter
<1>3. ~Sought(t)
  BY DEF Sought
<1> QED
  BY <1>1, <1>2, <1>3 DEF Tracks, AtStart, Settled

LEMMA ClosedTracks ==
  ASSUME NEW t, NEW err, NEW got, closed'
  PROVE  Tracks(t, err, got)
BY DEF Tracks

LEMMA StillExact ==
  ASSUME NEW t, content' = t.before, NEW got,
         t.call.op \in {"FLUSH", "CLOSE", "CLOSE_STAT", "Seek", "Stat", "Sync", "Close"}
  PROVE  Exact(t, got)
BY DEF Exact, ExpectedContent

-----------------------------------------------------------------------------
(* The steps of a call.                                                      *)

LEMMA SharedFacts ==
  ASSUME HandleInv
  PROVE  /\ content \in Seq(Nat) /\ pos \in Nat /\ offset \in Nat
         /\ task \in [Callers -> Task \cup {Idle}] /\ work \in Workloads
         /\ ~file => closed
BY DEF HandleInv, SharedTypes, RaceInv

LEMMA SizesType ==
  ASSUME NEW n \in Nat
  PROVE  Sizes(n) \in Seq(Int)
<1>1. n + AllocationUnit - 1 \in Int /\ AllocationUnit \in Int /\ AllocationUnit > 0
  BY HandleAssumption
<1>2. (n + AllocationUnit - 1) \div AllocationUnit \in Int
  BY <1>1
<1>3. ((n + AllocationUnit - 1) \div AllocationUnit) * AllocationUnit \in Int
  BY <1>1, <1>2
<1> QED
  BY <1>3 DEF Sizes

(* The nil check, and what Sync and Close of a closed file do.               *)
LEMMA EnterStep ==
  ASSUME HandleInv, NEW c \in Callers, Enter(c)
  PROVE  HandleInv'
<1>1. PICK t : t = task[c]
  OBVIOUS
<1>2. PICK m : m = Method(c)
  OBVIOUS
<1>3. /\ t.pc = "enter" /\ Busy(c) /\ ~panicked /\ m # "Release"
      /\ UNCHANGED <<work, content, pos, closed, offset, file, panicked>>
  BY <1>1, <1>2 DEF Enter, At, Busy, backend
<1>4. /\ t \in Task /\ Control(t) /\ (Alone(c) => Lone(t)) /\ WellFormed(t.call)
      /\ t.call.op \in Ops /\ m = Head(t.rest) /\ m \in Phase(t.call.op)
      /\ t.rest \in Rests(t.call.op)
  BY <1>1, <1>2, <1>3, TaskFacts DEF Control
<1>5. Alone(c) => AtStart(t)
  BY <1>3, <1>4 DEF Lone
<1>6. CASE ~file /\ m = "Close"
  <2>1. Return(c, "nil", << >>)
    BY <1>2, <1>3, <1>6 DEF Enter, NilCheck
  <2>2. t.call.op \in {"CLOSE", "CLOSE_STAT", "Close"}
    BY <1>4, <1>6 DEF Phase, Ops, Requests, Queries
  <2>3. Finish(c, "nil", << >>)
    BY <1>1, <1>2, <1>3, <1>6, <2>1, <2>2, ReturnFinishes DEF More
  <2>4. Alone(c) => Tracks(t, "nil", << >>) /\ Exact(t, << >>)
    BY <1>3, <1>5, <1>6, <2>2, SharedFacts, ClosedTracks, StillExact DEF AtStart
  <2> QED
    BY <1>1, <1>3, <2>3, <2>4, SharedFacts, FinishStep DEF Errors
<1>7. CASE ~file /\ m # "Close"
  <2>1. Fail(c, "ErrClosed")
    BY <1>2, <1>3, <1>7 DEF Enter, NilCheck
  <2>2. CASE t.call.op \in Queries /\ m = "Seek"
    <3>1. Return(c, "nil", Append(t.got, 0))
      BY <1>1, <1>2, <1>3, <2>1, <2>2 DEF Fail, Ignored
    <3>2. t.call.op = "ALL_INFO"
      BY <1>4, <2>2 DEF Queries, Phase
    <3>3. Finish(c, "nil", Append(t.got, 0))
      BY <1>1, <1>2, <1>3, <2>2, <3>1, <3>2, ReturnFinishes DEF More
    <3>4. ~Alone(c)
      BY <1>4, <1>7, <2>2, <3>2 DEF Lone, Sized
    <3> QED
      BY <1>3, <3>3, <3>4, SharedFacts, FinishStep DEF Errors
  <2>3. CASE t.call.op = "CLOSE_STAT" /\ m = "Stat"
    <3>1. Return(c, "nil", << >>)
      BY <1>1, <1>2, <1>3, <2>1, <2>3 DEF Fail, Ignored
    <3>2. More(t.call.op, m) /\ << >> \in Seq(Int)
      BY <2>3 DEF More
    <3>3. Alone(c) => content = t.before /\ Settled
      BY <1>5, <2>3 DEF AtStart, Sought
    <3> QED
      BY <1>1, <1>2, <1>3, <2>3, <3>1, <3>2, <3>3, SharedFacts, NextMethod
  <2>4. CASE ~(t.call.op \in Queries /\ m = "Seek")
             /\ ~(t.call.op = "CLOSE_STAT" /\ m = "Stat")
    <3>1. Finish(c, "ErrClosed", << >>)
      BY <1>1, <1>2, <1>3, <2>1, <2>4 DEF Fail, Ignored
    <3> QED
      BY <1>1, <1>3, <1>7, <3>1, SharedFacts, ClosedTracks, FinishStep DEF Errors
  <2> QED
    BY <2>2, <2>3, <2>4
<1>8. CASE file /\ m = "Sync"
  <2>1. Return(c, "nil", << >>)
    BY <1>2, <1>3, <1>8 DEF Enter, NilCheck
  <2>2. t.call.op \in {"FLUSH", "Sync"}
    BY <1>4, <1>8 DEF Phase, Ops, Requests, Queries
  <2>3. Finish(c, "nil", << >>)
    BY <1>1, <1>2, <1>3, <2>1, <2>2, ReturnFinishes DEF More
  <2>4. Alone(c) => Tracks(t, "nil", << >>) /\ Exact(t, << >>)
    BY <1>3, <1>5, <2>2, StillEnds, StillExact DEF AtStart
  <2> QED
    BY <1>1, <1>3, <2>3, <2>4, SharedFacts, FinishStep DEF Errors
<1>9. CASE file /\ m # "Sync"
  <2>1. PICK u : u = [t EXCEPT !.pc = FirstStep(m)]
    OBVIOUS
  <2>2. task' = [task EXCEPT ![c] = u] /\ UNCHANGED history
    BY <1>1, <1>2, <1>3, <1>9, <2>1 DEF Enter, NilCheck
  <2>3. m \in MethodNames \ {"Sync", "Release"}
    <3>1. m \in MethodNames
      BY <1>4 DEF Phase, Ops, Requests, Queries, MethodNames
    <3> QED
      BY <1>3, <1>9, <3>1
  <2>4. /\ FirstStep(m) \in Steps(m) /\ FirstStep(m) \in PCs
        /\ FirstStep(m) \in {"save", "seek", "transfer", "stat", "close"}
        /\ FirstStep(m) = "seek" => m = "Seek"
        /\ FirstStep(m) = "transfer" => m \in {"Read", "Write"}
    BY <2>3 DEF FirstStep, Steps, PCs, Calling, MethodNames
  <2>5. /\ u \in Task /\ u.call = t.call /\ u.before = t.before /\ u.rest = t.rest
        /\ u.pc = FirstStep(m) /\ u.got = t.got
    BY <1>4, <2>1, <2>4, SharedFacts DEF Task
  <2>6. Control(u)
    BY <1>4, <2>4, <2>5 DEF Control
  <2>7. Alone(c) => Lone(u)'
    <3>1. SUFFICES ASSUME Alone(c) PROVE Lone(u)'
      OBVIOUS
    <3>2. calm' = calm /\ stream' = stream
      BY <2>2 DEF history
    <3>3. AtStart(u)'
      BY <1>3, <1>5, <2>5, <3>1, <3>2 DEF AtStart, Sought, Settled
    <3>4. u.call.op = "ALL_INFO" /\ Head(u.rest) = "Seek" => Sized(u)'
      BY <1>3, <1>4, <2>5, <3>1 DEF Sized, Lone
    <3>5. u.call.op = "Seek" => u.got = << >>
      BY <1>4, <2>5, <3>1 DEF Lone
    <3> QED
      BY <1>3, <1>4, <2>4, <2>5, <3>3, <3>4, <3>5 DEF Lone
  <2> QED
    BY <1>3, <1>9, <2>2, <2>4, <2>5, <2>6, <2>7, SharedFacts, ContinueStep
<1> QED
  BY <1>6, <1>7, <1>8, <1>9

LEMMA ReleaseStep ==
  ASSUME HandleInv, NEW c \in Callers, Release(c)
  PROVE  HandleInv'
<1>1. PICK t : t = task[c]
  OBVIOUS
<1>2. /\ t.pc = "enter" /\ Busy(c) /\ ~panicked /\ Method(c) = "Release"
      /\ UNCHANGED <<work, content, pos, closed, offset, file, panicked>>
  BY <1>1 DEF Release, At, Busy, backend
<1>3. /\ (Alone(c) => Lone(t)) /\ t.call.op \in Ops /\ "Release" \in Phase(t.call.op)
  BY <1>1, <1>2, TaskFacts
<1>4. t.call.op \in {"CLOSE", "CLOSE_STAT"}
  BY <1>3 DEF Phase, Ops, Requests, Queries
<1>5. Alone(c) => AtStart(t) /\ content = t.before /\ Settled
  BY <1>2, <1>3, <1>4 DEF Lone, AtStart, Sought
<1>6. CASE listed
  <2>1. Return(c, "nil", << >>)
    BY <1>6 DEF Release
  <2>2. More(t.call.op, Method(c)) /\ << >> \in Seq(Int)
    BY <1>2, <1>4 DEF More
  <2> QED
    BY <1>1, <1>2, <1>4, <1>5, <2>1, <2>2, SharedFacts, NextMethod
<1>7. CASE ~listed
  <2>1. Finish(c, "nil", << >>)
    BY <1>7 DEF Release
  <2>2. Alone(c) => Tracks(t, "nil", << >>) /\ Exact(t, << >>)
    BY <1>2, <1>4, <1>5, StillEnds, StillExact
  <2> QED
    BY <1>1, <1>2, <2>1, <2>2, SharedFacts, FinishStep DEF Errors
<1> QED
  BY <1>6, <1>7

(* What a step of a busy caller starts from.                                 *)
LEMMA StepFacts ==
  ASSUME HandleInv, NEW c \in Callers, Busy(c), NEW t, t = task[c]
  PROVE  /\ t \in Task /\ Control(t) /\ (Alone(c) => Lone(t)) /\ WellFormed(t.call)
         /\ t.call.op \in Ops /\ Method(c) = Head(t.rest) /\ Head(t.rest) \in Phase(t.call.op)
         /\ t.rest \in Rests(t.call.op) /\ t.pc \in Steps(Head(t.rest))
         /\ t.saved \in Nat /\ t.left \in Int /\ t.got \in Seq(Int) /\ t.err \in Errors
         /\ t.before \in Seq(Nat)
<1>1. /\ t \in Task /\ Control(t) /\ (Alone(c) => Lone(t)) /\ WellFormed(t.call)
      /\ t.call.op \in Ops /\ Method(c) = Head(t.rest) /\ Head(t.rest) \in Phase(t.call.op)
  BY TaskFacts
<1> QED
  BY <1>1 DEF Control, Task

(* The place a seek goes to is a number.                                     *)
LEMMA TargetType ==
  ASSUME HandleInv, NEW c \in Callers, Busy(c)
  PROVE  /\ task[c].pc = "seek" =>
              /\ Target(c) \in Int
              /\ task[c].call.op = "ALL_INFO" => Target(c) = pos
              /\ task[c].call.op \in {"READ", "WRITE", "ReadAt", "WriteAt"} =>
                   Target(c) = task[c].call.off
         /\ task[c].pc = "cut" => Target(c) = task[c].call.off /\ Target(c) \in Int
<1>1. PICK t : t = task[c]
  OBVIOUS
<1>2. /\ WellFormed(t.call) /\ t.call.op \in Ops /\ Head(t.rest) \in Phase(t.call.op)
      /\ t.pc \in Steps(Head(t.rest))
  BY <1>1, StepFacts
<1>3. ASSUME t.pc = "seek"
      PROVE  /\ Target(c) \in Int
             /\ t.call.op = "ALL_INFO" => Target(c) = pos
             /\ t.call.op \in {"READ", "WRITE", "ReadAt", "WriteAt"} => Target(c) = t.call.off
  <2>1. Head(t.rest) \in {"Seek", "ReadAt", "WriteAt"}
    BY <1>2, <1>3 DEF Steps
  <2>2. t.call.op \in {"READ", "WRITE", "ReadAt", "WriteAt", "Seek", "ALL_INFO"}
    BY <1>2, <2>1 DEF Phase, Ops, Requests, Queries
  <2>3. Target(c) = SeekTarget(content, pos, Offset(t.call), Whence(t.call))
    BY <1>1, <1>3 DEF Target
  <2>4. CASE t.call.op = "ALL_INFO"
    <3>1. Offset(t.call) = 0 /\ Whence(t.call) = "current"
      BY <2>4 DEF Offset, Whence, Queries
    <3> QED
      BY <2>3, <2>4, <3>1, SharedFacts DEF SeekTarget
  <2>5. CASE t.call.op \in {"READ", "WRITE", "ReadAt", "WriteAt"}
    <3>1. Offset(t.call) = t.call.off /\ Whence(t.call) = "start" /\ t.call.off \in Int
      BY <1>2, <2>5 DEF Offset, Whence, Queries, WellFormed
    <3> QED
      BY <2>3, <2>5, <3>1 DEF SeekTarget
  <2>6. CASE t.call.op = "Seek"
    <3>1. /\ Offset(t.call) \in Int /\ Whence(t.call) \in {"start", "current", "end"}
      BY <1>2, <2>6 DEF Offset, Whence, Queries, WellFormed
    <3> QED
      BY <2>3, <2>6, <3>1, SharedFacts DEF SeekTarget
  <2> QED
    BY <2>2, <2>4, <2>5, <2>6
<1>4. ASSUME t.pc = "cut" PROVE Target(c) = t.call.off /\ Target(c) \in Int
  <2>1. Head(t.rest) = "Truncate"
    BY <1>2, <1>4 DEF Steps
  <2>2. t.call.op \in {"Truncate", "SET_EOF"}
    BY <1>2, <2>1 DEF Phase, Ops, Requests, Queries
  <2> QED
    BY <1>1, <1>2, <1>4, <2>2 DEF Target, WellFormed
<1> QED
  BY <1>1, <1>3, <1>4

(* Why a call of the backend can fail.                                       *)
LEMMA FailureFacts ==
  ASSUME HandleInv, NEW c \in Callers, CallFails(c)
  PROVE  \E err \in Errors \ {"nil"} :
           /\ Fail(c, err)
           /\ task[c].pc \in {"end", "restore"} => closed
           /\ task[c].pc = "seek" => closed \/ Target(c) < 0
<1>1. Busy(c)
  BY DEF CallFails, Busy, Calling
<1>2. CASE CallError(c) # "nil" /\ Fail(c, CallError(c))
  <2>1. CallError(c) \in Errors \ {"nil"}
    BY <1>2 DEF CallError, Errors
  <2>2. task[c].pc \in {"end", "restore"} => Target(c) = 0 /\ ~Writing(c)
    BY DEF Target, Writing
  <2>3. task[c].pc = "seek" => ~Writing(c)
    BY DEF Writing
  <2> QED
    BY <1>2, <2>1, <2>2, <2>3 DEF CallError
<1>3. CASE Fail(c, "Injected") /\ task[c].pc \in {"transfer", "stat", "shrink", "grow"}
  <2>1. "Injected" \in Errors \ {"nil"}
    BY DEF Errors
  <2> QED
    BY <1>3, <2>1
<1> QED
  BY <1>2, <1>3 DEF CallFails

LEMMA CallFailsStep ==
  ASSUME HandleInv, NEW c \in Callers, CallFails(c)
  PROVE  HandleInv'
<1>1. PICK t : t = task[c]
  OBVIOUS
<1>2. PICK err \in Errors \ {"nil"} :
        /\ Fail(c, err)
        /\ t.pc \in {"end", "restore"} => closed
        /\ t.pc = "seek" => closed \/ Target(c) < 0
  BY <1>1, FailureFacts
<1>3. /\ t.pc \in Calling \ {"close"} /\ Busy(c) /\ ~panicked /\ file
      /\ UNCHANGED <<work, content, pos, closed, offset, file, panicked>>
  BY <1>1 DEF CallFails, Busy, Calling, backend
<1> DEFINE op == t.call.op
           m == Head(t.rest)
<1>4. /\ t \in Task /\ Control(t) /\ (Alone(c) => Lone(t)) /\ WellFormed(t.call)
      /\ op \in Ops /\ Method(c) = m /\ m \in Phase(op) /\ t.rest \in Rests(op)
      /\ t.pc \in Steps(m)
  BY <1>1, <1>3, StepFacts
<1>5. CASE t.pc = "transfer" /\ m \in {"ReadAt", "WriteAt"}
  <2>1. PICK u : u = [t EXCEPT !.pc = "restore", !.err = err]
    OBVIOUS
  <2>2. task' = [task EXCEPT ![c] = u] /\ UNCHANGED history
    BY <1>1, <1>2, <1>4, <1>5, <2>1 DEF Fail, Restores
  <2>3. /\ u \in Task /\ u.call = t.call /\ u.rest = t.rest /\ u.saved = t.saved
        /\ u.pc = "restore" /\ u.err = err
    BY <1>4, <2>1 DEF Task, PCs, Calling
  <2>4. "restore" \in Steps(m)
    BY <1>5 DEF Steps
  <2>5. Control(u)
    BY <1>4, <2>3, <2>4 DEF Control
  <2>6. op \in {"ReadAt", "WriteAt"}
    BY <1>4, <1>5 DEF Phase, Ops, Requests, Queries
  <2>7. Alone(c) => Lone(u)'
    <3>1. SUFFICES ASSUME Alone(c) PROVE Lone(u)'
      OBVIOUS
    <3>2. calm' = calm /\ stream' = stream
      BY <2>2 DEF history
    <3>3. Recalls(t)
      BY <1>4, <1>5, <3>1 DEF Lone, AtElsewhere
    <3>4. AtRestore(u)'
      BY <1>2, <1>3, <2>3, <3>2, <3>3 DEF AtRestore, Recalls
    <3> QED
      BY <2>3, <2>6, <3>4 DEF Lone
  <2> QED
    BY <1>3, <2>2, <2>3, <2>5, <2>7, SharedFacts, ContinueStep
<1>6. CASE op \in Queries /\ m = "Seek"
  <2>1. t.pc = "seek" /\ op = "ALL_INFO"
    BY <1>3, <1>4, <1>6 DEF Steps, Phase, Queries, Calling
  <2>2. Return(c, "nil", Append(t.got, 0))
    BY <1>1, <1>2, <1>4, <1>6, <2>1 DEF Fail, Ignored, Restores
  <2>3. Finish(c, "nil", Append(t.got, 0))
    BY <1>1, <1>3, <1>4, <1>6, <2>1, <2>2, ReturnFinishes DEF More
  <2>4. ~Alone(c)
    <3>1. Target(c) = pos
      BY <1>1, <1>3, <2>1, TargetType
    <3> QED
      BY <1>2, <1>4, <1>6, <2>1, <3>1, SharedFacts DEF Lone, Sized
  <2> QED
    BY <1>3, <2>3, <2>4, SharedFacts, FinishStep DEF Errors
<1>7. CASE op = "CLOSE_STAT" /\ m = "Stat"
  <2>1. Return(c, "nil", << >>)
    BY <1>1, <1>2, <1>4, <1>7 DEF Fail, Ignored, Restores
  <2>2. More(op, m) /\ << >> \in Seq(Int)
    BY <1>7 DEF More
  <2>3. t.pc = "stat"
    BY <1>3, <1>4, <1>7 DEF Steps, Calling
  <2>4. Alone(c) => content = t.before /\ Settled
    BY <1>4, <1>7, <2>3 DEF Lone, AtStart, Sought
  <2> QED
    BY <1>1, <1>3, <1>4, <1>7, <2>1, <2>2, <2>4, SharedFacts, NextMethod
<1>8. CASE /\ ~(t.pc = "transfer" /\ m \in {"ReadAt", "WriteAt"})
           /\ ~(op \in Queries /\ m = "Seek") /\ ~(op = "CLOSE_STAT" /\ m = "Stat")
  <2>1. Finish(c, err, << >>)
    BY <1>1, <1>2, <1>4, <1>8 DEF Fail, Ignored, Restores
  <2>2. ASSUME Alone(c), t.pc \in {"seek", "stat", "transfer"} PROVE Tracks(t, err, << >>)
    <3>1. AtStart(t)
      BY <1>4, <1>8, <2>2 DEF Lone, Steps
    <3>2. ASSUME op \in {"READ", "WRITE"}, t.call.off >= 0, ~Sought(t) PROVE closed
      <4>1. m = "Seek"
        BY <3>2 DEF Sought
      <4>2. t.pc = "seek"
        BY <1>4, <2>2, <4>1 DEF Steps
      <4>3. Target(c) = t.call.off /\ t.call.off \in Int
        BY <1>1, <1>3, <1>4, <3>2, <4>2, TargetType DEF WellFormed
      <4> QED
        BY <1>2, <3>2, <4>2, <4>3
    <3> QED
      BY <1>2, <1>3, <1>4, <3>1, <3>2, SharedFacts, StartFails
  <2>3. ASSUME t.pc \in {"restore", "end"} PROVE Tracks(t, err, << >>)
    BY <1>2, <1>3, <2>3, ClosedTracks
  <2>4. ASSUME Alone(c), t.pc \in {"cut", "shrink", "grow"} PROVE Tracks(t, err, << >>)
    <3>1. m = "Truncate"
      BY <1>4, <2>4 DEF Steps
    <3>2. op \in {"Truncate", "SET_EOF"}
      BY <1>4, <3>1 DEF Phase, Ops, Requests, Queries
    <3>3. t.call.off \in Int /\ Len(t.before) \in Nat /\ Len(content) \in Nat /\ t.left \in Int
      BY <1>1, <1>3, <1>4, <3>2, StepFacts, SharedFacts DEF WellFormed
    <3>4. t.call.off # Len(t.before)
      BY <1>4, <2>4, <3>3 DEF Lone, AtCut, AtShrink, AtGrow, Control
    <3> QED
      BY <3>2, <3>4 DEF Tracks, CalmAfter
  <2> QED
    BY <1>1, <1>2, <1>3, <2>1, <2>2, <2>3, <2>4, SharedFacts, FinishStep DEF Calling
<1> QED
  BY <1>5, <1>6, <1>7, <1>8

LEMMA SeekBackendStep ==
  ASSUME HandleInv, NEW c \in Callers, SeekBackend(c)
  PROVE  HandleInv'
<1>1. PICK t : t = task[c]
  OBVIOUS
<1>2. PICK to : to = Target(c)
  OBVIOUS
<1>3. /\ t.pc = "seek" /\ Busy(c) /\ ~panicked /\ file /\ CallError(c) = "nil" /\ pos' = to
      /\ UNCHANGED <<work, content, closed, offset, file, panicked, history>>
  BY <1>1, <1>2 DEF SeekBackend, Calls, At, Busy, Unmoved
<1> DEFINE op == t.call.op
           m == Head(t.rest)
<1>4. /\ t \in Task /\ Control(t) /\ (Alone(c) => Lone(t)) /\ WellFormed(t.call)
      /\ op \in Ops /\ Method(c) = m /\ m \in Phase(op) /\ t.rest \in Rests(op)
      /\ t.pc \in Steps(m)
  BY <1>1, <1>3, StepFacts
<1>5. /\ to \in Nat /\ ~closed
      /\ op = "ALL_INFO" => to = pos
      /\ op \in {"READ", "WRITE", "ReadAt", "WriteAt"} => to = t.call.off
  BY <1>1, <1>2, <1>3, TargetType DEF CallError
<1>6. m \in {"Seek", "ReadAt", "WriteAt"}
  BY <1>3, <1>4 DEF Steps
<1>7. PICK pc : pc = IF m = "Seek" THEN "moved" ELSE "transfer"
  OBVIOUS
<1>8. PICK u : u = [t EXCEPT !.left = to, !.pc = pc]
  OBVIOUS
<1>9. task' = [task EXCEPT ![c] = u]
  BY <1>1, <1>2, <1>4, <1>7, <1>8 DEF SeekBackend
<1>10. pc \in PCs /\ pc \in Steps(m)
  BY <1>6, <1>7 DEF PCs, Calling, Steps
<1>11. /\ u \in Task /\ u.call = t.call /\ u.rest = t.rest /\ u.saved = t.saved
       /\ u.pc = pc /\ u.left = to /\ u.got = t.got /\ u.before = t.before
  <2>1. t \in Task /\ to \in Int /\ pc \in PCs
    BY <1>4, <1>5, <1>10
  <2> QED
    BY <1>8, <2>1 DEF Task
<1>12. Control(u)
  BY <1>4, <1>5, <1>7, <1>10, <1>11 DEF Control
<1>13. Alone(c) => Lone(u)'
  <2>1. SUFFICES ASSUME Alone(c) PROVE Lone(u)'
    OBVIOUS
  <2>2. calm' = calm /\ stream' = stream
    BY <1>3 DEF history
  <2>3. AtStart(t) /\ (m # "Seek" => t.saved = offset)
    BY <1>3, <1>4, <2>1 DEF Lone
  <2>4. m = "Seek" => AtMoved(u)'
    BY <1>3, <1>5, <1>11, <2>2, <2>3 DEF AtStart, AtMoved, Settled, Sought
  <2>5. m # "Seek" => op \in {"ReadAt", "WriteAt"}
    BY <1>4, <1>6 DEF Phase, Ops, Requests, Queries
  <2>6. m # "Seek" => AtElsewhere(u)'
    BY <1>3, <1>5, <1>11, <2>2, <2>3, <2>5 DEF AtStart, AtElsewhere, Recalls, Settled, Sought
  <2>7. u.call.op = "ALL_INFO" /\ Head(u.rest) = "Seek" => Sized(u)'
    BY <1>3, <1>4, <1>11, <2>1 DEF Sized, Lone
  <2>8. u.call.op = "Seek" => u.got = << >>
    BY <1>4, <1>11, <2>1 DEF Lone
  <2> QED
    BY <1>6, <1>7, <1>11, <2>4, <2>6, <2>7, <2>8 DEF Lone
<1> QED
  BY <1>3, <1>5, <1>7, <1>9, <1>11, <1>12, <1>13, SharedFacts, ContinueStep

LEMMA SeekFileStep ==
  ASSUME HandleInv, NEW c \in Callers, SeekFile(c)
  PROVE  HandleInv'
<1>1. PICK t : t = task[c]
  OBVIOUS
<1>2. PICK got : got = Append(t.got, t.left)
  OBVIOUS
<1>3. /\ t.pc = "moved" /\ Busy(c) /\ ~panicked /\ offset' = t.left
      /\ Return(c, "nil", got)
      /\ UNCHANGED <<work, content, pos, closed, file, panicked>>
  BY <1>1, <1>2 DEF SeekFile, At, Busy, Unmoved
<1> DEFINE op == t.call.op
<1>4. /\ t \in Task /\ Control(t) /\ (Alone(c) => Lone(t)) /\ WellFormed(t.call)
      /\ op \in Ops /\ Method(c) = Head(t.rest) /\ Head(t.rest) \in Phase(op)
      /\ t.pc \in Steps(Head(t.rest)) /\ t.left \in Int /\ t.got \in Seq(Int)
  BY <1>1, <1>3, StepFacts
<1>5. Head(t.rest) = "Seek" /\ t.left \in Nat /\ got \in Seq(Int)
  BY <1>2, <1>3, <1>4 DEF Steps, Control
<1>6. op \in {"READ", "WRITE", "Seek", "ALL_INFO"}
  BY <1>4, <1>5 DEF Phase, Ops, Requests, Queries
<1>7. Alone(c) => AtMoved(t)
  BY <1>3, <1>4 DEF Lone
<1>8. CASE op \in {"READ", "WRITE"}
  <2>1. More(op, Method(c))
    BY <1>4, <1>5, <1>8 DEF More
  <2>2. Alone(c) => /\ content = t.before /\ t.call.off >= 0
                    /\ offset' = t.call.off /\ pos' = t.call.off
    BY <1>3, <1>5, <1>7, <1>8 DEF AtMoved
  <2> QED
    BY <1>1, <1>3, <1>5, <1>8, <2>1, <2>2, SharedFacts, NextMethod
<1>9. CASE op \in {"Seek", "ALL_INFO"}
  <2>1. Finish(c, "nil", got)
    BY <1>1, <1>3, <1>4, <1>5, <1>9, ReturnFinishes DEF More
  <2>2. ASSUME Alone(c), op = "Seek" PROVE Tracks(t, "nil", got) /\ Exact(t, got)
    <3>1. t.got = << >>
      BY <1>4, <2>2 DEF Lone
    <3>2. got[1] = t.left
      BY <1>2, <1>5, <3>1
    <3>3. StreamAfter(t.call, "nil", got, stream) = t.left
      BY <2>2, <3>2 DEF StreamAfter
    <3>4. content' = t.before /\ pos' = t.left
      BY <1>3, <1>7, <2>2 DEF AtMoved
    <3>5. Tracks(t, "nil", got)
      BY <1>3, <3>3, <3>4 DEF Tracks
    <3> QED
      BY <2>2, <3>4, <3>5, StillExact
  <2>3. ASSUME Alone(c), op = "ALL_INFO" PROVE Tracks(t, "nil", got) /\ Exact(t, got)
    <3>1. Sized(t) /\ Settled /\ pos = t.left /\ content = t.before
      BY <1>4, <1>5, <1>7, <2>3 DEF Lone, AtMoved
    <3>2. StreamAfter(t.call, "nil", got, stream) = stream
      BY <2>3 DEF StreamAfter
    <3>3. CalmAfter(t, TRUE, "nil") => calm
      BY <2>3 DEF CalmAfter
    <3>4. Tracks(t, "nil", got)
      BY <1>3, <3>1, <3>2, <3>3 DEF Tracks, Settled
    <3>5. calm => got = Append(Sizes(Len(t.before)), stream)
      BY <1>2, <3>1 DEF Settled, Sized
    <3>6. Place(t.call) = stream
      BY <2>3 DEF Place
    <3>7. ExpectedData(t.call, t.before, stream) = Append(Sizes(Len(t.before)), stream)
      BY <2>3 DEF ExpectedData
    <3>8. ExpectedContent(t.call, t.before, stream) = t.before
      BY <2>3 DEF ExpectedContent
    <3> QED
      BY <1>3, <2>3, <3>1, <3>4, <3>5, <3>6, <3>7, <3>8 DEF Exact
  <2> QED
    BY <1>1, <1>3, <1>5, <1>9, <2>1, <2>2, <2>3, SharedFacts, FinishStep DEF Errors
<1> QED
  BY <1>6, <1>8, <1>9

LEMMA TransferStep ==
  ASSUME HandleInv, NEW c \in Callers, Transfer(c)
  PROVE  HandleInv'
<1>1. PICK t : t = task[c]
  OBVIOUS
<1> DEFINE op == t.call.op
           m == Head(t.rest)
<1>2. /\ t.pc = "transfer" /\ Busy(c) /\ ~panicked /\ file /\ CallError(c) = "nil"
      /\ UNCHANGED <<work, closed, offset, file, panicked, history>>
  BY <1>1 DEF Transfer, Calls, At, Busy, Unmoved
<1>3. /\ t \in Task /\ Control(t) /\ (Alone(c) => Lone(t)) /\ WellFormed(t.call)
      /\ op \in Ops /\ Method(c) = m /\ m \in Phase(op) /\ t.rest \in Rests(op)
      /\ t.pc \in Steps(m)
  BY <1>1, <1>2, StepFacts
<1>4. m \in {"Read", "Write", "ReadAt", "WriteAt"}
  BY <1>2, <1>3 DEF Steps
<1>5. Writing(c) <=> m \in {"Write", "WriteAt"}
  BY <1>1, <1>2, <1>3 DEF Writing
<1>6. /\ m \in {"Read", "ReadAt"} => t.call.n \in Nat /\ Length(t.call) \in Nat
      /\ m \in {"Write", "WriteAt"} => t.call.data \in Seq(Nat)
      /\ m = "Read" => op \in {"READ", "Read"}
      /\ m = "Write" => op \in {"WRITE", "Write"}
      /\ m \in {"ReadAt", "WriteAt"} => op = m
  <2>1. /\ m = "Read" => op \in {"READ", "Read"}
        /\ m = "Write" => op \in {"WRITE", "Write"}
        /\ m \in {"ReadAt", "WriteAt"} => op = m
    BY <1>3 DEF Phase, Ops, Requests, Queries
  <2> QED
    BY <1>3, <2>1, HandleAssumption DEF WellFormed, Length
<1>7. PICK got : got = IF m \in {"Write", "WriteAt"} THEN t.call.data
                       ELSE FileRead(content, pos, Length(t.call))
  OBVIOUS
<1>8. got \in Seq(Nat)
  BY <1>4, <1>6, <1>7, SharedFacts, FileReadType
<1>9. PICK pc : pc = IF m \in {"ReadAt", "WriteAt"} THEN "restore" ELSE "load"
  OBVIOUS
<1>10. PICK u : u = [t EXCEPT !.got = got, !.pc = pc]
  OBVIOUS
<1>11. /\ task' = [task EXCEPT ![c] = u] /\ pos' = pos + Len(got)
       /\ content' = IF m \in {"Write", "WriteAt"} THEN FileWrite(content, pos, got) ELSE content
  BY <1>1, <1>3, <1>5, <1>7, <1>9, <1>10 DEF Transfer, AfterTransfer, Restores
<1>12. content' \in Seq(Nat) /\ pos' \in Nat
  BY <1>8, <1>11, SharedFacts, FileWriteType
<1>13. pc \in PCs /\ pc \in Steps(m)
  BY <1>4, <1>9 DEF PCs, Calling, Steps
<1>14. /\ u \in Task /\ u.call = t.call /\ u.rest = t.rest /\ u.saved = t.saved
       /\ u.pc = pc /\ u.got = got /\ u.before = t.before /\ u.err = t.err
  <2>1. got \in Seq(Int)
    BY <1>8
  <2> QED
    BY <1>3, <1>10, <1>13, <2>1 DEF Task
<1>15. Control(u)
  BY <1>3, <1>9, <1>13, <1>14 DEF Control
<1>16. Alone(c) => Lone(u)'
  <2>1. SUFFICES ASSUME Alone(c) PROVE Lone(u)'
    OBVIOUS
  <2>2. calm' = calm /\ stream' = stream
    BY <1>2 DEF history
  <2>3. CASE m \in {"ReadAt", "WriteAt"}
    <3>1. AtElsewhere(t)
      BY <1>2, <1>3, <2>1, <2>3 DEF Lone
    <3>2. Recalls(u)'
      BY <1>2, <1>14, <2>2, <3>1 DEF Recalls, AtElsewhere
    <3>3. AtRestore(u)'
      BY <1>7, <1>11, <1>14, <2>3, <3>1, <3>2 DEF AtRestore, AtElsewhere
    <3> QED
      BY <1>6, <1>9, <1>14, <2>3, <3>3 DEF Lone
  <2>4. CASE m \in {"Read", "Write"}
    <3>1. AtStart(t)
      BY <1>2, <1>3, <2>1, <2>4 DEF Lone
    <3>2. ~closed'
      BY <1>2 DEF CallError
    <3>3. Sought(u)' <=> Sought(t)
      BY <1>14 DEF Sought
    <3>4. IF Sought(t) THEN t.call.off >= 0 /\ offset = t.call.off /\ pos = t.call.off
          ELSE calm => offset = stream /\ pos = stream
      BY <1>2, <3>1, <3>2 DEF AtStart, Settled
    <3>5. Sought(t) \/ calm => pos = offset
      BY <3>4
    <3>6. content = t.before
      BY <3>1 DEF AtStart
    <3>7. AtLag(u)'
      BY <1>2, <1>7, <1>11, <1>14, <2>2, <3>2, <3>3, <3>4, <3>5, <3>6 DEF AtLag
    <3> QED
      BY <1>6, <1>9, <1>14, <2>4, <3>7 DEF Lone
  <2> QED
    BY <1>4, <2>3, <2>4
<1>17. pc \notin Closing /\ ~(~file /\ pc \in Checked)
  BY <1>2, <1>9
<1> QED
  BY <1>2, <1>11, <1>12, <1>14, <1>15, <1>16, <1>17, SharedFacts, ContinueStep

LEMMA SaveOffsetStep ==
  ASSUME HandleInv, NEW c \in Callers, SaveOffset(c)
  PROVE  HandleInv'
<1>1. PICK t : t = task[c]
  OBVIOUS
<1>2. /\ t.pc = "save" /\ Busy(c) /\ ~panicked
      /\ UNCHANGED <<work, content, pos, closed, offset, file, panicked, history>>
  BY <1>1 DEF SaveOffset, At, Busy, Unmoved
<1>3. /\ t \in Task /\ Control(t) /\ (Alone(c) => Lone(t)) /\ t.call.op \in Ops
      /\ t.rest \in Rests(t.call.op) /\ t.pc \in Steps(Head(t.rest))
      /\ Head(t.rest) \in Phase(t.call.op)
  BY <1>1, <1>2, StepFacts
<1>4. Head(t.rest) \in {"ReadAt", "WriteAt"}
  BY <1>2, <1>3 DEF Steps
<1>5. PICK u : u = [t EXCEPT !.saved = offset, !.pc = "seek"]
  OBVIOUS
<1>6. task' = [task EXCEPT ![c] = u]
  BY <1>1, <1>5 DEF SaveOffset
<1>7. /\ u \in Task /\ u.call = t.call /\ u.rest = t.rest /\ u.saved = offset
      /\ u.pc = "seek" /\ u.got = t.got /\ u.before = t.before
  BY <1>3, <1>5, SharedFacts DEF Task, PCs, Calling
<1>8. Control(u)
  BY <1>3, <1>4, <1>7 DEF Control, Steps
<1>9. Alone(c) => Lone(u)'
  <2>1. SUFFICES ASSUME Alone(c) PROVE Lone(u)'
    OBVIOUS
  <2>2. calm' = calm /\ stream' = stream
    BY <1>2 DEF history
  <2>3. AtStart(u)'
    BY <1>2, <1>3, <1>7, <2>1, <2>2 DEF Lone, AtStart, Sought, Settled
  <2>4. u.call.op # "Seek"
    BY <1>3, <1>4, <1>7 DEF Phase
  <2> QED
    BY <1>2, <1>4, <1>7, <2>3, <2>4 DEF Lone
<1>10. ~file => c \in overlapped
  BY <1>1, <1>2 DEF HandleInv, RaceInv, Checked
<1> QED
  BY <1>2, <1>6, <1>7, <1>8, <1>9, <1>10, SharedFacts, ContinueStep

LEMMA LoadOffsetStep ==
  ASSUME HandleInv, NEW c \in Callers, LoadOffset(c)
  PROVE  HandleInv'
<1>1. PICK t : t = task[c]
  OBVIOUS
<1>2. /\ t.pc = "load" /\ Busy(c) /\ ~panicked
      /\ UNCHANGED <<work, content, pos, closed, offset, file, panicked, history>>
  BY <1>1 DEF LoadOffset, At, Busy, Unmoved
<1>3. /\ t \in Task /\ Control(t) /\ (Alone(c) => Lone(t)) /\ t.call.op \in Ops
      /\ t.rest \in Rests(t.call.op) /\ t.pc \in Steps(Head(t.rest))
      /\ Head(t.rest) \in Phase(t.call.op)
  BY <1>1, <1>2, StepFacts
<1>4. Head(t.rest) \in {"Read", "Write"}
  BY <1>2, <1>3 DEF Steps
<1>5. PICK u : u = [t EXCEPT !.saved = offset, !.pc = "store"]
  OBVIOUS
<1>6. task' = [task EXCEPT ![c] = u]
  BY <1>1, <1>5 DEF LoadOffset
<1>7. /\ u \in Task /\ u.call = t.call /\ u.rest = t.rest /\ u.saved = offset
      /\ u.pc = "store" /\ u.got = t.got /\ u.before = t.before
  BY <1>3, <1>5, SharedFacts DEF Task, PCs
<1>8. Control(u)
  BY <1>3, <1>4, <1>7 DEF Control, Steps
<1>9. Alone(c) => Lone(u)'
  <2>1. SUFFICES ASSUME Alone(c) PROVE Lone(u)'
    OBVIOUS
  <2>2. calm' = calm /\ stream' = stream
    BY <1>2 DEF history
  <2>3. AtLag(u)'
    BY <1>2, <1>3, <1>7, <2>1, <2>2 DEF Lone, AtLag, Sought
  <2>4. u.call.op # "Seek"
    BY <1>3, <1>4, <1>7 DEF Phase
  <2> QED
    BY <1>2, <1>4, <1>7, <2>3, <2>4 DEF Lone
<1> QED
  BY <1>2, <1>6, <1>7, <1>8, <1>9, SharedFacts, ContinueStep DEF Checked, Calling

(* Read and Write are over: the File's offset has caught up.                 *)
LEMMA StoreOffsetStep ==
  ASSUME HandleInv, NEW c \in Callers, StoreOffset(c)
  PROVE  HandleInv'
<1>1. PICK t : t = task[c]
  OBVIOUS
<1> DEFINE op == t.call.op
           m == Head(t.rest)
<1>2. /\ t.pc = "store" /\ Busy(c) /\ ~panicked /\ offset' = t.saved + Len(t.got)
      /\ Return(c, "nil", t.got)
      /\ UNCHANGED <<work, content, pos, closed, file, panicked>>
  BY <1>1 DEF StoreOffset, At, Busy, Unmoved, Advanced
<1>3. /\ t \in Task /\ (Alone(c) => Lone(t)) /\ op \in Ops /\ WellFormed(t.call)
      /\ t.pc \in Steps(m) /\ m \in Phase(op) /\ Method(c) = m
      /\ t.saved \in Nat /\ t.got \in Seq(Int) /\ Len(t.got) \in Nat
  BY <1>1, <1>2, StepFacts
<1>4. (m = "Read" /\ op \in {"READ", "Read"}) \/ (m = "Write" /\ op \in {"WRITE", "Write"})
  <2>1. m \in {"Read", "Write"}
    BY <1>2, <1>3 DEF Steps
  <2> QED
    BY <1>3, <2>1 DEF Phase, Ops, Requests, Queries
<1>5. Finish(c, "nil", t.got)
  BY <1>1, <1>2, <1>3, <1>4, ReturnFinishes DEF More
<1>6. ASSUME Alone(c) PROVE Tracks(t, "nil", t.got) /\ Exact(t, t.got)
  <2>1. AtLag(t) /\ t.saved = offset
    BY <1>2, <1>3, <1>6 DEF Lone
  <2>2. Sought(t) <=> op \in {"READ", "WRITE"}
    BY <1>4 DEF Sought
  <2>3. CASE op \in {"READ", "WRITE"}
    <3>1. /\ t.call.off >= 0 /\ offset = t.call.off /\ pos = offset + Len(t.got)
          /\ m = "Read" => content = t.before
                           /\ t.got = FileRead(t.before, offset, Length(t.call))
          /\ m = "Write" => t.got = t.call.data
                            /\ content = FileWrite(t.before, offset, t.call.data)
      BY <2>1, <2>2, <2>3 DEF AtLag
    <3>2. StreamAfter(t.call, "nil", t.got, stream) = t.call.off + Len(t.got)
      BY <1>4, <2>3, <3>1 DEF StreamAfter
    <3>3. Tracks(t, "nil", t.got)
      BY <1>2, <2>1, <3>1, <3>2 DEF Tracks
    <3>4. Place(t.call) = t.call.off
      BY <2>3 DEF Place
    <3>5. Exact(t, t.got)
      BY <1>2, <1>4, <2>3, <3>1, <3>4 DEF Exact, ExpectedData, ExpectedContent
    <3> QED
      BY <3>3, <3>5
  <2>4. CASE op \in {"Read", "Write"}
    <3>1. m = "Read" => content = t.before
      BY <2>1 DEF AtLag
    <3>2. ASSUME calm
          PROVE  /\ offset = stream /\ pos = offset + Len(t.got)
                 /\ m = "Read" => t.got = FileRead(t.before, offset, Length(t.call))
                 /\ m = "Write" => t.got = t.call.data
                                   /\ content = FileWrite(t.before, offset, t.call.data)
      BY <2>1, <2>2, <2>4, <3>2 DEF AtLag
    <3>3. CalmAfter(t, TRUE, "nil") => calm
      BY <2>4 DEF CalmAfter
    <3>4. ASSUME calm PROVE StreamAfter(t.call, "nil", t.got, stream) = stream + Len(t.got)
      BY <1>4, <2>4, <3>2, <3>4 DEF StreamAfter
    <3>5. Tracks(t, "nil", t.got)
      BY <1>2, <2>1, <3>2, <3>3, <3>4 DEF Tracks
    <3>6. Place(t.call) = stream
      BY <2>4 DEF Place
    <3>7. Exact(t, t.got)
      BY <1>2, <1>4, <2>4, <3>1, <3>2, <3>6 DEF Exact, ExpectedData, ExpectedContent
    <3> QED
      BY <3>5, <3>7
  <2> QED
    BY <1>4, <2>3, <2>4
<1>7. offset' \in Nat
  BY <1>2, <1>3
<1> QED
  BY <1>1, <1>2, <1>5, <1>6, <1>7, SharedFacts, FinishStep DEF Errors

LEMMA RestorePositionStep ==
  ASSUME HandleInv, NEW c \in Callers, RestorePosition(c)
  PROVE  HandleInv'
<1>1. PICK t : t = task[c]
  OBVIOUS
<1> DEFINE op == t.call.op
<1>2. /\ t.pc = "restore" /\ Busy(c) /\ ~panicked /\ pos' = t.saved
      /\ Return(c, t.err, t.got)
      /\ UNCHANGED <<work, content, closed, offset, file, panicked>>
  BY <1>1 DEF RestorePosition, Calls, At, Busy, Unmoved, Restored
<1>3. /\ t \in Task /\ (Alone(c) => Lone(t)) /\ op \in Ops
      /\ t.pc \in Steps(Head(t.rest)) /\ Head(t.rest) \in Phase(op) /\ Method(c) = Head(t.rest)
      /\ t.saved \in Nat /\ t.got \in Seq(Int) /\ t.err \in Errors
  BY <1>1, <1>2, StepFacts
<1>4. op = Head(t.rest) /\ op \in {"ReadAt", "WriteAt"}
  <2>1. Head(t.rest) \in {"ReadAt", "WriteAt"}
    BY <1>2, <1>3 DEF Steps
  <2> QED
    BY <1>3, <2>1 DEF Phase, Ops, Requests, Queries
<1>5. Finish(c, t.err, t.got)
  BY <1>1, <1>2, <1>3, <1>4, ReturnFinishes DEF More
<1>6. ASSUME Alone(c) PROVE Tracks(t, t.err, t.got) /\ (t.err = "nil" => Exact(t, t.got))
  <2>1. AtRestore(t) /\ Recalls(t)
    BY <1>2, <1>3, <1>6 DEF Lone, AtRestore
  <2>2. StreamAfter(t.call, t.err, t.got, stream) = stream
    BY <1>4 DEF StreamAfter
  <2>3. CalmAfter(t, TRUE, t.err) => calm
    BY <1>4 DEF CalmAfter
  <2>4. Tracks(t, t.err, t.got)
    BY <1>2, <2>1, <2>2, <2>3 DEF Tracks, Recalls
  <2>5. Place(t.call) = t.call.off
    BY <1>4 DEF Place
  <2>6. t.err = "nil" => Exact(t, t.got)
    BY <1>2, <1>4, <2>1, <2>5 DEF Exact, ExpectedData, ExpectedContent, AtRestore
  <2> QED
    BY <2>4, <2>6
<1> QED
  BY <1>1, <1>2, <1>3, <1>5, <1>6, SharedFacts, FinishStep

LEMMA StatFileStep ==
  ASSUME HandleInv, NEW c \in Callers, StatFile(c)
  PROVE  HandleInv'
<1>1. PICK t : t = task[c]
  OBVIOUS
<1> DEFINE op == t.call.op
           m == Head(t.rest)
<1>2. /\ t.pc = "stat" /\ Busy(c) /\ ~panicked /\ file /\ CallError(c) = "nil"
      /\ UNCHANGED <<work, content, pos, closed, offset, file, panicked>>
  BY <1>1 DEF StatFile, Calls, At, Busy, Unmoved
<1>3. /\ t \in Task /\ Control(t) /\ (Alone(c) => Lone(t)) /\ op \in Ops /\ WellFormed(t.call)
      /\ t.pc \in Steps(m) /\ m \in Phase(op) /\ Method(c) = m /\ t.rest \in Rests(op)
      /\ t.before \in Seq(Nat)
  BY <1>1, <1>2, StepFacts
<1>4. m \in {"Stat", "Truncate"}
  BY <1>2, <1>3 DEF Steps
<1>5. Alone(c) => AtStart(t) /\ content = t.before
  BY <1>2, <1>3 DEF Lone, AtStart
<1>6. content \in Seq(Nat) /\ Len(content) \in Nat /\ ~closed
  BY <1>2, SharedFacts DEF CallError
<1>7. CASE m = "Stat"
  <2>1. PICK got : got = Sizes(Len(content))
    OBVIOUS
  <2>2. Return(c, "nil", got) /\ got \in Seq(Int)
    BY <1>1, <1>3, <1>6, <1>7, <2>1, SizesType DEF StatFile
  <2>3. op \in {"STANDARD_INFO", "ALL_INFO", "CLOSE_STAT", "Stat"}
    BY <1>3, <1>7 DEF Phase, Ops, Requests, Queries
  <2>4. CASE op \in {"ALL_INFO", "CLOSE_STAT"}
    <3>1. More(op, Method(c))
      BY <1>3, <1>7, <2>4 DEF More
    <3>2. Alone(c) => /\ content = t.before /\ Settled
                      /\ file /\ ~closed /\ got = Sizes(Len(t.before))
      BY <1>2, <1>5, <1>6, <2>1, <2>4 DEF AtStart, Sought
    <3> QED
      BY <1>1, <1>2, <2>2, <2>4, <3>1, <3>2, SharedFacts, NextMethod
  <2>5. CASE op \in {"STANDARD_INFO", "Stat"}
    <3>1. Finish(c, "nil", got)
      BY <1>1, <1>2, <1>3, <2>2, <2>5, ReturnFinishes DEF More
    <3>2. Alone(c) => Tracks(t, "nil", got)
      BY <1>2, <1>5, <2>5, StillEnds
    <3>3. Alone(c) => Exact(t, got)
      BY <1>2, <1>5, <2>1, <2>5 DEF Exact, ExpectedData, ExpectedContent
    <3> QED
      BY <1>1, <1>2, <3>1, <3>2, <3>3, SharedFacts, FinishStep DEF Errors
  <2> QED
    BY <2>3, <2>4, <2>5
<1>8. CASE m = "Truncate"
  <2>1. op \in {"Truncate", "SET_EOF"} /\ t.call.off \in Int
    BY <1>3, <1>8 DEF Phase, Ops, Requests, Queries, WellFormed
  <2>2. CASE t.call.off = Len(content)
    <3>1. Return(c, "nil", << >>)
      BY <1>1, <1>3, <1>8, <2>2 DEF StatFile
    <3>2. Finish(c, "nil", << >>)
      BY <1>1, <1>2, <1>3, <2>1, <3>1, ReturnFinishes DEF More
    <3>3. Alone(c) => Tracks(t, "nil", << >>)
      BY <1>2, <1>5, <2>1, StillEnds
    <3>4. Alone(c) => Exact(t, << >>)
      BY <1>2, <1>3, <1>5, <2>1, <2>2, ResizedSame DEF Exact, ExpectedContent
    <3> QED
      BY <1>1, <1>2, <3>2, <3>3, <3>4, SharedFacts, FinishStep DEF Errors
  <2>3. CASE t.call.off # Len(content)
    <3>1. PICK pc : pc = IF t.call.off < Len(content) THEN "cut" ELSE "end"
      OBVIOUS
    <3>2. PICK n \in Int : n = t.call.off - Len(content)
      BY <1>6, <2>1
    <3>3. PICK u : u = [t EXCEPT !.left = n, !.pc = pc]
      OBVIOUS
    <3>4. task' = [task EXCEPT ![c] = u] /\ UNCHANGED history
      BY <1>1, <1>3, <1>8, <2>3, <3>1, <3>2, <3>3 DEF StatFile
    <3>5. pc \in PCs /\ pc \in Steps(m) /\ pc \in {"cut", "end"}
      BY <1>8, <3>1 DEF PCs, Calling, Steps
    <3>6. /\ u \in Task /\ u.call = t.call /\ u.rest = t.rest
          /\ u.pc = pc /\ u.left = n /\ u.before = t.before
      BY <1>3, <3>3, <3>5 DEF Task
    <3>7. pc = "end" => n > 0
      BY <1>6, <2>1, <2>3, <3>1, <3>2
    <3>8. Control(u)
      BY <1>3, <3>5, <3>6, <3>7 DEF Control
    <3>9. Alone(c) => Lone(u)'
      <4>1. SUFFICES ASSUME Alone(c) PROVE Lone(u)'
        OBVIOUS
      <4>2. content' = t.before
        BY <1>2, <1>5, <4>1
      <4>3. pc = "cut" => AtCut(u)'
        BY <1>2, <2>1, <3>1, <3>6, <4>2 DEF AtCut
      <4>4. pc = "end" => AtEnd(u)'
        BY <1>2, <2>1, <3>2, <3>6, <4>2 DEF AtEnd
      <4> QED
        BY <2>1, <3>5, <3>6, <4>3, <4>4 DEF Lone
    <3> QED
      BY <1>2, <3>4, <3>5, <3>6, <3>8, <3>9, SharedFacts, ContinueStep
  <2> QED
    BY <2>2, <2>3
<1> QED
  BY <1>4, <1>7, <1>8

LEMMA TruncateSeekStep ==
  ASSUME HandleInv, NEW c \in Callers, TruncateSeek(c)
  PROVE  HandleInv'
<1>1. PICK t : t = task[c]
  OBVIOUS
<1>2. /\ t.pc \in {"cut", "end"} /\ Busy(c) /\ ~panicked /\ file /\ CallError(c) = "nil"
      /\ pos' = IF t.pc = "cut" THEN Target(c) ELSE Len(content)
      /\ UNCHANGED <<work, content, closed, offset, file, panicked, history>>
  BY <1>1 DEF TruncateSeek, Calls, At, Busy, Unmoved
<1>3. /\ t \in Task /\ Control(t) /\ (Alone(c) => Lone(t)) /\ t.call.op \in Ops
      /\ t.pc \in Steps(Head(t.rest)) /\ Head(t.rest) \in Phase(t.call.op)
      /\ t.rest \in Rests(t.call.op) /\ t.before \in Seq(Nat) /\ t.left \in Int
      /\ WellFormed(t.call)
  BY <1>1, <1>2, StepFacts
<1>4. Head(t.rest) = "Truncate"
  BY <1>2, <1>3 DEF Steps
<1>5. t.call.op \in {"Truncate", "SET_EOF"} /\ t.call.off \in Int
  BY <1>3, <1>4 DEF Phase, Ops, Requests, Queries, WellFormed
<1>6. t.pc = "cut" => Target(c) = t.call.off /\ t.call.off >= 0
  BY <1>1, <1>2, TargetType DEF CallError
<1>7. PICK pc : pc = IF t.pc = "cut" THEN "shrink" ELSE "grow"
  OBVIOUS
<1>8. PICK u : u = [t EXCEPT !.pc = pc]
  OBVIOUS
<1>9. task' = [task EXCEPT ![c] = u]
  BY <1>1, <1>7, <1>8 DEF TruncateSeek
<1>10. pc \in PCs /\ pc \in Steps(Head(t.rest)) /\ pc \in {"shrink", "grow"}
  BY <1>4, <1>7 DEF PCs, Calling, Steps
<1>11. /\ u \in Task /\ u.call = t.call /\ u.rest = t.rest
       /\ u.pc = pc /\ u.left = t.left /\ u.before = t.before
  BY <1>3, <1>8, <1>10 DEF Task
<1>12. Control(u)
  BY <1>2, <1>3, <1>7, <1>10, <1>11 DEF Control
<1>13. Alone(c) => Lone(u)'
  <2>1. SUFFICES ASSUME Alone(c) PROVE Lone(u)'
    OBVIOUS
  <2>2. pc = "shrink" => AtShrink(u)'
    BY <1>2, <1>3, <1>6, <1>7, <1>11, <2>1 DEF Lone, AtCut, AtShrink
  <2>3. ASSUME pc = "grow" PROVE AtGrow(u)'
    <3>1. AtEnd(t) /\ t.pc = "end"
      BY <1>2, <1>3, <1>7, <2>1, <2>3 DEF Lone
    <3>2. content = t.before /\ content = Resized(t.before, Len(content))
      BY <1>3, <3>1, ResizedSame DEF AtEnd
    <3> QED
      BY <1>2, <1>3, <1>11, <3>1, <3>2 DEF AtEnd, AtGrow
  <2> QED
    BY <1>5, <1>10, <1>11, <2>2, <2>3 DEF Lone
<1>14. pos' \in Nat
  BY <1>2, <1>5, <1>6, SharedFacts
<1> QED
  BY <1>2, <1>9, <1>10, <1>11, <1>12, <1>13, <1>14, SharedFacts, ContinueStep

LEMMA ShrinkStep ==
  ASSUME HandleInv, NEW c \in Callers, Shrink(c)
  PROVE  HandleInv'
<1>1. PICK t : t = task[c]
  OBVIOUS
<1>2. /\ t.pc = "shrink" /\ Busy(c) /\ ~panicked
      /\ content' = FileWrite(content, pos, << >>) /\ Return(c, "nil", << >>)
      /\ UNCHANGED <<work, pos, closed, offset, file, panicked>>
  BY <1>1 DEF Shrink, Calls, At, Busy, Unmoved
<1>3. /\ (Alone(c) => Lone(t)) /\ t.call.op \in Ops /\ Method(c) = Head(t.rest)
      /\ t.pc \in Steps(Head(t.rest)) /\ Head(t.rest) \in Phase(t.call.op)
      /\ t.before \in Seq(Nat) /\ WellFormed(t.call)
  BY <1>1, <1>2, StepFacts
<1>4. Head(t.rest) = "Truncate"
  BY <1>2, <1>3 DEF Steps
<1>5. t.call.op \in {"Truncate", "SET_EOF"} /\ t.call.off \in Int
  BY <1>3, <1>4 DEF Phase, Ops, Requests, Queries, WellFormed
<1>6. Finish(c, "nil", << >>)
  BY <1>1, <1>2, <1>5, ReturnFinishes DEF More
<1>7. content' \in Seq(Nat)
  <2>1. << >> \in Seq(Nat)
    OBVIOUS
  <2> QED
    BY <1>2, <2>1, SharedFacts, FileWriteType
<1>8. ASSUME Alone(c) PROVE Tracks(t, "nil", << >>) /\ Exact(t, << >>)
  <2>1. /\ content = t.before /\ t.call.off < Len(t.before) /\ t.call.off \in Nat
        /\ pos = t.call.off
    BY <1>2, <1>3, <1>5, <1>8 DEF Lone, AtShrink, AtCut
  <2>2. content' = Resized(t.before, t.call.off)
    BY <1>2, <1>3, <2>1, ResizedCut
  <2>3. t.call.off # Len(t.before)
    BY <1>3, <2>1
  <2>4. Tracks(t, "nil", << >>)
    BY <1>5, <2>3 DEF Tracks, CalmAfter
  <2> QED
    BY <1>5, <2>2, <2>4 DEF Exact, ExpectedContent
<1> QED
  BY <1>1, <1>2, <1>6, <1>7, <1>8, SharedFacts, FinishStep DEF Errors

(* A chunk of zeros, and another one if there is more to write.              *)
LEMMA GrowStep ==
  ASSUME HandleInv, NEW c \in Callers, Grow(c)
  PROVE  HandleInv'
<1>1. PICK t : t = task[c]
  OBVIOUS
<1>2. PICK n : n = toWrite(t.left)
  OBVIOUS
<1>3. /\ t.pc = "grow" /\ Busy(c) /\ ~panicked /\ file /\ pos' = pos + n
      /\ content' = FileWrite(content, pos, [i \in 1 .. n |-> Zero])
      /\ UNCHANGED <<work, closed, offset, file, panicked>>
  BY <1>1, <1>2 DEF Grow, Calls, At, Busy, Unmoved
<1>4. /\ t \in Task /\ Control(t) /\ (Alone(c) => Lone(t)) /\ t.call.op \in Ops
      /\ t.pc \in Steps(Head(t.rest)) /\ Head(t.rest) \in Phase(t.call.op)
      /\ t.rest \in Rests(t.call.op) /\ t.before \in Seq(Nat) /\ t.left \in Int
      /\ WellFormed(t.call) /\ Method(c) = Head(t.rest)
  BY <1>1, <1>3, StepFacts
<1>5. Head(t.rest) = "Truncate"
  BY <1>3, <1>4 DEF Steps
<1>6. t.call.op \in {"Truncate", "SET_EOF"} /\ t.call.off \in Int
  BY <1>4, <1>5 DEF Phase, Ops, Requests, Queries, WellFormed
<1>7. t.left > 0 /\ n \in Nat /\ n > 0 /\ n <= t.left
  BY <1>2, <1>3, <1>4, HandleAssumption DEF Control, toWrite
<1>8. content' \in Seq(Nat) /\ pos' \in Nat
  <2>1. PICK z : z = [i \in 1 .. n |-> Zero]
    OBVIOUS
  <2>2. z \in Seq(Nat)
    BY <1>7, <2>1 DEF Zero
  <2>3. content' = FileWrite(content, pos, z)
    BY <1>3, <2>1
  <2>4. FileWrite(content, pos, z) \in Seq(Nat)
    BY <2>2, SharedFacts, FileWriteType
  <2> QED
    BY <1>3, <1>7, <2>3, <2>4, SharedFacts
<1>9. ASSUME Alone(c)
      PROVE  /\ Len(content) >= Len(t.before) /\ t.left = t.call.off - Len(content)
             /\ content' = Resized(t.before, Len(content) + n)
             /\ Len(content') = Len(content) + n /\ pos' = Len(content) + n
  <2>1. AtGrow(t)
    BY <1>3, <1>4, <1>9 DEF Lone
  <2>2. /\ Len(content) >= Len(t.before) /\ t.left = t.call.off - Len(content)
        /\ content = Resized(t.before, Len(content)) /\ pos = Len(content)
    BY <2>1 DEF AtGrow
  <2>3. /\ FileWrite(content, Len(content), [i \in 1 .. n |-> Zero])
             = Resized(t.before, Len(content) + n)
        /\ Len(Resized(t.before, Len(content) + n)) = Len(content) + n
    BY <1>4, <1>7, <2>2, SharedFacts, ResizedGrown
  <2>4. content' = Resized(t.before, Len(content) + n)
    BY <1>3, <2>2, <2>3, Zenon
  <2> QED
    BY <1>3, <2>2, <2>3, <2>4, Zenon
<1>10. CASE t.left > n
  <2>1. PICK l \in Int : l = t.left - n
    BY <1>4, <1>7
  <2>2. PICK u : u = [t EXCEPT !.left = l]
    OBVIOUS
  <2>3. task' = [task EXCEPT ![c] = u] /\ UNCHANGED history
    BY <1>1, <1>2, <1>10, <2>1, <2>2 DEF Grow
  <2>4. /\ u \in Task /\ u.call = t.call /\ u.rest = t.rest
        /\ u.pc = "grow" /\ u.left = l /\ u.before = t.before
    BY <1>3, <1>4, <2>2 DEF Task
  <2>5. Control(u)
    <3>1. l > 0
      BY <1>7, <1>10, <2>1, <1>4
    <3> QED
      BY <1>3, <1>4, <2>4, <3>1 DEF Control
  <2>6. Alone(c) => Lone(u)'
    <3>1. SUFFICES ASSUME Alone(c) PROVE Lone(u)'
      OBVIOUS
    <3>2. Len(content) \in Nat /\ Len(t.before) \in Nat
      BY <1>4, SharedFacts
    <3>3. content' = Resized(u.before, Len(content')) /\ pos' = Len(content')
      BY <1>9, <2>4, <3>1, Zenon
    <3>4. /\ Len(content') >= Len(u.before) /\ u.left = u.call.off - Len(content')
      BY <1>6, <1>7, <1>9, <2>1, <2>4, <3>1, <3>2
    <3>5. AtGrow(u)'
      BY <3>3, <3>4 DEF AtGrow
    <3> QED
      BY <1>6, <2>4, <3>5 DEF Lone
  <2> QED
    BY <1>3, <1>8, <2>3, <2>4, <2>5, <2>6, SharedFacts, ContinueStep
<1>11. CASE ~(t.left > n)
  <2>1. n = t.left
    BY <1>4, <1>7, <1>11
  <2>2. Return(c, "nil", << >>)
    BY <1>1, <1>2, <1>11 DEF Grow
  <2>3. Finish(c, "nil", << >>)
    BY <1>1, <1>3, <1>6, <2>2, ReturnFinishes DEF More
  <2>4. ASSUME Alone(c) PROVE Tracks(t, "nil", << >>) /\ Exact(t, << >>)
    <3>1. Len(content) \in Nat /\ Len(t.before) \in Nat
      BY <1>4, SharedFacts
    <3>2. Len(content) + n = t.call.off
      BY <1>6, <1>7, <1>9, <2>1, <2>4, <3>1
    <3>3. t.call.off # Len(t.before)
      BY <1>7, <1>9, <2>4, <3>1, <3>2
    <3>4. Tracks(t, "nil", << >>)
      BY <1>6, <3>3 DEF Tracks, CalmAfter
    <3> QED
      BY <1>6, <1>9, <2>4, <3>2, <3>4 DEF Exact, ExpectedContent
  <2> QED
    BY <1>1, <1>3, <1>8, <2>3, <2>4, SharedFacts, FinishStep DEF Errors
<1> QED
  BY <1>10, <1>11

LEMMA CloseBackendStep ==
  ASSUME HandleInv, NEW c \in Callers, CloseBackend(c)
  PROVE  HandleInv'
<1>1. PICK t : t = task[c]
  OBVIOUS
<1>2. /\ t.pc = "close" /\ Busy(c) /\ ~panicked /\ file /\ closed'
      /\ UNCHANGED <<work, content, pos, offset, file, panicked, history>>
  BY <1>1 DEF CloseBackend, Calls, At, Busy
<1>3. /\ t \in Task /\ Control(t) /\ (Alone(c) => Lone(t)) /\ t.call.op \in Ops
      /\ t.pc \in Steps(Head(t.rest)) /\ Head(t.rest) \in Phase(t.call.op)
      /\ t.rest \in Rests(t.call.op)
  BY <1>1, <1>2, StepFacts
<1>4. Head(t.rest) = "Close"
  BY <1>2, <1>3 DEF Steps
<1>5. PICK u : u = [t EXCEPT !.pc = "drop"]
  OBVIOUS
<1>6. task' = [task EXCEPT ![c] = u]
  BY <1>1, <1>5 DEF CloseBackend
<1>7. /\ u \in Task /\ u.call = t.call /\ u.rest = t.rest
      /\ u.pc = "drop" /\ u.before = t.before
  BY <1>3, <1>5 DEF Task, PCs
<1>8. Control(u)
  BY <1>3, <1>4, <1>7 DEF Control, Steps
<1>9. Alone(c) => Lone(u)'
  <2>1. SUFFICES ASSUME Alone(c) PROVE Lone(u)'
    OBVIOUS
  <2>2. content' = u.before
    BY <1>2, <1>3, <1>7, <2>1 DEF Lone, AtStart
  <2>3. u.call.op # "Seek"
    BY <1>3, <1>4, <1>7 DEF Phase
  <2> QED
    BY <1>4, <1>7, <2>2, <2>3 DEF Lone
<1> QED
  BY <1>2, <1>6, <1>7, <1>8, <1>9, SharedFacts, ContinueStep DEF Checked, Calling

(* What a caller that has closed the file of the share still has to do.      *)
LEMMA ClosingFacts ==
  ASSUME HandleInv, NEW c \in Callers, NEW t, t = task[c], t.pc \in Closing
  PROVE  /\ closed /\ Busy(c) /\ t \in Task /\ Control(t)
         /\ t.call.op \in {"CLOSE", "CLOSE_STAT", "Close"}
         /\ Head(t.rest) = "Close" /\ Method(c) = "Close"
         /\ (Alone(c) => Lone(t) /\ content = t.before)
<1>1. closed /\ Busy(c)
  BY DEF HandleInv, RaceInv, Busy, Closing
<1>2. /\ t \in Task /\ Control(t) /\ (Alone(c) => Lone(t)) /\ t.call.op \in Ops
      /\ Method(c) = Head(t.rest)
      /\ t.pc \in Steps(Head(t.rest)) /\ Head(t.rest) \in Phase(t.call.op)
  BY <1>1, StepFacts
<1>3. Head(t.rest) = "Close"
  BY <1>2 DEF Steps, Closing
<1>4. t.call.op \in {"CLOSE", "CLOSE_STAT", "Close"}
  BY <1>2, <1>3 DEF Phase, Ops, Requests, Queries
<1> QED
  BY <1>1, <1>2, <1>3, <1>4 DEF Lone

(* A step inside Close after which Close goes on.                            *)
LEMMA ClosingGoesOn ==
  ASSUME HandleInv, NEW c \in Callers, task[c].pc \in Closing, ~panicked, NEW pc \in Closing,
         task' = [task EXCEPT ![c] = [@ EXCEPT !.pc = pc]],
         UNCHANGED <<work, content, pos, closed, offset, panicked, history>>
  PROVE  HandleInv'
<1>1. PICK t : t = task[c]
  OBVIOUS
<1>2. PICK u : u = [t EXCEPT !.pc = pc]
  OBVIOUS
<1>3. /\ closed /\ Busy(c) /\ t \in Task /\ Control(t)
      /\ t.call.op \in {"CLOSE", "CLOSE_STAT", "Close"} /\ Head(t.rest) = "Close"
      /\ (Alone(c) => Lone(t) /\ content = t.before)
  BY <1>1, ClosingFacts
<1>4. task' = [task EXCEPT ![c] = u] /\ pc \in PCs /\ pc \notin Checked
  BY <1>1, <1>2 DEF PCs, Closing, Checked, Calling
<1>5. /\ u \in Task /\ u.call = t.call /\ u.rest = t.rest /\ u.pc = pc /\ u.before = t.before
  BY <1>2, <1>3, <1>4 DEF Task
<1>6. Control(u)
  BY <1>3, <1>5 DEF Control, Steps, Closing
<1>7. Alone(c) => Lone(u)'
  BY <1>3, <1>5 DEF Lone, Closing
<1> QED
  BY <1>3, <1>4, <1>5, <1>6, <1>7, SharedFacts, ContinueStep

LEMMA CloseFileStep ==
  ASSUME HandleInv, NEW c \in Callers, CloseFile(c)
  PROVE  HandleInv'
BY ClosingGoesOn DEF CloseFile, At, backend, Closing

(* Close returns.                                                            *)
LEMMA ClosingEnds ==
  ASSUME HandleInv, NEW c \in Callers, task[c].pc \in Closing, ~panicked,
         Return(c, "nil", << >>),
         UNCHANGED <<work, content, pos, closed, offset, file, panicked>>
  PROVE  Finish(c, "nil", << >>) /\ HandleInv'
<1>1. PICK t : t = task[c]
  OBVIOUS
<1>2. /\ closed /\ Busy(c) /\ t.call.op \in {"CLOSE", "CLOSE_STAT", "Close"}
      /\ Method(c) = "Close" /\ (Alone(c) => content = t.before)
  BY <1>1, ClosingFacts
<1>3. Finish(c, "nil", << >>)
  BY <1>1, <1>2, ReturnFinishes DEF More
<1>4. Alone(c) => Tracks(t, "nil", << >>) /\ Exact(t, << >>)
  BY <1>2, ClosedTracks, StillExact
<1> QED
  BY <1>1, <1>2, <1>3, <1>4, SharedFacts, FinishStep DEF Errors

LEMMA ReturnConnectionStep ==
  ASSUME HandleInv, NEW c \in Callers, ReturnConnection(c)
  PROVE  HandleInv'
BY ClosingGoesOn, ClosingEnds DEF ReturnConnection, At, backend, Closing

LEMMA ForgetConnectionStep ==
  ASSUME HandleInv, NEW c \in Callers, ForgetConnection(c)
  PROVE  HandleInv'
BY ClosingEnds DEF ForgetConnection, At, backend, Closing

-----------------------------------------------------------------------------
(* Calls that start, are refused or panic.                                   *)

LEMMA StartedFacts ==
  ASSUME HandleInv, NEW call \in work.calls, NEW t, t = Started(call)
  PROVE  /\ t \in Task /\ Control(t) /\ t.pc = "enter"
         /\ (\A d \in Callers : ~Busy(d)) => Lone(t)
<1>1. content \in Seq(Nat) /\ call \in AllCalls
  BY SharedFacts DEF AllCalls
<1>2. call.op \in Ops
  BY <1>1, CallsWellFormed DEF WellFormed
<1>3. PICK r : r = Methods(call.op)
  OBVIOUS
<1>4. /\ r \in Rests(call.op) /\ r \in Seq(MethodNames) /\ Head(r) \in Phase(call.op)
      /\ call.op \in {"READ", "WRITE"} => Head(r) = "Seek"
      /\ call.op = "ALL_INFO" => Head(r) = "Stat"
  BY <1>2, <1>3, MethodsStart, Phases
<1>5. t = [call |-> call, pc |-> "enter", rest |-> r, saved |-> 0, left |-> 0,
           got |-> << >>, err |-> "nil", before |-> content]
  BY <1>3 DEF Started
<1>6. << >> \in Seq(Int)
  OBVIOUS
<1>7. /\ t \in Task /\ t.call = call /\ t.pc = "enter" /\ t.rest = r /\ t.got = << >>
      /\ t.before = content
  BY <1>1, <1>4, <1>5, <1>6 DEF Task, PCs, Errors
<1>8. Control(t)
  BY <1>4, <1>7 DEF Control, Steps
<1>9. ASSUME \A d \in Callers : ~Busy(d) PROVE Lone(t)
  <2>1. Settled
    BY <1>9 DEF HandleInv, OffsetTracks, Settled
  <2>2. AtStart(t)
    BY <1>4, <1>7, <2>1 DEF AtStart, Sought
  <2> QED
    BY <1>4, <1>7, <2>2 DEF Lone
<1> QED
  BY <1>7, <1>8, <1>9

(* Nobody else is busy, or everybody who is has now been overlapped.         *)
LEMMA BeginStep ==
  ASSUME HandleInv, NEW c \in Callers, NEW call \in work.calls, Begin(c, call)
  PROVE  HandleInv'
<1>1. PICK t : t = Started(call)
  OBVIOUS
<1>2. /\ ~Busy(c) /\ ~panicked /\ task' = [task EXCEPT ![c] = t]
      /\ UNCHANGED <<work, content, pos, closed, offset, file, panicked, stream, last>>
  BY <1>1 DEF Begin, At, Busy, backend
<1>3. t \in Task /\ Control(t) /\ t.pc = "enter" /\ ((\A d \in Callers : ~Busy(d)) => Lone(t))
  BY <1>1, StartedFacts
<1>4. /\ task \in [Callers -> Task \cup {Idle}] /\ work \in Workloads
      /\ overlapped \subseteq Callers /\ content \in Seq(Nat) /\ pos \in Nat /\ offset \in Nat
  BY DEF HandleInv, SharedTypes
<1>5. task'[c] = t /\ \A d \in Callers \ {c} : task'[d] = task[d]
  BY <1>2, <1>4
<1>6. Busy(c)' /\ \A d \in Callers \ {c} : Busy(d)' <=> Busy(d)
  BY <1>3, <1>5 DEF Busy
<1>7. /\ overlapped' \subseteq Callers
      /\ \A d \in Callers : Busy(d)' /\ (\E e \in Callers \ {c} : Busy(e)) => d \in overlapped'
      /\ calm' => calm
  <2>1. PICK others : others = {d \in Callers \ {c} : Busy(d)}
    OBVIOUS
  <2>2. overlapped' = IF others = {} THEN {} ELSE others \cup {c}
    BY <2>1 DEF Begin
  <2>3. calm' => calm
    BY Zenon DEF Begin
  <2> QED
    BY <1>6, <2>1, <2>2, <2>3
<1>8. SharedTypes'
  <2>1. task' \in [Callers -> Task \cup {Idle}]
    BY <1>2, <1>3, <1>4
  <2> QED
    BY <1>2, <1>4, <1>7, <2>1 DEF SharedTypes
<1>9. RaceInv'
  <2>1. \A a, d \in Callers : a # d /\ Busy(a)' /\ Busy(d)' => a \in overlapped'
    BY <1>6, <1>7
  <2>2. ~file' => closed'
    BY <1>2 DEF HandleInv, RaceInv
  <2>3. \A d \in Callers : task'[d].pc \in Closing => closed'
    BY <1>2, <1>3, <1>5 DEF HandleInv, RaceInv
  <2>4. ASSUME NEW d \in Callers, ~file', task'[d].pc \in Checked PROVE d \in overlapped'
    <3>1. d # c
      BY <1>3, <1>5, <2>4 DEF Checked, Calling
    <3>2. Busy(d)'
      BY <2>4 DEF Busy, Checked, Calling
    <3> QED
      BY <1>6, <1>7, <3>1, <3>2
  <2>5. PanicNeedsRace'
    BY <1>2 DEF PanicNeedsRace
  <2> QED
    BY <2>1, <2>2, <2>3, <2>4, <2>5 DEF RaceInv
<1>10. TaskInv(c)'
  <2>1. ASSUME \A d \in Callers \ {c} : ~Busy(d) PROVE Lone(t)'
    <3>1. Lone(t)
      BY <1>2, <1>3, <2>1
    <3>2. AtStart(t)
      BY <1>3, <3>1 DEF Lone
    <3>3. AtStart(t)'
      BY <1>2, <1>7, <3>2 DEF AtStart, Settled
    <3>4. (t.call.op = "ALL_INFO" /\ Head(t.rest) = "Seek" => Sized(t)')
          /\ (t.call.op = "Seek" => t.got = << >>)
      BY <1>2, <3>1 DEF Lone, Sized
    <3> QED
      BY <1>3, <3>3, <3>4 DEF Lone
  <2>2. c \notin overlapped' => Lone(t)'
    BY <1>6, <1>7, <2>1
  <2> QED
    BY <1>3, <1>5, <2>2 DEF TaskInv, Alone
<1>11. ASSUME NEW d \in Callers \ {c} PROVE TaskInv(d)'
  <2>1. Busy(d)' => Control(task'[d]) /\ d \in overlapped'
    BY <1>5, <1>6, <1>7 DEF HandleInv, TaskInv
  <2> QED
    BY <2>1 DEF TaskInv, Alone
<1>12. OffsetTracks' /\ AloneExact'
  BY <1>6 DEF OffsetTracks, AloneExact
<1> QED
  BY <1>8, <1>9, <1>10, <1>11, <1>12 DEF HandleInv

(* What does not touch the calls under way, the file or its offsets keeps    *)
(* the invariant, whatever it records as returned last.                      *)
Quiet == UNCHANGED <<work, content, pos, closed, offset, file, task, overlapped, stream, calm>>

LEMMA QuietTasks ==
  ASSUME Quiet, NEW c \in Callers, TaskInv(c)
  PROVE  TaskInv(c)'
<1>1. PICK t : t = task[c]
  OBVIOUS
<1>2. task'[c] = t
  BY <1>1 DEF Quiet
<1>3. Settled' <=> Settled
  BY DEF Quiet, Settled
<1>4. (AtStart(t)' <=> AtStart(t)) /\ (Sized(t)' <=> Sized(t)) /\ (AtMoved(t)' <=> AtMoved(t))
  BY <1>3 DEF Quiet, AtStart, Sized, AtMoved
<1>5. (AtElsewhere(t)' <=> AtElsewhere(t)) /\ (AtRestore(t)' <=> AtRestore(t))
      /\ (AtLag(t)' <=> AtLag(t))
  BY DEF Quiet, AtElsewhere, AtRestore, Recalls, AtLag
<1>6. (AtCut(t)' <=> AtCut(t)) /\ (AtShrink(t)' <=> AtShrink(t)) /\ (AtEnd(t)' <=> AtEnd(t))
      /\ (AtGrow(t)' <=> AtGrow(t))
  BY DEF Quiet, AtCut, AtShrink, AtEnd, AtGrow
<1>7. Lone(t) => Lone(t)'
  BY <1>4, <1>5, <1>6 DEF Quiet, Lone
<1> QED
  BY <1>1, <1>2, <1>7 DEF Quiet, TaskInv, Busy, Alone

LEMMA QuietStep ==
  ASSUME HandleInv, Quiet, PanicNeedsRace', AloneExact'
  PROVE  HandleInv'
<1>1. SharedTypes'
  BY DEF HandleInv, SharedTypes, Quiet
<1>2. RaceInv'
  BY DEF HandleInv, RaceInv, Quiet, Busy
<1>3. OffsetTracks'
  BY DEF HandleInv, OffsetTracks, Quiet, Busy
<1>4. \A c \in Callers : TaskInv(c)'
  BY QuietTasks DEF HandleInv
<1> QED
  BY <1>1, <1>2, <1>3, <1>4 DEF HandleInv

LEMMA RefuseStep ==
  ASSUME HandleInv, NEW c \in Callers, NEW call, Refuse(c, call)
  PROVE  HandleInv'
<1>1. Quiet /\ ~panicked'
  BY DEF Refuse, At, backend, Quiet
<1>2. ~last'.alone
  BY Zenon DEF Refuse, NoCall
<1>3. PanicNeedsRace' /\ AloneExact'
  BY <1>1, <1>2 DEF PanicNeedsRace, AloneExact
<1> QED
  BY <1>1, <1>3, QuietStep

LEMMA PanicStep ==
  ASSUME HandleInv, NEW c \in Callers, Panic(c)
  PROVE  HandleInv'
<1>1. Quiet /\ last' = last /\ task[c].pc \in Calling /\ ~file
  BY DEF Panic, backend, history, Quiet
<1>2. c \in overlapped' /\ Busy(c)'
  BY <1>1 DEF HandleInv, RaceInv, Quiet, Busy, Checked, Calling
<1>3. PanicNeedsRace'
  BY <1>2 DEF PanicNeedsRace
<1>4. AloneExact'
  BY <1>1 DEF HandleInv, AloneExact, Quiet, Busy
<1> QED
  BY <1>1, <1>3, <1>4, QuietStep

-----------------------------------------------------------------------------
(* The invariant, and what follows from it.                                  *)

LEMMA HandleInvInit ==
  ASSUME HandleInit
  PROVE  HandleInv
<1>1. \A c \in Callers : task[c] = Idle /\ ~Busy(c) /\ task[c].pc = "idle"
  BY DEF HandleInit, Busy, Idle
<1>2. SharedTypes
  <2>1. content \in Seq(Nat)
    BY WorkloadAssumption DEF HandleInit
  <2>2. task \in [Callers -> Task \cup {Idle}]
    BY DEF HandleInit
  <2> QED
    BY <2>1, <2>2 DEF HandleInit, SharedTypes
<1>3. RaceInv
  BY <1>1 DEF HandleInit, RaceInv, PanicNeedsRace
<1>4. \A c \in Callers : TaskInv(c)
  BY <1>1 DEF TaskInv
<1>5. OffsetTracks
  BY DEF HandleInit, OffsetTracks
<1>6. ~last.alone
  BY Zenon DEF HandleInit, NoCall
<1>7. AloneExact
  BY <1>6 DEF AloneExact
<1> QED
  BY <1>2, <1>3, <1>4, <1>5, <1>7 DEF HandleInv

LEMMA HandleInvStep ==
  ASSUME HandleInv, [HandleNext]_vars
  PROVE  HandleInv'
<1>1. CASE UNCHANGED vars
  <2>1. Quiet /\ last' = last /\ panicked' = panicked
    BY <1>1 DEF vars, backend, history, Quiet
  <2>2. PanicNeedsRace' /\ AloneExact'
    BY <2>1 DEF HandleInv, RaceInv, PanicNeedsRace, AloneExact, Quiet, Busy
  <2> QED
    BY <2>1, <2>2, QuietStep
<1>2. ASSUME NEW c \in Callers, \E call \in work.calls : Begin(c, call)
      PROVE  HandleInv'
  BY <1>2, BeginStep
<1>3. ASSUME NEW c \in Callers, \E call \in work.calls : Refuse(c, call)
      PROVE  HandleInv'
  BY <1>3, RefuseStep
<1>4. ASSUME NEW c \in Callers,
             \/ Enter(c) \/ Release(c) \/ Panic(c) \/ CallFails(c)
             \/ SaveOffset(c) \/ SeekBackend(c) \/ SeekFile(c) \/ Transfer(c)
      PROVE  HandleInv'
  BY <1>4, EnterStep, ReleaseStep, PanicStep, CallFailsStep, SaveOffsetStep, SeekBackendStep,
     SeekFileStep, TransferStep
<1>5. ASSUME NEW c \in Callers,
             \/ LoadOffset(c) \/ StoreOffset(c) \/ RestorePosition(c) \/ StatFile(c)
             \/ TruncateSeek(c) \/ Shrink(c) \/ Grow(c) \/ CloseBackend(c) \/ CloseFile(c)
             \/ ReturnConnection(c) \/ ForgetConnection(c)
      PROVE  HandleInv'
  BY <1>5, LoadOffsetStep, StoreOffsetStep, RestorePositionStep, StatFileStep,
     TruncateSeekStep, ShrinkStep, GrowStep, CloseBackendStep, CloseFileStep,
     ReturnConnectionStep, ForgetConnectionStep
<1> QED
  BY <1>1, <1>2, <1>3, <1>4, <1>5 DEF HandleNext

(* The inductive invariant: where each call under way is, and for a call     *)
(* that is alone where the two offsets, the content and its data are by then *)
(* (file.go, and the handlers of smb2_file.go that use a File).              *)
THEOREM HandleInvHolds == HandleSpec => []HandleInv
<1>1. HandleInit => HandleInv
  BY HandleInvInit
<1>2. HandleInv /\ [HandleNext]_vars => HandleInv'
  BY HandleInvStep
<1> QED
  BY <1>1, <1>2, PTL DEF HandleSpec

-----------------------------------------------------------------------------
(* What Close does with the connection.                                      *)

(* A caller whose current method is Close, before or after its nil check.    *)
Closer(c) == Busy(c) /\ Head(task[c].rest) = "Close"
CloseSteps == {"close", "drop", "return", "forget"}

LeaseInv ==
  /\ returned \in Nat /\ conn \in BOOLEAN /\ contended \in BOOLEAN
  /\ \A c, d \in Callers : c # d /\ InClose(c) /\ InClose(d) => contended
  /\ ~contended => /\ returned <= 1
                   /\ conn /\ returned = 1 => \E c \in Callers : task[c].pc = "forget"
  /\ ~conn => returned > 0
  /\ \A c \in Callers : task[c].pc = "forget" => returned > 0
  /\ ~file => returned > 0 \/ \E c \in Callers : task[c].pc = "return"

(* Without calls of File.Close itself, only the CLOSE request that has taken *)
(* the handle out of its table reaches Close.                                *)
Served == \A call \in work.calls : call.op # "Close"
ServedInv ==
  /\ \A c \in Callers : Busy(c) => task[c].call \in work.calls
  /\ Served => /\ \A c \in Callers : Closer(c) => ~listed
               /\ \A c, d \in Callers : Closer(c) /\ Closer(d) => c = d
               /\ ~contended

(* Caller c finishes, goes on to its next method, or to one of the steps of  *)
(* the method it is in.                                                      *)
Passes(c, steps) ==
  /\ \A d \in Callers \ {c} : task'[d] = task[d]
  /\ \/ task'[c] = Idle
     \/ /\ task'[c].call = task[c].call /\ task'[c].pc = "enter"
        /\ task'[c].rest = Tail(task[c].rest) /\ Len(task[c].rest) > 1
     \/ /\ task'[c].call = task[c].call /\ task'[c].rest = task[c].rest
        /\ task'[c].pc \in steps

LEMMA FinishPasses ==
  ASSUME SharedTypes, NEW c \in Callers, NEW err, NEW got, NEW steps, Finish(c, err, got)
  PROVE  Passes(c, steps)
BY DEF Finish, Passes, SharedTypes

(* A step within a method.                                                   *)
LEMMA StepPasses ==
  ASSUME SharedTypes, NEW c \in Callers, NEW steps, NEW u, task' = [task EXCEPT ![c] = u],
         u.call = task[c].call, u.rest = task[c].rest, u.pc \in steps
  PROVE  Passes(c, steps)
BY DEF Passes, SharedTypes

LEMMA ReturnPasses ==
  ASSUME SharedTypes, NEW c \in Callers, task[c] \in Task, NEW err, NEW got, NEW steps,
         Return(c, err, got)
  PROVE  Passes(c, steps)
<1>1. CASE err = "nil" /\ Len(task[c].rest) > 1
  <2>1. PICK u : u = [task[c] EXCEPT !.rest = Tail(task[c].rest), !.pc = "enter", !.got = got]
    OBVIOUS
  <2>2. task' = [task EXCEPT ![c] = u]
    BY <1>1, <2>1 DEF Return
  <2>3. u.call = task[c].call /\ u.pc = "enter" /\ u.rest = Tail(task[c].rest)
    BY <2>1 DEF Task
  <2> QED
    BY <1>1, <2>2, <2>3 DEF Passes, SharedTypes
<1>2. CASE ~(err = "nil" /\ Len(task[c].rest) > 1)
  BY <1>2, FinishPasses DEF Return
<1> QED
  BY <1>1, <1>2

LEMMA FailPasses ==
  ASSUME SharedTypes, NEW c \in Callers, task[c] \in Task, NEW err, NEW steps,
         "restore" \in steps, Fail(c, err)
  PROVE  Passes(c, steps)
<1>1. CASE Restores(c) /\ task[c].pc = "transfer"
  <2>1. PICK u : u = [task[c] EXCEPT !.pc = "restore", !.err = err]
    OBVIOUS
  <2>2. task' = [task EXCEPT ![c] = u]
    BY <1>1, <2>1 DEF Fail
  <2>3. u.call = task[c].call /\ u.pc = "restore" /\ u.rest = task[c].rest
    BY <2>1 DEF Task
  <2> QED
    BY <2>2, <2>3, StepPasses
<1>2. CASE ~(Restores(c) /\ task[c].pc = "transfer")
  BY <1>2, FinishPasses, ReturnPasses DEF Fail
<1> QED
  BY <1>1, <1>2

(* The steps of a busy caller that are not in Close.                         *)
Elsewhere == PCs \ CloseSteps
Outside(c) ==
  \/ CallFails(c) \/ SaveOffset(c) \/ SeekBackend(c) \/ SeekFile(c) \/ Transfer(c)
  \/ LoadOffset(c) \/ StoreOffset(c) \/ RestorePosition(c) \/ StatFile(c) \/ TruncateSeek(c)
  \/ Shrink(c) \/ Grow(c)

LEMMA OutsidePasses ==
  ASSUME HandleInv, NEW c \in Callers, Outside(c)
  PROVE  /\ Passes(c, Elsewhere) /\ UNCHANGED <<lease, file, listed, work>>
         /\ Busy(c) /\ task[c].pc \notin {"enter", "return", "forget", "drop"}
<1>1. PICK t : t = task[c]
  OBVIOUS
<1>2. /\ UNCHANGED <<lease, file, listed, work>>
      /\ Busy(c) /\ t.pc \notin {"enter", "return", "forget", "drop"}
  <2>1. UNCHANGED <<lease, file, listed, work>>
    BY DEF Outside, CallFails, SaveOffset, SeekBackend, SeekFile, Transfer, LoadOffset,
           StoreOffset, RestorePosition, StatFile, TruncateSeek, Shrink, Grow, Unmoved
  <2>2. t.pc \in Calling \cup {"save", "moved", "load", "store"}
    BY <1>1 DEF Outside, CallFails, SaveOffset, SeekBackend, SeekFile, Transfer, LoadOffset,
           StoreOffset, RestorePosition, StatFile, TruncateSeek, Shrink, Grow, Calls, At, Calling
  <2> QED
    BY <1>1, <2>1, <2>2 DEF Busy, Calling
<1>3. t \in Task /\ SharedTypes
  BY <1>1, <1>2, TaskFacts DEF HandleInv
<1>4. {"seek", "store", "restore", "load", "moved", "transfer", "cut", "end", "shrink", "grow"}
        \subseteq Elsewhere
  BY DEF Elsewhere, PCs, Calling, CloseSteps
<1> SUFFICES Passes(c, Elsewhere)
  BY <1>1, <1>2
<1>5. CASE CallFails(c)
  BY <1>1, <1>3, <1>4, <1>5, FailPasses DEF CallFails
<1>6. CASE SaveOffset(c) \/ LoadOffset(c)
  <2>1. PICK u, pc : /\ u = [t EXCEPT !.saved = offset, !.pc = pc] /\ pc \in {"seek", "store"}
                     /\ task' = [task EXCEPT ![c] = u]
    BY <1>1, <1>6 DEF SaveOffset, LoadOffset
  <2>2. u.call = t.call /\ u.rest = t.rest /\ u.pc = pc
    BY <1>3, <2>1 DEF Task
  <2>3. u.pc \in Elsewhere
    BY <1>4, <2>1, <2>2
  <2> QED
    BY <1>1, <1>3, <2>1, <2>2, <2>3, StepPasses
<1>7. CASE SeekBackend(c)
  <2>1. PICK u, pc, n : /\ u = [t EXCEPT !.left = n, !.pc = pc] /\ pc \in {"moved", "transfer"}
                        /\ task' = [task EXCEPT ![c] = u]
    BY <1>1, <1>7 DEF SeekBackend
  <2>2. u.call = t.call /\ u.rest = t.rest /\ u.pc = pc
    BY <1>3, <2>1 DEF Task
  <2>3. u.pc \in Elsewhere
    BY <1>4, <2>1, <2>2
  <2> QED
    BY <1>1, <1>3, <2>1, <2>2, <2>3, StepPasses
<1>8. CASE Transfer(c)
  <2>1. PICK u, pc, g : /\ u = [t EXCEPT !.got = g, !.pc = pc] /\ pc \in {"restore", "load"}
                        /\ task' = [task EXCEPT ![c] = u]
    BY <1>1, <1>8 DEF Transfer, AfterTransfer
  <2>2. u.call = t.call /\ u.rest = t.rest /\ u.pc = pc
    BY <1>3, <2>1 DEF Task
  <2>3. u.pc \in Elsewhere
    BY <1>4, <2>1, <2>2
  <2> QED
    BY <1>1, <1>3, <2>1, <2>2, <2>3, StepPasses
<1>9. CASE SeekFile(c) \/ StoreOffset(c) \/ RestorePosition(c) \/ Shrink(c)
  BY <1>1, <1>3, <1>9, ReturnPasses DEF SeekFile, StoreOffset, RestorePosition, Shrink
<1>10. CASE StatFile(c)
  <2>1. CASE Method(c) = "Stat" \/ t.call.off = Len(content)
    BY <1>1, <1>3, <1>10, <2>1, ReturnPasses DEF StatFile
  <2>2. CASE ~(Method(c) = "Stat" \/ t.call.off = Len(content))
    <3>1. PICK u, pc, n : /\ u = [t EXCEPT !.left = n, !.pc = pc] /\ pc \in {"cut", "end"}
                          /\ task' = [task EXCEPT ![c] = u]
      BY <1>1, <1>10, <2>2 DEF StatFile
    <3>2. u.call = t.call /\ u.rest = t.rest /\ u.pc = pc
      BY <1>3, <3>1 DEF Task
    <3>3. u.pc \in Elsewhere
      BY <1>4, <3>1, <3>2
    <3> QED
      BY <1>1, <1>3, <3>1, <3>2, <3>3, StepPasses
  <2> QED
    BY <2>1, <2>2
<1>11. CASE TruncateSeek(c)
  <2>1. PICK u, pc : /\ u = [t EXCEPT !.pc = pc] /\ pc \in {"shrink", "grow"}
                     /\ task' = [task EXCEPT ![c] = u]
    BY <1>1, <1>11 DEF TruncateSeek
  <2>2. u.call = t.call /\ u.rest = t.rest /\ u.pc = pc
    BY <1>3, <2>1 DEF Task
  <2>3. u.pc \in Elsewhere
    BY <1>4, <2>1, <2>2
  <2> QED
    BY <1>1, <1>3, <2>1, <2>2, <2>3, StepPasses
<1>12. CASE Grow(c)
  <2>1. t.pc = "grow"
    BY <1>1, <1>12 DEF Grow, Calls, At
  <2>2. CASE t.left > toWrite(t.left)
    <3>1. PICK u, n : u = [t EXCEPT !.left = n] /\ task' = [task EXCEPT ![c] = u]
      BY <1>1, <1>12, <2>2 DEF Grow
    <3>2. u.call = t.call /\ u.rest = t.rest /\ u.pc = "grow"
      BY <1>3, <2>1, <3>1 DEF Task
    <3>3. u.pc \in Elsewhere
      BY <1>4, <3>1, <3>2
    <3> QED
      BY <1>1, <1>3, <3>1, <3>2, <3>3, StepPasses
  <2>3. CASE ~(t.left > toWrite(t.left))
    BY <1>1, <1>3, <1>12, <2>3, ReturnPasses DEF Grow
  <2> QED
    BY <2>2, <2>3
<1> QED
  BY <1>1, <1>2, <1>5, <1>6, <1>7, <1>8, <1>9, <1>10, <1>11, <1>12 DEF Outside

(* The steps of Close, and the ones that lead to it.                         *)
LEMMA ClosePasses ==
  ASSUME HandleInv, NEW c \in Callers
  PROVE  /\ Enter(c) => /\ Busy(c) /\ Passes(c, Elsewhere \cup {"close"})
                        /\ task'[c].pc = "close" => Method(c) = "Close"
         /\ Release(c) => Busy(c) /\ Passes(c, {})
         /\ CloseBackend(c) => Busy(c) /\ Passes(c, {"drop"})
         /\ CloseFile(c) => Busy(c) /\ Passes(c, {"return"}) /\ task'[c].pc = "return"
         /\ ReturnConnection(c) => /\ Busy(c) /\ Passes(c, {"forget"})
                                   /\ conn => task'[c].pc = "forget"
                                   /\ ~conn => task'[c] = Idle
         /\ ForgetConnection(c) => Busy(c) /\ task'[c] = Idle /\ Passes(c, {})
<1>1. PICK t : t = task[c]
  OBVIOUS
<1>2. SharedTypes /\ (Busy(c) => t \in Task)
  BY <1>1, TaskFacts DEF HandleInv
<1>3. ASSUME Enter(c)
      PROVE  /\ Busy(c) /\ Passes(c, Elsewhere \cup {"close"})
             /\ task'[c].pc = "close" => Method(c) = "Close"
  <2>1. Busy(c) /\ t \in Task /\ t.pc = "enter" /\ Method(c) # "Release"
    BY <1>1, <1>2, <1>3 DEF Enter, At, Busy
  <2>2. Passes(c, {}) => /\ Passes(c, Elsewhere \cup {"close"}) /\ task'[c].pc # "close"
    BY DEF Passes, Idle
  <2>3. CASE \/ \E err, got : Return(c, err, got)
             \/ \E err : Fail(c, err)
    <3>1. Passes(c, {"restore"})
      BY <1>1, <1>2, <2>1, <2>3, ReturnPasses, FailPasses
    <3>2. "restore" \in Elsewhere
      BY DEF Elsewhere, PCs, Calling, CloseSteps
    <3> QED
      BY <2>1, <3>1, <3>2 DEF Passes, Idle
  <2>4. CASE /\ ~NilCheck(c) /\ Method(c) # "Sync"
             /\ task' = [task EXCEPT ![c] = [@ EXCEPT !.pc = FirstStep(Method(c))]]
    <3>1. PICK u : u = [t EXCEPT !.pc = FirstStep(Method(c))]
      OBVIOUS
    <3>2. task' = [task EXCEPT ![c] = u]
      BY <1>1, <2>4, <3>1
    <3>3. u.call = t.call /\ u.rest = t.rest /\ u.pc = FirstStep(Method(c))
      BY <2>1, <3>1 DEF Task
    <3>4. Method(c) \in MethodNames \ {"Sync", "Release"}
      <4>1. Method(c) \in Phase(t.call.op) /\ t.call.op \in Ops
        BY <1>1, <2>1, TaskFacts
      <4>2. Method(c) \in MethodNames
        BY <4>1 DEF Phase, Ops, Requests, Queries, MethodNames
      <4> QED
        BY <2>1, <2>4, <4>2
    <3>5. /\ FirstStep(Method(c)) \in Elsewhere \cup {"close"}
          /\ FirstStep(Method(c)) = "close" => Method(c) = "Close"
      BY <3>4 DEF FirstStep, Elsewhere, PCs, Calling, CloseSteps, MethodNames
    <3>6. task'[c] = u
      BY <1>2, <3>2 DEF SharedTypes
    <3> QED
      BY <1>1, <1>2, <2>1, <3>2, <3>3, <3>5, <3>6, StepPasses
  <2> QED
    BY <1>3, <2>3, <2>4 DEF Enter
<1>4. ASSUME Release(c) PROVE Busy(c) /\ Passes(c, {})
  <2>1. Busy(c)
    BY <1>4 DEF Release, At, Busy
  <2> QED
    BY <1>1, <1>2, <1>4, <2>1, ReturnPasses, FinishPasses DEF Release
<1>5. ASSUME NEW pc, NEW from, At(c, from), from # "idle",
             task' = [task EXCEPT ![c] = [@ EXCEPT !.pc = pc]]
      PROVE  Busy(c) /\ Passes(c, {pc}) /\ task'[c].pc = pc
  <2>1. Busy(c)
    BY <1>5 DEF At, Busy
  <2>2. PICK u : u = [t EXCEPT !.pc = pc]
    OBVIOUS
  <2>3. task' = [task EXCEPT ![c] = u]
    BY <1>1, <1>5, <2>2
  <2>4. u.call = t.call /\ u.rest = t.rest /\ u.pc = pc
    BY <1>2, <2>1, <2>2 DEF Task
  <2>5. task'[c] = u
    BY <1>2, <2>3 DEF SharedTypes
  <2> QED
    BY <1>1, <1>2, <2>1, <2>3, <2>4, <2>5, StepPasses
<1>6. ASSUME At(c, "return") \/ At(c, "forget"), Return(c, "nil", << >>),
             UNCHANGED <<work, content, pos, closed, offset, file, panicked>>
      PROVE  Busy(c) /\ task'[c] = Idle /\ \A steps : Passes(c, steps)
  <2>1. Finish(c, "nil", << >>) /\ Busy(c)
    BY <1>6, ClosingEnds DEF At, Busy
  <2> QED
    BY <1>2, <2>1, FinishPasses DEF Finish, SharedTypes
<1>7. CloseBackend(c) => Busy(c) /\ Passes(c, {"drop"})
  BY <1>5 DEF CloseBackend, Calls
<1>8. CloseFile(c) => Busy(c) /\ Passes(c, {"return"}) /\ task'[c].pc = "return"
  BY <1>5 DEF CloseFile
<1>9. ReturnConnection(c) => /\ Busy(c) /\ Passes(c, {"forget"})
                             /\ conn => task'[c].pc = "forget"
                             /\ ~conn => task'[c] = Idle
  BY <1>5, <1>6 DEF ReturnConnection, At, backend
<1>10. ForgetConnection(c) => Busy(c) /\ task'[c] = Idle /\ Passes(c, {})
  BY <1>6 DEF ForgetConnection, At, backend
<1> QED
  BY <1>3, <1>4, <1>7, <1>8, <1>9, <1>10


(* Others(c): a step moves only caller c.                                    *)
Others(c) == \A d \in Callers \ {c} : task'[d] = task[d]

LEMMA LeaseKept ==
  ASSUME LeaseInv, NEW c \in Callers, Others(c), UNCHANGED <<lease, file>>,
         task[c].pc \notin {"return", "forget"},
         InClose(c)' => InClose(c), task'[c].pc # "forget"
  PROVE  LeaseInv'
<1>1. UNCHANGED <<conn, returned, contended, file>>
  BY DEF lease
<1>2. \A d \in Callers : InClose(d)' => InClose(d)
  BY DEF Others, InClose
<1>3. \A d \in Callers : task[d].pc \in {"return", "forget"} \/ task'[d].pc = "forget"
                        => task'[d].pc = task[d].pc
  BY DEF Others
<1>4. \A a, d \in Callers : a # d /\ InClose(a)' /\ InClose(d)' => contended'
  BY <1>1, <1>2 DEF LeaseInv
<1> QED
  BY <1>1, <1>3, <1>4 DEF LeaseInv

LEMMA LeaseStep ==
  ASSUME HandleInv, LeaseInv, NEW c \in Callers,
         \/ Outside(c) \/ Enter(c) \/ Release(c) \/ CloseBackend(c) \/ CloseFile(c)
         \/ ReturnConnection(c) \/ ForgetConnection(c)
  PROVE  LeaseInv'
<1>1. ASSUME NEW steps, Passes(c, steps)
      PROVE  /\ Others(c)
             /\ InClose(c)' => task'[c].pc \in steps
  BY <1>1 DEF Passes, Others, InClose, Idle
<1>2. CASE Outside(c)
  <2>1. /\ Passes(c, Elsewhere) /\ UNCHANGED <<lease, file>>
        /\ task[c].pc \notin {"return", "forget"}
    BY <1>2, OutsidePasses
  <2>2. Others(c) /\ ~InClose(c)'
    BY <1>1, <2>1 DEF InClose, Elsewhere, CloseSteps
  <2> QED
    BY <2>1, <2>2, LeaseKept DEF InClose
<1>3. CASE Release(c)
  <2>1. Passes(c, {}) /\ UNCHANGED <<lease, file>> /\ task[c].pc = "enter"
    BY <1>3, ClosePasses DEF Release, At
  <2>2. Others(c) /\ ~InClose(c)'
    BY <1>1, <2>1
  <2> QED
    BY <2>1, <2>2, LeaseKept DEF InClose
<1>4. CASE CloseBackend(c)
  <2>1. Passes(c, {"drop"}) /\ UNCHANGED <<lease, file>> /\ task[c].pc = "close"
    BY <1>4, ClosePasses DEF CloseBackend, Calls, At
  <2>2. Others(c) /\ InClose(c) /\ task'[c].pc # "forget"
    BY <1>1, <2>1 DEF InClose
  <2> QED
    BY <2>1, <2>2, LeaseKept
<1>5. CASE Enter(c)
  <2>1. /\ Passes(c, Elsewhere \cup {"close"}) /\ task[c].pc = "enter"
        /\ task'[c].pc = "close" => Method(c) = "Close"
        /\ UNCHANGED <<conn, returned, file>>
    BY <1>5, ClosePasses DEF Enter, At
  <2>2. Others(c) /\ (InClose(c)' => task'[c].pc = "close")
    BY <1>1, <2>1 DEF InClose, Elsewhere, CloseSteps
  <2>3. /\ contended' \in BOOLEAN /\ (contended => contended')
        /\ task'[c].pc = "close" /\ (\E d \in Callers : InClose(d)) => contended'
    <3>1. CASE contended' = (contended \/ (Method(c) = "Close" /\ \E d \in Callers : InClose(d)))
      BY <2>1, <3>1, Zenon DEF LeaseInv
    <3>2. CASE contended' = contended /\ (\/ \E err, got : Return(c, err, got)
                                          \/ \E err : Fail(c, err))
      <4>1. SharedTypes /\ task[c] \in Task
        BY <2>1, TaskFacts DEF HandleInv, Busy
      <4>2. Passes(c, {"restore"})
        BY <3>2, <4>1, ReturnPasses, FailPasses
      <4>3. task'[c].pc # "close"
        BY <4>2 DEF Passes, Idle
      <4> QED
        BY <3>2, <4>3 DEF LeaseInv
    <3> QED
      BY <1>5, <3>1, <3>2, Zenon DEF Enter
  <2>4. \A d \in Callers \ {c} : InClose(d)' <=> InClose(d)
    BY <2>2 DEF Others, InClose
  <2>5. \A a, d \in Callers : a # d /\ InClose(a)' /\ InClose(d)' => contended'
    <3>1. SUFFICES ASSUME NEW a \in Callers, NEW d \in Callers, a # d, InClose(a)', InClose(d)'
                   PROVE  contended'
      OBVIOUS
    <3>2. CASE a # c /\ d # c
      BY <2>3, <2>4, <3>1, <3>2 DEF LeaseInv
    <3>3. CASE a = c
      BY <2>2, <2>3, <2>4, <3>1, <3>3
    <3>4. CASE d = c
      BY <2>2, <2>3, <2>4, <3>1, <3>4
    <3> QED
      BY <3>2, <3>3, <3>4
  <2>6. \A d \in Callers : task[d].pc \in {"return", "forget"} \/ task'[d].pc = "forget"
                          => task'[d].pc = task[d].pc
    BY <2>1, <2>2 DEF Others, InClose
  <2> QED
    BY <2>1, <2>3, <2>5, <2>6 DEF LeaseInv
<1>6. ASSUME CloseFile(c) \/ ReturnConnection(c) \/ ForgetConnection(c)
      PROVE  /\ Others(c) /\ InClose(c) /\ contended' = contended
             /\ \A a, d \in Callers : a # d /\ InClose(a)' /\ InClose(d)' => contended'
             /\ ~contended => \A d \in Callers : task[d].pc \in {"return", "forget"} => d = c
  <2>1. InClose(c) /\ contended' = contended
    BY <1>6 DEF CloseFile, ReturnConnection, ForgetConnection, At, InClose, lease
  <2>2. Others(c)
    BY <1>1, <1>6, ClosePasses
  <2>3. \A d \in Callers : InClose(d)' => InClose(d)
    BY <2>1, <2>2 DEF Others, InClose
  <2>4. \A a, d \in Callers : a # d /\ InClose(a)' /\ InClose(d)' => contended'
    BY <2>1, <2>3 DEF LeaseInv
  <2>5. ~contended => \A d \in Callers : task[d].pc \in {"return", "forget"} => d = c
    BY <2>1 DEF LeaseInv, InClose
  <2> QED
    BY <2>1, <2>2, <2>4, <2>5
<1>7. CASE CloseFile(c)
  <2>1. task'[c].pc = "return" /\ task[c].pc = "drop" /\ UNCHANGED <<conn, returned>>
    BY <1>7, ClosePasses DEF CloseFile, At, lease
  <2>2. \A d \in Callers : task[d].pc \in {"return", "forget"} \/ task'[d].pc = "forget"
                          => task'[d].pc = task[d].pc
    BY <1>6, <1>7, <2>1 DEF Others
  <2> QED
    BY <1>6, <1>7, <2>1, <2>2 DEF LeaseInv
<1>8. CASE ReturnConnection(c)
  <2>1. /\ conn' = conn /\ file' = file /\ task[c].pc = "return"
        /\ conn => returned' = returned + 1 /\ task'[c].pc = "forget"
        /\ ~conn => returned' = returned
    BY <1>8, ClosePasses DEF ReturnConnection, At
  <2>2. CASE conn
    <3>1. returned' \in Nat /\ returned' > 0
      BY <2>1, <2>2 DEF LeaseInv
    <3>2. ~contended => returned = 0
      BY <1>6, <1>8, <2>1, <2>2 DEF LeaseInv
    <3> QED
      BY <1>6, <1>8, <2>1, <2>2, <3>1, <3>2 DEF LeaseInv
  <2>3. CASE ~conn
    BY <1>6, <1>8, <2>1, <2>3 DEF LeaseInv
  <2> QED
    BY <2>2, <2>3
<1>9. CASE ForgetConnection(c)
  <2>1. /\ conn' = FALSE /\ file' = file /\ returned' = returned /\ task[c].pc = "forget"
    BY <1>9 DEF ForgetConnection, At
  <2>2. returned > 0
    BY <2>1 DEF LeaseInv
  <2> QED
    BY <1>6, <1>9, <2>1, <2>2 DEF LeaseInv
<1> QED
  BY <1>2, <1>3, <1>4, <1>5, <1>7, <1>8, <1>9

(* A step of c after which c is not on its way into Close, unless it was.    *)
LEMMA ServedKept ==
  ASSUME ServedInv, NEW c \in Callers, Others(c), UNCHANGED <<work, listed, contended>>,
         Busy(c)' => task'[c].call \in work.calls,
         Closer(c)' => Closer(c)
  PROVE  ServedInv'
<1>1. \A d \in Callers : Busy(d)' => task'[d].call \in work'.calls
  BY DEF ServedInv, Others, Busy
<1>2. \A d \in Callers : Closer(d)' => Closer(d)
  BY DEF Others, Closer, Busy
<1>3. Served' = Served
  BY DEF Served
<1> QED
  BY <1>1, <1>2, <1>3 DEF ServedInv

(* Only Release leads to Close.                                              *)
LEMMA PassesServed ==
  ASSUME HandleInv, ServedInv, NEW c \in Callers, Busy(c), NEW steps, Passes(c, steps)
  PROVE  /\ Others(c) /\ (Busy(c)' => task'[c].call \in work.calls)
         /\ Method(c) # "Release" => (Closer(c)' => Closer(c))
<1>1. Others(c) /\ (Busy(c)' => task'[c].call = task[c].call)
  BY DEF Passes, Others, Busy, Idle
<1>2. ASSUME Method(c) # "Release", Closer(c)' PROVE Closer(c)
  <2>1. PICK t : t = task[c]
    OBVIOUS
  <2>2. CASE task'[c].rest = t.rest
    BY <1>2, <2>1, <2>2 DEF Closer
  <2>3. CASE task'[c].rest = Tail(t.rest) /\ Len(t.rest) > 1
    <3>1. t.rest \in Rests(t.call.op) /\ t.call.op \in Ops /\ Method(c) = Head(t.rest)
      BY <2>1, TaskFacts DEF Control
    <3>2. /\ Head(Tail(t.rest)) = Following(t.call.op, Head(t.rest))
          /\ More(t.call.op, Head(t.rest)) /\ Head(t.rest) \in Phase(t.call.op)
      BY <2>3, <3>1, Phases
    <3>3. Following(t.call.op, Head(t.rest)) = "Close"
      BY <1>2, <2>3, <3>2 DEF Closer
    <3>4. t.call.op \in {"READ", "WRITE", "ALL_INFO", "CLOSE", "CLOSE_STAT"}
      BY <3>2 DEF More
    <3>5. FALSE
      BY <1>2, <3>1, <3>2, <3>3, <3>4 DEF Following, More, Phase
    <3> QED
      BY <3>5
  <2> QED
    BY <1>2, <2>1, <2>2, <2>3 DEF Passes, Closer, Busy, Idle
<1> QED
  BY <1>1, <1>2 DEF ServedInv

(* A caller inside Close is in the method Close.                             *)
LEMMA InCloseCloser ==
  ASSUME HandleInv, NEW c \in Callers, InClose(c)
  PROVE  Closer(c)
<1>1. Busy(c)
  BY DEF InClose, Busy
<1>2. task[c].pc \in Steps(Head(task[c].rest))
  BY <1>1, TaskFacts DEF Control
<1> QED
  BY <1>1, <1>2 DEF InClose, Closer, Steps

LEMMA ServedStep ==
  ASSUME HandleInv, LeaseInv, ServedInv, NEW c \in Callers,
         \/ Outside(c) \/ Enter(c) \/ Release(c) \/ CloseBackend(c) \/ CloseFile(c)
         \/ ReturnConnection(c) \/ ForgetConnection(c)
  PROVE  ServedInv'
<1>1. ASSUME Busy(c), NEW steps, Passes(c, steps), Method(c) # "Release",
             UNCHANGED <<work, listed, contended>>
      PROVE  ServedInv'
  BY <1>1, PassesServed, ServedKept
<1>2. Busy(c) /\ task[c].pc # "enter" => Method(c) # "Release"
  <2>1. SUFFICES ASSUME Busy(c), task[c].pc # "enter", Method(c) = "Release" PROVE FALSE
    OBVIOUS
  <2>2. task[c].pc \in Steps("Release")
    BY <2>1, TaskFacts DEF Control
  <2> QED
    BY <2>1, <2>2 DEF Steps
<1>3. CASE Outside(c)
  BY <1>1, <1>2, <1>3, OutsidePasses DEF lease
<1>4. CASE CloseBackend(c) \/ CloseFile(c) \/ ReturnConnection(c) \/ ForgetConnection(c)
  <2>1. UNCHANGED <<work, listed, contended>> /\ task[c].pc # "enter"
    BY <1>4 DEF CloseBackend, CloseFile, ReturnConnection, ForgetConnection, Calls, At, lease
  <2>2. Busy(c) /\ \E steps : Passes(c, steps)
    BY <1>4, ClosePasses
  <2> QED
    BY <1>1, <1>2, <2>1, <2>2
<1>5. CASE Enter(c)
  <2>1. /\ Busy(c) /\ Passes(c, Elsewhere \cup {"close"}) /\ Method(c) # "Release"
        /\ UNCHANGED <<work, listed>> /\ task[c].pc = "enter"
    BY <1>5, ClosePasses DEF Enter, At
  <2>2. CASE contended' = contended
    BY <1>1, <2>1, <2>2
  <2>3. CASE contended' # contended
    <3>0. \/ contended' = contended
          \/ contended' = (contended \/ (Method(c) = "Close" /\ \E d \in Callers : InClose(d)))
      BY <1>5, Zenon DEF Enter
    <3>1. Method(c) = "Close" /\ \E d \in Callers : InClose(d)
      <4>1. contended = TRUE \/ contended = FALSE
        BY DEF LeaseInv
      <4>2. CASE contended = TRUE
        <5>1. contended' = TRUE
          BY <3>0, <4>2, Zenon
        <5> QED
          BY <2>3, <4>2, <5>1
      <4>3. CASE contended = FALSE
        BY <2>3, <3>0, <4>3
      <4> QED
        BY <4>1, <4>2, <4>3, Zenon
    <3>2. PICK d \in Callers : InClose(d)
      BY <3>1
    <3>3. Closer(c) /\ Closer(d) /\ c # d
      BY <2>1, <3>1, <3>2, InCloseCloser, TaskFacts DEF Closer, InClose
    <3>4. ~Served /\ ~Served'
      BY <2>1, <3>3 DEF ServedInv, Served
    <3>5. Others(c) /\ (Busy(c)' => task'[c].call \in work.calls)
      BY <2>1, PassesServed
    <3>6. \A e \in Callers : Busy(e)' => task'[e].call \in work'.calls
      BY <2>1, <3>5 DEF ServedInv, Others, Busy
    <3> QED
      BY <3>4, <3>6 DEF ServedInv
  <2> QED
    BY <2>2, <2>3
<1>6. CASE Release(c)
  <2>1. /\ Busy(c) /\ Passes(c, {}) /\ UNCHANGED <<work, contended>> /\ listed' = FALSE
    BY <1>6, ClosePasses DEF Release, lease
  <2>2. Others(c) /\ (Busy(c)' => task'[c].call \in work.calls)
    BY <2>1, PassesServed
  <2>3. \A d \in Callers : Busy(d)' => task'[d].call \in work'.calls
    BY <2>1, <2>2 DEF ServedInv, Others, Busy
  <2>4. Served' = Served
    BY <2>1 DEF Served
  <2>5. \A d \in Callers \ {c} : Closer(d)' => Closer(d)
    BY <2>2 DEF Others, Closer, Busy
  <2>6. CASE listed
    BY <2>1, <2>3, <2>4, <2>5, <2>6 DEF ServedInv
  <2>7. CASE ~listed
    <3>1. ~Closer(c)'
      <4>1. Finish(c, "nil", << >>) /\ SharedTypes
        BY <1>6, <2>7 DEF Release, HandleInv
      <4> QED
        BY <4>1 DEF Finish, SharedTypes, Closer, Busy, Idle
    <3> QED
      BY <2>1, <2>3, <2>4, <2>5, <3>1 DEF ServedInv
  <2> QED
    BY <2>6, <2>7
<1> QED
  BY <1>3, <1>4, <1>5, <1>6

(* Both, with the calls that start, are refused or panic.                    *)
LEMMA CloseInvStep ==
  ASSUME HandleInv, LeaseInv, ServedInv, [HandleNext]_vars
  PROVE  LeaseInv' /\ ServedInv'
<1>1. ASSUME UNCHANGED <<lease, file, task, work, listed>> PROVE LeaseInv' /\ ServedInv'
  <2>1. UNCHANGED <<conn, returned, contended, file, task, work, listed>>
    BY <1>1 DEF lease
  <2>2. LeaseInv'
    BY <2>1 DEF LeaseInv, InClose
  <2>3. ServedInv'
    BY <2>1 DEF ServedInv, Served, Closer, Busy
  <2> QED
    BY <2>2, <2>3
<1>2. CASE UNCHANGED vars
  BY <1>1, <1>2 DEF vars
<1>3. ASSUME NEW c \in Callers, Panic(c) \/ \E call \in work.calls : Refuse(c, call)
      PROVE  LeaseInv' /\ ServedInv'
  BY <1>1, <1>3 DEF Panic, Refuse
<1>4. ASSUME NEW c \in Callers, NEW call \in work.calls, Begin(c, call)
      PROVE  LeaseInv' /\ ServedInv'
  <2>1. PICK t : t = Started(call)
    OBVIOUS
  <2>2. /\ task' = [task EXCEPT ![c] = t] /\ UNCHANGED <<lease, file, work, listed>>
        /\ task[c].pc = "idle"
    BY <1>4, <2>1 DEF Begin, At
  <2>3. t.pc = "enter" /\ t.call = call /\ t.rest = Methods(call.op) /\ t \in Task
    <3>1. t.pc = "enter" /\ t \in Task
      BY <2>1, StartedFacts
    <3> QED
      BY <2>1, <3>1 DEF Started
  <2>4. Others(c) /\ task'[c] = t
    BY <2>2 DEF Others, HandleInv, SharedTypes
  <2>5. LeaseInv'
    BY <2>2, <2>3, <2>4, LeaseKept DEF InClose
  <2>6. CASE Served
    <3>1. call.op # "Close" /\ call.op \in Ops
      BY <2>6, CallsWellFormed DEF Served, AllCalls, WellFormed, HandleInv, SharedTypes
    <3>2. Head(Methods(call.op)) # "Close"
      BY <3>1, Tuples DEF Methods, handleRead, handleWrite, handleFlush, handleClose,
           setFileEndOfFileInformation, queryFileInfo, Queries, Ops, Requests, MethodNames
    <3>3. ~Closer(c)'
      BY <2>3, <2>4, <3>2 DEF Closer
    <3> QED
      BY <2>2, <2>3, <2>4, <2>5, <3>3, ServedKept DEF lease
  <2>7. CASE ~Served
    <3>1. ~Served'
      BY <2>2, <2>7 DEF Served
    <3>2. \A d \in Callers : Busy(d)' => task'[d].call \in work'.calls
      BY <2>2, <2>3, <2>4 DEF ServedInv, Others, Busy
    <3> QED
      BY <2>5, <3>1, <3>2 DEF ServedInv
  <2> QED
    BY <2>6, <2>7
<1>5. ASSUME NEW c \in Callers,
             \/ Outside(c) \/ Enter(c) \/ Release(c) \/ CloseBackend(c) \/ CloseFile(c)
             \/ ReturnConnection(c) \/ ForgetConnection(c)
      PROVE  LeaseInv' /\ ServedInv'
  BY <1>5, LeaseStep, ServedStep
<1> QED
  BY <1>2, <1>3, <1>4, <1>5 DEF HandleNext, Outside

(* A successful call that nothing overlapped has read, written or resized    *)
(* exactly where it was told, or where the calls before it left off: for any *)
(* number of callers, any arguments, any content, chunk and read limit       *)
(* (handleRead, handleWrite, File.ReadAt, File.WriteAt, File.Truncate).      *)
THEOREM AloneStaysExact == HandleSpec => []AloneExact
<1>1. HandleInv => AloneExact
  BY DEF HandleInv
<1> QED
  BY <1>1, HandleInvHolds, PTL

(* Between calls File.offset, the offset of the file of the share and the    *)
(* place where the sequence of calls has left off are one position           *)
(* (File.Seek, Read, Write, and the position ReadAt and WriteAt put back).   *)
THEOREM OffsetStaysTracked == HandleSpec => []OffsetTracks
<1>1. HandleInv => OffsetTracks
  BY DEF HandleInv
<1> QED
  BY <1>1, HandleInvHolds, PTL

(* A method of File reaches a nil f.file only in a call that another one has *)
(* overlapped, and Close puts the connection back, once unless two callers   *)
(* are inside it, which CLOSE requests never are: for any number of callers  *)
(* and calls (File.Close, the nil checks, and FileHandleMap.Release).        *)
THEOREM ClosesAreSafe == HandleSpec => []CloseSafe
<1>1. HandleInit => LeaseInv /\ ServedInv
  <2>1. SUFFICES ASSUME HandleInit PROVE LeaseInv /\ ServedInv
    OBVIOUS
  <2>2. \A c \in Callers : task[c].pc = "idle" /\ ~Busy(c)
    BY <2>1 DEF HandleInit, Idle, Busy
  <2>3. conn = TRUE /\ returned = 0 /\ contended = FALSE /\ file = TRUE
    BY <2>1 DEF HandleInit
  <2>4. LeaseInv
    <3>1. \A c \in Callers : task[c].pc # "forget" /\ ~InClose(c)
      BY <2>2 DEF InClose
    <3>2. conn \in BOOLEAN /\ contended \in BOOLEAN /\ conn /\ file
      BY <2>3, Zenon
    <3> QED
      BY <2>3, <3>1, <3>2 DEF LeaseInv
  <2>5. ServedInv
    BY <2>2, <2>3 DEF ServedInv, Closer
  <2> QED
    BY <2>4, <2>5
<1>2. HandleInv /\ LeaseInv /\ ServedInv /\ [HandleNext]_vars => (LeaseInv /\ ServedInv)'
  BY CloseInvStep
<1>3. HandleInv /\ LeaseInv /\ ServedInv => CloseSafe
  <2>1. SUFFICES ASSUME HandleInv, LeaseInv, ServedInv PROVE CloseSafe
    OBVIOUS
  <2>2. PanicNeedsRace
    BY <2>1 DEF HandleInv, RaceInv
  <2>3. ~file /\ (\A c \in Callers : ~Busy(c)) => returned > 0
    BY <2>1 DEF LeaseInv, Busy
  <2>4. returned > 1 => contended
    BY <2>1 DEF LeaseInv
  <2>5. contended => \E call \in work.calls : call.op = "Close"
    BY <2>1 DEF ServedInv, Served
  <2> QED
    BY <2>2, <2>3, <2>4, <2>5 DEF CloseSafe
<1> QED
  BY <1>1, <1>2, <1>3, HandleInvHolds, PTL DEF HandleSpec
=============================================================================
