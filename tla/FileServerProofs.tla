-------------------------- MODULE FileServerProofs --------------------------
(***************************************************************************)
(* Proofs about sessions, trees and open files of the server, for any      *)
(* number of connections, sessions, shares, names and handles.             *)
(*                                                                         *)
(* The model's invariants speak of the maps; what makes them inductive is  *)
(* what a handler between two of its steps relies on: about its handle and *)
(* its file (TaskInv, BoundInv), the share check (CheckedInv), its session *)
(* and tree (TreeInv), the path index (IndexInv) and the releases under    *)
(* way (EndsInv, TeardownInv).                                             *)
(***************************************************************************)
EXTENDS FileServer, FiniteSetTheorems, TLAPS

(* Both provers, the quicker one first.                                      *)
USE ZenonT(1), SMTT(60)

-----------------------------------------------------------------------------
(* Handlers between two steps *)

Requests ==
  [at : {"check"}, session : SessionIDs, tree : TreeIDs, share : Shares, name : Names,
   mode : Modes, disposition : Dispositions, deleteOnClose : BOOLEAN]

Batches == [session : SessionIDs, trees : SUBSET TreeIDs, share : Shares]
Ends == {None} \cup [session : SessionIDs, tree : TreeIDs \cup {None}]

(* What a goroutine may be in the middle of when last handles were given out. *)
ConnectTasks == [at : {"addTree"}, session : SessionIDs, share : Shares]
CreateTasks == [at : {"stat", "alloc"}, raced : BOOLEAN, req : Requests]
OpenTasks == [at : {"open"}, raced : BOOLEAN, req : Requests, existed : BOOLEAN]
FlagTasks(last) == [at : {"flag"}, handle : 1 .. last]
CloseTasks(last) ==
  [at : {"close", "remove"}, handle : 1 .. last, deleteOnClose : BOOLEAN, path : Names,
   share : Shares]
RenameTasks(last) == [at : {"rename", "setPath"}, handle : 1 .. last, to : Names]
TeardownTasks(last) ==
  [at : {"teardown"}, batches : SUBSET Batches, todo : SUBSET (1 .. last), end : Ends]

Tasks(last) ==
  {Idle} \cup ConnectTasks \cup Requests \cup CreateTasks \cup OpenTasks \cup FlagTasks(last)
  \cup CloseTasks(last) \cup RenameTasks(last) \cup TeardownTasks(last)

TaskInv ==
  /\ op \in [Procs -> Tasks(nextHandle)]
  /\ openFile \in [HandleIDs -> OpenFiles \cup {None}]

(* CREATE and TREE_CONNECT under way have reserved the IDs they will draw.   *)
Connecting(s) == {p \in At("addTree") : op[p].session = s}
BoundInv ==
  /\ nextHandle + Cardinality(Creating) <= MaxHandles
  /\ \A s \in SessionIDs : nextTree[s] + Cardinality(Connecting(s)) <= MaxTrees

TypeInv == TypeOK /\ TaskInv

(* CreateStat ends the handler or goes on to the open, whatever Stat said of *)
(* the file.                                                                 *)
StatedTask(o, existed) == [at |-> "open", raced |-> o.raced, req |-> o.req, existed |-> existed]
LEMMA CreateStatStep ==
  ASSUME NEW c, CreateStat(c)
  PROVE  \E e \in BOOLEAN : \/ op' = [op EXCEPT ![c] = StatedTask(op[c], e)]
                            \/ op' = [op EXCEPT ![c] = Idle]
  BY Zenon DEF CreateStat, Goto, Return, StatedTask

(* The label of a handler tells what it remembers.                           *)
LEMMA TaskShape ==
  ASSUME NEW last \in Nat, NEW o \in Tasks(last)
  PROVE  /\ o.at \in {"idle", "addTree", "check", "stat", "open", "alloc", "flag", "close", "remove",
                      "rename", "setPath", "teardown"}
         /\ o.at = "idle" => o = Idle
         /\ o.at = "addTree" => o \in ConnectTasks
         /\ o.at = "check" => o \in Requests
         /\ o.at \in {"stat", "alloc"} => o \in CreateTasks
         /\ o.at = "open" => o \in OpenTasks
         /\ o.at = "flag" => o \in FlagTasks(last)
         /\ o.at \in {"close", "remove"} => o \in CloseTasks(last)
         /\ o.at \in {"rename", "setPath"} => o \in RenameTasks(last)
         /\ o.at = "teardown" => o \in TeardownTasks(last)
BY DEF Tasks, Idle, ConnectTasks, Requests, CreateTasks, OpenTasks, FlagTasks, CloseTasks,
       RenameTasks, TeardownTasks

LEMMA TasksGrow ==
  ASSUME NEW last \in Nat, NEW o \in Tasks(last)
  PROVE  o \in Tasks(last + 1)
<1>1. 1 .. last \subseteq 1 .. last + 1
  OBVIOUS
<1> QED
  BY <1>1 DEF Tasks, FlagTasks, CloseTasks, RenameTasks, TeardownTasks

(* The updates of a handler's record that keep most of its fields.           *)
LEMMA CloseUpdate ==
  ASSUME NEW last \in Nat, NEW o \in CloseTasks(last)
  PROVE  /\ [o EXCEPT !.at = "remove"] \in CloseTasks(last)
         /\ [o EXCEPT !.at = "remove"].at = "remove"
BY DEF CloseTasks

LEMMA RenameUpdate ==
  ASSUME NEW last \in Nat, NEW o \in RenameTasks(last)
  PROVE  /\ [o EXCEPT !.at = "setPath"] \in RenameTasks(last)
         /\ [o EXCEPT !.at = "setPath"].at = "setPath"
BY DEF RenameTasks

LEMMA RacedUpdate ==
  ASSUME NEW o \in CreateTasks \cup OpenTasks
  PROVE  /\ o \in CreateTasks => [o EXCEPT !.raced = TRUE] \in CreateTasks
         /\ o \in OpenTasks => [o EXCEPT !.raced = TRUE] \in OpenTasks
         /\ [o EXCEPT !.raced = TRUE].at = o.at
         /\ [o EXCEPT !.raced = TRUE].raced = TRUE
         /\ [o EXCEPT !.raced = TRUE].req = o.req
BY Zenon DEF CreateTasks, OpenTasks

LEMMA TypeInit == Init => TypeInv
BY ServerAssumption DEF Init, TypeInv, TypeOK, TaskInv, Tasks, HandleIDs, TreeIDs

(* What a step of anything but these four does to the reservations.          *)
LEMMA NoReservation ==
  ASSUME TypeInv, [Next]_vars,
         \A c \in Conns : ~(TreeConnect(c) \/ AddTreeConnection(c) \/ CreateValidate(c) \/ CreateAllocate(c))
  PROVE  /\ UNCHANGED <<nextHandle, nextTree>>
         /\ Creating' \subseteq Creating
         /\ \A p \in Procs : op'[p].at = "addTree" => op'[p] = op[p]
<1>0. DOMAIN op = Procs /\ Conns \subseteq Procs /\ Cleaner \in Procs
  BY DEF TypeInv, TaskInv, Procs
<1> DEFINE Result == /\ UNCHANGED <<nextHandle, nextTree>>
                     /\ Creating' \subseteq Creating
                     /\ \A p \in Procs : op'[p].at = "addTree" => op'[p] = op[p]
<1>1. ASSUME NEW p \in Procs, NEW o, op' = [op EXCEPT ![p] = o],
             o.at \notin {"check", "stat", "open", "alloc", "addTree"} 
               \/ (o.at # "addTree" /\ p \in Creating),
             UNCHANGED <<nextHandle, nextTree>>
      PROVE  Result
  BY <1>0, <1>1 DEF Creating
<1>2. ASSUME UNCHANGED <<nextHandle, nextTree, op>> PROVE Result
  BY <1>2 DEF Creating
<1> HIDE DEF Result
<1>3. ASSUME NEW c \in Conns, SessionSetup(c) \/ SetDisposition(c) PROVE Result
  BY <1>2, <1>3 DEF SessionSetup, SetDisposition, mapVars, sessionVars
<1>4. ASSUME NEW c \in Conns, CreateCheckShare(c) \/ CreateStat(c) \/ CreateOpen(c) PROVE Result
  <2>1. c \in Creating
    BY <1>4 DEF Creating, CreateCheckShare, CreateStat, CreateOpen
  <2> QED
    BY <1>0, <1>1, <1>4, <2>1
       DEF CreateCheckShare, CreateStat, CreateOpen, Goto, Return, Idle, mapVars, sessionVars
<1>5. ASSUME NEW c \in Conns, CreateStatFails(c) \/ CreateFlag(c) \/ CloseLookup(c) \/ CloseRemove(c)
                              \/ RenameStat(c) \/ RenameSetPath(c)
      PROVE  Result
  BY <1>0, <1>1, <1>5
     DEF CreateStatFails, CreateFlag, CloseLookup, CloseRemove, RenameStat, RenameSetPath,
         Goto, Return, Idle, mapVars, sessionVars
<1>6. ASSUME NEW c \in Conns, CloseRelease(c) \/ RenameFile(c) PROVE Result
  <2>1. op[c] \in Tasks(nextHandle) /\ nextHandle \in Nat
    BY <1>0 DEF TypeInv, TaskInv, TypeOK
  <2>2. /\ op[c].at = "close" => [op[c] EXCEPT !.at = "remove"].at = "remove"
        /\ op[c].at = "rename" => [op[c] EXCEPT !.at = "setPath"].at = "setPath"
    BY <2>1, TaskShape, CloseUpdate, RenameUpdate
  <2> DEFINE r == [op[c] EXCEPT !.at = "remove"]
             s == [op[c] EXCEPT !.at = "setPath"]
  <2>3. /\ UNCHANGED <<nextHandle, nextTree>>
        /\ \/ op' = [op EXCEPT ![c] = Idle]
           \/ op[c].at = "close" /\ op' = [op EXCEPT ![c] = r]
           \/ op[c].at = "rename" /\ op' = [op EXCEPT ![c] = s]
    BY <1>6 DEF CloseRelease, RenameFile, Goto, Return, mapVars, sessionVars
  <2>4. Idle.at = "idle" /\ (op[c].at = "close" => r.at = "remove")
        /\ (op[c].at = "rename" => s.at = "setPath")
    BY <2>2 DEF Idle
  <2> HIDE DEF r, s
  <2> QED
    BY <1>0, <1>1, <2>3, <2>4
<1>7. ASSUME NEW c \in Conns, Logoff(c) \/ TreeDisconnect(c) PROVE Result
  BY <1>0, <1>1, <1>7, Zenon DEF Logoff, TreeDisconnect, Teardown, Goto, mapVars, sessionVars
<1>8. ASSUME NEW p \in Procs, TeardownList(p) \/ TeardownRelease(p) PROVE Result
  BY <1>0, <1>1, <1>8 DEF TeardownList, TeardownRelease, Teardown, Goto, mapVars, sessionVars
<1>9. ASSUME NEW p \in Procs, TeardownEnd(p) PROVE Result
  BY <1>1, <1>9, Zenon DEF TeardownEnd, Return, Goto, Idle, mapVars
<1>10. ASSUME CleanupExpired PROVE Result
  BY <1>0, <1>1, <1>10, Zenon DEF CleanupExpired, Teardown, Goto, mapVars
<1>11. ASSUME RemoveShare \/ UNCHANGED vars PROVE Result
  BY <1>2, <1>11 DEF RemoveShare, vars, mapVars, sessionVars
<1> QED
  BY <1>3, <1>4, <1>5, <1>6, <1>7, <1>8, <1>9, <1>10, <1>11 DEF Next, Result

LEMMA BoundInit == Init => BoundInv
<1> SUFFICES ASSUME Init PROVE BoundInv
  OBVIOUS
<1>1. Creating = {} /\ \A s \in SessionIDs : Connecting(s) = {}
  BY DEF Init, Creating, Connecting, At, Idle, Procs
<1>2. Cardinality(Creating) = 0 /\ \A s \in SessionIDs : Cardinality(Connecting(s)) = 0
  BY <1>1, FS_EmptySet
<1> QED
  BY <1>2, ServerAssumption DEF Init, BoundInv

LEMMA ProcsFinite == IsFiniteSet(Procs) /\ IsFiniteSet(Conns)
BY ServerAssumption, FS_AddElement DEF Procs

(* A set of handlers that grows or shrinks by one.                           *)
LEMMA HandlerCount ==
  ASSUME NEW S \in SUBSET Procs, NEW T \in SUBSET Procs, NEW p \in Procs
  PROVE  /\ IsFiniteSet(S) /\ Cardinality(S) \in Nat /\ Cardinality(T) \in Nat
         /\ S \subseteq T => Cardinality(S) <= Cardinality(T)
         /\ S \subseteq T \cup {p} => Cardinality(S) <= Cardinality(T) + 1
         /\ p \in T /\ S \subseteq T \ {p} => Cardinality(S) <= Cardinality(T) - 1
<1>1. IsFiniteSet(S) /\ IsFiniteSet(T)
  BY ProcsFinite, FS_Subset
<1>2. /\ IsFiniteSet(T \cup {p}) /\ Cardinality(T \cup {p}) <= Cardinality(T) + 1
      /\ Cardinality(T) \in Nat /\ Cardinality(S) \in Nat /\ Cardinality(T \cup {p}) \in Nat
  <2>1. Cardinality(T) \in Nat /\ Cardinality(S) \in Nat
    BY <1>1, FS_CardinalityType
  <2>2. /\ IsFiniteSet(T \cup {p})
        /\ Cardinality(T \cup {p}) = IF p \in T THEN Cardinality(T) ELSE Cardinality(T) + 1
    BY <1>1, FS_AddElement
  <2> QED
    BY <2>1, <2>2
<1>3. p \in T => IsFiniteSet(T \ {p}) /\ Cardinality(T \ {p}) = Cardinality(T) - 1
  BY <1>1, FS_RemoveElement
<1>4. /\ S \subseteq T => Cardinality(S) <= Cardinality(T)
      /\ S \subseteq T \cup {p} => Cardinality(S) <= Cardinality(T \cup {p})
      /\ p \in T /\ S \subseteq T \ {p} => Cardinality(S) <= Cardinality(T \ {p})
  BY <1>1, <1>2, <1>3, FS_Subset
<1> QED
  BY <1>1, <1>2, <1>3, <1>4

LEMMA BoundStep ==
  ASSUME TypeInv, BoundInv, [Next]_vars
  PROVE  BoundInv'
<1>0. /\ DOMAIN op = Procs /\ Conns \subseteq Procs
      /\ nextHandle \in Nat /\ MaxHandles \in Nat /\ MaxTrees \in Nat
      /\ nextTree \in [SessionIDs -> Nat]
      /\ Creating \subseteq Procs /\ Creating' \subseteq Procs /\ At("addTree") \subseteq Procs
      /\ \A s \in SessionIDs : Connecting(s) \subseteq At("addTree") /\ Connecting(s)' \subseteq Procs
  BY ServerAssumption DEF TypeInv, TypeOK, TaskInv, Procs, Creating, Connecting, At
<1>1. ASSUME NEW c \in Conns, TreeConnect(c) PROVE BoundInv'
  <2>1. PICK s \in SessionIDs, sh \in registered :
          /\ nextTree[s] + Cardinality(At("addTree")) < MaxTrees
          /\ op' = [op EXCEPT ![c] = [at |-> "addTree", session |-> s, share |-> sh]]
    BY <1>1, Zenon DEF TreeConnect, Goto
  <2>2. UNCHANGED <<nextHandle, nextTree>>
    BY <1>1 DEF TreeConnect, sessionVars, mapVars
  <2>3. Creating' \subseteq Creating
    BY <1>0, <2>1 DEF Creating
  <2>4. /\ Connecting(s)' \subseteq Connecting(s) \cup {c}
        /\ \A r \in SessionIDs : r # s => Connecting(r)' \subseteq Connecting(r)
    BY <1>0, <2>1 DEF Connecting, At
  <2>5. /\ Cardinality(Creating') <= Cardinality(Creating)
        /\ Cardinality(Creating') \in Nat /\ Cardinality(Creating) \in Nat
    BY <1>0, <2>3, HandlerCount
  <2>6. /\ Cardinality(Connecting(s)') <= Cardinality(Connecting(s)) + 1
        /\ Cardinality(Connecting(s)) <= Cardinality(At("addTree"))
        /\ Cardinality(Connecting(s)') \in Nat /\ Cardinality(Connecting(s)) \in Nat
        /\ Cardinality(At("addTree")) \in Nat
    BY <1>0, <2>4, HandlerCount
  <2>7. \A r \in SessionIDs : r # s =>
          /\ Cardinality(Connecting(r)') <= Cardinality(Connecting(r))
          /\ Cardinality(Connecting(r)') \in Nat /\ Cardinality(Connecting(r)) \in Nat
    BY <1>0, <2>4, HandlerCount
  <2>8. \A r \in SessionIDs : nextTree[r] + Cardinality(Connecting(r)') <= MaxTrees
    BY <1>0, <2>1, <2>6, <2>7 DEF BoundInv
  <2> QED
    BY <1>0, <2>2, <2>5, <2>8 DEF BoundInv
<1>2. ASSUME NEW c \in Conns, AddTreeConnection(c) PROVE BoundInv'
  <2>1. op[c].at = "addTree" /\ op[c].session \in SessionIDs
    BY <1>0, <1>2, TaskShape DEF AddTreeConnection, TypeInv, TaskInv, ConnectTasks
  <2> PICK s \in SessionIDs : s = op[c].session
    BY <2>1
  <2>2. /\ nextTree' = [nextTree EXCEPT ![s] = @ + 1] /\ UNCHANGED nextHandle
        /\ op' = [op EXCEPT ![c] = Idle]
    BY <1>2 DEF AddTreeConnection, Return, Goto, mapVars
  <2>3. Creating' \subseteq Creating
    BY <1>0, <2>2 DEF Creating, Idle
  <2>4. c \in Connecting(s) /\ \A r \in SessionIDs : c \notin Connecting(r)'
    BY <1>0, <2>1, <2>2 DEF Connecting, At, Idle
  <2>5. \A r \in SessionIDs : Connecting(r)' \subseteq Connecting(r)
    BY <1>0, <2>2 DEF Connecting, At, Idle
  <2>6. /\ Cardinality(Creating') <= Cardinality(Creating)
        /\ Cardinality(Creating') \in Nat /\ Cardinality(Creating) \in Nat
    BY <1>0, <2>3, HandlerCount
  <2>7. /\ Cardinality(Connecting(s)') <= Cardinality(Connecting(s)) - 1
        /\ Cardinality(Connecting(s)') \in Nat /\ Cardinality(Connecting(s)) \in Nat
    BY <1>0, <2>1, <2>4, <2>5, HandlerCount
  <2>8. \A r \in SessionIDs : 
          /\ Cardinality(Connecting(r)') <= Cardinality(Connecting(r))
          /\ Cardinality(Connecting(r)') \in Nat /\ Cardinality(Connecting(r)) \in Nat
    BY <1>0, <2>5, HandlerCount
  <2>9. \A r \in SessionIDs : nextTree'[r] + Cardinality(Connecting(r)') <= MaxTrees
    <3>1. \A r \in SessionIDs : nextTree'[r] = IF r = s THEN nextTree[s] + 1 ELSE nextTree[r]
      BY <1>0, <2>1, <2>2
    <3>2. \A r \in SessionIDs : nextTree[r] + Cardinality(Connecting(r)) <= MaxTrees
      BY DEF BoundInv
    <3> QED
      BY <1>0, <2>1, <2>7, <2>8, <3>1, <3>2
  <2> QED
    BY <1>0, <2>2, <2>6, <2>9 DEF BoundInv
<1>3. ASSUME NEW c \in Conns, CreateValidate(c) \/ CreateAllocate(c),
             UNCHANGED nextTree, \A p \in Procs : op'[p].at = "addTree" => op'[p] = op[p],
             nextHandle' + Cardinality(Creating') <= MaxHandles
      PROVE  BoundInv'
  <2>1. \A r \in SessionIDs : Connecting(r)' \subseteq Connecting(r)
    BY <1>3 DEF Connecting, At
  <2>2. \A r \in SessionIDs : 
          /\ Cardinality(Connecting(r)') <= Cardinality(Connecting(r))
          /\ Cardinality(Connecting(r)') \in Nat /\ Cardinality(Connecting(r)) \in Nat
    BY <1>0, <1>3, <2>1, HandlerCount
  <2>3. \A r \in SessionIDs : nextTree[r] + Cardinality(Connecting(r)') <= MaxTrees
    BY <1>0, <2>2 DEF BoundInv
  <2> QED
    BY <1>3, <2>3 DEF BoundInv
<1>4. ASSUME NEW c \in Conns, CreateValidate(c) PROVE BoundInv'
  <2>1. (\A p \in Procs \ {c} : op'[p] = op[p]) /\ op'[c].at = "check"
    BY <1>0, <1>4 DEF CreateValidate, Goto
  <2>2. /\ nextHandle + Cardinality(Creating) < MaxHandles
        /\ UNCHANGED <<nextHandle, nextTree>>
    BY <1>4 DEF CreateValidate, sessionVars, mapVars
  <2>3. Creating' \subseteq Creating \cup {c}
    BY <1>0, <2>1 DEF Creating
  <2>4. /\ Cardinality(Creating') <= Cardinality(Creating) + 1
        /\ Cardinality(Creating') \in Nat /\ Cardinality(Creating) \in Nat
    BY <1>0, <2>3, HandlerCount
  <2>5. \A p \in Procs : op'[p].at = "addTree" => op'[p] = op[p]
    BY <1>0, <2>1
  <2> QED
    BY <1>0, <1>3, <1>4, <2>2, <2>4, <2>5
<1>5. ASSUME NEW c \in Conns, CreateAllocate(c) PROVE BoundInv'
  <2>1. c \in Creating /\ nextHandle' = nextHandle + 1 /\ UNCHANGED nextTree
    BY <1>5 DEF CreateAllocate, sessionVars, Creating
  <2>2. \A d \in Procs \ {c} : op'[d].at = op[d].at /\ (op[d].at = "addTree" => op'[d] = op[d])
    <3> SUFFICES ASSUME NEW d \in Procs, d # c
                 PROVE  op'[d].at = op[d].at /\ (op[d].at = "addTree" => op'[d] = op[d])
      OBVIOUS
    <3>1. \/ op'[d] = op[d]
          \/ op[d].at \in {"stat", "open", "alloc"} /\ op'[d] = [op[d] EXCEPT !.raced = TRUE]
      BY <1>5 DEF CreateAllocate
    <3>2. op[d].at \in {"stat", "open", "alloc"} => op[d] \in CreateTasks \cup OpenTasks
      BY <1>0, TaskShape DEF TypeInv, TaskInv
    <3>3. op[d].at \in {"stat", "open", "alloc"} => [op[d] EXCEPT !.raced = TRUE].at = op[d].at
      BY <3>2, RacedUpdate
    <3> QED
      BY <3>1, <3>3, Zenon
  <2>3. op'[c].at \in {"flag", "idle"}
    BY <1>0, <1>5 DEF CreateAllocate, Idle
  <2>4. Creating' \subseteq Creating \ {c}
    BY <1>0, <2>2, <2>3 DEF Creating
  <2>5. /\ Cardinality(Creating') <= Cardinality(Creating) - 1
        /\ Cardinality(Creating') \in Nat /\ Cardinality(Creating) \in Nat
    BY <1>0, <2>1, <2>4, HandlerCount
  <2>6. \A p \in Procs : op'[p].at = "addTree" => op'[p] = op[p]
    BY <2>2, <2>3
  <2>7. nextHandle' + Cardinality(Creating') <= MaxHandles
    BY <1>0, <2>1, <2>5 DEF BoundInv
  <2> QED
    BY <1>3, <1>5, <2>1, <2>6, <2>7
<1>6. CASE \A c \in Conns : ~(TreeConnect(c) \/ AddTreeConnection(c) \/ CreateValidate(c) \/ CreateAllocate(c))
  <2>1. /\ UNCHANGED <<nextHandle, nextTree>> /\ Creating' \subseteq Creating
        /\ \A p \in Procs : op'[p].at = "addTree" => op'[p] = op[p]
    BY <1>6, NoReservation
  <2>2. \A r \in SessionIDs : Connecting(r)' \subseteq Connecting(r)
    BY <2>1 DEF Connecting, At
  <2>3. Cleaner \in Procs
    BY DEF Procs
  <2>4. \A r \in SessionIDs : 
          /\ Cardinality(Connecting(r)') <= Cardinality(Connecting(r))
          /\ Cardinality(Connecting(r)') \in Nat /\ Cardinality(Connecting(r)) \in Nat
    BY <1>0, <2>2, <2>3, HandlerCount
  <2>5. /\ Cardinality(Creating') <= Cardinality(Creating)
        /\ Cardinality(Creating') \in Nat /\ Cardinality(Creating) \in Nat
    BY <1>0, <2>1, <2>3, HandlerCount
  <2>6. \A r \in SessionIDs : nextTree'[r] + Cardinality(Connecting(r)') <= MaxTrees
    BY <1>0, <2>1, <2>4 DEF BoundInv
  <2> QED
    BY <1>0, <2>1, <2>5, <2>6 DEF BoundInv
<1> QED
  BY <1>1, <1>2, <1>4, <1>5, <1>6

-----------------------------------------------------------------------------
(* Types *)

SessionTypes ==
  /\ session \in [SessionIDs -> {"none", "valid", "gone"}]
  /\ trees \in [SessionIDs -> [TreeIDs -> Shares \cup {None}]]
  /\ nextTree \in [SessionIDs -> 0 .. MaxTrees]
  /\ registered \subseteq Shares

MapTypes ==
  /\ nextHandle \in 0 .. MaxHandles
  /\ handles \subseteq 1 .. nextHandle
  /\ openFile \in [HandleIDs -> OpenFiles \cup {None}]
  /\ \A h \in HandleIDs : openFile[h] \in (IF h <= nextHandle THEN OpenFiles ELSE {None})
  /\ byPath \in [Shares -> [Names -> SUBSET (1 .. nextHandle)]]
  /\ renamed \subseteq 1 .. nextHandle

OtherTypes ==
  /\ files \in [Shares -> SUBSET Names]
  /\ setInfos \in 0 .. MaxSetInfo
  /\ ending \subseteq SessionIDs \X TreeIDs

LEMMA TypeParts ==
  TypeInv <=> /\ SessionTypes /\ MapTypes /\ OtherTypes
              /\ openCount \in Nat /\ op \in [Procs -> Tasks(nextHandle)]
BY DEF TypeInv, TypeOK, TaskInv, SessionTypes, MapTypes, OtherTypes

(* A CREATE or TREE_CONNECT under way finds an ID left for it.               *)
LEMMA Room ==
  ASSUME TypeInv, BoundInv
  PROVE  /\ \A c \in Conns : c \in Creating => nextHandle + 1 \in HandleIDs
         /\ \A c \in Conns : op[c].at = "addTree" =>
              /\ op[c] \in ConnectTasks
              /\ nextTree[op[c].session] + 1 \in TreeIDs
<1>0. /\ nextHandle \in Nat /\ MaxHandles \in Nat /\ MaxTrees \in Nat /\ Conns \subseteq Procs
      /\ nextTree \in [SessionIDs -> Nat] /\ op \in [Procs -> Tasks(nextHandle)]
      /\ Creating \subseteq Procs /\ \A s \in SessionIDs : Connecting(s) \subseteq Procs
  BY ServerAssumption DEF TypeInv, TypeOK, TaskInv, Creating, Procs, Connecting, At
<1>1. ASSUME NEW c \in Conns, c \in Creating PROVE nextHandle + 1 \in HandleIDs
  <2>1. Cardinality({}) <= Cardinality(Creating) - 1 /\ Cardinality(Creating) \in Nat
    BY <1>0, <1>1, HandlerCount
  <2>2. nextHandle + 1 <= MaxHandles
    BY <1>0, <2>1, FS_EmptySet DEF BoundInv
  <2> QED
    BY <1>0, <2>2 DEF HandleIDs
<1>2. ASSUME NEW c \in Conns, op[c].at = "addTree"
      PROVE  op[c] \in ConnectTasks /\ nextTree[op[c].session] + 1 \in TreeIDs
  <2>1. op[c] \in ConnectTasks /\ op[c].session \in SessionIDs
    BY <1>0, <1>2, TaskShape DEF ConnectTasks
  <2> PICK s \in SessionIDs : s = op[c].session
    BY <2>1
  <2>2. c \in Connecting(s)
    BY <1>0, <1>2 DEF Connecting, At
  <2>3. Cardinality({}) <= Cardinality(Connecting(s)) - 1 /\ Cardinality(Connecting(s)) \in Nat
    BY <1>0, <2>2, HandlerCount
  <2>4. nextTree[s] \in Nat /\ nextTree[s] + 1 <= MaxTrees
    BY <1>0, <2>3, FS_EmptySet DEF BoundInv
  <2> QED
    BY <1>0, <2>1, <2>4 DEF TreeIDs
<1> QED
  BY <1>1, <1>2

LEMMA SessionTypesStep ==
  ASSUME TypeInv, BoundInv, [Next]_vars
  PROVE  SessionTypes'
<1>0. SessionTypes /\ op \in [Procs -> Tasks(nextHandle)] /\ nextHandle \in Nat /\ Conns \subseteq Procs
      /\ None \notin TreeIDs
  BY ServerAssumption, TypeParts DEF MapTypes, Procs
<1>1. ASSUME UNCHANGED sessionVars PROVE SessionTypes'
  BY <1>0, <1>1 DEF SessionTypes, sessionVars
<1>2. ASSUME NEW c \in Conns, SessionSetup(c) PROVE SessionTypes'
  BY <1>0, <1>2 DEF SessionSetup, SessionTypes
<1>3. ASSUME NEW c \in Conns, AddTreeConnection(c) PROVE SessionTypes'
  <2>1. op[c] \in ConnectTasks /\ nextTree[op[c].session] + 1 \in TreeIDs
    BY <1>3, Room DEF AddTreeConnection
  <2> DEFINE s == op[c].session
  <2>2. s \in SessionIDs /\ op[c].share \in Shares
    BY <2>1 DEF ConnectTasks
  <2>3. /\ nextTree' = [nextTree EXCEPT ![s] = @ + 1]
        /\ trees' = [trees EXCEPT ![s][nextTree[s] + 1] = op[c].share]
        /\ UNCHANGED <<session, registered>>
    BY <1>3 DEF AddTreeConnection
  <2>4. nextTree[s] + 1 \in TreeIDs
    BY <2>1
  <2> HIDE DEF s
  <2>5. nextTree' \in [SessionIDs -> 0 .. MaxTrees]
    BY <1>0, <2>2, <2>3, <2>4 DEF SessionTypes, TreeIDs
  <2>6. trees' \in [SessionIDs -> [TreeIDs -> Shares \cup {None}]]
    BY <1>0, <2>2, <2>3, <2>4 DEF SessionTypes
  <2> QED
    BY <1>0, <2>3, <2>5, <2>6 DEF SessionTypes
<1>4. ASSUME RemoveShare PROVE SessionTypes'
  BY <1>0, <1>4 DEF RemoveShare, SessionTypes
<1>5. ASSUME CleanupExpired PROVE SessionTypes'
  BY <1>0, <1>5 DEF CleanupExpired, SessionTypes
<1>6. ASSUME NEW p \in Procs, TeardownEnd(p) PROVE SessionTypes'
  <2>1. op[p] \in TeardownTasks(nextHandle)
    BY <1>0, <1>6, TaskShape DEF TeardownEnd
  <2> DEFINE end == op[p].end
  <2>2. end # None => end.session \in SessionIDs /\ end.tree \in TreeIDs \cup {None}
    BY <2>1 DEF TeardownTasks, Ends
  <2>3. /\ UNCHANGED <<nextTree, registered>>
        /\ \/ UNCHANGED <<session, trees>>
           \/ /\ end # None
              /\ session' = [session EXCEPT ![end.session] = "gone"] /\ UNCHANGED trees
           \/ /\ end # None /\ end.tree # None
              /\ trees' = [trees EXCEPT ![end.session][end.tree] = None] /\ UNCHANGED session
    BY <1>6 DEF TeardownEnd
  <2> HIDE DEF end
  <2> QED
    BY <1>0, <2>2, <2>3 DEF SessionTypes
<1>7. ASSUME NEW p \in Procs, TeardownList(p) \/ TeardownRelease(p) PROVE UNCHANGED sessionVars
  BY <1>7 DEF TeardownList, TeardownRelease
<1>8. ASSUME NEW c \in Conns, TreeConnect(c) \/ CreateValidate(c) \/ CreateCheckShare(c) \/ CreateStat(c)
               \/ CreateOpen(c) \/ CreateStatFails(c) \/ CreateAllocate(c) \/ CreateFlag(c)
      PROVE  UNCHANGED sessionVars
  BY <1>8, ZenonT(30) DEF TreeConnect, CreateValidate, CreateCheckShare, CreateStat, CreateOpen, CreateStatFails,
              CreateAllocate, CreateFlag
<1>9. ASSUME NEW c \in Conns, CloseLookup(c) \/ CloseRelease(c) \/ CloseRemove(c) \/ SetDisposition(c)
               \/ RenameStat(c) \/ RenameFile(c) \/ RenameSetPath(c) \/ Logoff(c) \/ TreeDisconnect(c)
      PROVE  UNCHANGED sessionVars
  BY <1>9, Zenon DEF CloseLookup, CloseRelease, CloseRemove, SetDisposition, RenameStat, RenameFile,
              RenameSetPath, Logoff, TreeDisconnect
<1>10. UNCHANGED vars => UNCHANGED sessionVars
  BY DEF vars
<1> QED
  BY <1>1, <1>2, <1>3, <1>4, <1>5, <1>6, <1>7, <1>8, <1>9, <1>10 DEF Next

(* Updates of an open file.                                                  *)
LEMMA FlagUpdate ==
  ASSUME NEW of \in OpenFiles, NEW del \in BOOLEAN, NEW u, u = [of EXCEPT !.deleteOnClose = del]
  PROVE  /\ u \in OpenFiles
         /\ u.session = of.session /\ u.tree = of.tree /\ u.share = of.share /\ u.path = of.path
         /\ u.opened = of.opened /\ u.mode = of.mode /\ u.raced = of.raced /\ u.late = of.late
BY DEF OpenFiles

LEMMA PathUpdate ==
  ASSUME NEW of \in OpenFiles, NEW n \in Names, NEW u, u = [of EXCEPT !.path = n]
  PROVE  /\ u \in OpenFiles
         /\ u.session = of.session /\ u.tree = of.tree /\ u.share = of.share
         /\ u.opened = of.opened /\ u.mode = of.mode /\ u.raced = of.raced /\ u.late = of.late
BY DEF OpenFiles

(* What the handlers of a handle know of it.                                 *)
LEMMA GivenOut ==
  ASSUME TypeInv, NEW h \in 1 .. nextHandle
  PROVE  h \in HandleIDs /\ openFile[h] \in OpenFiles
BY ServerAssumption, TypeParts DEF MapTypes, HandleIDs

LEMMA ReleaseTypes ==
  ASSUME TypeInv, NEW h \in 1 .. nextHandle, Release(h)
  PROVE  /\ handles' = handles \ {h}
         /\ byPath' \in [Shares -> [Names -> SUBSET (1 .. nextHandle)]]
<1>1. openFile[h] \in OpenFiles
  BY GivenOut
<1>2. openFile[h].share \in Shares /\ openFile[h].path \in Names
  BY <1>1 DEF OpenFiles
<1>3. byPath \in [Shares -> [Names -> SUBSET (1 .. nextHandle)]]
  BY TypeParts DEF MapTypes
<1> QED
  BY <1>2, <1>3 DEF Release

LEMMA MapTypesStep ==
  ASSUME TypeInv, BoundInv, [Next]_vars
  PROVE  MapTypes'
<1>0. /\ MapTypes /\ op \in [Procs -> Tasks(nextHandle)] /\ nextHandle \in Nat /\ Conns \subseteq Procs
      /\ DOMAIN openFile = HandleIDs
  BY TypeParts DEF MapTypes, Procs
<1>1. ASSUME UNCHANGED <<mapVars, renamed>> PROVE MapTypes'
  BY <1>0, <1>1 DEF MapTypes, mapVars
<1>2. ASSUME NEW c \in Conns, CreateAllocate(c) PROVE MapTypes'
  <2>1. op[c] \in CreateTasks /\ c \in Creating
    BY <1>0, <1>2, TaskShape DEF CreateAllocate, Creating
  <2>2. nextHandle + 1 \in HandleIDs
    BY <2>1, Room
  <2> DEFINE req == op[c].req
             of == [session |-> req.session, tree |-> req.tree, share |-> req.share,
                    path |-> req.name, opened |-> req.name, mode |-> req.mode,
                    deleteOnClose |-> FALSE, raced |-> op[c].raced,
                    late |-> <<req.session, req.tree>> \in ending]
  <2>3. req.share \in Shares /\ req.name \in Names /\ of \in OpenFiles
    BY <2>1 DEF CreateTasks, Requests, OpenFiles
  <2>4. /\ nextHandle' = nextHandle + 1 /\ handles' = handles \cup {nextHandle + 1}
        /\ openFile' = [openFile EXCEPT ![nextHandle + 1] = of]
        /\ byPath' = [byPath EXCEPT ![req.share][req.name] = @ \cup {nextHandle + 1}]
        /\ UNCHANGED renamed
    BY <1>2 DEF CreateAllocate
  <2> HIDE DEF req, of
  <2>5. nextHandle' \in 0 .. MaxHandles /\ 1 .. nextHandle \subseteq 1 .. nextHandle'
        /\ nextHandle + 1 \in 1 .. nextHandle'
    BY <1>0, <2>2, <2>4, ServerAssumption DEF HandleIDs
  <2>6. /\ openFile' \in [HandleIDs -> OpenFiles \cup {None}]
        /\ \A h \in HandleIDs : openFile'[h] \in (IF h <= nextHandle' THEN OpenFiles ELSE {None})
    <3>1. /\ openFile' \in [HandleIDs -> OpenFiles \cup {None}]
          /\ \A h \in HandleIDs : openFile'[h] = IF h = nextHandle + 1 THEN of ELSE openFile[h]
      BY <1>0, <2>2, <2>3, <2>4 DEF MapTypes
    <3> QED
      BY <1>0, <2>2, <2>3, <2>4, <3>1, ServerAssumption DEF MapTypes, HandleIDs
  <2>7. byPath' \in [Shares -> [Names -> SUBSET (1 .. nextHandle')]]
    BY <1>0, <2>3, <2>4, <2>5 DEF MapTypes
  <2> QED
    BY <1>0, <2>4, <2>5, <2>6, <2>7 DEF MapTypes
<1>3. ASSUME NEW h \in 1 .. nextHandle, NEW of \in OpenFiles, openFile' = [openFile EXCEPT ![h] = of],
             UNCHANGED <<handles, byPath, nextHandle>>, renamed' \in {renamed, renamed \cup {h}}
      PROVE  MapTypes'
  <2>1. h \in HandleIDs /\ h <= nextHandle
    BY <1>0, GivenOut
  <2>2. \A g \in HandleIDs : openFile'[g] = IF g = h THEN of ELSE openFile[g]
    BY <1>0, <1>3, <2>1
  <2> QED
    BY <1>0, <1>3, <2>1, <2>2 DEF MapTypes
<1>4. ASSUME NEW c \in Conns, CreateFlag(c) PROVE MapTypes'
  <2>1. op[c].handle \in 1 .. nextHandle
    BY <1>0, <1>4, TaskShape DEF CreateFlag, FlagTasks
  <2>2. [openFile[op[c].handle] EXCEPT !.deleteOnClose = TRUE] \in OpenFiles
    BY <2>1, GivenOut, FlagUpdate, Zenon
  <2>3. /\ openFile' = [openFile EXCEPT ![op[c].handle] = [openFile[op[c].handle] EXCEPT !.deleteOnClose = TRUE]]
        /\ UNCHANGED <<handles, byPath, nextHandle, renamed>>
    BY <1>4 DEF CreateFlag
  <2> QED
    BY <1>3, <2>1, <2>2, <2>3, Zenon
<1>5. ASSUME NEW c \in Conns, SetDisposition(c) PROVE MapTypes'
  <2>1. PICK h \in Usable, del \in BOOLEAN : openFile' = [openFile EXCEPT ![h].deleteOnClose = del]
    BY <1>5, Zenon DEF SetDisposition
  <2>2. h \in 1 .. nextHandle /\ UNCHANGED <<handles, byPath, nextHandle, renamed>>
    BY <1>0, <1>5 DEF SetDisposition, Usable, MapTypes
  <2>3. [openFile[h] EXCEPT !.deleteOnClose = del] \in OpenFiles
    BY <2>2, GivenOut, FlagUpdate
  <2>4. openFile' = [openFile EXCEPT ![h] = [openFile[h] EXCEPT !.deleteOnClose = del]]
    BY <2>1
  <2> QED
    BY <1>3, <2>2, <2>3, <2>4, Zenon
<1>6. ASSUME NEW c \in Conns, RenameSetPath(c) PROVE MapTypes'
  <2>1. op[c].handle \in 1 .. nextHandle /\ op[c].to \in Names
    BY <1>0, <1>6, TaskShape DEF RenameSetPath, RenameTasks
  <2>2. [openFile[op[c].handle] EXCEPT !.path = op[c].to] \in OpenFiles
    BY <2>1, GivenOut, PathUpdate
  <2>3. /\ openFile' = [openFile EXCEPT ![op[c].handle] = [openFile[op[c].handle] EXCEPT !.path = op[c].to]]
        /\ UNCHANGED <<handles, byPath, nextHandle>> /\ renamed' = renamed \cup {op[c].handle}
    BY <1>6 DEF RenameSetPath
  <2> QED
    BY <1>3, <2>1, <2>2, <2>3, Zenon
<1>7. ASSUME NEW h \in 1 .. nextHandle, Release(h), UNCHANGED <<openFile, nextHandle, renamed>>
      PROVE  MapTypes'
  BY <1>0, <1>7, ReleaseTypes, Zenon DEF MapTypes
<1>8. ASSUME NEW c \in Conns, CloseRelease(c) PROVE MapTypes'
  <2>1. op[c].handle \in 1 .. nextHandle
    BY <1>0, <1>8, TaskShape DEF CloseRelease, CloseTasks
  <2> QED
    BY <1>7, <1>8, <2>1 DEF CloseRelease
<1>9. ASSUME NEW p \in Procs, TeardownRelease(p) PROVE MapTypes'
  <2>1. op[p].todo \subseteq 1 .. nextHandle
    BY <1>0, <1>9, TaskShape DEF TeardownRelease, TeardownTasks
  <2> QED
    BY <1>7, <1>9, <2>1 DEF TeardownRelease
<1>10. ASSUME NEW c \in Conns, SessionSetup(c) \/ TreeConnect(c) \/ AddTreeConnection(c) \/ CreateValidate(c)
                \/ CreateCheckShare(c) \/ CreateStat(c) \/ CreateOpen(c) \/ CreateStatFails(c)
       PROVE  UNCHANGED <<mapVars, renamed>>
  BY <1>10 DEF SessionSetup, TreeConnect, AddTreeConnection, CreateValidate, CreateCheckShare, CreateStat,
               CreateOpen, CreateStatFails
<1>11. ASSUME NEW c \in Conns, CloseLookup(c) \/ CloseRemove(c) \/ RenameStat(c) \/ RenameFile(c)
                \/ Logoff(c) \/ TreeDisconnect(c)
       PROVE  UNCHANGED <<mapVars, renamed>>
  BY <1>11 DEF CloseLookup, CloseRemove, RenameStat, RenameFile, Logoff, TreeDisconnect
<1>12. ASSUME NEW p \in Procs, TeardownList(p) \/ TeardownEnd(p) PROVE UNCHANGED <<mapVars, renamed>>
  BY <1>12 DEF TeardownList, TeardownEnd
<1>13. CleanupExpired \/ RemoveShare \/ UNCHANGED vars => UNCHANGED <<mapVars, renamed>>
  BY DEF CleanupExpired, RemoveShare, vars
<1> QED
  BY <1>1, <1>2, <1>4, <1>5, <1>6, <1>8, <1>9, <1>10, <1>11, <1>12, <1>13 DEF Next

LEMMA OtherTypesStep ==
  ASSUME TypeInv, [Next]_vars
  PROVE  OtherTypes'
<1>0. /\ OtherTypes /\ MapTypes /\ op \in [Procs -> Tasks(nextHandle)] /\ nextHandle \in Nat
      /\ Conns \subseteq Procs
  BY TypeParts DEF MapTypes, Procs
<1>1. ASSUME UNCHANGED <<files, setInfos, ending>> PROVE OtherTypes'
  BY <1>0, <1>1 DEF OtherTypes
<1>2. ASSUME NEW c \in Conns, CreateOpen(c) PROVE OtherTypes'
  <2>1. op[c].req.share \in Shares /\ op[c].req.name \in Names
    BY <1>0, <1>2, TaskShape DEF CreateOpen, OpenTasks, Requests
  <2> QED
    BY <1>0, <1>2, <2>1 DEF CreateOpen, OtherTypes
<1>3. ASSUME NEW c \in Conns, CloseRemove(c) PROVE OtherTypes'
  <2>1. op[c].share \in Shares
    BY <1>0, <1>3, TaskShape DEF CloseRemove, CloseTasks
  <2> QED
    BY <1>0, <1>3, <2>1 DEF CloseRemove, OtherTypes
<1>4. ASSUME NEW c \in Conns, RenameFile(c) PROVE OtherTypes'
  <2>1. op[c].handle \in 1 .. nextHandle /\ op[c].to \in Names
    BY <1>0, <1>4, TaskShape DEF RenameFile, RenameTasks
  <2>2. openFile[op[c].handle].share \in Shares
    BY <2>1, GivenOut DEF OpenFiles
  <2> QED
    BY <1>0, <1>4, <2>1, <2>2 DEF RenameFile, OtherTypes
<1>5. ASSUME NEW c \in Conns, SetDisposition(c) \/ RenameStat(c) PROVE OtherTypes'
  BY <1>0, <1>5, ServerAssumption DEF SetDisposition, RenameStat, OtherTypes
<1>6. ASSUME NEW c \in Conns, Logoff(c) \/ TreeDisconnect(c) PROVE OtherTypes'
  <2>1. \E s \in SessionIDs, T \in SUBSET TreeIDs : ending' = ending \cup ({s} \X T)
    <3>1. CASE Logoff(c)
      BY <3>1 DEF Logoff
    <3>2. CASE TreeDisconnect(c)
      <4>1. \A s \in SessionIDs, t \in TreeIDs : {<<s, t>>} = {s} \X {t}
        OBVIOUS
      <4> QED
        BY <3>2, <4>1 DEF TreeDisconnect
    <3> QED
      BY <1>6, <3>1, <3>2
  <2>2. UNCHANGED <<files, setInfos>>
    BY <1>6 DEF Logoff, TreeDisconnect
  <2> QED
    BY <1>0, <2>1, <2>2 DEF OtherTypes
<1>7. ASSUME CleanupExpired PROVE OtherTypes'
  BY <1>0, <1>7 DEF CleanupExpired, OtherTypes
<1>8. ASSUME NEW c \in Conns, SessionSetup(c) \/ TreeConnect(c) \/ AddTreeConnection(c) \/ CreateValidate(c)
               \/ CreateCheckShare(c) \/ CreateStat(c) \/ CreateStatFails(c) \/ CreateAllocate(c)
               \/ CreateFlag(c) \/ CloseLookup(c) \/ CloseRelease(c) \/ RenameSetPath(c)
      PROVE  UNCHANGED <<files, setInfos, ending>>
  BY <1>8, Zenon DEF SessionSetup, TreeConnect, AddTreeConnection, CreateValidate, CreateCheckShare, CreateStat,
              CreateStatFails, CreateAllocate, CreateFlag, CloseLookup, CloseRelease, RenameSetPath
<1>9. ASSUME NEW p \in Procs, TeardownList(p) \/ TeardownRelease(p) \/ TeardownEnd(p)
      PROVE  UNCHANGED <<files, setInfos, ending>>
  BY <1>9 DEF TeardownList, TeardownRelease, TeardownEnd
<1>10. RemoveShare \/ UNCHANGED vars => UNCHANGED <<files, setInfos, ending>>
  BY DEF RemoveShare, vars
<1> QED
  BY <1>1, <1>2, <1>3, <1>4, <1>5, <1>6, <1>7, <1>8, <1>9, <1>10 DEF Next

LEMMA OpTypesStep ==
  ASSUME TypeInv, BoundInv, [Next]_vars
  PROVE  op' \in [Procs -> Tasks(nextHandle')]
<1>0. /\ SessionTypes /\ MapTypes /\ op \in [Procs -> Tasks(nextHandle)] /\ nextHandle \in Nat
      /\ Conns \subseteq Procs /\ Cleaner \in Procs
  BY TypeParts DEF MapTypes, Procs
<1> DEFINE Result == op' \in [Procs -> Tasks(nextHandle')]
<1>1. ASSUME NEW p \in Procs, NEW o \in Tasks(nextHandle), op' = [op EXCEPT ![p] = o], UNCHANGED nextHandle
      PROVE  Result
  BY <1>0, <1>1
<1>2. ASSUME UNCHANGED <<op, nextHandle>> PROVE Result
  BY <1>0, <1>2
<1> HIDE DEF Result
<1>3. Idle \in Tasks(nextHandle)
  BY DEF Tasks
<1>4. ASSUME NEW c \in Conns, SessionSetup(c) \/ SetDisposition(c) PROVE Result
  BY <1>2, <1>4 DEF SessionSetup, SetDisposition, mapVars
<1>5. ASSUME NEW c \in Conns, TreeConnect(c) PROVE Result
  <2>1. PICK s \in SessionIDs, sh \in registered :
          op' = [op EXCEPT ![c] = [at |-> "addTree", session |-> s, share |-> sh]]
    BY <1>5, Zenon DEF TreeConnect, Goto
  <2>2. [at |-> "addTree", session |-> s, share |-> sh] \in Tasks(nextHandle)
    BY <1>0 DEF Tasks, ConnectTasks, SessionTypes
  <2> QED
    BY <1>0, <1>1, <1>5, <2>1, <2>2, Zenon DEF TreeConnect, mapVars
<1>6. ASSUME NEW c \in Conns, CreateValidate(c) PROVE Result
  <2>1. PICK s \in SessionIDs, t \in TreeIDs, n \in Names, m \in Modes, d \in Dispositions,
             del \in DeleteOptions :
          /\ ValidTree(s, t)
          /\ op' = [op EXCEPT ![c] = [at |-> "check", session |-> s, tree |-> t, share |-> trees[s][t],
                                      name |-> n, mode |-> m, disposition |-> d, deleteOnClose |-> del]]
    BY <1>6, Zenon DEF CreateValidate, Goto
  <2>2. trees[s][t] \in Shares /\ del \in BOOLEAN
    BY <1>0, <2>1, ServerAssumption DEF ValidTree, SessionTypes
  <2>3. [at |-> "check", session |-> s, tree |-> t, share |-> trees[s][t],
         name |-> n, mode |-> m, disposition |-> d, deleteOnClose |-> del] \in Tasks(nextHandle)
    BY <2>2 DEF Tasks, Requests
  <2> QED
    BY <1>0, <1>1, <1>6, <2>1, <2>3, Zenon DEF CreateValidate, mapVars
<1>7. ASSUME NEW c \in Conns, CreateCheckShare(c) PROVE Result
  <2>1. op[c] \in Requests
    BY <1>0, <1>7, TaskShape DEF CreateCheckShare
  <2>2. [at |-> "stat", raced |-> FALSE, req |-> op[c]] \in Tasks(nextHandle)
    BY <2>1 DEF Tasks, CreateTasks
  <2> QED
    BY <1>0, <1>1, <1>3, <1>7, <2>2, Zenon DEF CreateCheckShare, Goto, Return, mapVars
<1>8. ASSUME NEW c \in Conns, CreateStat(c) PROVE Result
  <2>1. op[c] \in CreateTasks
    BY <1>0, <1>8, TaskShape DEF CreateStat
  <2>2. PICK e \in BOOLEAN : \/ op' = [op EXCEPT ![c] = StatedTask(op[c], e)]
                             \/ op' = [op EXCEPT ![c] = Idle]
    BY <1>8, CreateStatStep
  <2>3. StatedTask(op[c], e) \in Tasks(nextHandle)
    BY <2>1 DEF Tasks, CreateTasks, OpenTasks, StatedTask
  <2>4. UNCHANGED nextHandle
    BY <1>8 DEF CreateStat, mapVars
  <2> QED
    BY <1>0, <1>1, <1>3, <2>2, <2>3, <2>4, <1>8 DEF CreateStat, Return, mapVars
<1>9. ASSUME NEW c \in Conns, CreateOpen(c) PROVE Result
  <2>1. op[c] \in OpenTasks
    BY <1>0, <1>9, TaskShape DEF CreateOpen
  <2>2. [at |-> "alloc", raced |-> op[c].raced, req |-> op[c].req] \in Tasks(nextHandle)
    BY <2>1 DEF Tasks, CreateTasks, OpenTasks
  <2> QED
    BY <1>0, <1>1, <1>3, <1>9, <2>2 DEF CreateOpen, Goto, Return, mapVars
<1>10. ASSUME NEW c \in Conns, CreateAllocate(c) PROVE Result
  <2>1. nextHandle' = nextHandle + 1 /\ DOMAIN op' = Procs
    BY <1>10 DEF CreateAllocate
  <2>2. op'[c] \in {Idle, [at |-> "flag", handle |-> nextHandle + 1]}
    BY <1>0, <1>10 DEF CreateAllocate
  <2>3. nextHandle + 1 \in 1 .. nextHandle + 1
    BY <1>0
  <2>4. op'[c] \in Tasks(nextHandle + 1)
    BY <2>2, <2>3 DEF Tasks, FlagTasks
  <2>5. ASSUME NEW d \in Procs, d # c PROVE op'[d] \in Tasks(nextHandle + 1)
    <3>1. \/ op'[d] = op[d]
          \/ op[d].at \in {"stat", "open", "alloc"} /\ op'[d] = [op[d] EXCEPT !.raced = TRUE]
      BY <1>10, <2>5 DEF CreateAllocate
    <3>2. op[d].at \in {"stat", "open", "alloc"} => [op[d] EXCEPT !.raced = TRUE] \in Tasks(nextHandle)
      <4>1. op[d].at \in {"stat", "open", "alloc"} => op[d] \in CreateTasks \cup OpenTasks
        BY <1>0, TaskShape
      <4>2. op[d].at \in {"stat", "open", "alloc"} =>
              [op[d] EXCEPT !.raced = TRUE] \in CreateTasks \cup OpenTasks
        BY <4>1, RacedUpdate
      <4> QED
        BY <4>2 DEF Tasks
    <3> QED
      BY <1>0, <3>1, <3>2, TasksGrow
  <2>6. op' \in [Procs -> Tasks(nextHandle + 1)]
    <3>1. \A d \in Procs : op'[d] \in Tasks(nextHandle + 1)
      BY <2>4, <2>5
    <3>2. op' = [d \in Procs |-> op'[d]]
      BY <1>10 DEF CreateAllocate
    <3> QED
      BY <3>1, <3>2
  <2> QED
    BY <2>1, <2>6 DEF Result
<1>11. ASSUME NEW c \in Conns, CreateStatFails(c) \/ CreateFlag(c) \/ CloseRemove(c) \/ RenameSetPath(c)
                 \/ AddTreeConnection(c)
       PROVE  Result
  BY <1>0, <1>1, <1>3, <1>11 DEF CreateStatFails, CreateFlag, CloseRemove, RenameSetPath,
         AddTreeConnection, Goto, Return, mapVars
<1>12. ASSUME NEW c \in Conns, CloseLookup(c) PROVE Result
  <2>1. PICK h \in Usable :
          op' = [op EXCEPT ![c] = [at |-> "close", handle |-> h, deleteOnClose |-> openFile[h].deleteOnClose,
                                   path |-> openFile[h].path, share |-> openFile[h].share]]
    BY <1>12, Zenon DEF CloseLookup, Goto
  <2>2. h \in 1 .. nextHandle
    BY <1>0 DEF Usable, MapTypes
  <2>3. openFile[h] \in OpenFiles
    BY <2>2, GivenOut
  <2>4. [at |-> "close", handle |-> h, deleteOnClose |-> openFile[h].deleteOnClose,
         path |-> openFile[h].path, share |-> openFile[h].share] \in Tasks(nextHandle)
    BY <2>2, <2>3 DEF Tasks, CloseTasks, OpenFiles
  <2> QED
    BY <1>0, <1>1, <1>12, <2>1, <2>4, Zenon DEF CloseLookup, mapVars
<1>13. ASSUME NEW c \in Conns, CloseRelease(c) PROVE Result
  <2>1. [op[c] EXCEPT !.at = "remove"] \in CloseTasks(nextHandle)
    BY <1>0, <1>13, TaskShape, CloseUpdate DEF CloseRelease
  <2> DEFINE r == [op[c] EXCEPT !.at = "remove"]
  <2>2. r \in Tasks(nextHandle)
    BY <2>1 DEF Tasks
  <2>3. UNCHANGED nextHandle /\ (op' = [op EXCEPT ![c] = Idle] \/ op' = [op EXCEPT ![c] = r])
    BY <1>13 DEF CloseRelease, Goto, Return
  <2> HIDE DEF r
  <2> QED
    BY <1>0, <1>1, <1>3, <2>2, <2>3
<1>14. ASSUME NEW c \in Conns, RenameStat(c) PROVE Result
  <2>1. PICK h \in Usable, n \in Names : op' = [op EXCEPT ![c] = [at |-> "rename", handle |-> h, to |-> n]]
    BY <1>14, ZenonT(30) DEF RenameStat, Goto
  <2>2. [at |-> "rename", handle |-> h, to |-> n] \in Tasks(nextHandle)
    BY <1>0 DEF Usable, MapTypes, Tasks, RenameTasks
  <2> QED
    BY <1>0, <1>1, <1>14, <2>1, <2>2, Zenon DEF RenameStat, mapVars
<1>15. ASSUME NEW c \in Conns, RenameFile(c) PROVE Result
  <2>1. [op[c] EXCEPT !.at = "setPath"] \in RenameTasks(nextHandle)
    BY <1>0, <1>15, TaskShape, RenameUpdate DEF RenameFile
  <2> DEFINE r == [op[c] EXCEPT !.at = "setPath"]
  <2>2. r \in Tasks(nextHandle)
    BY <2>1 DEF Tasks
  <2>3. UNCHANGED nextHandle /\ (op' = [op EXCEPT ![c] = Idle] \/ op' = [op EXCEPT ![c] = r])
    BY <1>15 DEF RenameFile, Goto, Return, mapVars
  <2> HIDE DEF r
  <2> QED
    BY <1>0, <1>1, <1>3, <2>2, <2>3
<1>16. ASSUME NEW p \in Procs, NEW batches \in SUBSET Batches, NEW todo \in SUBSET (1 .. nextHandle),
              NEW end \in Ends, Teardown(p, batches, todo, end), UNCHANGED nextHandle
       PROVE  Result
  <2>1. [at |-> "teardown", batches |-> batches, todo |-> todo, end |-> end] \in Tasks(nextHandle)
    BY DEF Tasks, TeardownTasks
  <2> QED
    BY <1>1, <1>16, <2>1, Zenon DEF Teardown, Goto
<1>17. ASSUME NEW c \in Conns, Logoff(c) PROVE Result
  <2>1. PICK s \in SessionIDs :
          Teardown(c, {Batch(s, {t}, trees[s][t]) : t \in {u \in TreeIDs : trees[s][u] # None}},
                   {}, [session |-> s, tree |-> None])
    BY <1>17, Zenon DEF Logoff
  <2>2. {Batch(s, {t}, trees[s][t]) : t \in {u \in TreeIDs : trees[s][u] # None}} \in SUBSET Batches
    BY <1>0 DEF SessionTypes, Batches, Batch
  <2>3. [session |-> s, tree |-> None] \in Ends
    BY DEF Ends
  <2> QED
    BY <1>0, <1>16, <1>17, <2>1, <2>2, <2>3, Zenon DEF Logoff, mapVars
<1>18. ASSUME NEW c \in Conns, TreeDisconnect(c) PROVE Result
  <2>1. PICK s \in SessionIDs, t \in TreeIDs :
          /\ ValidTree(s, t)
          /\ Teardown(c, {Batch(s, {t}, trees[s][t])}, {}, [session |-> s, tree |-> t])
    BY <1>18, Zenon DEF TreeDisconnect
  <2>2. {Batch(s, {t}, trees[s][t])} \in SUBSET Batches
    BY <1>0, <2>1 DEF SessionTypes, Batches, Batch, ValidTree
  <2>3. [session |-> s, tree |-> t] \in Ends
    BY DEF Ends
  <2> QED
    BY <1>0, <1>16, <1>18, <2>1, <2>2, <2>3 DEF TreeDisconnect, mapVars
<1>19. ASSUME CleanupExpired PROVE Result
  <2>1. PICK expired \in SUBSET SessionIDs :
          Teardown(Cleaner, ExpiryBatches(expired), {}, None)
    BY <1>19 DEF CleanupExpired
  <2>2. ExpiryBatches(expired) \in SUBSET Batches
    BY <1>0 DEF SessionTypes, Batches, Batch, ExpiryBatches
  <2>3. None \in Ends
    BY DEF Ends
  <2> QED
    BY <1>0, <1>16, <1>19, <2>1, <2>2, <2>3 DEF CleanupExpired, mapVars
<1>20. ASSUME NEW p \in Procs, TeardownList(p) \/ TeardownRelease(p) PROVE Result
  <2>1. op[p] \in TeardownTasks(nextHandle)
    BY <1>0, <1>20, TaskShape DEF TeardownList, TeardownRelease
  <2>2. op[p].batches \in SUBSET Batches /\ op[p].todo \in SUBSET (1 .. nextHandle) /\ op[p].end \in Ends
    BY <2>1 DEF TeardownTasks
  <2>3. /\ UNCHANGED nextHandle
        /\ \E B \in SUBSET Batches, T \in SUBSET (1 .. nextHandle) : Teardown(p, B, T, op[p].end)
    <3>1. CASE TeardownList(p)
      BY <1>0, <2>2, <3>1 DEF TeardownList, MapTypes, mapVars
    <3>2. CASE TeardownRelease(p)
      BY <1>0, <2>2, <3>2 DEF TeardownRelease
    <3> QED
      BY <1>20, <3>1, <3>2
  <2> QED
    BY <1>16, <2>2, <2>3
<1>21. ASSUME NEW p \in Procs, TeardownEnd(p) PROVE Result
  BY <1>0, <1>1, <1>3, <1>21, Zenon DEF TeardownEnd, Goto, Return, mapVars
<1>22. ASSUME RemoveShare \/ UNCHANGED vars PROVE Result
  BY <1>2, <1>22 DEF RemoveShare, vars, mapVars
<1> QED
  BY <1>4, <1>5, <1>6, <1>7, <1>8, <1>9, <1>10, <1>11, <1>12, <1>13, <1>14, <1>15, <1>17, <1>18, <1>19,
     <1>20, <1>21, <1>22 DEF Next, Result

(* Allocate marks the CREATEs it overtakes and moves no one but its own.     *)
LEMMA RacedLabels ==
  ASSUME TypeInv, NEW c \in Conns, CreateAllocate(c)
  PROVE  \A d \in Procs \ {c} :
           /\ op'[d].at = op[d].at
           /\ op[d].at \notin {"stat", "open", "alloc"} => op'[d] = op[d]
           /\ op[d].at \in {"stat", "open", "alloc"} =>
                /\ op'[d].req = op[d].req
                /\ op'[d].raced <=> (op[d].raced \/ (/\ op[d].req.share = op[c].req.share
                                                  /\ op[d].req.name = op[c].req.name))
<1> SUFFICES ASSUME NEW d \in Procs, d # c
             PROVE  /\ op'[d].at = op[d].at
                    /\ op[d].at \notin {"stat", "open", "alloc"} => op'[d] = op[d]
                    /\ op[d].at \in {"stat", "open", "alloc"} =>
                         /\ op'[d].req = op[d].req
                         /\ op'[d].raced <=> (op[d].raced \/ (/\ op[d].req.share = op[c].req.share
                                                           /\ op[d].req.name = op[c].req.name))
  OBVIOUS
<1> DEFINE Same == /\ op[d].at \in {"stat", "open", "alloc"}
                   /\ op[d].req.share = op[c].req.share /\ op[d].req.name = op[c].req.name
           r == [op[d] EXCEPT !.raced = TRUE]
<1>1. op'[d] = IF Same THEN r ELSE op[d]
  BY DEF CreateAllocate
<1>2. op[d].at \in {"stat", "open", "alloc"} => op[d] \in CreateTasks \cup OpenTasks
  BY TaskShape, TypeParts DEF MapTypes
<1>3. op[d].at \in {"stat", "open", "alloc"} => op[d].raced \in BOOLEAN
  BY <1>2 DEF CreateTasks, OpenTasks
<1>4. op[d].at \in {"stat", "open", "alloc"} => r.at = op[d].at /\ r.raced = TRUE /\ r.req = op[d].req
  BY <1>2, RacedUpdate
<1> HIDE DEF r
<1> QED
  BY <1>1, <1>3, <1>4

-----------------------------------------------------------------------------
(* Open files *)

LEMMA GivenOutFinite ==
  ASSUME NEW last \in Nat, NEW S \in SUBSET (1 .. last)
  PROVE  IsFiniteSet(S)
<1>1. IsFiniteSet(1 .. last)
  BY FS_Interval
<1> QED
  BY <1>1, FS_Subset, Zenon

LEMMA HandlesFinite ==
  ASSUME TypeInv
  PROVE  /\ IsFiniteSet(handles) /\ Cardinality(handles) \in Nat /\ nextHandle + 1 \notin handles
         /\ At("alloc") \subseteq Procs /\ IsFiniteSet(At("alloc")) /\ Cardinality(At("alloc")) \in Nat
<1>1. nextHandle \in Nat /\ handles \subseteq 1 .. nextHandle
  BY TypeParts DEF MapTypes
<1>2. IsFiniteSet(handles)
  BY <1>1, GivenOutFinite
<1>3. IsFiniteSet(At("alloc"))
  BY ProcsFinite, FS_Subset DEF At
<1> QED
  BY <1>1, <1>2, <1>3, FS_CardinalityType DEF At

(* Only CREATE moves a goroutine to or from the step that owns an open file. *)
LEMMA AllocStep ==
  ASSUME TypeInv, [Next]_vars
  PROVE  \/ At("alloc")' = At("alloc") /\ UNCHANGED <<handles, openCount>>
         \/ At("alloc")' = At("alloc") /\ \E h \in 1 .. nextHandle : Release(h)
         \/ \E c \in Procs \ At("alloc") : /\ At("alloc")' = At("alloc") \cup {c}
                                           /\ openCount' = openCount + 1 /\ UNCHANGED handles
         \/ \E c \in At("alloc") : /\ At("alloc")' = At("alloc") \ {c}
                                   /\ openCount' = openCount - 1 /\ UNCHANGED handles
         \/ \E c \in At("alloc") : /\ At("alloc")' = At("alloc") \ {c}
                                   /\ UNCHANGED openCount /\ handles' = handles \cup {nextHandle + 1}
<1>0. /\ op \in [Procs -> Tasks(nextHandle)] /\ nextHandle \in Nat
      /\ Conns \subseteq Procs /\ Cleaner \in Procs
  BY TypeParts DEF MapTypes, Procs
<1> DEFINE Still == At("alloc")' = At("alloc")
<1>1. ASSUME NEW p \in Procs, NEW o, op' = [op EXCEPT ![p] = o], op[p].at # "alloc", o.at # "alloc"
      PROVE  Still
  BY <1>0, <1>1 DEF At
<1>2. UNCHANGED op => Still
  BY DEF At
<1> HIDE DEF Still
<1>3. ASSUME NEW c \in Conns, SessionSetup(c) \/ SetDisposition(c)
      PROVE  Still /\ UNCHANGED <<handles, openCount>>
  BY <1>2, <1>3 DEF SessionSetup, SetDisposition, mapVars
<1>4. ASSUME NEW c \in Conns, TreeConnect(c) \/ AddTreeConnection(c) \/ CreateValidate(c)
               \/ CreateCheckShare(c) \/ CreateStat(c) \/ CreateFlag(c)
      PROVE  Still /\ UNCHANGED <<handles, openCount>>
  <2>1. CASE CreateStat(c)
    <3>1. PICK e \in BOOLEAN : \/ op' = [op EXCEPT ![c] = StatedTask(op[c], e)]
                               \/ op' = [op EXCEPT ![c] = Idle]
      BY <2>1, CreateStatStep
    <3>2. op[c].at # "alloc" /\ StatedTask(op[c], e).at # "alloc" /\ Idle.at # "alloc"
      BY <2>1 DEF CreateStat, StatedTask, Idle
    <3>3. Still
      BY <1>0, <1>1, <3>1, <3>2
    <3> QED
      BY <2>1, <3>3 DEF CreateStat, mapVars
  <2>2. CASE ~CreateStat(c)
    BY <1>0, <1>1, <1>4, <2>2 DEF TreeConnect, AddTreeConnection, CreateValidate, CreateCheckShare,
           CreateFlag, Goto, Return, Idle, mapVars
  <2> QED
    BY <2>1, <2>2
<1>5. ASSUME NEW c \in Conns, CloseLookup(c) \/ CloseRemove(c) \/ RenameStat(c) \/ RenameSetPath(c)
      PROVE  Still /\ UNCHANGED <<handles, openCount>>
  BY <1>0, <1>1, <1>5 DEF CloseLookup, CloseRemove, RenameStat, RenameSetPath, Goto, Return, Idle, mapVars
<1>6. ASSUME NEW c \in Conns, RenameFile(c) PROVE Still /\ UNCHANGED <<handles, openCount>>
  <2>1. [op[c] EXCEPT !.at = "setPath"].at = "setPath"
    BY <1>0, <1>6, TaskShape, RenameUpdate DEF RenameFile
  <2> DEFINE r == [op[c] EXCEPT !.at = "setPath"]
  <2>2. /\ op[c].at = "rename" /\ UNCHANGED <<handles, openCount>>
        /\ op' = [op EXCEPT ![c] = Idle] \/ op' = [op EXCEPT ![c] = r]
    BY <1>6 DEF RenameFile, Goto, Return, mapVars
  <2>3. r.at = "setPath" /\ Idle.at = "idle"
    BY <2>1 DEF Idle
  <2> HIDE DEF r
  <2> QED
    BY <1>0, <1>1, <2>2, <2>3
<1>7. ASSUME NEW c \in Conns, CloseRelease(c) PROVE Still /\ \E h \in 1 .. nextHandle : Release(h)
  <2>1. op[c].handle \in 1 .. nextHandle /\ [op[c] EXCEPT !.at = "remove"].at = "remove"
    BY <1>0, <1>7, TaskShape, CloseUpdate DEF CloseRelease, CloseTasks
  <2> DEFINE r == [op[c] EXCEPT !.at = "remove"]
  <2>2. /\ op[c].at = "close" /\ Release(op[c].handle)
        /\ op' = [op EXCEPT ![c] = Idle] \/ op' = [op EXCEPT ![c] = r]
    BY <1>7 DEF CloseRelease, Goto, Return
  <2>3. r.at = "remove" /\ Idle.at = "idle"
    BY <2>1 DEF Idle
  <2> HIDE DEF r
  <2> QED
    BY <1>0, <1>1, <2>1, <2>2, <2>3
<1>8. ASSUME NEW p \in Procs, TeardownRelease(p) PROVE Still /\ \E h \in 1 .. nextHandle : Release(h)
  <2>1. op[p].todo \subseteq 1 .. nextHandle
    BY <1>0, <1>8, TaskShape DEF TeardownRelease, TeardownTasks
  <2> QED
    BY <1>1, <1>8, <2>1, Zenon DEF TeardownRelease, Teardown, Goto
<1>15. ASSUME NEW p \in Procs, op[p].at # "alloc", NEW B, NEW T, NEW e, Teardown(p, B, T, e)
       PROVE  Still
  <2> DEFINE o == [at |-> "teardown", batches |-> B, todo |-> T, end |-> e]
  <2>1. o.at # "alloc" /\ op' = [op EXCEPT ![p] = o]
    BY <1>15 DEF Teardown, Goto
  <2> HIDE DEF o
  <2> QED
    BY <1>1, <1>15, <2>1, Zenon
<1>16. Idle.at = "idle"
  BY DEF Idle
<1>17. ASSUME NEW c \in Conns, Logoff(c) \/ TreeDisconnect(c)
       PROVE  Still /\ UNCHANGED <<handles, openCount>>
  <2>1. op[c].at # "alloc" /\ UNCHANGED <<handles, openCount>>
    BY <1>16, <1>17 DEF Logoff, TreeDisconnect, mapVars
  <2> QED
    BY <1>0, <1>15, <1>17, <2>1, Zenon DEF Logoff, TreeDisconnect
<1>9. ASSUME NEW p \in Procs, TeardownList(p) \/ TeardownEnd(p)
      PROVE  Still /\ UNCHANGED <<handles, openCount>>
  BY <1>1, <1>9 DEF TeardownList, TeardownEnd, Teardown, Goto, Return, Idle, mapVars
<1>10. ASSUME CleanupExpired PROVE Still /\ UNCHANGED <<handles, openCount>>
  BY <1>0, <1>10, <1>15, <1>16 DEF CleanupExpired, mapVars
<1>11. ASSUME RemoveShare \/ UNCHANGED vars PROVE Still /\ UNCHANGED <<handles, openCount>>
  BY <1>2, <1>11 DEF RemoveShare, vars, mapVars
<1>12. ASSUME NEW c \in Conns, CreateOpen(c)
       PROVE  \/ Still /\ UNCHANGED <<handles, openCount>>
              \/ \E d \in Procs \ At("alloc") : /\ At("alloc")' = At("alloc") \cup {d}
                                                /\ openCount' = openCount + 1 /\ UNCHANGED handles
  <2>1. op[c].at = "open" /\ UNCHANGED handles
    BY <1>12 DEF CreateOpen, mapVars
  <2>2. CASE op' = [op EXCEPT ![c] = Idle] /\ UNCHANGED openCount
    BY <1>0, <1>1, <1>16, <2>1, <2>2, Zenon
  <2>3. CASE /\ openCount' = openCount + 1
             /\ op' = [op EXCEPT ![c] = [at |-> "alloc", raced |-> op[c].raced, req |-> op[c].req]]
    BY <1>0, <2>1, <2>3 DEF At
  <2> QED
    BY <1>12, <2>2, <2>3 DEF CreateOpen, Goto, Return
<1>13. ASSUME NEW c \in Conns, CreateStatFails(c)
       PROVE  \E d \in At("alloc") : /\ At("alloc")' = At("alloc") \ {d}
                                     /\ openCount' = openCount - 1 /\ UNCHANGED handles
  BY <1>0, <1>13 DEF CreateStatFails, At, Goto, Return, Idle, mapVars
<1>14. ASSUME NEW c \in Conns, CreateAllocate(c)
       PROVE  \E d \in At("alloc") : /\ At("alloc")' = At("alloc") \ {d}
                                     /\ UNCHANGED openCount /\ handles' = handles \cup {nextHandle + 1}
  <2>1. op[c].at = "alloc" /\ UNCHANGED openCount /\ handles' = handles \cup {nextHandle + 1}
    BY <1>14 DEF CreateAllocate
  <2>2. op'[c].at # "alloc"
    BY <1>0, <1>14 DEF CreateAllocate, Idle
  <2>3. \A d \in Procs \ {c} : op'[d].at = op[d].at
    BY <1>14, RacedLabels
  <2> QED
    BY <1>0, <2>1, <2>2, <2>3 DEF At
<1> QED
  BY <1>3, <1>4, <1>5, <1>6, <1>7, <1>8, <1>9, <1>10, <1>11, <1>12, <1>13, <1>14,
     <1>17 DEF Next, Still

LEMMA AccountStep ==
  ASSUME TypeInv, FilesAccounted, [Next]_vars
  PROVE  FilesAccounted'
<1>0. /\ IsFiniteSet(handles) /\ Cardinality(handles) \in Nat /\ nextHandle + 1 \notin handles
      /\ At("alloc") \subseteq Procs /\ IsFiniteSet(At("alloc")) /\ Cardinality(At("alloc")) \in Nat
  BY HandlesFinite
<1>1. CASE At("alloc")' = At("alloc") /\ UNCHANGED <<handles, openCount>>
  BY <1>1 DEF FilesAccounted
<1>2. ASSUME At("alloc")' = At("alloc"), NEW h, Release(h) PROVE FilesAccounted'
  <2>1. CASE h \notin handles /\ UNCHANGED <<handles, openCount>>
    BY <1>2, <2>1 DEF FilesAccounted
  <2>2. CASE h \in handles /\ handles' = handles \ {h} /\ openCount' = openCount - 1
    <3>1. Cardinality(handles \ {h}) = Cardinality(handles) - 1
      BY <1>0, <2>2, FS_RemoveElement, Zenon
    <3> QED
      BY <1>0, <1>2, <2>2, <3>1 DEF FilesAccounted
  <2> QED
    BY <1>2, <2>1, <2>2 DEF Release
<1>3. ASSUME NEW c \in Procs \ At("alloc"), At("alloc")' = At("alloc") \cup {c},
             openCount' = openCount + 1, UNCHANGED handles
      PROVE  FilesAccounted'
  <2>1. Cardinality(At("alloc") \cup {c}) = Cardinality(At("alloc")) + 1
    BY <1>0, <1>3, FS_AddElement, Zenon
  <2> QED
    BY <1>0, <1>3, <2>1 DEF FilesAccounted
<1>4. ASSUME NEW c \in At("alloc"), At("alloc")' = At("alloc") \ {c},
             \/ openCount' = openCount - 1 /\ UNCHANGED handles
             \/ UNCHANGED openCount /\ handles' = handles \cup {nextHandle + 1}
      PROVE  FilesAccounted'
  <2>1. Cardinality(At("alloc") \ {c}) = Cardinality(At("alloc")) - 1
    BY <1>0, <1>4, FS_RemoveElement, Zenon
  <2>2. Cardinality(handles \cup {nextHandle + 1}) = Cardinality(handles) + 1
    BY <1>0, FS_AddElement, Zenon
  <2>3. Cardinality(At("alloc"))' = Cardinality(At("alloc")) - 1
    BY <1>4, <2>1
  <2>4. CASE openCount' = openCount - 1 /\ UNCHANGED handles
    BY <1>0, <2>3, <2>4 DEF FilesAccounted
  <2>5. CASE UNCHANGED openCount /\ handles' = handles \cup {nextHandle + 1}
    BY <1>0, <2>2, <2>3, <2>5 DEF FilesAccounted
  <2> QED
    BY <1>4, <2>4, <2>5
<1> QED
  BY <1>1, <1>2, <1>3, <1>4, AllocStep

LEMMA TypeStep ==
  ASSUME TypeInv, BoundInv, FilesAccounted, [Next]_vars
  PROVE  TypeInv'
<1>1. SessionTypes' /\ MapTypes' /\ OtherTypes' /\ op' \in [Procs -> Tasks(nextHandle')]
  BY SessionTypesStep, MapTypesStep, OtherTypesStep, OpTypesStep
<1>2. IsFiniteSet(handles') /\ IsFiniteSet(At("alloc")')
  <2>1. nextHandle' \in Nat /\ handles' \subseteq 1 .. nextHandle' /\ At("alloc")' \subseteq Procs
    BY <1>1 DEF MapTypes, At
  <2> QED
    BY <2>1, ProcsFinite, GivenOutFinite, FS_Subset, Zenon
<1>3. openCount' \in Nat
  BY <1>2, AccountStep, FS_CardinalityType DEF FilesAccounted
<1> QED
  BY <1>1, <1>3 DEF TypeInv, TypeOK, TaskInv, SessionTypes, MapTypes, OtherTypes

-----------------------------------------------------------------------------
(* The index, and sharing *)

IndexInv ==
  /\ IndexConsistent
  /\ \A h \in 1 .. nextHandle : h \notin renamed => openFile[h].path = openFile[h].opened

(* A CREATE that has passed the share check and was not overtaken since is   *)
(* still compatible with every handle for its path.                          *)
CheckedInv ==
  \A c \in Conns :
    op[c].at \in {"stat", "open", "alloc"} /\ ~op[c].raced =>
      \A g \in handles :
        openFile[g].share = op[c].req.share /\ openFile[g].opened = op[c].req.name =>
          checkShareCompatibility(op[c].req.mode, openFile[g].mode)

(* The request of a CREATE under way.                                        *)
Request(c) == IF op[c].at = "check" THEN op[c] ELSE op[c].req

(* The tree that an open names was connected, to the share it is in.         *)
Owned(of) ==
  /\ of.tree <= nextTree[of.session]
  /\ trees[of.session][of.tree] \in {None, of.share}

(* A tree was connected once; it is missing only because it is being ended.  *)
TreeInv ==
  /\ \A s \in SessionIDs, t \in TreeIDs :
       /\ t > nextTree[s] => trees[s][t] = None
       /\ t <= nextTree[s] /\ trees[s][t] = None => <<s, t>> \in ending
       /\ session[s] = "gone" => <<s, t>> \in ending
  /\ \A c \in Creating : Owned(Request(c))
  /\ \A h \in handles : Owned(openFile[h])

(* What a teardown is for is marked as ending; the expiry loop ends nothing  *)
(* itself.                                                                   *)
EndsInv ==
  /\ op[Cleaner].at = "idle" \/ (op[Cleaner].at = "teardown" /\ op[Cleaner].end = None)
  /\ \A p \in At("teardown") :
       LET end == op[p].end IN
       end # None => \A t \in TreeIDs : end.tree \in {None, t} => <<end.session, t>> \in ending

(* A teardown that has still to come to a handle.                            *)
Covers(b, of) == b.session = of.session /\ of.tree \in b.trees /\ b.share = of.share
Covered(p, h) ==
  /\ op[p].at = "teardown"
  /\ h \in op[p].todo \/ \E b \in op[p].batches : Covers(b, openFile[h])

TeardownInv ==
  \A h \in handles :
    LET of == openFile[h] IN
    ~of.late =>
      /\ \A p \in At("teardown") :
           LET end == op[p].end IN
           end # None /\ end.session = of.session /\ end.tree \in {None, of.tree} => Covered(p, h)
      /\ trees[of.session][of.tree] # None
      /\ session[of.session] = "gone" /\ of.share \in registered => Covered(Cleaner, h)

(* The inductive invariant.                                                  *)
Inv ==
  /\ TypeInv /\ BoundInv /\ FilesAccounted
  /\ IndexInv /\ CheckedInv /\ SharingChecked
  /\ TreeInv /\ EndsInv /\ TeardownInv

(* A handle keeps what it was allocated with, and its path until a rename.   *)
SameFile(h) ==
  /\ openFile'[h].session = openFile[h].session /\ openFile'[h].tree = openFile[h].tree
  /\ openFile'[h].share = openFile[h].share /\ openFile'[h].opened = openFile[h].opened
  /\ openFile'[h].mode = openFile[h].mode /\ openFile'[h].raced = openFile[h].raced
  /\ openFile'[h].late = openFile[h].late
  /\ h \notin renamed' => openFile'[h].path = openFile[h].path

(* What a step may do to the handle map.                                     *)
LEMMA MapStep ==
  ASSUME TypeInv, BoundInv, [Next]_vars
  PROVE  /\ \A h \in 1 .. nextHandle : SameFile(h)
         /\ renamed \subseteq renamed'
         /\ \/ UNCHANGED <<handles, byPath, nextHandle>>
            \/ /\ \E h \in 1 .. nextHandle : Release(h)
               /\ UNCHANGED <<openFile, nextHandle, renamed>>
            \/ \E c \in Conns : CreateAllocate(c)
<1>0. /\ MapTypes /\ op \in [Procs -> Tasks(nextHandle)] /\ nextHandle \in Nat /\ Conns \subseteq Procs
      /\ DOMAIN openFile = HandleIDs
  BY TypeParts DEF MapTypes, Procs
<1> DEFINE Result ==
      /\ \A h \in 1 .. nextHandle : SameFile(h)
      /\ renamed \subseteq renamed'
      /\ \/ UNCHANGED <<handles, byPath, nextHandle>>
         \/ /\ \E h \in 1 .. nextHandle : Release(h)
            /\ UNCHANGED <<openFile, nextHandle, renamed>>
         \/ \E c \in Conns : CreateAllocate(c)
<1>1. ASSUME UNCHANGED <<mapVars, renamed>> PROVE Result
  BY <1>1 DEF SameFile, mapVars
<1>2. ASSUME NEW c \in Conns, CreateAllocate(c) PROVE Result
  <2>1. op[c].at = "alloc" /\ UNCHANGED renamed
        /\ openFile' = [openFile EXCEPT ![nextHandle + 1] = openFile'[nextHandle + 1]]
    BY <1>0, <1>2, Zenon DEF CreateAllocate
  <2>2. \A h \in 1 .. nextHandle : openFile'[h] = openFile[h]
    BY <1>0, <2>1, GivenOut
  <2> QED
    BY <1>2, <2>1, <2>2 DEF SameFile
<1>3. ASSUME NEW h \in 1 .. nextHandle, NEW u, openFile' = [openFile EXCEPT ![h] = u],
             \/ (\E del \in BOOLEAN : u = [openFile[h] EXCEPT !.deleteOnClose = del]) /\ UNCHANGED renamed
             \/ (\E n \in Names : u = [openFile[h] EXCEPT !.path = n]) /\ renamed' = renamed \cup {h},
             UNCHANGED <<handles, byPath, nextHandle>>
      PROVE  Result
  <2>1. h \in HandleIDs /\ openFile[h] \in OpenFiles
    BY GivenOut
  <2>2. \A g \in HandleIDs : openFile'[g] = IF g = h THEN u ELSE openFile[g]
    BY <1>0, <1>3, <2>1
  <2>3. /\ u.session = openFile[h].session /\ u.tree = openFile[h].tree
        /\ u.share = openFile[h].share /\ u.opened = openFile[h].opened
        /\ u.mode = openFile[h].mode /\ u.raced = openFile[h].raced /\ u.late = openFile[h].late
        /\ h \notin renamed' => u.path = openFile[h].path
    BY <1>3, <2>1, FlagUpdate, PathUpdate
  <2>4. \A g \in 1 .. nextHandle : SameFile(g)
    <3> SUFFICES ASSUME NEW g \in 1 .. nextHandle PROVE SameFile(g)
      OBVIOUS
    <3>1. g \in HandleIDs
      BY GivenOut
    <3> QED
      BY <2>2, <2>3, <3>1 DEF SameFile
  <2> QED
    BY <1>3, <2>4
<1>7. ASSUME NEW h \in 1 .. nextHandle, Release(h), UNCHANGED <<openFile, nextHandle, renamed>>
      PROVE  Result
  BY <1>7 DEF SameFile
<1> HIDE DEF Result
<1>4. ASSUME NEW c \in Conns, CreateFlag(c) PROVE Result
  <2>1. op[c].handle \in 1 .. nextHandle
    BY <1>0, <1>4, TaskShape DEF CreateFlag, FlagTasks
  <2>2. /\ openFile' = [openFile EXCEPT ![op[c].handle] = [openFile[op[c].handle] EXCEPT !.deleteOnClose = TRUE]]
        /\ UNCHANGED <<handles, byPath, nextHandle, renamed>>
    BY <1>4 DEF CreateFlag
  <2> QED
    BY <1>3, <2>1, <2>2, Zenon
<1>5. ASSUME NEW c \in Conns, SetDisposition(c) PROVE Result
  <2>1. PICK h \in Usable, del \in BOOLEAN : openFile' = [openFile EXCEPT ![h].deleteOnClose = del]
    BY <1>5, Zenon DEF SetDisposition
  <2>2. h \in 1 .. nextHandle /\ UNCHANGED <<handles, byPath, nextHandle, renamed>>
    BY <1>0, <1>5 DEF SetDisposition, Usable, MapTypes
  <2>4. openFile' = [openFile EXCEPT ![h] = [openFile[h] EXCEPT !.deleteOnClose = del]]
    BY <2>1
  <2> QED
    BY <1>3, <2>2, <2>4, Zenon
<1>6. ASSUME NEW c \in Conns, RenameSetPath(c) PROVE Result
  <2>1. op[c].handle \in 1 .. nextHandle /\ op[c].to \in Names
    BY <1>0, <1>6, TaskShape DEF RenameSetPath, RenameTasks
  <2>2. /\ openFile' = [openFile EXCEPT ![op[c].handle] = [openFile[op[c].handle] EXCEPT !.path = op[c].to]]
        /\ UNCHANGED <<handles, byPath, nextHandle>> /\ renamed' = renamed \cup {op[c].handle}
    BY <1>6 DEF RenameSetPath
  <2> QED
    BY <1>3, <2>1, <2>2, ZenonT(30)
<1>8. ASSUME NEW c \in Conns, CloseRelease(c) PROVE Result
  <2>1. op[c].handle \in 1 .. nextHandle
    BY <1>0, <1>8, TaskShape DEF CloseRelease, CloseTasks
  <2> QED
    BY <1>7, <1>8, <2>1 DEF CloseRelease
<1>9. ASSUME NEW p \in Procs, TeardownRelease(p) PROVE Result
  <2>1. op[p].todo \subseteq 1 .. nextHandle
    BY <1>0, <1>9, TaskShape DEF TeardownRelease, TeardownTasks
  <2> QED
    BY <1>7, <1>9, <2>1 DEF TeardownRelease
<1>10. ASSUME NEW c \in Conns, SessionSetup(c) \/ TreeConnect(c) \/ AddTreeConnection(c) \/ CreateValidate(c)
                \/ CreateCheckShare(c) \/ CreateStat(c) \/ CreateOpen(c) \/ CreateStatFails(c)
       PROVE  Result
  BY <1>1, <1>10 DEF SessionSetup, TreeConnect, AddTreeConnection, CreateValidate, CreateCheckShare,
         CreateStat, CreateOpen, CreateStatFails
<1>11. ASSUME NEW c \in Conns, CloseLookup(c) \/ CloseRemove(c) \/ RenameStat(c) \/ RenameFile(c)
                \/ Logoff(c) \/ TreeDisconnect(c)
       PROVE  Result
  BY <1>1, <1>11 DEF CloseLookup, CloseRemove, RenameStat, RenameFile, Logoff, TreeDisconnect
<1>12. ASSUME NEW p \in Procs, TeardownList(p) \/ TeardownEnd(p) PROVE Result
  BY <1>1, <1>12 DEF TeardownList, TeardownEnd
<1>13. ASSUME CleanupExpired \/ RemoveShare \/ UNCHANGED vars PROVE Result
  BY <1>1, <1>13 DEF CleanupExpired, RemoveShare, vars
<1> QED
  BY <1>2, <1>4, <1>5, <1>6, <1>8, <1>9, <1>10, <1>11, <1>12, <1>13 DEF Next, Result

(* The handle that Allocate adds.                                            *)
LEMMA Allocated ==
  ASSUME TypeInv, BoundInv, NEW c \in Conns, CreateAllocate(c)
  PROVE  LET h == nextHandle + 1
             req == op[c].req
         IN /\ h \in HandleIDs /\ h \notin handles /\ h \notin renamed /\ h \notin 1 .. nextHandle
            /\ req \in Requests /\ op[c].raced \in BOOLEAN
            /\ nextHandle' = h /\ handles' = handles \cup {h} /\ UNCHANGED renamed
            /\ openFile' = [openFile EXCEPT ![h] = openFile'[h]]
            /\ openFile'[h].session = req.session /\ openFile'[h].tree = req.tree
            /\ openFile'[h].share = req.share /\ openFile'[h].path = req.name
            /\ openFile'[h].opened = req.name /\ openFile'[h].mode = req.mode
            /\ openFile'[h].raced = op[c].raced
            /\ openFile'[h].late = (<<req.session, req.tree>> \in ending)
            /\ \A sh \in Shares, n \in Names :
                 byPath'[sh][n] = IF sh = req.share /\ n = req.name THEN byPath[sh][n] \cup {h}
                                  ELSE byPath[sh][n]
<1>0. /\ MapTypes /\ op \in [Procs -> Tasks(nextHandle)] /\ nextHandle \in Nat /\ Conns \subseteq Procs
  BY TypeParts DEF MapTypes, Procs
<1> DEFINE h == nextHandle + 1
           req == op[c].req
           of == [session |-> req.session, tree |-> req.tree, share |-> req.share,
                  path |-> req.name, opened |-> req.name, mode |-> req.mode,
                  deleteOnClose |-> FALSE, raced |-> op[c].raced,
                  late |-> <<req.session, req.tree>> \in ending]
<1>1. op[c] \in CreateTasks /\ c \in Creating
  BY <1>0, TaskShape DEF CreateAllocate, Creating
<1>2. h \in HandleIDs /\ h \notin handles /\ h \notin renamed /\ h \notin 1 .. nextHandle
  BY <1>0, <1>1, Room DEF MapTypes
<1>3. req \in Requests /\ op[c].raced \in BOOLEAN
  BY <1>1 DEF CreateTasks
<1>4. /\ nextHandle' = h /\ handles' = handles \cup {h} /\ UNCHANGED renamed
      /\ openFile' = [openFile EXCEPT ![h] = of]
      /\ byPath' = [byPath EXCEPT ![req.share][req.name] = @ \cup {h}]
  BY DEF CreateAllocate
<1>5. openFile'[h] = of
  BY <1>0, <1>2, <1>4 DEF MapTypes
<1>6. /\ of.session = req.session /\ of.tree = req.tree /\ of.share = req.share /\ of.path = req.name
      /\ of.opened = req.name /\ of.mode = req.mode /\ of.raced = op[c].raced
      /\ of.late = (<<req.session, req.tree>> \in ending)
  OBVIOUS
<1>7. req.share \in Shares /\ req.name \in Names
  BY <1>3 DEF Requests
<1> HIDE DEF h, req, of
<1>8. \A sh \in Shares, n \in Names :
        byPath'[sh][n] = IF sh = req.share /\ n = req.name THEN byPath[sh][n] \cup {h} ELSE byPath[sh][n]
  BY <1>0, <1>4, <1>7, Zenon DEF MapTypes
<1>9. openFile' = [openFile EXCEPT ![h] = openFile'[h]]
  BY <1>4, <1>5, Zenon
<1> QED
  BY <1>2, <1>3, <1>4, <1>5, <1>6, <1>8, <1>9 DEF h, req

LEMMA IndexStep ==
  ASSUME TypeInv, BoundInv, IndexInv, [Next]_vars
  PROVE  IndexInv'
<1>0. /\ MapTypes /\ nextHandle \in Nat /\ handles \subseteq 1 .. nextHandle
      /\ \A sh \in Shares, n \in Names : byPath[sh][n] \subseteq 1 .. nextHandle
      /\ \A h \in 1 .. nextHandle : openFile[h].share \in Shares /\ openFile[h].opened \in Names
                                    /\ openFile[h].path \in Names
  <2>1. \A h \in 1 .. nextHandle : openFile[h] \in OpenFiles
    BY GivenOut
  <2> QED
    BY <2>1, TypeParts DEF MapTypes, OpenFiles
<1>1. (\A h \in 1 .. nextHandle : SameFile(h)) /\ renamed \subseteq renamed'
  BY MapStep
<1>2. CASE UNCHANGED <<handles, byPath, nextHandle>>
  <2>1. \A h \in 1 .. nextHandle' : h \notin renamed' => openFile'[h].path = openFile'[h].opened
    BY <1>1, <1>2 DEF SameFile, IndexInv
  <2>2. ASSUME NEW sh \in Shares, NEW n \in Names
        PROVE  /\ \A g \in handles' : openFile'[g].share = sh /\ openFile'[g].opened = n => g \in byPath'[sh][n]
               /\ \A g \in byPath'[sh][n] : /\ openFile'[g].share = sh /\ openFile'[g].opened = n
                                            /\ g \in handles' \cup renamed'
    <3>1. /\ \A g \in handles : openFile[g].share = sh /\ openFile[g].opened = n => g \in byPath[sh][n]
          /\ \A g \in byPath[sh][n] : /\ openFile[g].share = sh /\ openFile[g].opened = n
                                      /\ g \in handles \cup renamed
      BY <2>2 DEF IndexInv, IndexConsistent
    <3> QED
      BY <1>0, <1>1, <1>2, <3>1 DEF SameFile
  <2>3. IndexConsistent'
    BY <2>2 DEF IndexConsistent
  <2> QED
    BY <2>1, <2>3 DEF IndexInv
<1>3. ASSUME NEW h \in 1 .. nextHandle, Release(h), UNCHANGED <<openFile, nextHandle, renamed>>
      PROVE  IndexInv'
  <2>1. CASE UNCHANGED <<handles, byPath>>
    BY <1>3, <2>1 DEF IndexInv, IndexConsistent
  <2>2. CASE /\ h \in handles /\ handles' = handles \ {h}
             /\ byPath' = [byPath EXCEPT ![openFile[h].share][openFile[h].path] = @ \ {h}]
    <3>1. \A sh \in Shares, n \in Names :
            byPath'[sh][n] = IF sh = openFile[h].share /\ n = openFile[h].path
                             THEN byPath[sh][n] \ {h} ELSE byPath[sh][n]
      BY <1>0, <2>2, Zenon DEF MapTypes
    <3>2. ASSUME NEW sh \in Shares, NEW n \in Names
          PROVE  {g \in handles' : openFile'[g].share = sh /\ openFile'[g].opened = n} \subseteq byPath'[sh][n]
      BY <1>3, <2>2, <3>1 DEF IndexInv, IndexConsistent
    <3>3. ASSUME NEW sh \in Shares, NEW n \in Names, NEW g \in byPath'[sh][n]
          PROVE  /\ openFile'[g].share = sh /\ openFile'[g].opened = n
                 /\ g \in handles' \cup renamed'
      <4>1. /\ g \in byPath[sh][n]
            /\ g = h => ~(sh = openFile[h].share /\ n = openFile[h].path)
        BY <3>1, <3>3, ZenonT(30)
      <4>2. openFile[g].share = sh /\ openFile[g].opened = n /\ g \in handles \cup renamed
        BY <4>1 DEF IndexInv, IndexConsistent
      <4>3. g = h => g \in renamed
        BY <1>0, <4>1, <4>2 DEF IndexInv
      <4> QED
        BY <1>3, <2>2, <4>2, <4>3
    <3>4. IndexConsistent'
      BY <3>2, <3>3 DEF IndexConsistent
    <3> QED
      BY <1>3, <3>4 DEF IndexInv
  <2> QED
    BY <1>3, <2>1, <2>2 DEF Release
<1>4. ASSUME NEW c \in Conns, CreateAllocate(c) PROVE IndexInv'
  <2> DEFINE h == nextHandle + 1
             req == op[c].req
  <2>1. /\ h \notin handles /\ h \notin renamed /\ h \notin 1 .. nextHandle
        /\ nextHandle' = h /\ handles' = handles \cup {h} /\ UNCHANGED renamed
        /\ openFile'[h].share = req.share /\ openFile'[h].path = req.name
        /\ openFile'[h].opened = req.name
        /\ \A sh \in Shares, n \in Names :
             byPath'[sh][n] = IF sh = req.share /\ n = req.name THEN byPath[sh][n] \cup {h}
                              ELSE byPath[sh][n]
    BY <1>4, Allocated, Zenon
  <2>2. \A g \in 1 .. nextHandle' : g \in 1 .. nextHandle \/ g = h
    BY <1>0, <2>1
  <2> HIDE DEF h, req
  <2>3. \A g \in 1 .. nextHandle' : g \notin renamed' => openFile'[g].path = openFile'[g].opened
    BY <1>1, <2>1, <2>2 DEF IndexInv, SameFile
  <2>4. ASSUME NEW sh \in Shares, NEW n \in Names
        PROVE  /\ \A g \in handles' : openFile'[g].share = sh /\ openFile'[g].opened = n => g \in byPath'[sh][n]
               /\ \A g \in byPath'[sh][n] : /\ openFile'[g].share = sh /\ openFile'[g].opened = n
                                            /\ g \in handles' \cup renamed'
    <3>1. /\ \A g \in handles : openFile[g].share = sh /\ openFile[g].opened = n => g \in byPath[sh][n]
          /\ \A g \in byPath[sh][n] : /\ openFile[g].share = sh /\ openFile[g].opened = n
                                      /\ g \in handles \cup renamed
      BY <2>4 DEF IndexInv, IndexConsistent
    <3>2. byPath'[sh][n] = IF sh = req.share /\ n = req.name THEN byPath[sh][n] \cup {h} ELSE byPath[sh][n]
      BY <2>1, <2>4
    <3> QED
      BY <1>0, <1>1, <2>1, <3>1, <3>2 DEF SameFile
  <2>5. IndexConsistent'
    BY <2>4 DEF IndexConsistent
  <2> QED
    BY <2>3, <2>5 DEF IndexInv
<1> QED
  BY <1>2, <1>3, <1>4, MapStep

(* Where a CREATE that has passed the share check has come from.             *)
LEMMA CreateOrigin ==
  ASSUME TypeInv, [Next]_vars, NEW d \in Conns
  PROVE  /\ op'[d].at \in {"stat", "open", "alloc"} =>
              \/ /\ op[d].at \in {"stat", "open", "alloc"} /\ op'[d].req = op[d].req
                 /\ ~op'[d].raced => ~op[d].raced
              \/ CreateCheckShare(d) /\ op[d].at = "check" /\ op'[d].req = op[d]
         /\ op'[d].at = "check" => op'[d] = op[d] \/ CreateValidate(d)
<1>0. /\ op \in [Procs -> Tasks(nextHandle)] /\ nextHandle \in Nat
      /\ Conns \subseteq Procs /\ Cleaner \in Procs /\ d # Cleaner /\ Idle.at = "idle"
  BY TypeParts, ServerAssumption DEF MapTypes, Procs, Idle
<1> DEFINE Result ==
      /\ op'[d].at \in {"stat", "open", "alloc"} =>
           \/ /\ op[d].at \in {"stat", "open", "alloc"} /\ op'[d].req = op[d].req
              /\ ~op'[d].raced => ~op[d].raced
           \/ CreateCheckShare(d) /\ op[d].at = "check" /\ op'[d].req = op[d]
      /\ op'[d].at = "check" => op'[d] = op[d] \/ CreateValidate(d)
<1>1. ASSUME NEW p \in Procs, NEW o, op' = [op EXCEPT ![p] = o],
             o.at \notin {"check", "stat", "open", "alloc"}
      PROVE  Result
  BY <1>0, <1>1
<1>2. UNCHANGED op => Result
  OBVIOUS
<1>3. ASSUME NEW c \in Conns, CreateValidate(c) PROVE Result
  <2>1. (\A p \in Procs \ {c} : op'[p] = op[p]) /\ op'[c].at = "check"
    BY <1>0, <1>3 DEF CreateValidate, Goto
  <2> QED
    BY <1>0, <1>3, <2>1
<1>4. ASSUME NEW c \in Conns, CreateCheckShare(c) PROVE Result
  <2> DEFINE o == [at |-> "stat", raced |-> FALSE, req |-> op[c]]
  <2>1. op' = [op EXCEPT ![c] = o] \/ op' = [op EXCEPT ![c] = Idle]
    BY <1>4 DEF CreateCheckShare, Goto, Return
  <2>2. op[c].at = "check" /\ o.at = "stat" /\ o.req = op[c]
    BY <1>4 DEF CreateCheckShare
  <2> HIDE DEF o
  <2> QED
    BY <1>0, <1>4, <2>1, <2>2
<1>5. ASSUME NEW c \in Conns, CreateStat(c) PROVE Result
  <2>0. PICK e \in BOOLEAN : \/ op' = [op EXCEPT ![c] = StatedTask(op[c], e)]
                             \/ op' = [op EXCEPT ![c] = Idle]
    BY <1>5, CreateStatStep
  <2> DEFINE o == StatedTask(op[c], e)
  <2>1. op' = [op EXCEPT ![c] = o] \/ op' = [op EXCEPT ![c] = Idle]
    BY <2>0
  <2>2. op[c].at = "stat" /\ o.at = "open" /\ o.req = op[c].req /\ o.raced = op[c].raced
    BY <1>5 DEF CreateStat, StatedTask
  <2> HIDE DEF o
  <2> QED
    BY <1>0, <2>1, <2>2
<1>6. ASSUME NEW c \in Conns, CreateOpen(c) PROVE Result
  <2> DEFINE o == [at |-> "alloc", raced |-> op[c].raced, req |-> op[c].req]
  <2>1. op' = [op EXCEPT ![c] = o] \/ op' = [op EXCEPT ![c] = Idle]
    BY <1>6 DEF CreateOpen, Goto, Return
  <2>2. op[c].at = "open" /\ o.at = "alloc" /\ o.req = op[c].req /\ o.raced = op[c].raced
    BY <1>6 DEF CreateOpen
  <2> HIDE DEF o
  <2> QED
    BY <1>0, <2>1, <2>2
<1>7. ASSUME NEW c \in Conns, CreateAllocate(c) PROVE Result
  <2>1. op'[c].at \in {"flag", "idle"}
    BY <1>0, <1>7 DEF CreateAllocate, Idle
  <2>2. d # c =>
           /\ op'[d].at = op[d].at
           /\ op[d].at \notin {"stat", "open", "alloc"} => op'[d] = op[d]
           /\ op[d].at \in {"stat", "open", "alloc"} =>
                op'[d].req = op[d].req /\ (op[d].raced => op'[d].raced)
    BY <1>0, <1>7, RacedLabels
  <2> QED
    BY <2>1, <2>2
<1> HIDE DEF Result
<1>8. ASSUME NEW c \in Conns, SessionSetup(c) \/ SetDisposition(c) PROVE Result
  BY <1>2, <1>8 DEF SessionSetup, SetDisposition
<1>9. ASSUME NEW c \in Conns, TreeConnect(c) \/ AddTreeConnection(c) \/ CreateStatFails(c) \/ CreateFlag(c)
      PROVE  Result
  BY <1>0, <1>1, <1>9 DEF TreeConnect, AddTreeConnection, CreateStatFails, CreateFlag, Goto, Return
<1>10. ASSUME NEW c \in Conns, CloseLookup(c) \/ CloseRemove(c) \/ RenameStat(c) \/ RenameSetPath(c)
      PROVE  Result
  BY <1>0, <1>1, <1>10 DEF CloseLookup, CloseRemove, RenameStat, RenameSetPath, Goto, Return
<1>11. ASSUME NEW c \in Conns, CloseRelease(c) \/ RenameFile(c) PROVE Result
  <2>1. /\ op[c].at = "close" => [op[c] EXCEPT !.at = "remove"].at = "remove"
        /\ op[c].at = "rename" => [op[c] EXCEPT !.at = "setPath"].at = "setPath"
    BY <1>0, TaskShape, CloseUpdate, RenameUpdate
  <2> DEFINE r == [op[c] EXCEPT !.at = "remove"]
             s == [op[c] EXCEPT !.at = "setPath"]
  <2>2. \/ op' = [op EXCEPT ![c] = Idle]
        \/ op[c].at = "close" /\ op' = [op EXCEPT ![c] = r]
        \/ op[c].at = "rename" /\ op' = [op EXCEPT ![c] = s]
    BY <1>11 DEF CloseRelease, RenameFile, Goto, Return
  <2>3. (op[c].at = "close" => r.at = "remove") /\ (op[c].at = "rename" => s.at = "setPath")
    BY <2>1
  <2> HIDE DEF r, s
  <2> QED
    BY <1>0, <1>1, <2>2, <2>3
<1>12. ASSUME NEW p \in Procs, NEW B, NEW T, NEW e, Teardown(p, B, T, e) PROVE Result
  <2> DEFINE o == [at |-> "teardown", batches |-> B, todo |-> T, end |-> e]
  <2>1. o.at = "teardown" /\ op' = [op EXCEPT ![p] = o]
    BY <1>12 DEF Teardown, Goto
  <2> HIDE DEF o
  <2> QED
    BY <1>1, <2>1, Zenon
<1>13. ASSUME NEW c \in Conns, Logoff(c) \/ TreeDisconnect(c) PROVE Result
  BY <1>0, <1>12, <1>13, Zenon DEF Logoff, TreeDisconnect
<1>14. ASSUME CleanupExpired PROVE Result
  BY <1>0, <1>12, <1>14 DEF CleanupExpired
<1>15. ASSUME NEW p \in Procs, TeardownList(p) \/ TeardownRelease(p) PROVE Result
  BY <1>12, <1>15, Zenon DEF TeardownList, TeardownRelease
<1>16. ASSUME NEW p \in Procs, TeardownEnd(p) PROVE Result
  BY <1>0, <1>1, <1>16, Zenon DEF TeardownEnd, Goto, Return
<1>17. ASSUME RemoveShare \/ UNCHANGED vars PROVE Result
  BY <1>2, <1>17 DEF RemoveShare, vars
<1> QED
  BY <1>3, <1>4, <1>5, <1>6, <1>7, <1>8, <1>9, <1>10, <1>11, <1>13, <1>14, <1>15, <1>16, <1>17
     DEF Next, Result

LEMMA CheckedStep ==
  ASSUME TypeInv, BoundInv, IndexInv, CheckedInv, [Next]_vars
  PROVE  CheckedInv'
<1>0. /\ MapTypes /\ op \in [Procs -> Tasks(nextHandle)] /\ nextHandle \in Nat /\ Conns \subseteq Procs
      /\ handles \subseteq 1 .. nextHandle
  BY TypeParts DEF MapTypes, Procs
<1>1. \A h \in 1 .. nextHandle : SameFile(h)
  BY MapStep
<1> SUFFICES ASSUME NEW d \in Conns, op'[d].at \in {"stat", "open", "alloc"}, ~op'[d].raced,
                    NEW g \in handles',
                    openFile'[g].share = op'[d].req.share, openFile'[g].opened = op'[d].req.name
             PROVE  checkShareCompatibility(op'[d].req.mode, openFile'[g].mode)
  BY DEF CheckedInv
<1>2. CASE g \in handles
  <2>1. SameFile(g)
    BY <1>0, <1>1, <1>2, Zenon
  <2>2. /\ openFile'[g].share = openFile[g].share /\ openFile'[g].opened = openFile[g].opened
        /\ openFile'[g].mode = openFile[g].mode
    BY <2>1 DEF SameFile
  <2>3. CASE op[d].at \in {"stat", "open", "alloc"} /\ op'[d].req = op[d].req /\ ~op[d].raced
    BY <1>2, <2>2, <2>3, Zenon DEF CheckedInv
  <2>4. CASE CreateCheckShare(d) /\ op[d].at = "check" /\ op'[d].req = op[d]
    <3>1. op[d].share \in Shares /\ op[d].name \in Names
      BY <1>0, <2>4, TaskShape DEF Requests
    <3>2. g \in byPath[op[d].share][op[d].name]
      BY <1>2, <2>2, <2>4, <3>1, ZenonT(30) DEF IndexInv, IndexConsistent
    <3>3. CheckShareAccess(op[d].share, op[d].name, op[d].mode)
      <4>1. CheckShareAccess(op[d].share, op[d].name, op[d].mode) \/ op' = [op EXCEPT ![d] = Idle]
        BY <2>4 DEF CreateCheckShare, Return, Goto
      <4> QED
        BY <1>0, <4>1 DEF Idle
    <3> QED
      BY <2>2, <2>4, <3>2, <3>3 DEF CheckShareAccess
  <2> QED
    BY <2>3, <2>4, CreateOrigin
<1>3. CASE g \notin handles
  <2>1. PICK c \in Conns : CreateAllocate(c)
    BY <1>3, MapStep, ReleaseTypes
  <2>2. /\ g = nextHandle + 1 /\ openFile'[g].share = op[c].req.share
        /\ openFile'[g].opened = op[c].req.name
    <3>1. /\ handles' = handles \cup {nextHandle + 1}
          /\ openFile'[nextHandle + 1].share = op[c].req.share
          /\ openFile'[nextHandle + 1].opened = op[c].req.name
      BY <2>1, Allocated, Zenon
    <3> QED
      BY <1>3, <3>1
  <2>3. op'[c].at \in {"flag", "idle"}
    BY <1>0, <2>1, Zenon DEF CreateAllocate, Idle
  <2>4. d # c
    BY <2>3
  <2>5. /\ op'[d].at = op[d].at
        /\ op[d].at \in {"stat", "open", "alloc"} =>
             /\ op'[d].req = op[d].req
             /\ op'[d].raced <=> (op[d].raced \/ (/\ op[d].req.share = op[c].req.share
                                                 /\ op[d].req.name = op[c].req.name))
    BY <1>0, <2>1, <2>4, RacedLabels
  <2> QED
    BY <2>2, <2>5
<1> QED
  BY <1>2, <1>3

LEMMA SharingStep ==
  ASSUME TypeInv, BoundInv, CheckedInv, SharingChecked, [Next]_vars
  PROVE  SharingChecked'
<1>0. /\ MapTypes /\ op \in [Procs -> Tasks(nextHandle)] /\ nextHandle \in Nat /\ Conns \subseteq Procs
      /\ handles \subseteq 1 .. nextHandle
  BY TypeParts DEF MapTypes, Procs
<1>1. \A h \in 1 .. nextHandle : SameFile(h)
  BY MapStep
<1>2. CASE handles' \subseteq handles
  <2> SUFFICES ASSUME NEW g \in handles', NEW h \in handles', g # h,
                      openFile'[g].share = openFile'[h].share,
                      openFile'[g].opened = openFile'[h].opened
               PROVE  \/ checkShareCompatibility(openFile'[g].mode, openFile'[h].mode)
                      \/ openFile'[g].raced \/ openFile'[h].raced
    BY DEF SharingChecked
  <2>1. SameFile(g) /\ SameFile(h)
    BY <1>0, <1>1, <1>2
  <2>2. \/ checkShareCompatibility(openFile[g].mode, openFile[h].mode)
        \/ openFile[g].raced \/ openFile[h].raced
    BY <1>2, <2>1, Zenon DEF SharingChecked, SameFile
  <2> QED
    BY <2>1, <2>2 DEF SameFile
<1>3. ASSUME NEW c \in Conns, CreateAllocate(c) PROVE SharingChecked'
  <2> DEFINE n == nextHandle + 1
             req == op[c].req
  <2>1. /\ handles' = handles \cup {n}
        /\ openFile'[n].share = req.share /\ openFile'[n].opened = req.name
        /\ openFile'[n].mode = req.mode /\ openFile'[n].raced = op[c].raced
    BY <1>3, Allocated, Zenon
  <2> HIDE DEF n
  <2>2. op[c].at = "alloc"
    BY <1>3 DEF CreateAllocate
  <2>3. ASSUME NEW g \in handles, openFile'[g].share = req.share, openFile'[g].opened = req.name
        PROVE  checkShareCompatibility(req.mode, openFile'[g].mode) \/ op[c].raced
    <3>1. SameFile(g)
      BY <1>0, <1>1
    <3>2. openFile[g].share = req.share /\ openFile[g].opened = req.name /\ openFile'[g].mode = openFile[g].mode
      BY <2>3, <3>1 DEF SameFile
    <3> QED
      BY <2>2, <3>2 DEF CheckedInv
  <2>4. \A g, h : checkShareCompatibility(g, h) <=> checkShareCompatibility(h, g)
    BY DEF checkShareCompatibility
  <2> HIDE DEF req
  <2> SUFFICES ASSUME NEW g \in handles', NEW h \in handles', g # h,
                      openFile'[g].share = openFile'[h].share,
                      openFile'[g].opened = openFile'[h].opened
               PROVE  \/ checkShareCompatibility(openFile'[g].mode, openFile'[h].mode)
                      \/ openFile'[g].raced \/ openFile'[h].raced
    BY DEF SharingChecked
  <2>5. CASE g \in handles /\ h \in handles
    <3>1. SameFile(g) /\ SameFile(h)
      BY <1>0, <1>1, <2>5
    <3>2. \/ checkShareCompatibility(openFile[g].mode, openFile[h].mode)
          \/ openFile[g].raced \/ openFile[h].raced
      BY <2>5, <3>1, Zenon DEF SharingChecked, SameFile
    <3> QED
      BY <3>1, <3>2 DEF SameFile
  <2>6. CASE g = n /\ h \in handles
    BY <2>1, <2>3, <2>6
  <2>7. CASE h = n /\ g \in handles
    BY <2>1, <2>3, <2>4, <2>7
  <2> QED
    BY <2>1, <2>5, <2>6, <2>7
<1> QED
  BY <1>2, <1>3, MapStep, ReleaseTypes

-----------------------------------------------------------------------------
(* Trees and teardown *)

(* What a step may do to sessions and trees.                                 *)
LEMMA SessionStep ==
  ASSUME TypeInv, BoundInv, EndsInv, [Next]_vars
  PROVE  /\ ending \subseteq ending'
         /\ \A s \in SessionIDs :
              /\ nextTree[s] <= nextTree'[s]
              /\ session'[s] # "gone" => session[s] # "gone"
              /\ session'[s] = "gone" /\ session[s] # "gone" => \A t \in TreeIDs : <<s, t>> \in ending'
              /\ \A t \in TreeIDs :
                   \/ trees'[s][t] = trees[s][t] /\ ~(nextTree[s] < t /\ t <= nextTree'[s])
                   \/ trees'[s][t] = None /\ <<s, t>> \in ending /\ nextTree'[s] = nextTree[s]
                   \/ trees'[s][t] # None /\ nextTree'[s] = nextTree[s] + 1 /\ t = nextTree'[s]
<1>0. /\ SessionTypes /\ op \in [Procs -> Tasks(nextHandle)] /\ nextHandle \in Nat /\ Conns \subseteq Procs
      /\ None \notin TreeIDs /\ None \notin Shares /\ nextTree \in [SessionIDs -> Nat]
  BY ServerAssumption, TypeParts, SMTT(60) DEF MapTypes, Procs, SessionTypes
<1> DEFINE Result ==
         /\ ending \subseteq ending'
         /\ \A s \in SessionIDs :
              /\ nextTree[s] <= nextTree'[s]
              /\ session'[s] # "gone" => session[s] # "gone"
              /\ session'[s] = "gone" /\ session[s] # "gone" => \A t \in TreeIDs : <<s, t>> \in ending'
              /\ \A t \in TreeIDs :
                   \/ trees'[s][t] = trees[s][t] /\ ~(nextTree[s] < t /\ t <= nextTree'[s])
                   \/ trees'[s][t] = None /\ <<s, t>> \in ending /\ nextTree'[s] = nextTree[s]
                   \/ trees'[s][t] # None /\ nextTree'[s] = nextTree[s] + 1 /\ t = nextTree'[s]
<1>1. ASSUME UNCHANGED <<session, trees, nextTree>>, ending \subseteq ending' PROVE Result
  BY <1>0, <1>1, SMTT(60) DEF TreeIDs
<1>2. ASSUME NEW c \in Conns, SessionSetup(c) PROVE Result
  BY <1>0, <1>2 DEF SessionSetup, SessionTypes, TreeIDs
<1>3. ASSUME NEW c \in Conns, AddTreeConnection(c) PROVE Result
  <2>1. op[c] \in ConnectTasks /\ nextTree[op[c].session] + 1 \in TreeIDs
    BY <1>3, Room DEF AddTreeConnection
  <2> DEFINE r == op[c].session
  <2>2. r \in SessionIDs /\ op[c].share \in Shares
    BY <2>1 DEF ConnectTasks
  <2>3. /\ nextTree' = [nextTree EXCEPT ![r] = @ + 1]
        /\ trees' = [trees EXCEPT ![r][nextTree[r] + 1] = op[c].share]
        /\ UNCHANGED <<session, ending>>
    BY <1>3 DEF AddTreeConnection
  <2>4. nextTree[r] + 1 \in TreeIDs
    BY <2>1
  <2> HIDE DEF r
  <2>5. \A s \in SessionIDs : nextTree'[s] = IF s = r THEN nextTree[s] + 1 ELSE nextTree[s]
    BY <1>0, <2>2, <2>3
  <2>6. \A s \in SessionIDs, t \in TreeIDs :
          trees'[s][t] = IF s = r /\ t = nextTree[r] + 1 THEN op[c].share ELSE trees[s][t]
    BY <1>0, <2>2, <2>3, <2>4 DEF SessionTypes
  <2> QED
    BY <1>0, <2>2, <2>3, <2>5, <2>6 DEF TreeIDs
<1>4. ASSUME CleanupExpired PROVE Result
  <2>1. UNCHANGED <<trees, nextTree>> /\ ending \subseteq ending'
    BY <1>4 DEF CleanupExpired
  <2>2. PICK expired \in SUBSET SessionIDs :
          /\ session' = [s \in SessionIDs |-> IF s \in expired THEN "gone" ELSE session[s]]
          /\ ending' = ending \cup (expired \X TreeIDs)
          /\ \A s \in expired : session[s] = "valid"
    BY <1>4 DEF CleanupExpired
  <2>3. \A s \in SessionIDs :
          /\ session'[s] # "gone" => session[s] # "gone"
          /\ session'[s] = "gone" /\ session[s] # "gone" => \A t \in TreeIDs : <<s, t>> \in ending'
    BY <2>2
  <2> QED
    BY <1>0, <2>1, <2>3 DEF TreeIDs
<1>5. ASSUME NEW p \in Procs, TeardownEnd(p) PROVE Result
  <2>1. op[p] \in TeardownTasks(nextHandle) /\ p \in At("teardown")
    BY <1>0, <1>5, TaskShape DEF TeardownEnd, At
  <2> DEFINE end == op[p].end
  <2>2. end # None => end.session \in SessionIDs /\ end.tree \in TreeIDs \cup {None}
    BY <2>1 DEF TeardownTasks, Ends
  <2>3. /\ UNCHANGED <<nextTree, ending>>
        /\ \/ UNCHANGED <<session, trees>>
           \/ /\ end # None /\ end.tree = None
              /\ session' = [session EXCEPT ![end.session] = "gone"] /\ UNCHANGED trees
           \/ /\ end # None /\ end.tree # None
              /\ trees' = [trees EXCEPT ![end.session][end.tree] = None] /\ UNCHANGED session
    BY <1>5 DEF TeardownEnd
  <2>4. end # None => \A t \in TreeIDs : end.tree \in {None, t} => <<end.session, t>> \in ending
    BY <2>1 DEF EndsInv
  <2> HIDE DEF end
  <2>5. CASE UNCHANGED <<session, trees>>
    BY <1>0, <2>3, <2>5 DEF TreeIDs
  <2>6. CASE /\ end # None /\ end.tree = None
             /\ session' = [session EXCEPT ![end.session] = "gone"] /\ UNCHANGED trees
    <3>1. \A s \in SessionIDs : session'[s] = IF s = end.session THEN "gone" ELSE session[s]
      BY <1>0, <2>2, <2>6 DEF SessionTypes
    <3> QED
      BY <1>0, <2>3, <2>4, <2>6, <3>1 DEF TreeIDs
  <2>7. CASE /\ end # None /\ end.tree # None
             /\ trees' = [trees EXCEPT ![end.session][end.tree] = None] /\ UNCHANGED session
    <3>1. \A s \in SessionIDs, t \in TreeIDs :
            trees'[s][t] = IF s = end.session /\ t = end.tree THEN None ELSE trees[s][t]
      BY <1>0, <2>2, <2>7 DEF SessionTypes
    <3> QED
      BY <1>0, <2>3, <2>4, <2>7, <3>1 DEF TreeIDs
  <2> QED
    BY <2>3, <2>5, <2>6, <2>7
<1> HIDE DEF Result
<1>6. ASSUME NEW p \in Procs, TeardownList(p) \/ TeardownRelease(p) PROVE Result
  BY <1>1, <1>6 DEF TeardownList, TeardownRelease, sessionVars
<1>7. ASSUME NEW c \in Conns, TreeConnect(c) \/ CreateValidate(c) \/ CreateCheckShare(c) \/ CreateStat(c)
               \/ CreateOpen(c) \/ CreateStatFails(c) \/ CreateAllocate(c) \/ CreateFlag(c)
      PROVE  Result
  BY <1>1, <1>7, ZenonT(30) DEF TreeConnect, CreateValidate, CreateCheckShare, CreateStat, CreateOpen,
         CreateStatFails, CreateAllocate, CreateFlag, sessionVars
<1>8. ASSUME NEW c \in Conns, CloseLookup(c) \/ CloseRelease(c) \/ CloseRemove(c) \/ SetDisposition(c)
               \/ RenameStat(c) \/ RenameFile(c) \/ RenameSetPath(c) 
      PROVE  Result
  BY <1>1, <1>8 DEF CloseLookup, CloseRelease, CloseRemove, SetDisposition, RenameStat, RenameFile,
         RenameSetPath, sessionVars
<1>9. ASSUME NEW c \in Conns, Logoff(c) \/ TreeDisconnect(c) PROVE Result
  BY <1>1, <1>9, Zenon DEF Logoff, TreeDisconnect, sessionVars
<1>10. ASSUME RemoveShare \/ UNCHANGED vars PROVE Result
  BY <1>1, <1>10 DEF RemoveShare, vars, sessionVars
<1> QED
  BY <1>2, <1>3, <1>4, <1>5, <1>6, <1>7, <1>8, <1>9, <1>10 DEF Next, Result

(* An open goes on naming a tree that was connected to its share.            *)
LEMMA OwnedStep ==
  ASSUME TypeInv, BoundInv, EndsInv, [Next]_vars, NEW of, of.session \in SessionIDs, of.tree \in TreeIDs,
         Owned(of)
  PROVE  /\ of.tree <= nextTree'[of.session]
         /\ trees'[of.session][of.tree] \in {None, of.share}
<1> DEFINE s == of.session
           t == of.tree
<1>0. nextTree[s] \in Nat /\ nextTree'[s] \in Nat /\ t \in Nat
  BY TypeParts, SessionTypesStep, ServerAssumption DEF SessionTypes, TreeIDs
<1>1. /\ nextTree[s] <= nextTree'[s]
      /\ \/ trees'[s][t] = trees[s][t]
         \/ trees'[s][t] = None
         \/ nextTree'[s] = nextTree[s] + 1 /\ t = nextTree'[s]
  BY SessionStep, Zenon
<1>2. t <= nextTree[s] /\ trees[s][t] \in {None, of.share}
  BY DEF Owned
<1> HIDE DEF s, t
<1>3. t <= nextTree'[s] /\ trees'[s][t] \in {None, of.share}
  BY <1>0, <1>1, <1>2
<1> QED
  BY <1>3 DEF s, t

LEMMA TreeStep ==
  ASSUME TypeInv, BoundInv, TreeInv, EndsInv, [Next]_vars
  PROVE  TreeInv'
<1>0. /\ SessionTypes /\ MapTypes /\ op \in [Procs -> Tasks(nextHandle)] /\ nextHandle \in Nat
      /\ Conns \subseteq Procs /\ handles \subseteq 1 .. nextHandle /\ Creating \subseteq Conns
      /\ MaxTrees \in Nat /\ SessionTypes'
  BY TypeParts, ServerAssumption, SessionTypesStep, SMTT(60) DEF MapTypes, Procs, Creating
<1>1. ASSUME NEW s \in SessionIDs, NEW t \in TreeIDs
      PROVE  /\ t > nextTree'[s] => trees'[s][t] = None
             /\ t <= nextTree'[s] /\ trees'[s][t] = None => <<s, t>> \in ending'
             /\ session'[s] = "gone" => <<s, t>> \in ending'
  <2>1. /\ ending \subseteq ending'
        /\ nextTree[s] <= nextTree'[s]
        /\ session'[s] # "gone" => session[s] # "gone"
        /\ session'[s] = "gone" /\ session[s] # "gone" => <<s, t>> \in ending'
        /\ \/ trees'[s][t] = trees[s][t] /\ ~(nextTree[s] < t /\ t <= nextTree'[s])
           \/ trees'[s][t] = None /\ <<s, t>> \in ending /\ nextTree'[s] = nextTree[s]
           \/ trees'[s][t] # None /\ nextTree'[s] = nextTree[s] + 1 /\ t = nextTree'[s]
    BY <1>1, SessionStep
  <2>2. /\ t > nextTree[s] => trees[s][t] = None
        /\ t <= nextTree[s] /\ trees[s][t] = None => <<s, t>> \in ending
        /\ session[s] = "gone" => <<s, t>> \in ending
    BY <1>1 DEF TreeInv
  <2>3. t \in Nat /\ nextTree[s] \in Nat /\ nextTree'[s] \in Nat
    BY <1>0, <1>1 DEF SessionTypes, TreeIDs
  <2> QED
    BY <2>1, <2>2, <2>3
<1>2. \A c \in Creating : Request(c) \in Requests
  <2> SUFFICES ASSUME NEW c \in Creating PROVE Request(c) \in Requests
    OBVIOUS
  <2>1. op[c].at \in {"check", "stat", "open", "alloc"} /\ op[c] \in Tasks(nextHandle)
    BY <1>0 DEF Creating
  <2>2. op[c].at # "check" => op[c] \in CreateTasks \cup OpenTasks
    BY <1>0, <2>1, TaskShape
  <2>3. op[c].at # "check" => op[c].req \in Requests
    BY <2>2 DEF CreateTasks, OpenTasks
  <2>4. op[c].at = "check" => op[c] \in Requests
    BY <1>0, <2>1, TaskShape
  <2> QED
    BY <2>3, <2>4 DEF Request
<1>3. ASSUME NEW c \in Creating PROVE Owned(Request(c))'
                                      \/ Request(c)' # Request(c)
  <2>1. Request(c).session \in SessionIDs /\ Request(c).tree \in TreeIDs
    BY <1>2, <1>3 DEF Requests
  <2>2. Owned(Request(c))
    BY <1>3 DEF TreeInv
  <2> QED
    BY <2>1, <2>2, OwnedStep DEF Owned
<1>4. ASSUME NEW c \in Creating' PROVE Owned(Request(c))'
  <2>0. c \in Conns /\ op'[c].at \in {"check", "stat", "open", "alloc"}
    BY <1>4 DEF Creating
  <2>1. CASE CreateValidate(c)
    <3>1. PICK s \in SessionIDs, t \in TreeIDs :
            /\ ValidTree(s, t)
            /\ op'[c].at = "check" /\ op'[c].session = s /\ op'[c].tree = t /\ op'[c].share = trees[s][t]
      <4>1. PICK s \in SessionIDs, t \in TreeIDs, n \in Names, m \in Modes, d \in Dispositions,
                 del \in DeleteOptions :
              /\ ValidTree(s, t)
              /\ op' = [op EXCEPT ![c] = [at |-> "check", session |-> s, tree |-> t, share |-> trees[s][t],
                                          name |-> n, mode |-> m, disposition |-> d, deleteOnClose |-> del]]
        BY <2>1, Zenon DEF CreateValidate, Goto
      <4>2. op'[c] = [at |-> "check", session |-> s, tree |-> t, share |-> trees[s][t],
                      name |-> n, mode |-> m, disposition |-> d, deleteOnClose |-> del]
        BY <1>0, <2>0, <4>1
      <4>3. op'[c].at = "check" /\ op'[c].session = s /\ op'[c].tree = t /\ op'[c].share = trees[s][t]
        BY <4>2
      <4> QED
        BY <4>1, <4>3
    <3>2. UNCHANGED <<trees, nextTree>>
      BY <2>1 DEF CreateValidate, sessionVars
    <3>3. t <= nextTree[s]
      <4>1. t > nextTree[s] => trees[s][t] = None
        BY <3>1, Zenon DEF TreeInv
      <4>2. t \in Nat /\ nextTree[s] \in Nat
        BY <1>0 DEF SessionTypes, TreeIDs
      <4> QED
        BY <3>1, <4>1, <4>2 DEF ValidTree
    <3>4. op'[c].tree <= nextTree'[op'[c].session] /\ trees'[op'[c].session][op'[c].tree] \in {None, op'[c].share}
      BY <3>1, <3>2, <3>3
    <3>5. Request(c)' = op'[c]
      BY <3>1 DEF Request
    <3> QED
      BY <3>4, <3>5 DEF Owned
  <2>2. CASE ~CreateValidate(c)
    <3>1. c \in Creating /\ Request(c)' = Request(c)
      BY <2>0, <2>2, CreateOrigin DEF Request, Creating
    <3> QED
      BY <1>3, <3>1
  <2> QED
    BY <2>1, <2>2
<1>5. ASSUME NEW h \in handles' PROVE Owned(openFile[h])'
  <2>1. CASE h \in handles
    <3>1. SameFile(h) /\ openFile[h] \in OpenFiles
      BY <1>0, <2>1, MapStep, GivenOut
    <3>2. openFile[h].session \in SessionIDs /\ openFile[h].tree \in TreeIDs /\ Owned(openFile[h])
      BY <2>1, <3>1 DEF OpenFiles, TreeInv
    <3>3. /\ openFile[h].tree <= nextTree'[openFile[h].session]
          /\ trees'[openFile[h].session][openFile[h].tree] \in {None, openFile[h].share}
      BY <3>2, OwnedStep
    <3> QED
      BY <3>1, <3>3 DEF Owned, SameFile
  <2>2. CASE h \notin handles
    <3>1. PICK c \in Conns : CreateAllocate(c)
      BY <1>5, <2>2, MapStep, ReleaseTypes
    <3>2. /\ handles' = handles \cup {nextHandle + 1} /\ op[c].req \in Requests
          /\ openFile'[nextHandle + 1].share = op[c].req.share
          /\ openFile'[nextHandle + 1].session = op[c].req.session
          /\ openFile'[nextHandle + 1].tree = op[c].req.tree
      BY <3>1, Allocated, Zenon
    <3>3. /\ h = nextHandle + 1 /\ openFile'[h].share = op[c].req.share
          /\ openFile'[h].session = op[c].req.session /\ openFile'[h].tree = op[c].req.tree
      BY <1>5, <2>2, <3>2
    <3>4. c \in Creating /\ Request(c) = op[c].req /\ UNCHANGED <<trees, nextTree>>
      BY <3>1 DEF CreateAllocate, Creating, Request, sessionVars
    <3>5. Owned(op[c].req)
      BY <3>4 DEF TreeInv
    <3> QED
      BY <3>3, <3>4, <3>5 DEF Owned
  <2> QED
    BY <2>1, <2>2
<1> QED
  BY <1>1, <1>4, <1>5 DEF TreeInv

(* Where a teardown has come from.  No step of a connection moves the expiry *)
(* loop.                                                                     *)
LEMMA TeardownOrigin ==
  ASSUME TypeInv, EndsInv, [Next]_vars, NEW d \in Procs
  PROVE  /\ op'[d].at = "teardown" =>
              \/ op'[d] = op[d] \/ TeardownList(d) \/ TeardownRelease(d)
              \/ d \in Conns /\ (Logoff(d) \/ TreeDisconnect(d))
              \/ d = Cleaner /\ CleanupExpired
         /\ d = Cleaner =>
              op'[d] = op[d] \/ TeardownList(d) \/ TeardownRelease(d) \/ TeardownEnd(d) \/ CleanupExpired
<1>0. /\ op \in [Procs -> Tasks(nextHandle)] /\ nextHandle \in Nat
      /\ Conns \subseteq Procs /\ Cleaner \in Procs /\ Cleaner \notin Conns /\ Idle.at = "idle"
  BY TypeParts, ServerAssumption DEF MapTypes, Procs, Idle
<1> DEFINE Result ==
      /\ op'[d].at = "teardown" =>
           \/ op'[d] = op[d] \/ TeardownList(d) \/ TeardownRelease(d)
           \/ d \in Conns /\ (Logoff(d) \/ TreeDisconnect(d))
           \/ d = Cleaner /\ CleanupExpired
      /\ d = Cleaner =>
           op'[d] = op[d] \/ TeardownList(d) \/ TeardownRelease(d) \/ TeardownEnd(d) \/ CleanupExpired
<1>1. ASSUME NEW c \in Conns, NEW o, op' = [op EXCEPT ![c] = o], o.at # "teardown" PROVE Result
  BY <1>0, <1>1
<1>2. UNCHANGED op => Result
  OBVIOUS
<1>3. ASSUME NEW c \in Conns, CreateAllocate(c) PROVE Result
  <2>1. op'[c].at \in {"flag", "idle"}
    BY <1>0, <1>3 DEF CreateAllocate, Idle
  <2>2. d # c =>
          op'[d].at = op[d].at /\ (op[d].at \notin {"stat", "open", "alloc"} => op'[d] = op[d])
    BY <1>0, <1>3, RacedLabels
  <2>3. op[Cleaner].at \in {"idle", "teardown"}
    BY DEF EndsInv
  <2> QED
    BY <1>0, <1>3, <2>1, <2>2, <2>3
<1>4. ASSUME NEW p \in Procs, NEW B, NEW T, NEW e, Teardown(p, B, T, e), d # p PROVE Result
  BY <1>0, <1>4 DEF Teardown, Goto
<1>5. ASSUME NEW c \in Conns, Logoff(c) \/ TreeDisconnect(c) PROVE Result
  <2>1. CASE d = c
    BY <1>0, <1>5, <2>1
  <2>2. CASE d # c
    BY <1>0, <1>4, <1>5, <2>2, Zenon DEF Logoff, TreeDisconnect
  <2> QED
    BY <2>1, <2>2
<1>6. ASSUME CleanupExpired PROVE Result
  <2>1. CASE d = Cleaner
    BY <1>6, <2>1
  <2>2. CASE d # Cleaner
    BY <1>0, <1>4, <1>6, <2>2 DEF CleanupExpired
  <2> QED
    BY <2>1, <2>2
<1>7. ASSUME NEW p \in Procs, TeardownList(p) \/ TeardownRelease(p) PROVE Result
  <2>1. CASE d = p
    BY <1>7, <2>1
  <2>2. CASE d # p
    BY <1>4, <1>7, <2>2, Zenon DEF TeardownList, TeardownRelease
  <2> QED
    BY <2>1, <2>2
<1>8. ASSUME NEW p \in Procs, TeardownEnd(p) PROVE Result
  <2>1. op' = [op EXCEPT ![p] = Idle]
    BY <1>8 DEF TeardownEnd, Goto, Return
  <2> QED
    BY <1>0, <1>8, <2>1
<1> HIDE DEF Result
<1>9. ASSUME NEW c \in Conns, SessionSetup(c) \/ SetDisposition(c) PROVE Result
  BY <1>2, <1>9 DEF SessionSetup, SetDisposition
<1>10. ASSUME NEW c \in Conns, TreeConnect(c) \/ AddTreeConnection(c) \/ CreateStatFails(c) \/ CreateFlag(c)
       PROVE  Result
  BY <1>0, <1>1, <1>10 DEF TreeConnect, AddTreeConnection, CreateStatFails, CreateFlag, Goto, Return
<1>11. ASSUME NEW c \in Conns, CreateValidate(c) PROVE Result
  BY <1>0, <1>1, <1>11, Zenon DEF CreateValidate, Goto
<1>12. ASSUME NEW c \in Conns, CreateCheckShare(c) \/ CreateStat(c) \/ CreateOpen(c) PROVE Result
  BY <1>0, <1>1, <1>12 DEF CreateCheckShare, CreateStat, CreateOpen, Goto, Return
<1>13. ASSUME NEW c \in Conns, CloseLookup(c) \/ CloseRemove(c) \/ RenameStat(c) \/ RenameSetPath(c)
       PROVE  Result
  BY <1>0, <1>1, <1>13 DEF CloseLookup, CloseRemove, RenameStat, RenameSetPath, Goto, Return
<1>14. ASSUME NEW c \in Conns, CloseRelease(c) \/ RenameFile(c) PROVE Result
  <2>1. /\ op[c].at = "close" => [op[c] EXCEPT !.at = "remove"].at = "remove"
        /\ op[c].at = "rename" => [op[c] EXCEPT !.at = "setPath"].at = "setPath"
    BY <1>0, TaskShape, CloseUpdate, RenameUpdate
  <2> DEFINE r == [op[c] EXCEPT !.at = "remove"]
             s == [op[c] EXCEPT !.at = "setPath"]
  <2>2. \/ op' = [op EXCEPT ![c] = Idle]
        \/ op[c].at = "close" /\ op' = [op EXCEPT ![c] = r]
        \/ op[c].at = "rename" /\ op' = [op EXCEPT ![c] = s]
    BY <1>14 DEF CloseRelease, RenameFile, Goto, Return
  <2>3. (op[c].at = "close" => r.at = "remove") /\ (op[c].at = "rename" => s.at = "setPath")
    BY <2>1
  <2> HIDE DEF r, s
  <2> QED
    BY <1>0, <1>1, <2>2, <2>3
<1>15. ASSUME RemoveShare \/ UNCHANGED vars PROVE Result
  BY <1>2, <1>15 DEF RemoveShare, vars
<1> QED
  BY <1>3, <1>5, <1>6, <1>7, <1>8, <1>9, <1>10, <1>11, <1>12, <1>13, <1>14, <1>15 DEF Next, Result

LEMMA TeardownFields ==
  ASSUME TypeInv, NEW p \in Procs, NEW B, NEW T, NEW e, Teardown(p, B, T, e)
  PROVE  op'[p].at = "teardown" /\ op'[p].batches = B /\ op'[p].todo = T /\ op'[p].end = e
<1>1. op'[p] = [at |-> "teardown", batches |-> B, todo |-> T, end |-> e]
  BY TypeParts DEF Teardown, Goto
<1> QED
  BY <1>1

LEMMA EndsStep ==
  ASSUME TypeInv, BoundInv, EndsInv, [Next]_vars
  PROVE  EndsInv'
<1>0. /\ Conns \subseteq Procs /\ Cleaner \in Procs /\ Cleaner \notin Conns /\ Idle.at = "idle"
      /\ ending \subseteq ending' /\ None \notin TreeIDs
  BY SessionStep, ServerAssumption DEF Procs, Idle
<1>1. ASSUME NEW p \in Procs, TeardownList(p) \/ TeardownRelease(p)
      PROVE  op[p].at = "teardown" /\ op'[p].at = "teardown" /\ op'[p].end = op[p].end
  <2>1. op[p].at = "teardown" /\ \E B, T : Teardown(p, B, T, op[p].end)
    BY <1>1, Zenon DEF TeardownList, TeardownRelease
  <2> QED
    BY <2>1, TeardownFields
<1>2. CleanupExpired => op'[Cleaner].at = "teardown" /\ op'[Cleaner].end = None
  BY <1>0, TeardownFields DEF CleanupExpired
<1>3. op'[Cleaner].at = "idle" \/ (op'[Cleaner].at = "teardown" /\ op'[Cleaner].end = None)
  <2>1. op[Cleaner].at = "idle" \/ (op[Cleaner].at = "teardown" /\ op[Cleaner].end = None)
    BY DEF EndsInv
  <2>2. \/ op'[Cleaner] = op[Cleaner] \/ TeardownList(Cleaner) \/ TeardownRelease(Cleaner)
        \/ TeardownEnd(Cleaner) \/ CleanupExpired
    BY <1>0, TeardownOrigin
  <2>3. TeardownEnd(Cleaner) => op'[Cleaner].at = "idle"
    BY <1>0, TypeParts DEF TeardownEnd, Return, Goto
  <2> QED
    BY <1>0, <1>1, <1>2, <2>1, <2>2, <2>3
<1>4. ASSUME NEW p \in Procs, op'[p].at = "teardown", op'[p].end # None, NEW t \in TreeIDs,
             op'[p].end.tree \in {None, t}
      PROVE  <<op'[p].end.session, t>> \in ending'
  <2>1. CASE op[p].at = "teardown" /\ op'[p].end = op[p].end
    BY <1>0, <1>4, <2>1 DEF EndsInv, At
  <2>2. CASE p \in Conns /\ Logoff(p)
    <3>1. PICK s \in SessionIDs : /\ ending' = ending \cup ({s} \X TreeIDs)
                                  /\ op'[p].end = [session |-> s, tree |-> None]
      BY <2>2, TeardownFields DEF Logoff
    <3> QED
      BY <3>1
  <2>3. CASE p \in Conns /\ TreeDisconnect(p)
    <3>1. PICK s \in SessionIDs, u \in TreeIDs : /\ ending' = ending \cup {<<s, u>>}
                                                 /\ op'[p].end = [session |-> s, tree |-> u]
      BY <2>3, TeardownFields, SMTT(60) DEF TreeDisconnect
    <3> QED
      BY <1>0, <1>4, <3>1
  <2> QED
    BY <1>1, <1>2, <1>4, <2>1, <2>2, <2>3, TeardownOrigin
<1> QED
  BY <1>3, <1>4 DEF EndsInv, At

(* What takes a tree or a session away.                                      *)
LEMMA EndOrigin ==
  ASSUME TypeInv, BoundInv, EndsInv, [Next]_vars, NEW s \in SessionIDs
  PROVE  /\ registered' \subseteq registered
         /\ \A t \in TreeIDs : trees'[s][t] = None /\ trees[s][t] # None =>
              \E p \in Procs : /\ TeardownEnd(p) /\ op[p].end # None
                               /\ op[p].end.session = s /\ op[p].end.tree = t
         /\ session'[s] = "gone" /\ session[s] # "gone" =>
              \/ CleanupExpired
              \/ \E p \in Procs : /\ TeardownEnd(p) /\ op[p].end # None
                                  /\ op[p].end.session = s /\ op[p].end.tree = None
<1>0. /\ SessionTypes /\ op \in [Procs -> Tasks(nextHandle)] /\ nextHandle \in Nat /\ Conns \subseteq Procs
      /\ None \notin Shares
  BY ServerAssumption, TypeParts, SMTT(60) DEF MapTypes, Procs
<1> DEFINE Result ==
         /\ registered' \subseteq registered
         /\ \A t \in TreeIDs : trees'[s][t] = None /\ trees[s][t] # None =>
              \E p \in Procs : /\ TeardownEnd(p) /\ op[p].end # None
                               /\ op[p].end.session = s /\ op[p].end.tree = t
         /\ session'[s] = "gone" /\ session[s] # "gone" =>
              \/ CleanupExpired
              \/ \E p \in Procs : /\ TeardownEnd(p) /\ op[p].end # None
                                  /\ op[p].end.session = s /\ op[p].end.tree = None
<1>1. ASSUME UNCHANGED <<session, trees>>, registered' \subseteq registered PROVE Result
  BY <1>1
<1>2. ASSUME NEW c \in Conns, SessionSetup(c) PROVE Result
  BY <1>0, <1>2 DEF SessionSetup, SessionTypes
<1>3. ASSUME NEW c \in Conns, AddTreeConnection(c) PROVE Result
  <2>1. op[c] \in ConnectTasks /\ nextTree[op[c].session] + 1 \in TreeIDs
    BY <1>3, Room DEF AddTreeConnection
  <2> DEFINE r == op[c].session
             n == nextTree[r] + 1
  <2>2. r \in SessionIDs /\ op[c].share \in Shares /\ n \in TreeIDs
    BY <2>1 DEF ConnectTasks
  <2>3. trees' = [trees EXCEPT ![r][n] = op[c].share] /\ UNCHANGED <<session, registered>>
    BY <1>3 DEF AddTreeConnection
  <2> HIDE DEF r, n
  <2>4. \A t \in TreeIDs : trees'[s][t] = IF s = r /\ t = n THEN op[c].share ELSE trees[s][t]
    BY <1>0, <2>2, <2>3 DEF SessionTypes
  <2> QED
    BY <1>0, <2>2, <2>3, <2>4
<1>4. ASSUME CleanupExpired PROVE Result
  BY <1>4 DEF CleanupExpired
<1>5. ASSUME NEW p \in Procs, TeardownEnd(p) PROVE Result
  <2>1. op[p] \in TeardownTasks(nextHandle)
    BY <1>0, <1>5, TaskShape DEF TeardownEnd, At
  <2> DEFINE end == op[p].end
  <2>2. end # None => end.session \in SessionIDs /\ end.tree \in TreeIDs \cup {None}
    BY <2>1 DEF TeardownTasks, Ends
  <2>3. /\ UNCHANGED registered
        /\ \/ UNCHANGED <<session, trees>>
           \/ /\ end # None /\ end.tree = None
              /\ session' = [session EXCEPT ![end.session] = "gone"] /\ UNCHANGED trees
           \/ /\ end # None /\ end.tree # None
              /\ trees' = [trees EXCEPT ![end.session][end.tree] = None] /\ UNCHANGED session
    BY <1>5 DEF TeardownEnd
  <2>5. CASE UNCHANGED <<session, trees>>
    BY <2>3, <2>5
  <2>6. CASE /\ end # None /\ end.tree = None
             /\ session' = [session EXCEPT ![end.session] = "gone"] /\ UNCHANGED trees
    <3>1. session'[s] = IF s = end.session THEN "gone" ELSE session[s]
      BY <1>0, <2>2, <2>6 DEF SessionTypes
    <3> QED
      BY <1>5, <2>3, <2>6, <3>1
  <2>7. CASE /\ end # None /\ end.tree # None
             /\ trees' = [trees EXCEPT ![end.session][end.tree] = None] /\ UNCHANGED session
    <3>1. \A t \in TreeIDs : trees'[s][t] = IF s = end.session /\ t = end.tree THEN None ELSE trees[s][t]
      BY <1>0, <2>2, <2>7 DEF SessionTypes
    <3> QED
      BY <1>5, <2>3, <2>7, <3>1
  <2> QED
    BY <2>3, <2>5, <2>6, <2>7
<1> HIDE DEF Result
<1>6. ASSUME NEW p \in Procs, TeardownList(p) \/ TeardownRelease(p) PROVE Result
  BY <1>1, <1>6 DEF TeardownList, TeardownRelease, sessionVars
<1>7. ASSUME NEW c \in Conns, TreeConnect(c) \/ CreateValidate(c) \/ CreateCheckShare(c) \/ CreateStat(c)
               \/ CreateOpen(c) \/ CreateStatFails(c) \/ CreateAllocate(c) \/ CreateFlag(c)
      PROVE  Result
  BY <1>1, <1>7, ZenonT(30) DEF TreeConnect, CreateValidate, CreateCheckShare, CreateStat, CreateOpen,
         CreateStatFails, CreateAllocate, CreateFlag, sessionVars
<1>8. ASSUME NEW c \in Conns, CloseLookup(c) \/ CloseRelease(c) \/ CloseRemove(c) \/ SetDisposition(c)
               \/ RenameStat(c) \/ RenameFile(c) \/ RenameSetPath(c) 
      PROVE  Result
  BY <1>1, <1>8 DEF CloseLookup, CloseRelease, CloseRemove, SetDisposition, RenameStat, RenameFile,
         RenameSetPath, sessionVars
<1>9. ASSUME NEW c \in Conns, Logoff(c) \/ TreeDisconnect(c) PROVE Result
  BY <1>1, <1>9 DEF Logoff, TreeDisconnect, sessionVars
<1>10. ASSUME RemoveShare \/ UNCHANGED vars PROVE Result
  BY <1>1, <1>10 DEF RemoveShare, vars, sessionVars
<1> QED
  BY <1>2, <1>3, <1>4, <1>5, <1>6, <1>7, <1>8, <1>9, <1>10 DEF Next, Result

(* A teardown that has still to come to a handle, and goes on, has still to  *)
(* come to it after its step, or releases it in that step.                   *)
LEMMA CoveredStep ==
  ASSUME TypeInv, BoundInv, [Next]_vars, NEW p \in Procs, NEW h \in handles, h \in handles', Covered(p, h),
         op'[p] = op[p] \/ TeardownList(p) \/ TeardownRelease(p),
         p = Cleaner => openFile[h].share \in registered
  PROVE  Covered(p, h)'
<1>0. SameFile(h) /\ h \in 1 .. nextHandle
  <2>1. h \in 1 .. nextHandle
    BY TypeParts DEF MapTypes
  <2> QED
    BY <2>1, MapStep
<1>1. \A b : Covers(b, openFile[h]) => Covers(b, openFile'[h])
  BY <1>0 DEF Covers, SameFile
<1>2. CASE op'[p] = op[p]
  BY <1>1, <1>2 DEF Covered
<1>3. CASE TeardownList(p)
  <2>1. PICK b \in op[p].batches :
          Teardown(p, op[p].batches \ {b},
                {g \in handles : /\ openFile[g].session = b.session
                                 /\ openFile[g].tree \in b.trees
                                 /\ openFile[g].share = b.share
                                 /\ p = Cleaner => b.share \in registered},
                op[p].end)
    BY <1>3, Zenon DEF TeardownList
  <2>2. /\ op'[p].at = "teardown" /\ op'[p].batches = op[p].batches \ {b}
        /\ op'[p].todo = {g \in handles : /\ openFile[g].session = b.session
                                          /\ openFile[g].tree \in b.trees
                                          /\ openFile[g].share = b.share
                                          /\ p = Cleaner => b.share \in registered}
    BY <2>1, TeardownFields, SMTT(60)
  <2>3. PICK a \in op[p].batches : Covers(a, openFile[h])
    BY <1>3 DEF TeardownList, Covered
  <2>4. a = b => h \in op'[p].todo
    BY <2>2, <2>3 DEF Covers
  <2>5. a # b => a \in op'[p].batches
    BY <2>2
  <2> QED
    BY <1>1, <2>2, <2>3, <2>4, <2>5 DEF Covered
<1>4. CASE TeardownRelease(p)
  <2>1. PICK g \in op[p].todo : Release(g) /\ Teardown(p, op[p].batches, op[p].todo \ {g}, op[p].end)
    BY <1>4, Zenon DEF TeardownRelease
  <2>2. op'[p].at = "teardown" /\ op'[p].batches = op[p].batches /\ op'[p].todo = op[p].todo \ {g}
    BY <2>1, TeardownFields, SMTT(60)
  <2>3. h # g
    BY <2>1 DEF Release
  <2> QED
    BY <1>1, <2>2, <2>3 DEF Covered
<1> QED
  BY <1>2, <1>3, <1>4

LEMMA TeardownStep ==
  ASSUME TypeInv, BoundInv, TreeInv, EndsInv, TeardownInv, [Next]_vars
  PROVE  TeardownInv'
<1>0. /\ TreeInv' /\ EndsInv' /\ SessionTypes /\ SessionTypes' /\ MapTypes' /\ MapTypes
      /\ Conns \subseteq Procs /\ Cleaner \in Procs /\ Cleaner \notin Conns
  BY TreeStep, EndsStep, SessionTypesStep, MapTypesStep, TypeParts, ServerAssumption DEF Procs
<1> SUFFICES ASSUME NEW h \in handles', ~openFile'[h].late
             PROVE  /\ \A p \in At("teardown")' :
                         /\ op'[p].end # None /\ op'[p].end.session = openFile'[h].session
                         /\ op'[p].end.tree \in {None, openFile'[h].tree}
                         => Covered(p, h)'
                    /\ trees'[openFile'[h].session][openFile'[h].tree] # None
                    /\ session'[openFile'[h].session] = "gone" /\ openFile'[h].share \in registered'
                         => Covered(Cleaner, h)'
  BY DEF TeardownInv
<1> DEFINE s == openFile'[h].session
           t == openFile'[h].tree
<1>1. openFile'[h] \in OpenFiles
  BY <1>0, ServerAssumption DEF MapTypes, HandleIDs
<1>2. s \in SessionIDs /\ t \in TreeIDs /\ Owned(openFile[h])'
  BY <1>0, <1>1 DEF OpenFiles, TreeInv
<1>3. CASE <<s, t>> \notin ending'
  <2>1. \A p \in At("teardown")' :
          op'[p].end # None => \A u \in TreeIDs : op'[p].end.tree \in {None, u} => <<op'[p].end.session, u>> \in ending'
    BY <1>0 DEF EndsInv
  <2>2. trees'[s][t] # None /\ session'[s] # "gone"
    <3>1. t <= nextTree'[s]
      BY <1>2 DEF Owned
    <3> QED
      BY <1>0, <1>2, <1>3, <3>1 DEF TreeInv
  <2> QED
    BY <1>2, <1>3, <2>1, <2>2
<1>4. CASE h \in handles
  <2>0. SameFile(h)
    BY <1>0, <1>4, MapStep DEF MapTypes
  <2>1. /\ openFile[h].session = s /\ openFile[h].tree = t /\ openFile[h].share = openFile'[h].share
        /\ ~openFile[h].late
    BY <2>0 DEF SameFile
  <2>2. /\ \A p \in At("teardown") :
             op[p].end # None /\ op[p].end.session = s /\ op[p].end.tree \in {None, t} => Covered(p, h)
        /\ trees[s][t] # None
        /\ session[s] = "gone" /\ openFile[h].share \in registered => Covered(Cleaner, h)
    BY <1>4, <2>1 DEF TeardownInv
  <2>3. trees[s][t] = openFile[h].share
    BY <1>4, <2>1, <2>2 DEF TreeInv, Owned
  <2>4. \A p \in Procs : TeardownEnd(p) => p \in At("teardown") /\ ~Covered(p, h)
    BY DEF TeardownEnd, At, Covered
  <2>5. ASSUME NEW p \in At("teardown")', op'[p].end # None, op'[p].end.session = s,
               op'[p].end.tree \in {None, t}
        PROVE  Covered(p, h)'
    <3>0. p \in Procs /\ op'[p].at = "teardown" /\ p # Cleaner
      BY <1>0, <2>5 DEF At, EndsInv
    <3>1. CASE op'[p] = op[p] \/ TeardownList(p) \/ TeardownRelease(p)
      <4>1. p \in At("teardown") /\ op[p].end = op'[p].end
        <5>1. CASE op'[p] = op[p]
          BY <3>0, <5>1 DEF At
        <5>2. CASE TeardownList(p) \/ TeardownRelease(p)
          <6>1. op[p].at = "teardown" /\ \E B, T : Teardown(p, B, T, op[p].end)
            BY <5>2, Zenon DEF TeardownList, TeardownRelease
          <6> QED
            BY <3>0, <6>1, TeardownFields DEF At
        <5> QED
          BY <3>1, <5>1, <5>2
      <4>2. Covered(p, h)
        BY <2>2, <2>5, <4>1
      <4> QED
        BY <1>4, <3>0, <3>1, <4>2, CoveredStep
    <3>2. CASE p \in Conns /\ Logoff(p)
      <4>1. PICK r \in SessionIDs :
              Teardown(p, {Batch(r, {u}, trees[r][u]) : u \in {v \in TreeIDs : trees[r][v] # None}},
                       {}, [session |-> r, tree |-> None])
        BY <3>2, Zenon DEF Logoff
      <4>2. /\ op'[p].batches = {Batch(r, {u}, trees[r][u]) : u \in {v \in TreeIDs : trees[r][v] # None}}
            /\ op'[p].end = [session |-> r, tree |-> None]
        BY <3>0, <4>1, TeardownFields, Zenon
      <4>3. r = s
        BY <2>5, <4>2
      <4>4. Batch(s, {t}, openFile'[h].share) \in op'[p].batches
        BY <1>2, <2>1, <2>2, <2>3, <4>2, <4>3, Zenon
      <4>5. Covers(Batch(s, {t}, openFile'[h].share), openFile'[h])
        BY DEF Covers, Batch
      <4> QED
        BY <3>0, <4>4, <4>5 DEF Covered
    <3>3. CASE p \in Conns /\ TreeDisconnect(p)
      <4>1. PICK r \in SessionIDs, u \in TreeIDs :
              Teardown(p, {Batch(r, {u}, trees[r][u])}, {}, [session |-> r, tree |-> u])
        BY <3>3, Zenon DEF TreeDisconnect
      <4>2. op'[p].batches = {Batch(r, {u}, trees[r][u])} /\ op'[p].end = [session |-> r, tree |-> u]
        BY <3>0, <4>1, TeardownFields
      <4>3. r = s /\ u = t
        BY <2>5, <4>2, ServerAssumption
      <4>4. Batch(s, {t}, openFile'[h].share) \in op'[p].batches
        BY <2>1, <2>3, <4>2, <4>3
      <4>5. Covers(Batch(s, {t}, openFile'[h].share), openFile'[h])
        BY DEF Covers, Batch
      <4> QED
        BY <3>0, <4>4, <4>5 DEF Covered
    <3> QED
      BY <3>0, <3>1, <3>2, <3>3, TeardownOrigin
  <2>6. trees'[s][t] # None
    <3> SUFFICES ASSUME trees'[s][t] = None PROVE FALSE
      OBVIOUS
    <3>1. PICK p \in Procs : /\ TeardownEnd(p) /\ op[p].end # None
                             /\ op[p].end.session = s /\ op[p].end.tree = t
      BY <1>2, <2>2, EndOrigin, SMTT(60)
    <3> QED
      BY <2>2, <2>4, <3>1
  <2>7. ASSUME session'[s] = "gone", openFile'[h].share \in registered'
        PROVE  Covered(Cleaner, h)'
    <3>1. openFile[h].share \in registered
      BY <1>2, <2>1, <2>7, EndOrigin
    <3>2. CASE session[s] = "gone"
      <4>1. Covered(Cleaner, h)
        BY <2>2, <3>1, <3>2
      <4>2. op'[Cleaner] = op[Cleaner] \/ TeardownList(Cleaner) \/ TeardownRelease(Cleaner)
        <5>1. ~TeardownEnd(Cleaner)
          BY <1>0, <2>4, <4>1
        <5>2. ~CleanupExpired
          BY <4>1 DEF CleanupExpired, Covered, Idle
        <5> QED
          BY <1>0, <5>1, <5>2, TeardownOrigin
      <4> QED
        BY <1>0, <1>4, <3>1, <4>1, <4>2, CoveredStep
    <3>3. CASE session[s] # "gone" /\ CleanupExpired
      <4>1. PICK expired \in SUBSET SessionIDs :
              /\ session' = [r \in SessionIDs |-> IF r \in expired THEN "gone" ELSE session[r]]
              /\ Teardown(Cleaner, ExpiryBatches(expired), {}, None)
        BY <3>3 DEF CleanupExpired
      <4>2. op'[Cleaner].at = "teardown" /\ op'[Cleaner].batches = ExpiryBatches(expired)
        BY <1>0, <4>1, TeardownFields
      <4>3. s \in expired
        BY <1>2, <2>7, <3>3, <4>1
      <4>4. Batch(s, TreeIDs, openFile'[h].share) \in ExpiryBatches(expired)
        BY <2>1, <3>1, <4>3 DEF ExpiryBatches
      <4>5. Covers(Batch(s, TreeIDs, openFile'[h].share), openFile'[h])
        BY <1>2 DEF Covers, Batch
      <4> QED
        BY <4>2, <4>4, <4>5 DEF Covered
    <3>4. CASE session[s] # "gone" /\ ~CleanupExpired
      <4>1. PICK p \in Procs : /\ TeardownEnd(p) /\ op[p].end # None
                               /\ op[p].end.session = s /\ op[p].end.tree = None
        BY <1>2, <2>7, <3>4, EndOrigin
      <4> QED
        BY <2>2, <2>4, <4>1
    <3> QED
      BY <3>2, <3>3, <3>4
  <2> QED
    BY <2>5, <2>6, <2>7
<1>5. CASE h \notin handles
  <2>1. PICK c \in Conns : CreateAllocate(c)
    BY <1>5, MapStep, ReleaseTypes
  <2>2. /\ handles' = handles \cup {nextHandle + 1}
        /\ openFile'[nextHandle + 1].session = op[c].req.session
        /\ openFile'[nextHandle + 1].tree = op[c].req.tree
        /\ openFile'[nextHandle + 1].late = (<<op[c].req.session, op[c].req.tree>> \in ending)
    BY <2>1, Allocated
  <2>3. h = nextHandle + 1
    BY <1>5, <2>2
  <2>4. <<s, t>> \notin ending /\ UNCHANGED ending
    BY <2>1, <2>2, <2>3, Zenon DEF CreateAllocate
  <2> QED
    BY <1>3, <2>4
<1> QED
  BY <1>4, <1>5

-----------------------------------------------------------------------------
(* The invariant, and the theorems *)

LEMMA InvInit == Init => Inv
<1> SUFFICES ASSUME Init PROVE Inv
  OBVIOUS
<1>1. TypeInv /\ BoundInv
  BY TypeInit, BoundInit
<1>2. \A p \in Procs : op[p] = Idle /\ op[p].at = "idle"
  BY DEF Init, Idle
<1>3. At("alloc") = {} /\ At("teardown") = {} /\ Creating = {} /\ handles = {} /\ nextHandle = 0
  BY <1>2 DEF Init, At, Creating, Procs
<1>4. FilesAccounted
  <2>1. Cardinality(handles) = 0 /\ Cardinality(At("alloc")) = 0
    BY <1>3, FS_EmptySet
  <2> QED
    BY <2>1 DEF FilesAccounted, Init
<1>5. IndexInv /\ SharingChecked /\ TeardownInv
  BY <1>3 DEF IndexInv, IndexConsistent, SharingChecked, TeardownInv, Init
<1>6. CheckedInv
  BY <1>2 DEF CheckedInv, Procs
<1>7. EndsInv
  BY <1>2, <1>3 DEF EndsInv, Procs
<1>8. TreeInv
  <2>1. \A s \in SessionIDs, t \in TreeIDs : trees[s][t] = None /\ nextTree[s] = 0 /\ session[s] = "none"
    BY DEF Init
  <2>2. \A t \in TreeIDs : t \in Nat /\ ~(t <= 0)
    BY ServerAssumption DEF TreeIDs
  <2> QED
    BY <1>3, <2>1, <2>2 DEF TreeInv
<1> QED
  BY <1>1, <1>4, <1>5, <1>6, <1>7, <1>8 DEF Inv

LEMMA InvStep == Inv /\ [Next]_vars => Inv'
BY TypeStep, BoundStep, AccountStep, IndexStep, CheckedStep, SharingStep, TreeStep, EndsStep, TeardownStep
   DEF Inv

(* The invariant holds in every state of the server.                         *)
THEOREM InvHolds == Spec => []Inv
<1>1. Init => Inv
  BY InvInit
<1>2. Inv /\ [Next]_vars => Inv'
  BY InvStep
<1> QED
  BY <1>1, <1>2, PTL DEF Spec

(* Types are kept by every handler, for any number of connections, sessions, *)
(* shares and names: no CREATE, CLOSE, SET_INFO or teardown writes outside   *)
(* the maps, and no handle that was not given out is ever in them.           *)
THEOREM TypesKept == Spec => []TypeOK
<1>1. Inv => TypeOK
  BY DEF Inv, TypeInv
<1> QED
  BY <1>1, InvHolds, PTL

(* Every open file of the server belongs to a handle of the map or to a      *)
(* CREATE between fs.OpenFile and Allocate, whatever CLOSE, LOGOFF,          *)
(* TREE_DISCONNECT and expiry do to the same handle at the same time: no     *)
(* file is leaked or closed twice.                                           *)
THEOREM NoFileLeaked == Spec => []FilesAccounted
<1>1. Inv => FilesAccounted
  BY DEF Inv
<1> QED
  BY <1>1, InvHolds, PTL

(* byPath lists every handle of the map under the path it was opened with;   *)
(* what it lists beyond the map are renamed handles.                         *)
THEOREM IndexKept == Spec => []IndexConsistent
<1>1. Inv => IndexConsistent
  BY DEF Inv, IndexInv
<1> QED
  BY <1>1, InvHolds, PTL

(* Two handles opened with one path are compatible, unless the CREATE of one *)
(* was overtaken between its share check and Allocate.                       *)
THEOREM SharingKept == Spec => []SharingChecked
<1>1. Inv => SharingChecked
  BY DEF Inv
<1> QED
  BY <1>1, InvHolds, PTL

LEMMA TeardownDone == Inv => TeardownComplete
<1> SUFFICES ASSUME Inv, NEW h \in handles, session[openFile[h].session] = "gone",
                    ~InTeardown(openFile[h].session), ~openFile[h].late, openFile[h].share \in registered
             PROVE  FALSE
  BY DEF TeardownComplete
<1>1. Covered(Cleaner, h)
  BY DEF Inv, TeardownInv
<1>2. InTeardown(openFile[h].session)
  BY <1>1 DEF Covered, Covers, InTeardown, Procs
<1> QED
  BY <1>2

(* Once LOGOFF or expiry has done with a session, the handles left of it     *)
(* were allocated by requests that overlapped its end, or lie in a share     *)
(* that was removed.                                                         *)
THEOREM TeardownKept == Spec => []TeardownComplete
BY TeardownDone, InvHolds, PTL
=============================================================================
