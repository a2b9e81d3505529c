----------------------------- MODULE FileServer -----------------------------
(***************************************************************************)
(* Sessions, tree connections and open files of the SMB server: the        *)
(* handlers of CREATE, CLOSE, SET_INFO, TREE_CONNECT, TREE_DISCONNECT and  *)
(* LOGOFF, and the loop that expires sessions, over the session manager    *)
(* and the file handle maps of the shares.                                 *)
(*                                                                         *)
(* Every connection has a goroutine that runs one handler at a time; a     *)
(* request names its session and tree, and any connection may send it.     *)
(* Each use of a lock, and each call to the file system behind a share, is *)
(* a step: handlers interleave between them.  A session that is set up is  *)
(* valid until LOGOFF or the expiry loop removes it.  UpdateActivity is    *)
(* never called, so a session may reach the idle limit at any time.        *)
(*                                                                         *)
(* Names are flat and stand for files; that a name is a directory only     *)
(* adds refusals.  Every refusal of a request ends its handler.            *)
(***************************************************************************)
EXTENDS Integers, FiniteSets

CONSTANTS
  Conns,         \* connection goroutines
  Cleaner,       \* the goroutine of sessionCleanupLoop
  SessionIDs,    \* random session IDs, never used twice
  Shares,        \* *Share objects
  ReadOnly,      \* the shares with ShareOptions.ReadOnly
  Names,         \* paths within a share
  Modes,         \* what clients ask for: [access, share]
  Dispositions,  \* the create dispositions clients use
  DeleteOptions, \* whether they create with FILE_DELETE_ON_CLOSE
  MaxTrees,      \* bound on tree connections of a session
  MaxHandles,    \* bound on file handles
  MaxSetInfo,    \* bound on SET_INFO requests
  None

Procs == Conns \cup {Cleaner}
TreeIDs == 1 .. MaxTrees
HandleIDs == 1 .. MaxHandles
Rights == {"FILE_READ_DATA", "FILE_WRITE_DATA", "DELETE"}

ASSUME ServerAssumption ==
  /\ IsFiniteSet(Conns) /\ Cleaner \notin Conns /\ ReadOnly \subseteq Shares
  /\ MaxTrees \in Nat /\ MaxHandles \in Nat /\ MaxSetInfo \in Nat
  /\ Modes \subseteq [access : SUBSET Rights, share : SUBSET Rights]
  /\ Dispositions \subseteq {"FILE_OPEN", "FILE_CREATE", "FILE_OPEN_IF",
                             "FILE_OVERWRITE", "FILE_OVERWRITE_IF", "FILE_SUPERSEDE"}
  /\ DeleteOptions \subseteq BOOLEAN
  /\ None \notin Shares \cup Names \cup HandleIDs \cup TreeIDs

VARIABLES
  session,     \* SessionIDs -> "none", "valid" or "gone"
  trees,       \* Session.trees: session -> tree -> share or None
  nextTree,    \* Session.nextID, as the number of trees connected so far
  registered,  \* Server.shares
  handles,     \* FileHandleMap.handles of all shares, as the set of its keys
  openFile,    \* the *OpenFile of every FileID given out
  byPath,      \* FileHandleMap.byPath: share -> path -> FileIDs
  nextHandle,  \* FileHandleMap.nextHandle, as the number of handles so far
  files,       \* the file systems: share -> the names that exist
  openCount,   \* how many absfs.Files are open
  setInfos,    \* SET_INFO requests so far
  op,          \* the handler each goroutine is in
  ending,      \* history: the <<session, tree>> whose teardown has begun
  renamed      \* history: the handles whose Path has been changed

sessionVars == <<session, trees, nextTree, registered>>
mapVars == <<handles, openFile, byPath, nextHandle>>
vars == <<sessionVars, mapVars, files, openCount, setInfos, op, ending, renamed>>

Idle == [at |-> "idle"]

Init ==
  /\ session = [s \in SessionIDs |-> "none"]
  /\ trees = [s \in SessionIDs |-> [t \in TreeIDs |-> None]]
  /\ nextTree = [s \in SessionIDs |-> 0]
  /\ registered = Shares
  /\ handles = {}
  /\ openFile = [h \in HandleIDs |-> None]
  /\ byPath = [sh \in Shares |-> [n \in Names |-> {}]]
  /\ nextHandle = 0
  /\ files = [sh \in Shares |-> {}]
  /\ openCount = 0
  /\ setInfos = 0
  /\ op = [p \in Procs |-> Idle]
  /\ ending = {}
  /\ renamed = {}

Goto(p, state) == op' = [op EXCEPT ![p] = state]
Return(p) == Goto(p, Idle)
At(l) == {p \in Procs : op[p].at = l}
Creating == {c \in Conns : op[c].at \in {"check", "stat", "open", "alloc"}}

(* validateTree: a valid session, and a tree of that session.                *)
ValidTree(s, t) == session[s] = "valid" /\ trees[s][t] # None

(* validateTree and GetByTree: the handles that a request may name.          *)
Usable == {h \in handles : ValidTree(openFile[h].session, openFile[h].tree)}

-----------------------------------------------------------------------------
(* Sessions and trees *)

(* SESSION_SETUP up to SetValid, with an ID that was never given out.        *)
SessionSetup(c) ==
  /\ op[c] = Idle
  /\ \E s \in SessionIDs : /\ session[s] = "none"
                           /\ session' = [session EXCEPT ![s] = "valid"]
  /\ UNCHANGED <<trees, nextTree, registered, mapVars, files, openCount, op, setInfos, ending, renamed>>

(* TREE_CONNECT: validateSession and GetShare, then AddTreeConnection.       *)
TreeConnect(c) ==
  /\ op[c] = Idle
  /\ \E s \in SessionIDs, sh \in registered :
       /\ session[s] = "valid"
       /\ nextTree[s] + Cardinality(At("addTree")) < MaxTrees
       /\ Goto(c, [at |-> "addTree", session |-> s, share |-> sh])
  /\ UNCHANGED <<sessionVars, mapVars, files, openCount, setInfos, ending, renamed>>

AddTreeConnection(c) ==
  /\ op[c].at = "addTree"
  /\ LET s == op[c].session
     IN /\ nextTree' = [nextTree EXCEPT ![s] = @ + 1]
        /\ trees' = [trees EXCEPT ![s][nextTree[s] + 1] = op[c].share]
  /\ Return(c)
  /\ UNCHANGED <<session, registered, mapVars, files, openCount, setInfos, ending, renamed>>

RemoveShare ==
  /\ \E sh \in registered : registered' = registered \ {sh}
  /\ UNCHANGED <<session, trees, nextTree, mapVars, files, openCount, op, setInfos, ending, renamed>>

-----------------------------------------------------------------------------
(* CREATE *)

checkShareCompatibility_OneWay(new, existing) == new.access \subseteq existing.share

checkShareCompatibility(new, existing) ==
  /\ new.access \subseteq existing.share
  /\ existing.access \subseteq new.share

(* The dispositions that refuse a file that is missing, or there.            *)
MustExist == {"FILE_OPEN", "FILE_OVERWRITE"}
MustNotExist == {"FILE_CREATE"}
(* Those that a read-only tree refuses whatever exists.                      *)
Writing == {"FILE_CREATE", "FILE_OVERWRITE", "FILE_OVERWRITE_IF", "FILE_SUPERSEDE"}

(* The disposition opens with O_CREATE. *)
Creates(disp, existed) ==
  \/ disp \in {"FILE_CREATE", "FILE_OVERWRITE_IF", "FILE_SUPERSEDE"}
  \/ disp = "FILE_OPEN_IF" /\ ~existed

Refused(disp, existed, readOnly) ==
  \/ disp \in MustExist /\ ~existed
  \/ disp \in MustNotExist /\ existed
  \/ readOnly /\ (disp \in Writing \/ Creates(disp, existed))

CreateValidate(c) ==
  /\ op[c] = Idle
  /\ nextHandle + Cardinality(Creating) < MaxHandles
  /\ \E s \in SessionIDs, t \in TreeIDs, n \in Names, m \in Modes,
       d \in Dispositions, del \in DeleteOptions :
       /\ ValidTree(s, t)
       /\ Goto(c, [at |-> "check", session |-> s, tree |-> t, share |-> trees[s][t],
                   name |-> n, mode |-> m, disposition |-> d, deleteOnClose |-> del])
  /\ UNCHANGED <<sessionVars, mapVars, files, openCount, setInfos, ending, renamed>>

CheckShareAccess(sh, path, mode) ==
  \A h \in byPath[sh][path] : checkShareCompatibility(mode, openFile[h].mode)

(* STATUS_SHARING_VIOLATION ends the handler. *)
CreateCheckShare(c) ==
  /\ op[c].at = "check"
  /\ IF CheckShareAccess(op[c].share, op[c].name, op[c].mode)
     THEN Goto(c, [at |-> "stat", raced |-> FALSE, req |-> op[c]])
     ELSE Return(c)
  /\ UNCHANGED <<sessionVars, mapVars, files, openCount, setInfos, ending, renamed>>

(* fs.Stat and the refusals of the disposition, or of a type mismatch.  Any  *)
(* error of Stat counts as the absence of the file.                          *)
CreateStat(c) ==
  /\ op[c].at = "stat"
  /\ LET req == op[c].req
     IN \/ \E existed \in BOOLEAN :
             /\ existed => req.name \in files[req.share]
             /\ ~Refused(req.disposition, existed, req.share \in ReadOnly)
             /\ Goto(c, [at |-> "open", raced |-> op[c].raced, req |-> req, existed |-> existed])
        \/ Return(c)
  /\ UNCHANGED <<sessionVars, mapVars, files, openCount, setInfos, ending, renamed>>

(* fs.OpenFile, which may fail for reasons of its own.  A new directory is   *)
(* made by a Mkdir before it; the two are one step, and when the OpenFile    *)
(* after a Mkdir fails the directory stays.                                  *)
CreateOpen(c) ==
  /\ op[c].at = "open"
  /\ LET req == op[c].req
     IN \/ /\ req.name \in files[req.share] \/ Creates(req.disposition, op[c].existed)
           /\ files' = [files EXCEPT ![req.share] = @ \cup {req.name}]
           /\ openCount' = openCount + 1
           /\ Goto(c, [at |-> "alloc", raced |-> op[c].raced, req |-> req])
        \/ /\ req.disposition \in {"FILE_CREATE", "FILE_OPEN_IF"} /\ ~op[c].existed
           /\ files' = [files EXCEPT ![req.share] = @ \cup {req.name}]
           /\ Return(c) /\ UNCHANGED openCount
        \/ Return(c) /\ UNCHANGED <<files, openCount>>
  /\ UNCHANGED <<sessionVars, mapVars, setInfos, ending, renamed>>

CreateStatFails_LeavesOpen(c) ==
  /\ op[c].at = "alloc"
  /\ Return(c)
  /\ UNCHANGED <<sessionVars, mapVars, files, openCount, setInfos, ending, renamed>>

(* file.Stat fails: the file is closed again. *)
CreateStatFails(c) ==
  /\ op[c].at = "alloc"
  /\ openCount' = openCount - 1
  /\ Return(c)
  /\ UNCHANGED <<sessionVars, mapVars, files, setInfos, ending, renamed>>

(* Allocate.  The handle remembers, for the properties, whether another one  *)
(* for its path was allocated since its share check, and whether its tree    *)
(* was being torn down.  FILE_DELETE_ON_CLOSE is set in a step of its own.   *)
CreateAllocate(c) ==
  /\ op[c].at = "alloc"
  /\ LET req == op[c].req
         h == nextHandle + 1
         SamePath(d) == /\ op[d].at \in {"stat", "open", "alloc"}
                        /\ op[d].req.share = req.share /\ op[d].req.name = req.name
     IN /\ nextHandle' = h
        /\ handles' = handles \cup {h}
        /\ openFile' = [openFile EXCEPT ![h] =
             [session |-> req.session, tree |-> req.tree, share |-> req.share,
              path |-> req.name, opened |-> req.name, mode |-> req.mode,
              deleteOnClose |-> FALSE, raced |-> op[c].raced,
              late |-> <<req.session, req.tree>> \in ending]]
        /\ byPath' = [byPath EXCEPT ![req.share][req.name] = @ \cup {h}]
        /\ op' = [d \in Procs |->
             IF d = c THEN IF req.deleteOnClose THEN [at |-> "flag", handle |-> h] ELSE Idle
             ELSE IF SamePath(d) THEN [op[d] EXCEPT !.raced = TRUE] ELSE op[d]]
  /\ UNCHANGED <<sessionVars, files, openCount, setInfos, ending, renamed>>

CreateFlag(c) ==
  /\ op[c].at = "flag"
  /\ openFile' = [openFile EXCEPT ![op[c].handle].deleteOnClose = TRUE]
  /\ Return(c)
  /\ UNCHANGED <<sessionVars, handles, byPath, nextHandle, files, openCount, setInfos, ending, renamed>>

-----------------------------------------------------------------------------
(* Release *)

Release_KeepsIndex(h) ==
  \/ h \notin handles /\ UNCHANGED <<handles, byPath, openCount>>
  \/ /\ h \in handles
     /\ handles' = handles \ {h}
     /\ openCount' = openCount - 1
     /\ UNCHANGED byPath

Release_NoLookup(h) ==
  /\ handles' = handles \ {h}
  /\ byPath' = [byPath EXCEPT ![openFile[h].share][openFile[h].path] = @ \ {h}]
  /\ openCount' = openCount - 1

(* The handle leaves both maps under the lock, its file is closed after it;  *)
(* a handle that is already gone is left alone.                              *)
Release(h) ==
  \/ h \notin handles /\ UNCHANGED <<handles, byPath, openCount>>
  \/ /\ h \in handles
     /\ handles' = handles \ {h}
     /\ byPath' = [byPath EXCEPT ![openFile[h].share][openFile[h].path] = @ \ {h}]
     /\ openCount' = openCount - 1

-----------------------------------------------------------------------------
(* CLOSE *)

(* validateTree, GetByTree, and the fields read before the release.          *)
CloseLookup(c) ==
  /\ op[c] = Idle
  /\ \E h \in Usable :
       Goto(c, [at |-> "close", handle |-> h, deleteOnClose |-> openFile[h].deleteOnClose,
                path |-> openFile[h].path, share |-> openFile[h].share])
  /\ UNCHANGED <<sessionVars, mapVars, files, openCount, setInfos, ending, renamed>>

CloseRelease(c) ==
  /\ op[c].at = "close"
  /\ Release(op[c].handle)
  /\ IF op[c].deleteOnClose THEN Goto(c, [op[c] EXCEPT !.at = "remove"]) ELSE Return(c)
  /\ UNCHANGED <<sessionVars, openFile, nextHandle, files, setInfos, ending, renamed>>

(* fs.Remove; a failure is logged.  *)
CloseRemove(c) ==
  /\ op[c].at = "remove"
  /\ \/ files' = [files EXCEPT ![op[c].share] = @ \ {op[c].path}]
     \/ UNCHANGED files
  /\ Return(c)
  /\ UNCHANGED <<sessionVars, mapVars, openCount, setInfos, ending, renamed>>

-----------------------------------------------------------------------------
(* SET_INFO *)

(* FileDispositionInformation *)
SetDisposition(c) ==
  /\ op[c] = Idle
  /\ setInfos < MaxSetInfo /\ setInfos' = setInfos + 1
  /\ \E h \in Usable, del \in BOOLEAN :
       /\ openFile[h].share \notin ReadOnly
       /\ openFile' = [openFile EXCEPT ![h].deleteOnClose = del]
  /\ UNCHANGED <<sessionVars, handles, byPath, nextHandle, files, openCount, op, ending, renamed>>

(* FileRenameInformation: fs.Stat of the target, which ReplaceIfExists       *)
(* overrules; fs.Rename; the new Path of the handle.                         *)
RenameStat(c) ==
  /\ op[c] = Idle
  /\ setInfos < MaxSetInfo /\ setInfos' = setInfos + 1
  /\ \E h \in Usable, n \in Names, replaceIfExists \in BOOLEAN :
       /\ openFile[h].share \notin ReadOnly
       /\ n \in files[openFile[h].share] => replaceIfExists
       /\ Goto(c, [at |-> "rename", handle |-> h, to |-> n])
  /\ UNCHANGED <<sessionVars, mapVars, files, openCount, ending, renamed>>

RenameFile(c) ==
  /\ op[c].at = "rename"
  /\ LET of == openFile[op[c].handle]
     IN \/ /\ of.path \in files[of.share]
           /\ files' = [files EXCEPT ![of.share] = (@ \ {of.path}) \cup {op[c].to}]
           /\ Goto(c, [op[c] EXCEPT !.at = "setPath"])
        \/ Return(c) /\ UNCHANGED files
  /\ UNCHANGED <<sessionVars, mapVars, openCount, setInfos, ending, renamed>>

RenameSetPath(c) ==
  /\ op[c].at = "setPath"
  /\ openFile' = [openFile EXCEPT ![op[c].handle].path = op[c].to]
  /\ renamed' = renamed \cup {op[c].handle}
  /\ Return(c)
  /\ UNCHANGED <<sessionVars, handles, byPath, nextHandle, files, openCount, setInfos, ending>>

-----------------------------------------------------------------------------
(* Teardown: LOGOFF, TREE_DISCONNECT and the expiry of sessions release      *)
(* handles in batches, one for each tree or share, and then take the session *)
(* or tree away.                                                             *)

Batch(s, ts, sh) == [session |-> s, trees |-> ts, share |-> sh]

Teardown(p, batches, todo, end) ==
  Goto(p, [at |-> "teardown", batches |-> batches, todo |-> todo, end |-> end])

Logoff_SkipsTrees(c) ==
  /\ op[c] = Idle
  /\ \E s \in SessionIDs :
       /\ session[s] = "valid"
       /\ ending' = ending \cup ({s} \X TreeIDs)
       /\ Teardown(c, {}, {}, [session |-> s, tree |-> None])
  /\ UNCHANGED <<sessionVars, mapVars, files, openCount, setInfos, renamed>>

(* validateSession and GetAllTreeConnections. *)
Logoff(c) ==
  /\ op[c] = Idle
  /\ \E s \in SessionIDs :
       /\ session[s] = "valid"
       /\ ending' = ending \cup ({s} \X TreeIDs)
       /\ Teardown(c, {Batch(s, {t}, trees[s][t]) : t \in {u \in TreeIDs : trees[s][u] # None}},
                   {}, [session |-> s, tree |-> None])
  /\ UNCHANGED <<sessionVars, mapVars, files, openCount, setInfos, renamed>>

TreeDisconnect(c) ==
  /\ op[c] = Idle
  /\ \E s \in SessionIDs, t \in TreeIDs :
       /\ ValidTree(s, t)
       /\ ending' = ending \cup {<<s, t>>}
       /\ Teardown(c, {Batch(s, {t}, trees[s][t])}, {}, [session |-> s, tree |-> t])
  /\ UNCHANGED <<sessionVars, mapVars, files, openCount, setInfos, renamed>>

(* Every share that is registered, for every session that is expired.        *)
ExpiryBatches(expired) == {Batch(s, TreeIDs, sh) : s \in expired, sh \in registered}

(* CleanupExpired: the sessions go first, all at once. *)
CleanupExpired ==
  /\ op[Cleaner] = Idle
  /\ \E expired \in SUBSET {s \in SessionIDs : session[s] = "valid"} :
       /\ expired # {}
       /\ session' = [s \in SessionIDs |-> IF s \in expired THEN "gone" ELSE session[s]]
       /\ ending' = ending \cup (expired \X TreeIDs)
       /\ Teardown(Cleaner, ExpiryBatches(expired), {}, None)
  /\ UNCHANGED <<trees, nextTree, registered, mapVars, files, openCount, setInfos, renamed>>

(* ReleaseByTree and ReleaseBySession: the handles of a batch are listed     *)
(* under the lock.  The expiry loop does not see a share removed meanwhile.  *)
TeardownList(p) ==
  /\ op[p].at = "teardown" /\ op[p].todo = {}
  /\ \E b \in op[p].batches :
       Teardown(p, op[p].batches \ {b},
                {h \in handles : /\ openFile[h].session = b.session
                                 /\ openFile[h].tree \in b.trees
                                 /\ openFile[h].share = b.share
                                 /\ p = Cleaner => b.share \in registered},
                op[p].end)
  /\ UNCHANGED <<sessionVars, mapVars, files, openCount, setInfos, ending, renamed>>

TeardownRelease(p) ==
  /\ op[p].at = "teardown"
  /\ \E h \in op[p].todo :
       /\ Release(h)
       /\ Teardown(p, op[p].batches, op[p].todo \ {h}, op[p].end)
  /\ UNCHANGED <<sessionVars, openFile, nextHandle, files, setInfos, ending, renamed>>

(* DestroySession, or RemoveTreeConnection. *)
TeardownEnd(p) ==
  /\ op[p].at = "teardown" /\ op[p].todo = {} /\ op[p].batches = {}
  /\ LET end == op[p].end
     IN \/ end = None /\ UNCHANGED <<session, trees>>
        \/ /\ end # None /\ end.tree = None
           /\ session' = [session EXCEPT ![end.session] = "gone"]
           /\ UNCHANGED trees
        \/ /\ end # None /\ end.tree # None
           /\ trees' = [trees EXCEPT ![end.session][end.tree] = None]
           /\ UNCHANGED session
  /\ Return(p)
  /\ UNCHANGED <<nextTree, registered, mapVars, files, openCount, setInfos, ending, renamed>>

Next ==
  \/ \E c \in Conns :
       \/ SessionSetup(c) \/ TreeConnect(c) \/ AddTreeConnection(c)
       \/ CreateValidate(c) \/ CreateCheckShare(c) \/ CreateStat(c) \/ CreateOpen(c)
       \/ CreateStatFails(c) \/ CreateAllocate(c) \/ CreateFlag(c)
       \/ CloseLookup(c) \/ CloseRelease(c) \/ CloseRemove(c)
       \/ SetDisposition(c) \/ RenameStat(c) \/ RenameFile(c) \/ RenameSetPath(c)
       \/ Logoff(c) \/ TreeDisconnect(c)
  \/ \E p \in Procs : TeardownList(p) \/ TeardownRelease(p) \/ TeardownEnd(p)
  \/ CleanupExpired
  \/ RemoveShare

Spec == Init /\ [][Next]_vars

-----------------------------------------------------------------------------
OpenFiles ==
  [session : SessionIDs, tree : TreeIDs, share : Shares, path : Names, opened : Names,
   mode : Modes, deleteOnClose : BOOLEAN, raced : BOOLEAN, late : BOOLEAN]

(* Every variable has its type, and the map holds only handles given out.    *)
TypeOK ==
  /\ session \in [SessionIDs -> {"none", "valid", "gone"}]
  /\ trees \in [SessionIDs -> [TreeIDs -> Shares \cup {None}]]
  /\ nextTree \in [SessionIDs -> 0 .. MaxTrees]
  /\ registered \subseteq Shares
  /\ nextHandle \in 0 .. MaxHandles
  /\ handles \subseteq 1 .. nextHandle
  /\ \A h \in HandleIDs : openFile[h] \in (IF h <= nextHandle THEN OpenFiles ELSE {None})
  /\ byPath \in [Shares -> [Names -> SUBSET (1 .. nextHandle)]]
  /\ files \in [Shares -> SUBSET Names]
  /\ openCount \in Nat /\ setInfos \in 0 .. MaxSetInfo
  /\ ending \subseteq SessionIDs \X TreeIDs
  /\ renamed \subseteq 1 .. nextHandle

(* Every open file belongs to a handle of the map or to the one CREATE that  *)
(* is about to allocate it: none is leaked, and none is closed twice when    *)
(* CLOSE, LOGOFF, TREE_DISCONNECT and expiry release the same handle.        *)
FilesAccounted == openCount = Cardinality(handles) + Cardinality(At("alloc"))

(* byPath lists every handle under the path it was opened with.  What it     *)
(* lists beyond the map are handles that were renamed before their release.  *)
IndexConsistent ==
  \A sh \in Shares, n \in Names :
    /\ {h \in handles : openFile[h].share = sh /\ openFile[h].opened = n} \subseteq byPath[sh][n]
    /\ \A h \in byPath[sh][n] :
         /\ openFile[h].share = sh /\ openFile[h].opened = n
         /\ h \in handles \cup renamed

(* Two handles opened with the same path are compatible, or one of them was  *)
(* allocated between the share check and Allocate of the other's CREATE.     *)
SharingChecked ==
  \A g, h \in handles :
    /\ g # h
    /\ openFile[g].share = openFile[h].share
    /\ openFile[g].opened = openFile[h].opened
    => \/ checkShareCompatibility(openFile[g].mode, openFile[h].mode)
       \/ openFile[g].raced \/ openFile[h].raced

(* A goroutine is tearing down session s. *)
InTeardown(s) ==
  \E p \in Procs : /\ op[p].at = "teardown"
                   /\ \/ \E b \in op[p].batches : b.session = s
                      \/ \E h \in op[p].todo : openFile[h].session = s

(* Once LOGOFF or expiry has done with a session, the handles it still owns  *)
(* were allocated by requests that overlapped its end, or lie in a share     *)
(* that RemoveShare took away from the expiry loop.                          *)
TeardownComplete ==
  \A h \in handles :
    LET of == openFile[h] IN
    session[of.session] = "gone" /\ ~InTeardown(of.session)
      => of.late \/ of.share \notin registered

(* "Compatible with existing opens on the same path": a mode that the check  *)
(* grants for a path is compatible with every handle that is open there.     *)
SharingEnforced ==
  \A sh \in Shares, n \in Names, m \in Modes :
    CheckShareAccess(sh, n, m)
      => \A h \in handles : openFile[h].share = sh /\ openFile[h].path = n
                            => checkShareCompatibility(m, openFile[h].mode)
=============================================================================
