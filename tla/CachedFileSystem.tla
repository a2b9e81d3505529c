-------------------------- MODULE CachedFileSystem --------------------------
(***************************************************************************)
(* The file system operations of the client (filesystem.go) over the       *)
(* metadata cache: several goroutines look up, read and change a share.    *)
(*                                                                         *)
(* An operation is a lookup in the cache, a request to the server, and an  *)
(* update of the cache, each a step of its own: other goroutines run in    *)
(* between.  The server (external) is a tree of files and directories; the *)
(* metadata of a node is one bit, which every change of the node flips.    *)
(* That a change of a child also touches its directory's own timestamps is *)
(* left out, and so are changes by other SMB clients.                      *)
(*                                                                         *)
(* Two history variables record why an entry may differ from the server.   *)
(***************************************************************************)
EXTENDS MetadataCache

CONSTANTS
  Clients,      \* goroutines that use the FileSystem
  InitialTree,  \* the share when the program starts
  RepliesLost,  \* whether a connection may break between a change and its reply
  MaxCalls      \* bound on the operations they call

ASSUME ClientAssumption == RepliesLost \in BOOLEAN /\ MaxCalls \in Nat

VARIABLES
  node,     \* the share: path -> None or what Stat returns
  pc,       \* where each goroutine is in its operation
  arg,      \* the path of that operation
  arg2,     \* Rename: newname
  dirFile,  \* ReadDir: where the directory it has open is now, None if removed
  val,      \* what the goroutine has read and not yet cached
  calls,    \* operations called so far
  overlap,  \* history: the share changed under what the goroutine has read
  excused   \* history: entries that no operation keeps up to date

clientVars == <<pc, arg, arg2, dirFile, val, calls, overlap>>
vars == <<cacheVars, clientVars, node, excused>>

PCs == {"idle", "stat", "statPut", "open", "read", "dirPut", "inval", "invalOld"}
Nodes == [kind : {"file", "dir"}, meta : {0, 1}]

IsDir(p) == node[p] # None /\ node[p].kind = "dir"
Children(p) == {q \in Paths : q # <<>> /\ Front(q) = p}

(* The share is a tree from the start: above what is there, there are        *)
(* directories.                                                              *)
ASSUME TreeAssumption ==
  /\ None \notin Nodes
  /\ InitialTree \in [Paths -> Nodes \cup {None}]
  /\ InitialTree[<<>>] # None /\ InitialTree[<<>>].kind = "dir"
  /\ \A p, q \in Paths :
       IsStrictPrefix(q, p) /\ InitialTree[p] # None =>
         InitialTree[q] # None /\ InitialTree[q].kind = "dir"

(* What Readdir returns for p: its entries with their attributes.            *)
Listing(tree, p) == [q \in {r \in Children(p) : tree[r] # None} |-> tree[q]]

Init ==
  /\ CacheInit
  /\ node = InitialTree
  /\ pc = [c \in Clients |-> "idle"]
  /\ arg = [c \in Clients |-> <<>>]
  /\ arg2 = [c \in Clients |-> <<>>]
  /\ dirFile = [c \in Clients |-> None]
  /\ val = [c \in Clients |-> None]
  /\ calls = 0
  /\ overlap = [c \in Clients |-> FALSE]
  /\ excused = [stat |-> {}, dir |-> {}]

Goto(c, l) == pc' = [pc EXCEPT ![c] = l]

Called(c) == pc[c] = "idle" /\ calls < MaxCalls /\ calls' = calls + 1

(* An operation on p starts. *)
Call(c, p, l) ==
  /\ Called(c)
  /\ Goto(c, l)
  /\ arg' = [arg EXCEPT ![c] = p]

Return(c) ==
  /\ Goto(c, "idle")
  /\ arg' = [arg EXCEPT ![c] = <<>>]
  /\ arg2' = [arg2 EXCEPT ![c] = <<>>]
  /\ dirFile' = [dirFile EXCEPT ![c] = None]
  /\ val' = [val EXCEPT ![c] = None]
  /\ overlap' = [overlap EXCEPT ![c] = FALSE]
  /\ UNCHANGED calls

(* Only paths that are cached need an excuse. *)
Excused(stats, dirs) ==
  excused' = [stat |-> stats \cap Cached(statCache'), dir |-> dirs \cap Cached(dirCache')]

-----------------------------------------------------------------------------
(* Stat *)

StatHit(c) ==
  /\ pc[c] = "idle"
  /\ \E p \in Paths : Hit(statCache, p)
  /\ UNCHANGED vars

StatMiss(c) ==
  /\ \E p \in Paths : ~Hit(statCache, p) /\ Call(c, p, "stat")
  /\ UNCHANGED <<cacheVars, node, arg2, dirFile, val, overlap, excused>>

(* withRetry ends with an answer or with an error, which is not cached.      *)
StatRequest(c) ==
  /\ pc[c] = "stat"
  /\ \/ /\ node[arg[c]] # None
        /\ val' = [val EXCEPT ![c] = node[arg[c]]]
        /\ Goto(c, "statPut")
        /\ UNCHANGED <<arg, arg2, dirFile, calls, overlap>>
     \/ Return(c)
  /\ UNCHANGED <<cacheVars, node, excused>>

StatPut(c) ==
  /\ pc[c] = "statPut"
  /\ putStatInfo(arg[c], val[c])
  /\ Return(c)
  /\ Excused(IF overlap[c] THEN excused.stat \cup {arg[c]} ELSE excused.stat \ {arg[c]},
             excused.dir)
  /\ UNCHANGED node

-----------------------------------------------------------------------------
(* ReadDir *)

ReadDirHit(c) ==
  /\ pc[c] = "idle"
  /\ \E p \in Paths : Hit(dirCache, p)
  /\ UNCHANGED vars

ReadDirMiss(c) ==
  /\ \E p \in Paths : ~Hit(dirCache, p) /\ Call(c, p, "open")
  /\ UNCHANGED <<cacheVars, node, arg2, dirFile, val, overlap, excused>>

(* Open and f.Stat; ErrNotDirectory and every other error end the call.      *)
ReadDirOpen(c) ==
  /\ pc[c] = "open"
  /\ \/ /\ IsDir(arg[c])
        /\ dirFile' = [dirFile EXCEPT ![c] = arg[c]]
        /\ Goto(c, "read")
        /\ UNCHANGED <<arg, arg2, val, calls, overlap>>
     \/ Return(c)
  /\ UNCHANGED <<cacheVars, node, excused>>

ReadDirRead_KeepsEmpty(c) ==
  /\ pc[c] = "read"
  /\ \/ /\ dirFile[c] # None
        /\ val' = [val EXCEPT ![c] = Listing(node, dirFile[c])]
        /\ Goto(c, "dirPut")
        /\ UNCHANGED <<arg, arg2, dirFile, calls, overlap>>
     \/ Return(c)
  /\ UNCHANGED <<cacheVars, node, excused>>

(* file.ReadDir(-1) answers io.EOF for an empty directory: an error as well. *)
ReadDirRead(c) ==
  /\ pc[c] = "read"
  /\ \/ /\ dirFile[c] # None /\ DOMAIN Listing(node, dirFile[c]) # {}
        /\ val' = [val EXCEPT ![c] = Listing(node, dirFile[c])]
        /\ Goto(c, "dirPut")
        /\ UNCHANGED <<arg, arg2, dirFile, calls, overlap>>
     \/ Return(c)
  /\ UNCHANGED <<cacheVars, node, excused>>

(* putDirEntries, and the deferred f.Close. *)
ReadDirPut(c) ==
  /\ pc[c] = "dirPut"
  /\ putDirEntries(arg[c], val[c])
  /\ Return(c)
  /\ Excused(excused.stat,
             IF overlap[c] THEN excused.dir \cup {arg[c]} ELSE excused.dir \ {arg[c]})
  /\ UNCHANGED node

-----------------------------------------------------------------------------
(* Operations that change the share: the request, then invalidate.  A        *)
(* request that the server refuses touches nothing and is not a step here.   *)

New(kind) == [kind |-> kind, meta |-> 0]
Touch(n) == [n EXCEPT !.meta = 1 - n.meta]

(* The share becomes tree, open directories move along with it.              *)
Change(tree, files) ==
  /\ node' = tree
  /\ dirFile' = files
  /\ overlap' = [d \in Clients |->
       \/ overlap[d]
       \/ files[d] # dirFile[d]
       \/ pc[d] = "statPut" /\ tree[arg[d]] # node[arg[d]]
       \/ pc[d] = "dirPut" /\ Listing(tree, arg[d]) # Listing(node, arg[d])]

(* The answer to a change of p arrives and is followed by invalidate(p), or  *)
(* the connection breaks after the server has acted: the operation returns   *)
(* the error and invalidates nothing.                                        *)
Outcome(c, p) ==
  /\ UNCHANGED cacheVars
  /\ \/ Call(c, p, "inval") /\ UNCHANGED excused
     \/ /\ RepliesLost /\ Called(c) /\ UNCHANGED <<pc, arg>>
        /\ Excused(excused.stat \cup {p}, excused.dir \cup {p, getParentPath(p)})
  /\ UNCHANGED <<arg2, val>>

Mkdir(c) ==
  \E p \in Paths :
    /\ node[p] = None /\ IsDir(getParentPath(p))
    /\ Change([node EXCEPT ![p] = New("dir")], dirFile)
    /\ Outcome(c, p)

(* OpenFile with O_CREATE: a new file, or one that is there, cut to nothing  *)
(* with O_TRUNC.  A reply lost by an attempt that withRetry repeats does no  *)
(* harm, since the last attempt decides.                                     *)
OpenFileCreate(c) ==
  \E p \in Paths :
    /\ \/ /\ node[p] = None /\ IsDir(getParentPath(p))
          /\ Change([node EXCEPT ![p] = New("file")], dirFile)
       \/ /\ node[p] # None /\ ~IsDir(p)
          /\ \E n \in {node[p], Touch(node[p])} : Change([node EXCEPT ![p] = n], dirFile)
    /\ Outcome(c, p)

(* Remove: a file or an empty directory. *)
RemovePath(c) ==
  \E p \in Paths \ {<<>>} :
    /\ node[p] # None /\ DOMAIN Listing(node, p) = {}
    /\ Change([node EXCEPT ![p] = None],
              [d \in Clients |-> IF dirFile[d] = p THEN None ELSE dirFile[d]])
    /\ Outcome(c, p)

(* Chmod, Chtimes and Truncate, on a path.  The writes of a Truncate before  *)
(* its last are FileWrite's.                                                 *)
SetAttributes(c) ==
  \E p \in Paths :
    /\ node[p] # None
    /\ Change([node EXCEPT ![p] = Touch(@)], dirFile)
    /\ Outcome(c, p)

(* Where r is after p has moved to q. *)
Rebase(r, p, q) == q \o SubSeq(r, Len(p) + 1, Len(r))

Moved(p, q) ==
  [r \in Paths |->
     IF IsPrefix(q, r) /\ Rebase(r, q, p) \in Paths THEN node[Rebase(r, q, p)]
     ELSE IF IsPrefix(p, r) THEN None ELSE node[r]]

(* The server refuses a target that exists, that has no parent, or that lies *)
(* below p.  What moves must stay within Paths (bound).                      *)
MayMove(p, q) ==
  /\ p # <<>> /\ node[p] # None /\ node[q] = None /\ IsDir(getParentPath(q))
  /\ ~IsPrefix(p, q)
  /\ \A r \in Paths : IsPrefix(p, r) /\ node[r] # None => Rebase(r, p, q) \in Paths

(* Open directories move with the share.                                     *)
MovedFiles(p, q) ==
  [d \in Clients |-> IF dirFile[d] # None /\ IsPrefix(p, dirFile[d])
                     THEN Rebase(dirFile[d], p, q) ELSE dirFile[d]]

BelowEither(p, q) == {r \in Paths : IsStrictPrefix(p, r) \/ IsStrictPrefix(q, r)}

RenameAnswered(c, p, q) ==
  /\ Call(c, p, "invalOld")
  /\ arg2' = [arg2 EXCEPT ![c] = q]
  /\ Excused(excused.stat \cup BelowEither(p, q), excused.dir \cup BelowEither(p, q))

RenameLost(c, p, q) ==
  /\ RepliesLost /\ Called(c) /\ UNCHANGED <<pc, arg, arg2>>
  /\ Excused(excused.stat \cup BelowEither(p, q) \cup {p, q},
             excused.dir \cup BelowEither(p, q)
               \cup {p, q, getParentPath(p), getParentPath(q)})

(* Rename: oldname and newname will be invalidated, what is cached below     *)
(* them will not.  With a lost reply none of it is, nor the two listings     *)
(* that name them.                                                           *)
Rename(c) ==
  \E p, q \in Paths :
    /\ MayMove(p, q)
    /\ Change(Moved(p, q), MovedFiles(p, q))
    /\ UNCHANGED <<cacheVars, val>>
    /\ RenameAnswered(c, p, q) \/ RenameLost(c, p, q)

(* Rename's second invalidate is the common one. *)
InvalidateOld(c) ==
  /\ pc[c] = "invalOld"
  /\ invalidate(arg[c])
  /\ Excused(excused.stat, excused.dir)
  /\ Goto(c, "inval")
  /\ arg' = [arg EXCEPT ![c] = arg2[c]]
  /\ arg2' = [arg2 EXCEPT ![c] = <<>>]
  /\ UNCHANGED <<node, dirFile, val, calls, overlap>>

Invalidate(c) ==
  /\ pc[c] = "inval"
  /\ invalidate(arg[c])
  /\ Excused(excused.stat, excused.dir)
  /\ Return(c)
  /\ UNCHANGED node

(* File.Write, File.WriteAt, File.Truncate, and OpenFile with O_TRUNC alone  *)
(* change a file and invalidate nothing.                                     *)
FileWrite(c) ==
  /\ Called(c)
  /\ \E p \in Paths :
       /\ node[p] # None /\ ~IsDir(p)
       /\ Change([node EXCEPT ![p] = Touch(@)], dirFile)
       /\ UNCHANGED <<cacheVars, pc, arg, arg2, val>>
       /\ Excused(excused.stat \cup {p}, excused.dir \cup {getParentPath(p)})

TtlExpires == Expire /\ UNCHANGED <<clientVars, node, excused>>

Next ==
  \/ \E c \in Clients :
       \/ StatHit(c) \/ StatMiss(c) \/ StatRequest(c) \/ StatPut(c)
       \/ ReadDirHit(c) \/ ReadDirMiss(c) \/ ReadDirOpen(c) \/ ReadDirRead(c) \/ ReadDirPut(c)
       \/ Mkdir(c) \/ OpenFileCreate(c) \/ RemovePath(c) \/ SetAttributes(c) \/ Rename(c)
       \/ InvalidateOld(c) \/ Invalidate(c) \/ FileWrite(c)
  \/ TtlExpires

Spec == Init /\ [][Next]_vars

-----------------------------------------------------------------------------
(* Every variable has its type, the share is a tree, and no empty listing is *)
(* ever kept.                                                                *)
TypeOK ==
  /\ \A p \in Paths :
       /\ statCache[p] \in {None} \cup [val : Nodes, expired : BOOLEAN]
       /\ dirCache[p] # None => /\ dirCache[p].expired \in BOOLEAN
                                /\ DOMAIN dirCache[p].val \in (SUBSET Paths) \ {{}}
  /\ accessOrder \in Seq(Paths)
  /\ node \in [Paths -> Nodes \cup {None}]
  /\ \A p \in Paths \ {<<>>} : node[p] # None => IsDir(Front(p))
  /\ pc \in [Clients -> PCs]
  /\ arg \in [Clients -> Paths] /\ arg2 \in [Clients -> Paths]
  /\ dirFile \in [Clients -> Paths \cup {None}]
  /\ \A c \in Clients : pc[c] = "statPut" => val[c] \in Nodes
  /\ calls \in 0 .. MaxCalls
  /\ overlap \in [Clients -> BOOLEAN]
  /\ excused \in [stat : SUBSET Paths, dir : SUBSET Paths]

(* A goroutine has changed p and has not invalidated it yet.                 *)
Pending(p) ==
  \E c \in Clients : \/ pc[c] \in {"inval", "invalOld"} /\ arg[c] = p
                     \/ pc[c] = "invalOld" /\ arg2[c] = p

(* A cached stat result is the server's, unless its path was changed by an   *)
(* operation that has yet to invalidate it or whose reply was lost, through  *)
(* a File, or with a renamed directory, or the Stat that filled it           *)
(* overlapped a change: no other interleaving of FileSystem's operations     *)
(* leaves a stale entry.                                                     *)
StatCoherent ==
  \A p \in Cached(statCache) :
    statCache[p].val = node[p] \/ p \in excused.stat \/ Pending(p)

(* The same of a cached listing, which also changes with its entries.        *)
DirCoherent ==
  \A p \in Cached(dirCache) :
    \/ dirCache[p].val = Listing(node, p)
    \/ p \in excused.dir
    \/ \E q \in {p} \cup Children(p) : Pending(q)

(* "The cache is automatically invalidated when you: Rename files": once     *)
(* every operation has returned, Stat finds no path in the cache that the    *)
(* server no longer has.                                                     *)
GoneNotServed ==
  (\A c \in Clients : pc[c] = "idle") =>
    \A p \in Paths : node[p] = None => ~Hit(statCache, p)
=============================================================================
