----------------------- MODULE CachedFileSystemProofs -----------------------
(***************************************************************************)
(* Proofs about the metadata cache as the client's operations use it, for  *)
(* any set of paths, any limit and any number of goroutines: everything    *)
(* that is cached is in accessOrder, once; what is cached is what the      *)
(* share holds, or excused; eviction keeps the limit as long as every path *)
(* of accessOrder has an entry; and the share stays a tree.                *)
(***************************************************************************)
EXTENDS CachedFileSystem, SliceLemmas, FiniteSetTheorems

(* Both provers, the quicker one first.                                      *)
USE ZenonT(1), SMTT(60)

(* The shape of the cache, and paths as arguments.                           *)
ShapeInv ==
  /\ accessOrder \in Seq(Paths)
  /\ statCache = [p \in Paths |-> statCache[p]]
  /\ dirCache = [p \in Paths |-> dirCache[p]]
  /\ arg \in [Clients -> Paths]
  /\ arg2 \in [Clients -> Paths]

TrackInv == ShapeInv /\ Tracked

-----------------------------------------------------------------------------
(* trackAccess leaves the path and all others in the list, once each.        *)
LEMMA TrackAccessProperties ==
  ASSUME NEW order \in Seq(Paths), NEW p \in Paths, IsInjective(order)
  PROVE  /\ trackAccess(order, p) \in Seq(Paths)
         /\ ToSet(order) \cup {p} \subseteq ToSet(trackAccess(order, p))
         /\ IsInjective(trackAccess(order, p))
<1>0. DOMAIN order = 1 .. Len(order) /\ \A j, k \in DOMAIN order : order[j] = order[k] => j = k
  BY DEF IsInjective
<1>1. CASE p \in ToSet(order)
  <2> DEFINE i == CHOOSE i \in DOMAIN order : order[i] = p
             t == RemoveAt(order, i)
  <2>1. i \in 1 .. Len(order) /\ order[i] = p
    BY <1>0, <1>1 DEF ToSet
  <2> HIDE DEF i
  <2>2. t \in Seq(Paths) /\ ToSet(order) \subseteq ToSet(t) \cup {p}
    BY <2>1, RemoveAtProperties, RemoveAtElements
  <2>3. p \notin ToSet(t) /\ \A j, k \in DOMAIN t : t[j] = t[k] => j = k
    BY <1>0, <2>1, RemoveAtUnique
  <2> HIDE DEF t
  <2>4. trackAccess(order, p) = Append(t, p)
    BY <1>1 DEF trackAccess, t, i
  <2> QED
    BY <2>2, <2>3, <2>4, MoveToEnd DEF IsInjective
<1>2. CASE p \notin ToSet(order)
  <2>1. trackAccess(order, p) = Append(order, p)
    BY <1>2 DEF trackAccess
  <2> QED
    BY <1>0, <1>2, <2>1, MoveToEnd DEF IsInjective
<1> QED
  BY <1>1, <1>2

(* How far evictIfNeeded goes: never past the end of accessOrder.            *)
LEMMA EvictCountRange ==
  ASSUME NEW stats, NEW dirs, NEW order \in Seq(Paths)
  PROVE  EvictCount(stats, dirs, order) \in 0 .. Len(order)
<1> DEFINE excess == TotalEntries(stats, dirs) - MaxCacheEntries
<1>1. Cardinality(Cached(stats)) \in Nat /\ Cardinality(Cached(dirs)) \in Nat
  BY CacheAssumption, FS_Subset, FS_CardinalityType DEF Cached
<1>2. excess \in Int /\ Len(order) \in Nat
  BY <1>1, CacheAssumption DEF TotalEntries
<1> HIDE DEF excess
<1>3. EvictCount(stats, dirs, order)
        = IF excess <= 0 THEN 0 ELSE IF excess > Len(order) THEN Len(order) ELSE excess
  BY DEF EvictCount, excess
<1> QED
  BY <1>2, <1>3

(* A put keeps everything cached in accessOrder, what it evicts being gone   *)
(* from both maps.                                                           *)
LEMMA StoreStep ==
  ASSUME TrackInv, NEW p \in Paths, NEW stats, NEW dirs,
         Cached(stats) \subseteq Cached(statCache) \cup {p},
         Cached(dirs) \subseteq Cached(dirCache) \cup {p},
         Store(stats, dirs, p)
  PROVE  /\ accessOrder' \in Seq(Paths)
         /\ statCache' = [q \in Paths |-> statCache'[q]]
         /\ dirCache' = [q \in Paths |-> dirCache'[q]]
         /\ Tracked'
<1> DEFINE order == trackAccess(accessOrder, p)
           n == EvictCount(stats, dirs, order)
           evicted == ToSet(SubSeq(order, 1, n))
<1>1. /\ order \in Seq(Paths) /\ IsInjective(order)
      /\ ToSet(accessOrder) \cup {p} \subseteq ToSet(order)
  BY TrackAccessProperties DEF TrackInv, ShapeInv, Tracked
<1> HIDE DEF order
<1>2. n \in 0 .. Len(order)
  BY <1>1, EvictCountRange
<1>3. /\ accessOrder' = SubSeq(order, n + 1, Len(order))
      /\ statCache' = [q \in Paths |-> IF q \in evicted THEN None ELSE stats[q]]
      /\ dirCache' = [q \in Paths |-> IF q \in evicted THEN None ELSE dirs[q]]
  BY DEF Store, order
<1> HIDE DEF n
<1>4. /\ accessOrder' \in Seq(Paths)
      /\ ToSet(order) \subseteq evicted \cup ToSet(accessOrder')
      /\ \A j, k \in DOMAIN accessOrder' : accessOrder'[j] = accessOrder'[k] => j = k
  BY <1>1, <1>2, <1>3, DropFront DEF IsInjective
<1> HIDE DEF evicted
<1>5. Cached(stats) \cup Cached(dirs) \subseteq ToSet(order)
  BY <1>1 DEF TrackInv, Tracked
<1>6. Cached(statCache)' \cup Cached(dirCache)' \subseteq (Cached(stats) \cup Cached(dirs)) \ evicted
  BY <1>3 DEF Cached
<1>7. Tracked'
  BY <1>4, <1>5, <1>6 DEF Tracked, IsInjective, ToSet
<1> QED
  BY <1>3, <1>4, <1>7

(* invalidate only takes entries away, and leaves accessOrder alone.         *)
LEMMA InvalidateStep ==
  ASSUME TrackInv, NEW p \in Paths, invalidate(p)
  PROVE  /\ accessOrder' \in Seq(Paths)
         /\ statCache' = [q \in Paths |-> statCache'[q]]
         /\ dirCache' = [q \in Paths |-> dirCache'[q]]
         /\ Tracked'
<1>1. accessOrder' = accessOrder
  BY DEF invalidate
<1>2. statCache' = [q \in Paths |-> IF q = p THEN None ELSE statCache[q]]
  BY DEF invalidate, TrackInv, ShapeInv
<1>3. dirCache' = [q \in Paths |-> IF q = p \/ q = getParentPath(p) THEN None ELSE dirCache[q]]
  BY DEF invalidate, TrackInv, ShapeInv
<1>4. Cached(statCache)' \subseteq Cached(statCache) /\ Cached(dirCache)' \subseteq Cached(dirCache)
  BY <1>2, <1>3 DEF Cached
<1> QED
  BY <1>1, <1>2, <1>3, <1>4, Zenon DEF TrackInv, ShapeInv, Tracked

(* An entry that expires stays where it is.                                  *)
LEMMA ExpireStep ==
  ASSUME TrackInv, Expire
  PROVE  /\ accessOrder' \in Seq(Paths)
         /\ statCache' = [q \in Paths |-> statCache'[q]]
         /\ dirCache' = [q \in Paths |-> dirCache'[q]]
         /\ Tracked'
<1>1. accessOrder' = accessOrder
  BY DEF Expire
<1>2. /\ statCache' = [q \in Paths |-> statCache'[q]]
      /\ \A q \in Paths : statCache'[q] = statCache[q] \/ q \in Cached(statCache)
  BY DEF Expire, TrackInv, ShapeInv, Hit, Cached
<1>3. /\ dirCache' = [q \in Paths |-> dirCache'[q]]
      /\ \A q \in Paths : dirCache'[q] = dirCache[q] \/ q \in Cached(dirCache)
  BY DEF Expire, TrackInv, ShapeInv, Hit, Cached
<1>4. Cached(statCache)' \subseteq Cached(statCache) /\ Cached(dirCache)' \subseteq Cached(dirCache)
  BY <1>2, <1>3 DEF Cached
<1> QED
  BY <1>1, <1>2, <1>3, <1>4 DEF TrackInv, ShapeInv, Tracked

(* Return leaves the arguments paths. *)
LEMMA ReturnArguments ==
  ASSUME ShapeInv, NEW c \in Clients, Return(c)
  PROVE  arg' \in [Clients -> Paths] /\ arg2' \in [Clients -> Paths]
BY CacheAssumption DEF Return, ShapeInv

(* So does a step that calls an operation, and leaves the cache alone.       *)
LEMMA QuietStep ==
  ASSUME TrackInv, UNCHANGED cacheVars,
         arg' \in [Clients -> Paths], arg2' \in [Clients -> Paths]
  PROVE  TrackInv'
BY Zenon DEF TrackInv, ShapeInv, Tracked, Cached, cacheVars

LEMMA OutcomeStep ==
  ASSUME TrackInv, NEW c \in Clients, NEW p \in Paths, Outcome(c, p)
  PROVE  TrackInv'
<1>1. arg2' = arg2 /\ UNCHANGED cacheVars
  BY DEF Outcome
<1>2. arg' \in [Clients -> Paths]
  BY DEF Outcome, Call, TrackInv, ShapeInv
<1> QED
  BY <1>1, <1>2, QuietStep DEF TrackInv, ShapeInv

-----------------------------------------------------------------------------
LEMMA TrackInit == Init => TrackInv
<1> SUFFICES ASSUME Init PROVE TrackInv
  OBVIOUS
<1>1. ShapeInv
  BY CacheAssumption DEF Init, CacheInit, ShapeInv
<1>2. Tracked
  BY DEF Init, CacheInit, Tracked, Cached, IsInjective
<1> QED
  BY <1>1, <1>2 DEF TrackInv

(* Every step keeps the list complete and free of duplicates.                *)
LEMMA TrackStep == TrackInv /\ [Next]_vars => TrackInv'
<1> SUFFICES ASSUME TrackInv, [Next]_vars PROVE TrackInv'
  OBVIOUS
<1>0. arg \in [Clients -> Paths] /\ arg2 \in [Clients -> Paths]
  BY DEF TrackInv, ShapeInv
<1>1. ASSUME NEW c \in Clients, StatPut(c) PROVE TrackInv'
  <2>1. arg[c] \in Paths
    BY <1>0
  <2> DEFINE stats == [statCache EXCEPT ![arg[c]] = Entry(val[c])]
  <2>2. Cached(stats) \subseteq Cached(statCache) \cup {arg[c]}
    BY DEF Cached, TrackInv, ShapeInv
  <2>3. Store(stats, dirCache, arg[c]) /\ Return(c)
    BY <1>1 DEF StatPut, putStatInfo
  <2> HIDE DEF stats
  <2> QED
    BY <2>1, <2>2, <2>3, StoreStep, ReturnArguments DEF TrackInv, ShapeInv
<1>2. ASSUME NEW c \in Clients, ReadDirPut(c) PROVE TrackInv'
  <2>1. arg[c] \in Paths
    BY <1>0
  <2> DEFINE dirs == [dirCache EXCEPT ![arg[c]] = Entry(val[c])]
  <2>2. Cached(dirs) \subseteq Cached(dirCache) \cup {arg[c]}
    BY DEF Cached, TrackInv, ShapeInv
  <2>3. Store(statCache, dirs, arg[c]) /\ Return(c)
    BY <1>2 DEF ReadDirPut, putDirEntries
  <2> HIDE DEF dirs
  <2> QED
    BY <2>1, <2>2, <2>3, StoreStep, ReturnArguments, Zenon DEF TrackInv, ShapeInv
<1>3. ASSUME NEW c \in Clients, InvalidateOld(c) PROVE TrackInv'
  <2>1. invalidate(arg[c]) /\ arg[c] \in Paths
    BY <1>0, <1>3 DEF InvalidateOld
  <2>2. arg' \in [Clients -> Paths] /\ arg2' \in [Clients -> Paths]
    BY <1>0, <1>3, CacheAssumption DEF InvalidateOld
  <2> QED
    BY <2>1, <2>2, InvalidateStep DEF TrackInv, ShapeInv
<1>4. ASSUME NEW c \in Clients, Invalidate(c) PROVE TrackInv'
  <2>1. invalidate(arg[c]) /\ arg[c] \in Paths /\ Return(c)
    BY <1>0, <1>4 DEF Invalidate
  <2> QED
    BY <2>1, InvalidateStep, ReturnArguments DEF TrackInv, ShapeInv
<1>5. ASSUME NEW c \in Clients, StatMiss(c) \/ ReadDirMiss(c) PROVE TrackInv'
  <2>1. arg' \in [Clients -> Paths] /\ arg2' = arg2 /\ UNCHANGED cacheVars
    BY <1>0, <1>5 DEF StatMiss, ReadDirMiss, Call
  <2> QED
    BY <1>0, <2>1, QuietStep
<1>6. ASSUME NEW c \in Clients, StatRequest(c) \/ ReadDirOpen(c) \/ ReadDirRead(c) PROVE TrackInv'
  <2>1. UNCHANGED cacheVars /\ (UNCHANGED <<arg, arg2>> \/ Return(c))
    BY <1>6 DEF StatRequest, ReadDirOpen, ReadDirRead
  <2> QED
    BY <1>0, <2>1, QuietStep, ReturnArguments DEF TrackInv
<1>7. ASSUME NEW c \in Clients,
             Mkdir(c) \/ OpenFileCreate(c) \/ RemovePath(c) \/ SetAttributes(c)
      PROVE  TrackInv'
  <2>1. \E p \in Paths : Outcome(c, p)
    BY <1>7, Zenon DEF Mkdir, OpenFileCreate, RemovePath, SetAttributes
  <2> QED
    BY <2>1, OutcomeStep
<1>8. ASSUME NEW c \in Clients, Rename(c) PROVE TrackInv'
  <2>1. arg' \in [Clients -> Paths] /\ arg2' \in [Clients -> Paths] /\ UNCHANGED cacheVars
    BY <1>0, <1>8 DEF Rename, RenameAnswered, RenameLost, Call
  <2> QED
    BY <2>1, QuietStep
<1>9. ASSUME NEW c \in Clients, FileWrite(c) PROVE TrackInv'
  <2>1. UNCHANGED <<arg, arg2>> /\ UNCHANGED cacheVars
    BY <1>9 DEF FileWrite
  <2> QED
    BY <1>0, <2>1, QuietStep
<1>10. ASSUME TtlExpires PROVE TrackInv'
  <2>1. Expire /\ UNCHANGED <<arg, arg2>>
    BY <1>10 DEF TtlExpires, clientVars
  <2> QED
    BY <2>1, ExpireStep DEF TrackInv, ShapeInv
<1>11. ASSUME UNCHANGED vars PROVE TrackInv'
  BY <1>0, <1>11, QuietStep DEF vars, clientVars
<1>12. ASSUME NEW c \in Clients, StatHit(c) \/ ReadDirHit(c) PROVE TrackInv'
  BY <1>11, <1>12 DEF StatHit, ReadDirHit
<1> QED
  BY <1>1, <1>2, <1>3, <1>4, <1>5, <1>6, <1>7, <1>8, <1>9, <1>10, <1>11, <1>12 DEF Next

(* Whatever goroutines call, every path with a cached entry is in            *)
(* accessOrder, once: evictIfNeeded can reach every entry of the cache.      *)
THEOREM CacheTracked == Spec => []Tracked
<1>1. TrackInv => Tracked
  BY DEF TrackInv
<1> QED
  BY <1>1, TrackInit, TrackStep, PTL DEF Spec

-----------------------------------------------------------------------------
(* Coherence of the cache with the share.                                    *)

ClientTypes ==
  /\ pc \in [Clients -> PCs]
  /\ overlap \in [Clients -> BOOLEAN]
  /\ DOMAIN val = Clients /\ DOMAIN dirFile = Clients
  /\ DOMAIN node = Paths
  /\ excused \in [stat : SUBSET Paths, dir : SUBSET Paths]

(* An entry keeps its value when it expires.                                 *)
Records(cache) ==
  \A p \in Paths : cache[p] # None =>
    cache[p] = [val |-> cache[p].val, expired |-> cache[p].expired]

(* What a goroutine has read and not yet cached is what the share has,       *)
(* unless the share was changed there since.                                 *)
ReadInv ==
  \A c \in Clients :
    ~overlap[c] =>
      /\ pc[c] = "statPut" => val[c] = node[arg[c]]
      /\ pc[c] = "read" => dirFile[c] = arg[c]
      /\ pc[c] = "dirPut" => val[c] = Listing(node, arg[c])

CohInv ==
  /\ TrackInv /\ ClientTypes
  /\ Records(statCache) /\ Records(dirCache)
  /\ ReadInv /\ StatCoherent /\ DirCoherent

(* A listing changes only with the entries of its directory.                 *)
LEMMA ListingSame ==
  ASSUME NEW t, NEW u, NEW p, \A x \in Children(p) : t[x] = u[x]
  PROVE  Listing(t, p) = Listing(u, p)
<1>1. {r \in Children(p) : t[r] # None} = {r \in Children(p) : u[r] # None}
  OBVIOUS
<1>2. \A q \in {r \in Children(p) : t[r] # None} : t[q] = u[q]
  OBVIOUS
<1> QED
  BY <1>1, <1>2 DEF Listing

PathNames == UNION {ToSet(p) : p \in Paths}

LEMMA PathsAreSequences == \A p \in Paths : p \in Seq(PathNames)
<1> SUFFICES ASSUME NEW p \in Paths PROVE p \in Seq(PathNames)
  OBVIOUS
<1>1. CASE p = <<>>
  BY <1>1
<1>2. CASE p # <<>>
  <2>1. p \in Seq(ToSet(p))
    BY <1>2, CacheAssumption
  <2>2. ToSet(p) \subseteq PathNames
    BY DEF PathNames
  <2> QED
    BY <2>1, <2>2, SeqMonotonic
<1> QED
  BY <1>1, <1>2

(* What is strictly below p lies in a directory that is p or below it.       *)
LEMMA PrefixFront ==
  ASSUME NEW p \in Paths, NEW x \in Paths, IsPrefix(p, x), x # p
  PROVE  x # <<>> /\ IsPrefix(p, Front(x))
<1>1. p \in Seq(PathNames) /\ x \in Seq(PathNames)
  BY PathsAreSequences
<1>2. Len(p) \in Nat /\ Len(x) \in Nat
  BY <1>1
<1>3. Len(p) <= Len(x) /\ \A i \in 1 .. Len(p) : p[i] = x[i]
  <2>1. Len(p) <= Len(x) /\ SubSeq(p, 1, Len(p)) = SubSeq(x, 1, Len(p))
    BY DEF IsPrefix
  <2>2. \A i \in 1 .. Len(p) : SubSeq(p, 1, Len(p))[i] = p[i]
    BY <1>1
  <2>3. \A i \in 1 .. Len(p) : SubSeq(x, 1, Len(p))[i] = x[i]
    BY <1>1, <1>2, <2>1
  <2> QED
    BY <2>1, <2>2, <2>3
<1>4. Len(p) # Len(x)
  BY <1>1, <1>3, SeqEqual
<1>5. Len(p) < Len(x) /\ Len(p) <= Len(x) - 1
  BY <1>2, <1>3, <1>4
<1>9. PICK n \in Nat : n = Len(x) - 1
  BY <1>2, <1>5
<1>10. /\ SubSeq(x, 1, n) \in Seq(PathNames) /\ Len(SubSeq(x, 1, n)) = n
       /\ \A i \in 1 .. n : SubSeq(x, 1, n)[i] = x[i]
  <2>1. n <= Len(x) /\ \A i \in 1 .. n : x[i] \in PathNames
    BY <1>1, <1>2, <1>9
  <2> QED
    BY <1>1, <2>1
<1>6. PICK f \in Seq(PathNames) : f = Front(x)
  BY <1>9, <1>10, Zenon DEF Front
<1>7. Len(f) = Len(x) - 1 /\ \A i \in 1 .. Len(f) : f[i] = x[i]
  BY <1>6, <1>9, <1>10 DEF Front
<1>8. SubSeq(p, 1, Len(p)) = SubSeq(f, 1, Len(p))
  <2>1. SubSeq(p, 1, Len(p)) \in Seq(PathNames) /\ Len(SubSeq(p, 1, Len(p))) = Len(p)
    BY <1>1, <1>2
  <2>2. SubSeq(f, 1, Len(p)) \in Seq(PathNames) /\ Len(SubSeq(f, 1, Len(p))) = Len(p)
    BY <1>2, <1>5, <1>7
  <2>3. \A i \in 1 .. Len(p) : SubSeq(p, 1, Len(p))[i] = SubSeq(f, 1, Len(p))[i]
    BY <1>1, <1>2, <1>3, <1>5, <1>7
  <2> QED
    BY <2>1, <2>2, <2>3, SeqEqual
<1> QED
  BY <1>1, <1>2, <1>5, <1>6, <1>7, <1>8 DEF IsPrefix

(* A step that leaves the cache alone keeps it coherent when every path it   *)
(* changes on the share is about to be invalidated or excused.               *)
LEMMA CoherenceKept ==
  ASSUME CohInv, UNCHANGED cacheVars,
         \A r \in Paths : Pending(r) => Pending(r)',
         \A r \in Cached(statCache) : r \in excused.stat => r \in excused'.stat,
         \A r \in Cached(dirCache) : r \in excused.dir => r \in excused'.dir,
         \A r \in Cached(statCache) :
           node'[r] = node[r] \/ r \in excused'.stat \/ Pending(r)',
         \A r \in Cached(dirCache) :
           \/ \A x \in Children(r) : node'[x] = node[x]
           \/ r \in excused'.dir
           \/ \E q \in {r} \cup Children(r) : Pending(q)'
  PROVE  StatCoherent' /\ DirCoherent' /\ Records(statCache)' /\ Records(dirCache)'
<1>1. statCache' = statCache /\ dirCache' = dirCache
  BY DEF cacheVars
<1>2. Cached(statCache)' = Cached(statCache) /\ Cached(dirCache)' = Cached(dirCache)
  BY <1>1 DEF Cached
<1>3. StatCoherent'
  <2>1. SUFFICES ASSUME NEW r \in Cached(statCache)
                 PROVE  statCache[r].val = node'[r] \/ r \in excused'.stat \/ Pending(r)'
    BY <1>1, <1>2 DEF StatCoherent
  <2>2. r \in Paths
    BY DEF Cached
  <2>3. statCache[r].val = node[r] \/ r \in excused.stat \/ Pending(r)
    BY DEF CohInv, StatCoherent
  <2> QED
    BY <2>2, <2>3
<1>4. DirCoherent'
  <2>1. SUFFICES ASSUME NEW r \in Cached(dirCache)
                 PROVE  \/ dirCache[r].val = Listing(node', r)
                        \/ r \in excused'.dir
                        \/ \E q \in {r} \cup Children(r) : Pending(q)'
    BY <1>1, <1>2 DEF DirCoherent, Listing, Children
  <2>2. r \in Paths /\ Children(r) \subseteq Paths
    BY DEF Cached, Children
  <2>3. \/ dirCache[r].val = Listing(node, r)
        \/ r \in excused.dir
        \/ \E q \in {r} \cup Children(r) : Pending(q)
    BY DEF CohInv, DirCoherent
  <2>4. (\A x \in Children(r) : node'[x] = node[x]) => Listing(node', r) = Listing(node, r)
    BY ListingSame
  <2> QED
    BY <2>2, <2>3, <2>4
<1>5. Records(statCache)' /\ Records(dirCache)'
  BY <1>1 DEF CohInv, Records
<1> QED
  BY <1>3, <1>4, <1>5

(* A change at one path p, when p is about to be invalidated or p and the    *)
(* listing it is in are excused.                                             *)
LEMMA PointCoherent ==
  ASSUME CohInv, UNCHANGED cacheVars, NEW p \in Paths, NEW n,
         node' = [node EXCEPT ![p] = n],
         \A r \in Paths : Pending(r) => Pending(r)',
         \A r \in Cached(statCache) : r \in excused.stat => r \in excused'.stat,
         \A r \in Cached(dirCache) : r \in excused.dir => r \in excused'.dir,
         \/ Pending(p)'
         \/ /\ p \in Cached(statCache) => p \in excused'.stat
            /\ getParentPath(p) \in Cached(dirCache) => getParentPath(p) \in excused'.dir
  PROVE  StatCoherent' /\ DirCoherent' /\ Records(statCache)' /\ Records(dirCache)'
<1>1. \A r \in Paths : r # p => node'[r] = node[r]
  BY DEF CohInv, ClientTypes
<1>2. Cached(statCache) \subseteq Paths /\ Cached(dirCache) \subseteq Paths
  BY DEF Cached
<1>3. \A r \in Cached(statCache) :
        node'[r] = node[r] \/ r \in excused'.stat \/ Pending(r)'
  BY <1>1, <1>2
<1>4. ASSUME NEW r \in Cached(dirCache)
      PROVE  \/ \A x \in Children(r) : node'[x] = node[x]
             \/ r \in excused'.dir
             \/ \E q \in {r} \cup Children(r) : Pending(q)'
  <2>1. CASE p \in Children(r)
    <3>1. r = getParentPath(p)
      BY <2>1 DEF Children, getParentPath
    <3> QED
      BY <2>1, <3>1
  <2>2. CASE p \notin Children(r)
    BY <1>1, <2>2 DEF Children
  <2> QED
    BY <2>1, <2>2
<1> QED
  BY <1>3, <1>4, CoherenceKept

(* What a change does to what the goroutines have read.                      *)
LEMMA ChangeReads ==
  ASSUME CohInv, NEW tree, NEW files, Change(tree, files),
         NEW c \in Clients, val' = val,
         pc' \in [Clients -> PCs], pc'[c] \in {"idle", "inval", "invalOld"},
         \A d \in Clients \ {c} : pc'[d] = pc[d] /\ arg'[d] = arg[d]
  PROVE  ReadInv' /\ overlap' \in [Clients -> BOOLEAN]
<1>1. overlap' \in [Clients -> BOOLEAN]
  BY DEF Change
<1>2. ASSUME NEW d \in Clients \ {c}, ~overlap'[d]
      PROVE  /\ pc'[d] = "statPut" => val'[d] = node'[arg'[d]]
             /\ pc'[d] = "read" => dirFile'[d] = arg'[d]
             /\ pc'[d] = "dirPut" => val'[d] = Listing(node', arg'[d])
  <2>1. /\ ~overlap[d] /\ files[d] = dirFile[d]
        /\ pc[d] = "statPut" => tree[arg[d]] = node[arg[d]]
        /\ pc[d] = "dirPut" => Listing(tree, arg[d]) = Listing(node, arg[d])
    BY <1>2 DEF Change
  <2>2. node' = tree /\ dirFile' = files
    BY DEF Change
  <2> QED
    BY <2>1, <2>2 DEF CohInv, ReadInv
<1>3. ReadInv'
  BY <1>2 DEF ReadInv, Listing, Children
<1> QED
  BY <1>1, <1>3

LEMMA ExcusedType ==
  ASSUME NEW stats, NEW dirs, Excused(stats, dirs)
  PROVE  /\ excused' \in [stat : SUBSET Paths, dir : SUBSET Paths]
         /\ excused'.stat = stats \cap Cached(statCache')
         /\ excused'.dir = dirs \cap Cached(dirCache')
BY DEF Excused, Cached

(* A change at one path, followed by the reply or its loss.                  *)
LEMMA PointStep ==
  ASSUME CohInv, NEW c \in Clients, NEW p \in Paths, NEW n, NEW files,
         Change([node EXCEPT ![p] = n], files), DOMAIN files = Clients, Outcome(c, p)
  PROVE  CohInv'
<1>1. /\ UNCHANGED cacheVars /\ val' = val /\ pc[c] = "idle"
      /\ node' = [node EXCEPT ![p] = n] /\ dirFile' = files
  BY DEF Outcome, Call, Called, Change
<1>2. TrackInv'
  BY OutcomeStep DEF CohInv
<1>3. statCache' = statCache /\ dirCache' = dirCache
  BY <1>1 DEF cacheVars
<1>4. pc \in [Clients -> PCs] /\ arg \in [Clients -> Paths]
  BY DEF CohInv, ClientTypes, TrackInv, ShapeInv
<1>5. /\ pc' \in [Clients -> PCs] /\ pc'[c] \in {"idle", "inval"}
      /\ \A d \in Clients \ {c} : pc'[d] = pc[d] /\ arg'[d] = arg[d]
  BY <1>1, <1>4 DEF Outcome, Call, Goto, PCs
<1>6. \A r \in Paths : Pending(r) => Pending(r)'
  BY <1>1, <1>5 DEF Pending, Outcome
<1>7. \/ excused' = excused /\ Pending(p)'
      \/ Excused(excused.stat \cup {p}, excused.dir \cup {p, getParentPath(p)})
  BY <1>4 DEF Outcome, Call, Goto, Pending
<1>8. /\ excused' \in [stat : SUBSET Paths, dir : SUBSET Paths]
      /\ \A r \in Cached(statCache) : r \in excused.stat => r \in excused'.stat
      /\ \A r \in Cached(dirCache) : r \in excused.dir => r \in excused'.dir
      /\ \/ Pending(p)'
         \/ /\ p \in Cached(statCache) => p \in excused'.stat
            /\ getParentPath(p) \in Cached(dirCache) => getParentPath(p) \in excused'.dir
  <2>1. CASE excused' = excused /\ Pending(p)'
    BY <2>1 DEF CohInv, ClientTypes
  <2>2. CASE Excused(excused.stat \cup {p}, excused.dir \cup {p, getParentPath(p)})
    BY <1>3, <2>2, ExcusedType
  <2> QED
    BY <1>7, <2>1, <2>2
<1>9. StatCoherent' /\ DirCoherent' /\ Records(statCache)' /\ Records(dirCache)'
  BY <1>1, <1>6, <1>8, PointCoherent, Zenon
<1>10. ReadInv' /\ overlap' \in [Clients -> BOOLEAN]
  BY <1>1, <1>5, ChangeReads
<1>11. ClientTypes'
  BY <1>1, <1>5, <1>8, <1>10 DEF CohInv, ClientTypes
<1> QED
  BY <1>2, <1>9, <1>10, <1>11 DEF CohInv

LEMMA FileWriteStep ==
  ASSUME CohInv, TrackInv', NEW c \in Clients, FileWrite(c)
  PROVE  CohInv'
<1>1. PICK p \in Paths :
        /\ Change([node EXCEPT ![p] = Touch(@)], dirFile)
        /\ UNCHANGED <<cacheVars, pc, arg, arg2, val>>
        /\ Excused(excused.stat \cup {p}, excused.dir \cup {getParentPath(p)})
  BY Zenon DEF FileWrite
<1>2. PICK n : Change([node EXCEPT ![p] = n], dirFile)
  BY <1>1, Zenon DEF Touch
<1>3. node' = [node EXCEPT ![p] = n] /\ dirFile' = dirFile /\ UNCHANGED cacheVars
  BY <1>1, <1>2, Zenon DEF Change
<1>4. statCache' = statCache /\ dirCache' = dirCache
  BY <1>3 DEF cacheVars
<1>5. pc[c] = "idle" /\ pc \in [Clients -> PCs]
  BY DEF FileWrite, Called, CohInv, ClientTypes
<1>6. \A r \in Paths : Pending(r) => Pending(r)'
  BY <1>1 DEF Pending
<1>7. /\ excused' \in [stat : SUBSET Paths, dir : SUBSET Paths]
      /\ \A r \in Cached(statCache) : r \in excused.stat => r \in excused'.stat
      /\ \A r \in Cached(dirCache) : r \in excused.dir => r \in excused'.dir
      /\ p \in Cached(statCache) => p \in excused'.stat
      /\ getParentPath(p) \in Cached(dirCache) => getParentPath(p) \in excused'.dir
  BY <1>1, <1>4, ExcusedType
<1>8. StatCoherent' /\ DirCoherent' /\ Records(statCache)' /\ Records(dirCache)'
  BY <1>3, <1>6, <1>7, PointCoherent, Zenon
<1>9. ReadInv' /\ overlap' \in [Clients -> BOOLEAN]
  BY <1>1, <1>2, <1>5, ChangeReads
<1>10. ClientTypes'
  BY <1>1, <1>3, <1>7, <1>9 DEF CohInv, ClientTypes
<1> QED
  BY <1>8, <1>9, <1>10 DEF CohInv

(* Rename: the two paths are about to be invalidated or, with the reply      *)
(* lost, excused with their parents' listings; everything below them is      *)
(* excused, nothing else changes.                                            *)
LEMMA RenameStep ==
  ASSUME CohInv, TrackInv', NEW c \in Clients, Rename(c)
  PROVE  CohInv'
<1>1. PICK p, q \in Paths :
        /\ Change(Moved(p, q), MovedFiles(p, q))
        /\ UNCHANGED <<cacheVars, val>>
        /\ RenameAnswered(c, p, q) \/ RenameLost(c, p, q)
  BY Zenon DEF Rename
<1> DEFINE below == BelowEither(p, q)
           Settled(z) == /\ z \in Cached(statCache) => z \in excused'.stat
                         /\ z \in Cached(dirCache) => z \in excused'.dir
                         /\ getParentPath(z) \in Cached(dirCache) => getParentPath(z) \in excused'.dir
<1>2. node' = Moved(p, q) /\ DOMAIN dirFile' = Clients /\ UNCHANGED cacheVars /\ val' = val
  BY <1>1 DEF Change, MovedFiles
<1>3. statCache' = statCache /\ dirCache' = dirCache
  BY <1>2 DEF cacheVars
<1>4. DOMAIN node' = Paths
  BY <1>2 DEF Moved
<1>5. \A r \in Paths : ~IsPrefix(p, r) /\ ~IsPrefix(q, r) => node'[r] = node[r]
  BY <1>2 DEF Moved
<1>6. pc \in [Clients -> PCs] /\ arg \in [Clients -> Paths] /\ arg2 \in [Clients -> Paths]
  BY DEF CohInv, ClientTypes, TrackInv, ShapeInv
<1>7. /\ pc[c] = "idle" /\ pc' \in [Clients -> PCs] /\ pc'[c] \in {"idle", "invalOld"}
      /\ \A d \in Clients \ {c} : pc'[d] = pc[d] /\ arg'[d] = arg[d] /\ arg2'[d] = arg2[d]
  BY <1>1, <1>6 DEF RenameAnswered, RenameLost, Call, Called, Goto, PCs
<1>8. \A r \in Paths : Pending(r) => Pending(r)'
  BY <1>7 DEF Pending
<1>9. \/ /\ pc'[c] = "invalOld" /\ arg'[c] = p /\ arg2'[c] = q
         /\ Excused(excused.stat \cup below, excused.dir \cup below)
      \/ Excused(excused.stat \cup below \cup {p, q},
                 excused.dir \cup below \cup {p, q, getParentPath(p), getParentPath(q)})
  BY <1>1, <1>6 DEF RenameAnswered, RenameLost, Call, Called, Goto
<1>10. /\ excused' \in [stat : SUBSET Paths, dir : SUBSET Paths]
       /\ \A r \in Cached(statCache) : r \in excused.stat \cup below => r \in excused'.stat
       /\ \A r \in Cached(dirCache) : r \in excused.dir \cup below => r \in excused'.dir
       /\ \A z \in {p, q} : Pending(z)' \/ Settled(z)
  <2> HIDE DEF below
  <2>1. CASE /\ pc'[c] = "invalOld" /\ arg'[c] = p /\ arg2'[c] = q
             /\ Excused(excused.stat \cup below, excused.dir \cup below)
    <3>1. Pending(p)' /\ Pending(q)'
      BY <2>1 DEF Pending
    <3> QED
      BY <1>3, <2>1, <3>1, ExcusedType
  <2>2. CASE Excused(excused.stat \cup below \cup {p, q},
                     excused.dir \cup below \cup {p, q, getParentPath(p), getParentPath(q)})
    BY <1>3, <2>2, ExcusedType
  <2> QED
    BY <1>9, <2>1, <2>2
<1>11. \A r \in Paths : IsPrefix(p, r) \/ IsPrefix(q, r) => r \in below \cup {p, q}
  BY DEF BelowEither, IsStrictPrefix
<1> HIDE DEF below
<1>12. Cached(statCache) \subseteq Paths /\ Cached(dirCache) \subseteq Paths
  BY DEF Cached
<1>13. \A r \in Cached(statCache) :
         node'[r] = node[r] \/ r \in excused'.stat \/ Pending(r)'
  BY <1>5, <1>8, <1>10, <1>11, <1>12
<1>14. ASSUME NEW r \in Cached(dirCache)
       PROVE  \/ \A x \in Children(r) : node'[x] = node[x]
              \/ r \in excused'.dir
              \/ \E z \in {r} \cup Children(r) : Pending(z)'
  <2>1. SUFFICES ASSUME NEW x \in Children(r), node'[x] # node[x]
                 PROVE  \/ r \in excused'.dir
                        \/ \E z \in {r} \cup Children(r) : Pending(z)'
    OBVIOUS
  <2>2. x \in Paths /\ Front(x) = r /\ r \in Paths
    BY <1>12 DEF Children
  <2>3. x \in {p, q} => Pending(x)' \/ r \in excused'.dir
    <3>1. getParentPath(x) = r
      BY <2>2 DEF Children, getParentPath
    <3> QED
      BY <1>10, <3>1
  <2>4. x \notin {p, q} => IsPrefix(p, r) \/ IsPrefix(q, r)
    BY <1>5, <2>1, <2>2, PrefixFront
  <2>5. IsPrefix(p, r) \/ IsPrefix(q, r) => r \in excused'.dir \/ Pending(r)'
    BY <1>8, <1>10, <1>11, <2>2
  <2> QED
    BY <2>3, <2>4, <2>5
<1>15. StatCoherent' /\ DirCoherent' /\ Records(statCache)' /\ Records(dirCache)'
  BY <1>2, <1>8, <1>10, <1>13, <1>14, CoherenceKept
<1>16. ReadInv' /\ overlap' \in [Clients -> BOOLEAN]
  BY <1>1, <1>2, <1>7, ChangeReads
<1>17. ClientTypes'
  BY <1>2, <1>4, <1>7, <1>10, <1>16 DEF CohInv, ClientTypes
<1> QED
  BY <1>15, <1>16, <1>17 DEF CohInv

(* A goroutine returns: what the others have read is untouched, and only     *)
(* what it has itself still to invalidate is no longer pending.              *)
LEMMA ReturnReads ==
  ASSUME CohInv, NEW c \in Clients, Return(c), node' = node
  PROVE  /\ ReadInv' /\ pc' \in [Clients -> PCs] /\ overlap' \in [Clients -> BOOLEAN]
         /\ DOMAIN val' = Clients /\ DOMAIN dirFile' = Clients
         /\ \A r \in Paths :
              Pending(r) => \/ Pending(r)'
                            \/ pc[c] \in {"inval", "invalOld"} /\ arg[c] = r
                            \/ pc[c] = "invalOld" /\ arg2[c] = r
<1>1. /\ pc \in [Clients -> PCs] /\ overlap \in [Clients -> BOOLEAN]
      /\ arg \in [Clients -> Paths] /\ arg2 \in [Clients -> Paths]
      /\ DOMAIN val = Clients /\ DOMAIN dirFile = Clients
  BY DEF CohInv, ClientTypes, TrackInv, ShapeInv
<1>2. /\ pc'[c] = "idle" /\ pc' \in [Clients -> PCs] /\ overlap' \in [Clients -> BOOLEAN]
      /\ DOMAIN val' = Clients /\ DOMAIN dirFile' = Clients
  BY <1>1 DEF Return, Goto, PCs
<1>3. \A d \in Clients \ {c} :
        /\ pc'[d] = pc[d] /\ arg'[d] = arg[d] /\ arg2'[d] = arg2[d]
        /\ val'[d] = val[d] /\ dirFile'[d] = dirFile[d] /\ overlap'[d] = overlap[d]
  BY <1>1 DEF Return, Goto
<1>4. ReadInv'
  <2>1. ASSUME NEW d \in Clients \ {c}, ~overlap'[d]
        PROVE  /\ pc'[d] = "statPut" => val'[d] = node'[arg'[d]]
               /\ pc'[d] = "read" => dirFile'[d] = arg'[d]
               /\ pc'[d] = "dirPut" => val'[d] = Listing(node', arg'[d])
    BY <1>3, <2>1 DEF CohInv, ReadInv
  <2> QED
    BY <1>2, <2>1, Zenon DEF ReadInv, Listing, Children
<1>5. \A r \in Paths :
        Pending(r) => \/ Pending(r)'
                      \/ pc[c] \in {"inval", "invalOld"} /\ arg[c] = r
                      \/ pc[c] = "invalOld" /\ arg2[c] = r
  BY <1>3 DEF Pending
<1> QED
  BY <1>2, <1>4, <1>5

(* What putStatInfo and putDirEntries leave behind: entries that were there, *)
(* or the new one.                                                           *)
LEMMA StoreEntries ==
  ASSUME NEW p \in Paths, NEW stats, NEW dirs, Store(stats, dirs, p)
  PROVE  /\ \A r \in Paths : statCache'[r] # None => statCache'[r] = stats[r]
         /\ \A r \in Paths : dirCache'[r] # None => dirCache'[r] = dirs[r]
BY DEF Store

LEMMA StatPutStep ==
  ASSUME CohInv, TrackInv', NEW c \in Clients, StatPut(c)
  PROVE  CohInv'
<1> DEFINE a == arg[c]
           stats == [statCache EXCEPT ![a] = Entry(val[c])]
<1>1. /\ pc[c] = "statPut" /\ Return(c) /\ node' = node
      /\ Store(stats, dirCache, a)
      /\ Excused(IF overlap[c] THEN excused.stat \cup {a} ELSE excused.stat \ {a},
                 excused.dir)
  BY DEF StatPut, putStatInfo
<1>2. a \in Paths /\ statCache = [p \in Paths |-> statCache[p]] /\ overlap[c] \in BOOLEAN
  BY DEF CohInv, TrackInv, ShapeInv, ClientTypes
<1>3. \A r \in Paths : statCache'[r] # None =>
        statCache'[r] = IF r = a THEN Entry(val[c]) ELSE statCache[r]
  BY <1>1, <1>2, StoreEntries
<1>4. \A r \in Paths : dirCache'[r] # None => dirCache'[r] = dirCache[r]
  BY <1>1, <1>2, StoreEntries
<1>5. /\ ReadInv' /\ pc' \in [Clients -> PCs] /\ overlap' \in [Clients -> BOOLEAN]
      /\ DOMAIN val' = Clients /\ DOMAIN dirFile' = Clients
      /\ \A r \in Paths : Pending(r) => Pending(r)'
  BY <1>1, ReturnReads
<1> HIDE DEF stats
<1>6. /\ excused' \in [stat : SUBSET Paths, dir : SUBSET Paths]
      /\ excused'.stat = (IF overlap[c] THEN excused.stat \cup {a} ELSE excused.stat \ {a})
                         \cap Cached(statCache')
      /\ excused'.dir = excused.dir \cap Cached(dirCache')
  BY <1>1, ExcusedType
<1>7. ~overlap[c] => val[c] = node[a]
  BY <1>1 DEF CohInv, ReadInv
<1>8. Entry(val[c]) = [val |-> val[c], expired |-> FALSE] /\ Entry(val[c]).val = val[c]
  BY DEF Entry
<1> HIDE DEF a
<1>9. StatCoherent'
  <2>1. SUFFICES ASSUME NEW r \in Paths, statCache'[r] # None
                 PROVE  statCache'[r].val = node[r] \/ r \in excused'.stat \/ Pending(r)'
    BY <1>1 DEF StatCoherent, Cached
  <2>2. r \in Cached(statCache')
    BY <2>1 DEF Cached
  <2>3. CASE r = a
    BY <1>3, <1>6, <1>7, <1>8, <2>1, <2>2, <2>3
  <2>4. CASE r # a
    <3>1. statCache'[r] = statCache[r] /\ r \in Cached(statCache)
      BY <1>3, <2>1, <2>4 DEF Cached
    <3>2. statCache[r].val = node[r] \/ r \in excused.stat \/ Pending(r)
      BY <3>1 DEF CohInv, StatCoherent
    <3> QED
      BY <1>5, <1>6, <2>2, <2>4, <3>1, <3>2
  <2> QED
    BY <2>3, <2>4
<1>10. DirCoherent'
  <2>1. SUFFICES ASSUME NEW r \in Paths, dirCache'[r] # None
                 PROVE  \/ dirCache'[r].val = Listing(node, r)
                        \/ r \in excused'.dir
                        \/ \E q \in {r} \cup Children(r) : Pending(q)'
    BY <1>1 DEF DirCoherent, Cached, Listing, Children
  <2>2. r \in Cached(dirCache') /\ dirCache'[r] = dirCache[r] /\ r \in Cached(dirCache)
    BY <1>4, <2>1 DEF Cached
  <2>3. \/ dirCache[r].val = Listing(node, r)
        \/ r \in excused.dir
        \/ \E q \in {r} \cup Children(r) : Pending(q)
    BY <2>2 DEF CohInv, DirCoherent
  <2>4. Children(r) \subseteq Paths
    BY DEF Children
  <2> QED
    BY <1>5, <1>6, <2>2, <2>3, <2>4
<1>11. Records(statCache)' /\ Records(dirCache)'
  BY <1>3, <1>4, <1>8 DEF CohInv, Records
<1>12. ClientTypes'
  BY <1>1, <1>5, <1>6 DEF CohInv, ClientTypes
<1> QED
  BY <1>5, <1>9, <1>10, <1>11, <1>12 DEF CohInv

LEMMA ReadDirPutStep ==
  ASSUME CohInv, TrackInv', NEW c \in Clients, ReadDirPut(c)
  PROVE  CohInv'
<1> DEFINE a == arg[c]
           dirs == [dirCache EXCEPT ![a] = Entry(val[c])]
<1>1. /\ pc[c] = "dirPut" /\ Return(c) /\ node' = node
      /\ Store(statCache, dirs, a)
      /\ Excused(excused.stat,
                 IF overlap[c] THEN excused.dir \cup {a} ELSE excused.dir \ {a})
  BY DEF ReadDirPut, putDirEntries
<1>2. a \in Paths /\ dirCache = [p \in Paths |-> dirCache[p]] /\ overlap[c] \in BOOLEAN
  BY DEF CohInv, TrackInv, ShapeInv, ClientTypes
<1>3. \A r \in Paths : dirCache'[r] # None =>
        dirCache'[r] = IF r = a THEN Entry(val[c]) ELSE dirCache[r]
  BY <1>1, <1>2, StoreEntries
<1>4. \A r \in Paths : statCache'[r] # None => statCache'[r] = statCache[r]
  BY <1>1, <1>2, StoreEntries
<1>5. /\ ReadInv' /\ pc' \in [Clients -> PCs] /\ overlap' \in [Clients -> BOOLEAN]
      /\ DOMAIN val' = Clients /\ DOMAIN dirFile' = Clients
      /\ \A r \in Paths : Pending(r) => Pending(r)'
  BY <1>1, ReturnReads
<1> HIDE DEF dirs
<1>6. /\ excused' \in [stat : SUBSET Paths, dir : SUBSET Paths]
      /\ excused'.dir = (IF overlap[c] THEN excused.dir \cup {a} ELSE excused.dir \ {a})
                        \cap Cached(dirCache')
      /\ excused'.stat = excused.stat \cap Cached(statCache')
  BY <1>1, ExcusedType
<1>7. ~overlap[c] => val[c] = Listing(node, a)
  BY <1>1 DEF CohInv, ReadInv
<1>8. Entry(val[c]) = [val |-> val[c], expired |-> FALSE] /\ Entry(val[c]).val = val[c]
  BY DEF Entry
<1> HIDE DEF a
<1>9. StatCoherent'
  <2>1. SUFFICES ASSUME NEW r \in Paths, statCache'[r] # None
                 PROVE  statCache'[r].val = node[r] \/ r \in excused'.stat \/ Pending(r)'
    BY <1>1 DEF StatCoherent, Cached
  <2>2. r \in Cached(statCache') /\ statCache'[r] = statCache[r] /\ r \in Cached(statCache)
    BY <1>4, <2>1 DEF Cached
  <2>3. statCache[r].val = node[r] \/ r \in excused.stat \/ Pending(r)
    BY <2>2 DEF CohInv, StatCoherent
  <2> QED
    BY <1>5, <1>6, <2>2, <2>3
<1>10. DirCoherent'
  <2>1. SUFFICES ASSUME NEW r \in Paths, dirCache'[r] # None
                 PROVE  \/ dirCache'[r].val = Listing(node, r)
                        \/ r \in excused'.dir
                        \/ \E q \in {r} \cup Children(r) : Pending(q)'
    BY <1>1 DEF DirCoherent, Cached, Listing, Children
  <2>2. r \in Cached(dirCache')
    BY <2>1 DEF Cached
  <2>3. CASE r = a
    BY <1>3, <1>6, <1>7, <1>8, <2>1, <2>2, <2>3
  <2>4. CASE r # a
    <3>1. dirCache'[r] = dirCache[r] /\ r \in Cached(dirCache)
      BY <1>3, <2>1, <2>4 DEF Cached
    <3>2. \/ dirCache[r].val = Listing(node, r)
          \/ r \in excused.dir
          \/ \E q \in {r} \cup Children(r) : Pending(q)
      BY <3>1 DEF CohInv, DirCoherent
    <3>3. Children(r) \subseteq Paths
      BY DEF Children
    <3> QED
      BY <1>5, <1>6, <2>2, <2>4, <3>1, <3>2, <3>3
  <2> QED
    BY <2>3, <2>4
<1>11. Records(statCache)' /\ Records(dirCache)'
  BY <1>3, <1>4, <1>8 DEF CohInv, Records
<1>12. ClientTypes'
  BY <1>1, <1>5, <1>6 DEF CohInv, ClientTypes
<1> QED
  BY <1>5, <1>9, <1>10, <1>11, <1>12 DEF CohInv

(* invalidate(a) takes away everything whose coherence hung on a.            *)
LEMMA InvalidateCoherent ==
  ASSUME CohInv, NEW a \in Paths, invalidate(a), Excused(excused.stat, excused.dir),
         node' = node,
         \A r \in Paths : Pending(r) => r = a \/ Pending(r)'
  PROVE  /\ StatCoherent' /\ DirCoherent' /\ Records(statCache)' /\ Records(dirCache)'
         /\ excused' \in [stat : SUBSET Paths, dir : SUBSET Paths]
<1>1. \A r \in Paths : statCache'[r] = IF r = a THEN None ELSE statCache[r]
  BY Zenon DEF invalidate, CohInv, TrackInv, ShapeInv
<1>2. \A r \in Paths :
        dirCache'[r] = IF r = a \/ r = getParentPath(a) THEN None ELSE dirCache[r]
  BY DEF invalidate, CohInv, TrackInv, ShapeInv
<1>3. /\ excused' \in [stat : SUBSET Paths, dir : SUBSET Paths]
      /\ excused'.stat = excused.stat \cap Cached(statCache')
      /\ excused'.dir = excused.dir \cap Cached(dirCache')
  BY ExcusedType
<1>4. StatCoherent'
  <2>1. SUFFICES ASSUME NEW r \in Paths, statCache'[r] # None
                 PROVE  statCache'[r].val = node[r] \/ r \in excused'.stat \/ Pending(r)'
    BY DEF StatCoherent, Cached
  <2>2. /\ r # a /\ statCache'[r] = statCache[r]
        /\ r \in Cached(statCache) /\ r \in Cached(statCache')
    BY <1>1, <2>1 DEF Cached
  <2>3. statCache[r].val = node[r] \/ r \in excused.stat \/ Pending(r)
    BY <2>2 DEF CohInv, StatCoherent
  <2> QED
    BY <1>3, <2>2, <2>3
<1>5. DirCoherent'
  <2>1. SUFFICES ASSUME NEW r \in Paths, dirCache'[r] # None
                 PROVE  \/ dirCache'[r].val = Listing(node, r)
                        \/ r \in excused'.dir
                        \/ \E q \in {r} \cup Children(r) : Pending(q)'
    BY DEF DirCoherent, Cached, Listing, Children
  <2>2. /\ r # a /\ r # getParentPath(a) /\ dirCache'[r] = dirCache[r]
        /\ r \in Cached(dirCache) /\ r \in Cached(dirCache')
    BY <1>2, <2>1 DEF Cached
  <2>3. \/ dirCache[r].val = Listing(node, r)
        \/ r \in excused.dir
        \/ \E q \in {r} \cup Children(r) : Pending(q)
    BY <2>2 DEF CohInv, DirCoherent
  <2>4. a \notin {r} \cup Children(r) /\ {r} \cup Children(r) \subseteq Paths
    BY <2>2 DEF Children, getParentPath
  <2> QED
    BY <1>3, <2>2, <2>3, <2>4
<1>6. Records(statCache)' /\ Records(dirCache)'
  BY <1>1, <1>2 DEF CohInv, Records
<1> QED
  BY <1>3, <1>4, <1>5, <1>6

LEMMA InvalidateSteps ==
  ASSUME CohInv, TrackInv', NEW c \in Clients, InvalidateOld(c) \/ Invalidate(c)
  PROVE  CohInv'
<1>1. /\ pc \in [Clients -> PCs] /\ overlap \in [Clients -> BOOLEAN]
      /\ arg \in [Clients -> Paths] /\ arg2 \in [Clients -> Paths]
  BY DEF CohInv, ClientTypes, TrackInv, ShapeInv
<1>2. CASE InvalidateOld(c)
  <2>1. /\ pc[c] = "invalOld" /\ invalidate(arg[c]) /\ Excused(excused.stat, excused.dir)
        /\ UNCHANGED <<node, dirFile, val, overlap>>
    BY <1>2 DEF InvalidateOld
  <2>2. /\ pc'[c] = "inval" /\ pc' \in [Clients -> PCs] /\ arg'[c] = arg2[c]
        /\ \A d \in Clients \ {c} : pc'[d] = pc[d] /\ arg'[d] = arg[d] /\ arg2'[d] = arg2[d]
    BY <1>1, <1>2 DEF InvalidateOld, Goto, PCs
  <2>3. \A r \in Paths : Pending(r) => r = arg[c] \/ Pending(r)'
    BY <2>1, <2>2 DEF Pending
  <2>4. /\ StatCoherent' /\ DirCoherent' /\ Records(statCache)' /\ Records(dirCache)'
        /\ excused' \in [stat : SUBSET Paths, dir : SUBSET Paths]
    BY <1>1, <2>1, <2>3, InvalidateCoherent
  <2>5. ReadInv'
    <3>1. ASSUME NEW d \in Clients \ {c}, ~overlap'[d]
          PROVE  /\ pc'[d] = "statPut" => val'[d] = node'[arg'[d]]
                 /\ pc'[d] = "read" => dirFile'[d] = arg'[d]
                 /\ pc'[d] = "dirPut" => val'[d] = Listing(node', arg'[d])
      BY <2>1, <2>2, <3>1 DEF CohInv, ReadInv
    <3> QED
      BY <2>2, <3>1 DEF ReadInv, Listing, Children
  <2>6. ClientTypes'
    BY <2>1, <2>2, <2>4 DEF CohInv, ClientTypes
  <2> QED
    BY <2>4, <2>5, <2>6 DEF CohInv
<1>3. CASE Invalidate(c)
  <2>1. /\ pc[c] = "inval" /\ invalidate(arg[c]) /\ Excused(excused.stat, excused.dir)
        /\ Return(c) /\ node' = node
    BY <1>3 DEF Invalidate
  <2>2. /\ ReadInv' /\ pc' \in [Clients -> PCs] /\ overlap' \in [Clients -> BOOLEAN]
        /\ DOMAIN val' = Clients /\ DOMAIN dirFile' = Clients
        /\ \A r \in Paths : Pending(r) => r = arg[c] \/ Pending(r)'
    BY <2>1, ReturnReads
  <2>3. /\ StatCoherent' /\ DirCoherent' /\ Records(statCache)' /\ Records(dirCache)'
        /\ excused' \in [stat : SUBSET Paths, dir : SUBSET Paths]
    BY <1>1, <2>1, <2>2, InvalidateCoherent
  <2>4. ClientTypes'
    BY <2>1, <2>2, <2>3 DEF CohInv, ClientTypes
  <2> QED
    BY <2>2, <2>3, <2>4 DEF CohInv
<1> QED
  BY <1>2, <1>3

(* Lookups and requests: the cache, the share and the excuses stay.          *)
LEMMA RequestCoherent ==
  ASSUME CohInv, UNCHANGED <<cacheVars, node, excused>>,
         \A r \in Paths : Pending(r) => Pending(r)'
  PROVE  StatCoherent' /\ DirCoherent' /\ Records(statCache)' /\ Records(dirCache)'
BY CoherenceKept

LEMMA RequestSteps ==
  ASSUME CohInv, TrackInv', NEW c \in Clients,
         \/ StatMiss(c) \/ ReadDirMiss(c) \/ StatRequest(c) \/ ReadDirOpen(c)
         \/ ReadDirRead(c)
  PROVE  CohInv'
<1>1. /\ pc \in [Clients -> PCs] /\ overlap \in [Clients -> BOOLEAN]
      /\ arg \in [Clients -> Paths] /\ arg2 \in [Clients -> Paths]
      /\ DOMAIN val = Clients /\ DOMAIN dirFile = Clients
  BY DEF CohInv, ClientTypes, TrackInv, ShapeInv
<1>2. /\ UNCHANGED <<cacheVars, node, excused>>
      /\ pc[c] \in {"idle", "stat", "open", "read"}
  BY DEF StatMiss, ReadDirMiss, StatRequest, ReadDirOpen, ReadDirRead, Call, Called
<1>3. CASE Return(c)
  <2>1. /\ ReadInv' /\ pc' \in [Clients -> PCs] /\ overlap' \in [Clients -> BOOLEAN]
        /\ DOMAIN val' = Clients /\ DOMAIN dirFile' = Clients
        /\ \A r \in Paths : Pending(r) => Pending(r)'
    BY <1>2, <1>3, ReturnReads
  <2>2. StatCoherent' /\ DirCoherent' /\ Records(statCache)' /\ Records(dirCache)'
    BY <1>2, <2>1, RequestCoherent
  <2>3. ClientTypes'
    BY <1>2, <2>1 DEF CohInv, ClientTypes
  <2> QED
    BY <2>1, <2>2, <2>3 DEF CohInv
<1>4. CASE ~Return(c)
  <2>1. /\ overlap' = overlap /\ arg2' = arg2
        /\ DOMAIN val' = Clients /\ DOMAIN dirFile' = Clients
        /\ pc' \in [Clients -> PCs] /\ pc'[c] \in {"stat", "open", "statPut", "read", "dirPut"}
        /\ \A d \in Clients \ {c} :
             /\ pc'[d] = pc[d] /\ arg'[d] = arg[d]
             /\ val'[d] = val[d] /\ dirFile'[d] = dirFile[d]
    BY <1>1, <1>4 DEF StatMiss, ReadDirMiss, StatRequest, ReadDirOpen, ReadDirRead, Call,
                      Goto, PCs
  <2>2. /\ pc'[c] = "statPut" => val'[c] = node[arg[c]] /\ arg'[c] = arg[c]
        /\ pc'[c] = "read" => dirFile'[c] = arg[c] /\ arg'[c] = arg[c]
        /\ pc'[c] = "dirPut" => /\ val'[c] = Listing(node, dirFile[c])
                                /\ arg'[c] = arg[c] /\ pc[c] = "read"
    BY <1>1, <1>4 DEF StatMiss, ReadDirMiss, StatRequest, ReadDirOpen, ReadDirRead, Call,
                      Goto, PCs
  <2>3. ReadInv'
    <3>1. ASSUME NEW d \in Clients, ~overlap'[d]
          PROVE  /\ pc'[d] = "statPut" => val'[d] = node'[arg'[d]]
                 /\ pc'[d] = "read" => dirFile'[d] = arg'[d]
                 /\ pc'[d] = "dirPut" => val'[d] = Listing(node', arg'[d])
      BY <1>2, <2>1, <2>2, <3>1 DEF CohInv, ReadInv
    <3> QED
      BY <3>1 DEF ReadInv, Listing, Children
  <2>4. \A r \in Paths : Pending(r) => Pending(r)'
    BY <1>2, <2>1 DEF Pending
  <2>5. StatCoherent' /\ DirCoherent' /\ Records(statCache)' /\ Records(dirCache)'
    BY <1>2, <2>4, RequestCoherent
  <2>6. ClientTypes'
    BY <1>2, <2>1, <1>1 DEF CohInv, ClientTypes
  <2> QED
    BY <2>3, <2>5, <2>6 DEF CohInv
<1> QED
  BY <1>3, <1>4

(* A TTL that runs out marks an entry, and leaves its value.                 *)
LEMMA MarkExpired ==
  ASSUME NEW cache, DOMAIN cache = Paths, NEW p \in Paths, NEW V, NEW T, TRUE \in T,
         cache[p] \in [val : V, expired : T],
         NEW new, new = [cache EXCEPT ![p].expired = TRUE]
  PROVE  /\ DOMAIN new = Paths /\ \A r \in Paths : r # p => new[r] = cache[r]
         /\ new[p] \in [val : V, expired : T]
<1>1. new[p] = [cache[p] EXCEPT !.expired = TRUE]
  BY Zenon
<1>2. ASSUME NEW r \in [val : V, expired : T]
      PROVE  [r EXCEPT !.expired = TRUE] \in [val : V, expired : T]
  BY Zenon
<1>3. new[p] \in [val : V, expired : T]
  BY <1>1, <1>2, Zenon
<1>4. DOMAIN new = Paths /\ \A r \in Paths : r # p => new[r] = cache[r]
  BY Zenon
<1> QED
  BY <1>3, <1>4, Zenon

LEMMA EntryShape ==
  ASSUME NEW r, r = [val |-> r.val, expired |-> r.expired]
  PROVE  r \in [val : {r.val}, expired : {r.expired, TRUE}]
OBVIOUS

LEMMA ExpireEntry ==
  ASSUME NEW cache, DOMAIN cache = Paths, Records(cache), NEW p \in Paths, Hit(cache, p),
         NEW new, DOMAIN new = Paths, \A r \in Paths : r # p => new[r] = cache[r],
         new[p] \in [val : {cache[p].val}, expired : {cache[p].expired, TRUE}]
  PROVE  /\ Cached(new) \subseteq Cached(cache) /\ Records(new)
         /\ \A r \in Cached(new) : new[r].val = cache[r].val
<1>4. /\ new[p].val = cache[p].val
      /\ new[p] = [val |-> new[p].val, expired |-> new[p].expired]
  OBVIOUS
<1>5. Records(new)
  <2>1. SUFFICES ASSUME NEW r \in Paths, new[r] # None
                 PROVE  new[r] = [val |-> new[r].val, expired |-> new[r].expired]
    BY DEF Records
  <2>2. CASE r = p
    BY <1>4, <2>2
  <2>3. CASE r # p
    BY <2>1, <2>3 DEF Records
  <2> QED
    BY <2>2, <2>3
<1>6. Cached(new) \subseteq Cached(cache)
  BY DEF Cached, Hit
<1>7. \A r \in Cached(new) : new[r].val = cache[r].val
  BY <1>4 DEF Cached
<1> QED
  BY <1>5, <1>6, <1>7

LEMMA TtlExpiresStep ==
  ASSUME CohInv, TrackInv', TtlExpires
  PROVE  CohInv'
<1>1. /\ Expire /\ node' = node /\ excused' = excused /\ pc' = pc /\ arg' = arg /\ arg2' = arg2
      /\ dirFile' = dirFile /\ val' = val /\ overlap' = overlap
  BY DEF TtlExpires, clientVars
<1>2. DOMAIN statCache = Paths /\ DOMAIN dirCache = Paths
  BY DEF CohInv, TrackInv, ShapeInv
<1>3. /\ Records(statCache)' /\ Records(dirCache)'
      /\ Cached(statCache)' \subseteq Cached(statCache)
      /\ Cached(dirCache)' \subseteq Cached(dirCache)
      /\ \A r \in Cached(statCache)' : statCache'[r].val = statCache[r].val
      /\ \A r \in Cached(dirCache)' : dirCache'[r].val = dirCache[r].val
  <2>1. ASSUME NEW p \in Paths, Hit(statCache, p),
               statCache' = [statCache EXCEPT ![p].expired = TRUE], dirCache' = dirCache
        PROVE  /\ Records(statCache)' /\ Records(dirCache)'
               /\ Cached(statCache)' \subseteq Cached(statCache)
               /\ Cached(dirCache)' \subseteq Cached(dirCache)
               /\ \A r \in Cached(statCache)' : statCache'[r].val = statCache[r].val
               /\ \A r \in Cached(dirCache)' : dirCache'[r].val = dirCache[r].val
    <3>1. /\ Cached(statCache') \subseteq Cached(statCache) /\ Records(statCache')
          /\ \A r \in Cached(statCache') : statCache'[r].val = statCache[r].val
      <4>1. statCache[p] \in [val : {statCache[p].val}, expired : {statCache[p].expired, TRUE}]
        BY <2>1, EntryShape, Zenon DEF CohInv, Records, Hit
      <4>2. /\ DOMAIN statCache' = Paths /\ \A r \in Paths : r # p => statCache'[r] = statCache[r]
            /\ statCache'[p] \in [val : {statCache[p].val}, expired : {statCache[p].expired, TRUE}]
        BY <1>2, <2>1, <4>1, MarkExpired, Zenon
      <4>3. Records(statCache) /\ Hit(statCache, p)
        BY <2>1 DEF CohInv
      <4> QED
        BY <1>2, <4>2, <4>3, ExpireEntry, ZenonT(30)
    <3>2. dirCache' = dirCache
      BY <2>1
    <3> QED
      BY <3>1, <3>2 DEF CohInv, Records, Cached
  <2>2. ASSUME NEW p \in Paths, Hit(dirCache, p),
               dirCache' = [dirCache EXCEPT ![p].expired = TRUE], statCache' = statCache
        PROVE  /\ Records(statCache)' /\ Records(dirCache)'
               /\ Cached(statCache)' \subseteq Cached(statCache)
               /\ Cached(dirCache)' \subseteq Cached(dirCache)
               /\ \A r \in Cached(statCache)' : statCache'[r].val = statCache[r].val
               /\ \A r \in Cached(dirCache)' : dirCache'[r].val = dirCache[r].val
    <3>1. /\ Cached(dirCache') \subseteq Cached(dirCache) /\ Records(dirCache')
          /\ \A r \in Cached(dirCache') : dirCache'[r].val = dirCache[r].val
      <4>1. dirCache[p] \in [val : {dirCache[p].val}, expired : {dirCache[p].expired, TRUE}]
        BY <2>2, EntryShape, Zenon DEF CohInv, Records, Hit
      <4>2. /\ DOMAIN dirCache' = Paths /\ \A r \in Paths : r # p => dirCache'[r] = dirCache[r]
            /\ dirCache'[p] \in [val : {dirCache[p].val}, expired : {dirCache[p].expired, TRUE}]
        BY <1>2, <2>2, <4>1, MarkExpired, Zenon
      <4>3. Records(dirCache) /\ Hit(dirCache, p)
        BY <2>2 DEF CohInv
      <4> QED
        BY <1>2, <4>2, <4>3, ExpireEntry, Zenon
    <3>2. statCache' = statCache
      BY <2>2
    <3> QED
      BY <3>1, <3>2 DEF CohInv, Records, Cached
  <2> QED
    BY <1>1, <2>1, <2>2 DEF Expire
<1>4. \A r \in Paths : Pending(r) <=> Pending(r)'
  BY <1>1 DEF Pending
<1>5. StatCoherent'
  <2>1. SUFFICES ASSUME NEW r \in Cached(statCache)'
                 PROVE  statCache'[r].val = node'[r] \/ r \in excused'.stat \/ Pending(r)'
    BY DEF StatCoherent
  <2>2. r \in Paths /\ r \in Cached(statCache)
    BY <1>3 DEF Cached
  <2> QED
    BY <1>1, <1>3, <1>4, <2>2 DEF CohInv, StatCoherent
<1>6. DirCoherent'
  <2>1. SUFFICES ASSUME NEW r \in Cached(dirCache)'
                 PROVE  \/ dirCache'[r].val = Listing(node, r)
                        \/ r \in excused'.dir
                        \/ \E q \in {r} \cup Children(r) : Pending(q)'
    BY <1>1 DEF DirCoherent, Listing, Children
  <2>2. r \in Paths /\ r \in Cached(dirCache) /\ Children(r) \subseteq Paths
    BY <1>3 DEF Cached, Children
  <2> QED
    BY <1>1, <1>3, <1>4, <2>2 DEF CohInv, DirCoherent
<1>7. ReadInv'
  BY <1>1 DEF CohInv, ReadInv, Listing, Children
<1>8. ClientTypes'
  BY <1>1 DEF CohInv, ClientTypes
<1> QED
  BY <1>3, <1>5, <1>6, <1>7, <1>8 DEF CohInv

LEMMA CohInit == Init => CohInv
<1> SUFFICES ASSUME Init PROVE CohInv
  OBVIOUS
<1>1. /\ \A p \in Paths : statCache[p] = None /\ dirCache[p] = None
      /\ node = InitialTree /\ pc = [c \in Clients |-> "idle"]
      /\ dirFile = [c \in Clients |-> None] /\ val = [c \in Clients |-> None]
      /\ overlap = [c \in Clients |-> FALSE] /\ excused = [stat |-> {}, dir |-> {}]
  BY DEF Init, CacheInit
<1>2. StatCoherent /\ DirCoherent /\ Records(statCache) /\ Records(dirCache)
  BY <1>1 DEF StatCoherent, DirCoherent, Records, Cached
<1>3. ReadInv
  BY <1>1 DEF ReadInv
<1>4. excused \in [stat : SUBSET Paths, dir : SUBSET Paths] /\ DOMAIN node = Paths
  BY <1>1, TreeAssumption
<1>5. ClientTypes
  BY <1>1, <1>4 DEF ClientTypes, PCs
<1> QED
  BY <1>2, <1>3, <1>5, TrackInit DEF CohInv

(* Every step keeps the cache coherent.                                      *)
LEMMA CohStep == CohInv /\ [Next]_vars => CohInv'
<1> SUFFICES ASSUME CohInv, [Next]_vars PROVE CohInv'
  OBVIOUS
<1>0. TrackInv'
  BY TrackStep DEF CohInv
<1>1. ASSUME NEW c \in Clients,
             Mkdir(c) \/ OpenFileCreate(c) \/ RemovePath(c) \/ SetAttributes(c)
      PROVE  CohInv'
  <2>1. PICK p \in Paths : /\ Outcome(c, p)
                           /\ \E n, files : /\ Change([node EXCEPT ![p] = n], files)
                                            /\ DOMAIN files = Clients
    <3>0. DOMAIN dirFile = Clients
      BY DEF CohInv, ClientTypes
    <3>1. CASE Mkdir(c)
      BY <3>0, <3>1, Zenon DEF Mkdir
    <3>2. CASE OpenFileCreate(c)
      BY <3>0, <3>2, Zenon DEF OpenFileCreate
    <3>3. CASE RemovePath(c)
      <4>1. PICK p \in Paths \ {<<>>} :
              /\ Change([node EXCEPT ![p] = None],
                        [d \in Clients |-> IF dirFile[d] = p THEN None ELSE dirFile[d]])
              /\ Outcome(c, p)
        BY <3>3, Zenon DEF RemovePath
      <4> DEFINE files == [d \in Clients |-> IF dirFile[d] = p THEN None ELSE dirFile[d]]
      <4>2. DOMAIN files = Clients /\ Change([node EXCEPT ![p] = None], files)
        BY <4>1
      <4> HIDE DEF files
      <4> QED
        BY <4>1, <4>2
    <3>4. CASE SetAttributes(c)
      <4>1. PICK p \in Paths :
              /\ Change([node EXCEPT ![p] = Touch(@)], dirFile)
              /\ Outcome(c, p)
        BY <3>4 DEF SetAttributes
      <4> DEFINE n == Touch(node[p])
      <4>2. Change([node EXCEPT ![p] = n], dirFile)
        BY <4>1, Zenon
      <4> HIDE DEF n
      <4> QED
        BY <3>0, <4>1, <4>2, Zenon
    <3> QED
      BY <1>1, <3>1, <3>2, <3>3, <3>4, Zenon
  <2>2. PICK n, files : /\ Change([node EXCEPT ![p] = n], files)
                        /\ DOMAIN files = Clients
    BY <2>1
  <2> QED
    BY <2>1, <2>2, PointStep
<1>2. ASSUME UNCHANGED vars PROVE CohInv'
  <2>1. UNCHANGED <<cacheVars, node, excused, pc, arg, arg2, dirFile, val, overlap>>
    BY <1>2 DEF vars, clientVars
  <2>2. \A r \in Paths : Pending(r) => Pending(r)'
    BY <2>1 DEF Pending
  <2>3. StatCoherent' /\ DirCoherent' /\ Records(statCache)' /\ Records(dirCache)'
    BY <2>1, <2>2, RequestCoherent
  <2>4. ReadInv'
    BY <2>1 DEF CohInv, ReadInv, Listing, Children
  <2>5. ClientTypes'
    BY <2>1 DEF CohInv, ClientTypes
  <2> QED
    BY <1>0, <2>3, <2>4, <2>5 DEF CohInv
<1>3. ASSUME NEW c \in Clients, StatHit(c) \/ ReadDirHit(c) PROVE CohInv'
  BY <1>2, <1>3 DEF StatHit, ReadDirHit
<1>4. ASSUME NEW c \in Clients,
             \/ StatMiss(c) \/ StatRequest(c) \/ ReadDirMiss(c) \/ ReadDirOpen(c)
             \/ ReadDirRead(c)
      PROVE  CohInv'
  BY <1>0, <1>4, RequestSteps
<1>5. ASSUME NEW c \in Clients, StatPut(c) PROVE CohInv'
  BY <1>0, <1>5, StatPutStep
<1>6. ASSUME NEW c \in Clients, ReadDirPut(c) PROVE CohInv'
  BY <1>0, <1>6, ReadDirPutStep
<1>7. ASSUME NEW c \in Clients, Rename(c) PROVE CohInv'
  BY <1>0, <1>7, RenameStep
<1>8. ASSUME NEW c \in Clients, InvalidateOld(c) \/ Invalidate(c) PROVE CohInv'
  BY <1>0, <1>8, InvalidateSteps
<1>9. ASSUME NEW c \in Clients, FileWrite(c) PROVE CohInv'
  BY <1>0, <1>9, FileWriteStep
<1>10. ASSUME TtlExpires PROVE CohInv'
  BY <1>0, <1>10, TtlExpiresStep
<1> QED
  BY <1>1, <1>2, <1>3, <1>4, <1>5, <1>6, <1>7, <1>8, <1>9, <1>10 DEF Next

(* A stat result in the cache is the share's, unless the path was changed by *)
(* an operation that still has to invalidate it, or is excused: changed      *)
(* through a File, under a renamed directory or by a request whose reply was *)
(* lost, or changed while the Stat that filled the entry was under way.      *)
THEOREM StatsStayCoherent == Spec => []StatCoherent
<1>1. CohInv => StatCoherent
  BY DEF CohInv
<1> QED
  BY <1>1, CohInit, CohStep, PTL DEF Spec

(* A listing in the cache is the share's, with the attributes of its         *)
(* entries, under the same exceptions, which its entries also make.          *)
THEOREM ListingsStayCoherent == Spec => []DirCoherent
<1>1. CohInv => DirCoherent
  BY DEF CohInv
<1> QED
  BY <1>1, CohInit, CohStep, PTL DEF Spec

-----------------------------------------------------------------------------
(* The limit on the number of entries.                                       *)

LEMMA CachedCount ==
  ASSUME NEW cache, NEW S, Cached(cache) \subseteq S, S \subseteq Paths
  PROVE  /\ IsFiniteSet(Cached(cache)) /\ IsFiniteSet(S)
         /\ Cardinality(Cached(cache)) \in Nat /\ Cardinality(S) \in Nat
         /\ Cardinality(Cached(cache)) <= Cardinality(S)
<1>1. IsFiniteSet(S)
  BY CacheAssumption, FS_Subset
<1>2. IsFiniteSet(Cached(cache)) /\ Cardinality(Cached(cache)) <= Cardinality(S)
  BY <1>1, FS_Subset
<1> QED
  BY <1>1, <1>2, FS_CardinalityType

(* trackAccess adds no path but the one asked for.                           *)
LEMMA TrackAccessAddsOne ==
  ASSUME NEW order \in Seq(Paths), NEW p \in Paths
  PROVE  ToSet(trackAccess(order, p)) \subseteq ToSet(order) \cup {p}
<1> DEFINE i == CHOOSE i \in DOMAIN order : order[i] = p
           rest == IF p \in ToSet(order) THEN RemoveAt(order, i) ELSE order
<1>1. rest \in Seq(Paths) /\ ToSet(rest) \subseteq ToSet(order)
  <2>1. CASE p \in ToSet(order)
    <3>1. i \in 1 .. Len(order)
      BY <2>1 DEF ToSet
    <3> HIDE DEF i
    <3> QED
      BY <2>1, <3>1, RemoveAtProperties, RemoveAtElements
  <2>2. CASE p \notin ToSet(order)
    BY <2>2
  <2> QED
    BY <2>1, <2>2
<1>2. trackAccess(order, p) = Append(rest, p)
  BY DEF trackAccess
<1> HIDE DEF rest, i
<1> QED
  BY <1>1, <1>2 DEF ToSet

(* evictIfNeeded after one entry was added to a cache within its limit, when *)
(* every path of accessOrder has an entry.                                   *)
LEMMA StoreLimit ==
  ASSUME TrackInv, NEW p \in Paths, NEW stats, NEW dirs,
         ToSet(accessOrder) \subseteq Cached(statCache) \cup Cached(dirCache),
         TotalEntries(statCache, dirCache) <= MaxCacheEntries,
         Cached(stats) \ {p} = Cached(statCache) \ {p},
         Cached(dirs) \ {p} = Cached(dirCache) \ {p},
         Cached(stats) = Cached(statCache) \/ Cached(dirs) = Cached(dirCache),
         Store(stats, dirs, p)
  PROVE  TotalEntries(statCache', dirCache') <= MaxCacheEntries
<1> DEFINE order == trackAccess(accessOrder, p)
           n == EvictCount(stats, dirs, order)
           evicted == ToSet(SubSeq(order, 1, n))
           A == Cardinality(Cached(stats))
           B == Cardinality(Cached(dirs))
<1>1. /\ order \in Seq(Paths) /\ p \in ToSet(order)
      /\ ToSet(order) \subseteq ToSet(accessOrder) \cup {p}
  BY TrackAccessProperties, TrackAccessAddsOne DEF TrackInv, ShapeInv, Tracked
<1>2. /\ Cached(statCache') = Cached(stats) \ evicted
      /\ Cached(dirCache') = Cached(dirs) \ evicted
  BY DEF Store, Cached
<1> HIDE DEF order
<1>3. /\ Cached(stats) \subseteq Paths /\ Cached(dirs) \subseteq Paths
      /\ Cached(statCache) \subseteq Paths /\ Cached(dirCache) \subseteq Paths
      /\ Cached(statCache') \subseteq Cached(stats) /\ Cached(dirCache') \subseteq Cached(dirs)
  BY <1>2 DEF Cached
<1>4. /\ A \in Nat /\ B \in Nat
      /\ IsFiniteSet(Cached(stats)) /\ IsFiniteSet(Cached(dirs))
      /\ Cardinality(Cached(statCache)) \in Nat /\ Cardinality(Cached(dirCache)) \in Nat
      /\ IsFiniteSet(Cached(statCache)) /\ IsFiniteSet(Cached(dirCache))
      /\ Cardinality(Cached(statCache')) \in Nat /\ Cardinality(Cached(dirCache')) \in Nat
      /\ Cardinality(Cached(statCache')) <= A /\ Cardinality(Cached(dirCache')) <= B
  BY <1>3, CachedCount
<1>5. MaxCacheEntries \in Nat
  BY CacheAssumption
<1>6. CASE A + B <= MaxCacheEntries
  BY <1>4, <1>5, <1>6 DEF TotalEntries
<1>7. CASE A + B > MaxCacheEntries
  <2>1. /\ A <= Cardinality(Cached(statCache)) + 1
        /\ B <= Cardinality(Cached(dirCache)) + 1
    <3>1. ASSUME NEW S, NEW T, IsFiniteSet(S), IsFiniteSet(T), S \ {p} = T \ {p}
          PROVE  Cardinality(S) <= Cardinality(T) + 1
      <4>1. IsFiniteSet(T \cup {p}) /\ Cardinality(T \cup {p}) <= Cardinality(T) + 1
        BY <3>1, FS_AddElement, FS_CardinalityType
      <4>2. S \subseteq T \cup {p}
        BY <3>1
      <4>3. Cardinality(S) <= Cardinality(T \cup {p})
        BY <4>1, <4>2, FS_Subset
      <4>4. /\ Cardinality(S) \in Nat /\ Cardinality(T) \in Nat
            /\ Cardinality(T \cup {p}) \in Nat
        BY <3>1, <4>1, FS_CardinalityType
      <4> QED
        BY <4>1, <4>3, <4>4
    <3> QED
      BY <1>4, <3>1
  <2>2. A + B = MaxCacheEntries + 1
    <3>1. CASE Cached(stats) = Cached(statCache)
      BY <1>4, <1>5, <1>7, <2>1, <3>1 DEF TotalEntries
    <3>2. CASE Cached(dirs) = Cached(dirCache)
      BY <1>4, <1>5, <1>7, <2>1, <3>2 DEF TotalEntries
    <3> QED
      BY <3>1, <3>2
  <2>3. p \in Cached(stats) \cup Cached(dirs)
    <3>1. SUFFICES ASSUME p \notin Cached(stats), p \notin Cached(dirs) PROVE FALSE
      OBVIOUS
    <3>2. Cached(stats) \subseteq Cached(statCache) /\ Cached(dirs) \subseteq Cached(dirCache)
      BY <3>1
    <3>3. A <= Cardinality(Cached(statCache)) /\ B <= Cardinality(Cached(dirCache))
      BY <1>3, <3>2, CachedCount
    <3> QED
      BY <1>4, <1>5, <1>7, <3>3 DEF TotalEntries
  <2>4. ToSet(order) \subseteq Cached(stats) \cup Cached(dirs)
    BY <1>1, <2>3
  <2>5. Len(order) \in Nat /\ Len(order) >= 1
    BY <1>1 DEF ToSet
  <2>6. n = 1
    BY <1>4, <1>5, <2>2, <2>5 DEF EvictCount, TotalEntries
  <2> HIDE DEF n
  <2>7. order[1] \in evicted /\ order[1] \in ToSet(order)
    <3>1. SubSeq(order, 1, 1) \in Seq(Paths) /\ Len(SubSeq(order, 1, 1)) = 1
          /\ SubSeq(order, 1, 1)[1] = order[1]
      BY <1>1, <2>5
    <3>2. 1 \in DOMAIN SubSeq(order, 1, 1)
      BY <3>1
    <3> QED
      BY <1>1, <2>5, <2>6, <3>1, <3>2 DEF ToSet
  <2> HIDE DEF evicted, A, B
  <2>8. CASE order[1] \in Cached(stats)
    <3>1. /\ IsFiniteSet(Cached(stats) \ {order[1]})
          /\ Cardinality(Cached(stats) \ {order[1]}) = Cardinality(Cached(stats)) - 1
      BY <1>4, <2>8, FS_RemoveElement
    <3>2. Cached(statCache') \subseteq Cached(stats) \ {order[1]}
      BY <1>2, <2>7
    <3>3. Cardinality(Cached(statCache')) <= A - 1
      BY <3>1, <3>2, FS_Subset DEF A
    <3> QED
      BY <1>4, <1>5, <2>2, <3>3 DEF TotalEntries
  <2>9. CASE order[1] \in Cached(dirs)
    <3>1. /\ IsFiniteSet(Cached(dirs) \ {order[1]})
          /\ Cardinality(Cached(dirs) \ {order[1]}) = Cardinality(Cached(dirs)) - 1
      BY <1>4, <2>9, FS_RemoveElement
    <3>2. Cached(dirCache') \subseteq Cached(dirs) \ {order[1]}
      BY <1>2, <2>7
    <3>3. Cardinality(Cached(dirCache')) <= B - 1
      BY <3>1, <3>2, FS_Subset DEF B
    <3> QED
      BY <1>4, <1>5, <2>2, <3>3 DEF TotalEntries
  <2> QED
    BY <2>4, <2>7, <2>8, <2>9
<1> QED
  BY <1>4, <1>5, <1>6, <1>7

LEMMA ShrinkLimit ==
  ASSUME TotalEntries(statCache, dirCache) <= MaxCacheEntries,
         Cached(statCache') \subseteq Cached(statCache),
         Cached(dirCache') \subseteq Cached(dirCache)
  PROVE  TotalEntries(statCache', dirCache') <= MaxCacheEntries
<1>1. Cached(statCache) \subseteq Paths /\ Cached(dirCache) \subseteq Paths
  BY DEF Cached
<1>2. /\ Cardinality(Cached(statCache)) \in Nat /\ Cardinality(Cached(dirCache)) \in Nat
      /\ Cardinality(Cached(statCache')) \in Nat /\ Cardinality(Cached(dirCache')) \in Nat
      /\ Cardinality(Cached(statCache')) <= Cardinality(Cached(statCache))
      /\ Cardinality(Cached(dirCache')) <= Cardinality(Cached(dirCache))
  BY <1>1, CachedCount
<1> QED
  BY <1>2, CacheAssumption DEF TotalEntries

(* A step of the client: a put, or one that takes no entry in.               *)
LEMMA LimitStep ==
  ASSUME TrackInv, [Next]_vars,
         ToSet(accessOrder) \subseteq Cached(statCache) \cup Cached(dirCache),
         TotalEntries(statCache, dirCache) <= MaxCacheEntries
  PROVE  TotalEntries(statCache', dirCache') <= MaxCacheEntries
<1>0. /\ \A c \in Clients : arg[c] \in Paths
      /\ DOMAIN statCache = Paths /\ DOMAIN dirCache = Paths
  BY DEF TrackInv, ShapeInv
<1>1. ASSUME NEW c \in Clients, StatPut(c)
      PROVE  TotalEntries(statCache', dirCache') <= MaxCacheEntries
  <2> DEFINE stats == [statCache EXCEPT ![arg[c]] = Entry(val[c])]
  <2>1. Store(stats, dirCache, arg[c])
    BY <1>1 DEF StatPut, putStatInfo
  <2>2. Cached(stats) \ {arg[c]} = Cached(statCache) \ {arg[c]}
    BY <1>0 DEF Cached
  <2> HIDE DEF stats
  <2> QED
    BY <1>0, <2>1, <2>2, StoreLimit
<1>2. ASSUME NEW c \in Clients, ReadDirPut(c)
      PROVE  TotalEntries(statCache', dirCache') <= MaxCacheEntries
  <2> DEFINE dirs == [dirCache EXCEPT ![arg[c]] = Entry(val[c])]
  <2>1. Store(statCache, dirs, arg[c])
    BY <1>2 DEF ReadDirPut, putDirEntries
  <2>2. Cached(dirs) \ {arg[c]} = Cached(dirCache) \ {arg[c]}
    BY <1>0 DEF Cached
  <2> HIDE DEF dirs
  <2> QED
    BY <1>0, <2>1, <2>2, StoreLimit
<1>3. ASSUME NEW c \in Clients, InvalidateOld(c) \/ Invalidate(c)
      PROVE  TotalEntries(statCache', dirCache') <= MaxCacheEntries
  <2>1. invalidate(arg[c])
    BY <1>3 DEF InvalidateOld, Invalidate
  <2>2. /\ Cached(statCache') \subseteq Cached(statCache)
        /\ Cached(dirCache') \subseteq Cached(dirCache)
    BY <1>0, <2>1 DEF invalidate, Cached
  <2> QED
    BY <2>2, ShrinkLimit
<1>4. ASSUME TtlExpires
      PROVE  TotalEntries(statCache', dirCache') <= MaxCacheEntries
  <2>1. /\ \A q \in Paths : statCache'[q] = statCache[q] \/ q \in Cached(statCache)
        /\ \A q \in Paths : dirCache'[q] = dirCache[q] \/ q \in Cached(dirCache)
    BY <1>0, <1>4 DEF TtlExpires, Expire, Hit, Cached
  <2>2. /\ Cached(statCache') \subseteq Cached(statCache)
        /\ Cached(dirCache') \subseteq Cached(dirCache)
    BY <2>1 DEF Cached
  <2> QED
    BY <2>2, ShrinkLimit
<1>5. ASSUME UNCHANGED cacheVars
      PROVE  TotalEntries(statCache', dirCache') <= MaxCacheEntries
  BY <1>5 DEF cacheVars
<1>6. ASSUME NEW c \in Clients,
             \/ StatHit(c) \/ StatMiss(c) \/ StatRequest(c) \/ ReadDirHit(c) \/ ReadDirMiss(c)
             \/ ReadDirOpen(c) \/ ReadDirRead(c) \/ Mkdir(c) \/ OpenFileCreate(c)
             \/ RemovePath(c) \/ SetAttributes(c) \/ Rename(c) \/ FileWrite(c)
      PROVE  UNCHANGED cacheVars
  <2>1. CASE StatHit(c) \/ ReadDirHit(c)
    BY <2>1 DEF StatHit, ReadDirHit, vars
  <2>2. CASE StatMiss(c) \/ StatRequest(c) \/ ReadDirMiss(c) \/ ReadDirOpen(c) \/ ReadDirRead(c)
    BY <2>2 DEF StatMiss, StatRequest, ReadDirMiss, ReadDirOpen, ReadDirRead
  <2>3. CASE Mkdir(c) \/ OpenFileCreate(c) \/ RemovePath(c) \/ SetAttributes(c)
    BY <2>3, Zenon DEF Mkdir, OpenFileCreate, RemovePath, SetAttributes, Outcome
  <2>4. CASE Rename(c) \/ FileWrite(c)
    BY <2>4, Zenon DEF Rename, FileWrite
  <2> QED
    BY <1>6, <2>1, <2>2, <2>3, <2>4
<1>7. UNCHANGED vars => UNCHANGED cacheVars
  BY DEF vars
<1> QED
  BY <1>1, <1>2, <1>3, <1>4, <1>5, <1>6, <1>7 DEF Next

(* evictIfNeeded keeps the cache within MaxCacheEntries as long as every     *)
(* path of accessOrder has an entry: it takes one path off the list for each *)
(* entry too many, and only invalidate leaves paths there without entries.   *)
THEOREM EvictionKeepsLimit == Spec => LimitKept
<1>1. TrackInv /\ [Next]_vars =>
        [ /\ ToSet(accessOrder) \subseteq Cached(statCache) \cup Cached(dirCache)
          /\ TotalEntries(statCache, dirCache) <= MaxCacheEntries
          => (TotalEntries(statCache, dirCache) <= MaxCacheEntries)' ]_cacheVars
  BY LimitStep DEF TotalEntries, Cached
<1> QED
  BY <1>1, TrackInit, TrackStep, PTL DEF Spec, LimitKept

-----------------------------------------------------------------------------
(* Types.  Paths as sequences: prefixes, and what a rename does to a path.   *)

LEMMA PrefixPoints ==
  ASSUME NEW S, NEW s \in Seq(S), NEW t \in Seq(S)
  PROVE  /\ IsPrefix(s, t) <=> Len(s) <= Len(t) /\ \A i \in 1 .. Len(s) : s[i] = t[i]
         /\ IsPrefix(s, t) => s = SubSeq(t, 1, Len(s))
<1>1. Len(s) \in Nat /\ Len(t) \in Nat
  OBVIOUS
<1>2. SubSeq(s, 1, Len(s)) = s
  <2>1. SubSeq(s, 1, Len(s)) \in Seq(S) /\ Len(SubSeq(s, 1, Len(s))) = Len(s)
    BY <1>1
  <2>2. \A i \in 1 .. Len(s) : SubSeq(s, 1, Len(s))[i] = s[i]
    BY <1>1
  <2> QED
    BY <2>1, <2>2, SeqEqual
<1>3. ASSUME Len(s) <= Len(t)
      PROVE  /\ SubSeq(t, 1, Len(s)) \in Seq(S) /\ Len(SubSeq(t, 1, Len(s))) = Len(s)
             /\ \A i \in 1 .. Len(s) : SubSeq(t, 1, Len(s))[i] = t[i]
  <2>1. \A i \in 1 .. Len(s) : t[i] \in S
    BY <1>1, <1>3
  <2> QED
    BY <1>1, <1>3, <2>1, SubSeqProperties
<1>4. IsPrefix(s, t) <=> Len(s) <= Len(t) /\ s = SubSeq(t, 1, Len(s))
  BY <1>2 DEF IsPrefix
<1>5. ASSUME Len(s) <= Len(t), \A i \in 1 .. Len(s) : s[i] = t[i]
      PROVE  s = SubSeq(t, 1, Len(s))
  BY <1>3, <1>5, SeqEqual
<1> QED
  BY <1>3, <1>4, <1>5

LEMMA PrefixOrder ==
  ASSUME NEW S, NEW r \in Seq(S), NEW s \in Seq(S), NEW t \in Seq(S)
  PROVE  /\ IsPrefix(r, s) /\ IsPrefix(s, t) => IsPrefix(r, t)
         /\ IsPrefix(r, t) /\ IsPrefix(s, t) => IsPrefix(r, s) \/ IsStrictPrefix(s, r)
         /\ IsPrefix(r, s) /\ IsPrefix(s, r) => r = s
<1>1. Len(r) \in Nat /\ Len(s) \in Nat /\ Len(t) \in Nat
  OBVIOUS
<1>2. ASSUME IsPrefix(r, s), IsPrefix(s, t) PROVE IsPrefix(r, t)
  <2>1. Len(r) <= Len(s) /\ Len(s) <= Len(t)
    BY <1>2, PrefixPoints
  <2>2. \A i \in 1 .. Len(r) : r[i] = s[i] /\ s[i] = t[i]
    BY <1>1, <1>2, <2>1, PrefixPoints
  <2> QED
    BY <1>1, <2>1, <2>2, PrefixPoints
<1>3. ASSUME IsPrefix(r, t), IsPrefix(s, t) PROVE IsPrefix(r, s) \/ IsStrictPrefix(s, r)
  <2>1. /\ \A i \in 1 .. Len(r) : r[i] = t[i]
        /\ \A i \in 1 .. Len(s) : s[i] = t[i]
    BY <1>3, PrefixPoints
  <2>2. CASE Len(r) <= Len(s)
    <3>1. \A i \in 1 .. Len(r) : r[i] = s[i]
      BY <1>1, <2>1, <2>2
    <3> QED
      BY <2>2, <3>1, PrefixPoints
  <2>3. CASE Len(s) < Len(r)
    <3>1. \A i \in 1 .. Len(s) : s[i] = r[i]
      BY <1>1, <2>1, <2>3
    <3>2. Len(s) <= Len(r) /\ s # r
      BY <1>1, <2>3
    <3> QED
      BY <3>1, <3>2, PrefixPoints DEF IsStrictPrefix
  <2> QED
    BY <1>1, <2>2, <2>3
<1>4. ASSUME IsPrefix(r, s), IsPrefix(s, r) PROVE r = s
  <2>1. Len(r) <= Len(s) /\ Len(s) <= Len(r) /\ \A i \in 1 .. Len(r) : r[i] = s[i]
    BY <1>4, PrefixPoints
  <2> QED
    BY <1>1, <2>1, SeqEqual
<1> QED
  BY <1>2, <1>3, <1>4

(* x is where r, below p, is once p has become q, point by point.            *)
Rebased(x, r, p, q) ==
  /\ Len(x) = Len(q) + (Len(r) - Len(p))
  /\ \A i \in 1 .. Len(q) : x[i] = q[i]
  /\ \A i \in Len(q) + 1 .. Len(q) + (Len(r) - Len(p)) : x[i] = r[i + (Len(p) - Len(q))]

LEMMA RebasePoints ==
  ASSUME NEW S, NEW r \in Seq(S), NEW p \in Seq(S), NEW q \in Seq(S), IsPrefix(p, r)
  PROVE  Rebase(r, p, q) \in Seq(S) /\ Rebased(Rebase(r, p, q), r, p, q)
<1>1. Len(r) \in Nat /\ Len(p) \in Nat /\ Len(q) \in Nat /\ Len(p) <= Len(r)
  BY PrefixPoints
<1> PICK back : back = SubSeq(r, Len(p) + 1, Len(r))
  OBVIOUS
<1>2. \A i \in Len(p) + 1 .. Len(r) : r[i] \in S
  BY <1>1
<1>3. /\ back \in Seq(S) /\ Len(back) = Len(r) - Len(p)
      /\ \A i \in 1 .. Len(r) - Len(p) : back[i] = r[Len(p) + i]
  <2>1. /\ back \in Seq(S) /\ Len(back) = IF Len(p) + 1 <= Len(r) THEN Len(r) - (Len(p) + 1) + 1 ELSE 0
        /\ \A i \in 1 .. Len(r) - (Len(p) + 1) + 1 : back[i] = r[Len(p) + 1 + i - 1]
    BY <1>1, <1>2, SubSeqProperties
  <2>2. Len(back) = Len(r) - Len(p) /\ Len(r) - (Len(p) + 1) + 1 = Len(r) - Len(p)
    BY <1>1, <2>1
  <2>3. \A i \in 1 .. Len(r) - Len(p) : Len(p) + 1 + i - 1 = Len(p) + i
    BY <1>1
  <2> QED
    BY <2>1, <2>2, <2>3
<1>4. Rebase(r, p, q) = q \o back
  BY DEF Rebase
<1>5. /\ q \o back \in Seq(S) /\ Len(q \o back) = Len(q) + Len(back)
      /\ \A i \in 1 .. Len(q) + Len(back) :
           (q \o back)[i] = IF i <= Len(q) THEN q[i] ELSE back[i - Len(q)]
  BY <1>3, ConcatProperties, Zenon
<1> PICK x : x = q \o back
  OBVIOUS
<1>6. \A i \in 1 .. Len(q) : x[i] = q[i]
  BY <1>1, <1>3, <1>5
<1>7. ASSUME NEW i \in Len(q) + 1 .. Len(q) + (Len(r) - Len(p))
      PROVE  x[i] = r[i + (Len(p) - Len(q))]
  <2>1. /\ i \in 1 .. Len(q) + Len(back) /\ ~(i <= Len(q))
        /\ i - Len(q) \in 1 .. Len(r) - Len(p) /\ Len(p) + (i - Len(q)) = i + (Len(p) - Len(q))
    BY <1>1, <1>3
  <2>2. x[i] = back[i - Len(q)]
    BY <1>5, <2>1
  <2> QED
    BY <1>3, <2>1, <2>2
<1>8. Len(x) = Len(q) + (Len(r) - Len(p))
  BY <1>3, <1>5
<1>9. Rebased(x, r, p, q)
  BY <1>6, <1>7, <1>8 DEF Rebased
<1> QED
  BY <1>4, <1>5, <1>9

(* It lies below q, and moving q back to p restores it.                      *)
LEMMA RebaseBack ==
  ASSUME NEW S, NEW r \in Seq(S), NEW p \in Seq(S), NEW q \in Seq(S), IsPrefix(p, r)
  PROVE  IsPrefix(q, Rebase(r, p, q)) /\ Rebase(Rebase(r, p, q), q, p) = r
<1>1. Len(r) \in Nat /\ Len(p) \in Nat /\ Len(q) \in Nat /\ Len(p) <= Len(r)
  BY PrefixPoints
<1> DEFINE x == Rebase(r, p, q)
<1>2. x \in Seq(S) /\ Rebased(x, r, p, q)
  BY RebasePoints
<1> HIDE DEF x
<1>3. IsPrefix(q, x)
  <2>1. Len(q) <= Len(x) /\ \A i \in 1 .. Len(q) : q[i] = x[i]
    BY <1>1, <1>2 DEF Rebased
  <2> QED
    BY <1>2, <2>1, PrefixPoints
<1> DEFINE y == Rebase(x, q, p)
<1>4. y \in Seq(S) /\ Rebased(y, x, q, p)
  BY <1>2, <1>3, RebasePoints
<1> HIDE DEF y
<1> USE DEF Rebased
<1>5. Len(y) = Len(r) /\ Len(x) - Len(q) = Len(r) - Len(p)
  BY <1>1, <1>2, <1>4
<1>6. \A i \in 1 .. Len(p) : p[i] = r[i]
  BY PrefixPoints
<1>7. ASSUME NEW i \in 1 .. Len(r) PROVE y[i] = r[i]
  <2>1. CASE i <= Len(p)
    BY <1>1, <1>4, <1>6, <2>1
  <2>2. CASE ~(i <= Len(p))
    <3> PICK j : j = i + (Len(q) - Len(p))
      OBVIOUS
    <3>1. /\ i \in Len(p) + 1 .. Len(p) + (Len(x) - Len(q))
          /\ j \in Len(q) + 1 .. Len(q) + (Len(r) - Len(p)) /\ j + (Len(p) - Len(q)) = i
      BY <1>1, <1>5, <2>2
    <3>2. y[i] = x[j]
      BY <1>4, <3>1
    <3>3. x[j] = r[i]
      BY <1>2, <3>1
    <3> QED
      BY <3>2, <3>3
  <2> QED
    BY <2>1, <2>2
<1>8. y = r
  BY <1>4, <1>5, <1>7, SeqEqual
<1> QED
  BY <1>3, <1>8 DEF x, y

(* What is above r and not above p moves with it.                            *)
LEMMA RebaseAbove ==
  ASSUME NEW S, NEW r \in Seq(S), NEW s \in Seq(S), NEW p \in Seq(S), NEW q \in Seq(S),
         IsPrefix(p, s), IsStrictPrefix(s, r)
  PROVE  IsPrefix(p, r) /\ IsStrictPrefix(Rebase(s, p, q), Rebase(r, p, q))
<1>0. IsPrefix(s, r) /\ s # r
  BY DEF IsStrictPrefix
<1>1. /\ Len(r) \in Nat /\ Len(s) \in Nat /\ Len(p) \in Nat /\ Len(q) \in Nat
      /\ Len(p) <= Len(s) /\ Len(s) <= Len(r) /\ \A i \in 1 .. Len(s) : s[i] = r[i]
  BY <1>0, PrefixPoints
<1>2. Len(s) # Len(r)
  BY <1>0, <1>1, SeqEqual
<1>3. IsPrefix(p, r)
  BY <1>0, PrefixOrder
<1> DEFINE x == Rebase(s, p, q)
           y == Rebase(r, p, q)
<1>4. x \in Seq(S) /\ Rebased(x, s, p, q)
  BY RebasePoints
<1>5. y \in Seq(S) /\ Rebased(y, r, p, q)
  BY <1>3, RebasePoints
<1> HIDE DEF x, y
<1> USE DEF Rebased
<1>6. Len(x) \in Nat /\ Len(y) \in Nat /\ Len(x) <= Len(y) /\ Len(x) # Len(y)
  BY <1>1, <1>2, <1>4, <1>5
<1>7. ASSUME NEW i \in 1 .. Len(x) PROVE x[i] = y[i]
  <2>1. CASE i <= Len(q)
    BY <1>1, <1>4, <1>5, <2>1
  <2>2. CASE ~(i <= Len(q))
    <3> PICK j : j = i + (Len(p) - Len(q))
      OBVIOUS
    <3>1. /\ i \in Len(q) + 1 .. Len(q) + (Len(s) - Len(p))
          /\ i \in Len(q) + 1 .. Len(q) + (Len(r) - Len(p))
          /\ j \in 1 .. Len(s)
      BY <1>1, <1>4, <2>2
    <3>2. x[i] = s[j] /\ y[i] = r[j]
      BY <1>4, <1>5, <3>1
    <3> QED
      BY <1>1, <3>1, <3>2
  <2> QED
    BY <2>1, <2>2
<1>8. IsPrefix(x, y)
  BY <1>4, <1>5, <1>6, <1>7, PrefixPoints
<1> QED
  BY <1>3, <1>6, <1>8 DEF IsStrictPrefix, x, y

(* The share is a tree: above whatever is there, there are directories.  A   *)
(* directory that is open is there.                                          *)
TreeInv == \A r, s \in Paths : IsStrictPrefix(s, r) /\ node[r] # None => IsDir(s)

ShareInv ==
  /\ node \in [Paths -> Nodes \cup {None}] /\ TreeInv
  /\ dirFile \in [Clients -> Paths \cup {None}]
  /\ \A c \in Clients : dirFile[c] # None => IsDir(dirFile[c])

LEMMA PrefixesArePaths ==
  ASSUME NEW p \in Paths, NEW s \in Seq(PathNames), IsPrefix(s, p)
  PROVE  s \in Paths
<1>1. p \in Seq(PathNames)
  BY PathsAreSequences
<1>2. s = SubSeq(p, 1, Len(s)) /\ Len(s) <= Len(p) /\ Len(s) \in Nat
  BY <1>1, PrefixPoints
<1>3. Len(s) \in 0 .. Len(p)
  BY <1>1, <1>2
<1> QED
  BY <1>2, <1>3, CacheAssumption

LEMMA FrontFacts ==
  ASSUME NEW p \in Paths, p # <<>>
  PROVE  Front(p) \in Paths /\ IsStrictPrefix(Front(p), p)
<1>1. p \in Seq(PathNames) /\ Len(p) \in Nat /\ Len(p) > 0
  BY PathsAreSequences
<1> PICK n : n = Len(p) - 1
  OBVIOUS
<1>2. n \in 0 .. Len(p) /\ n < Len(p) /\ n \in Nat /\ Front(p) = SubSeq(p, 1, n)
  BY <1>1 DEF Front
<1>3. Front(p) \in Paths
  BY <1>2, CacheAssumption
<1>4. Front(p) \in Seq(PathNames)
  BY <1>3, PathsAreSequences
<1>5. \A i \in 1 .. n : p[i] \in PathNames
  BY <1>1, <1>2
<1>6. Len(SubSeq(p, 1, n)) = n /\ \A i \in 1 .. n : SubSeq(p, 1, n)[i] = p[i]
  <2>1. n <= Len(p) /\ n \in Nat
    BY <1>2
  <2>2. SubSeq(p, 1, n) \in Seq(PathNames) /\ Len(SubSeq(p, 1, n)) = n
    BY <1>1, <1>5, <2>1
  <2>3. \A i \in 1 .. n : SubSeq(p, 1, n)[i] = p[i]
    BY <1>1, <1>5, <2>1
  <2> QED
    BY <2>2, <2>3
<1> PICK f : f = Front(p)
  OBVIOUS
<1>7. IsPrefix(f, p)
  <2>1. f \in Seq(PathNames) /\ Len(f) <= Len(p) /\ \A i \in 1 .. Len(f) : f[i] = p[i]
    BY <1>1, <1>2, <1>4, <1>6
  <2> QED
    BY <1>1, <2>1, PrefixPoints
<1> QED
  BY <1>1, <1>2, <1>3, <1>6, <1>7 DEF IsStrictPrefix

(* The steps that change one path.                                           *)
LEMMA CreateShare ==
  ASSUME ShareInv, NEW p \in Paths, NEW n \in Nodes, node[p] = None, IsDir(getParentPath(p)),
         node' = [node EXCEPT ![p] = n], dirFile' = dirFile
  PROVE  ShareInv'
<1>1. node' \in [Paths -> Nodes \cup {None}] /\ \A r \in Paths : IsDir(r) => IsDir(r)'
  BY DEF ShareInv, IsDir
<1>2. p # <<>> /\ getParentPath(p) = Front(p)
  BY DEF getParentPath, IsDir
<1>3. Front(p) \in Paths /\ node[Front(p)] # None
  BY <1>2, FrontFacts DEF IsDir
<1>4. ASSUME NEW r \in Paths, NEW s \in Paths, IsStrictPrefix(s, r), node'[r] # None
      PROVE  IsDir(s)
  <2>1. CASE r = p
    <3>1. IsPrefix(s, Front(p))
      BY <1>4, <2>1, PrefixFront DEF IsStrictPrefix
    <3>2. CASE s = Front(p)
      BY <1>2, <3>2
    <3>3. CASE s # Front(p)
      BY <1>3, <3>1, <3>3 DEF ShareInv, TreeInv, IsStrictPrefix
    <3> QED
      BY <3>2, <3>3
  <2>2. CASE r # p
    <3>1. node[r] # None
      BY <1>4, <2>2 DEF ShareInv
    <3> QED
      BY <1>4, <3>1 DEF ShareInv, TreeInv
  <2> QED
    BY <2>1, <2>2
<1>5. TreeInv'
  BY <1>1, <1>4 DEF TreeInv
<1> QED
  BY <1>1, <1>5 DEF ShareInv

LEMMA UpdateShare ==
  ASSUME ShareInv, NEW p \in Paths, NEW n \in Nodes, node[p] # None, n.kind = node[p].kind,
         node' = [node EXCEPT ![p] = n], dirFile' = dirFile
  PROVE  ShareInv'
<1>1. /\ node' \in [Paths -> Nodes \cup {None}]
      /\ \A r \in Paths : IsDir(r) => IsDir(r)'
      /\ \A r \in Paths : node'[r] # None => node[r] # None
  BY TreeAssumption DEF ShareInv, IsDir
<1>2. TreeInv'
  BY <1>1 DEF ShareInv, TreeInv
<1> QED
  BY <1>1, <1>2 DEF ShareInv

(* Touch keeps what a node is.                                               *)
LEMMA TouchNode ==
  ASSUME NEW n \in Nodes
  PROVE  Touch(n) \in Nodes /\ Touch(n).kind = n.kind
BY DEF Touch, Nodes

LEMMA RemoveShare ==
  ASSUME ShareInv, NEW p \in Paths, node[p] # None, DOMAIN Listing(node, p) = {},
         node' = [node EXCEPT ![p] = None],
         dirFile' = [d \in Clients |-> IF dirFile[d] = p THEN None ELSE dirFile[d]]
  PROVE  ShareInv'
<1>1. /\ node' \in [Paths -> Nodes \cup {None}]
      /\ \A r \in Paths \ {p} : node'[r] = node[r] /\ (IsDir(r) => IsDir(r)')
      /\ node'[p] = None
  BY DEF ShareInv, IsDir
<1>2. \A x \in Children(p) : node[x] = None
  BY DEF Listing
<1>3. ASSUME NEW r \in Paths, IsStrictPrefix(p, r), node[r] # None PROVE FALSE
  <2>1. p \in Seq(PathNames) /\ r \in Seq(PathNames)
    BY PathsAreSequences
  <2>2. /\ Len(p) \in Nat /\ Len(r) \in Nat /\ Len(p) <= Len(r) /\ p # r
        /\ \A i \in 1 .. Len(p) : p[i] = r[i]
    BY <1>3, <2>1, PrefixPoints DEF IsStrictPrefix
  <2>3. Len(p) < Len(r)
    BY <2>1, <2>2, SeqEqual
  <2> PICK n : n = Len(p) + 1
    OBVIOUS
  <2> DEFINE x == SubSeq(r, 1, n)
  <2>4. n \in 0 .. Len(r) /\ n \in Nat
    BY <2>2, <2>3
  <2>5. x \in Paths
    BY <2>4, CacheAssumption
  <2>6. \A i \in 1 .. n : r[i] \in PathNames
    BY <2>1, <2>4
  <2>7. x \in Seq(PathNames) /\ Len(x) = n /\ \A i \in 1 .. n : x[i] = r[i]
    BY <2>1, <2>4, <2>6, SubSeqProperties
  <2> HIDE DEF x
  <2>8. IsPrefix(x, r)
    BY <2>1, <2>4, <2>7, PrefixPoints
  <2>9. node[x] # None
    <3>1. CASE x = r
      BY <1>3, <3>1
    <3>2. CASE x # r
      BY <1>3, <2>5, <2>8, <3>2 DEF ShareInv, TreeInv, IsStrictPrefix, IsDir
    <3> QED
      BY <3>1, <3>2
  <2>10. x # <<>>
    BY <2>2, <2>7
  <2>11. Front(x) = p
    <3>1. Front(x) \in Paths /\ IsStrictPrefix(Front(x), x)
      BY <2>5, <2>10, FrontFacts
    <3>2. Front(x) = SubSeq(x, 1, Len(p))
      <4>1. Len(x) - 1 = Len(p)
        BY <2>2, <2>7
      <4> QED
        BY <4>1 DEF Front
    <3>3. IsPrefix(p, x)
      <4>1. Len(p) <= Len(x) /\ \A i \in 1 .. Len(p) : p[i] = x[i]
        BY <2>2, <2>7
      <4> QED
        BY <2>1, <2>7, <4>1, PrefixPoints
    <3> QED
      BY <2>1, <2>7, <3>2, <3>3, PrefixPoints
  <2>12. x \in Children(p)
    BY <2>5, <2>10, <2>11 DEF Children
  <2> QED
    BY <1>2, <2>9, <2>12
<1>4. TreeInv'
  <2>1. SUFFICES ASSUME NEW r \in Paths, NEW s \in Paths, IsStrictPrefix(s, r), node'[r] # None
                 PROVE  IsDir(s)'
    BY DEF TreeInv
  <2>2. r # p /\ node[r] # None
    BY <1>1, <2>1
  <2>3. s # p /\ IsDir(s)
    BY <1>3, <2>1, <2>2 DEF ShareInv, TreeInv
  <2> QED
    BY <1>1, <2>3
<1>5. /\ dirFile' \in [Clients -> Paths \cup {None}]
      /\ \A c \in Clients : dirFile'[c] # None => dirFile'[c] = dirFile[c] /\ dirFile[c] # p
  BY DEF ShareInv
<1>6. \A c \in Clients : (dirFile[c] # None => IsDir(dirFile[c]))'
  <2>1. SUFFICES ASSUME NEW c \in Clients, dirFile'[c] # None PROVE IsDir(dirFile[c])'
    OBVIOUS
  <2>2. dirFile[c] \in Paths \ {p} /\ IsDir(dirFile[c]) /\ dirFile'[c] = dirFile[c]
    BY <1>5, <2>1 DEF ShareInv
  <2> QED
    BY <1>1, <2>2 DEF IsDir
<1> QED
  BY <1>1, <1>4, <1>5, <1>6 DEF ShareInv

(* A subtree moves as a whole, to below a directory.                         *)
LEMMA RenameShare ==
  ASSUME ShareInv, NEW p \in Paths, NEW q \in Paths, MayMove(p, q), node' = Moved(p, q),
         dirFile' = MovedFiles(p, q)
  PROVE  ShareInv'
<1>1. /\ node[q] = None /\ IsDir(getParentPath(q)) /\ ~IsPrefix(p, q)
      /\ \A r \in Paths : IsPrefix(p, r) /\ node[r] # None => Rebase(r, p, q) \in Paths
  BY Zenon DEF MayMove
<1>2. node \in [Paths -> Nodes \cup {None}] /\ dirFile \in [Clients -> Paths \cup {None}]
  BY DEF ShareInv
<1>3. /\ node' \in [Paths -> Nodes \cup {None}]
      /\ \A r \in Paths : IsPrefix(q, r) /\ Rebase(r, q, p) \in Paths => node'[r] = node[Rebase(r, q, p)]
      /\ \A r \in Paths : ~(IsPrefix(q, r) /\ Rebase(r, q, p) \in Paths) /\ IsPrefix(p, r) => node'[r] = None
      /\ \A r \in Paths : ~(IsPrefix(q, r) /\ Rebase(r, q, p) \in Paths) /\ ~IsPrefix(p, r) => node'[r] = node[r]
  BY <1>2, Zenon DEF Moved
<1>4. \A r \in Paths : r \in Seq(PathNames)
  BY PathsAreSequences
<1>5. ASSUME NEW r \in Paths, IsPrefix(q, r) PROVE node[r] = None
  <2>1. CASE r = q
    BY <1>1, <2>1
  <2>2. CASE r # q
    BY <1>1, <1>5, <2>2 DEF ShareInv, TreeInv, IsStrictPrefix, IsDir
  <2> QED
    BY <2>1, <2>2
<1>6. ASSUME NEW r \in Paths, ~IsPrefix(p, r), node[r] # None PROVE node'[r] = node[r]
  BY <1>3, <1>5, <1>6
<1>7. TreeInv'
  <2>1. SUFFICES ASSUME NEW r \in Paths, NEW s \in Paths, IsStrictPrefix(s, r), node'[r] # None
                 PROVE  IsDir(s)'
    BY DEF TreeInv
  <2>2. IsPrefix(s, r) /\ s # r
    BY <2>1 DEF IsStrictPrefix
  <2>3. CASE IsPrefix(q, r) /\ Rebase(r, q, p) \in Paths
    <3>1. node[Rebase(r, q, p)] # None
      BY <1>3, <2>1, <2>3
    <3>2. CASE IsPrefix(q, s)
      <4>1. IsStrictPrefix(Rebase(s, q, p), Rebase(r, q, p))
        BY <1>4, <2>1, <3>2, RebaseAbove
      <4>2. Rebase(s, q, p) \in Seq(PathNames)
        BY <1>4, <3>2, RebasePoints
      <4>3. Rebase(s, q, p) \in Paths
        BY <2>3, <4>1, <4>2, PrefixesArePaths DEF IsStrictPrefix
      <4>4. IsDir(Rebase(s, q, p))
        BY <2>3, <3>1, <4>1, <4>3 DEF ShareInv, TreeInv
      <4>5. node'[s] = node[Rebase(s, q, p)]
        BY <1>3, <3>2, <4>3
      <4> QED
        BY <4>4, <4>5 DEF IsDir
    <3>3. CASE IsStrictPrefix(s, q)
      <4>1. IsPrefix(s, q) /\ s # q
        BY <3>3 DEF IsStrictPrefix
      <4>2. q # <<>> /\ IsPrefix(s, Front(q))
        BY <4>1, PrefixFront
      <4>3. Front(q) \in Paths /\ IsDir(Front(q))
        BY <1>1, <4>2, FrontFacts DEF getParentPath
      <4>4. IsDir(s)
        BY <4>2, <4>3 DEF ShareInv, TreeInv, IsStrictPrefix, IsDir
      <4>5. ~IsPrefix(p, s)
        BY <1>1, <1>4, <4>1, PrefixOrder
      <4> QED
        BY <1>6, <4>4, <4>5 DEF IsDir
    <3> QED
      BY <1>4, <2>2, <2>3, <3>2, <3>3, PrefixOrder
  <2>4. CASE ~(IsPrefix(q, r) /\ Rebase(r, q, p) \in Paths)
    <3>1. ~IsPrefix(p, r) /\ node[r] # None
      BY <1>3, <2>1, <2>4
    <3>2. IsDir(s)
      BY <2>1, <3>1 DEF ShareInv, TreeInv
    <3>3. ~IsPrefix(p, s)
      BY <1>4, <2>2, <3>1, PrefixOrder
    <3> QED
      BY <1>6, <3>2, <3>3 DEF IsDir
  <2> QED
    BY <2>3, <2>4
<1>8. ASSUME NEW c \in Clients
      PROVE  dirFile'[c] \in Paths \cup {None} /\ (dirFile[c] # None => IsDir(dirFile[c]))'
  <2>1. CASE dirFile[c] # None /\ IsPrefix(p, dirFile[c])
    <3> PICK d \in Paths : d = dirFile[c]
      BY <1>2, <2>1
    <3>1. IsDir(d) /\ IsPrefix(p, d)
      BY <2>1 DEF ShareInv
    <3> PICK x : x = Rebase(d, p, q)
      OBVIOUS
    <3>2. x \in Paths /\ dirFile'[c] = x
      BY <1>1, <2>1, <3>1 DEF IsDir, MovedFiles
    <3>3. IsPrefix(q, x) /\ Rebase(x, q, p) = d
      BY <1>4, <3>1, RebaseBack
    <3>4. node'[x] = node[d]
      BY <1>3, <3>2, <3>3
    <3> QED
      BY <3>1, <3>2, <3>4 DEF IsDir
  <2>2. CASE dirFile[c] = None
    <3>1. dirFile'[c] = None
      BY <2>2 DEF MovedFiles
    <3> QED
      BY <3>1
  <2>3. CASE dirFile[c] # None /\ ~IsPrefix(p, dirFile[c])
    <3>1. dirFile'[c] = dirFile[c] /\ dirFile[c] \in Paths /\ IsDir(dirFile[c])
      BY <1>2, <2>3 DEF ShareInv, MovedFiles
    <3>2. node'[dirFile[c]] = node[dirFile[c]]
      BY <1>6, <2>3, <3>1 DEF IsDir
    <3> QED
      BY <3>1, <3>2 DEF IsDir
  <2> QED
    BY <2>1, <2>2, <2>3
<1>9. dirFile' \in [Clients -> Paths \cup {None}]
  BY <1>8 DEF MovedFiles
<1> QED
  BY <1>3, <1>7, <1>8, <1>9 DEF ShareInv

(* The steps that leave the share alone, and open or close a directory.      *)
LEMMA SameShare ==
  ASSUME ShareInv, node' = node, dirFile' = dirFile
  PROVE  ShareInv'
BY Zenon DEF ShareInv, TreeInv, IsDir

LEMMA OpenShare ==
  ASSUME ShareInv, NEW c \in Clients, NEW x, x = None \/ (x \in Paths /\ IsDir(x)),
         node' = node, dirFile' = [dirFile EXCEPT ![c] = x]
  PROVE  ShareInv'
<1>1. node' \in [Paths -> Nodes \cup {None}] /\ TreeInv'
  BY Zenon DEF ShareInv, TreeInv, IsDir
<1>2. dirFile' \in [Clients -> Paths \cup {None}]
  BY DEF ShareInv
<1>3. ASSUME NEW d \in Clients PROVE (dirFile[d] # None => IsDir(dirFile[d]))'
  <2>1. CASE d = c
    BY <1>2, <2>1 DEF ShareInv, IsDir
  <2>2. CASE d # c
    BY <1>2, <2>2 DEF ShareInv, IsDir
  <2> QED
    BY <2>1, <2>2
<1> QED
  BY <1>1, <1>2, <1>3 DEF ShareInv

LEMMA ShareStep ==
  ASSUME CohInv, ShareInv, [Next]_vars
  PROVE  ShareInv'
<1>1. New("dir") \in Nodes /\ New("file") \in Nodes
  BY DEF New, Nodes
<1>2. node \in [Paths -> Nodes \cup {None}] /\ arg \in [Clients -> Paths]
  BY DEF ShareInv, CohInv, TrackInv, ShapeInv
<1>3. ASSUME NEW p \in Paths, node[p] # None, NEW n \in {node[p], Touch(node[p])},
             Change([node EXCEPT ![p] = n], dirFile)
      PROVE  ShareInv'
  <2>1. n \in Nodes /\ n.kind = node[p].kind
    BY <1>2, <1>3, TouchNode
  <2> QED
    BY <1>3, <2>1, UpdateShare DEF Change
<1>4. ASSUME NEW c \in Clients, Return(c), node' = node PROVE ShareInv'
  <2>1. dirFile' = [dirFile EXCEPT ![c] = None]
    BY <1>4 DEF Return
  <2> QED
    BY <1>4, <2>1, OpenShare, Zenon
<1>5. ASSUME NEW c \in Clients, Mkdir(c) PROVE ShareInv'
  <2>1. PICK p \in Paths : /\ node[p] = None /\ IsDir(getParentPath(p))
                           /\ Change([node EXCEPT ![p] = New("dir")], dirFile)
    BY <1>5, Zenon DEF Mkdir
  <2> QED
    BY <1>1, <2>1, CreateShare DEF Change
<1>6. ASSUME NEW c \in Clients, OpenFileCreate(c) PROVE ShareInv'
  <2>1. PICK p \in Paths :
          \/ /\ node[p] = None /\ IsDir(getParentPath(p))
             /\ Change([node EXCEPT ![p] = New("file")], dirFile)
          \/ /\ node[p] # None
             /\ \E n \in {node[p], Touch(node[p])} : Change([node EXCEPT ![p] = n], dirFile)
    BY <1>6, Zenon DEF OpenFileCreate
  <2>2. CASE /\ node[p] = None /\ IsDir(getParentPath(p))
             /\ Change([node EXCEPT ![p] = New("file")], dirFile)
    BY <1>1, <2>2, CreateShare DEF Change
  <2>3. CASE /\ node[p] # None
             /\ \E n \in {node[p], Touch(node[p])} : Change([node EXCEPT ![p] = n], dirFile)
    BY <1>3, <2>3, Zenon
  <2> QED
    BY <2>1, <2>2, <2>3
<1>7. ASSUME NEW c \in Clients, RemovePath(c) PROVE ShareInv'
  <2>1. PICK p \in Paths : /\ node[p] # None /\ DOMAIN Listing(node, p) = {}
                           /\ node' = [node EXCEPT ![p] = None]
                           /\ dirFile' = [d \in Clients |-> IF dirFile[d] = p THEN None ELSE dirFile[d]]
    BY <1>7, Zenon DEF RemovePath, Change
  <2> QED
    BY <2>1, RemoveShare
<1>8. ASSUME NEW c \in Clients, SetAttributes(c) \/ FileWrite(c) PROVE ShareInv'
  <2>1. PICK p \in Paths : node[p] # None /\ Change([node EXCEPT ![p] = Touch(@)], dirFile)
    BY <1>8, Zenon DEF SetAttributes, FileWrite
  <2>2. Change([node EXCEPT ![p] = Touch(node[p])], dirFile)
    BY <2>1, Zenon
  <2> QED
    BY <1>3, <2>1, <2>2
<1>9. ASSUME NEW c \in Clients, Rename(c) PROVE ShareInv'
  <2>1. PICK p \in Paths, q \in Paths :
          /\ MayMove(p, q) /\ node' = Moved(p, q)
          /\ dirFile' = MovedFiles(p, q)
    BY <1>9, Zenon DEF Rename, Change
  <2> QED
    BY <2>1, RenameShare
<1>10. ASSUME NEW c \in Clients, ReadDirOpen(c) PROVE ShareInv'
  <2>1. CASE Return(c)
    BY <1>4, <1>10, <2>1 DEF ReadDirOpen
  <2>2. CASE IsDir(arg[c]) /\ dirFile' = [dirFile EXCEPT ![c] = arg[c]]
    <3>1. node' = node /\ arg[c] \in Paths
      BY <1>2, <1>10 DEF ReadDirOpen
    <3> QED
      BY <2>2, <3>1, OpenShare
  <2> QED
    BY <1>10, <2>1, <2>2 DEF ReadDirOpen
<1>11. ASSUME NEW c \in Clients,
              \/ StatRequest(c) \/ StatPut(c) \/ ReadDirRead(c) \/ ReadDirPut(c)
              \/ Invalidate(c)
       PROVE  ShareInv'
  <2>1. node' = node /\ (dirFile' = dirFile \/ Return(c))
    BY <1>11 DEF StatRequest, StatPut, ReadDirRead, ReadDirPut, Invalidate
  <2> QED
    BY <1>4, <2>1, SameShare
<1>12. ASSUME NEW c \in Clients,
              StatHit(c) \/ ReadDirHit(c) \/ StatMiss(c) \/ ReadDirMiss(c) \/ InvalidateOld(c)
       PROVE  ShareInv'
  <2>1. node' = node /\ dirFile' = dirFile
    BY <1>12 DEF StatHit, ReadDirHit, StatMiss, ReadDirMiss, InvalidateOld, vars, clientVars
  <2> QED
    BY <2>1, SameShare
<1>13. ASSUME TtlExpires \/ UNCHANGED vars PROVE ShareInv'
  <2>1. node' = node /\ dirFile' = dirFile
    BY <1>13 DEF TtlExpires, vars, clientVars
  <2> QED
    BY <2>1, SameShare
<1> QED
  BY <1>5, <1>6, <1>7, <1>8, <1>9, <1>10, <1>11, <1>12, <1>13 DEF Next

-----------------------------------------------------------------------------
(* What is cached, and what is about to be: results of a Stat, and listings  *)
(* that are not empty.                                                       *)
Listings == UNION {[D -> Nodes] : D \in (SUBSET Paths) \ {{}}}
StatEntries == [val : Nodes, expired : BOOLEAN]
DirEntries == [val : Listings, expired : BOOLEAN]

EntriesInv ==
  \A p \in Paths : /\ statCache[p] # None => statCache[p] \in StatEntries
                   /\ dirCache[p] # None => dirCache[p] \in DirEntries

ReadTypes ==
  \A c \in Clients : /\ pc[c] = "statPut" => val[c] \in Nodes
                     /\ pc[c] = "dirPut" => val[c] \in Listings

CallsInv == calls \in 0 .. MaxCalls

LEMMA ListingType ==
  ASSUME ShareInv, NEW p \in Paths, DOMAIN Listing(node, p) # {}
  PROVE  Listing(node, p) \in Listings
<1> DEFINE D == {r \in Children(p) : node[r] # None}
<1>1. D \in (SUBSET Paths) \ {{}} /\ \A r \in D : node[r] \in Nodes
  <2>1. DOMAIN Listing(node, p) = D
    BY Zenon DEF Listing
  <2>2. D \subseteq Paths /\ \A r \in D : node[r] \in Nodes
    BY Zenon DEF Children, ShareInv
  <2>3. D # {}
    BY <2>1
  <2> HIDE DEF D
  <2> QED
    BY <2>2, <2>3
<1>2. [r \in D |-> node[r]] \in [D -> Nodes]
  BY <1>1
<1> HIDE DEF D
<1>3. [r \in D |-> node[r]] \in Listings
  BY <1>1, <1>2, Zenon DEF Listings
<1> QED
  BY <1>3 DEF D, Listing

LEMMA EntryTypes ==
  /\ \A v \in Nodes : Entry(v) \in StatEntries
  /\ \A v \in Listings : Entry(v) \in DirEntries
BY Zenon DEF Entry, StatEntries, DirEntries

LEMMA EntriesKept ==
  ASSUME EntriesInv,
         \A p \in Paths : statCache'[p] # None => statCache'[p] = statCache[p],
         \A p \in Paths : dirCache'[p] # None => dirCache'[p] = dirCache[p]
  PROVE  EntriesInv'
BY Zenon DEF EntriesInv

LEMMA PutEntries ==
  ASSUME CohInv, EntriesInv, ReadTypes, NEW c \in Clients, StatPut(c) \/ ReadDirPut(c)
  PROVE  EntriesInv'
<1>1. /\ statCache = [r \in Paths |-> statCache[r]] /\ dirCache = [r \in Paths |-> dirCache[r]]
      /\ arg[c] \in Paths
  BY DEF CohInv, TrackInv, ShapeInv
<1>2. CASE StatPut(c)
  <2> PICK e : e = Entry(val[c])
    OBVIOUS
  <2>1. e \in StatEntries
    BY <1>2, EntryTypes DEF StatPut, ReadTypes
  <2> PICK p \in Paths : p = arg[c]
    BY <1>1
  <2>0. Store([statCache EXCEPT ![p] = e], dirCache, p)
    BY <1>2 DEF StatPut, putStatInfo
  <2>2. \A r \in Paths : statCache'[r] # None => statCache'[r] = IF r = p THEN e ELSE statCache[r]
    BY <1>1, <2>0, StoreEntries
  <2>4. \A r \in Paths : dirCache'[r] # None => dirCache'[r] = dirCache[r]
    BY <2>0, StoreEntries
  <2>3. \A r \in Paths : statCache'[r] # None => statCache'[r] = e \/ statCache'[r] = statCache[r]
    BY <1>1, <2>2, Zenon
  <2> QED
    BY <2>1, <2>3, <2>4, Zenon DEF EntriesInv
<1>3. CASE ReadDirPut(c)
  <2> PICK e : e = Entry(val[c])
    OBVIOUS
  <2>1. e \in DirEntries
    BY <1>3, EntryTypes DEF ReadDirPut, ReadTypes
  <2> PICK p \in Paths : p = arg[c]
    BY <1>1
  <2>0. Store(statCache, [dirCache EXCEPT ![p] = e], p)
    BY <1>3 DEF ReadDirPut, putDirEntries
  <2>2. \A r \in Paths : dirCache'[r] # None => dirCache'[r] = IF r = p THEN e ELSE dirCache[r]
    BY <1>1, <2>0, StoreEntries
  <2>4. \A r \in Paths : statCache'[r] # None => statCache'[r] = statCache[r]
    BY <2>0, StoreEntries
  <2>3. \A r \in Paths : dirCache'[r] # None => dirCache'[r] = e \/ dirCache'[r] = dirCache[r]
    BY <1>1, <2>2, Zenon
  <2> QED
    BY <2>1, <2>3, <2>4, Zenon DEF EntriesInv
<1> QED
  BY <1>2, <1>3

LEMMA ExpireEntries ==
  ASSUME CohInv, EntriesInv, Expire
  PROVE  EntriesInv'
<1>1. DOMAIN statCache = Paths /\ DOMAIN dirCache = Paths
  BY DEF CohInv, TrackInv, ShapeInv
<1>2. ASSUME NEW p \in Paths, Hit(statCache, p),
             statCache' = [statCache EXCEPT ![p].expired = TRUE], dirCache' = dirCache
      PROVE  EntriesInv'
  <2>1. statCache[p] \in [val : Nodes, expired : BOOLEAN]
    BY <1>2, Zenon DEF EntriesInv, StatEntries, Hit
  <2>2. /\ \A r \in Paths : r # p => statCache'[r] = statCache[r]
        /\ statCache'[p] \in [val : Nodes, expired : BOOLEAN]
    BY <1>1, <1>2, <2>1, MarkExpired, Zenon
  <2> QED
    BY <1>2, <2>2, Zenon DEF EntriesInv, StatEntries
<1>3. ASSUME NEW p \in Paths, Hit(dirCache, p),
             dirCache' = [dirCache EXCEPT ![p].expired = TRUE], statCache' = statCache
      PROVE  EntriesInv'
  <2>1. dirCache[p] \in [val : Listings, expired : BOOLEAN]
    BY <1>3, Zenon DEF EntriesInv, DirEntries, Hit
  <2>2. /\ \A r \in Paths : r # p => dirCache'[r] = dirCache[r]
        /\ dirCache'[p] \in [val : Listings, expired : BOOLEAN]
    BY <1>1, <1>3, <2>1, MarkExpired, Zenon
  <2> QED
    BY <1>3, <2>2, Zenon DEF EntriesInv, DirEntries
<1> QED
  BY <1>2, <1>3, Zenon DEF Expire

(* What another goroutine has read stays as it is.                           *)
LEMMA ReadsKept ==
  ASSUME ReadTypes,
         \A c \in Clients : pc'[c] \in {"statPut", "dirPut"} => pc'[c] = pc[c] /\ val'[c] = val[c]
  PROVE  ReadTypes'
BY DEF ReadTypes

LEMMA ReadsStep ==
  ASSUME CohInv, ShareInv, ReadTypes, [Next]_vars
  PROVE  ReadTypes'
<1>1. /\ pc \in [Clients -> PCs] /\ DOMAIN val = Clients /\ arg \in [Clients -> Paths]
      /\ dirFile \in [Clients -> Paths \cup {None}] /\ node \in [Paths -> Nodes \cup {None}]
  BY DEF CohInv, ClientTypes, TrackInv, ShapeInv, ShareInv
<1>2. ASSUME NEW c \in Clients, NEW l, l \notin {"statPut", "dirPut"}, Goto(c, l),
             \A d \in Clients \ {c} : val'[d] = val[d]
      PROVE  ReadTypes'
  <2>1. pc'[c] = l /\ \A d \in Clients \ {c} : pc'[d] = pc[d]
    BY <1>1, <1>2 DEF Goto
  <2> QED
    BY <1>2, <2>1, ReadsKept
<1>3. ASSUME NEW c \in Clients, Return(c) PROVE ReadTypes'
  <2>1. Goto(c, "idle") /\ \A d \in Clients \ {c} : val'[d] = val[d]
    BY <1>1, <1>3 DEF Return
  <2> QED
    BY <1>2, <2>1
<1>4. ASSUME pc' = pc, val' = val PROVE ReadTypes'
  BY <1>4, ReadsKept
<1>5. ASSUME NEW c \in Clients, StatRequest(c) PROVE ReadTypes'
  <2>1. CASE Return(c)
    BY <1>3, <2>1
  <2>2. CASE /\ node[arg[c]] # None /\ val' = [val EXCEPT ![c] = node[arg[c]]]
             /\ Goto(c, "statPut")
    <3>1. /\ pc'[c] = "statPut" /\ val'[c] \in Nodes
          /\ \A d \in Clients \ {c} : pc'[d] = pc[d] /\ val'[d] = val[d]
      BY <1>1, <2>2 DEF Goto
    <3> QED
      BY <3>1 DEF ReadTypes
  <2> QED
    BY <1>5, <2>1, <2>2 DEF StatRequest
<1>6. ASSUME NEW c \in Clients, ReadDirRead(c) PROVE ReadTypes'
  <2>1. CASE Return(c)
    BY <1>3, <2>1
  <2>2. CASE /\ dirFile[c] # None /\ DOMAIN Listing(node, dirFile[c]) # {}
             /\ val' = [val EXCEPT ![c] = Listing(node, dirFile[c])]
             /\ Goto(c, "dirPut")
    <3>1. Listing(node, dirFile[c]) \in Listings
      BY <1>1, <2>2, ListingType
    <3>2. /\ pc'[c] = "dirPut" /\ val'[c] \in Listings
          /\ \A d \in Clients \ {c} : pc'[d] = pc[d] /\ val'[d] = val[d]
      BY <1>1, <2>2, <3>1 DEF Goto
    <3> QED
      BY <3>2 DEF ReadTypes
  <2> QED
    BY <1>6, <2>1, <2>2 DEF ReadDirRead
<1>7. ASSUME NEW c \in Clients, NEW p, Outcome(c, p) PROVE ReadTypes'
  <2>1. val' = val /\ (Goto(c, "inval") \/ pc' = pc)
    BY <1>7 DEF Outcome, Call
  <2> QED
    BY <1>2, <1>4, <2>1
<1>8. ASSUME NEW c \in Clients,
             Mkdir(c) \/ OpenFileCreate(c) \/ RemovePath(c) \/ SetAttributes(c)
      PROVE  ReadTypes'
  BY <1>7, <1>8, Zenon DEF Mkdir, OpenFileCreate, RemovePath, SetAttributes
<1>9. ASSUME NEW c \in Clients, StatPut(c) \/ ReadDirPut(c) \/ Invalidate(c) PROVE ReadTypes'
  BY <1>3, <1>9 DEF StatPut, ReadDirPut, Invalidate
<1>10. ASSUME NEW c \in Clients,
              \/ StatMiss(c) \/ ReadDirMiss(c) \/ ReadDirOpen(c) \/ Rename(c)
              \/ InvalidateOld(c)
       PROVE  ReadTypes'
  <2>1. \/ Return(c)
        \/ val' = val /\ \E l \in {"stat", "open", "read", "invalOld", "inval"} : Goto(c, l)
        \/ val' = val /\ pc' = pc
    BY <1>10, Zenon DEF StatMiss, ReadDirMiss, ReadDirOpen, Rename, RenameAnswered, RenameLost,
                        InvalidateOld, Call
  <2> QED
    BY <1>2, <1>3, <1>4, <2>1
<1>11. ASSUME NEW c \in Clients, StatHit(c) \/ ReadDirHit(c) \/ FileWrite(c) PROVE ReadTypes'
  <2>1. pc' = pc /\ val' = val
    BY <1>11 DEF StatHit, ReadDirHit, FileWrite, vars, clientVars
  <2> QED
    BY <1>4, <2>1
<1>12. ASSUME TtlExpires \/ UNCHANGED vars PROVE ReadTypes'
  <2>1. pc' = pc /\ val' = val
    BY <1>12 DEF TtlExpires, vars, clientVars
  <2> QED
    BY <1>4, <2>1
<1> QED
  BY <1>5, <1>6, <1>8, <1>9, <1>10, <1>11, <1>12 DEF Next

LEMMA EntriesStep ==
  ASSUME CohInv, EntriesInv, ReadTypes, [Next]_vars
  PROVE  EntriesInv'
<1>1. ASSUME UNCHANGED cacheVars PROVE EntriesInv'
  BY <1>1, EntriesKept DEF cacheVars
<1>2. ASSUME NEW c \in Clients, StatPut(c) \/ ReadDirPut(c) PROVE EntriesInv'
  BY <1>2, PutEntries
<1>3. ASSUME TtlExpires PROVE EntriesInv'
  BY <1>3, ExpireEntries DEF TtlExpires
<1>4. ASSUME NEW c \in Clients, InvalidateOld(c) \/ Invalidate(c) PROVE EntriesInv'
  <2>1. invalidate(arg[c])
    BY <1>4 DEF InvalidateOld, Invalidate
  <2>2. /\ statCache = [r \in Paths |-> statCache[r]] /\ dirCache = [r \in Paths |-> dirCache[r]]
    BY DEF CohInv, TrackInv, ShapeInv
  <2>3. /\ \A r \in Paths : statCache'[r] # None => statCache'[r] = statCache[r]
        /\ \A r \in Paths : dirCache'[r] # None => dirCache'[r] = dirCache[r]
    BY <2>1, <2>2 DEF invalidate
  <2> QED
    BY <2>3, EntriesKept
<1>5. ASSUME NEW c \in Clients,
             Mkdir(c) \/ OpenFileCreate(c) \/ RemovePath(c) \/ SetAttributes(c)
      PROVE  UNCHANGED cacheVars
  BY <1>5, Zenon DEF Mkdir, OpenFileCreate, RemovePath, SetAttributes, Outcome
<1>6. ASSUME NEW c \in Clients,
             \/ StatMiss(c) \/ ReadDirMiss(c) \/ StatRequest(c) \/ ReadDirOpen(c)
             \/ ReadDirRead(c) \/ Rename(c) \/ FileWrite(c)
      PROVE  UNCHANGED cacheVars
  BY <1>6, Zenon DEF StatMiss, ReadDirMiss, StatRequest, ReadDirOpen, ReadDirRead, Rename, FileWrite
<1>7. ASSUME NEW c \in Clients, StatHit(c) \/ ReadDirHit(c) PROVE UNCHANGED cacheVars
  BY <1>7, Zenon DEF StatHit, ReadDirHit, vars
<1>8. ASSUME UNCHANGED vars PROVE UNCHANGED cacheVars
  BY <1>8, Zenon DEF vars
<1> QED
  BY <1>1, <1>2, <1>3, <1>4, <1>5, <1>6, <1>7, <1>8 DEF Next

LEMMA CallsStep ==
  ASSUME CallsInv, [Next]_vars
  PROVE  CallsInv'
<1>1. calls' = calls \/ (calls < MaxCalls /\ calls' = calls + 1)
  <2>1. ASSUME NEW c \in Clients,
               Mkdir(c) \/ OpenFileCreate(c) \/ RemovePath(c) \/ SetAttributes(c)
        PROVE  calls < MaxCalls /\ calls' = calls + 1
    BY <2>1, Zenon DEF Mkdir, OpenFileCreate, RemovePath, SetAttributes, Outcome, Call, Called
  <2>2. ASSUME NEW c \in Clients, StatMiss(c) \/ ReadDirMiss(c) \/ Rename(c) \/ FileWrite(c)
        PROVE  calls < MaxCalls /\ calls' = calls + 1
    BY <2>2, Zenon DEF StatMiss, ReadDirMiss, Rename, RenameAnswered, RenameLost, FileWrite,
                       Call, Called
  <2>3. ASSUME NEW c \in Clients,
               \/ StatRequest(c) \/ StatPut(c) \/ ReadDirOpen(c) \/ ReadDirRead(c)
               \/ ReadDirPut(c) \/ InvalidateOld(c) \/ Invalidate(c)
        PROVE  calls' = calls
    BY <2>3, Zenon DEF StatRequest, StatPut, ReadDirOpen, ReadDirRead, ReadDirPut,
                       InvalidateOld, Invalidate, Return
  <2>4. ASSUME NEW c \in Clients, StatHit(c) \/ ReadDirHit(c) PROVE calls' = calls
    BY <2>4 DEF StatHit, ReadDirHit, vars, clientVars
  <2>5. ASSUME TtlExpires \/ UNCHANGED vars PROVE calls' = calls
    BY <2>5 DEF TtlExpires, vars, clientVars
  <2> QED
    BY <2>1, <2>2, <2>3, <2>4, <2>5, Zenon DEF Next
<1> QED
  BY <1>1, ClientAssumption DEF CallsInv

TypesInv == CohInv /\ ShareInv /\ EntriesInv /\ ReadTypes /\ CallsInv

LEMMA TypesInit == Init => TypesInv
<1> SUFFICES ASSUME Init PROVE TypesInv
  OBVIOUS
<1>1. ShareInv
  <2>1. node = InitialTree /\ dirFile = [c \in Clients |-> None]
    BY DEF Init
  <2>2. TreeInv
    BY <2>1, TreeAssumption DEF TreeInv, IsDir
  <2> QED
    BY <2>1, <2>2, TreeAssumption DEF ShareInv
<1>2. EntriesInv
  BY DEF Init, CacheInit, EntriesInv
<1>3. ReadTypes
  BY DEF Init, ReadTypes
<1>4. CallsInv
  BY ClientAssumption DEF Init, CallsInv
<1> QED
  BY <1>1, <1>2, <1>3, <1>4, CohInit DEF TypesInv

(* The variables keep their types; the share stays a tree through every      *)
(* Mkdir, Remove and Rename, of whole directories too; and no empty listing  *)
(* is cached.                                                                *)
THEOREM TypesKept == Spec => []TypeOK
<1>1. TypesInv /\ [Next]_vars => TypesInv'
  BY CohStep, ShareStep, EntriesStep, ReadsStep, CallsStep DEF TypesInv
<1>2. TypesInv => TypeOK
  <2> SUFFICES ASSUME TypesInv PROVE TypeOK
    OBVIOUS
  <2>1. \A p \in Paths : statCache[p] \in {None} \cup [val : Nodes, expired : BOOLEAN]
    BY Zenon DEF TypesInv, EntriesInv, StatEntries
  <2>2. ASSUME NEW p \in Paths, dirCache[p] # None
        PROVE  /\ dirCache[p].expired \in BOOLEAN
               /\ DOMAIN dirCache[p].val \in (SUBSET Paths) \ {{}}
    <3>1. dirCache[p] \in [val : Listings, expired : BOOLEAN]
      BY <2>2, Zenon DEF TypesInv, EntriesInv, DirEntries
    <3>2. dirCache[p].val \in Listings /\ dirCache[p].expired \in BOOLEAN
      BY <3>1, Zenon
    <3>3. PICK D \in (SUBSET Paths) \ {{}} : dirCache[p].val \in [D -> Nodes]
      BY <3>2, Zenon DEF Listings
    <3> QED
      BY <3>2, <3>3, Zenon
  <2>3. ASSUME NEW p \in Paths \ {<<>>}, node[p] # None PROVE IsDir(Front(p))
    BY <2>3, FrontFacts DEF TypesInv, ShareInv, TreeInv
  <2>4. /\ accessOrder \in Seq(Paths) /\ arg \in [Clients -> Paths] /\ arg2 \in [Clients -> Paths]
        /\ pc \in [Clients -> PCs] /\ overlap \in [Clients -> BOOLEAN]
        /\ excused \in [stat : SUBSET Paths, dir : SUBSET Paths]
    BY DEF TypesInv, CohInv, TrackInv, ShapeInv, ClientTypes
  <2>5. /\ node \in [Paths -> Nodes \cup {None}] /\ dirFile \in [Clients -> Paths \cup {None}]
        /\ \A c \in Clients : pc[c] = "statPut" => val[c] \in Nodes
        /\ calls \in 0 .. MaxCalls
    BY DEF TypesInv, ShareInv, ReadTypes, CallsInv
  <2> QED
    BY <2>1, <2>2, <2>3, <2>4, <2>5, Zenon DEF TypeOK
<1> QED
  BY <1>1, <1>2, TypesInit, PTL DEF Spec
=============================================================================
