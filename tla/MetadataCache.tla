---------------------------- MODULE MetadataCache ----------------------------
(***************************************************************************)
(* The client's metadata cache (cache.go): two maps, from paths to stat    *)
(* results and to directory listings, with one list of paths that orders   *)
(* the evictions.  Every operation runs under c.mu, so each is one step.   *)
(*                                                                         *)
(* A path is the sequence of its names, the root is <<>>.  The clock is    *)
(* left out: an entry whose TTL has run out is marked expired.  The module *)
(* is about an enabled cache (a disabled one ignores every call), and      *)
(* invalidateAll, which nothing but a test calls, is left out.             *)
(***************************************************************************)
EXTENDS Integers, Sequences, FiniteSets, SequencesExt

CONSTANTS
  Paths,            \* the paths the program may ask for, closed under parents
  MaxCacheEntries,  \* CacheConfig.MaxCacheEntries
  None              \* no entry, no file

ASSUME CacheAssumption ==
  /\ IsFiniteSet(Paths)
  /\ <<>> \in Paths
  /\ \A p \in Paths : p # <<>> => p \in Seq(ToSet(p))
  /\ \A p \in Paths : \A n \in 0 .. Len(p) : SubSeq(p, 1, n) \in Paths
  /\ MaxCacheEntries \in Nat \ {0}

VARIABLES
  statCache,    \* c.statCache
  dirCache,     \* c.dirCache
  accessOrder   \* c.accessOrder

cacheVars == <<statCache, dirCache, accessOrder>>

CacheInit ==
  /\ statCache = [p \in Paths |-> None]
  /\ dirCache = [p \in Paths |-> None]
  /\ accessOrder = <<>>

Entry(v) == [val |-> v, expired |-> FALSE]
Cached(cache) == {p \in Paths : cache[p] # None}
TotalEntries(stats, dirs) == Cardinality(Cached(stats)) + Cardinality(Cached(dirs))

(* A lookup answers from an entry that is there and has not expired.         *)
Hit(cache, p) == cache[p] # None /\ ~cache[p].expired

getParentPath(p) == IF p = <<>> THEN <<>> ELSE Front(p)

trackAccess_KeepsOld(order, p) == Append(order, p)

(* Move p to the end of the list; the list holds it at most once.            *)
trackAccess(order, p) ==
  Append(IF p \in ToSet(order)
         THEN RemoveAt(order, CHOOSE i \in DOMAIN order : order[i] = p)
         ELSE order,
         p)

(* How many paths evictIfNeeded takes off the front of the list.             *)
EvictCount_OffByOne(stats, dirs, order) ==
  LET excess == TotalEntries(stats, dirs) - MaxCacheEntries - 1 IN
  IF excess <= 0 THEN 0 ELSE IF excess > Len(order) THEN Len(order) ELSE excess

EvictCount(stats, dirs, order) ==
  LET excess == TotalEntries(stats, dirs) - MaxCacheEntries IN
  IF excess <= 0 THEN 0 ELSE IF excess > Len(order) THEN Len(order) ELSE excess

(* The common end of putStatInfo and putDirEntries, with the entry already   *)
(* in its map: trackAccess, then evictIfNeeded.                              *)
Store(stats, dirs, p) ==
  LET order == trackAccess(accessOrder, p)
      n == EvictCount(stats, dirs, order)
      evicted == ToSet(SubSeq(order, 1, n))
  IN /\ accessOrder' = SubSeq(order, n + 1, Len(order))
     /\ statCache' = [q \in Paths |-> IF q \in evicted THEN None ELSE stats[q]]
     /\ dirCache' = [q \in Paths |-> IF q \in evicted THEN None ELSE dirs[q]]

putStatInfo(p, v) == Store([statCache EXCEPT ![p] = Entry(v)], dirCache, p)

putDirEntries(p, v) == Store(statCache, [dirCache EXCEPT ![p] = Entry(v)], p)

invalidate_KeepsParent(p) ==
  /\ statCache' = [statCache EXCEPT ![p] = None]
  /\ dirCache' = [dirCache EXCEPT ![p] = None]
  /\ UNCHANGED accessOrder

invalidate_KeepsStat(p) ==
  /\ dirCache' = [dirCache EXCEPT ![p] = None, ![getParentPath(p)] = None]
  /\ UNCHANGED <<statCache, accessOrder>>

(* Both entries of the path go, and the listing of its parent; accessOrder   *)
(* keeps the path.                                                           *)
invalidate(p) ==
  /\ statCache' = [statCache EXCEPT ![p] = None]
  /\ dirCache' = [dirCache EXCEPT ![p] = None, ![getParentPath(p)] = None]
  /\ UNCHANGED accessOrder

(* StatCacheTTL or DirCacheTTL runs out for one entry.                       *)
Expire ==
  /\ UNCHANGED accessOrder
  /\ \/ \E p \in Paths : /\ Hit(statCache, p)
                         /\ statCache' = [statCache EXCEPT ![p].expired = TRUE]
                         /\ UNCHANGED dirCache
     \/ \E p \in Paths : /\ Hit(dirCache, p)
                         /\ dirCache' = [dirCache EXCEPT ![p].expired = TRUE]
                         /\ UNCHANGED statCache

-----------------------------------------------------------------------------
(* Every cached path is in accessOrder, and no path is there twice: whatever *)
(* is cached can be evicted, in the order of the last put.                   *)
Tracked ==
  /\ Cached(statCache) \cup Cached(dirCache) \subseteq ToSet(accessOrder)
  /\ IsInjective(accessOrder)

(* As long as every path of accessOrder has an entry and the cache is within *)
(* MaxCacheEntries, evictIfNeeded keeps it there.                            *)
LimitKept ==
  [][ /\ ToSet(accessOrder) \subseteq Cached(statCache) \cup Cached(dirCache)
      /\ TotalEntries(statCache, dirCache) <= MaxCacheEntries
      => (TotalEntries(statCache, dirCache) <= MaxCacheEntries)' ]_cacheVars

(* "When exceeded, oldest entries are evicted": never more than              *)
(* MaxCacheEntries entries once evictIfNeeded has run.                       *)
WithinLimit == TotalEntries(statCache, dirCache) <= MaxCacheEntries
=============================================================================
