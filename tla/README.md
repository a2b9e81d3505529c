# smbfs in TLA+

A model of smbfs, a Go library with two halves: a **client** that presents an SMB share as a file system (connection pool, metadata cache, file operations) and a **server** that presents a file system as an SMB share (sessions, trees, file handles, message handlers).

The modules here are translated from the Go code. TLC checks them on small instances, and TLAPS proves the central safety properties for every value of the constants. `PROJECT.json` maps every definition to the lines it models and lists runs, mutants, hazards, findings and theorems.

## The system

| Part | Source | State | Operations | Module |
|---|---|---|---|---|
| Connection pool | `connection.go` | slice of connections, queue of waiter channels, `numOpen`, `closed` | `get`, `put`, `createConnection`, `cleanup`, `Close`, `conn.close` | `ConnectionPool` |
| Metadata cache | `cache.go` | `statCache`, `dirCache`, `accessOrder` | `put*`, `get*`, `invalidate`, eviction, expiry | `MetadataCache` |
| File operations, cache on | `filesystem.go`, part of `file.go` | the call each goroutine is in | `Stat`, `ReadDir`, `Mkdir`, `OpenFile`, `Remove`, `Rename`, `Chmod`, `Chtimes`, `Truncate`, `File.Write` | `CachedFileSystem` |
| File operations, failing share | `filesystem.go`, `retry.go`, `errors.go` | the share calls left of each call, the attempt, borrowed connections | `OpenFile`, `Chdir`, `MkdirAll`, `RemoveAll`, `ReadDir`, `ReadFile`, `Truncate`, `Rename`, `Chmod`, `withRetry`, `Close` | `ClientFileSystem` |
| Paths | `path.go` | none | `validatePath`, `normalize`, `dir`, `join`, `toSMBPath` | `Paths` |
| Open files | `file.go`, `smb2_file.go`, `smb2_info.go` | `File.offset`, the backend's offset, the content | `Read`, `Write`, `ReadAt`, `WriteAt`, `Seek`, `Truncate`, `Close`; READ, WRITE, FLUSH, SET_INFO, QUERY_INFO, CLOSE | `FileHandle` |
| Directory enumeration | `smb2_dir.go`, part of `file.go` | listing and position per handle | QUERY_DIRECTORY | `DirectoryEnumeration` |
| Sessions, trees, handles | `session_manager.go`, `file_handle_map.go`, `smb2_session.go`, `smb2_tree.go`, `smb2_file.go`, `smb2_info.go`, `server.go` | sessions, trees, handle map, path index, open files | SESSION_SETUP, TREE_CONNECT, CREATE, CLOSE, SET_INFO, TREE_DISCONNECT, LOGOFF, expiry, `RemoveShare` | `FileServer` |
| Server lifecycle | `server.go` | listener, `conns`, `connCount`, `wg`, context | accept, serve, cleanup loop, `Stop` | `Server` |
| Negotiation, session setup, signing | `smb2_negotiate.go`, `smb2_session.go`, `smb2_signing.go`, `smb2_handlers.go`, `auth_*.go` | dialect, preauth hash, session state, keys | NEGOTIATE, the legs of SESSION_SETUP, LOGOFF, expiry | `SMBProtocol`, `ServerConnections` |
| Test share | `mock_smb.go` | files and contents | `OpenFile`, `Stat`, `Mkdir`, `Remove`, `Rename`, `Read`, `Write`, `Seek`, `Readdir` | `MockSMB`, `MockSMBFile` |
| Encoding, configuration, IOCTL, adapters | the remaining files | none that matters | | not modelled |

How they interact: every file operation of the client takes a connection from the pool, asks the server, and reads or updates the cache; the pool and the cache share no state, so they have a module each. `ClientFileSystem` repeats of the pool what its calls can tell apart: how many connections are free, the queue of channels, and the dial. On the server every connection has a goroutine that runs one handler at a time; all of them share the session manager and the handle maps, and the expiry loop works on both.

What is hard here: a waiter that times out while a connection is being handed to it; `Close` during a dial; a cache filled with an answer that was overtaken by a change; a reply that is lost after the server has acted; eviction that counts entries but removes paths; a share check and an allocation that are two steps; four ways to release the same handle; a request that was validated before its session ended; a connection that `Stop` does not find; a key derived from a transcript two sides keep; two offsets of one file; an enumeration continued over many requests; a retry of what was already done.

## The modules

A definition `D_Slip` is `D` with a plausible mistake in it. No specification uses it; the mutants of `PROJECT.json` put it in the place of `D` to show that a property notices.

### ConnectionPool

One step is one critical section of `p.mu`, or one operation on a channel or timer. The two loops that remove connections under the lock take one step per iteration, and `mu` names the goroutine inside.

- `get` is `GetClosed` or `GetLock`, then the scan (`GetSkip`, `GetReuse`, `GetExpire`, `GetPanic`), then `GetCreate` or `GetEnqueue`. A dial ends with `CreateSucceeds` or `CreateFails`. A waiter leaves with `GetReceive`, `GetReceiveNil`, `GetTimeout`, or `GetCancel` and `GetCancelled`.
- `put` is `PutClosed`, `PutToWaiter`, `PutKeep` or `PutDrop`.
- `RangeView` is what Go's `range` sees while the body deletes from the slice: the array with the old length, whose last elements repeat. `tail` holds what lies behind the shortened slice.
- `age` is the time since `lastUsed`, in ticks.

`ConnectionLease` is what the pool promises its callers: connections are lent to one caller at a time, only mounted ones are lent, and none is taken from its holder while the pool is open. `ConnectionPoolRefinement` maps the pool to it: a caller holds what it has checked out and what lies in the channel it still waits on (`Lent`); usable connections are the live ones nobody has decided to close. `ImplementsLease` is checked in `pool_safety`.

### MetadataCache and CachedFileSystem

`MetadataCache` has the two maps and `accessOrder`; `Store` is the common end of both puts, tracking and eviction included. `CachedFileSystem` extends it with goroutines and a share. An operation is a lookup, a request and an update of the cache, each a step. The share is a tree of files and directories whose metadata is one bit; the server is external.

Two history variables say why an entry may legitimately be stale: `overlap` (the share changed under what a goroutine has read but not cached) and `excused` (entries that no operation keeps up to date: a lost reply, a write through a `File`, a path below a renamed directory, a fill that overlapped a change). A `Rename` whose reply is lost (`RenameLost`) excuses both names, what lies below them and the two listings that name them. `StatCoherent` and `DirCoherent` say that there is no further reason. `Truncate` is one change of the file here, although it writes through a `File`, possibly several times; its writes before the last are those of `FileWrite`.

### FileServer

Each use of a lock and each call to the file system behind a share is a step. CREATE takes seven: `CreateValidate`, `CreateCheckShare`, `CreateStat`, `CreateOpen`, `CreateStatFails` or `CreateAllocate`, `CreateFlag`. CLOSE takes three, rename three. LOGOFF, TREE_DISCONNECT and expiry compute batches of handles (`Logoff`, `TreeDisconnect`, `CleanupExpired`), list each batch under the lock (`TeardownList`), release handle by handle (`TeardownRelease`) and then remove the session or tree (`TeardownEnd`); the expiry loop removes the session first. `Release` closes the file and does nothing for a handle that is already gone. `CreateStat` takes any error of `Stat` for absence, as the code does, and `CreateOpen` may fail after it has made the directory; `Mkdir` and the `OpenFile` after it are one step.

`session`, `trees` and `openFile` stand for objects that a handler may hold after they have left their maps. The history fields `raced` and `late`, and the variables `ending` and `renamed`, mark the handles the properties exempt. Session IDs are never reused, names are flat, and directories only add refusals.

### Server, SMBProtocol and ServerConnections

`Server` has the goroutines of `server.go`. The accept loop is `Accept` or `AcceptFails`, `CheckLimit`, `Spawn`; a handler is `Register`, then `TestContext`, `Receive` (or `ReadClosed`, `ReadFails`), the reply, and on the way out `CloseConn`, `Deregister`, `Finish`; `Stop` is `StopCancel`, `StopListener`, `StopConns`, `StopWait`. `wg` is the wait group as a number.

`SMBProtocol` has dialect selection, key derivation, signing and NTLM as operators. A key is the record of what it is derived from and a hash is the sequence of what was hashed: the primitives are taken as injective.

`ServerConnections` composes the two. `HandleMessage` is one handler from dispatch to the decision to sign; `WriteMessage` adds the reply to the hash and sends it. The peer of a connection is external: it follows MS-SMB2, keeps its own transcript and derives its own key, so `KeysAgree` compares two independent computations. Each deployment record carries the server's options and the bounds of that behaviour.

### MockSMB, MockSMBFile, FileHandle, DirectoryEnumeration and HandleIO

`MockSMB` is the test share as operators, `MockSMBFile` an open file of it. Their calls hold the share's lock, so each is one step of the caller.

`FileHandle` is one `File` in several hands. A method is the nil check, then one step per backend call and one per access to `f.offset`; `f.offset += n` is a load and a store, and `ReadAt` and `WriteAt` save the offset in a step of their own (`SaveOffset`). `Close` is four steps: the backend's file, `f.file`, the connection's return, `f.conn`. `returned` counts the returns and `contended` says that two callers have been inside `Close` at once. A request of the server (`handleRead`, `handleWrite`, ...) is the list of steps its handler takes, refusals first (`Refuse`). `overlapped` names the callers whose call another call has overlapped, `stream` is the position a sequential reader expects, and `calm` says whether calls have overlapped or a `Truncate` has moved the backend since.

`DirectoryEnumeration` has the state per handle and the paging of `File.ReadDir`. A name is a number, a pattern the set of names it matches, and an entry takes some room of the reply. `disturbed` marks a client that restarts or repositions.

`HandleIO` puts the two side by side; a behaviour uses one of them.

### Paths and ClientFileSystem

A raw path is whether it begins with a separator and its parts; `Clean` is Go's `path.Clean` on parts. `Meaning` and `LeavesShare` say the same without folding: a name stays when no run of parts after it has more `..` than names.

An operation of `ClientFileSystem` is an agenda of share calls, and `Outcome` says what an answer does to it: `MkdirAll` puts the parent before itself, `RemoveAll` puts a directory's children before its removal. A share call is `Loop` (the context, when retried), `Borrow`, perhaps with a `Dial`, or `Wait` and `Receive`, the call itself, and `Put`; an operation that opens a file keeps the connection through `UseFile`. A call is `Served`, `Refused`, or goes wrong: unsent, done but with the reply lost, or on a closed connection; a dial fails, for now or for good; the wait for a connection ends with `TimesOut` or `Canceled`; after `Close` the share is unmounted or nil. A reply and the `put` that follows it are one step. `TimesOut` leaves the channel in the queue, as the code does: `Nobody` reads it any more, and a connection that `Put` sends there, or that was there already, counts as `lost`. The cache is off, its default. `before`, `made`, `gone` and `calm` are history.

## The runs

| Run | Config | Shows |
|---|---|---|
| `pool_safety` | `ConnectionPool.cfg` | type, slot accounting, exclusive use, owned connections usable, no missed handoff, idle limit, no forgotten session; the pool implements `ConnectionLease` |
| `pool_liveness` | `ConnectionPoolLiveness.cfg` | every `get` returns; after `Close` every session is logged off |
| `pool_leak` | `ConnectionPoolNoLeakedConnection.cfg` | violated: a timed-out waiter's channel swallows a connection |
| `pool_panic` | `ConnectionPoolNoPanic.cfg` | violated: two expired connections make `get` slice past the end |
| `cache_coherence` | `CachedFileSystem.cfg` | type, tracking, coherence of both maps, eviction keeps the limit while every tracked path has an entry |
| `cache_rename` | `CachedFileSystemGoneNotServed.cfg` | violated: children of a renamed directory stay cached |
| `cache_limit` | `CachedFileSystemWithinLimit.cfg` | violated: after an invalidation the cache can exceed `MaxCacheEntries` |
| `server_handles` | `FileServer.cfg` | type, every open file accounted for, complete path index, share modes, complete teardown |
| `server_connections` | `ServerConnections.cfg` | exact connection count, nothing running after `Stop`, client and server agree on keys, replies signed, no abandoned setup, `Stop` returns |
| `handle_io` | `HandleIO.cfg` | a call nobody overlaps transfers where it should, the offsets agree, nil dereference only inside overlapped calls and a connection returned twice only by overlapping `Close`s, listings without repetition or loss |
| `client_files` | `ClientFileSystem.cfg` | paths mean what they say, exclusive creation, attempts within the policy, nil means done, exact outcomes through masked failures, every connection accounted for (those lost to a waiter that left included), every call returns |
| `server_sharing` | `FileServerSharingEnforced.cfg` | violated: a renamed handle is invisible to the share check at its new path |

### Bounds

- **Pool.** Four callers, three connections, two channels, `MaxOpen` and `MaxIdle` 3, expiry after one tick: all slots busy with a waiter queued, handoff, several connections expired at once, and a drop by the idle limit all occur. About 70 thousand states up to symmetry. The liveness run has two callers over one slot, without symmetry. `Conns` and `Chans` bound identities that are alive at once; a closed one is used again.
- **Cache.** Two goroutines, five paths (two directories, a file that moves with one), two entries, four calls (`MaxCalls`). Four calls are enough for a fill that is overtaken by a rename and a further change. About 330 thousand states.
- **Server.** Two connections and the expiry loop, one session, one tree (`MaxTrees`), two handles (`MaxHandles`), two names, an exclusive and a sharing mode, one SET_INFO (`MaxSetInfo`), FILE_OPEN_IF with delete on close. About 2.5 million states. The other dispositions differ in which requests are refused; `server_sharing` explores all six.
- **Connections.** Six deployments: three connections around a limit of two and `Stop`; a server without a limit; one connection that sends six messages in any order, renegotiation and LOGOFF included; old dialects; a client that reconnects; sessions that expire during a setup. About 260 thousand states.
- **Handles.** Two callers, three calls of a file of three bytes, one backend failure, chunks and read sizes of two, so that transfers take full and partial chunks; up to six queries of a directory of up to four names, with room for one to three entries, one change and one failure. About 700 thousand states.
- **Client.** `MaxAttempts` 3. Every path of at most four parts out of seven; one call on each of 33 shares with two failures of any kind; two clients with one connection at a lock file; two in one tree with two connections and a lost reply; two during `Close`. Renames stay at the top level: the test share accepts a target without a parent directory, which a server does not. About 210 thousand states.

Deadlock checking is off everywhere but in the pool: the bounds let all calls run out.

### Fairness

Three specifications have fairness.

*Pool* (`FairSpec`). Runnable goroutines run (WF). A goroutine that wants `p.mu` gets it (SF: a Go mutex in starvation mode serves the longest waiter). Dials end and timers fire (WF). Callers return what they check out. Nothing forces anyone to call `get`, the cleaner to run, or the pool to be closed.

*Server* (`FairSpec`). The accept loop, the cleaner's return, the caller of `Stop` and every handler run when they can (WF). Nothing makes a peer connect, send or leave, so `StopReturns` holds with silent peers.

*Client* (`Spec`). A goroutine inside a call goes on (WF on `Proceeds`): the share answers or fails, and timers of the pool and of the backoff fire. Nobody has to close a file, so `CallsReturn` holds although connections may stay borrowed for ever.

## The proofs

The theorems hold for every value of the constants that the named assumptions allow. Most have the form `Spec => []P`; `PoolImplementsLease` is a refinement and `EvictionKeepsLimit` an action property. The property of each is one that a run checks; that of `AttemptsStayWithinPolicy` is a conjunct of the client's `TypeOK`.

| Module | Theorems | Inductive invariant | Assumptions |
|---|---|---|---|
| `ConnectionPoolProofs` | `TypeCorrect`, `SlotsAccounted`, `ExclusiveOwnership`, `OwnedStaysUsable` | `BaseInv`, then `OwnInv` | `PoolAssumption` |
| `ConnectionPoolHandoff` | `HandoffNeverMissed`, `NoSessionForgotten`, `IdleStaysBelowMaxIdle`, `PoolImplementsLease` | `HandoffInv`, `LeaseInv` | `PoolAssumption` |
| `CachedFileSystemProofs` | `CacheTracked`, `StatsStayCoherent`, `ListingsStayCoherent`, `EvictionKeepsLimit`, `TypesKept` | `TrackInv`, `CohInv`, `TypesInv` | `CacheAssumption`, `ClientAssumption`, `TreeAssumption` |
| `FileServerProofs` | `TypesKept`, `NoFileLeaked`, `IndexKept`, `SharingKept`, `TeardownKept` | `Inv` | `ServerAssumption` |
| `ServerConnectionsProofs` | `TypesKept`, `KeysStayAgreed`, `RepliesStaySigned`, `NoSetupAbandoned`, `CountStaysExact`, `StopLeavesNothing` | `LoopInv`, `Inv`, `ServerInv` | `LifecycleAssumption`, `SetupAssumption` |
| `FileHandleProofs` | `AloneStaysExact`, `OffsetStaysTracked`, `ClosesAreSafe` | `HandleInv`, `LeaseInv`, `ServedInv` | `HandleAssumption`, `WorkloadAssumption` |
| `ClientFileSystemProofs` | `ExclusiveMakers`, `ConnectionsStayAccounted`, `AttemptsStayWithinPolicy` | `ExclInv`, `AccountInv` | `AttemptsAssumption`, `SituationAssumption` |

`SliceLemmas` has the facts about removing from slices that pool and cache use. The assumptions say that sets of goroutines and connections are finite, that limits are numbers (positive where the code requires it), that "no value" is not a value, that `Paths` is closed under prefixes and the initial share is a tree, and that arguments have the types Go gives them. Every run evaluates those of its module.

**Pool.** Ownership is not inductive alone. `get` decides to reuse a connection from a range view that may lie behind the slice, so `TailInv` says that such a leftover is still pooled, or has expired and will not be handed out. `NoDuplicates` says that the slice holds each connection once; `QueueInv` that a queued channel is empty, queued once and awaited by one caller, so a handoff cannot overwrite another; `PooledUsable` that a pooled connection is mounted and not about to be closed. `OwnInv` is their conjunction with the two properties. That no handoff is missed needs `ScanInv`: a scan of `get` has passed no idle connection, or has removed an expired one, and then a slot is free and `get` dials. For the refinement each action of the pool is shown to be a step of `ConnectionLease` or to leave it unchanged, from `LeaseInv`.

**Cache.** Tracking rests on `TrackAccessProperties` (moving a path to the end keeps the others, once each) and `StoreStep` (dropping the front of the list and the entries of those paths keeps the rest tracked). Coherence needs `ReadInv`: what a goroutine has read and not yet cached is what the share has, unless `overlap` is set. `EvictionKeepsLimit` counts: a put adds at most one entry, and each path taken off the list has one. `TypesKept` includes that the share stays a tree. For `Rename` this is an argument about sequences: `RebasePoints`, `RebaseBack` and `RebaseAbove` say where a path below a renamed directory goes, that the way back restores it, and that what lies between moves along; so every directory above a moved path is either one that moved with it or one above the new name, which `Rename` requires to be there.

**File server.** What the properties say of the maps is kept by what each handler relies on between two of its steps. `TaskInv` has the shape of what a handler remembers. `BoundInv` counts the IDs reserved by CREATE and TREE_CONNECT under way. `CheckedInv` says that a CREATE past the share check that was not overtaken is still compatible with every handle of its path. `TreeInv` and `EndsInv` say that a session or tree is missing only because it is being ended. `TeardownInv` says that a handle whose session or tree is being ended is still covered by the batches of the teardown.

**Connections.** `LoopInv` is about the goroutines alone: the accept loop owns the connection it has in hand, and `conns` holds exactly the connections between the two ends of their bookkeeping. A message touches their state only through four operators, so `LoopInv` is preserved whatever the message is. `Inv` adds, for each connection, what its request, its response and its client know of each other: the challenge, the dialect, the transcript while a first set-up lasts, the key on its way, the session used steadily. `ClaimInv` says that no session is claimed by two connections, which keeps one connection from changing another's key. `ServerInv` adds that `wg` counts the two loops and the running handlers; `StopLeavesNothing` follows from `wg = 0`.

**Open file.** A caller that nothing overlaps is the only busy one, so between its steps nothing moves. `Lone` says, at each point of each method, where the two offsets, the content and the data are by then; `Control` is what is known of a caller that may be interrupted. `RaceInv` says that callers busy at the same time are all marked `overlapped`, and that a method which finds the file nil after its check is one of them. For `ClosesAreSafe`, `LeaseInv` says how often the connection has gone back at each point of `Close`, as long as no two callers have been in it at once, and `ServedInv` that a CLOSE request is the only one past `Release`, since it took the handle out of its table.

**Client.** `ExclInv`: what a client was told it created still stands, so the share refuses to create it for another. A file counts as a client's from the reply that says so for as long as its name is there. `AccountInv` has the shape of each task (`TaskOK`) beside the balance of free, borrowed, kept, handed and lost connections; a lemma for each action says which of them change. The queue needs an argument of its own: `QueueIs` says that a client that waits without a connection stands in it exactly once, whatever channels of `Nobody` are around it, so a `Put` serves a client that still waits or loses the connection, and never both.

### Only model-checked

- All liveness (`GetReturns`, `ClosedDrains`, `StopReturns`, `CallsReturn`): it needs fairness.
- `NamesResolved`, and with it the rest of `TypeOK` of `ClientFileSystem`: paths go through the fold of `Clean`, and what a fold computes for every path needs an induction over data.
- `NilMeansDone` and `RetriesInvisible`: they compare a share with what an agenda of calls, grown by `MkdirAll` and `RemoveAll`, has done to it, which is again an induction, over the tree.
- `ListingPrefix` and `NothingSkipped` of `DirectoryEnumeration`: what fits into a reply is chosen by a fold over the listing, and a pattern selects a subsequence.
- `TypeOK` of `HandleIO`, which speaks about the composition with `DirectoryEnumeration`. The theorems of `FileHandleProofs` are about `FileHandle` by itself, whose steps the composition takes unchanged.

## What the model shows about the code

Five runs are violations; each has a finding in `PROJECT.json` that quotes the line it contradicts. Further findings have no run of their own, but a passing property states the exact limit of what holds:

- `RemoveAll` fails with `io.EOF` if and only if the tree holds an empty directory (`RetriesInvisible`).
- `MkdirAll` can return `fs.ErrExist` for a directory another client has just made.
- A share call that finds its connection closed is not retried: `convertError` hides `ErrConnectionClosed` from `isRetryable`.
- `Truncate` parts the two offsets of a file until the next `Seek` (`OffsetTracks`), and a `File` used by two callers at once gives no guarantee (`AloneExact`); `CloseSafe` says what `Close` still promises then: without overlap no nil dereference, and the connection goes back once.
- A pattern makes QUERY_DIRECTORY repeat entries but never lose one (`NothingSkipped`); a restarted scan finds nothing; the file index sent is not the one understood.
- FILE_CREATE is not exclusive; busy sessions expire; the reply to LOGOFF is unsigned; without a limit the connection count goes below zero (`CountExact`).

## Not modelled

- Message layouts, encodings, constants and attributes; configuration parsing; logging; IOCTL; the adapter over go-smb2. They keep no state that the properties depend on.
- Cryptography: hashes and MACs are injective constructors.
- Changes to a share by other SMB clients are left out of `CachedFileSystem`: the cache does not claim to see them before its TTL.
- Who created a file in a FILE_CREATE race, and which file a second delete-on-close removes: `FileServer` has the steps, but its names have no identity that outlives a removal.
- Peers that do not follow MS-SMB2: `KeysAgree` and `RepliesSigned` are about those that do. A second leg of SESSION_SETUP that fails leaves its session in progress until it expires; `NoAbandonedSetup` is about the first leg.
- `ListShares`, which answers from the configuration.
- `subFS`, `isAbs`, `fromSMBPath`, `invalidateAll` and `UpdateActivity` have no caller in the library. Pool and cache statistics only read.
