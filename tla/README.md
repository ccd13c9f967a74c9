# TLA+ models of AList

AList mounts cloud storages under one tree and serves them over HTTP, WebDAV,
FTP, SFTP and S3. The repository holds the Go server (`src/alist-backend`) and
its web frontend (`src/alist-web`). This directory models the parts of the
server that keep state of their own and share it between goroutines, checks
the models with TLC on small instances and proves some results about them for
every instance with TLAPS.

## Inventory

Each component with its state, its operations, what it interacts with, what is
hard about it and what makes it correct.

| Component | State | Operations | Interacts with | Hard because | Correct when |
|---|---|---|---|---|---|
| Multi-part downloader (`internal/net/request.go`) | chunk channel, ring of buffers, position, error, worker budget, process-wide `ConcurrencyLimit` | `Download`, `Read`, `Close`, worker loop | source of the data, the caller's context, other downloads | goroutines over two locks, a channel and unlocked fields; retries; overload; close at any moment | the reader gets the range in order and then EOF; slots come back; nobody blocks for ever |
| WebDAV lock system (`server/webdav/lock.go`) | lock nodes by name and token, reference counts, expiry heap, held flags | `Create`, `Confirm`, release, `Refresh`, `Unlock` | WebDAV handlers | a tree kept by reference counts; held locks leave the heap; expiry | two locks never conflict; a held lock is not lost |
| WebDAV handlers (`server/webdav/webdav.go`) | temporary locks of a request | `LOCK`, `UNLOCK`, `PUT`, `DELETE`, `MKCOL`, `COPY`, `MOVE` | lock system, file operations | several calls of the lock system per request | a resource locked by one client is not changed by another |
| Storage manager (`internal/op/storage.go`) | database rows, `storagesMap`, driver instances | create, load, update, enable, disable, delete | database, drivers, hooks | steps over three stores without a lock, each may fail | an enabled row has one initialised driver under its mount path |
| Object listing and file operations (`internal/op/fs.go`) | `listCache`, `linkCache`, single-flight groups | `List`, `Get`, `Link`, `MakeDir`, `Move`, `Rename`, `Copy`, `Remove`, `Put` | drivers, search index (hook) | a listing in flight races the operations that change it | a cached listing is not older than the last completed change |
| Single flight (`pkg/singleflight`) | map of calls | `Do`, `DoChan`, `Forget` | all caches | panic and Goexit of the function | one execution per key; every caller gets its result |
| Concurrent map (`pkg/generic_sync`) | read map, dirty map, misses | `Load`, `Store`, `LoadOrStore`, `Delete`, `Range` | storage manager, hooks | lock-free fast path | linearisable |
| Search index (`internal/search`) | `Quit` pointer, running build, queue, saved progress | `BuildIndex`, `StopIndex`, `Update`, `ClearIndex` | file tree walk, searcher, settings | two goroutines per build, stop at any time | one build at a time; progress says done when none runs |
| Offline download and transfer tasks (`internal/offline_download/tool`, `internal/fs/copy.go`) | task fields, signal channel, retry count | `Run`, `Update`, `Transfer` | external task manager, download tools | polling, cancellation, retries | a finished download is transferred once; a dead one ends |
| Users, settings, metas (`internal/op/{user,setting,meta}.go`) | row, cache, single flight | get, save, delete | database | cache cleared before or after the write | no stale row after a completed write |
| Retry group (`pkg/errgroup`), queue and cron (`pkg/mq`, `pkg/cron`) | semaphore, slice, stop channel | `Go`, `Wait`, `Publish`, `ConsumeAll`, `Stop` | drivers, search | small | first error cancels; messages are consumed once |

Not modelled: the 312 files of storage drivers (adapters to cloud APIs, part of
the environment here), the database layer (external ORM), archive readers, the
FTP, SFTP, S3 and FUSE front ends (third-party protocol libraries over the same
file operations), routing and start-up, authentication checks, clients of
external download tools, vendored XML and WebDAV clients, `pkg/chanio` and
`pkg/task` (used by nothing but their tests), the web frontend.

The hard behaviours, each at its line, are listed under `hazards` in
`PROJECT.json` with the properties that guard them.

## Plan and state

Modules in the order they were written, the most entangled component first.

| | Modules | State |
|---|---|---|
| 1 | `ChunkPlan`, `ByteStream`, `Downloader` and proofs | done |
| 2 | `LockNames`, `LockTable`, `MemLS`, `WebDavLocks` and proofs | done |
| 3 | `StorageManager` and its proof | done, for one administrator |
| 4 | `SingleFlight`, `ObjectOps` over it, and proofs | done |
| 5 | `SearchIndex` and its proof | done; liveness is checked only |
| 6 | `OfflineDownload` and its proof | done; liveness is checked only |
| 7 | copy and upload tasks (`internal/fs/copy.go`), the caches of users and settings, `MapOf` against an abstract map | left |

How the modules hang together:

* `MemLS` implements `LockTable` (theorem `Implements`), and `WebDavLocks` runs the
  requests over `LockTable`.
* `Downloader` implements `ByteStream` and takes its arithmetic from `ChunkPlan`.
* `ObjectOps` instantiates `SingleFlight` for `listG` and composes each of its
  steps with a step of a client.
* `MCMemLS`, `MCWebDavLocks`, `MCStorageManager`, `MCObjectOps`, `MCSearchIndex` and
  `MCOfflineDownload` hold the constants and symmetries of the runs and nothing else.

A definition called `X_mutant`, marked "Fault:", is a plausible bug in the code
that `X` translates. No specification uses it: put in the place of `X`, it makes a
property fail, which shows that the property can tell.

## Runs at a glance

| Run | States | Properties |
|---|---|---|
| `downloader_transfer` | 320,750 | `TypeOK InOrder SlotsConserved ImplementsStream ClosedReleases StreamEnds` |
| `downloader_overload` | 3,693,072 | `PlanAgrees BuffersExclusive NoSendBlocks PoolCounted` |
| `downloader_single` | 200 | `SlotsConserved` |
| `memls_tree` | 16,635 | `TypeOK RefCounts HeapExact HeldConsistent NoConflict ExclusiveClaims ClaimKept OnlyExpiredGo ImplementsTable` |
| `webdav_requests` | 2,358,404 | `NoLeakedLock LocksRespected ExclusiveRequests RequestKeepsLocks` |
| `storage_manager` | 700,077 | `TypeOK NoSilentDivergence StatusIsTrue KeyIsRecord` |
| `object_ops` | 4,480,630 | `StaleOnlyExcused FileNeverVanishes OneFlight WaitsForRunning` |
| `search_index` | 449,509 | `QuitOwned ReturnsIndexed ProgressSettled BuildsEnd` |
| `offline_download` | 964,143 | `Reached TransfersContent FileKept DownloadsEnd` |
| `downloader_close` | - | **violated**: `CloseIsQuiet` |
| `webdav_base` | - | **violated**: `LocksRespected` |
| `offline_websocket` | - | **violated**: `DownloadsEnd` |

## Downloader

| Module | What it is |
|---|---|
| `ChunkPlan` | `MaxPart`, `FinalSize`: how `download` and `sendChunkTask` cut a range into chunks |
| `ByteStream` | the abstract specification: a stream of the bytes of the range |
| `Downloader` | one download: caller, reader, workers, and the limit shared with other downloads |
| `Downloader_proof` | theorems about the plan, the types, the slots, the bytes, the buffers, the pool and the refinement |

A byte is modelled by its offset in the range, so `InOrder` (`out = 0, 1, 2 ...`)
says that no byte is lost, doubled or taken from another chunk. Sections under
`d.m` are single actions (`SendChunkTask` is the body of `sendChunkTask` and is
used by `StartParts`, `FinishBuf` and `SpawnNext`); what the code does outside the
lock is a step of its own, so every interleaving at lock granularity is explored:

* `interrupt` is six steps (`CloseCheck` to `CloseNegate`): it holds no lock.
* `finishBuf` is two: `FinishBuf` under `d.m`, `NextBuf` after it.
* `Buf.Write` is `WriteCheck` (the context) and `WriteBuf` (under the buffer's
  lock); a closed buffer makes the latter a panic, kept as the value of `crash`.
* A worker's program counter names the place in `downloadPart` (`recv`, `check`),
  `downloadChunk` (`loop`, `judge`) or `tryDownloadChunk` (`http`, `spawn`,
  `copy`, `write`, `wait`) it is at; `fail` and `cancel` are the two statements
  that end a download.

The environment: the source answers a ranged request with the bytes, with no
answer or a hopeless status (`fail`), a status worth a retry (`busy`, first
chunk), an error status of a later chunk (`overload`), or another total size
(`mismatch`); bodies arrive in pieces and break off where `Drops` says: `inside` the
chunk, or at its `end`, after the last byte but before `io.EOF`. Other downloads
take and return slots, the request's context may be cancelled at any time, the
consumer may close the reader at any time.

Abstractions: logging and time are left out (pauses are steps); status codes are
the classes above; `AnswerBody` gives what was asked for; several `Write` calls
of one body are pieces of any size; the buffer's capacity is not modelled.

### Runs

| Run | Bounds | Shows |
|---|---|---|
| `downloader_transfer` | 3 bytes, parts of 2, 2 workers, 1 retry, 2 slots; every answer but overload; bodies break off anywhere; fairness | `Downloader` implements `ByteStream`; slots conserved; every stream that is read ends; a closed reader releases everything |
| `downloader_overload` | 13 bytes, parts of 4, so four chunks of three sizes; 2 workers; refusals; bodies break off anywhere; no retry | chunk count and sizes agree, buffers exclusive, no send under `d.m` blocks, the budget counts the pool |
| `downloader_single` | one part, 12 slots | the keeper goroutine of a one-part download gives its slot back |
| `downloader_close` | 4 bytes, parts of 2 | **violated**: Close panics the program |

Bounds. The ring of two workers reuses a buffer from the third chunk on, so four chunks
see every buffer reused. Thirteen bytes in parts of four leave a remainder of one,
which the first chunk raises to two and a later one gives back. Refusals together with
retries make the run too long and are left to the theorems, which cover both. In
`downloader_transfer` a chunk of two bytes lets a body break off inside a chunk, and
one retry reaches both the retry and its exhaustion. `Slots` equal to the workers lets
the limit run out while other downloads compete. Nothing in the model counts without
bound, so no state constraint is needed. Deadlock is not checked: a finished
download stops, and a stuck one is what `StreamEnds` looks for.

Fairness (`FairSpec`). Goroutines are scheduled, HTTP requests return because
they carry the context, the consumer keeps reading and closes the reader at EOF
or on an error (every caller in the repository defers `Close`). Nothing is
assumed of the context's cancellation or of other downloads. `StreamEnds` is run
without overload answers, because with them it is false (see below).

### Finding

`downloader_close` - `interrupt` closes the channel and nils the buffers while
workers are running; both lead to a panic outside any recover.

Seen while modelling, without a run:

* A body may break off after its last byte (an error in place of `io.EOF`). The retry asks
  for the empty rest, and when it is refused the chunk is handed back (`request.go:413`). By
  then the reader may be past it and have refilled its place in the channel: the sender
  waits on a full channel with `d.m` locked, which everybody needs before he can receive
  (`request.go:499`). Without such retries the capacity is enough: `NoSendBlocksAlways`.
* A chunk that is handed back keeps `newConcurrency` (`request.go:413`, `:402`), so the
  worker that takes it leaves on the next refusal too; the pool may empty while a chunk
  is queued, and the reader polls an empty buffer for ever.
* An empty range takes a slot, starts no worker and panics at `d.bufs[0]`
  (`request.go:193`); no caller in the repository asks for one.
* With the shared limit exhausted no worker is started, the budget stays positive,
  and every finished chunk appends a new buffer (`request.go:202`, `:217`), so the
  whole range may be in memory, although `request.go:67` says "about Concurrency*PartSize".
* `download` returns the reader together with an early error (`request.go:196`);
  callers that look at the error first drop it unclosed.
* `interrupt` reads `d.written` without `d.m` (`request.go:264`), and a source that answers
  200 to a range request is found out by the chunk's size only (`request.go:436`).

### Proofs

The numbers:

* `ChunksTileRange`, `FinalSizeBounds`: for every length and part
  size, the chunks tile the range and none is empty or larger than a part. The
  argument is the division identity, split on whether the remainder is raised.
* `Typing`: `TypeOK` with the strengthening `Shape`, which says
  what the numbers mean: nothing exists before the first section under `d.m`; while
  budget is left the goroutines it pays for are unborn; a goroutine runs only
  after a chunk was queued; a reader is inside the ring. `limit \in Nat` alone is not
  inductive: that a worker is started only with a slot in hand needs `nextChunk > 0`,
  which is `LiveAfterChunk`.
* `SlotsHeld`: `SlotsConserved` for every non-empty range. Each step of a worker is
  reduced to what it does to `pc` and `limit` (`WorkerEffect`, `SendEffect`); the
  cardinality of the set of live workers then moves by the slot taken or returned.
  That `go d.downloadPart()` starts a goroutine not counted before is `BudgetUnborn`.
  An empty range is excluded because there the property is false.

The second half of `Downloader_proof` follows the bytes. Its inductive invariant `Flow` (`FlowHolds`) is

* `PlanInv`: what was handed out is a prefix of the plan; by the tiling above its
  end is `pos`. `PlanAgrees` follows.
* `RingInv`, `BudgetInv`: the chunks from the one being read (`Cur`) to the last one handed
  out have a buffer each. While the budget lasts there is a buffer for every chunk, so that
  growing the ring does not move the buffer of a chunk that is under way.
* `DataInv`: a buffer of this window holds the bytes of its chunk from where the reader is
  to where its worker is, and `out` ends where the reader is. `InOrder` is part of it.
* `QueueInv`, `WorkerInv`: a chunk that is queued or fetched ends where the plan says,
  and begins where its buffer ends (`Ahead`), also after a retry for the rest and after it was
  handed back. An empty rest is exempt: the reader may be past it.
* `UniqueInv`: nobody shares the rest of a chunk. Without it a second worker could fill the
  buffer of a chunk twice, and `Ahead` would not be kept.

Two chunks of the window have different buffers (`RingApart`: numbers closer than the
ring is long differ modulo its length), hence `BuffersExclusiveAlways`. `StreamRefined`
(`ImplementsStream`) takes each step of caller, reader and workers to a step of
`ByteStream` or none; that EOF comes after the last byte is `Len(out) = Start(Cur) + off` at
the last chunk. `PoolCountedAlways` needs the order of `interrupt` (`CloseInv`: the
context is cancelled before the channel is closed and the budget taken), since
a worker that leaves for these reasons is not counted down.

`NoSendBlocksAlways` counts: the queued chunks are not empty (`SizedInv`), so they are
different chunks of the window, and a sender holds one more of it, or makes room for it, so
there are fewer than the capacity (`QueueFits`, the pigeonhole on numbers of chunks). Its
hypothesis `NeverEmpty` says that bodies do not break off after their last byte or nothing is
retried; without it the property is false (see above), so it cannot be dropped.

Assumptions: `SizeAssumption` and `ConfigAssumption` of `Downloader`, which every run
evaluates. Only model-checked: the liveness properties, outside the prover's reach.

## WebDAV locks

| Module | What it is |
|---|---|
| `LockNames` | resource names, what a lock covers, when two locks conflict |
| `LockTable` | the abstract specification of `LockSystem`: a set of locks by token, and claims on them |
| `MemLS`, `MCMemLS` | `memLS` of `lock.go`: the tree of nodes, its reference counts, expiry heap and held flags |
| `MemLS_proof`, `WebDavLocks_proof` | theorems |
| `WebDavLocks`, `MCWebDavLocks` | the handlers of several clients over `LockTable` |

### The lock system

A name is the sequence of its components, `<< >>` is `/`, and `Walk(name)` is the
set of names `walkToRoot` visits. A method of `memLS` runs under `m.mu` from its
first to its last statement, so each is one action: `Create` and `CreateLocked`
(`ErrLocked`), `Confirm` and `ConfirmFailed`, `Release` (the function `Confirm`
returned), `Refresh`, `Unlock`, and `Refused` (their errors). Each begins with
`collectExpiredNodes`, which is `Fresh` and `FreshTokens`; a call that answers an
error has still removed what had expired (`Collect`). The caller reads the
time before it gets the mutex, so a call may carry any `now` up to the clock.

* `byName` and `byToken` are the maps of the same names. A pointer to a node is the
  node's name: there is one node per name while it is in `byName`, and a node taken
  out of `byName` has lost its token and is not reached again.
* The heap is the field `queued` of a node (`byExpiryIndex >= 0`). The order of
  nodes with the same expiry is immaterial, because `collectExpiredNodes` removes
  all that are over: `Removed(B, G)` is `remove` of each node of `G`, with the
  counts taken down once for each.
* A node that loses its lock but has others below it keeps its other fields, as
  in the code.
* A release function is an element of `claims`, the set of tokens it will unhold.
* `lookup` returns the first match; `NoConflict` says there is at most one that covers a
  name, so `Confirm` picks any.

`LockTable` has the same actions over a plain map from tokens to locks: `Create`
looks at every live lock for a conflict, expiry is a test of the deadline unless the
lock is claimed. `MemLS` maps to it by `locks = token -> (root, depth, deadline)`
of the token's node; `gen`, `claims` and `clock` are shared. It is bounded by
`MaxGen` (locks ever created) and `MaxTime`; both are inside guards.

### The requests

`WebDavLocks` is `confirmLocks` and what surrounds it, for several clients. A
request is `idle`, `locking` (one `Create` of a temporary lock per step, with the
time read once at the start), `trying` (one list of the `If` header per step), `acting`
(the file operations) or `releasing` (the second `Unlock`). `LOCK`, its refresh and
`UNLOCK` are one call each. The kind `write` stands for `PUT`, `MKCOL` and
`PROPPATCH`, which confirm and change the one resource of the URL; `delete` for
`DELETE`. Of an `If` header only the number of lists is kept when the request begins;
which list comes next is chosen when it is tried, so the lists of a request may
be any, in any order.

`SrcName` and `DstName` are the names each handler passes to `confirmLocks`, which
differ from handler to handler in whether the user's base path is joined first;
`Named` are the resources the client asked to change. The module uses `LockTable` in
place of `MemLS`; the theorem `Implements` (and the run `memls_tree`) justifies that.

Left out: the contents of the storage, host and prefix errors of a list, `Depth` of
COPY, and paths outside `Name`. Tokens of an `If` list are the client's own or 0 (a
token never given out).

### Runs

| Run | Bounds | Shows |
|---|---|---|
| `memls_tree` | `/`, two siblings, one child; 2 locks, clock to 2 | nodes, counts, tokens, heap and held flags agree; no conflicts; claims exclusive; a claimed lock is kept; only expired or unlocked locks go; `MemLS` implements `LockTable` |
| `webdav_requests` | 2 clients, `/` and 2 names, 3 locks, clock to 1, up to 2 `If` lists; PUT, COPY, MOVE | named resources are under nobody else's lock; requests exclude each other; a request keeps what it confirmed; no temporary lock outlives its request |
| `webdav_base` | the same with base path `/b`, PUT and DELETE | **violated**: a lock is set on one name and looked for on another |

Bounds. Two locks are enough for a conflict and for a node shared by two locks
that expire together; the proofs cover any number. The tree has a parent with a
child and a name that shares only the root; a timeout of 1 and a clock of 2 let
a lock be refreshed after another expired. Requests need one lock of `LOCK` and
two temporary ones of a MOVE, hence three tokens. Two clients are one that works and
one that interferes; they are symmetric, and no liveness is checked. The
clock stops at `MaxTime` but calls of the lock system are always possible, so
deadlock is checked in every run of this part.

`LocksRespected` is run, and proved, without resource tags: a tagged list replaces the
source by the tagged resource, so a client may show a token for one resource and
change another (`webdav.go:158`). No text in the repository says otherwise.

### Finding

`webdav_base` - with a base path other than `/`, DELETE, PUT, MKCOL and PROPPATCH
confirm the path of the URL, LOCK locks the joined path.

Seen while modelling, without a run: COPY of `/a` to `/d/y` writes `/d/a`, which nobody
confirmed (`file.go:62-68`); the zero-depth temporary lock of a DELETE does not meet
the locks on members of the collection, which go with it (`webdav.go:302`); an
empty name takes no lock (`webdav.go:272`); a refresh of a held lock answers 500
(`webdav.go:524`).

### Proofs

All of `MemLS_proof` is for every set of names closed under ancestors, every set of
timeouts and all bounds (`NameAssumption`, `BoundAssumption`).

The inductive invariant is `Good(byName, byToken, gen, claims)`, stated of arbitrary
values so that it can be used between the collection of expired nodes and the rest
of a method:

* `Shape`, `Linked`: types, and that tokens and nodes name each other. Distinct
  locked names have distinct tokens up to `gen`, so there are finitely many of them
  (`BelowFinite`) and their number is defined although `Name` may be infinite.
* `Rooted`, `Counted`: every ancestor of a locked name has a node, and `refCount` is the
  number of locked names at or below it, never 0. This is what makes both halves of
  `canCreate` right: a lock above or at the name is met on the way to the root
  (`CanCreateClear`), and a node where none was expected means a lock below it
  (`CannotCreate`).
* `Queued`, `HeldFor`, `Disjoint`: the heap is the finite, unheld locks; a node is held
  for exactly one claim. That expiry never takes a claimed lock follows.
* `Clear`: no two locks conflict.

`RemovedGood`, `CreatedGood`, `HoldGood`, `UnholdGood` and `RefreshGood` show that
each helper keeps `Good`. `CollectGood` shows that what is left after collecting is
what the table finds live. One lemma per method (`CreateStep` ... `RefreshStep`)
then gives both the invariant and the table's action, and `NextStep` joins them.
Theorems: `LocksTyped`, `TreeCounts`, `LinksAndHeap`, `HeldSafe` (the panics of `hold`
and `unhold` are unreachable), `NoConflicts`, `ClaimsExclusive`, and `Implements`:
`Spec => ImplementsTable`. The two action properties follow from what is there:
`ClaimsLast` (`ClaimKept`) is read off the table's steps, which `NextStep` says those of
`memLS` are, and `OnlyOverGo` (`OnlyExpiredGo`) from `HeapExact`: what
`collectExpiredNodes` takes is in the heap, hence finite.

`WebDavLocks_proof` is for any number of clients, names and lists. What can happen to
the table is reduced to two shapes: it gets thinner (expiry, `Unlock`), or one lock is
added that conflicts with none. The inductive invariant is

* `Table`: tokens, claims and locks are well formed, no two locks conflict;
* `Holds(c)`: what a request holds at each phase, and that its temporary locks never expire;
* `Apart`: temporary tokens are known to nobody, claims are on tokens that `LOCK` gave
  out, and no two requests share anything. Without it nothing would keep a client's
  UNLOCK from another one's temporary lock;
* `NoLeakedLock` itself.

`NothingLeaked` and `LocksKept` follow for every base path and with tagged lists.
`ChangesLocked` (`LocksRespected`) and `ChangesExclusive` need `GuardInv`, which says that
each resource a request names is covered by a lock it holds or has still to create.
They are proved for `Base = << >>` and `Tagged = FALSE`: the run `webdav_base` is the
counterexample to the first condition, the paragraph above to the second. Two locks
that cover one name conflict (`CoversMeet`), so a lock that is
not the request's own would conflict with its own.

## Storage manager

`StorageManager` is `internal/op/storage.go` with the rows of `internal/db/storage.go`,
the requests of `server/handles/storage.go` and both loaders. A storage is a row of
`rows` and, in service, a driver in `storagesMap` that carries its own copy of the
row (`drv`). A process (an administrator's request, or the loader) has a `frame`: its
step and the local variables of the function it is in. No operation takes a lock, so
every call of the database, of the map or of a driver is a step of its own, and each
may fail:

* `CreateStorage`, `EnableStorage`: `Create`, `Enable`, then `initStorage`, which is
  `InitDriver`, `StoreDriver`, `SaveStatus`, or after a panic `PanicSave`, `PanicStore`;
* `DisableStorage`: `Disable` (drop), `DisableRow`, `Unmount`;
* `UpdateStorage`: `Update` (row), `UpdateTake` (map), `UpdateDrop`, then `initStorage`;
* `DeleteStorageById`: `Delete` (drop and map), `DeleteRow`;
* a driver that renews a token saves its copy of the row at any moment (`DriverSave`);
* `Restart` is the death of the process at any point and `LoadStorages` after it;
  `LoadAll` and `ReloadNext` are `LoadAllStorages`.

`Persist` is `MustSaveDriverStorage`: a write that may be refused by the unique index
on the path, or fail. `hurt` is history: the storages for which an error was answered
or logged after something had changed. `NoSilentDivergence` and `StatusIsTrue` speak of the
others when nothing runs; `KeyIsRecord` holds at every moment.

The run `storage_manager` has one administrator, two rows, three paths (a rename to a
free path, and to one that is taken) and three driver objects (two in service and a
new one). Ids, paths and drivers are symmetric. Deadlock is not checked: with all rows
and paths used up an administrator may have nothing to ask for. Left out: the hooks,
the look-ups by path and `GetBalancedStorage`, which only read the map.

**One administrator** is a real restriction. With two, one may update a storage and take
the driver under its old path just after the other put another storage there
(`storage.go:215`): rows and drivers do part. Nothing in the repository
promises that two administrators may work at once.

### Proof

`StorageManager_proof` proves the four properties of the run for `OneAdmin` and any
number of storages, paths and drivers, any failures and restarts. `NoSilentDivergence` only
speaks of quiet states, so the invariant says what holds in between:

* `Turn`: the loader and the administrator take turns (the check of `StoragesLoaded`);
* `Distinct`, `Serving`: no two rows share a path; whatever is in the map has a record
  with that path;
* `Settled`: a storage nobody works on and nobody was told about is as its row says, or
  waits for the loader (`AsItSays`);
* `Working`: for a request under way, what it knows of its own storage at each step
  (`Object` of its driver object, `Place` of where the driver is in service) and of the
  others (`Others`: its paths are nobody's who was not told);
* `Queued`: the rows the loader has still to load are as it read them.

`Others` is what makes an operation harmless to its neighbours: `LeftAlone` shows that a
step which touches only the paths and the driver of its own operation leaves every other
storage as its row says, and `OneStep`, `Continues` and `Starts` reduce each action to
what it does to its own storage. The save of a driver at an unexpected moment needs
`WorkedAt`: the copy it writes has a path that belongs to its own storage, whatever step
the operation on it has reached.

## Single flight and file operations

`SingleFlight` is `Group.Do` and `doCall` of `pkg/singleflight` with its two critical
sections: a call is in the map from `Lead` to `Unmap`, and between `Finish` (`wg.Done`)
and `Unmap` a newcomer still joins it and takes its result at once. `Forget` is there for
the proof, nothing in `ObjectOps` calls it. `SingleFlight_proof` shows for any callers and
keys that one call per key runs, unless it was forgotten, and that whoever waits waits for
a call of its own key that still runs (`FlightsAreShared`).

`ObjectOps` is `internal/op/fs.go` on one storage with a root and a directory `d`. An
operation finds its objects through listings (`Hit`, `FindParent`, `Do`, `ReadDir`,
`Fill`, `Take`: `op.List` and `op.Get` around `listG`), calls the driver (`Call`,
`CallFails`), and then makes the edits of the cached listings that the function makes by
hand (`Grab` reads the listing, `Apply` sets it). `Put` is the chain of calls of
`AfterPut`: an empty file is removed first; with `NoOverwriteUpload` the old one is set
aside under a temporary name, and renamed back or removed after the upload; the
parent is made through `mkdirG`. Entries of the cache may expire at any step.

* `StaleOnlyExcused`: the edits are the right ones. `excused` collects the directories
  for which that cannot be asked: two operations overlapped on them, or a lazy caller
  left them. Once the listing is read again, with nobody in between, a directory is no
  longer excused.
* `FileNeverVanishes`: whatever step of an upload fails, a file that nobody removes is
  there under its name or the temporary one.
* `OneFlight`, `WaitsForRunning`: of `listG` and `mkdirG`.

The run `object_ops` has two clients, all kinds of operations and two changes of the
storage, drivers that return the new object and drivers that do not, a directory that
cannot be read. Two operations are enough for each pair to overlap at any step. Not run:
`lazyCache` (`Lazies = {FALSE}`), which multiplies the states beyond five minutes, and
drivers that overwrite. Deadlock is checked. Left out: `Link` and its cache, link types,
the object caches of drivers, archives.

### Proof

`ObjectOps_proof` proves the four properties for any number of clients and operations, any
mixture of lazy and other callers, drivers with and without `NoOverwriteUpload`, and any
directories that cannot be read: what the run leaves out is covered here. Its parameters
are assumed to be of their types (`KindAssumption`) and distinct (`NoneAssumption`).
None of the properties is inductive. The proof has three invariants, each of
which uses the ones before it, and a lemma for every action and invariant:

* `Core` is `Types` and `LinkInv`. `Types` says of every operation in progress not only
  what its fields are but what it can be about: at each stage of an upload there is one
  kind of call, one object and one value of `had` (`Staged`), and an edit is owed exactly in
  the steps `edit` and `apply` (`Phase`). `LinkInv` is the invariant of
  `SingleFlight_proof`, instantiated for `listG`, the steps in which a client takes part
  in it (`Roles`), and `Joined`. `OneFlight` and `WaitsForRunning` follow.
* `KeepInv`, as long as nobody has asked to take the file away: nobody has seen an empty
  file, not in the cache nor in its hands (`NoneEmpty`: otherwise `Put` would remove it);
  the requests left are those that leave the file alone (`Peaceful`); and the upload
  that has set the file aside is one at a time, has its last content under the
  temporary name, and the new one in place before it lets go of that (`Owned`).
  `FileNeverVanishes` follows.
* `FreshInv`: contents are new (`Unique`), an operation edits a directory once (`Apart`), and
  each directory that is not excused is `UpToDate`. That is: a listing on its way to the
  cache is the driver's (`OnItsWay`); an edit will turn the cached listing, or the copy it has
  in its hands, into the driver's (`EditsRight`); whoever has either is alone on the
  directory, but for those that only drop its listing (`Solo`); and when nobody is left, the
  cached listing is the driver's or none (`Quiet`). `Unique` is needed because an edit
  that finds the directory as it will be is no edit: a second upload with the content
  of the first would change nothing, and be invisible to `excused`. `EditsOK` is the
  heart of it: for each kind of operation, the edits of `Edits` made to the listing before the
  call give the listing after it, and every directory it is about is edited
  unless the caller is lazy. `StaleOnlyExcused` follows.

Seen while modelling, without a property: `Put` removes the file it found empty, and with it what
another client uploaded in between (`fs.go:535`); the temporary name may be taken
(`fs.go:541`); `UpdateUser` clears its cache before the write (`user.go:99`).

## Search index

`SearchIndex` is a build with its two goroutines (`internal/search/build.go`), the
handlers of `server/handles/index.go`, the hook that updates the index when a directory
is listed, and the start of the server. `w` is the goroutine of a request, first its handler
(`Ask`, `Erase`, `Stop`, ...) and then the walker (`Begin` ... `Built`); `c` is the consumer,
with its queue (`pkg/mq`, whose mutex it keeps during a batch: `Locked`), the channel of
`Quit` (`token`), the flag `running` and the variable `err` both goroutines write. The
deferred functions are steps: `Return`, `Tell`, `Wait` on one side, `Leave`,
`WgDone`, `Flag` on the other. The tree is a root with a file and an empty directory.

* `QuitOwned`: one build at a time, and `Quit` is its own.
* `ReturnsIndexed`: what a build published before it returned is in the index, unless a batch
  failed or another request erased it (`seen.gone`).
* `ProgressSettled`: the progress is done when the builds are, whatever failed.
* `BuildsEnd`: no build is under way for ever.

Fairness: both goroutines run; a walker that waits for the queue's mutex gets it in the
end, because `sync.Mutex` hands itself over to a waiter that starves (hence SF of
`Publish`); `select` chooses at random between the ticker and `Quit` (hence SF of
`ReceiveQuit`). The ticker itself need not tick, and nobody has to stop a build. The run has two
requests of any kind, so every pair of handlers meets, and one death of the server.
Deadlock is not checked: requests end.

Seen while modelling: with a StopIndex the last batch may be lost (`build.go:145`), so
stopped builds are left out of `ReturnsIndexed`; `err` of a failed batch may be overwritten
by the walker, and a batch's success may overwrite the error of `fs.Get`, after which
a nil object is walked (`Panic`); ClearIndex may erase under a build that has
just begun (`index.go:22`).

### Proof

`SearchIndex_proof` proves the three invariants for any number of requests and deaths.
`QuitOwned` is inductive with the types. For `ReturnsIndexed` the consumer and the walker
of an unstopped build have to be in step (`InStep`): while the walker needs it the
consumer is at work and has no token, and when the consumer leaves it has nothing in its
hands; `Accounted` says that all that was published is in the queue, in the batch, in
the index or lost. `ProgressSettled` needs `Reports`: a progress that is not done is so for
a build that will still report, or was stopped. Lemmas `Walks` and `Consumes` reduce each
action to one goroutine. `BuildsEnd` is liveness and model-checked only.

## Offline download

`OfflineDownload` is a `DownloadTask` with aria2 (`internal/offline_download/tool`,
`.../aria2`), the client's receive loop (`pkg/aria2/rpc/call.go`), the transfer tasks and
the start of the task managers. aria2 and the task manager `tache` are external:
aria2 answers calls (`Serve`), finishes or fails what it began, and sends a notification for
each change; `tache` runs a failed task again and loads its tasks at the start. A task's
`pc` is the place in `Run`: `add`, `loop`, `status` (`Update`), `remove`, `transfer`.
`signals` is `Notify.Signals`, and a notification is handed over an unbuffered channel:
the reader (`Receive`, `recv`) waits until the loop takes it (`Signal`).

* `Reached`: in its loop, a task is registered under the GID it polls, also after a
  magnet's metadata was followed by another download.
* `TransfersContent`: what is transferred is complete and not the metadata.
* `FileKept`: the file of a download that succeeded is in its directory or in the storage,
  through failed uploads, retries and restarts, unless the policy deletes it.
* `DownloadsEnd`: every download ends, although notifications may be lost or late.

`offline_download` uses an http address, where calls have connections of their own;
one file and one magnet, which is seeded. Bounds: `Tolerated` 0 for the code's 5 status errors, one
failing call, one retry, one death; with `Apart` a task is retried, or survives a death, while it
is the only one, and not both: two tasks meet only at the reader, which restarts empty. The
proof needs none of these bounds.
Fairness: aria2 answers what it is asked and ends what it began, goroutines run, a call
that gets no answer times out; nobody has to cancel. Deadlock is not checked: tasks end.

### Proof

`OfflineDownload_proof` proves `ReachedAlways`, `TransfersContentAlways` and
`FileKeptAlways` for http and ws addresses and any number of tasks, GIDs, failing calls,
retries and deaths (`Parameters`; `Apart` may be false). An answer of aria2 is used some time
after it was given, so the inductive invariant says of each answer what is still true then:

* `JobsRight`: a GID is followed by one of the same task, and complete metadata is followed.
  An answer "complete" without a follower is therefore about content.
* `TasksRight`: the GID of a task was given out for it, and the answer it holds is the one
  it is `Due`: for `add` a GID of its own, for `status` a follower of its own, or a state
  which, if complete, is still that of the content.
* `WireRight`: the same of an answer that is on the wire, whose task waits for it, and
  there is at most one for each task (`Single`).
* `Reached` itself: tasks move only channels of their own GIDs, so nobody takes another's.
* `Kept`: a download that succeeded has a transfer task, so the directories are not emptied at
  a start; and an upload that is over has put the file into the storage before a policy
  for success deletes it.

What aria2 does keeps what is due because downloads only become more (`Grows`) and only the
task itself takes a complete one back (`Lasts`). Each step of a task is reduced to what it
does to the rest (`Goes`). `DownloadsEnd` is liveness and model-checked only.

### Finding

`offline_websocket` - with a ws address one goroutine reads answers and
notifications. The entry of a download that has ended stays in `Signals`, so a later
notification for it (a torrent that stops seeding) blocks the reader for ever;
every status call then times out, `Update` counts the errors but compares the count after a
successful call only, and no download ends.

Seen while modelling: the drivers of a transfer task are not saved, so after a restart its
upload cannot succeed (`transfer.go:28`), and a policy that deletes on failure
deletes the file; the cleaning of the temporary directory at the start
(`bootstrap/task.go:37`) looks at transfer tasks only.

## What is proved and what is checked

| Module | Proved for every instance | Checked only |
|---|---|---|
| `ChunkPlan` | tiling of the range, sizes | |
| `Downloader` | all invariants and the refinement; `SlotsConserved` for a non-empty range, `NoSendBlocks` under `NeverEmpty` | `ClosedReleases`, `StreamEnds` |
| `MemLS` | all invariants, both action properties, `ImplementsTable` | |
| `WebDavLocks` | all four; two of them for `Base = << >>`, untagged | |
| `StorageManager` | all four, for one administrator | |
| `SingleFlight` | one flight per key, nobody waits for an ended call | |
| `ObjectOps` | all four | |
| `SearchIndex` | the three invariants | `BuildsEnd` |
| `OfflineDownload` | the three invariants, without the bound `Apart` | `DownloadsEnd` |

Liveness under fairness is outside the prover's reach. Assumptions are the named
`ASSUME`s of the modules, evaluated by the runs; the theorems of `StorageManager` also
name `OneAdmin`, those of `WebDavLocks` their configuration, `SlotsHeld` the non-empty
range and `NoSendBlocksAlways` the condition `NeverEmpty`.

## Not modelled

Most of the repository's lines are the storage drivers (312 files, adapters to cloud APIs),
the vendored XML of the WebDAV server and the clients of external tools: they have no
state the rest depends on, and enter the models as an environment that answers anything.
Of the core these are left:

* copy and upload tasks, single operations split over `tache`; their writes are those of
  `ObjectOps`;
* HTTP serving of a file: range parsing and a copy loop, sequential;
* users, settings, metas: one table behind a cache and a single flight;
* `MapOf`: a copy of Go's `sync.Map`, taken as a map with atomic operations;
* retry group, cron, browser messages, authentication, archive readers, the FTP, SFTP, S3
  and FUSE front ends, routing and start-up, the database layer (external ORM), the web
  frontend: sequential, external, or without state of their own.

The hazards of the modelled parts that no property covers are in `PROJECT.json` with the
reason.
