# Verification of Stiva's storage engine

Stiva is an S3-compatible object store in Go. An object is a file plus a record
in a bbolt database; requests, background workers and shutdown run concurrently
and the process may die between any two steps. This directory models the parts
where that matters, checks them with TLC and proves the central facts with TLAPS.

## 1. The system

| Component | State | Operations | Hard part | Module |
|---|---|---|---|---|
| Lock tables (`multipart.go` `lockKey`, `metadata.go` `acquireBucketLock`, init locks) | map name -> refcounted mutex | lock, unlock | the object behind a name is dropped and re-created | KeyLock |
| Version metadata (`metadata.go`) | per key: latest pointer and version records | `PutObjectMeta`, `DeleteObjectMeta`, reads | pointer and history must agree after any mix of transactions | VersionIndex, MetaStore |
| Object operations (`filesystem.go`, `multipart.go`) | files, metadata, key locks | put, complete, get, copy, delete, versioning | file and metadata change in separate steps; crash between them | ObjectStore |
| Bucket database cache (`metadata.go`) | map bucket -> refcounted bbolt handle | acquire, release, evict, remove, close | closing what others use; deleted files coming back | BucketDBCache |
| Bucket registry and caches (`filesystem.go`, `metadata.go`) | central database, `bucketCache`, `countCache` | create, delete, settings, count | check-then-act; fill of a cache after its invalidation | BucketRegistry |
| Multipart uploads (`multipart.go`) | part files, upload record | create, part, complete, abort | parts replaced during completion, crash in the clean-up | Multipart |
| Lifecycle worker (`lifecycle.go`) | none of its own | expire objects, versions, uploads | deletes by a stale list | Lifecycle, Multipart |
| Listings (`listing.go`, `filesystem.go`) | none | paginated listings | markers, common prefixes, changes between pages | Listing |
| Dispatchers (`sync.go`, `webhook.go`) | queue, workers, retry timers, WaitGroup | trigger, attempt, retry, stop | shutdown racing senders and retries | Dispatcher |
| Server and access log (`server.go`, `router.go`) | listeners, log queue and buffers, clean-up worker | serve, log, shutdown | order of shutdown, deadline | Server |
| Handlers, console, authentication (`s3api`, `console`, `auth`) | - | decode, dispatch, answer | - | parts in Multipart, Listing, Server |
| Migration (`metadata.go`), configuration, paths | - | start-up, parsing | - | not modelled |

How they interact: a handler calls the engine; the engine takes a key lock
(`lockObjectKey`), moves files and calls the metadata store; every metadata
method takes the bucket's lock for reading, then a handle from the database
cache, then runs one bbolt transaction. After a commit the engine triggers the
webhook and the mirror dispatcher, and the router queues an access-log line that
its worker stores with `PutObject`. Deleting a bucket or changing its settings
takes its lock for writing. Listings and part of the lifecycle sweep take handles
without the bucket lock.

## 2. Modules

    RWLock        ideal reader-writer lock per name       <- KeyLock implements it
    MetaStore     transactions on one key's metadata      <- ObjectStore implements it
                                                          <- Lifecycle extends it
    ObjectStore, BucketDBCache, BucketRegistry and Multipart use locks at the
    level of RWLock; Multipart ends where ObjectStore's "complete" publishes

* **RWLock** - what a keyed lock promises (`sync.RWMutex`, external).
* **KeyLock** - the refcounted tables. `Register` and `Unregister` are the two
  sections under the table mutex; `RLock`, `Announce`, `Lock`, `Unlock` the
  mutex itself. `Modes = {"write"}` is `lockKey`, `{"read","write"}`
  `acquireBucketLock`. The 32 segments are left out: one name is in one segment.
* **VersionIndex** - the state of one key in bbolt and the transactions on it as
  operators. Version ids are numbered in the order of bbolt's cursor; 0 is the
  empty id, `NullVersion` is "null". A content stands for its ETag.
* **MetaStore** - any sequence of those transactions with any time stamp.
* **ObjectStore** - requests on one key as sequences of steps. `Stage` is
  everything up to the finished temporary file, `Rename` the move plus the time
  stamp, `CommitMeta` the transaction, the answer and the deferred unlock.
  `CompleteMultipartUpload` takes the same way without the key lock.
  `GetObject` is metadata read, then `OpenFile`. `DeleteObject` has its three
  branches. `Crash` keeps files and metadata and drops everything else;
  `cleanupOrphanedTempFiles` makes the temporary files disappear. `Faults` lets
  transactions and metadata reads fail.
* **BucketDBCache** - `acquireBucketDB` step by step (map, registry check, init
  lock, second look, `bolt.Open` with its file lock, insertion with eviction),
  release, `DeleteBucket` with `CloseAndRemoveBucketDB`, `PutBucket`, `Close`.
  Users are "request" (bucket lock held) or "listing" (not held).
* **BucketRegistry** - a bucket's entry in the central database, both caches, its
  objects and files. The existence check of a request and each of its later
  steps are separate actions; `cache`, `uncache` and `dropdb` are the steps a
  writer takes before it releases the bucket lock (`Unlocked`). A setting is the
  number of the request that made it, so `registry[b].set` is what is in force.
  `GetBucketCached` is `LookUp`, `GetBucket`, `Fill`; the count is
  `CountObjectMetas`, `CountUncached`, `StoreCount`. History variables remember
  which cached values came from an overtaken reader, and which settings and
  objects were acknowledged outside the two check-then-act windows.
* **Multipart** - upload records and part files with the key they are encrypted
  under. `UploadPart` is `PrepareUpload` (upload lock, SSE-C decision), `StagePart`
  (part lock), `RenamePart`, `RecordPart` (upload lock again); Complete is `Validate`, one `CopyPart` per part, `Publish`, `Cleanup`,
  `Forget`; Abort is `RemoveParts`, `DropRecord`. `SortParts` is the set of sorted
  orders: `sort.Slice` is not stable. Every step can fail, a crash can hit
  between any two. `RemoveAll` is `os.RemoveAll` with its error ignored, as Complete
  and Abort do: any of the part files and of the temporary files of running
  uploads may survive it, and the directory goes only when it is empty; the record
  is dropped all the same. `left` and `spared` remember where it fell short.
  `CleanExpiredMultipartUploads` starts an Abort.
* **Lifecycle** - extends MetaStore by a bucket's rule, days, the sweep and
  clients. A sweep lists (`ListCurrent`, `ListNoncurrent`) and then deletes entry
  by entry with the transactions of DeleteObject; a delete marker is checked
  (`CheckMarker`) and removed (`RemoveMarker`) in two steps. Crash, a failed
  deletion (`DeleteFails`) and an unreadable history (`VersionsUnread`) are its
  faults.
* **Listing** - the four listings as operators over the sorted database, and a
  client that fetches page after page while other requests commit in between.
  Keys are sequences of characters because markers are compared, cut and
  extended by a byte. A version is named after its time of writing; the listing
  shows its `VersionID`, which all versions written while Suspended share, so
  writing "null" again replaces the entry and moves it to the front of its key
  (`moved` remembers when it was the marker).
* **Server** - S3 requests from the first header byte on, console requests, the
  access-log queue, its worker with buffers and ticker, the clean-up worker, and
  `Shutdown` step by step for several callers with a deadline. A connection
  whose headers have not been read counts as busy until it is read or goes away
  (`HeadersNeverCome`), which includes net/http closing it as idle.
* **Dispatcher** - both dispatchers: `Trigger`/`Enqueue` are the two halves of
  `MirrorSync`/`triggerWebhook` around the mutex; workers and retry timers are
  goroutines with a common attempt; `Begin`, `CloseQueue`, `Wait` are Stop.
* **MC\*** - symmetry sets, views that ignore the fields of freed entries, and
  sets that a configuration file cannot write.
* **\*Proofs** - the proofs, one module per component, MetaStore's with those of
  Lifecycle, which extends it, and those of Dispatcher and Server together in
  **ShutdownProofs**, which also composes the two (their names are disjoint for
  that: Server's specification is `ServerSpec`); **VersionIndexProofs** holds the
  lemmas on the transactions, which two of them use.

Abstractions worth knowing: one object key in ObjectStore and Lifecycle (the
records of a key are found by its prefix ending in a NUL, which no other key's
records have); the clock of ObjectStore is strictly increasing while MetaStore
allows any stamps; ObjectStore reads the versioning status as it is, the
staleness of the cache it is read through is BucketRegistry's subject; a client
can only name version ids it was told of; a failing GET changes nothing and is
no step; the eviction victim is any idle entry, not the least recently used one;
the events triggered after a commit are not steps of ObjectStore; in Lifecycle
there is at least one complete sweep a day and none takes longer than a day.

## 3. Runs

| Run | Instance | Shows |
|---|---|---|
| `key_lock` | 3 goroutines, 2 names, 3 addresses | the table is an ideal lock (refinement), has no stale entry, and serves everybody |
| `object_writes` | 3 clients | PUTs and copies of one key never leave bytes of one under the ETag of another |
| `object_all` | 2 clients, all operations, failing transactions | reads of uuid versions are never torn, the metadata refines MetaStore, every request ends |
| `object_durable` | 4 requests, 1 crash | an acknowledged version of a versioned bucket stays until it is deleted by id |
| `db_cache_all` | 2 buckets, cap 1, requests and listings | no handle closed in use, none leaked |
| `db_cache_requests` | users with the bucket lock | a cached handle is on the current file, deleted files stay deleted |
| `dispatcher` | 2 events, 2 workers, 2 retries, 2 stop calls, queue of 1 | no send on the closed queue, Stop waits for everything and returns |
| `multipart` | 1 upload, 2 parts, 2 clients, 4 requests, 1 crash | parts paired with ETags, assembly as validated, unreachable files and second publications only as named, no deadlock |
| `bucket_registry` | 2 buckets, 2 clients, 5 requests, cache of 1, 1 crash | caches fresh, settings and objects not lost |
| `listing` | every content over 4 keys and 2 ids, 2 later versions, 3 prefixes, pages of 1 and 2, 1 change | what stays is listed, once, in pages of at most max-keys, and paging ends |
| `server` | 2 S3 requests, 1 console request, 2 callers, queue of 1 | nobody meets a closed channel or engine, lines survive, the call that does the work reports what it cuts off, Shutdown returns |
| `lifecycle` | 3 client requests in 3 days, 10 days, batch of 1, 1 fault | coherent metadata, current versions kept, nothing resurrected, everything expires |

**Bounds.** `MaxOps` bounds requests (and so time stamps), `MaxUuid` the uuids,
`MaxCrashes` and `MaxFaults` the faults. Two concurrent requests and a third one
before or after them are what the races need; the three clients of
`object_writes` add a waiter on the lock. Cap 1 with two buckets makes every
insertion an eviction; three handles allow one cached, one evicted but in use and
one being opened. Two retries make a timer schedule a timer. In `multipart` the
four requests include the creation: a part, its replacement or another part, and
a completion or an abort racing them, or a completion, its repetition and an
abort; a part is large enough or too small to be followed by another one. It has
one customer key besides plain text, so what it shows of keys is plain against
encrypted; that two different keys never meet in one upload is the theorem
`OneKeyPerUpload`, for any set of keys. In
`bucket_registry` five requests allow create, use, delete and re-create against a
reader. The keys "a", "a/", "a/a", "aa" of `listing` contain a prefix of another
key, one that ends in the delimiter, one below it and one that sorts after it;
of the versions 1 to 4 of a key 1 and 3 are "null" ones, and 3 and 4 are written
only while the client lists.
In `server` a flush needs two lines of one target, so both the full buffer and
the partial one happen. In `lifecycle` a rule of one day lets objects expire
while clients still write, and the days after the last write are enough for an
object, its delete marker and one fault.

**Fairness.** A handler that has started runs on (weak fairness of `Progress`);
a waiter on a Go mutex is not passed over for ever because of its starvation
mode, hence strong fairness of lock acquisition (in Multipart of a request's
next step, locking or not). Nothing forces a step to fail. In Dispatcher
goroutines run, timers fire, attempts end (the HTTP clients have timeouts);
nothing forces a request to trigger an event or a stop to begin. In Server the
log worker, the deadline and the callers of Shutdown go on; S3 requests are not
forced to end, `ShutdownReturns` assumes it. In Lifecycle the worker goes on and
days pass (strong fairness, because a sweep is always starting). In Listing the
client keeps asking.

**Deadlock** is checked in all runs. `Idle`, `Over` and `Finished` are the states
in which the bound is used up, or everything is shut down, and nothing is pending.

## 4. Proofs

For all values of the constants that satisfy the named assumptions (finite sets
of threads, distinct nil values, a non-empty worker pool):

* **KeyLockProofs** - `TypeCorrect`, `TableExact`, `Exclusion`, `Refinement`.
  Inductive core: every thread between the two table accesses points at the
  table's object and the counter is the number of such threads; so the entry is
  dropped by the last one only, and two threads on one name share one mutex.
* **LifecycleProofs**, on MetaStore - `TypeCorrect`, `Coherence`, `Immutability`,
  `Promotion`; coherence with the type is inductive, immutability needs that a
  uuid with a record is used up (`Drawn`), promotion follows from coherence before
  the deletion and the choice of `findNextNewestVersion`. On Lifecycle -
  `LifecycleRefinement`: sweeps and clients only run MetaStore's transactions, so
  the four carry over. `SweepKeepsCurrent`, `SweepResurrectsNothing`: an entry of a
  list that no client has overtaken still means what it meant (`StillMeant`): an
  object to expire is still the pointer, a pointer under a listed marker's id is
  that marker and, once checked, alone, and a listed noncurrent version is not the
  pointer. Writes under fresh ids preserve this because every listed uuid is used.
* **ObjectStoreProofs** - `VersionReads`: a read of a uuid's version is never
  torn. The invariant ties each uuid to one content: every file, record and
  request that carries the uuid agrees on it (`OwnUuid`, `Bytes`), and only the
  request that drew it can still write it. `MetadataRefinement`: every step is a
  MetaStore transaction or leaves the metadata alone. `VersionsDurable`, for
  buckets that are "Enabled" or "Suspended" and status reads that succeed: no
  request then acts as on an unversioned bucket (`Versioned`), only the null
  version's file and files asked to be deleted go (`RemovesWanted`), so a renamed
  uuid file is there at its commit (`Landed`). `WritesPaired`, for puts, copies and
  reads without crash or failing transaction (`WritesOnly`): who renames and
  commits has the key lock (`UnderLock`), and every listed version but the one in
  that window has its bytes (`Paired`). The conditions are those of the runs
  `object_durable` and `object_writes`; without them the statements are false
  (section 5).
* **BucketDBCacheProofs** - `TypeCorrect`, `Usable`, `Accounted`,
  `InsertUncontended`. An entry being opened is private to the holder of the
  init lock, the map is injective, cached entries are open and not evicted, and
  counts equal users; therefore a zero count means that nobody is disturbed.
  `DeletionFinal` and `HandlesCurrent`, for users that hold the bucket's lock
  (`Kinds` within `{"request"}`): a deletion is alone with its bucket, so a
  request that found the bucket registered still does when it opens the file, and
  the file at the path changes only once the entry has left the map. Listings do
  not hold the lock, and with them both are false (section 5).
* **BucketRegistryProofs** - `InfoCacheFresh`, `CountCacheFresh`,
  `SettingsSurvive`, `ObjectsSurvive`, each with an invariant of its own: what a
  reader that was not overtaken is about to store is the truth (`FillFresh`,
  `StoreFresh`); a count taken before a bucket's database goes was overtaken
  (`DropLate`), so counts are right even of unregistered buckets; a request about
  to create resets nothing (`NothingToReset`), one about to remove loses nothing
  (`NothingToLose`), and an unovertaken PUT still has its file (`CommitHasFile`).
* **MultipartProofs** - `LocksExclude`, `PartsReachable`, `PartFilesPaired`,
  `OneKeyPerUpload`, `CompleteAssembles`, `PublishesOnce`. In layers: the locks
  exclude; then which of record and directory is there at each step (`StepsFit`);
  then a renamed part's file stays in place until it is recorded
  (`RenamedInPlace`); the key check of `PrepareUpload` is still right at the rename
  (`KeyChecked`); what `Validate` saw holds while Complete copies (`StillValid`);
  and as long as the parts are there each earlier publication was followed by a
  crash or by a clean-up that left directory and record (`PublishedBefore`). A
  temporary file belongs to an upload that is staged (`TempsStaged`); part files
  without a record are those `RemoveAll` left.
* **ShutdownProofs**, on Dispatcher - `TypeCorrect`, `Sends`, `StopComplete`. An
  accepted event is at one place, so a retry timer is always a new goroutine and
  the WaitGroup is exact; at zero the workers are gone, which they are only once
  the closed queue was empty. On Server - `ServerTypeCorrect`, `LogSends`,
  `EngineLast`, `CutsReported`, `EveryCallerWaits`. One call of Shutdown moves and
  nobody returns before it (`OneOwner`); what is closed is a function of how far
  it is (`Gates`); before the deadline nothing outlives the wait for its port,
  after it only requests whose headers were unread can still start, and nothing
  else outlives the wait for the active requests (`Deadline`); the log worker ends
  with channel and buffers empty (`LogDrained`); a port that was given up left an
  error (`Reported`). On both - `EngineClosesQuiet`, about `Process`: the two
  specifications side by side, with the engine closed only after every Stop has
  ended, as in `FilesystemEngine.Close`, and at least one Stop call (`Stoppers`
  not empty). A Stop may end without waiting; the added invariant `Skips` says that
  then another call waits, or there was never an event and never will be one.

Only model-checked: liveness (`EveryRequestServed`, `EveryRequestEnds`,
`EveryEventSettles`, `StopReturns`, `PagingEnds`, `LinesSettle`,
`ShutdownReturns`, `EverythingExpires`), which the prover does not handle; and
the properties of Listing (`StableListed`, `ListedOnce`), whose pages are computed
from a sorted database by choice of the next entry and would need induction over
it. The inductive invariants above were checked with TLC on the instances of the
runs before they were proved, `QuietOnClose` and `Skips` on one request, one event
and two Stop calls (374 thousand states).

What the theorems add to the runs: the type invariants of KeyLock, MetaStore,
BucketDBCache, Dispatcher and Server (no counter below zero, no queue above its
capacity), `MutualExclusion` and `OneObjectPerName` of KeyLock (the runs check
the stronger `ImplementsRWLock`), `RefCountExact` and `InsertFindsNoEntry` of
BucketDBCache, the exclusion of Multipart's locks, the refinement of
MetaStore by Lifecycle, `EveryCallerWaits` of Server, and the composition of
Server and Dispatcher, whose state space is the product of the two.

## 5. Known exceptions

Behaviour of the code that the properties above name as an exception or that a
run excludes. None of these is reached by the repository's tests.

* A GET reads the metadata (`filesystem.go:540`) and opens the file (`:555`)
  without a lock: a PUT in between pairs the old ETag with new bytes, except for
  versions with a uuid, whose files never change (`VersionReadsConsistent`).
* A crash between the rename and the metadata write leaves new bytes under the
  old ETag when the bucket is not versioned (`multipart.go:502`, `:545`, and the
  same in `PutObject`).
* A PUT that read the versioning status before versioning was enabled
  (`filesystem.go:345`) and commits after a versioned PUT wipes that version's
  record (`metadata.go:861`).
* A listing that passed the registry check before a `DeleteBucket` re-creates the
  database file after it (`metadata.go:336`).
* A `GetBucketCached` or `CountObjectMetas` overtaken by a change stores the old
  value: the bucket's settings stay stale until the next change (there is no
  expiry), a count for 30 seconds (`infoRaced`, `countRaced`). The comment at
  `metadata.go:1062` expects staleness from outside the process only.
* A second `CreateBucket` between its check and its write resets settings made
  meanwhile; a `DeleteBucket` between its check and the removal takes objects
  stored meanwhile with it (`SettingsKept`, `ObjectsKept`).
* `AssembledAsListed` names three: a part replaced during the copy, a part whose
  upload died between rename and record, and a part stored in plain text before
  the first SSE-C part made the upload an encrypted one. In each case the
  completed object is not what its ETag says.
* `os.RemoveAll` takes no lock that keeps an `UploadPart` out, and its error is
  ignored (`multipart.go:551`, `:587`). A part renamed into the directory after it
  was read, or a file that cannot be unlinked, stays on disk while the record is
  dropped, and nothing finds it again (`NoUnreachableParts`). When neither the
  directory nor the record goes (`:553` only logs), the upload can be completed
  again (`PublishedOnce`).
* A "null" version that a listing's page ended on and that is written again before
  the next page (Suspended; `filesystem.go:355`, `:692`) is then the newest of its
  key, and the key's versions that were listed before it come again
  (`ListedOnce`). A "null" not listed yet that is written again may be missed.
* A version listing whose marker version is deleted between two pages ends there;
  a listing with page size one of a prefix that is itself an object skips
  everything below it (`MarkerDeleted`, `FolderObjects`). A version listing may
  repeat a common prefix. A `start-after` that sorts before the prefix ends the
  listing at once if another key lies between them; clients of the model send
  only the markers they were given.
* A request whose headers are read after the deadline of `Shutdown` (15 s in
  `main.go`; `ReadHeaderTimeout` is 30 s) meets a closed log channel and a closed
  engine. net/http narrows this: it closes a kept-alive connection with unread
  headers at once, and a new one some seconds after it was accepted, as idle and
  without an error. In return a request whose headers are read in the very instant
  its connection is closed as idle may run untracked; that window inside net/http
  is not modelled, and `NoLogOnClosed`, `EngineClosedLast` and `CutIsReported` do not
  cover it.
  `Router.Close` waits for a stalled upload beyond any deadline. The clean-up
  worker is told to stop and not waited for. Only the call that does the
  work learns of an error (`CutIsReported`): the comment at `server.go:260` says
  "later calls return the same result", but `err` is local to each call
  (`:262`-`:266`) and later ones return nil (`ReturnLater`) whatever happened.
* A sweep that cannot read the versions below a delete marker removes the marker
  (`lifecycle.go:149`), and the deleted object is back; an object written between
  listing and deletion is deleted or hidden. The age of a noncurrent version
  counts from its own LastModified. Delete markers that hide versions stay on the
  list of every sweep under an Expiration rule without a noncurrent part; enough
  of them fill the batch and nothing behind them expires, although "remaining
  items are simply picked up by the next hourly pass" (`lifecycle.go:93`).

## 6. Not modelled

* Start-up migration: sequential, copies are idempotent, the source is dropped in
  one transaction at the end.
* Request signing and chunk signatures, encryption and compression of bodies:
  correctness of byte strings and ciphers.
* Configuration, TLS, client addresses, paths and bucket names, XML types,
  Prometheus text: pure functions without state. Metrics: counters nothing reads.
* Console handlers beyond their part in shutdown, and login throttling.
* The state of the mirror and of webhook receivers: a full queue drops the event
  (counted and logged), and ten workers and retries apply a PUT and a later DELETE
  of one key in either order; the code claims neither order nor delivery.
* Version files left on disk when versioning is switched off and their records
  are wiped (`metadata.go:861`): nothing reads them.
* The soft cap of open databases after a burst: `evictLocked` closes at most one
  idle handle per insertion; the cap is documented as soft.
* Several keys sharing one lifecycle batch, and the least-recently-used order of
  the database cache.
