---------------------------- MODULE BucketDBCache ----------------------------
(***************************************************************************)
(* The cache of open bucket databases (internal/storage/metadata.go).      *)
(*                                                                         *)
(* Every bucket has its own bbolt file, opened on demand by                *)
(* acquireBucketDB and shared through refcounted entries; eviction,        *)
(* deletion of the bucket and Close all want to close what others use.     *)
(*                                                                         *)
(* A "request" is any MetadataStore method: it holds the bucket's lock for *)
(* reading while it holds the handle.  A "listing" is ListObjects,         *)
(* ListObjectVersions, ListMultipartUploads or the lifecycle sweep, which  *)
(* call acquireBucketDB without that lock.  The bucket and init locks are  *)
(* used at the level of RWLock; m.mu makes each access to the map a step.  *)
(***************************************************************************)
EXTENDS Naturals, FiniteSets

CONSTANTS Threads, Buckets,
          Handles,   \* addresses of bucketDBEntry
          Inodes,    \* incarnations of database files
          Nil,
          Cap,       \* maxOpenBucketDBs
          Kinds,     \* the kinds of user
          MayClose   \* whether the store is closed during the run

ASSUME BucketDBCacheAssumption ==
    /\ IsFiniteSet(Threads) /\ IsFiniteSet(Buckets)
    /\ Nil \notin Handles /\ Nil \notin Inodes /\ Nil \notin Buckets
    /\ Nil \notin {"request", "listing", "delete"}
    /\ Cap \in Nat \ {0}
    /\ Kinds \subseteq {"request", "listing"}
    /\ MayClose \in BOOLEAN

VARIABLES registry,   \* buckets in the central database
          file,       \* metadata/<bucket>.db: the inode at that path
          active,     \* activeBuckets
          refCount, evicted, open, inode,   \* the fields of each entry
          closed,     \* Close has run
          pc, kind, bkt, hnd   \* per thread: progress, kind, bucket, entry

entry == <<refCount, evicted, open, inode>>
thread == <<pc, kind, bkt, hnd>>
vars == <<registry, file, active, entry, closed, thread>>

Init ==
    /\ registry \in SUBSET Buckets
    /\ file = [b \in Buckets |-> Nil]
    /\ active = [b \in Buckets |-> Nil]
    /\ refCount = [h \in Handles |-> 0]
    /\ evicted = [h \in Handles |-> FALSE]
    /\ open = [h \in Handles |-> FALSE]
    /\ inode = [h \in Handles |-> Nil]
    /\ closed = FALSE
    /\ pc = [t \in Threads |-> "idle"]
    /\ kind = [t \in Threads |-> Nil]
    /\ bkt = [t \in Threads |-> Nil]
    /\ hnd = [t \in Threads |-> Nil]

(* acquireBucketLock: who is inside, for reading and for writing. *)
Readers(b) == {t \in Threads : bkt[t] = b /\ kind[t] = "request"}
Writers(b) == {t \in Threads : bkt[t] = b /\ kind[t] = "delete"}
(* The holder of the bucket's init lock. *)
Initializing(b) == {t \in Threads : bkt[t] = b /\ pc[t] \in {"init", "opening", "opened"}}

Cached == {b \in Buckets : active[b] # Nil}
Unreferenced(h) == /\ \A b \in Buckets : active[b] # h
                   /\ \A t \in Threads : hnd[t] # h
FreshHandle(h) == Unreferenced(h) /\ ~open[h]
FreshInode(i) == /\ \A b \in Buckets : file[b] # i
                 /\ \A h \in Handles : ~FreshHandle(h) => inode[h] # i

(* The thread returns, releasing its locks. *)
Return(t) ==
    /\ pc' = [pc EXCEPT ![t] = "idle"]
    /\ kind' = [kind EXCEPT ![t] = Nil]
    /\ bkt' = [bkt EXCEPT ![t] = Nil]
    /\ hnd' = [hnd EXCEPT ![t] = Nil]

Goto(t, state) == pc' = [pc EXCEPT ![t] = state] /\ UNCHANGED <<kind, bkt>>
-----------------------------------------------------------------------------
(***************************************************************************)
(* acquireBucketDB.                                                        *)
(***************************************************************************)
Enter(t, b, k) ==
    /\ pc[t] = "idle"
    /\ k = "request" => Writers(b) = {}
    /\ kind' = [kind EXCEPT ![t] = k]
    /\ bkt' = [bkt EXCEPT ![t] = b]

(* Found in the map: one more user. *)
Take(t, b) ==
    /\ active[b] # Nil
    /\ refCount' = [refCount EXCEPT ![active[b]] = @ + 1]
    /\ hnd' = [hnd EXCEPT ![t] = active[b]]
    /\ pc' = [pc EXCEPT ![t] = "using"]
    /\ UNCHANGED <<registry, file, active, evicted, open, inode, closed>>

AcquireHit(t, b, k) == Enter(t, b, k) /\ Take(t, b)

AcquireMiss(t, b, k) ==
    /\ Enter(t, b, k)
    /\ active[b] = Nil
    /\ pc' = [pc EXCEPT ![t] = "check"]
    /\ UNCHANGED <<registry, file, active, entry, closed, hnd>>

(* "Verify bucket exists in global DB"; a closed central database is an    *)
(* error too.                                                              *)
InRegistryUnchecked(b) == ~closed
InRegistry(b) == b \in registry /\ ~closed

CheckRegistry(t) ==
    /\ pc[t] = "check"
    /\ IF InRegistry(bkt[t])
       THEN Goto(t, "wait") /\ UNCHANGED hnd
       ELSE Return(t)
    /\ UNCHANGED <<registry, file, active, entry, closed>>

LockInit(t) ==
    /\ pc[t] = "wait"
    /\ Initializing(bkt[t]) = {}
    /\ Goto(t, "init")
    /\ UNCHANGED <<registry, file, active, entry, closed, hnd>>

(* The double check under the init lock: opened by another thread. *)
TakeAgain(t) ==
    /\ pc[t] = "init"
    /\ Take(t, bkt[t])
    /\ UNCHANGED <<kind, bkt>>

(* bolt.Open opens the file, creating one if there is none ...             *)
OpenFile(t) ==
    /\ pc[t] = "init"
    /\ active[bkt[t]] = Nil
    /\ \E h \in Handles, i \in Inodes :
          /\ FreshHandle(h)
          /\ IF file[bkt[t]] = Nil THEN FreshInode(i) ELSE i = file[bkt[t]]
          /\ file' = [file EXCEPT ![bkt[t]] = i]
          /\ inode' = [inode EXCEPT ![h] = i]
          /\ refCount' = [refCount EXCEPT ![h] = 0]
          /\ evicted' = [evicted EXCEPT ![h] = FALSE]
          /\ hnd' = [hnd EXCEPT ![t] = h]
    /\ Goto(t, "opening")
    /\ UNCHANGED <<registry, active, open, closed>>

(* ... and waits for its exclusive flock, which every open handle has.     *)
FileLocked(i) == \E h \in Handles : open[h] /\ inode[h] = i

Flock(t) ==
    /\ pc[t] = "opening"
    /\ ~FileLocked(inode[hnd[t]])
    /\ open' = [open EXCEPT ![hnd[t]] = TRUE]
    /\ Goto(t, "opened")
    /\ UNCHANGED <<registry, file, active, refCount, evicted, inode, closed, hnd>>

(* The one-second timeout, an I/O error, or a failing initial transaction. *)
OpenFails(t) ==
    /\ pc[t] \in {"opening", "opened"}
    /\ open' = [open EXCEPT ![hnd[t]] = FALSE]
    /\ Return(t)
    /\ UNCHANGED <<registry, file, active, refCount, evicted, inode, closed>>

(* evictLocked: one entry nobody uses makes room, if the map is full.  It  *)
(* is the least recently used one; any idle entry stands for it here.      *)
VictimsInUse(keep) ==
    IF Cardinality(Cached) < Cap THEN {} ELSE {active[b] : b \in Cached \ {keep}}

Victims(keep) ==
    IF Cardinality(Cached) < Cap
    THEN {}
    ELSE {h \in {active[b] : b \in Cached \ {keep}} : refCount[h] = 0}

(* Into the map with one user.  The branch for an entry inserted meanwhile *)
(* is left out: InsertFindsNoEntry shows that it is never taken.           *)
Insert(t) ==
    /\ pc[t] = "opened"
    /\ LET h == hnd[t]
           b == bkt[t]
       IN  \E victim \in IF Victims(b) = {} THEN {Nil} ELSE Victims(b) :
              /\ active' = [c \in Buckets |-> IF c = b THEN h
                                              ELSE IF active[c] = victim THEN Nil ELSE active[c]]
              /\ evicted' = [g \in Handles |-> evicted[g] \/ g = victim]
              /\ open' = [g \in Handles |-> open[g] /\ g # victim]
              /\ refCount' = [refCount EXCEPT ![h] = 1]
    /\ Goto(t, "using")
    /\ UNCHANGED <<registry, file, inode, closed, hnd>>
-----------------------------------------------------------------------------
(* releaseBucketDB: the last user of an evicted entry closes it.           *)
ReleaseNeverCloses(t) ==
    /\ pc[t] = "using"
    /\ refCount' = [refCount EXCEPT ![hnd[t]] = @ - 1]
    /\ Return(t)
    /\ UNCHANGED <<registry, file, active, evicted, open, inode, closed>>

Release(t) ==
    /\ pc[t] = "using"
    /\ refCount' = [refCount EXCEPT ![hnd[t]] = @ - 1]
    /\ open' = [open EXCEPT ![hnd[t]] = @ /\ ~(refCount[hnd[t]] = 1 /\ evicted[hnd[t]])]
    /\ Return(t)
    /\ UNCHANGED <<registry, file, active, evicted, inode, closed>>

(* PutBucket, under the bucket's write lock. *)
CreateBucket(t, b) ==
    /\ pc[t] = "idle" /\ ~closed
    /\ Readers(b) \cup Writers(b) = {}
    /\ registry' = registry \cup {b}
    /\ UNCHANGED <<file, active, entry, closed, thread>>

(* DeleteBucket, under the bucket's write lock: out of the registry,       *)
DeleteBucket(t, b) ==
    /\ pc[t] = "idle" /\ ~closed
    /\ Readers(b) \cup Writers(b) = {}
    /\ registry' = registry \ {b}
    /\ pc' = [pc EXCEPT ![t] = "unregistered"]
    /\ kind' = [kind EXCEPT ![t] = "delete"]
    /\ bkt' = [bkt EXCEPT ![t] = b]
    /\ UNCHANGED <<file, active, entry, closed, hnd>>

(* then CloseAndRemoveBucketDB: out of the map, closed now or by its last  *)
(* user,                                                                   *)
DropEntryKeepsIdle(t) ==
    /\ pc[t] = "unregistered"
    /\ LET h == active[bkt[t]]
       IN  /\ active' = [active EXCEPT ![bkt[t]] = IF @ # Nil /\ refCount[@] = 0 THEN @ ELSE Nil]
           /\ evicted' = [g \in Handles |-> evicted[g] \/ (g = h /\ refCount[g] > 0)]
    /\ Goto(t, "dropped")
    /\ UNCHANGED <<registry, file, refCount, open, inode, closed, hnd>>

DropEntry(t) ==
    /\ pc[t] = "unregistered"
    /\ LET h == active[bkt[t]]
       IN  /\ active' = [active EXCEPT ![bkt[t]] = Nil]
           /\ evicted' = [g \in Handles |-> evicted[g] \/ (g = h /\ refCount[g] > 0)]
           /\ open' = [g \in Handles |-> open[g] /\ ~(g = h /\ refCount[g] = 0)]
    /\ Goto(t, "dropped")
    /\ UNCHANGED <<registry, file, refCount, inode, closed, hnd>>

(* and os.Remove.                                                          *)
RemoveFile(t) ==
    /\ pc[t] = "dropped"
    /\ file' = [file EXCEPT ![bkt[t]] = Nil]
    /\ Return(t)
    /\ UNCHANGED <<registry, active, entry, closed>>

(* MetadataStore.Close, at shutdown: everything in the map, used or not.   *)
Close ==
    /\ MayClose /\ ~closed
    /\ closed' = TRUE
    /\ open' = [h \in Handles |-> open[h] /\ \A b \in Buckets : active[b] # h]
    /\ active' = [b \in Buckets |-> Nil]
    /\ UNCHANGED <<registry, file, refCount, evicted, inode, thread>>

Next ==
    \/ \E t \in Threads :
          \/ \E b \in Buckets, k \in Kinds : AcquireHit(t, b, k) \/ AcquireMiss(t, b, k)
          \/ CheckRegistry(t) \/ LockInit(t) \/ TakeAgain(t)
          \/ OpenFile(t) \/ Flock(t) \/ OpenFails(t) \/ Insert(t) \/ Release(t)
          \/ \E b \in Buckets : CreateBucket(t, b) \/ DeleteBucket(t, b)
          \/ DropEntry(t) \/ RemoveFile(t)
    \/ Close

Spec == Init /\ [][Next]_vars
-----------------------------------------------------------------------------
Users(h) == {t \in Threads : pc[t] = "using" /\ hnd[t] = h}

(* Every variable keeps its type; a reference count never drops below      *)
(* zero.                                                                   *)
TypeOK ==
    /\ registry \subseteq Buckets
    /\ file \in [Buckets -> Inodes \cup {Nil}]
    /\ active \in [Buckets -> Handles \cup {Nil}]
    /\ refCount \in [Handles -> Nat]
    /\ evicted \in [Handles -> BOOLEAN] /\ open \in [Handles -> BOOLEAN]
    /\ inode \in [Handles -> Inodes \cup {Nil}]
    /\ closed \in BOOLEAN
    /\ pc \in [Threads -> {"idle", "check", "wait", "init", "opening", "opened", "using",
                           "unregistered", "dropped"}]
    /\ kind \in [Threads -> {"request", "listing", "delete", Nil}]
    /\ bkt \in [Threads -> Buckets \cup {Nil}]
    /\ hnd \in [Threads -> Handles \cup {Nil}]

(* "A handle is now only closed once its last user releases it": neither   *)
(* eviction nor the deletion of its bucket closes a handle between         *)
(* acquireBucketDB and its release.                                        *)
HandleUsable == ~closed => \A t \in Threads : pc[t] = "using" => open[hnd[t]]

(* refCount is the number of users, also of entries that have left the     *)
(* map, and only those are marked evicted.                                 *)
RefCountExact ==
    \A h \in Handles : ~FreshHandle(h) =>
        /\ refCount[h] = Cardinality(Users(h))
        /\ evicted[h] => \A b \in Buckets : active[b] # h

(* No handle is forgotten open: it is in the map, or somebody still has it *)
(* and will close it.                                                      *)
NoLeakedHandle == \A h \in Handles : open[h] => ~Unreferenced(h)

(* "Another goroutine may have won the race while we were opening": the    *)
(* init lock excludes it, when acquireBucketDB comes to insert its handle  *)
(* the bucket has no entry.                                                *)
InsertFindsNoEntry == \A t \in Threads : pc[t] \in {"opening", "opened"} => active[bkt[t]] = Nil

(* "prevent re-creation of deleted DB files": a bucket that is not         *)
(* registered and not just being deleted has no database file.             *)
DeletedStaysDeleted ==
    \A b \in Buckets : b \notin registry /\ Writers(b) = {} => file[b] = Nil

(* What requests write goes to the file the next start will read: a cached *)
(* handle is open on the inode at the bucket's path.                       *)
CachedHandleCurrent ==
    \A b \in Cached : Writers(b) = {} => open[active[b]] /\ inode[active[b]] = file[b]
=============================================================================
