---------------------------- MODULE BucketRegistry ----------------------------
(***************************************************************************)
(* Buckets, their settings and the two caches in front of them             *)
(* (internal/storage/filesystem.go, lifecycle.go and metadata.go).         *)
(*                                                                         *)
(* The registry is one bbolt database; bucketCache holds what              *)
(* GetBucketCached read from it ("not found" included) and countCache what *)
(* CountObjectMetas counted.  Every operation of the engine first asks     *)
(* BucketExists and then acts, in a step of its own.  Caches have mutexes  *)
(* of their own: an entry is stored after the bucket lock, under which its *)
(* value was read, has been released.                                      *)
(*                                                                         *)
(* A setting stands for one successful call of a setter, and a BucketInfo  *)
(* for the set of calls it reflects.  An object is its record and its      *)
(* file; ObjectStore has the steps of the object operations.               *)
(***************************************************************************)
EXTENDS Naturals, FiniteSets

CONSTANTS Clients,     \* concurrent requests
          Buckets,     \* bucket names
          Objects,     \* object keys
          CacheCap,    \* maxBucketCacheEntries
          None,        \* no bucket; a cached "not found"
          Absent,      \* no entry in a cache
          MaxOps,      \* bound: requests started
          MaxCrashes   \* bound: process crashes

Settings == SUBSET (0..MaxOps)
Infos == [set : Settings]                \* BucketInfo
NewInfo == [set |-> {}]
Counts == 0..Cardinality(Objects)

ASSUME BucketRegistryAssumption ==
    /\ IsFiniteSet(Objects)
    /\ CacheCap \in Nat \ {0} /\ MaxOps \in Nat /\ MaxCrashes \in Nat
    /\ None # Absent
    /\ {None, Absent} \cap (Infos \cup Counts) = {}

VARIABLES
    registry,     \* bucket -> BucketInfo in the central database, or None
    bucketCache,  \* bucket -> BucketInfo, None or Absent
    objs, files,  \* bucket -> object records in its database, object files
    countCache,   \* bucket -> count, or Absent
    pc, req,      \* per client: progress of its request, and its locals
    started, crashes,            \* bounds
    infoRaced, countRaced,       \* history: entries stored by a reader that a
                                 \* commit had overtaken
    promised, promisedObjs       \* history: settings and objects whose request
                                 \* no creation or deletion of the bucket overlapped

vars == <<registry, bucketCache, objs, files, countCache, pc, req, started, crashes,
          infoRaced, countRaced, promised, promisedObjs>>

cacheVars == <<bucketCache, countCache, infoRaced, countRaced>>
storeVars == <<registry, objs, files, promised, promisedObjs>>

(* Locals: bucket, object, the number of the request, the value a reader   *)
(* read, and whether another request's commit has overtaken this one.      *)
NoRequest == [b |-> Absent, k |-> Absent, id |-> 0, val |-> Absent, late |-> FALSE]

Init ==
    /\ registry \in [Buckets -> {None, NewInfo}]
    /\ bucketCache = [b \in Buckets |-> Absent]
    /\ objs = [b \in Buckets |-> {}] /\ files = [b \in Buckets |-> {}]
    /\ countCache = [b \in Buckets |-> Absent]
    /\ pc = [c \in Clients |-> "idle"]
    /\ req = [c \in Clients |-> NoRequest]
    /\ started = 0 /\ crashes = 0
    /\ infoRaced = {} /\ countRaced = {}
    /\ promised = [b \in Buckets |-> {}] /\ promisedObjs = [b \in Buckets |-> {}]

Goto(c, state) == pc' = [pc EXCEPT ![c] = state]
Return(c) == Goto(c, "idle") /\ req' = [req EXCEPT ![c] = NoRequest]

At(states, b) == {c \in Clients : pc[c] \in states /\ req[c].b = b}

(* Between their commit and their last access to a cache, PutBucket,       *)
(* DeleteBucket and the setters hold the bucket lock for writing.          *)
Unlocked(b) == At({"cache", "uncache", "dropdb"}, b) = {}

(* Every operation starts with BucketExists, which does not use the cache. *)
Begin(c, op, b, k) ==
    /\ pc[c] = "idle" /\ started < MaxOps /\ Unlocked(b)
    /\ started' = started + 1
    /\ Goto(c, op)
    /\ req' = [req EXCEPT ![c] = [NoRequest EXCEPT !.b = b, !.k = k, !.id = started + 1]]
    /\ UNCHANGED <<storeVars, cacheVars, crashes>>

BucketExists(b) == registry[b] # None

(* A commit overtakes the requests that rely on what it changed. *)
Overtake(readers) ==
    [d \in Clients |-> IF d \in readers THEN [req[d] EXCEPT !.late = TRUE] ELSE req[d]]
-----------------------------------------------------------------------------
(***************************************************************************)
(* CreateBucket and DeleteBucket.                                          *)
(***************************************************************************)
CreateUnchecked(c, b) == Begin(c, "create", b, Absent)

CreateBucket(c, b) == ~BucketExists(b) /\ Begin(c, "create", b, Absent)

(* The record is written whatever is there by now. *)
PutBucket(c) ==
    LET b == req[c].b IN
    /\ pc[c] = "create" /\ Unlocked(b)
    /\ registry' = [registry EXCEPT ![b] = NewInfo]
    /\ req' = Overtake(At({"fill"}, b))
    /\ Goto(c, "cache")
    /\ UNCHANGED <<objs, files, promised, promisedObjs, cacheVars, started, crashes>>

CachePut(c) ==
    LET b == req[c].b IN
    /\ pc[c] = "cache"
    /\ bucketCache' = [bucketCache EXCEPT ![b] = registry[b]]
    /\ infoRaced' = infoRaced \ {b}
    /\ Return(c)
    /\ UNCHANGED <<storeVars, countCache, countRaced, started, crashes>>

DeleteBucket(c, b) == BucketExists(b) /\ Begin(c, "empty", b, Absent)

(* Object or upload records, versions and delete markers count alike. *)
SkipEmptyCheck(c) ==
    /\ pc[c] = "empty" /\ Unlocked(req[c].b)
    /\ Goto(c, "rmdir") /\ UNCHANGED req
    /\ UNCHANGED <<storeVars, cacheVars, started, crashes>>

IsBucketEmpty(c) ==
    LET b == req[c].b IN
    /\ pc[c] = "empty" /\ Unlocked(b)
    /\ IF BucketExists(b) /\ objs[b] = {} THEN Goto(c, "rmdir") /\ UNCHANGED req ELSE Return(c)
    /\ UNCHANGED <<storeVars, cacheVars, started, crashes>>

RemoveBucketDir(c) ==
    LET b == req[c].b IN
    /\ pc[c] = "rmdir"
    /\ files' = [files EXCEPT ![b] = {}]
    /\ req' = Overtake(At({"commit"}, b))
    /\ Goto(c, "unregister")
    /\ UNCHANGED <<registry, objs, promised, promisedObjs, cacheVars, started, crashes>>

Unregister(c) ==
    LET b == req[c].b IN
    /\ pc[c] = "unregister" /\ Unlocked(b)
    /\ registry' = [registry EXCEPT ![b] = None]
    /\ promised' = [promised EXCEPT ![b] = {}]
    /\ req' = Overtake(At({"fill", "store"}, b))
    /\ Goto(c, "dropdb")
    /\ UNCHANGED <<objs, files, promisedObjs, cacheVars, started, crashes>>

(* Both caches, then CloseAndRemoveBucketDB. *)
DropBucketKeepsCount(c) ==
    LET b == req[c].b IN
    /\ pc[c] = "dropdb"
    /\ bucketCache' = [bucketCache EXCEPT ![b] = Absent]
    /\ infoRaced' = infoRaced \ {b}
    /\ objs' = [objs EXCEPT ![b] = {}]
    /\ Return(c)
    /\ UNCHANGED <<registry, files, promised, promisedObjs, countCache, countRaced, started, crashes>>

DropBucket(c) ==
    LET b == req[c].b IN
    /\ pc[c] = "dropdb"
    /\ bucketCache' = [bucketCache EXCEPT ![b] = Absent]
    /\ countCache' = [countCache EXCEPT ![b] = Absent]
    /\ infoRaced' = infoRaced \ {b} /\ countRaced' = countRaced \ {b}
    /\ objs' = [objs EXCEPT ![b] = {}]
    /\ Return(c)
    /\ UNCHANGED <<registry, files, promised, promisedObjs, started, crashes>>

(* MkdirAll, RemoveAll or a transaction on the registry fails. *)
BucketOpFails(c) ==
    /\ pc[c] \in {"create", "set", "rmdir", "unregister"}
    /\ Return(c)
    /\ UNCHANGED <<storeVars, cacheVars, started, crashes>>
-----------------------------------------------------------------------------
(***************************************************************************)
(* Settings.                                                               *)
(***************************************************************************)
SetSetting(c, b) == BucketExists(b) /\ Begin(c, "set", b, Absent)

PutBucketCORS(c, b) == SetSetting(c, b)
DeleteBucketCORS(c, b) == SetSetting(c, b)
PutBucketVersioning(c, b) == SetSetting(c, b)
SetBucketPublic(c, b) == SetSetting(c, b)
PutBucketLifecycle(c, b) == SetSetting(c, b)
DeleteBucketLifecycle(c, b) == SetSetting(c, b)
PutBucketLogging(c, b) == SetSetting(c, b)

(* Read, change and write in one transaction, under the write lock.        *)
UpdateInfo(c) ==
    LET b == req[c].b IN
    /\ pc[c] = "set" /\ Unlocked(b)
    /\ IF BucketExists(b)
       THEN /\ registry' = [registry EXCEPT ![b].set = @ \cup {req[c].id}]
            /\ promised' = IF At({"create"}, b) = {}
                           THEN [promised EXCEPT ![b] = @ \cup {req[c].id}] ELSE promised
            /\ req' = Overtake(At({"fill"}, b))
            /\ Goto(c, "uncache")
       ELSE Return(c) /\ UNCHANGED <<registry, promised>>
    /\ UNCHANGED <<objs, files, promisedObjs, cacheVars, started, crashes>>

UncacheNothing(c) ==
    /\ pc[c] = "uncache"
    /\ Return(c)
    /\ UNCHANGED <<storeVars, cacheVars, started, crashes>>

Uncache(c) ==
    /\ pc[c] = "uncache"
    /\ bucketCache' = [bucketCache EXCEPT ![req[c].b] = Absent]
    /\ infoRaced' = infoRaced \ {req[c].b}
    /\ Return(c)
    /\ UNCHANGED <<storeVars, countCache, countRaced, started, crashes>>

GetSetting(c, b) == BucketExists(b) /\ Begin(c, "get", b, Absent)

GetBucketCORS(c, b) == GetSetting(c, b)
GetBucketVersioning(c, b) == GetSetting(c, b)
IsBucketPublic(c, b) == GetSetting(c, b)
GetBucketLifecycle(c, b) == GetSetting(c, b)
GetBucketLogging(c, b) == GetSetting(c, b)

(* GetBucketCached: a hit, even "not found", is the answer. *)
LookUp(c) ==
    /\ pc[c] = "get"
    /\ IF bucketCache[req[c].b] # Absent THEN Return(c) ELSE Goto(c, "read") /\ UNCHANGED req
    /\ UNCHANGED <<storeVars, cacheVars, started, crashes>>

GetBucket(c) ==
    /\ pc[c] = "read" /\ Unlocked(req[c].b)
    /\ req' = [req EXCEPT ![c].val = registry[req[c].b]]
    /\ Goto(c, "fill")
    /\ UNCHANGED <<storeVars, cacheVars, started, crashes>>

(* A full cache is dropped as a whole. *)
Emptied == IF Cardinality({b \in Buckets : bucketCache[b] # Absent}) >= CacheCap
           THEN [b \in Buckets |-> Absent] ELSE bucketCache

Fill(c) ==
    LET b == req[c].b IN
    /\ pc[c] = "fill"
    /\ bucketCache' = [Emptied EXCEPT ![b] = req[c].val]
    /\ infoRaced' = IF req[c].late THEN infoRaced \cup {b} ELSE infoRaced \ {b}
    /\ Return(c)
    /\ UNCHANGED <<storeVars, countCache, countRaced, started, crashes>>
-----------------------------------------------------------------------------
(***************************************************************************)
(* Objects and their count.                                                *)
(***************************************************************************)
PutObject(c, b, k) == BucketExists(b) /\ Begin(c, "put", b, k)

RenameFile(c) ==
    /\ pc[c] = "put"
    /\ files' = [files EXCEPT ![req[c].b] = @ \cup {req[c].k}]
    /\ Goto(c, "commit")
    /\ UNCHANGED <<registry, objs, promised, promisedObjs, cacheVars, req, started, crashes>>

(* A deletion that has found the bucket empty and is not finished. *)
Deleting(b) == At({"rmdir", "unregister", "dropdb"}, b) # {}

(* acquireBucketDB refuses a bucket that is not in the registry; otherwise *)
(* the count is invalidated once the bucket lock is released.              *)
PutObjectMeta(c) ==
    LET b == req[c].b IN
    /\ pc[c] = "commit" /\ Unlocked(b)
    /\ IF BucketExists(b)
       THEN /\ objs' = [objs EXCEPT ![b] = @ \cup {req[c].k}]
            /\ promisedObjs' = IF req[c].late \/ Deleting(b) THEN promisedObjs
                               ELSE [promisedObjs EXCEPT ![b] = @ \cup {req[c].k}]
            /\ req' = Overtake(At({"store"}, b))
            /\ Goto(c, "invalidate")
       ELSE Return(c) /\ UNCHANGED <<objs, promisedObjs>>
    /\ UNCHANGED <<registry, files, promised, cacheVars, started, crashes>>

DeleteObject(c, b, k) == BucketExists(b) /\ Begin(c, "delete", b, k)

(* Its files and records; what this does to a PUT of the same key that is  *)
(* between rename and commit is the subject of ObjectStore.                *)
DeleteObjectMeta(c) ==
    LET b == req[c].b
        k == req[c].k
    IN
    /\ pc[c] = "delete" /\ Unlocked(b)
    /\ IF BucketExists(b)
       THEN /\ objs' = [objs EXCEPT ![b] = @ \ {k}]
            /\ files' = [files EXCEPT ![b] = @ \ {k}]
            /\ promisedObjs' = [promisedObjs EXCEPT ![b] = @ \ {k}]
            /\ req' = Overtake(At({"store"}, b) \cup {d \in At({"commit"}, b) : req[d].k = k})
            /\ Goto(c, "invalidate")
       ELSE Return(c) /\ UNCHANGED <<objs, files, promisedObjs>>
    /\ UNCHANGED <<registry, promised, cacheVars, started, crashes>>

InvalidateCount(c) ==
    /\ pc[c] = "invalidate"
    /\ countCache' = [countCache EXCEPT ![req[c].b] = Absent]
    /\ countRaced' = countRaced \ {req[c].b}
    /\ Return(c)
    /\ UNCHANGED <<storeVars, bucketCache, infoRaced, started, crashes>>

CountObjects(c, b) == BucketExists(b) /\ Begin(c, "count", b, Absent)

CountObjectMetas(c) ==
    /\ pc[c] = "count"
    /\ IF countCache[req[c].b] # Absent THEN Return(c) ELSE Goto(c, "scan") /\ UNCHANGED req
    /\ UNCHANGED <<storeVars, cacheVars, started, crashes>>

(* Pointers only: keys of version records have a second NUL. *)
CountUncached(c) ==
    LET b == req[c].b IN
    /\ pc[c] = "scan" /\ Unlocked(b)
    /\ IF BucketExists(b)
       THEN req' = [req EXCEPT ![c].val = Cardinality(objs[b])] /\ Goto(c, "store")
       ELSE Return(c)
    /\ UNCHANGED <<storeVars, cacheVars, started, crashes>>

StoreCount(c) ==
    LET b == req[c].b IN
    /\ pc[c] = "store"
    /\ countCache' = [countCache EXCEPT ![b] = req[c].val]
    /\ countRaced' = IF req[c].late THEN countRaced \cup {b} ELSE countRaced \ {b}
    /\ Return(c)
    /\ UNCHANGED <<storeVars, bucketCache, infoRaced, started, crashes>>

(* After countCacheTTL an entry counts for nothing. *)
ExpireCount(b) ==
    /\ countCache[b] # Absent
    /\ countCache' = [countCache EXCEPT ![b] = Absent]
    /\ countRaced' = countRaced \ {b}
    /\ UNCHANGED <<storeVars, bucketCache, infoRaced, pc, req, started, crashes>>
-----------------------------------------------------------------------------
(* The process stops and starts again, with empty caches. *)
Crash ==
    /\ crashes < MaxCrashes
    /\ crashes' = crashes + 1
    /\ bucketCache' = [b \in Buckets |-> Absent]
    /\ countCache' = [b \in Buckets |-> Absent]
    /\ infoRaced' = {} /\ countRaced' = {}
    /\ pc' = [c \in Clients |-> "idle"]
    /\ req' = [c \in Clients |-> NoRequest]
    /\ UNCHANGED <<storeVars, started>>

Request(c, b) ==
    \/ CreateBucket(c, b) \/ DeleteBucket(c, b) \/ CountObjects(c, b)
    \/ PutBucketCORS(c, b) \/ DeleteBucketCORS(c, b) \/ PutBucketVersioning(c, b)
    \/ SetBucketPublic(c, b) \/ PutBucketLifecycle(c, b) \/ DeleteBucketLifecycle(c, b)
    \/ PutBucketLogging(c, b)
    \/ GetBucketCORS(c, b) \/ GetBucketVersioning(c, b) \/ IsBucketPublic(c, b)
    \/ GetBucketLifecycle(c, b) \/ GetBucketLogging(c, b)
    \/ \E k \in Objects : PutObject(c, b, k) \/ DeleteObject(c, b, k)

Progress(c) ==
    \/ PutBucket(c) \/ CachePut(c) \/ IsBucketEmpty(c) \/ RemoveBucketDir(c) \/ Unregister(c)
    \/ DropBucket(c) \/ UpdateInfo(c) \/ Uncache(c) \/ LookUp(c) \/ GetBucket(c) \/ Fill(c)
    \/ RenameFile(c) \/ PutObjectMeta(c) \/ DeleteObjectMeta(c) \/ InvalidateCount(c)
    \/ CountObjectMetas(c) \/ CountUncached(c) \/ StoreCount(c)

Idle == started = MaxOps /\ (\A c \in Clients : pc[c] = "idle") /\ UNCHANGED vars

Next ==
    \/ \E c \in Clients : (\E b \in Buckets : Request(c, b)) \/ Progress(c) \/ BucketOpFails(c)
    \/ \E b \in Buckets : ExpireCount(b)
    \/ Crash \/ Idle

Spec == Init /\ [][Next]_vars
-----------------------------------------------------------------------------
(* A cached BucketInfo (or cached "not found") is the one in the registry, *)
(* except while the request that changed it still has the bucket lock, and *)
(* after a reader that a change had overtaken stored what it had read      *)
(* before.  In particular re-creating a bucket leaves no "not found" and   *)
(* deleting one no BucketInfo behind otherwise.                            *)
InfoFresh ==
    \A b \in Buckets \ infoRaced :
        bucketCache[b] # Absent => bucketCache[b] = registry[b] \/ ~Unlocked(b)

(* "Writes invalidate eagerly" (countCacheTTL): a cached count of an       *)
(* existing bucket is its number of objects, except until the request that *)
(* changed it has invalidated it, and after a count that a write had       *)
(* overtaken was stored.                                                   *)
CountFresh ==
    \A b \in Buckets \ countRaced :
        countCache[b] # Absent /\ BucketExists(b) =>
            countCache[b] = Cardinality(objs[b]) \/ At({"invalidate", "dropdb"}, b) # {}

(* A setting that was acknowledged while no CreateBucket of the same name  *)
(* was between its existence check and its write stays in force until the  *)
(* bucket is deleted: creating an existing bucket must not reset it.       *)
SettingsKept == \A b \in Buckets : BucketExists(b) => promised[b] \subseteq registry[b].set

(* DeleteBucket only removes empty buckets: an object stored while no      *)
(* deletion was between finding the bucket empty and removing it keeps its *)
(* record and its file, and its bucket, until it is deleted itself.        *)
ObjectsKept ==
    \A b \in Buckets : promisedObjs[b] # {} =>
        BucketExists(b) /\ promisedObjs[b] \subseteq objs[b] \cap files[b]
=============================================================================
