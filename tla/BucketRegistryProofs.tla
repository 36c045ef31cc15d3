------------------------ MODULE BucketRegistryProofs ------------------------
(***************************************************************************)
(* The caches in front of the bucket registry are fresh, acknowledged      *)
(* settings and objects are kept, for any number of requests, buckets,     *)
(* objects and crashes and any cache capacity.                             *)
(*                                                                         *)
(* Four invariants, one per property, each inductive with the types.       *)
(***************************************************************************)
EXTENDS BucketRegistry, FiniteSetTheorems, TLAPS

Requests == [b : Buckets \cup {Absent}, k : Objects \cup {Absent}, id : 0..MaxOps,
             val : Infos \cup Counts \cup {None, Absent}, late : BOOLEAN]

States == {"idle", "create", "cache", "empty", "rmdir", "unregister", "dropdb", "set", "uncache",
           "get", "read", "fill", "put", "commit", "delete", "invalidate", "count", "scan", "store"}

(* The locals of a request fit the step it is at. *)
LocalsTyped ==
    /\ pc \in [Clients -> States]
    /\ req \in [Clients -> Requests]
    /\ \A c \in Clients :
          /\ pc[c] # "idle" => req[c].b \in Buckets
          /\ pc[c] \in {"put", "commit", "delete"} => req[c].k \in Objects
          /\ pc[c] = "fill" => req[c].val \in Infos \cup {None}
          /\ pc[c] = "store" => req[c].val \in Counts

Typed ==
    /\ registry \in [Buckets -> Infos \cup {None}]
    /\ bucketCache \in [Buckets -> Infos \cup {None, Absent}]
    /\ objs \in [Buckets -> SUBSET Objects] /\ files \in [Buckets -> SUBSET Objects]
    /\ countCache \in [Buckets -> Counts \cup {Absent}]
    /\ LocalsTyped
    /\ started \in 0..MaxOps
    /\ infoRaced \subseteq Buckets /\ countRaced \subseteq Buckets
    /\ promised \in [Buckets -> Settings] /\ promisedObjs \in [Buckets -> SUBSET Objects]

(* What a reader that nobody overtook is about to store is the truth. *)
FillFresh == \A c \in Clients : pc[c] = "fill" /\ ~req[c].late => req[c].val = registry[req[c].b]

InfoInv == FillFresh /\ InfoFresh

StoreFresh ==
    \A c \in Clients : pc[c] = "store" /\ ~req[c].late => req[c].val = Cardinality(objs[req[c].b])

(* Nobody can count between the unregistration and the removal of the      *)
(* database, and whoever had counted before was overtaken.                 *)
DropLate ==
    \A c, d \in Clients : pc[c] = "dropdb" /\ pc[d] = "store" /\ req[d].b = req[c].b => req[d].late

(* Counts are right even for the database of a bucket that is no longer    *)
(* registered: a re-creation finds no stale one.                           *)
CountExact ==
    \A b \in Buckets \ countRaced : countCache[b] # Absent =>
        countCache[b] = Cardinality(objs[b]) \/ At({"invalidate"}, b) # {}

CountInv == StoreFresh /\ DropLate /\ CountExact

(* Whoever is about to write the record of a new bucket resets nothing. *)
NothingToReset ==
    /\ \A b \in Buckets : ~BucketExists(b) => promised[b] = {}
    /\ \A c \in Clients : pc[c] = "create" => promised[req[c].b] = {}

SettingsInv == SettingsKept /\ NothingToReset

(* Whoever is about to remove a bucket takes no promised object with it. *)
NothingToLose ==
    \A c \in Clients : pc[c] \in {"rmdir", "unregister", "dropdb"} => promisedObjs[req[c].b] = {}

(* The file of a PUT that nobody overtook is still there at its commit. *)
CommitHasFile ==
    \A c \in Clients : pc[c] = "commit" /\ ~req[c].late => req[c].k \in files[req[c].b]

ObjectsInv == ObjectsKept /\ NothingToLose /\ CommitHasFile

Inv == Typed /\ InfoInv /\ CountInv /\ SettingsInv /\ ObjectsInv
-----------------------------------------------------------------------------
USE DEF LocalsTyped

LEMMA CountOfObjects == ASSUME NEW s \in SUBSET Objects PROVE Cardinality(s) \in Counts
  BY FS_Subset, FS_CardinalityType, BucketRegistryAssumption DEF Counts

(* An overtaken request keeps its locals. *)
LEMMA OvertakeFields ==
    ASSUME Typed, NEW readers, req' = Overtake(readers)
    PROVE  /\ req' \in [Clients -> Requests]
           /\ \A d \in Clients : /\ req'[d].b = req[d].b /\ req'[d].k = req[d].k
                                 /\ req'[d].id = req[d].id /\ req'[d].val = req[d].val
                                 /\ d \in readers => req'[d].late
                                 /\ d \notin readers => req'[d] = req[d]
  <1>1. ASSUME NEW d \in Clients PROVE [req[d] EXCEPT !.late = TRUE] \in Requests
    BY DEF Typed, Requests
  <1>2. req' \in [Clients -> Requests]
    BY <1>1 DEF Typed, Overtake
  <1>3. ASSUME NEW d \in Clients, d \in readers
        PROVE  /\ req'[d].b = req[d].b /\ req'[d].k = req[d].k
               /\ req'[d].id = req[d].id /\ req'[d].val = req[d].val
               /\ req'[d].late
    BY <1>3 DEF Typed, Overtake, Requests
  <1>4. ASSUME NEW d \in Clients, d \notin readers PROVE req'[d] = req[d]
    BY <1>4 DEF Overtake
  <1> QED
    BY <1>2, <1>3, <1>4

LEMMA InitInv == Init => Inv
  <1> SUFFICES ASSUME Init PROVE Inv
    OBVIOUS
  <1> USE BucketRegistryAssumption DEF Init
  <1>1. Typed
    <2>1. NewInfo \in Infos
      BY DEF Infos, NewInfo, Settings
    <2>2. NoRequest \in Requests
      BY DEF Requests, NoRequest
    <2>3. promised \in [Buckets -> Settings]
      BY DEF Settings
    <2> QED
      BY <2>1, <2>2, <2>3 DEF Typed, States
  <1>2. InfoInv /\ CountInv
    BY DEF InfoInv, FillFresh, InfoFresh, CountInv, StoreFresh, DropLate, CountExact
  <1>3. SettingsInv /\ ObjectsInv
    BY DEF SettingsInv, SettingsKept, NothingToReset, ObjectsInv, ObjectsKept, NothingToLose, CommitHasFile
  <1> QED
    BY <1>1, <1>2, <1>3 DEF Inv

LEMMA BeginTyped ==
    ASSUME Typed, NEW c \in Clients, NEW b \in Buckets, NEW op \in States,
           NEW k \in Objects \cup {Absent}, Begin(c, op, b, k), op \notin {"fill", "store"},
           op \in {"put", "commit", "delete"} => k \in Objects
    PROVE  Typed'
  <1> USE BucketRegistryAssumption DEF Typed, Begin, Goto, NoRequest, Requests, storeVars, cacheVars
  <1>1. started' \in 0..MaxOps /\ started + 1 \in 0..MaxOps
    OBVIOUS
  <1>2. req' \in [Clients -> Requests] /\ req'[c].b = b /\ req'[c].k = k
    BY <1>1
  <1>3. \A d \in Clients \ {c} : req'[d] = req[d] /\ pc'[d] = pc[d]
    OBVIOUS
  <1> QED
    BY <1>1, <1>2, <1>3

(* The three shapes of a later step: the locals are cleared, kept, or      *)
(* those of other requests are marked late.                                *)
LEMMA ReturnTyped ==
    ASSUME Typed, NEW c \in Clients, Return(c)
    PROVE  /\ pc' \in [Clients -> States] /\ req' \in [Clients -> Requests]
           /\ pc'[c] = "idle"
           /\ \A d \in Clients \ {c} : pc'[d] = pc[d] /\ req'[d] = req[d]
  <1>1. NoRequest \in Requests
    BY BucketRegistryAssumption DEF Requests, NoRequest
  <1> QED
    BY <1>1 DEF Typed, Return, Goto, States

LEMMA GotoTyped ==
    ASSUME Typed, NEW c \in Clients, NEW s \in States, Goto(c, s)
    PROVE  /\ pc' \in [Clients -> States]
           /\ pc'[c] = s
           /\ \A d \in Clients \ {c} : pc'[d] = pc[d]
  BY DEF Typed, Goto

LEMMA LocalsReturn ==
    ASSUME Typed, NEW c \in Clients, Return(c) PROVE LocalsTyped'
  BY ReturnTyped DEF Typed

LEMMA LocalsGoto ==
    ASSUME Typed, NEW c \in Clients, NEW s \in States, Goto(c, s), pc[c] # "idle",
           s \notin {"fill", "store"}, s \in {"put", "commit", "delete"} => req[c].k \in Objects,
           req' = req \/ \E readers : req' = Overtake(readers)
    PROVE  LocalsTyped'
  <1>1. /\ req' \in [Clients -> Requests]
        /\ \A d \in Clients : /\ req'[d].b = req[d].b /\ req'[d].k = req[d].k
                              /\ req'[d].val = req[d].val
    BY OvertakeFields DEF Typed
  <1>2. /\ pc' \in [Clients -> States]
        /\ pc'[c] = s
        /\ \A d \in Clients \ {c} : pc'[d] = pc[d]
    BY GotoTyped
  <1> QED
    BY <1>1, <1>2 DEF Typed

LEMMA TypedBucketSteps ==
    ASSUME Typed, NEW c \in Clients,
           \/ PutBucket(c) \/ CachePut(c) \/ IsBucketEmpty(c) \/ RemoveBucketDir(c) \/ Unregister(c)
           \/ DropBucket(c) \/ BucketOpFails(c)
    PROVE  Typed'
  <1> USE BucketRegistryAssumption DEF storeVars, cacheVars
  <1>0. NewInfo \in Infos /\ {} \in Settings
    BY DEF Infos, NewInfo, Settings
  <1>1. CASE PutBucket(c)
    <2>1. LocalsTyped'
      BY <1>1, LocalsGoto DEF PutBucket, States
    <2> QED
      BY <1>0, <1>1, <2>1 DEF PutBucket, Typed
  <1>2. CASE CachePut(c)
    <2>1. LocalsTyped'
      BY <1>2, LocalsReturn DEF CachePut
    <2> QED
      BY <1>2, <2>1 DEF CachePut, Typed
  <1>3. CASE IsBucketEmpty(c)
    <2>1. LocalsTyped'
      BY <1>3, LocalsReturn, LocalsGoto DEF IsBucketEmpty, States
    <2> QED
      BY <1>3, <2>1 DEF IsBucketEmpty, Typed
  <1>4. CASE RemoveBucketDir(c)
    <2>1. LocalsTyped'
      BY <1>4, LocalsGoto DEF RemoveBucketDir, States
    <2> QED
      BY <1>4, <2>1 DEF RemoveBucketDir, Typed
  <1>5. CASE Unregister(c)
    <2>1. LocalsTyped'
      BY <1>5, LocalsGoto DEF Unregister, States
    <2> QED
      BY <1>0, <1>5, <2>1 DEF Unregister, Typed
  <1>6. CASE DropBucket(c)
    <2>1. LocalsTyped'
      BY <1>6, LocalsReturn DEF DropBucket
    <2> QED
      BY <1>6, <2>1 DEF DropBucket, Typed
  <1>7. CASE BucketOpFails(c)
    <2>1. LocalsTyped'
      BY <1>7, LocalsReturn DEF BucketOpFails
    <2> QED
      BY <1>7, <2>1 DEF BucketOpFails, Typed
  <1> QED
    BY <1>1, <1>2, <1>3, <1>4, <1>5, <1>6, <1>7

LEMMA TypedSettingSteps ==
    ASSUME Typed, NEW c \in Clients, UpdateInfo(c) \/ Uncache(c) \/ LookUp(c) \/ GetBucket(c) \/ Fill(c)
    PROVE  Typed'
  <1> USE BucketRegistryAssumption DEF storeVars, cacheVars
  <1>1. CASE UpdateInfo(c)
    <2>1. LocalsTyped'
      BY <1>1, LocalsGoto, LocalsReturn DEF UpdateInfo, States
    <2>2. registry' \in [Buckets -> Infos \cup {None}]
      BY <1>1 DEF UpdateInfo, Typed, Infos, Settings, Requests, BucketExists
    <2>3. promised' \in [Buckets -> Settings]
      BY <1>1 DEF UpdateInfo, Typed, Settings, Requests
    <2> QED
      BY <1>1, <2>1, <2>2, <2>3 DEF UpdateInfo, Typed
  <1>2. CASE Uncache(c)
    <2>1. LocalsTyped'
      BY <1>2, LocalsReturn DEF Uncache
    <2> QED
      BY <1>2, <2>1 DEF Uncache, Typed
  <1>3. CASE LookUp(c)
    <2>1. LocalsTyped'
      BY <1>3, LocalsReturn, LocalsGoto DEF LookUp, States
    <2> QED
      BY <1>3, <2>1 DEF LookUp, Typed
  <1>4. CASE GetBucket(c)
    <2>1. registry[req[c].b] \in Infos \cup {None}
      BY <1>4 DEF GetBucket, Typed
    <2>2. /\ req' \in [Clients -> Requests]
          /\ req'[c].b = req[c].b /\ req'[c].val = registry[req[c].b]
          /\ \A d \in Clients \ {c} : req'[d] = req[d]
      BY <1>4, <2>1 DEF GetBucket, Typed, Requests
    <2>3. LocalsTyped'
      BY <1>4, <2>1, <2>2, GotoTyped DEF GetBucket, Typed, States
    <2> QED
      BY <1>4, <2>3 DEF GetBucket, Typed
  <1>5. CASE Fill(c)
    <2>1. LocalsTyped'
      BY <1>5, LocalsReturn DEF Fill
    <2> QED
      BY <1>5, <2>1 DEF Fill, Emptied, Typed
  <1> QED
    BY <1>1, <1>2, <1>3, <1>4, <1>5

LEMMA TypedObjectSteps ==
    ASSUME Typed, NEW c \in Clients,
           \/ RenameFile(c) \/ PutObjectMeta(c) \/ DeleteObjectMeta(c) \/ InvalidateCount(c)
           \/ CountObjectMetas(c) \/ CountUncached(c) \/ StoreCount(c)
    PROVE  Typed'
  <1> USE BucketRegistryAssumption DEF storeVars, cacheVars
  <1>1. CASE RenameFile(c)
    <2>1. LocalsTyped'
      BY <1>1, LocalsGoto DEF RenameFile, States, Typed
    <2> QED
      BY <1>1, <2>1 DEF RenameFile, Typed
  <1>2. CASE PutObjectMeta(c)
    <2>1. LocalsTyped'
      BY <1>2, LocalsGoto, LocalsReturn DEF PutObjectMeta, States
    <2> QED
      BY <1>2, <2>1 DEF PutObjectMeta, Typed
  <1>3. CASE DeleteObjectMeta(c)
    <2>1. LocalsTyped'
      BY <1>3, LocalsGoto, LocalsReturn DEF DeleteObjectMeta, States
    <2> QED
      BY <1>3, <2>1 DEF DeleteObjectMeta, Typed
  <1>4. CASE InvalidateCount(c)
    <2>1. LocalsTyped'
      BY <1>4, LocalsReturn DEF InvalidateCount
    <2> QED
      BY <1>4, <2>1 DEF InvalidateCount, Typed
  <1>5. CASE CountObjectMetas(c)
    <2>1. LocalsTyped'
      BY <1>5, LocalsReturn, LocalsGoto DEF CountObjectMetas, States
    <2> QED
      BY <1>5, <2>1 DEF CountObjectMetas, Typed
  <1>6. CASE CountUncached(c)
    <2>1. ASSUME BucketExists(req[c].b) PROVE LocalsTyped'
      <3>1. Cardinality(objs[req[c].b]) \in Counts
        BY <1>6, CountOfObjects DEF CountUncached, Typed
      <3>2. /\ req' \in [Clients -> Requests]
            /\ req'[c].b = req[c].b /\ req'[c].val = Cardinality(objs[req[c].b])
            /\ \A d \in Clients \ {c} : req'[d] = req[d]
        BY <1>6, <2>1, <3>1 DEF CountUncached, Typed, Requests
      <3> QED
        BY <1>6, <2>1, <3>1, <3>2, GotoTyped DEF CountUncached, Typed, States
    <2>2. LocalsTyped'
      BY <1>6, <2>1, LocalsReturn DEF CountUncached
    <2> QED
      BY <1>6, <2>2 DEF CountUncached, Typed
  <1>7. CASE StoreCount(c)
    <2>1. LocalsTyped'
      BY <1>7, LocalsReturn DEF StoreCount
    <2> QED
      BY <1>7, <2>1 DEF StoreCount, Typed
  <1> QED
    BY <1>1, <1>2, <1>3, <1>4, <1>5, <1>6, <1>7

(* Every request begins alike: it looks for the bucket and remembers what  *)
(* it is about.                                                            *)
LEMMA RequestBegins ==
    ASSUME NEW c \in Clients, NEW b \in Buckets, Request(c, b)
    PROVE  \E op \in {"create", "empty", "count", "set", "get", "put", "delete"} :
              \E k \in Objects \cup {Absent} :
                 /\ Begin(c, op, b, k)
                 /\ op \in {"put", "delete"} => k \in Objects
                 /\ op = "create" => ~BucketExists(b)
  BY DEF Request, CreateBucket, DeleteBucket, CountObjects, PutBucketCORS, DeleteBucketCORS,
         PutBucketVersioning, SetBucketPublic, PutBucketLifecycle, DeleteBucketLifecycle,
         PutBucketLogging, SetSetting, GetBucketCORS, GetBucketVersioning, IsBucketPublic,
         GetBucketLifecycle, GetBucketLogging, GetSetting, PutObject, DeleteObject

LEMMA TypedNext == Typed /\ [Next]_vars => Typed'
  <1> SUFFICES ASSUME Typed, [Next]_vars PROVE Typed'
    OBVIOUS
  <1>1. ASSUME NEW c \in Clients, NEW b \in Buckets, Request(c, b) PROVE Typed'
    BY <1>1, RequestBegins, BeginTyped DEF States
  <1>2. ASSUME NEW c \in Clients, Progress(c) \/ BucketOpFails(c) PROVE Typed'
    BY <1>2, TypedBucketSteps, TypedSettingSteps, TypedObjectSteps DEF Progress
  <1>3. ASSUME NEW b \in Buckets, ExpireCount(b) PROVE Typed'
    BY <1>3 DEF ExpireCount, Typed, storeVars
  <1>4. CASE Crash
    <2>1. NoRequest \in Requests
      BY BucketRegistryAssumption DEF Requests, NoRequest
    <2> QED
      BY <1>4, <2>1 DEF Crash, Typed, storeVars, States
  <1>5. CASE UNCHANGED vars
    BY <1>5 DEF vars, Typed
  <1> QED
    BY <1>1, <1>2, <1>3, <1>4, <1>5 DEF Next, Idle
-----------------------------------------------------------------------------
(***************************************************************************)
(* bucketCache.                                                            *)
(***************************************************************************)
(* What a step leaves alone of a request that is at one of the given       *)
(* states: it may only be marked late.                                     *)
Kept(states) ==
    \A d \in Clients : pc'[d] \in states =>
        /\ pc[d] = pc'[d] /\ req'[d].b = req[d].b /\ req'[d].k = req[d].k /\ req'[d].val = req[d].val
        /\ req[d].late => req'[d].late

(* Nobody leaves one of the given states. *)
Stay(states) ==
    \A d \in Clients : pc[d] \in states => pc'[d] = pc[d] /\ req'[d].b = req[d].b

LEMMA InfoFrame ==
    ASSUME Typed, InfoInv, Kept({"fill"}), Stay({"cache", "uncache", "dropdb"}),
           UNCHANGED <<registry, bucketCache, infoRaced>>
    PROVE  InfoInv'
  BY DEF Typed, InfoInv, FillFresh, InfoFresh, Kept, Stay, Unlocked, At

(* The shapes of steps again, in terms of Kept and Stay. *)
LEMMA KeptOnReturn ==
    ASSUME Typed, NEW c \in Clients, Return(c), NEW states \in SUBSET (States \ {"idle"})
    PROVE  Kept(states) /\ (pc[c] \notin states => Stay(states))
  BY ReturnTyped DEF Kept, Stay

LEMMA KeptOnGoto ==
    ASSUME Typed, NEW c \in Clients, NEW s \in States, Goto(c, s),
           req' = req \/ \E readers : req' = Overtake(readers),
           NEW states \in SUBSET States
    PROVE  (s \notin states => Kept(states)) /\ (pc[c] \notin states => Stay(states))
  <1>1. \A d \in Clients : /\ req'[d].b = req[d].b /\ req'[d].k = req[d].k
                           /\ req'[d].val = req[d].val /\ (req[d].late => req'[d].late)
    BY OvertakeFields
  <1> QED
    BY <1>1, GotoTyped DEF Kept, Stay

LEMMA KeptOnBegin ==
    ASSUME Typed, NEW c \in Clients, NEW s \in States, NEW b, NEW k, Begin(c, s, b, k),
           NEW states \in SUBSET (States \ {"idle"})
    PROVE  (s \notin states => Kept(states)) /\ Stay(states)
  BY GotoTyped DEF Kept, Stay, Begin, Typed

(* A commit to the registry: the writer now has the bucket lock, and the   *)
(* readers of the old value are late.                                      *)
LEMMA InfoCommit ==
    ASSUME Typed, InfoInv, NEW c \in Clients, NEW s \in {"cache", "uncache", "dropdb"}, NEW readers,
           pc[c] \in {"create", "unregister", "set"}, Goto(c, s),
           At({"fill"}, req[c].b) \subseteq readers, req' = Overtake(readers),
           \A a \in Buckets \ {req[c].b} : registry'[a] = registry[a],
           UNCHANGED <<bucketCache, infoRaced>>
    PROVE  InfoInv'
  <1> USE DEF States
  <1>0. PICK b \in Buckets : b = req[c].b
    BY DEF Typed
  <1>1. ~Unlocked(b)'
    BY <1>0, OvertakeFields, GotoTyped DEF Unlocked, At
  <1>2. Kept({"fill"}) /\ Stay({"cache", "uncache", "dropdb"})
    BY KeptOnGoto
  <1>3. FillFresh'
    BY <1>2, OvertakeFields DEF Kept, InfoInv, FillFresh, At, Typed
  <1>4. \A a \in Buckets : ~Unlocked(a) => ~Unlocked(a)'
    BY <1>2 DEF Stay, Unlocked, At
  <1>5. InfoFresh'
    BY <1>0, <1>1, <1>4 DEF InfoInv, InfoFresh
  <1> QED
    BY <1>3, <1>5 DEF InfoInv

LEMMA InfoBucketSteps ==
    ASSUME Typed, InfoInv, NEW c \in Clients,
           \/ PutBucket(c) \/ CachePut(c) \/ IsBucketEmpty(c) \/ RemoveBucketDir(c) \/ Unregister(c)
           \/ DropBucket(c) \/ BucketOpFails(c)
    PROVE  InfoInv'
  <1> USE DEF storeVars, cacheVars, States
  <1>1. CASE PutBucket(c)
    <2>1. /\ pc[c] = "create" /\ Goto(c, "cache") /\ req' = Overtake(At({"fill"}, req[c].b))
          /\ UNCHANGED <<bucketCache, infoRaced>>
          /\ \A a \in Buckets \ {req[c].b} : registry'[a] = registry[a]
      BY <1>1 DEF PutBucket, Typed
    <2> QED
      BY <2>1, InfoCommit
  <1>2. CASE CachePut(c)
    <2>1. Kept({"fill"})
      BY <1>2, KeptOnReturn DEF CachePut
    <2>2. FillFresh'
      BY <1>2, <2>1 DEF CachePut, Kept, InfoInv, FillFresh
    <2>3. ASSUME NEW b \in Buckets, b # req[c].b PROVE Unlocked(b)' = Unlocked(b)
      BY <1>2, <2>3, ReturnTyped DEF CachePut, Unlocked, At
    <2> QED
      BY <1>2, <2>2, <2>3 DEF CachePut, InfoInv, InfoFresh, Typed
  <1>3. CASE IsBucketEmpty(c)
    BY <1>3, KeptOnReturn, KeptOnGoto, InfoFrame DEF IsBucketEmpty
  <1>4. CASE RemoveBucketDir(c)
    BY <1>4, KeptOnGoto, InfoFrame DEF RemoveBucketDir
  <1>5. CASE Unregister(c)
    <2>1. At({"fill"}, req[c].b) \subseteq At({"fill", "store"}, req[c].b)
      BY DEF At
    <2> QED
      BY <1>5, <2>1, InfoCommit DEF Unregister, Typed
  <1>6. CASE DropBucket(c)
    <2>1. Kept({"fill"})
      BY <1>6, KeptOnReturn DEF DropBucket
    <2>2. FillFresh'
      BY <1>6, <2>1 DEF DropBucket, Kept, InfoInv, FillFresh
    <2>3. ASSUME NEW b \in Buckets, b # req[c].b PROVE Unlocked(b)' = Unlocked(b)
      BY <1>6, <2>3, ReturnTyped DEF DropBucket, Unlocked, At
    <2> QED
      BY <1>6, <2>2, <2>3 DEF DropBucket, InfoInv, InfoFresh, Typed
  <1>7. CASE BucketOpFails(c)
    BY <1>7, KeptOnReturn, InfoFrame DEF BucketOpFails
  <1> QED
    BY <1>1, <1>2, <1>3, <1>4, <1>5, <1>6, <1>7

LEMMA InfoSettingSteps ==
    ASSUME Typed, InfoInv, NEW c \in Clients,
           UpdateInfo(c) \/ Uncache(c) \/ LookUp(c) \/ GetBucket(c) \/ Fill(c)
    PROVE  InfoInv'
  <1> USE DEF storeVars, cacheVars, States
  <1>1. CASE UpdateInfo(c)
    <2>1. PICK b \in Buckets : b = req[c].b
      BY <1>1 DEF UpdateInfo, Typed
    <2>2. CASE ~BucketExists(b)
      BY <1>1, <2>1, <2>2, KeptOnReturn, InfoFrame DEF UpdateInfo
    <2>3. CASE BucketExists(b)
      BY <1>1, <2>1, <2>3, InfoCommit DEF UpdateInfo, Typed
    <2> QED
      BY <2>2, <2>3
  <1>2. CASE Uncache(c)
    <2>1. Kept({"fill"})
      BY <1>2, KeptOnReturn DEF Uncache
    <2>2. FillFresh'
      BY <1>2, <2>1 DEF Uncache, Kept, InfoInv, FillFresh
    <2>3. ASSUME NEW b \in Buckets, b # req[c].b PROVE Unlocked(b)' = Unlocked(b)
      BY <1>2, <2>3, ReturnTyped DEF Uncache, Unlocked, At
    <2> QED
      BY <1>2, <2>2, <2>3 DEF Uncache, InfoInv, InfoFresh, Typed
  <1>3. CASE LookUp(c)
    BY <1>3, KeptOnReturn, KeptOnGoto, InfoFrame DEF LookUp
  <1>4. CASE GetBucket(c)
    <2>1. /\ pc'[c] = "fill" /\ pc[c] = "read" /\ req'[c].b = req[c].b /\ req'[c].val = registry[req[c].b]
          /\ \A d \in Clients \ {c} : req'[d] = req[d] /\ pc'[d] = pc[d]
          /\ UNCHANGED <<registry, bucketCache, infoRaced>>
      BY <1>4 DEF GetBucket, Goto, Typed, Requests
    <2>2. FillFresh'
      BY <2>1 DEF InfoInv, FillFresh
    <2>3. \A b \in Buckets : Unlocked(b)' = Unlocked(b)
      BY <2>1 DEF Unlocked, At
    <2> QED
      BY <2>1, <2>2, <2>3 DEF InfoInv, InfoFresh
  <1>5. CASE Fill(c)
    <2>1. Kept({"fill"}) /\ Stay({"cache", "uncache", "dropdb"})
      BY <1>5, KeptOnReturn DEF Fill
    <2>2. FillFresh'
      BY <1>5, <2>1 DEF Fill, Kept, InfoInv, FillFresh
    <2>3. \A b \in Buckets : ~Unlocked(b) => ~Unlocked(b)'
      BY <2>1 DEF Stay, Unlocked, At
    <2>4. \A b \in Buckets \ {req[c].b} : bucketCache'[b] \in {bucketCache[b], Absent}
      BY <1>5 DEF Fill, Emptied, Typed
    <2>5. bucketCache'[req[c].b] = req[c].val
      BY <1>5 DEF Fill, Emptied, Typed
    <2> QED
      BY <1>5, <2>2, <2>3, <2>4, <2>5 DEF Fill, InfoInv, InfoFresh, FillFresh
  <1> QED
    BY <1>1, <1>2, <1>3, <1>4, <1>5

LEMMA InfoObjectSteps ==
    ASSUME Typed, InfoInv, NEW c \in Clients,
           \/ RenameFile(c) \/ PutObjectMeta(c) \/ DeleteObjectMeta(c) \/ InvalidateCount(c)
           \/ CountObjectMetas(c) \/ CountUncached(c) \/ StoreCount(c)
    PROVE  InfoInv'
  <1> USE DEF storeVars, cacheVars, States
  <1>1. CASE RenameFile(c)
    BY <1>1, KeptOnGoto, InfoFrame DEF RenameFile
  <1>2. CASE PutObjectMeta(c)
    BY <1>2, KeptOnReturn, KeptOnGoto, InfoFrame DEF PutObjectMeta
  <1>3. CASE DeleteObjectMeta(c)
    BY <1>3, KeptOnReturn, KeptOnGoto, InfoFrame DEF DeleteObjectMeta
  <1>4. CASE InvalidateCount(c)
    BY <1>4, KeptOnReturn, InfoFrame DEF InvalidateCount
  <1>5. CASE CountObjectMetas(c)
    BY <1>5, KeptOnReturn, KeptOnGoto, InfoFrame DEF CountObjectMetas
  <1>6. CASE CountUncached(c)
    <2>1. CASE BucketExists(req[c].b)
      BY <1>6, <2>1, InfoFrame, GotoTyped DEF CountUncached, Kept, Stay, Typed, Requests
    <2> QED
      BY <1>6, <2>1, KeptOnReturn, InfoFrame DEF CountUncached
  <1>7. CASE StoreCount(c)
    BY <1>7, KeptOnReturn, InfoFrame DEF StoreCount
  <1> QED
    BY <1>1, <1>2, <1>3, <1>4, <1>5, <1>6, <1>7

LEMMA InfoNext == Typed /\ InfoInv /\ [Next]_vars => InfoInv'
  <1> SUFFICES ASSUME Typed, InfoInv, [Next]_vars PROVE InfoInv'
    OBVIOUS
  <1> USE DEF storeVars, cacheVars
  <1>1. ASSUME NEW c \in Clients, NEW b \in Buckets, Request(c, b) PROVE InfoInv'
    <2>1. PICK op \in {"create", "empty", "count", "set", "get", "put", "delete"},
               k \in Objects \cup {Absent} : Begin(c, op, b, k)
      BY <1>1, RequestBegins
    <2>2. Kept({"fill"}) /\ Stay({"cache", "uncache", "dropdb"})
      BY <2>1, KeptOnBegin DEF States
    <2> QED
      BY <2>1, <2>2, InfoFrame DEF Begin
  <1>2. ASSUME NEW c \in Clients, Progress(c) \/ BucketOpFails(c) PROVE InfoInv'
    BY <1>2, InfoBucketSteps, InfoSettingSteps, InfoObjectSteps DEF Progress
  <1>3. ASSUME NEW b \in Buckets, ExpireCount(b) PROVE InfoInv'
    BY <1>3, InfoFrame DEF ExpireCount, Kept, Stay
  <1>4. CASE Crash
    BY <1>4 DEF Crash, InfoInv, InfoFresh, FillFresh
  <1>5. CASE UNCHANGED vars
    BY <1>5, InfoFrame DEF vars, Kept, Stay
  <1> QED
    BY <1>1, <1>2, <1>3, <1>4, <1>5 DEF Next, Idle

-----------------------------------------------------------------------------
(***************************************************************************)
(* countCache.                                                             *)
(***************************************************************************)
LEMMA CountFrame ==
    ASSUME Typed, CountInv, Kept({"store", "dropdb"}), Stay({"invalidate"}),
           UNCHANGED <<objs, countCache, countRaced>>
    PROVE  CountInv'
  <1>1. StoreFresh' /\ DropLate'
    BY DEF Typed, CountInv, StoreFresh, DropLate, Kept
  <1>2. \A b \in Buckets : At({"invalidate"}, b) # {} => At({"invalidate"}, b)' # {}
    BY DEF Stay, At
  <1>3. CountExact'
    BY <1>2 DEF CountInv, CountExact
  <1> QED
    BY <1>1, <1>3 DEF CountInv

LEMMA CountBucketSteps ==
    ASSUME Typed, CountInv, NEW c \in Clients,
           \/ PutBucket(c) \/ CachePut(c) \/ IsBucketEmpty(c) \/ RemoveBucketDir(c) \/ Unregister(c)
           \/ DropBucket(c) \/ BucketOpFails(c)
    PROVE  CountInv'
  <1> USE DEF storeVars, cacheVars, States
  <1>1. CASE PutBucket(c)
    BY <1>1, KeptOnGoto, CountFrame DEF PutBucket
  <1>2. CASE CachePut(c)
    BY <1>2, KeptOnReturn, CountFrame DEF CachePut
  <1>3. CASE IsBucketEmpty(c)
    BY <1>3, KeptOnReturn, KeptOnGoto, CountFrame DEF IsBucketEmpty
  <1>4. CASE RemoveBucketDir(c)
    BY <1>4, KeptOnGoto, CountFrame DEF RemoveBucketDir
  <1>5. CASE Unregister(c)
    <2>1. /\ Kept({"store"}) /\ Stay({"invalidate"})
          /\ UNCHANGED <<objs, countCache, countRaced>>
      BY <1>5, KeptOnGoto DEF Unregister
    <2>2. StoreFresh'
      BY <2>1 DEF Typed, CountInv, StoreFresh, Kept
    <2>3. /\ \A d \in Clients : pc'[d] = "dropdb" => d = c \/ pc[d] = "dropdb"
          /\ \A d \in Clients : pc'[d] = "store" => pc[d] = "store"
      BY <1>5, GotoTyped DEF Unregister
    <2>4. /\ \A d \in Clients : req'[d].b = req[d].b /\ (req[d].late => req'[d].late)
          /\ \A d \in Clients : pc[d] = "store" /\ req[d].b = req[c].b => req'[d].late
      BY <1>5, OvertakeFields DEF Unregister, At
    <2>5. DropLate'
      BY <2>3, <2>4 DEF CountInv, DropLate
    <2>6. \A b \in Buckets : At({"invalidate"}, b) # {} => At({"invalidate"}, b)' # {}
      BY <2>1 DEF Stay, At
    <2>7. CountExact'
      BY <2>1, <2>6 DEF CountInv, CountExact
    <2> QED
      BY <2>2, <2>5, <2>7 DEF CountInv
  <1>6. CASE DropBucket(c)
    <2>1. Kept({"store", "dropdb"}) /\ Stay({"invalidate"})
      BY <1>6, KeptOnReturn DEF DropBucket
    <2>2. /\ pc[c] = "dropdb" /\ req[c].b \in Buckets
          /\ countCache' = [countCache EXCEPT ![req[c].b] = Absent]
          /\ countRaced' = countRaced \ {req[c].b}
          /\ \A b \in Buckets \ {req[c].b} : objs'[b] = objs[b]
      BY <1>6 DEF DropBucket, Typed
    <2>3. StoreFresh' /\ DropLate'
      BY <2>1, <2>2 DEF Typed, CountInv, StoreFresh, DropLate, Kept
    <2>4. \A b \in Buckets : At({"invalidate"}, b) # {} => At({"invalidate"}, b)' # {}
      BY <2>1 DEF Stay, At
    <2>5. CountExact'
      BY <2>2, <2>4 DEF CountInv, CountExact, Typed
    <2> QED
      BY <2>3, <2>5 DEF CountInv
  <1>7. CASE BucketOpFails(c)
    BY <1>7, KeptOnReturn, CountFrame DEF BucketOpFails
  <1> QED
    BY <1>1, <1>2, <1>3, <1>4, <1>5, <1>6, <1>7

LEMMA CountSettingSteps ==
    ASSUME Typed, CountInv, NEW c \in Clients,
           UpdateInfo(c) \/ Uncache(c) \/ LookUp(c) \/ GetBucket(c) \/ Fill(c)
    PROVE  CountInv'
  <1> USE DEF storeVars, cacheVars, States
  <1>1. CASE UpdateInfo(c)
    BY <1>1, KeptOnReturn, KeptOnGoto, CountFrame DEF UpdateInfo
  <1>2. CASE Uncache(c)
    BY <1>2, KeptOnReturn, CountFrame DEF Uncache
  <1>3. CASE LookUp(c)
    BY <1>3, KeptOnReturn, KeptOnGoto, CountFrame DEF LookUp
  <1>4. CASE GetBucket(c)
    <2>1. Kept({"store", "dropdb"}) /\ Stay({"invalidate"})
      BY <1>4, GotoTyped DEF GetBucket, Kept, Stay, Typed, Requests
    <2> QED
      BY <1>4, <2>1, CountFrame DEF GetBucket
  <1>5. CASE Fill(c)
    BY <1>5, KeptOnReturn, CountFrame DEF Fill
  <1> QED
    BY <1>1, <1>2, <1>3, <1>4, <1>5

(* A commit to a bucket's objects: its count is about to be invalidated,   *)
(* and whoever has counted before is late.                                 *)
LEMMA CountCommit ==
    ASSUME Typed, CountInv, NEW c \in Clients, NEW readers,
           pc[c] \in {"commit", "delete"}, Goto(c, "invalidate"),
           At({"store"}, req[c].b) \subseteq readers, req' = Overtake(readers),
           \A a \in Buckets \ {req[c].b} : objs'[a] = objs[a],
           UNCHANGED <<countCache, countRaced>>
    PROVE  CountInv'
  <1> USE DEF States
  <1>0. PICK b \in Buckets : b = req[c].b
    BY DEF Typed
  <1>1. At({"invalidate"}, b)' # {}
    BY <1>0, OvertakeFields, GotoTyped DEF At
  <1>2. Kept({"store", "dropdb"}) /\ Stay({"invalidate"})
    BY KeptOnGoto
  <1>3. StoreFresh' /\ DropLate'
    BY <1>2, OvertakeFields DEF Kept, CountInv, StoreFresh, DropLate, At, Typed
  <1>4. \A a \in Buckets : At({"invalidate"}, a) # {} => At({"invalidate"}, a)' # {}
    BY <1>2 DEF Stay, At
  <1>5. CountExact'
    BY <1>0, <1>1, <1>4 DEF CountInv, CountExact
  <1> QED
    BY <1>3, <1>5 DEF CountInv

LEMMA CountObjectSteps ==
    ASSUME Typed, CountInv, NEW c \in Clients,
           \/ RenameFile(c) \/ PutObjectMeta(c) \/ DeleteObjectMeta(c) \/ InvalidateCount(c)
           \/ CountObjectMetas(c) \/ CountUncached(c) \/ StoreCount(c)
    PROVE  CountInv'
  <1> USE DEF storeVars, cacheVars, States
  <1>1. CASE RenameFile(c)
    BY <1>1, KeptOnGoto, CountFrame DEF RenameFile
  <1>2. CASE PutObjectMeta(c)
    <2>1. CASE BucketExists(req[c].b)
      BY <1>2, <2>1, CountCommit DEF PutObjectMeta, Typed
    <2> QED
      BY <1>2, <2>1, KeptOnReturn, CountFrame DEF PutObjectMeta
  <1>3. CASE DeleteObjectMeta(c)
    <2>1. CASE BucketExists(req[c].b)
      BY <1>3, <2>1, CountCommit DEF DeleteObjectMeta, Typed
    <2> QED
      BY <1>3, <2>1, KeptOnReturn, CountFrame DEF DeleteObjectMeta
  <1>4. CASE InvalidateCount(c)
    <2>1. Kept({"store", "dropdb"})
      BY <1>4, KeptOnReturn DEF InvalidateCount
    <2>2. StoreFresh' /\ DropLate'
      BY <1>4, <2>1 DEF InvalidateCount, Typed, CountInv, StoreFresh, DropLate, Kept
    <2>3. ASSUME NEW b \in Buckets, b # req[c].b
          PROVE  At({"invalidate"}, b) # {} => At({"invalidate"}, b)' # {}
      BY <1>4, <2>3, ReturnTyped DEF InvalidateCount, At
    <2>4. CountExact'
      BY <1>4, <2>3 DEF InvalidateCount, CountInv, CountExact, Typed
    <2> QED
      BY <2>2, <2>4 DEF CountInv
  <1>5. CASE CountObjectMetas(c)
    BY <1>5, KeptOnReturn, KeptOnGoto, CountFrame DEF CountObjectMetas
  <1>6. CASE CountUncached(c)
    <2>1. ASSUME BucketExists(req[c].b) PROVE CountInv'
      <3>1. /\ pc[c] = "scan" /\ pc'[c] = "store" /\ Unlocked(req[c].b)
            /\ req'[c].b = req[c].b /\ req'[c].val = Cardinality(objs[req[c].b])
            /\ \A d \in Clients \ {c} : req'[d] = req[d] /\ pc'[d] = pc[d]
            /\ UNCHANGED <<objs, countCache, countRaced>>
        BY <1>6, <2>1, GotoTyped DEF CountUncached, Typed, Requests
      <3>2. StoreFresh'
        BY <3>1 DEF CountInv, StoreFresh
      <3>3. DropLate'
        BY <3>1 DEF CountInv, DropLate, Unlocked, At
      <3>4. \A b \in Buckets : At({"invalidate"}, b) # {} => At({"invalidate"}, b)' # {}
        BY <3>1 DEF At
      <3> QED
        BY <3>1, <3>2, <3>3, <3>4 DEF CountInv, CountExact
    <2> QED
      BY <1>6, <2>1, KeptOnReturn, CountFrame DEF CountUncached
  <1>7. CASE StoreCount(c)
    <2>1. Kept({"store", "dropdb"}) /\ Stay({"invalidate"})
      BY <1>7, KeptOnReturn DEF StoreCount
    <2>2. StoreFresh' /\ DropLate'
      BY <1>7, <2>1 DEF StoreCount, Typed, CountInv, StoreFresh, DropLate, Kept
    <2>3. \A b \in Buckets : At({"invalidate"}, b) # {} => At({"invalidate"}, b)' # {}
      BY <2>1 DEF Stay, At
    <2>4. CountExact'
      BY <1>7, <2>3 DEF StoreCount, CountInv, CountExact, StoreFresh, Typed
    <2> QED
      BY <2>2, <2>4 DEF CountInv
  <1> QED
    BY <1>1, <1>2, <1>3, <1>4, <1>5, <1>6, <1>7

LEMMA CountNext == Typed /\ CountInv /\ [Next]_vars => CountInv'
  <1> SUFFICES ASSUME Typed, CountInv, [Next]_vars PROVE CountInv'
    OBVIOUS
  <1> USE DEF storeVars, cacheVars
  <1>1. ASSUME NEW c \in Clients, NEW b \in Buckets, Request(c, b) PROVE CountInv'
    <2>1. PICK op \in {"create", "empty", "count", "set", "get", "put", "delete"},
               k \in Objects \cup {Absent} : Begin(c, op, b, k)
      BY <1>1, RequestBegins
    <2>2. Kept({"store", "dropdb"}) /\ Stay({"invalidate"})
      BY <2>1, KeptOnBegin DEF States
    <2> QED
      BY <2>1, <2>2, CountFrame DEF Begin
  <1>2. ASSUME NEW c \in Clients, Progress(c) \/ BucketOpFails(c) PROVE CountInv'
    BY <1>2, CountBucketSteps, CountSettingSteps, CountObjectSteps DEF Progress
  <1>3. ASSUME NEW b \in Buckets, ExpireCount(b) PROVE CountInv'
    <2>1. StoreFresh' /\ DropLate' /\ \A a : At({"invalidate"}, a)' = At({"invalidate"}, a)
      BY <1>3 DEF ExpireCount, CountInv, StoreFresh, DropLate, At
    <2> QED
      BY <1>3, <2>1 DEF ExpireCount, CountInv, CountExact, Typed
  <1>4. CASE Crash
    BY <1>4 DEF Crash, CountInv, CountExact, StoreFresh, DropLate
  <1>5. CASE UNCHANGED vars
    BY <1>5, CountFrame DEF vars, Kept, Stay
  <1> QED
    BY <1>1, <1>2, <1>3, <1>4, <1>5 DEF Next, Idle

-----------------------------------------------------------------------------
(***************************************************************************)
(* Settings.                                                               *)
(***************************************************************************)
LEMMA SettingsFrame ==
    ASSUME Typed, SettingsInv, Kept({"create"}), UNCHANGED <<registry, promised>>
    PROVE  SettingsInv'
  BY DEF Typed, SettingsInv, SettingsKept, NothingToReset, BucketExists, Kept

LEMMA SettingsSteps ==
    ASSUME Typed, SettingsInv, NEW c \in Clients, Progress(c) \/ BucketOpFails(c)
    PROVE  SettingsInv'
  <1> USE DEF storeVars, cacheVars, States
  <1>1. CASE PutBucket(c)
    <2>1. Kept({"create"}) /\ promised[req[c].b] = {} /\ req[c].b \in Buckets
      BY <1>1, KeptOnGoto DEF PutBucket, SettingsInv, NothingToReset, Typed
    <2>2. registry' = [registry EXCEPT ![req[c].b] = NewInfo] /\ UNCHANGED promised
      BY <1>1 DEF PutBucket
    <2>3. \A b \in Buckets : ~BucketExists(b)' => promised[b] = {}
      BY <2>1, <2>2 DEF SettingsInv, NothingToReset, BucketExists, Typed
    <2>4. NothingToReset'
      BY <2>1, <2>2, <2>3 DEF SettingsInv, NothingToReset, Kept
    <2>5. SettingsKept'
      BY <2>1, <2>2 DEF SettingsInv, SettingsKept, BucketExists, Typed, NewInfo
    <2> QED
      BY <2>4, <2>5 DEF SettingsInv
  <1>2. CASE Unregister(c)
    <2>1. Kept({"create"}) /\ req[c].b \in Buckets
      BY <1>2, KeptOnGoto DEF Unregister, Typed
    <2>2. /\ registry' = [registry EXCEPT ![req[c].b] = None]
          /\ promised' = [promised EXCEPT ![req[c].b] = {}]
      BY <1>2 DEF Unregister
    <2>3. NothingToReset'
      BY <2>1, <2>2 DEF SettingsInv, NothingToReset, BucketExists, Kept, Typed
    <2>4. SettingsKept'
      BY <2>1, <2>2 DEF SettingsInv, SettingsKept, BucketExists, Typed
    <2> QED
      BY <2>3, <2>4 DEF SettingsInv
  <1>3. CASE UpdateInfo(c)
    <2>1. CASE ~BucketExists(req[c].b)
      BY <1>3, <2>1, KeptOnReturn, SettingsFrame DEF UpdateInfo
    <2>2. CASE BucketExists(req[c].b)
      <3>1. PICK b \in Buckets : b = req[c].b
        BY <1>3 DEF UpdateInfo, Typed
      <3>2. /\ Kept({"create"}) /\ registry[b] \in Infos
            /\ registry' = [registry EXCEPT ![b].set = @ \cup {req[c].id}]
            /\ promised' = IF At({"create"}, b) = {}
                           THEN [promised EXCEPT ![b] = @ \cup {req[c].id}] ELSE promised
        BY <1>3, <2>2, <3>1, KeptOnGoto DEF UpdateInfo, BucketExists, Typed
      <3>3. /\ registry'[b].set = registry[b].set \cup {req[c].id}
            /\ \A a \in Buckets \ {b} : registry'[a] = registry[a] /\ promised'[a] = promised[a]
            /\ promised'[b] \in {promised[b], promised[b] \cup {req[c].id}}
            /\ At({"create"}, b) # {} => promised'[b] = promised[b]
        BY <3>2 DEF Typed, Infos
      <3>4. SettingsKept'
        BY <2>2, <3>1, <3>3 DEF SettingsInv, SettingsKept, BucketExists
      <3>5. \A a \in Buckets : ~BucketExists(a)' => promised'[a] = {}
        <4>1. req[c].id \in 0..MaxOps
          BY DEF Typed, Requests
        <4>2. registry'[b] \in Infos
          BY <3>2, <4>1 DEF Typed, Infos, Settings
        <4>3. BucketExists(b)'
          BY <4>2, BucketRegistryAssumption DEF BucketExists
        <4> QED
          BY <3>3, <4>3 DEF SettingsInv, NothingToReset, BucketExists
      <3>6. ASSUME NEW d \in Clients, pc'[d] = "create" PROVE promised'[req'[d].b] = {}
        <4>1. pc[d] = "create" /\ req'[d].b = req[d].b /\ req[d].b \in Buckets
          BY <3>2, <3>6 DEF Kept, Typed
        <4>2. promised[req[d].b] = {} /\ (req[d].b = b => At({"create"}, b) # {})
          BY <4>1 DEF SettingsInv, NothingToReset, At
        <4> QED
          BY <3>3, <4>1, <4>2
      <3> QED
        BY <3>4, <3>5, <3>6 DEF SettingsInv, NothingToReset
    <2> QED
      BY <2>1, <2>2
  <1>4. CASE \/ CachePut(c) \/ IsBucketEmpty(c) \/ RemoveBucketDir(c) \/ DropBucket(c)
             \/ BucketOpFails(c) \/ Uncache(c) \/ LookUp(c) \/ Fill(c)
    BY <1>4, KeptOnReturn, KeptOnGoto, SettingsFrame
       DEF CachePut, IsBucketEmpty, RemoveBucketDir, DropBucket, BucketOpFails, Uncache, LookUp, Fill
  <1>5. CASE \/ RenameFile(c) \/ PutObjectMeta(c) \/ DeleteObjectMeta(c) \/ InvalidateCount(c)
             \/ CountObjectMetas(c) \/ StoreCount(c)
    BY <1>5, KeptOnReturn, KeptOnGoto, SettingsFrame
       DEF RenameFile, PutObjectMeta, DeleteObjectMeta, InvalidateCount, CountObjectMetas, StoreCount
  <1>6. CASE GetBucket(c) \/ CountUncached(c)
    <2>1. Kept({"create"})
      BY <1>6, GotoTyped, KeptOnReturn DEF GetBucket, CountUncached, Kept, Typed, Requests
    <2> QED
      BY <1>6, <2>1, SettingsFrame DEF GetBucket, CountUncached
  <1> QED
    BY <1>1, <1>2, <1>3, <1>4, <1>5, <1>6 DEF Progress

LEMMA SettingsNext == Typed /\ SettingsInv /\ [Next]_vars => SettingsInv'
  <1> SUFFICES ASSUME Typed, SettingsInv, [Next]_vars PROVE SettingsInv'
    OBVIOUS
  <1> USE DEF storeVars, cacheVars
  <1>1. ASSUME NEW c \in Clients, NEW b \in Buckets, Request(c, b) PROVE SettingsInv'
    <2>1. PICK op \in {"create", "empty", "count", "set", "get", "put", "delete"},
               k \in Objects \cup {Absent} :
                  Begin(c, op, b, k) /\ (op = "create" => ~BucketExists(b))
      BY <1>1, RequestBegins
    <2>2. CASE op # "create"
      <3>1. Kept({"create"})
        BY <2>1, <2>2, KeptOnBegin DEF States
      <3> QED
        BY <2>1, <3>1, SettingsFrame DEF Begin
    <2>3. CASE op = "create"
      <3>1. /\ promised[b] = {} /\ pc'[c] = "create" /\ req'[c].b = b
            /\ \A d \in Clients \ {c} : pc'[d] = pc[d] /\ req'[d] = req[d]
            /\ UNCHANGED <<registry, promised>>
        BY <2>1, <2>3, GotoTyped DEF Begin, States, NoRequest, SettingsInv, NothingToReset, Typed
      <3> QED
        BY <3>1 DEF SettingsInv, NothingToReset, SettingsKept, BucketExists
    <2> QED
      BY <2>2, <2>3
  <1>2. ASSUME NEW c \in Clients, Progress(c) \/ BucketOpFails(c) PROVE SettingsInv'
    BY <1>2, SettingsSteps
  <1>3. ASSUME NEW b \in Buckets, ExpireCount(b) PROVE SettingsInv'
    BY <1>3, SettingsFrame DEF ExpireCount, Kept
  <1>4. CASE Crash
    BY <1>4, SettingsFrame DEF Crash, Kept
  <1>5. CASE UNCHANGED vars
    BY <1>5, SettingsFrame DEF vars, Kept
  <1> QED
    BY <1>1, <1>2, <1>3, <1>4, <1>5 DEF Next, Idle

-----------------------------------------------------------------------------
(***************************************************************************)
(* Objects.                                                                *)
(***************************************************************************)
LEMMA ObjectsFrame ==
    ASSUME Typed, ObjectsInv, Kept({"rmdir", "unregister", "dropdb", "commit"}),
           \A b \in Buckets : BucketExists(b) => BucketExists(b)',
           UNCHANGED <<objs, files, promisedObjs>>
    PROVE  ObjectsInv'
  <1>1. ObjectsKept'
    BY DEF ObjectsInv, ObjectsKept
  <1>2. NothingToLose' /\ CommitHasFile'
    BY DEF Typed, ObjectsInv, NothingToLose, CommitHasFile, Kept
  <1> QED
    BY <1>1, <1>2 DEF ObjectsInv

(* Creating a bucket and changing its settings keep it in the registry. *)
LEMMA Registered ==
    ASSUME Typed, NEW c \in Clients, PutBucket(c) \/ UpdateInfo(c), NEW b \in Buckets, BucketExists(b)
    PROVE  BucketExists(b)'
  <1>1. NewInfo \in Infos
    BY DEF NewInfo, Infos, Settings
  <1>2. registry'[b] \in Infos
    <2>1. CASE PutBucket(c)
      BY <1>1, <2>1 DEF PutBucket, BucketExists, Typed
    <2>2. CASE UpdateInfo(c)
      <3>1. req[c].id \in 0..MaxOps /\ registry[b] \in Infos
        BY DEF Typed, Requests, BucketExists
      <3> QED
        BY <2>2, <3>1 DEF UpdateInfo, Typed, Infos, Settings
    <2> QED
      BY <2>1, <2>2
  <1> QED
    BY <1>2, BucketRegistryAssumption DEF BucketExists

LEMMA ObjectsSteps ==
    ASSUME Typed, ObjectsInv, NEW c \in Clients, Progress(c) \/ BucketOpFails(c)
    PROVE  ObjectsInv'
  <1> USE DEF storeVars, cacheVars, States
  <1>1. CASE PutBucket(c) \/ UpdateInfo(c)
    <2>1. Kept({"rmdir", "unregister", "dropdb", "commit"})
      BY <1>1, KeptOnGoto, KeptOnReturn DEF PutBucket, UpdateInfo
    <2> QED
      BY <1>1, <2>1, Registered, ObjectsFrame DEF PutBucket, UpdateInfo
  <1>2. CASE IsBucketEmpty(c)
    <2>1. CASE BucketExists(req[c].b) /\ objs[req[c].b] = {}
      <3>1. /\ pc'[c] = "rmdir" /\ req[c].b \in Buckets
            /\ \A d \in Clients \ {c} : pc'[d] = pc[d]
            /\ UNCHANGED <<req, registry, objs, files, promisedObjs>>
        BY <1>2, <2>1, GotoTyped DEF IsBucketEmpty, Typed
      <3>2. promisedObjs[req[c].b] = {}
        BY <2>1, <3>1 DEF ObjectsInv, ObjectsKept
      <3> QED
        BY <3>1, <3>2 DEF ObjectsInv, ObjectsKept, NothingToLose, CommitHasFile, BucketExists
    <2> QED
      BY <1>2, <2>1, KeptOnReturn, ObjectsFrame DEF IsBucketEmpty, BucketExists
  <1>3. CASE RemoveBucketDir(c)
    <2>1. PICK b \in Buckets : b = req[c].b
      BY <1>3 DEF RemoveBucketDir, Typed
    <2>2. promisedObjs[b] = {}
      BY <1>3, <2>1 DEF RemoveBucketDir, ObjectsInv, NothingToLose
    <2>3. /\ files' = [files EXCEPT ![b] = {}] /\ pc[c] = "rmdir"
          /\ UNCHANGED <<registry, objs, promisedObjs>>
      BY <1>3, <2>1 DEF RemoveBucketDir
    <2>4. /\ pc'[c] = "unregister" /\ \A d \in Clients \ {c} : pc'[d] = pc[d]
          /\ \A d \in Clients : /\ req'[d].b = req[d].b /\ req'[d].k = req[d].k
                                /\ req[d].late => req'[d].late
                                /\ pc[d] = "commit" /\ req[d].b = b => req'[d].late
      BY <1>3, <2>1, GotoTyped, OvertakeFields DEF RemoveBucketDir, At
    <2>5. ObjectsKept'
      BY <2>2, <2>3 DEF ObjectsInv, ObjectsKept, BucketExists, Typed
    <2>6. NothingToLose'
      BY <2>1, <2>3, <2>4 DEF ObjectsInv, NothingToLose
    <2>7. CommitHasFile'
      BY <2>3, <2>4 DEF ObjectsInv, CommitHasFile, Typed
    <2> QED
      BY <2>5, <2>6, <2>7 DEF ObjectsInv
  <1>4. CASE Unregister(c)
    <2>1. PICK b \in Buckets : b = req[c].b
      BY <1>4 DEF Unregister, Typed
    <2>2. promisedObjs[b] = {}
      BY <1>4, <2>1 DEF Unregister, ObjectsInv, NothingToLose
    <2>3. /\ registry' = [registry EXCEPT ![b] = None] /\ pc[c] = "unregister"
          /\ UNCHANGED <<objs, files, promisedObjs>>
      BY <1>4, <2>1 DEF Unregister
    <2>4. /\ pc'[c] = "dropdb" /\ \A d \in Clients \ {c} : pc'[d] = pc[d]
          /\ \A d \in Clients : /\ req'[d].b = req[d].b /\ req'[d].k = req[d].k
                                /\ req[d].late => req'[d].late
      BY <1>4, <2>1, GotoTyped, OvertakeFields DEF Unregister
    <2>5. ObjectsKept'
      BY <2>2, <2>3 DEF ObjectsInv, ObjectsKept, BucketExists, Typed
    <2>6. NothingToLose' /\ CommitHasFile'
      BY <2>3, <2>4 DEF ObjectsInv, NothingToLose, CommitHasFile
    <2> QED
      BY <2>5, <2>6 DEF ObjectsInv
  <1>5. CASE DropBucket(c)
    <2>1. Kept({"rmdir", "unregister", "dropdb", "commit"})
      BY <1>5, KeptOnReturn DEF DropBucket
    <2>2. req[c].b \in Buckets /\ promisedObjs[req[c].b] = {}
      BY <1>5 DEF DropBucket, Typed, ObjectsInv, NothingToLose
    <2>3. objs' = [objs EXCEPT ![req[c].b] = {}] /\ UNCHANGED <<registry, files, promisedObjs>>
      BY <1>5 DEF DropBucket
    <2>4. ObjectsKept'
      BY <2>2, <2>3 DEF ObjectsInv, ObjectsKept, BucketExists, Typed
    <2>5. NothingToLose' /\ CommitHasFile'
      BY <2>1, <2>3 DEF Typed, ObjectsInv, NothingToLose, CommitHasFile, Kept
    <2> QED
      BY <2>4, <2>5 DEF ObjectsInv
  <1>6. CASE RenameFile(c)
    <2>1. /\ pc'[c] = "commit" /\ \A d \in Clients \ {c} : pc'[d] = pc[d]
          /\ req[c].b \in Buckets
          /\ files' = [files EXCEPT ![req[c].b] = @ \cup {req[c].k}]
          /\ UNCHANGED <<req, registry, objs, promisedObjs>>
      BY <1>6, GotoTyped DEF RenameFile, Typed
    <2>2. ObjectsKept'
      BY <2>1 DEF ObjectsInv, ObjectsKept, BucketExists, Typed
    <2>3. NothingToLose' /\ CommitHasFile'
      BY <2>1 DEF Typed, ObjectsInv, NothingToLose, CommitHasFile
    <2> QED
      BY <2>2, <2>3 DEF ObjectsInv
  <1>7. CASE PutObjectMeta(c)
    <2>1. CASE BucketExists(req[c].b)
      <3>1. PICK b \in Buckets : b = req[c].b
        BY <1>7 DEF PutObjectMeta, Typed
      <3>2. /\ Kept({"rmdir", "unregister", "dropdb", "commit"}) /\ pc[c] = "commit"
            /\ objs' = [objs EXCEPT ![b] = @ \cup {req[c].k}]
            /\ UNCHANGED <<registry, files>>
        BY <1>7, <2>1, <3>1, KeptOnGoto DEF PutObjectMeta
      <3>3. promisedObjs' = IF req[c].late \/ Deleting(b) THEN promisedObjs
                            ELSE [promisedObjs EXCEPT ![b] = @ \cup {req[c].k}]
        BY <1>7, <2>1, <3>1 DEF PutObjectMeta
      <3>4. CommitHasFile'
        BY <3>2 DEF Typed, ObjectsInv, CommitHasFile, Kept
      <3>5. CASE req[c].late \/ Deleting(b)
        BY <3>2, <3>3, <3>4, <3>5
           DEF Typed, ObjectsInv, ObjectsKept, NothingToLose, Kept, BucketExists
      <3>6. CASE ~req[c].late /\ ~Deleting(b)
        <4>1. req[c].k \in files[b]
          BY <3>1, <3>2, <3>6 DEF ObjectsInv, CommitHasFile
        <4>2. ObjectsKept'
          BY <2>1, <3>1, <3>2, <3>3, <3>6, <4>1 DEF Typed, ObjectsInv, ObjectsKept, BucketExists
        <4>3. \A d \in Clients : pc[d] \in {"rmdir", "unregister", "dropdb"} => req[d].b # b
          BY <3>6 DEF Deleting, At
        <4>4. NothingToLose'
          BY <3>2, <3>3, <3>6, <4>3 DEF Typed, ObjectsInv, NothingToLose, Kept
        <4> QED
          BY <3>4, <4>2, <4>4 DEF ObjectsInv
      <3> QED
        BY <3>5, <3>6
    <2> QED
      BY <1>7, <2>1, KeptOnReturn, ObjectsFrame DEF PutObjectMeta, BucketExists
  <1>8. CASE DeleteObjectMeta(c)
    <2>1. CASE BucketExists(req[c].b)
      <3>1. PICK b \in Buckets, k \in Objects : b = req[c].b /\ k = req[c].k
        BY <1>8 DEF DeleteObjectMeta, Typed
      <3>2. /\ Kept({"rmdir", "unregister", "dropdb", "commit"})
            /\ objs' = [objs EXCEPT ![b] = @ \ {k}]
            /\ files' = [files EXCEPT ![b] = @ \ {k}]
            /\ promisedObjs' = [promisedObjs EXCEPT ![b] = @ \ {k}]
            /\ UNCHANGED registry
        BY <1>8, <2>1, <3>1, KeptOnGoto DEF DeleteObjectMeta
      <3>3. \A d \in Clients : pc[d] = "commit" /\ req[d].b = b /\ req[d].k = k => req'[d].late
        BY <1>8, <2>1, <3>1, OvertakeFields DEF DeleteObjectMeta, At
      <3>4. ObjectsKept'
        BY <3>2 DEF Typed, ObjectsInv, ObjectsKept, BucketExists
      <3>5. NothingToLose'
        BY <3>2 DEF Typed, ObjectsInv, NothingToLose, Kept
      <3>6. CommitHasFile'
        BY <3>2, <3>3 DEF Typed, ObjectsInv, CommitHasFile, Kept
      <3> QED
        BY <3>4, <3>5, <3>6 DEF ObjectsInv
    <2> QED
      BY <1>8, <2>1, KeptOnReturn, ObjectsFrame DEF DeleteObjectMeta, BucketExists
  <1>9. CASE \/ CachePut(c) \/ BucketOpFails(c) \/ Uncache(c) \/ LookUp(c) \/ Fill(c)
             \/ InvalidateCount(c) \/ CountObjectMetas(c) \/ StoreCount(c)
    BY <1>9, KeptOnReturn, KeptOnGoto, ObjectsFrame
       DEF CachePut, BucketOpFails, Uncache, LookUp, Fill, InvalidateCount, CountObjectMetas,
           StoreCount, BucketExists
  <1>10. CASE GetBucket(c) \/ CountUncached(c)
    <2>1. Kept({"rmdir", "unregister", "dropdb", "commit"})
      <3>1. CASE CountUncached(c) /\ ~BucketExists(req[c].b)
        BY <3>1, KeptOnReturn DEF CountUncached
      <3>2. CASE GetBucket(c) \/ (CountUncached(c) /\ BucketExists(req[c].b))
        <4>1. /\ pc'[c] \in {"fill", "store"}
              /\ \A d \in Clients \ {c} : pc'[d] = pc[d] /\ req'[d] = req[d]
          BY <3>2, GotoTyped DEF GetBucket, CountUncached, Typed
        <4> QED
          BY <4>1 DEF Kept
      <3> QED
        BY <1>10, <3>1, <3>2
    <2> QED
      BY <1>10, <2>1, ObjectsFrame DEF GetBucket, CountUncached, BucketExists
  <1> QED
    BY <1>1, <1>2, <1>3, <1>4, <1>5, <1>6, <1>7, <1>8, <1>9, <1>10 DEF Progress

LEMMA ObjectsNext == Typed /\ ObjectsInv /\ [Next]_vars => ObjectsInv'
  <1> SUFFICES ASSUME Typed, ObjectsInv, [Next]_vars PROVE ObjectsInv'
    OBVIOUS
  <1> USE DEF storeVars, cacheVars
  <1>1. ASSUME NEW c \in Clients, NEW b \in Buckets, Request(c, b) PROVE ObjectsInv'
    <2>1. PICK op \in {"create", "empty", "count", "set", "get", "put", "delete"},
               k \in Objects \cup {Absent} : Begin(c, op, b, k)
      BY <1>1, RequestBegins
    <2>2. Kept({"rmdir", "unregister", "dropdb", "commit"})
      BY <2>1, KeptOnBegin DEF States
    <2> QED
      BY <2>1, <2>2, ObjectsFrame DEF Begin, BucketExists
  <1>2. ASSUME NEW c \in Clients, Progress(c) \/ BucketOpFails(c) PROVE ObjectsInv'
    BY <1>2, ObjectsSteps
  <1>3. ASSUME NEW b \in Buckets, ExpireCount(b) PROVE ObjectsInv'
    BY <1>3, ObjectsFrame DEF ExpireCount, Kept, BucketExists
  <1>4. CASE Crash
    BY <1>4, ObjectsFrame DEF Crash, Kept, BucketExists
  <1>5. CASE UNCHANGED vars
    BY <1>5, ObjectsFrame DEF vars, Kept, BucketExists
  <1> QED
    BY <1>1, <1>2, <1>3, <1>4, <1>5 DEF Next, Idle
-----------------------------------------------------------------------------
LEMMA Invariance == Spec => []Inv
  <1>1. Inv /\ [Next]_vars => Inv'
    BY TypedNext, InfoNext, CountNext, SettingsNext, ObjectsNext DEF Inv
  <1> QED
    BY <1>1, InitInv, PTL DEF Spec

(* GetBucketCached never serves a BucketInfo, or a "not found", that the   *)
(* registry no longer holds, except from a reader that was overtaken       *)
(* between its read and its store.                                         *)
THEOREM InfoCacheFresh == Spec => []InfoFresh
  <1>1. Inv => InfoFresh
    BY DEF Inv, InfoInv
  <1> QED
    BY <1>1, Invariance, PTL

(* CountObjectMetas never serves an outdated count, except from a count    *)
(* that a write has overtaken, also across deletion and re-creation of the *)
(* bucket.                                                                 *)
THEOREM CountCacheFresh == Spec => []CountFresh
  <1>1. Inv => CountFresh
    BY DEF Inv, CountInv, CountExact, CountFresh, At
  <1> QED
    BY <1>1, Invariance, PTL

(* PutBucket resets no acknowledged setting that was made outside the      *)
(* window between the existence check of a CreateBucket and its write.     *)
THEOREM SettingsSurvive == Spec => []SettingsKept
  <1>1. Inv => SettingsKept
    BY DEF Inv, SettingsInv
  <1> QED
    BY <1>1, Invariance, PTL

(* DeleteBucket takes no object with it that was stored before its         *)
(* emptiness check, through crashes and failing steps too.                 *)
THEOREM ObjectsSurvive == Spec => []ObjectsKept
  <1>1. Inv => ObjectsKept
    BY DEF Inv, ObjectsInv
  <1> QED
    BY <1>1, Invariance, PTL
=============================================================================
