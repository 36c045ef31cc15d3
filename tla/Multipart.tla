------------------------------ MODULE Multipart ------------------------------
(***************************************************************************)
(* Multipart uploads (internal/storage/multipart.go).                      *)
(*                                                                         *)
(* An upload is a record in the bucket's database (MultipartMeta: SSE-C    *)
(* key digest, part list), a directory, and one file per part.  Records    *)
(* are read and written under the lock of the upload, a part's temporary   *)
(* file, rename and record update happen under the lock of the part, and   *)
(* the rename under no lock of the upload: Complete may be copying parts   *)
(* at that moment.  Locks are used at the level of RWLock.                 *)
(*                                                                         *)
(* A content stands for the bytes of a part and for their ETag.  The       *)
(* object that Complete publishes is a single step here; ObjectStore has   *)
(* its steps and their races with other writes of the key.                 *)
(***************************************************************************)
EXTENDS Integers, Sequences, FiniteSets, Functions

CONSTANTS Clients,     \* concurrent requests; the lifecycle worker is one of them
          Parts,       \* part numbers
          Contents,    \* contents of parts
          Small,       \* the contents below the minimum part size
          Keys,        \* customer keys of SSE-C
          NoKey,       \* no customer key: plain text
          Garbled,     \* what decrypting under a key not used for encryption gives
          None,
          MaxUploads,  \* bound: uploads created
          MaxOps,      \* bound: requests started
          MaxCrashes   \* bound: process crashes

ASSUME MultipartAssumption ==
    /\ Parts \subseteq Nat \ {0}
    /\ Small \subseteq Contents
    /\ NoKey \notin Keys /\ Garbled \notin Contents
    /\ None \notin Contents
    /\ None \notin [sse : Keys \cup {NoKey}, parts : [Parts -> Contents \cup {None}]]
    /\ None \notin [data : Contents, key : Keys \cup {NoKey}]
    /\ MaxUploads \in Nat /\ MaxOps \in Nat /\ MaxCrashes \in Nat

Uploads == 1..MaxUploads                        \* upload ids: uuids, never reused
MaybeKey == Keys \cup {NoKey}
Record == [sse : MaybeKey, parts : [Parts -> Contents \cup {None}]]
PartFile == [data : Contents, key : MaybeKey]
CompletePart == [part : Parts, etag : Contents]

VARIABLES
    record,     \* upload -> its MultipartMeta, or None
    dir,        \* the uploads whose part directory exists
    files,      \* upload -> part -> file, or None
    temps,      \* the clients whose temporary file exists
    pc, req,    \* per client: progress of its request, and its locals
    created, started, crashes,   \* bounds
    published,  \* history: how often each upload became an object
    torn,       \* history: parts whose file was replaced by a request that
                \* did not live to record it
    left,       \* history: uploads whose directory the last RemoveAll left behind
    spared      \* history: how often Complete left the directory and the record

counters == <<created, started, crashes>>
history == <<published, torn, left, spared>>
disk == <<dir, files, temps>>
vars == <<record, disk, pc, req, counters, history>>

NoParts == [p \in Parts |-> None]

NoRequest == [up |-> 0, part |-> 0, data |-> None, key |-> NoKey, list |-> <<>>, body |-> <<>>]

Init ==
    /\ record = [u \in Uploads |-> None]
    /\ dir = {}
    /\ files = [u \in Uploads |-> NoParts]
    /\ temps = {}
    /\ pc = [c \in Clients |-> "idle"]
    /\ req = [c \in Clients |-> NoRequest]
    /\ created = 0 /\ started = 0 /\ crashes = 0
    /\ published = [u \in Uploads |-> 0]
    /\ torn = {} /\ left = {}
    /\ spared = [u \in Uploads |-> 0]

Goto(c, state) == pc' = [pc EXCEPT ![c] = state]
Return(c) == Goto(c, "idle") /\ req' = [req EXCEPT ![c] = NoRequest]

Begin(c, state, r) ==
    /\ pc[c] = "idle" /\ started < MaxOps
    /\ started' = started + 1
    /\ Goto(c, state)
    /\ req' = [req EXCEPT ![c] = r]

(* lockUpload and lockPart: who is between lock and unlock. *)
HoldsUpload == {"assemble", "publish", "cleanup", "forget", "drop"}
HoldsPart == {"staged", "renamed"}

LockUploadIgnored(c) == TRUE
LockUpload(c) == \A d \in Clients : pc[d] \in HoldsUpload => req[d].up # req[c].up
LockPartIgnored(c) == TRUE
LockPart(c) == \A d \in Clients \ {c} :
    pc[d] \in HoldsPart => <<req[d].up, req[d].part>> # <<req[c].up, req[c].part>>
-----------------------------------------------------------------------------
(***************************************************************************)
(* CreateMultipartUpload: directory first, then the record.                *)
(***************************************************************************)
CreateMultipartUpload(c) ==
    /\ created < MaxUploads
    /\ created' = created + 1
    /\ Begin(c, "create", [NoRequest EXCEPT !.up = created + 1])
    /\ dir' = dir \cup {created + 1}
    /\ UNCHANGED <<record, files, temps, crashes, history>>

PutMultipartMeta(u, r) == record' = [record EXCEPT ![u] = r]

StoreRecord(c) ==
    /\ pc[c] = "create"
    /\ PutMultipartMeta(req[c].up, [sse |-> NoKey, parts |-> NoParts])
    /\ Return(c)
    /\ UNCHANGED <<disk, counters, history>>
-----------------------------------------------------------------------------
(***************************************************************************)
(* UploadPart, in four steps.                                              *)
(***************************************************************************)
UploadPart(c, u, p, d, k) ==
    /\ Begin(c, "upload", [NoRequest EXCEPT !.up = u, !.part = p, !.data = d, !.key = k])
    /\ UNCHANGED <<record, disk, created, crashes, history>>

(* The content comes from (a range of) an existing object. *)
UploadPartCopy(c, u, p, source, k) == UploadPart(c, u, p, source, k)

GetMultipartMeta(c) == record[req[c].up]

(* "First part upload with SSE-C: record the algorithm and key MD5 so      *)
(* later parts can be checked against it."                                 *)
WithKey(r, k) == IF r.sse = NoKey /\ r.parts = NoParts THEN [r EXCEPT !.sse = k] ELSE r

(* The check is made on the record as it was read here. *)
PrepareUnchecked(c) ==
    /\ pc[c] = "upload" /\ LockUpload(c)
    /\ LET r == GetMultipartMeta(c)
       IN IF r # None
          THEN PutMultipartMeta(req[c].up, WithKey(r, req[c].key)) /\ Goto(c, "prepared") /\ UNCHANGED req
          ELSE Return(c) /\ UNCHANGED record
    /\ UNCHANGED <<disk, counters, history>>

PrepareUpload(c) ==
    /\ pc[c] = "upload" /\ LockUpload(c)
    /\ LET r == GetMultipartMeta(c)
       IN IF r = None THEN Return(c) /\ UNCHANGED record
          ELSE /\ PutMultipartMeta(req[c].up, WithKey(r, req[c].key))
               /\ IF WithKey(r, req[c].key).sse = req[c].key
                  THEN Goto(c, "prepared") /\ UNCHANGED req
                  ELSE Return(c)
    /\ UNCHANGED <<disk, counters, history>>

(* lockPart, os.CreateTemp in the upload's directory, and the stream. *)
StagePart(c) ==
    /\ pc[c] = "prepared" /\ LockPart(c)
    /\ IF req[c].up \in dir
       THEN temps' = temps \cup {c} /\ Goto(c, "staged") /\ UNCHANGED req
       ELSE Return(c) /\ UNCHANGED temps
    /\ UNCHANGED <<record, dir, files, counters, history>>

(* os.Rename fails when the temporary file was removed meanwhile. *)
RenamePart(c) ==
    /\ pc[c] = "staged"
    /\ LET u == req[c].up IN
       IF c \in temps
       THEN /\ files' = [files EXCEPT ![u][req[c].part] = [data |-> req[c].data, key |-> req[c].key]]
            /\ Goto(c, "renamed") /\ UNCHANGED req
       ELSE Return(c) /\ UNCHANGED files
    /\ temps' = temps \ {c}
    /\ UNCHANGED <<record, dir, counters, history>>

(* The part replaces its former entry in the record as it is now. *)
RecordPart(c) ==
    /\ pc[c] = "renamed" /\ LockUpload(c)
    /\ LET u == req[c].up IN
       /\ IF record[u] = None THEN UNCHANGED record
          ELSE PutMultipartMeta(u, [record[u] EXCEPT !.parts[req[c].part] = req[c].data])
       /\ torn' = torn \ {<<u, req[c].part>>}
    /\ Return(c)
    /\ UNCHANGED <<disk, counters, published, left, spared>>

(* A truncated or oversized body before the rename, a failing transaction  *)
(* after it; the deferred os.Remove takes the temporary file.              *)
UploadFails(c) ==
    /\ pc[c] = "staged" \/ (pc[c] = "renamed" /\ LockUpload(c))
    /\ torn' = torn \cup (IF pc[c] = "renamed" THEN {<<req[c].up, req[c].part>>} ELSE {})
    /\ temps' = temps \ {c}
    /\ Return(c)
    /\ UNCHANGED <<record, dir, files, counters, published, left, spared>>
-----------------------------------------------------------------------------
(***************************************************************************)
(* CompleteMultipartUpload, under the lock of the upload.                  *)
(***************************************************************************)
CompleteMultipartUpload(c, u, list, k) ==
    /\ Begin(c, "complete", [NoRequest EXCEPT !.up = u, !.list = list, !.key = k])
    /\ UNCHANGED <<record, disk, created, crashes, history>>

(* The orders sort.Slice may leave the list in: it is not stable. *)
SortParts(list) ==
    LET orders == {f \in Bijection(DOMAIN list, DOMAIN list) :
                     \A i, j \in DOMAIN list : i < j => list[f[i]].part <= list[f[j]].part}
    IN {[i \in DOMAIN list |-> list[f[i]]] : f \in orders}

NoDuplicates(list) == \A i, j \in DOMAIN list : list[i].part = list[j].part => i = j

(* Every part was uploaded with that ETag, and all but the last are large  *)
(* enough (list is in the order of part numbers).                          *)
ValidParts(r, list) ==
    \A i \in DOMAIN list :
        /\ r.parts[list[i].part] = list[i].etag
        /\ i < Len(list) => list[i].etag \notin Small

ValidateUnlocked(c) ==
    /\ pc[c] = "complete"
    /\ \E list \in SortParts(req[c].list) :
          LET r == GetMultipartMeta(c) IN
          IF r # None /\ r.sse = req[c].key /\ list # <<>> /\ NoDuplicates(list) /\ ValidParts(r, list)
          THEN Goto(c, "assemble") /\ req' = [req EXCEPT ![c].list = list]
          ELSE Return(c)
    /\ UNCHANGED <<record, disk, counters, history>>

ValidateRetries(c) ==
    /\ pc[c] = "complete" /\ LockUpload(c)
    /\ \E list \in SortParts(req[c].list) :
          LET r == GetMultipartMeta(c) IN
          IF r # None /\ r.sse = req[c].key /\ list # <<>> /\ NoDuplicates(list) /\ ValidParts(r, list)
          THEN Goto(c, "assemble") /\ req' = [req EXCEPT ![c].list = list]
          ELSE UNCHANGED <<pc, req>>
    /\ UNCHANGED <<record, disk, counters, history>>

Validate(c) ==
    /\ pc[c] = "complete" /\ LockUpload(c)
    /\ \E list \in SortParts(req[c].list) :
          LET r == GetMultipartMeta(c) IN
          IF r # None /\ r.sse = req[c].key /\ list # <<>> /\ NoDuplicates(list) /\ ValidParts(r, list)
          THEN Goto(c, "assemble") /\ req' = [req EXCEPT ![c].list = list]
          ELSE Return(c)
    /\ UNCHANGED <<record, disk, counters, history>>

(* What decrypting a part file with the key of the upload yields. *)
Decrypt(file, k) == IF file.key = k THEN file.data ELSE Garbled

(* Open and copy the next part. *)
CopyPart(c) ==
    /\ pc[c] = "assemble"
    /\ LET i == Len(req[c].body) + 1
           file == files[req[c].up][req[c].list[i].part]
       IN IF file = None THEN Return(c)
          ELSE /\ req' = [req EXCEPT ![c].body = Append(@, Decrypt(file, req[c].key))]
               /\ Goto(c, IF i = Len(req[c].list) THEN "publish" ELSE "assemble")
    /\ UNCHANGED <<record, disk, counters, history>>

(* Rename and PutObjectMeta, with the ETag made of the ETags in the list. *)
Publish(c) ==
    /\ pc[c] = "publish"
    /\ published' = [published EXCEPT ![req[c].up] = @ + 1]
    /\ Goto(c, "cleanup")
    /\ UNCHANGED <<record, disk, req, counters, torn, left, spared>>

(* os.RemoveAll, whose error nobody looks at.  It unlinks what it finds    *)
(* file by file and then the directory, under no lock that keeps an        *)
(* UploadPart out: a temporary file created or renamed after its directory *)
(* was read stays, and so does a file whose unlink fails; the directory    *)
(* goes only when it is empty.  What stays is chosen in one step: a file   *)
(* created or renamed while RemoveAll runs is one that was, or will be,    *)
(* created or renamed just before or just after it.                        *)
RemoveAll(u) ==
    \E kept \in SUBSET {p \in Parts : files[u][p] # None},
       open \in SUBSET {c \in temps : req[c].up = u} :
        /\ files' = [files EXCEPT ![u] = [p \in Parts |-> IF p \in kept THEN files[u][p] ELSE None]]
        /\ temps' = {c \in temps : req[c].up = u => c \in open}
        /\ \/ kept = {} /\ open = {} /\ dir' = dir \ {u} /\ left' = left \ {u}
           \/ u \in dir /\ left' = left \cup {u} /\ UNCHANGED dir

(* First the files, then the record that leads to them. *)
CleanupRecordFirst(c) ==
    /\ pc[c] = "cleanup"
    /\ PutMultipartMeta(req[c].up, None)
    /\ Goto(c, "forget")
    /\ UNCHANGED <<disk, req, counters, history>>

Cleanup(c) ==
    /\ pc[c] = "cleanup"
    /\ RemoveAll(req[c].up)
    /\ Goto(c, "forget")
    /\ UNCHANGED <<record, req, counters, published, torn, spared>>

(* DeleteMultipartMeta, whose error is only logged. *)
Forget(c) ==
    /\ pc[c] = "forget"
    /\ \/ PutMultipartMeta(req[c].up, None) /\ UNCHANGED spared
       \/ /\ spared' = [spared EXCEPT ![req[c].up] = @ + (IF req[c].up \in dir THEN 1 ELSE 0)]
          /\ UNCHANGED record
    /\ Return(c)
    /\ UNCHANGED <<disk, counters, published, torn, left>>
-----------------------------------------------------------------------------
(***************************************************************************)
(* AbortMultipartUpload, called by clients and by the lifecycle worker.    *)
(***************************************************************************)
AbortMultipartUpload(c, u) ==
    /\ Begin(c, "abort", [NoRequest EXCEPT !.up = u])
    /\ UNCHANGED <<record, disk, created, crashes, history>>

(* The clean-up worker lists the uploads that are too old and aborts them  *)
(* afterwards, when some may be gone.                                      *)
CleanExpiredMultipartUploads(c, u) == record[u] # None /\ AbortMultipartUpload(c, u)

RemoveParts(c) ==
    /\ pc[c] = "abort" /\ LockUpload(c)
    /\ IF GetMultipartMeta(c) = None THEN Return(c) /\ UNCHANGED <<disk, left>>
       ELSE RemoveAll(req[c].up) /\ Goto(c, "drop") /\ UNCHANGED req
    /\ UNCHANGED <<record, counters, published, torn, spared>>

DropRecord(c) ==
    /\ pc[c] = "drop"
    /\ PutMultipartMeta(req[c].up, None)
    /\ Return(c)
    /\ UNCHANGED <<disk, counters, history>>

(* A failing transaction, CreateTemp, copy or rename: the request ends     *)
(* where it is and the deferred functions release its locks.               *)
RequestFails(c) ==
    /\ pc[c] \in {"create", "upload", "prepared", "assemble", "publish", "drop"}
    /\ Return(c)
    /\ UNCHANGED <<record, disk, counters, history>>
-----------------------------------------------------------------------------
(* The process stops and starts: records and directories stay, and         *)
(* cleanupOrphanedTempFiles removes temporary files.                       *)
Crash ==
    /\ crashes < MaxCrashes
    /\ crashes' = crashes + 1
    /\ torn' = torn \cup {<<req[c].up, req[c].part>> : c \in {d \in Clients : pc[d] = "renamed"}}
    /\ pc' = [c \in Clients |-> "idle"]
    /\ req' = [c \in Clients |-> NoRequest]
    /\ temps' = {}
    /\ UNCHANGED <<record, dir, files, created, started, published, left, spared>>

Request(c) ==
    \/ CreateMultipartUpload(c)
    \/ \E u \in 1..created :
          \/ \E p \in Parts, d \in Contents, k \in MaybeKey :
                UploadPart(c, u, p, d, k) \/ UploadPartCopy(c, u, p, d, k)
          \/ \E n \in 0..Cardinality(Parts) : \E list \in [1..n -> CompletePart], k \in MaybeKey :
                CompleteMultipartUpload(c, u, list, k)
          \/ AbortMultipartUpload(c, u) \/ CleanExpiredMultipartUploads(c, u)

Locking(c) == PrepareUpload(c) \/ StagePart(c) \/ RecordPart(c) \/ Validate(c) \/ RemoveParts(c)

Progress(c) == \/ StoreRecord(c) \/ RenamePart(c) \/ CopyPart(c) \/ Publish(c)
               \/ Cleanup(c) \/ Forget(c) \/ DropRecord(c)

Failure(c) == UploadFails(c) \/ RequestFails(c)

Idle == (started = MaxOps \/ Clients = {}) /\ (\A c \in Clients : pc[c] = "idle") /\ UNCHANGED vars

Next == \/ \E c \in Clients : Request(c) \/ Locking(c) \/ Progress(c) \/ Failure(c)
        \/ Crash \/ Idle

Spec == Init /\ [][Next]_vars

(* A handler that has started runs on, and lockKey serves every waiter     *)
(* (KeyLock!EveryRequestServed).                                           *)
Fairness == \A c \in Clients : SF_vars(Progress(c) \/ Locking(c))

FairSpec == Spec /\ Fairness
-----------------------------------------------------------------------------
(* A request that has renamed this part and is yet to record it. *)
Replacing(u, p) == \E c \in Clients : pc[c] = "renamed" /\ req[c].up = u /\ req[c].part = p

(* "a retried/duplicate UploadPart call for the same part number can't     *)
(* leave the on-disk part file from one request paired with the ETag/size  *)
(* metadata from another" (lockPart): as long as the directory is there,   *)
(* the file of a recorded part is the one recorded, unless a request is    *)
(* just replacing it, or died or failed before it could record it; it may  *)
(* be missing where a RemoveAll went only half the way.                    *)
PartsPaired ==
    \A u \in dir, p \in Parts :
        record[u] # None /\ record[u].parts[p] # None =>
            \/ Replacing(u, p) \/ <<u, p>> \in torn
            \/ files[u][p] = None /\ u \in left
            \/ files[u][p] # None /\ files[u][p].data = record[u].parts[p]

(* What Complete publishes is, part by part, the content of the ETags it   *)
(* validated and puts into the object's ETag.  The exceptions are exactly: *)
(* an UploadPart of that part renamed its file during the copy and waits   *)
(* for the upload's lock; one died between rename and record; or the part  *)
(* was stored in plain text before the upload became an SSE-C upload.      *)
AssembledAsListed ==
    \A c \in Clients : pc[c] \in {"assemble", "publish"} =>
        \A i \in 1..Len(req[c].body) :
            LET u == req[c].up
                p == req[c].list[i].part
            IN \/ req[c].body[i] = req[c].list[i].etag
               \/ Replacing(u, p) \/ <<u, p>> \in torn
               \/ req[c].body[i] = Garbled /\ req[c].key # NoKey /\ files[u][p].key = NoKey

(* No part is ever encrypted under another key than the one whose digest   *)
(* the upload has recorded, and none is encrypted in an upload without     *)
(* one: requests are checked against a copy of the record, but the key of  *)
(* an upload never changes once it is set.                                 *)
NoForeignKey ==
    \A u \in Uploads, p \in Parts :
        record[u] # None /\ files[u][p] # None => files[u][p].key \in {NoKey, record[u].sse}

(* Parts on disk can be reached: nothing but the record leads the          *)
(* lifecycle worker (or anybody) to an upload's directory.  Whichever      *)
(* steps of Complete, Abort and UploadPart interleave, fail or are cut off *)
(* by a crash, part files outlive their record only where os.RemoveAll did *)
(* not get the directory away, because an UploadPart was writing into it   *)
(* or an unlink failed.  Complete and Abort drop the record all the same,  *)
(* and that part is then on disk for ever: the code's one leak of parts.   *)
NoUnreachableParts ==
    \A u \in Uploads : (\E p \in Parts : files[u][p] # None) => record[u] # None \/ u \in left

(* An upload becomes an object once.  It does so again only when a crash   *)
(* hit Complete between publication and clean-up, or when both clean-up    *)
(* steps of a Complete fell short: neither the directory nor the record    *)
(* went.  One of them failing is not enough.                               *)
PublishedOnce == \A u \in Uploads : published[u] <= 1 + crashes + spared[u]

(* Every request ends: upload and part locks are taken in one order, and   *)
(* no error path keeps one.                                                *)
EveryRequestEnds == \A c \in Clients : (pc[c] # "idle") ~> (pc[c] = "idle")
=============================================================================
