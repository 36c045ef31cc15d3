----------------------------- MODULE ObjectStore -----------------------------
(***************************************************************************)
(* Requests on one object key of one bucket, step by step.                 *)
(*                                                                         *)
(* internal/storage/filesystem.go keeps an object in two places: its bytes *)
(* in a file (the key's path, or the path plus "." and the version id) and *)
(* its ObjectInfo in the bucket's bbolt database.  No transaction spans    *)
(* both: every request is a sequence of steps, other requests run between  *)
(* them and the process may stop between them.                             *)
(*                                                                         *)
(* A content stands for its ETag.  The key lock is used at the level of    *)
(* RWLock (KeyLock shows that lockObjectKey provides it); a metadata       *)
(* transaction is one step of MetaStore.                                   *)
(***************************************************************************)
EXTENDS VersionIndex, FiniteSets

CONSTANTS Clients,     \* concurrent requests
          Ops,         \* the operations clients call
          Statuses,    \* versioning statuses the bucket may have
          MaxOps,      \* bound: requests started, so also clock ticks
          MaxCrashes,  \* bound: process crashes
          Faults       \* TRUE: metadata reads and transactions may fail

AllOps == {"put", "complete", "copy", "get", "delete", "deleteVersion"}
Times == 1..MaxOps
AllStatuses == {"", "Disabled", "Enabled", "Suspended"}

ASSUME ObjectStoreAssumption ==
    /\ Ops \subseteq AllOps
    /\ Statuses \subseteq AllStatuses
    /\ MaxOps \in Nat /\ MaxCrashes \in Nat /\ Faults \in BOOLEAN
    /\ None \notin Clients

VARIABLES
    versioning,  \* BucketInfo.Versioning
    ix, used,    \* the key's metadata, and the uuids drawn so far (MetaStore)
    files,       \* version id -> content of that version's file, or None
    lock,        \* holder of lockObjectKey(bucket, key), or None
    clock,       \* time.Now: every stamp is later than the one before; its
                 \* bound (Times) is not reached before that on requests
    pc, req,     \* per client: progress of its request, and its locals
    started, crashes,     \* bounds
    committed, unwanted   \* history: the uuids whose metadata was stored, and
                          \* the versions some request has asked to delete

vars == <<versioning, ix, used, files, lock, clock, pc, req, started, crashes,
          committed, unwanted>>

AnyId == VersionIds \cup {Unversioned}

(* Locals of a request: its operation, version id, content, LastModified   *)
(* and the files its delete loop has still to remove.                      *)
NoRequest == [op |-> "none", vid |-> Unversioned, body |-> None, lm |-> 0, todo |-> {}]

Init ==
    /\ versioning \in Statuses
    /\ ix = EmptyIndex /\ used = {}
    /\ files = [v \in AnyId |-> None]
    /\ lock = None
    /\ clock = 1
    /\ pc = [c \in Clients |-> "idle"]
    /\ req = [c \in Clients |-> NoRequest]
    /\ started = 0 /\ crashes = 0
    /\ committed = {} /\ unwanted = {}

Goto(c, state) == pc' = [pc EXCEPT ![c] = state]
Return(c) == Goto(c, "idle") /\ req' = [req EXCEPT ![c] = NoRequest]

(* LastModified: time.Now. *)
Stamp(c) == /\ clock \in Times
            /\ req' = [req EXCEPT ![c].lm = clock]
            /\ clock' = clock + 1

Start(c, op) == /\ pc[c] = "idle" /\ op \in Ops
                /\ started < MaxOps /\ started' = started + 1

(* GetBucketVersioning: a failed read is taken for an unversioned bucket.  *)
VersioningRead == {versioning} \cup (IF Faults THEN {""} ELSE {})

(* The version id a write under this status gets. *)
NewVersionIdsRepeat(status) == CASE status = "Enabled" -> Uuids
                                 [] status = "Suspended" -> {NullVersion}
                                 [] OTHER -> {Unversioned}

NewVersionIds(status) == CASE status = "Enabled" -> Uuids \ used
                           [] status = "Suspended" -> {NullVersion}
                           [] OTHER -> {Unversioned}
-----------------------------------------------------------------------------
(***************************************************************************)
(* PutObject and CompleteMultipartUpload.                                  *)
(***************************************************************************)
(* Read the versioning status, choose the version id, and stream the body  *)
(* into a temporary file that only this request knows.                     *)
Stage(c, op, body) ==
    /\ \E status \in VersioningRead : \E v \in NewVersionIds(status) :
          /\ req' = [req EXCEPT ![c] = [NoRequest EXCEPT !.op = op, !.vid = v, !.body = body]]
          /\ used' = used \cup ({v} \cap Uuids)
    /\ Goto(c, "staged")
    /\ UNCHANGED <<versioning, ix, files, lock, clock, crashes, committed, unwanted>>

PutObject(c, op, body) == op \in {"put", "complete"} /\ Start(c, op) /\ Stage(c, op, body)

LockObjectKey(c) ==
    /\ pc[c] = "staged" /\ req[c].op = "put"
    /\ lock = None
    /\ lock' = c
    /\ Goto(c, "locked")
    /\ UNCHANGED <<versioning, ix, used, files, clock, req, started, crashes, committed, unwanted>>

(* os.Rename to the final path, then LastModified: time.Now.               *)
(* CompleteMultipartUpload comes here without the key lock.                *)
RenameUnlocked(c) ==
    /\ pc[c] = "locked" \/ pc[c] = "staged"
    /\ files' = [files EXCEPT ![req[c].vid] = req[c].body]
    /\ Stamp(c)
    /\ Goto(c, "renamed")
    /\ UNCHANGED <<versioning, ix, used, lock, started, crashes, committed, unwanted>>

Rename(c) ==
    /\ pc[c] = "locked" \/ (pc[c] = "staged" /\ req[c].op = "complete")
    /\ files' = [files EXCEPT ![req[c].vid] = req[c].body]
    /\ Stamp(c)
    /\ Goto(c, "renamed")
    /\ UNCHANGED <<versioning, ix, used, lock, started, crashes, committed, unwanted>>

Unlock(c) == lock' = IF lock = c THEN None ELSE lock

(* Truncated, oversized or failing uploads and a failing rename: the       *)
(* deferred functions remove the temporary file and release the lock.      *)
StageFails(c) ==
    /\ pc[c] \in {"staged", "locked"}
    /\ Unlock(c)
    /\ Return(c)
    /\ UNCHANGED <<versioning, ix, used, files, clock, started, crashes, committed, unwanted>>

InfoOf(c) == [vid |-> req[c].vid, lm |-> req[c].lm, etag |-> req[c].body, latest |-> FALSE]

Publish(c) ==
    /\ ix' = PutObjectMeta(ix, InfoOf(c))
    /\ committed' = committed \cup ({req[c].vid} \cap Uuids)

(* metadata.PutObjectMeta, the answer to the client and the deferred unlock. *)
CommitMeta(c) ==
    /\ pc[c] = "renamed"
    /\ Publish(c)
    /\ Unlock(c)
    /\ Return(c)
    /\ UNCHANGED <<versioning, used, files, clock, started, crashes, unwanted>>

(* The transaction failed: an error is returned, the renamed file stays.   *)
CommitFailsKeepsLock(c) ==
    /\ Faults
    /\ pc[c] = "renamed"
    /\ Return(c)
    /\ UNCHANGED <<versioning, ix, used, files, lock, clock, started, crashes, committed, unwanted>>

CommitFails(c) ==
    /\ Faults
    /\ pc[c] = "renamed"
    /\ Unlock(c)
    /\ Return(c)
    /\ UNCHANGED <<versioning, ix, used, files, clock, started, crashes, committed, unwanted>>
-----------------------------------------------------------------------------
(***************************************************************************)
(* GetObject, and CopyObject of a version of the key onto the key.         *)
(***************************************************************************)
(* HeadObject: read the metadata; absent and delete markers end here.      *)
GetObject(c, op, v) ==
    /\ op \in {"get", "copy"}
    /\ Start(c, op)
    /\ LET info == GetObjectMeta(ix, v)
       IN  /\ info # None
           /\ ~IsDeleteMarker(info)
           /\ req' = [req EXCEPT ![c] = [NoRequest EXCEPT !.op = op, !.vid = info.vid,
                                                          !.body = info.etag]]
    /\ Goto(c, "head")
    /\ UNCHANGED <<versioning, ix, used, files, lock, clock, crashes, committed, unwanted>>

(* os.Open of the version's file; without a file the answer is NoSuchKey.  *)
OpenFileOfLatest(c) ==
    /\ pc[c] = "head"
    /\ LET v == IF ix.ptr = None THEN req[c].vid ELSE ix.ptr.vid
       IN  IF files[v] = None
           THEN Return(c)
           ELSE Goto(c, "opened") /\ req' = [req EXCEPT ![c].todo = {files[v]}]
    /\ UNCHANGED <<versioning, ix, used, files, lock, clock, started, crashes, committed, unwanted>>

OpenFile(c) ==
    /\ pc[c] = "head"
    /\ IF files[req[c].vid] = None
       THEN Return(c)
       ELSE Goto(c, "opened") /\ req' = [req EXCEPT ![c].todo = {files[req[c].vid]}]
    /\ UNCHANGED <<versioning, ix, used, files, lock, clock, started, crashes, committed, unwanted>>

(* The ETag of the metadata goes out with the bytes of the file.           *)
SendBody(c) ==
    /\ pc[c] = "opened" /\ req[c].op = "get"
    /\ Return(c)
    /\ UNCHANGED <<versioning, ix, used, files, lock, clock, started, crashes, committed, unwanted>>

(* CopyObject streams the open file into PutObject.                        *)
CopyObject(c) ==
    /\ pc[c] = "opened" /\ req[c].op = "copy"
    /\ \E body \in req[c].todo : Stage(c, "put", body)
    /\ UNCHANGED started
-----------------------------------------------------------------------------
(***************************************************************************)
(* DeleteObject: it never takes the key lock.                              *)
(***************************************************************************)
(* With a version id: remove its file, then its metadata.  A client can    *)
(* name only ids it was told of; any other id names nothing.               *)
DeleteVersion(c, v) ==
    /\ Start(c, "deleteVersion")
    /\ v \in committed \cup {NullVersion}
    /\ req' = [req EXCEPT ![c] = [NoRequest EXCEPT !.op = "delete", !.vid = v, !.todo = {v}]]
    /\ unwanted' = unwanted \cup {v}
    /\ Goto(c, "remove")
    /\ UNCHANGED <<versioning, ix, used, files, lock, clock, crashes, committed>>

(* Without one, a delete marker under "Enabled" and "Suspended" (which     *)
(* first removes the null version's file), a plain deletion otherwise.     *)
DeleteObject(c) ==
    /\ Start(c, "delete")
    /\ \E status \in VersioningRead : \E v \in NewVersionIds(status) :
          /\ req' = [req EXCEPT ![c] = [NoRequest EXCEPT !.op = "delete", !.vid = v,
                         !.todo = IF v = NullVersion THEN {v} ELSE {}]]
          /\ used' = used \cup ({v} \cap Uuids)
          /\ Goto(c, IF v = Unversioned THEN "lookup" ELSE "marker")
    /\ UNCHANGED <<versioning, ix, files, lock, clock, crashes, committed, unwanted>>

(* The null version's file goes, the marker is stamped ...                 *)
StampMarkerRemovesLatest(c) ==
    /\ pc[c] = "marker"
    /\ files' = [v \in AnyId |-> IF ix.ptr # None /\ v = ix.ptr.vid THEN None ELSE files[v]]
    /\ Stamp(c)
    /\ Goto(c, "stamped")
    /\ UNCHANGED <<versioning, ix, used, lock, started, crashes, committed, unwanted>>

StampMarker(c) ==
    /\ pc[c] = "marker"
    /\ files' = [v \in AnyId |-> IF v \in req[c].todo THEN None ELSE files[v]]
    /\ Stamp(c)
    /\ Goto(c, "stamped")
    /\ UNCHANGED <<versioning, ix, used, lock, started, crashes, committed, unwanted>>

(* ... and PutObjectMeta stores it.                                        *)
CommitMarker(c) ==
    /\ pc[c] = "stamped"
    /\ Publish(c)
    /\ Return(c)
    /\ UNCHANGED <<versioning, used, files, lock, clock, started, crashes, unwanted>>

(* Unversioned: GetObjectMeta decides whether there is anything to delete; *)
(* a failed read counts as "nothing", and the caller is told success.      *)
LookUp(c) ==
    /\ pc[c] = "lookup"
    /\ \/ /\ ix.ptr # None
          /\ req' = [req EXCEPT ![c].todo = {ix.ptr.vid}]
          /\ Goto(c, "list")
       \/ /\ ix.ptr = None \/ Faults
          /\ Return(c)
    /\ UNCHANGED <<versioning, ix, used, files, lock, clock, started, crashes, committed, unwanted>>

(* GetObjectVersions collects the files to remove; if it fails, only the   *)
(* file of the version LookUp found is removed.                            *)
ListVersions(c) ==
    /\ pc[c] = "list"
    /\ \/ req' = [req EXCEPT ![c].todo = {i.vid : i \in GetObjectVersions(ix)}]
       \/ Faults /\ UNCHANGED req
    /\ Goto(c, "remove")
    /\ UNCHANGED <<versioning, ix, used, files, lock, clock, started, crashes, committed, unwanted>>

RemoveFile(c) ==
    /\ pc[c] = "remove"
    /\ \E v \in req[c].todo :
          /\ files' = [files EXCEPT ![v] = None]
          /\ req' = [req EXCEPT ![c].todo = @ \ {v}]
    /\ UNCHANGED <<versioning, ix, used, lock, clock, pc, started, crashes, committed, unwanted>>

(* metadata.DeleteObjectMeta, once every file is gone.                     *)
CommitDelete(c) ==
    /\ pc[c] = "remove" /\ req[c].todo = {}
    /\ ix' \in DeleteObjectMeta(ix, req[c].vid)
    /\ Return(c)
    /\ UNCHANGED <<versioning, used, files, lock, clock, started, crashes, committed, unwanted>>

DeleteFails(c) ==
    /\ Faults
    /\ pc[c] = "stamped" \/ (pc[c] = "remove" /\ req[c].todo = {})
    /\ Return(c)
    /\ UNCHANGED <<versioning, ix, used, files, lock, clock, started, crashes, committed, unwanted>>
-----------------------------------------------------------------------------
SetBucketVersioning(status) ==
    /\ status # "" /\ status # versioning
    /\ versioning' = status
    /\ UNCHANGED <<ix, used, files, lock, clock, pc, req, started, crashes, committed, unwanted>>

(* The process dies and restarts.  Files and committed transactions stay;  *)
(* cleanupOrphanedTempFiles removes what uploads had staged.               *)
Crash ==
    /\ crashes < MaxCrashes
    /\ crashes' = crashes + 1
    /\ lock' = None
    /\ pc' = [c \in Clients |-> "idle"]
    /\ req' = [c \in Clients |-> NoRequest]
    /\ UNCHANGED <<versioning, ix, used, files, clock, started, committed, unwanted>>

(* All requests the bound allows are answered: the server waits. *)
Idle == /\ started = MaxOps /\ \A c \in Clients : pc[c] = "idle"
        /\ UNCHANGED vars

(* The steps that carry a request towards its answer.                      *)
Progress(c) ==
    \/ LockObjectKey(c) \/ Rename(c) \/ CommitMeta(c) \/ CommitFails(c)
    \/ OpenFile(c) \/ SendBody(c) \/ CopyObject(c)
    \/ StampMarker(c) \/ CommitMarker(c) \/ LookUp(c) \/ ListVersions(c)
    \/ RemoveFile(c) \/ CommitDelete(c) \/ DeleteFails(c)

Request(c) ==
    \/ \E op \in Ops, body \in Bodies : PutObject(c, op, body)
    \/ \E op \in Ops, v \in AnyId : GetObject(c, op, v)
    \/ \E v \in VersionIds : DeleteVersion(c, v)
    \/ DeleteObject(c)

Next == \/ \E c \in Clients : Request(c) \/ Progress(c) \/ StageFails(c)
        \/ \E status \in Statuses : SetBucketVersioning(status)
        \/ Crash
        \/ Idle

Spec == Init /\ [][Next]_vars

(* A request handler that has started runs until it returns, and lockKey   *)
(* serves every waiter (KeyLock!EveryRequestServed).  No upload has to     *)
(* fail.                                                                   *)
Fairness == \A c \in Clients : WF_vars(Progress(c)) /\ SF_vars(LockObjectKey(c))

FairSpec == Spec /\ Fairness
-----------------------------------------------------------------------------
(* No request is between its first effect on the files and its metadata    *)
(* transaction.                                                            *)
Settled == \A c \in Clients : pc[c] \notin {"renamed", "stamped", "remove"}

(* "two racing PUTs to the same unversioned key can't leave the on-disk    *)
(* bytes from one request paired with the ETag/size metadata from the      *)
(* other" (lockObjectKey): once the writes in flight have finished, every  *)
(* version that can be listed has the file its ETag was computed from.     *)
BytesMatchMeta ==
    Settled => \A i \in GetObjectVersions(ix) : ~IsDeleteMarker(i) => files[i.vid] = i.etag

(* What GetObject sends is the content of the ETag it announces.           *)
ReadMatches(c) == pc[c] = "opened" => req[c].todo = {req[c].body}

(* A read of a version written under a uuid always is, although GetObject  *)
(* reads the metadata and opens the file in two steps with no lock, and    *)
(* whatever is written, deleted, failing or restarted meanwhile.           *)
VersionReadsConsistent == \A c \in Clients : req[c].vid \in Uuids => ReadMatches(c)

(* What a versioned bucket promises: a version (or delete marker) stored   *)
(* under a uuid is there, with its bytes, until a request deletes that     *)
(* very version, across later writes, delete markers, status changes       *)
(* between "Enabled" and "Suspended" and crashes.                          *)
DurableVersions ==
    \A v \in committed \ unwanted :
        /\ ix.rec[v] # None
        /\ ~IsDeleteMarker(ix.rec[v]) => files[v] = ix.rec[v].etag

(* Every request is answered, whatever others do to the key and whichever  *)
(* transaction fails: no error path keeps the key lock.                    *)
EveryRequestEnds == \A c \in Clients : (pc[c] # "idle") ~> (pc[c] = "idle")

Metadata == INSTANCE MetaStore WITH used <- committed

(* The metadata transactions of racing requests are a behaviour of         *)
(* MetaStore: each carries a stamped, unused version, so everything shown  *)
(* there holds of every interleaving here.                                 *)
ImplementsMetaStore == Metadata!Spec
=============================================================================
