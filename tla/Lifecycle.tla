------------------------------ MODULE Lifecycle ------------------------------
(***************************************************************************)
(* Lifecycle rules on one key (internal/storage/lifecycle.go).             *)
(*                                                                         *)
(* CleanExpiredObjects lists what has expired in one transaction and then  *)
(* deletes it, entry by entry, with the same DeleteObject clients use: a   *)
(* list may be stale when it is acted upon.  A rule expires current        *)
(* versions (which puts a delete marker on top in a versioned bucket), a   *)
(* delete marker with nothing below it, and noncurrent versions.           *)
(*                                                                         *)
(* The metadata transactions are those of MetaStore; the steps inside      *)
(* DeleteObject and PutObject are in ObjectStore.  Incomplete uploads are  *)
(* aborted with AbortMultipartUpload, see Multipart.  Time is in days.     *)
(***************************************************************************)
EXTENDS MetaStore, FiniteSets

CONSTANTS Rules,      \* [expire, noncurrent]: days, 0 where the rule has no such part
          Statuses,   \* versioning statuses of the bucket
          Batch,      \* maxExpiryBatch
          LastWrite,  \* bound: the day clients stop
          MaxOps,     \* bound: client requests
          MaxFaults   \* bound: process crashes and failing transactions

ASSUME LifecycleAssumption ==
    /\ Rules \subseteq [expire : Nat, noncurrent : Nat]
    /\ 0 \in Times   \* the day now starts at
    /\ Batch \in Nat \ {0} /\ LastWrite \in Nat /\ MaxOps \in Nat /\ MaxFaults \in Nat

VARIABLES
    rule, versioning,  \* of the bucket
    now,         \* the day
    pc,          \* the sweep: "idle", "current", "marker", "unread", "noncurrent"
    todo,        \* the ObjectInfos it has listed and not yet dealt with
    swept,       \* a sweep has finished today: the worker runs every hour
    ops, faults,  \* bounds
    overtaken    \* history: a client changed what the sweep has listed

sweepVars == <<pc, todo, swept>>
lifecycleVars == <<ix, used, rule, versioning, now, sweepVars, ops, faults, overtaken>>

LifecycleInit ==
    /\ Init
    /\ rule \in Rules /\ versioning \in Statuses
    /\ now = 0
    /\ pc = "idle" /\ todo = {} /\ swept = FALSE
    /\ ops = 0 /\ faults = 0 /\ overtaken = FALSE

NewVersionIds == CASE versioning = "Enabled" -> Uuids \ used
                   [] versioning = "Suspended" -> {NullVersion}
                   [] OTHER -> {Unversioned}

(* DeleteObject without a version id. *)
DeleteObject ==
    \E v \in NewVersionIds :
       IF v = Unversioned THEN Delete(Unversioned) ELSE Put(v, now, None)
-----------------------------------------------------------------------------
(***************************************************************************)
(* Clients.                                                                *)
(***************************************************************************)
(* A version id names the same version for ever, unless it is "null"; so   *)
(* what a list names by id changes by deleting versions or by writing the  *)
(* null version.  An expired object is listed by its key: any write        *)
(* changes what that means.                                                *)
Overtakes(v) ==
    /\ todo # {}
    /\ v = NullVersion \/ (pc = "current" /\ \E i \in todo : ~IsDeleteMarker(i))

Client(overtakes) ==
    /\ now <= LastWrite /\ ops < MaxOps /\ ops' = ops + 1
    /\ overtaken' = (overtaken \/ overtakes)
    /\ UNCHANGED <<rule, versioning, now, sweepVars, faults>>

ClientPut(e) == \E v \in NewVersionIds : Put(v, now, e) /\ Client(Overtakes(v))

ClientDelete == DeleteObject /\ Client(\E v \in NewVersionIds : Overtakes(v))

ClientDeleteVersion(v) == Delete(v) /\ Client(todo # {})

SetBucketVersioning(status) ==
    /\ now <= LastWrite /\ ops < MaxOps /\ ops' = ops + 1
    /\ status \notin {"", versioning}
    /\ versioning' = status
    /\ UNCHANGED <<ix, used, rule, now, sweepVars, faults, overtaken>>
-----------------------------------------------------------------------------
(***************************************************************************)
(* CleanExpiredObjects.                                                    *)
(***************************************************************************)
Older(i, days) == days > 0 /\ now > i.lm + days

(* IterateObjectMetas: the pointers. *)
ExpiredAnyAge == {i \in {ix.ptr} : i # None}

Expired == {i \in {ix.ptr} : i # None /\ Older(i, rule.expire)}

ListCurrent ==
    /\ pc = "idle"
    /\ todo' = Expired
    /\ pc' = "current" /\ overtaken' = FALSE
    /\ UNCHANGED <<ix, used, rule, versioning, now, swept, ops, faults>>

ExpireCurrent ==
    /\ pc = "current"
    /\ \E i \in todo : ~IsDeleteMarker(i)
    /\ DeleteObject
    /\ todo' = {}
    /\ UNCHANGED <<rule, versioning, now, pc, swept, ops, faults, overtaken>>

(* GetObjectVersions: is anything else left of the key? *)
NoncurrentIgnored(i) == FALSE

HasNoncurrent(i) == \E j \in GetObjectVersions(ix) : j.vid # i.vid

MarkersStay ==
    /\ pc = "current"
    /\ \E i \in todo : IsDeleteMarker(i)
    /\ todo' = {} /\ pc' = "current"
    /\ UNCHANGED <<ix, used, rule, versioning, now, swept, ops, faults, overtaken>>

CheckMarker ==
    /\ pc = "current"
    /\ \E i \in todo :
          /\ IsDeleteMarker(i)
          /\ IF HasNoncurrent(i) THEN todo' = {} /\ UNCHANGED pc ELSE pc' = "marker" /\ UNCHANGED todo
    /\ UNCHANGED <<ix, used, rule, versioning, now, swept, ops, faults, overtaken>>

(* When the versions cannot be read there are none, for the sweep. *)
VersionsUnread ==
    /\ pc = "current" /\ \E i \in todo : IsDeleteMarker(i)
    /\ faults < MaxFaults /\ faults' = faults + 1
    /\ pc' = "unread"
    /\ UNCHANGED <<ix, used, rule, versioning, now, todo, swept, ops, overtaken>>

RemoveMarker ==
    /\ pc \in {"marker", "unread"}
    /\ \E i \in todo : Delete(i.vid)
    /\ todo' = {} /\ pc' = "current"
    /\ UNCHANGED <<rule, versioning, now, swept, ops, faults, overtaken>>

(* The error of a deletion is ignored; the next sweep lists the entry anew. *)
DeleteFails ==
    /\ faults < MaxFaults /\ faults' = faults + 1
    /\ \E i \in todo : (\A j \in todo : i.vid <= j.vid) /\ todo' = todo \ {i}
    /\ pc' = IF pc = "noncurrent" THEN pc ELSE "current"
    /\ UNCHANGED <<ix, used, rule, versioning, now, swept, ops, overtaken>>

(* IterateObjectVersions, in the order of the cursor; their age is that of *)
(* the version, not of the moment it was superseded.                       *)
ExpiredNoncurrent ==
    {i \in Records(ix.rec) : ~i.latest /\ Older(i, rule.noncurrent)}

FirstBatch(infos) == {i \in infos : Cardinality({j \in infos : j.vid < i.vid}) < Batch}

ListNoncurrent ==
    /\ pc = "current" /\ todo = {}
    /\ todo' = FirstBatch(ExpiredNoncurrent)
    /\ pc' = "noncurrent" /\ overtaken' = FALSE
    /\ UNCHANGED <<ix, used, rule, versioning, now, swept, ops, faults>>

ExpireNoncurrent ==
    /\ pc = "noncurrent"
    /\ \E i \in todo :
          /\ \A j \in todo : i.vid <= j.vid
          /\ Delete(i.vid)
          /\ todo' = todo \ {i}
    /\ UNCHANGED <<rule, versioning, now, pc, swept, ops, faults, overtaken>>

EndSweep ==
    /\ pc = "noncurrent" /\ todo = {}
    /\ pc' = "idle" /\ swept' = TRUE
    /\ overtaken' = FALSE
    /\ UNCHANGED <<ix, used, rule, versioning, now, todo, ops, faults>>
-----------------------------------------------------------------------------
(* A day passes; every day has at least one complete sweep, and no sweep   *)
(* takes longer.                                                          *)
NextDay ==
    /\ pc = "idle" /\ swept /\ now + 1 \in Times
    /\ now' = now + 1 /\ swept' = FALSE
    /\ UNCHANGED <<ix, used, rule, versioning, pc, todo, ops, faults, overtaken>>

(* The process stops and starts, with a new sweep. *)
Crash ==
    /\ faults < MaxFaults /\ faults' = faults + 1
    /\ pc' = "idle" /\ todo' = {}
    /\ overtaken' = FALSE
    /\ UNCHANGED <<ix, used, rule, versioning, now, swept, ops>>

Sweep == \/ ListCurrent \/ ExpireCurrent \/ CheckMarker \/ RemoveMarker
         \/ ListNoncurrent \/ ExpireNoncurrent \/ EndSweep

Clients == \/ \E e \in Bodies : ClientPut(e)
           \/ ClientDelete
           \/ \E v \in VersionIds : ClientDeleteVersion(v)
           \/ \E status \in Statuses : SetBucketVersioning(status)

Finished == swept /\ now + 1 \notin Times /\ UNCHANGED lifecycleVars

Faults == VersionsUnread \/ DeleteFails \/ Crash

LifecycleNext == Sweep \/ Clients \/ NextDay \/ Faults \/ Finished

(* The clean-up worker runs on, and time passes. *)
LifecycleSpec == LifecycleInit /\ [][LifecycleNext]_lifecycleVars
                 /\ WF_lifecycleVars(Sweep) /\ SF_lifecycleVars(NextDay)
-----------------------------------------------------------------------------
Readable(index) == index.ptr # None /\ ~IsDeleteMarker(index.ptr)

(* "Only noncurrent versions", "Current Version Expiration": a sweep       *)
(* leaves a current version alone that the rule does not expire, whatever  *)
(* clients write meanwhile, except when they change the meaning of what is *)
(* on its list: an unexpired object written between listing and deletion   *)
(* does go, or is hidden.                                                  *)
CurrentKept ==
    [][Sweep /\ ix.ptr # None /\ ~Older(ix.ptr, rule.expire) /\ ~overtaken
          => ix'.ptr = ix.ptr]_lifecycleVars

(* A sweep never brings a deleted object back: it removes a delete marker  *)
(* only when nothing readable would come to light, also when clients write *)
(* between its check and its deletion, with the same exception and that of *)
(* a failed read of the versions, which the code takes for "none".         *)
NoResurrection ==
    [][Sweep /\ Readable(ix')
          => Readable(ix) \/ overtaken \/ pc = "unread"]_lifecycleVars

(* With a rule for current and one for noncurrent versions nothing of an   *)
(* object remains in the end, delete markers included, in batches of any   *)
(* size, in every versioning status and after status changes.              *)
EverythingExpires ==
    rule.expire > 0 /\ rule.noncurrent > 0 => <>[](ix = EmptyIndex)
=============================================================================
