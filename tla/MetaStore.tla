------------------------------ MODULE MetaStore ------------------------------
(***************************************************************************)
(* One key's metadata under any sequence of transactions.  bbolt runs one  *)
(* read-write transaction at a time, so each is a single step; which one   *)
(* comes next, and which LastModified it carries, is up to the requests    *)
(* racing above (ObjectStore).                                             *)
(***************************************************************************)
EXTENDS VersionIndex

CONSTANTS Times   \* LastModified stamps

ASSUME TimesAssumption == Times \subseteq Nat

VARIABLES ix,     \* the key's pointer and records
          used    \* the uuids drawn so far: uuid.New never repeats one

vars == <<ix, used>>

Init == ix = EmptyIndex /\ used = {}

(* PutObject, CompleteMultipartUpload (etag in Bodies) and the delete      *)
(* marker of DeleteObject (etag None, never without a version id).         *)
Put(v, t, e) ==
    /\ v \in Uuids => v \notin used
    /\ v = Unversioned => e # None
    /\ ix' = PutObjectMeta(ix, [vid |-> v, lm |-> t, etag |-> e, latest |-> FALSE])
    /\ used' = used \cup ({v} \cap Uuids)

(* DeleteObject of a named version, existing or not, and of the whole key. *)
Delete(v) ==
    /\ ix' \in DeleteObjectMeta(ix, v)
    /\ UNCHANGED used

Next == \E v \in VersionIds \cup {Unversioned} :
           \/ Delete(v)
           \/ \E t \in Times, e \in Bodies \cup {None} : Put(v, t, e)

Spec == Init /\ [][Next]_vars
-----------------------------------------------------------------------------
(* Pointer and records keep the shape of stored ObjectInfos. *)
TypeOK == ix \in Indexes /\ used \subseteq Uuids

(* However writes, delete markers, version deletes and whole-key deletes   *)
(* follow each other, the pointer is exactly the one record flagged        *)
(* IsLatest and no history outlives it (PutObjectMeta, DeleteObjectMeta).  *)
IndexCoherent == Coherent(ix)

(* A version written under a uuid is immutable: promotion and demotion     *)
(* change its IsLatest flag and nothing else.                              *)
VersionImmutable ==
    [][\A v \in Uuids : ix.rec[v] # None /\ ix'.rec[v] # None
          => SameVersion(ix.rec[v], ix'.rec[v])]_vars

(* "If latest is deleted, updates the latest pointer to the next newest    *)
(* version in history": when a deletion changes the pointer, no remaining  *)
(* version is newer than the one promoted, and only an empty history       *)
(* leaves the key without one.                                             *)
DeletePromotesNewest ==
    [][\A v \in VersionIds : Delete(v) =>
          \A i \in Records(ix'.rec) :
             /\ ix'.ptr # None
             /\ ix'.ptr # ix.ptr => i.lm <= ix'.ptr.lm]_vars
=============================================================================
