---------------------------- MODULE VersionIndex ----------------------------
(***************************************************************************)
(* The metadata of one object key, as internal/storage/metadata.go keeps   *)
(* it in a bucket's bbolt database: a latest-version pointer (key          *)
(* "bucket\0key") and one historical record per version (key               *)
(* "bucket\0key\0version").  The operators below are the read-write        *)
(* transactions on it.                                                     *)
(*                                                                         *)
(* Version ids are numbered in bbolt's cursor order: 0 is the empty id of  *)
(* an unversioned write, 1..MaxUuid are the random uuids, and "null"       *)
(* sorts after every uuid ('n' is beyond the hexadecimal digits).          *)
(***************************************************************************)
EXTENDS Naturals

CONSTANTS MaxUuid,  \* how many uuids can be drawn
          Bodies,   \* object contents, which also stand for their ETags
          None      \* "absent": a missing key, and the ETag of a delete marker

Unversioned == 0
Uuids == 1..MaxUuid
NullVersion == MaxUuid + 1
VersionIds == 1..NullVersion   \* the ids that get a historical record

(* ObjectInfo.  A delete marker is the one without an ETag; it always has  *)
(* a version id, because an unversioned delete leaves nothing behind.      *)
IsDeleteMarker(info) == info.etag = None

Infos == {i \in [vid : VersionIds \cup {Unversioned}, lm : Nat,
                 etag : Bodies \cup {None}, latest : BOOLEAN] :
             IsDeleteMarker(i) => i.vid # Unversioned}

ASSUME VersionIndexAssumption ==
    MaxUuid \in Nat /\ None \notin Bodies /\ None \notin Infos

(* Equal up to the IsLatest flag. *)
SameVersion(i, j) == i.lm = j.lm /\ i.etag = j.etag /\ i.vid = j.vid

NoRecords == [v \in VersionIds |-> None]
EmptyIndex == [ptr |-> None, rec |-> NoRecords]
Indexes == [ptr : Infos \cup {None}, rec : [VersionIds -> Infos \cup {None}]]

Records(rec) == {rec[v] : v \in {u \in VersionIds : rec[u] # None}}
-----------------------------------------------------------------------------
(***************************************************************************)
(* PutObjectMeta: the previous latest version becomes a historical record, *)
(* the new one gets its record and the pointer.  A write without version   *)
(* id has no record and wipes the records of the key (deleteVersionRecords)*)
(***************************************************************************)
DemoteRestamped(ix, vid) ==
    IF ix.ptr # None /\ ix.ptr.vid \notin {Unversioned, vid}
    THEN [ix.rec EXCEPT ![ix.ptr.vid] = [ix.ptr EXCEPT !.latest = FALSE, !.lm = 0]]
    ELSE ix.rec

Demote(ix, vid) ==
    IF ix.ptr # None /\ ix.ptr.vid \notin {Unversioned, vid}
    THEN [ix.rec EXCEPT ![ix.ptr.vid] = [ix.ptr EXCEPT !.latest = FALSE]]
    ELSE ix.rec

PutObjectMetaNoDemote(ix, info) ==
    LET new == [info EXCEPT !.latest = TRUE]
    IN  [ptr |-> new,
         rec |-> IF info.vid = Unversioned THEN NoRecords
                 ELSE [ix.rec EXCEPT ![info.vid] = new]]

PutObjectMeta(ix, info) ==
    LET new == [info EXCEPT !.latest = TRUE]
    IN  [ptr |-> new,
         rec |-> IF info.vid = Unversioned THEN NoRecords
                 ELSE [Demote(ix, info.vid) EXCEPT ![info.vid] = new]]

(* findNextNewestVersion: the cursor keeps the first record with the       *)
(* greatest LastModified it meets (strict After).                          *)
OldestVersion(rec) ==
    {i \in Records(rec) : \A j \in Records(rec) : i.lm <= j.lm}

FindNextNewestVersion(rec) ==
    {i \in Records(rec) : \A j \in Records(rec) :
        j.lm < i.lm \/ (j.lm = i.lm /\ i.vid <= j.vid)}

(* DeleteObjectMeta of one version: if it was the latest, the next newest  *)
(* is promoted, or the pointer goes too when no record is left.            *)
Promote(rec, next) ==
    LET new == [next EXCEPT !.latest = TRUE]
    IN  [ptr |-> new, rec |-> [rec EXCEPT ![new.vid] = new]]

DeleteVersionMeta(ix, v) ==
    LET left == [ix.rec EXCEPT ![v] = None]
    IN  IF ix.ptr = None \/ ix.ptr.vid # v
        THEN {[ptr |-> ix.ptr, rec |-> left]}
        ELSE IF Records(left) = {}
        THEN {EmptyIndex}
        ELSE {Promote(left, next) : next \in FindNextNewestVersion(left)}

(* DeleteObjectMeta: with no version id, the pointer and every record.     *)
DeleteObjectMeta(ix, v) ==
    IF v = Unversioned THEN {EmptyIndex} ELSE DeleteVersionMeta(ix, v)

(* GetObjectMeta and GetObjectVersions. *)
GetObjectMeta(ix, v) == IF v = Unversioned THEN ix.ptr ELSE ix.rec[v]

GetObjectVersions(ix) ==
    (IF ix.ptr = None THEN {} ELSE {ix.ptr})
    \cup {i \in Records(ix.rec) : ix.ptr = None \/ i.vid # ix.ptr.vid}
-----------------------------------------------------------------------------
(***************************************************************************)
(* Coherence: the pointer is a copy of the one record flagged latest, each *)
(* record sits under its own id, and a key without a pointer, or whose     *)
(* pointer is unversioned, has no history at all.                          *)
(***************************************************************************)
Coherent(ix) ==
    /\ \A v \in VersionIds : ix.rec[v] # None =>
          /\ ix.rec[v].vid = v
          /\ ix.ptr # None
          /\ ix.ptr.vid # Unversioned
          /\ ix.rec[v].latest <=> ix.ptr.vid = v
    /\ ix.ptr # None =>
          /\ ix.ptr.latest
          /\ ix.ptr.vid # Unversioned => ix.rec[ix.ptr.vid] = ix.ptr
=============================================================================
