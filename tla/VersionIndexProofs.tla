------------------------- MODULE VersionIndexProofs -------------------------
(***************************************************************************)
(* What the transactions of metadata.go do to a version index: each maps   *)
(* coherent indexes to coherent indexes and rewrites no other version.     *)
(***************************************************************************)
EXTENDS VersionIndex, TLAPS

(* Shape of the identifiers: no id is both unversioned and recorded. *)
LEMMA Ids ==
    /\ Unversioned \notin VersionIds
    /\ NullVersion \in VersionIds
    /\ Uuids \subseteq VersionIds
    /\ NullVersion \notin Uuids
    /\ VersionIds = Uuids \cup {NullVersion}
  BY VersionIndexAssumption DEF Unversioned, VersionIds, NullVersion, Uuids

(* A key starts without metadata, and that is a coherent index. *)
LEMMA EmptyIsCoherent == EmptyIndex \in Indexes /\ Coherent(EmptyIndex)
  BY DEF EmptyIndex, NoRecords, Indexes, Coherent

(* Setting IsLatest on a stored ObjectInfo touches no other field. *)
LEMMA Flagged ==
    ASSUME NEW i \in Infos, NEW b \in BOOLEAN
    PROVE  LET j == [i EXCEPT !.latest = b]
           IN  /\ j \in Infos /\ j # None
               /\ j.vid = i.vid /\ j.lm = i.lm /\ j.etag = i.etag /\ j.latest = b
  BY VersionIndexAssumption DEF Infos, IsDeleteMarker

(* Demoting the old latest version: records stay records, and no record    *)
(* but the one about to be overwritten is flagged latest any more.         *)
LEMMA DemoteFacts ==
    ASSUME NEW x \in Indexes, Coherent(x), NEW u \in VersionIds
    PROVE  /\ Demote(x, u) \in [VersionIds -> Infos \cup {None}]
           /\ \A v \in VersionIds \ {u} : Demote(x, u)[v] # None =>
                 Demote(x, u)[v].vid = v /\ ~Demote(x, u)[v].latest
  <1> DEFINE d == Demote(x, u)
  <1>1. x.rec \in [VersionIds -> Infos \cup {None}] /\ x.ptr \in Infos \cup {None}
    BY DEF Indexes
  <1>2. CASE x.ptr # None /\ x.ptr.vid \notin {Unversioned, u}
    <2> DEFINE old == [x.ptr EXCEPT !.latest = FALSE]
    <2>1. x.ptr \in Infos /\ x.ptr.vid \in VersionIds
      BY <1>1, <1>2 DEF Infos
    <2>2. old \in Infos /\ old.vid = x.ptr.vid /\ ~old.latest
      BY <2>1, Flagged
    <2>3. d = [x.rec EXCEPT ![x.ptr.vid] = old]
      BY <1>2 DEF Demote
    <2>4. ASSUME NEW v \in VersionIds \ {u}, d[v] # None
          PROVE  d[v].vid = v /\ ~d[v].latest
      <3>1. CASE v = x.ptr.vid
        BY <3>1, <2>2, <2>3, <1>1
      <3>2. CASE v # x.ptr.vid
        <4>1. d[v] = x.rec[v] /\ x.rec[v] \in Infos
          BY <3>2, <2>3, <2>4, <1>1
        <4> QED
          BY <4>1, <3>2, <2>4 DEF Coherent, Infos
      <3> QED
        BY <3>1, <3>2
    <2> HIDE DEF old
    <2> QED
      BY <2>2, <2>3, <2>4, <1>1
  <1>3. CASE ~(x.ptr # None /\ x.ptr.vid \notin {Unversioned, u})
    <2>1. d = x.rec
      BY <1>3 DEF Demote
    <2>2. ASSUME NEW v \in VersionIds \ {u}, d[v] # None
          PROVE  d[v].vid = v /\ ~d[v].latest
      <3>1. d[v] = x.rec[v] /\ x.rec[v] \in Infos
        BY <2>1, <2>2, <1>1
      <3> QED
        BY <3>1, <2>2, <1>3 DEF Coherent, Infos
    <2> QED
      BY <2>1, <2>2, <1>1
  <1> QED
    BY <1>2, <1>3

(* PutObjectMeta maps coherent indexes to coherent indexes. *)
LEMMA PutCoherent ==
    ASSUME NEW x \in Indexes, Coherent(x), NEW info \in Infos
    PROVE  PutObjectMeta(x, info) \in Indexes /\ Coherent(PutObjectMeta(x, info))
  <1> DEFINE new == [info EXCEPT !.latest = TRUE]
             y   == PutObjectMeta(x, info)
  <1>1. new \in Infos /\ new # None /\ new.vid = info.vid /\ new.latest
    BY Flagged
  <1>2. CASE info.vid = Unversioned
    <2>1. y = [ptr |-> new, rec |-> NoRecords]
      BY <1>2 DEF PutObjectMeta
    <2> HIDE DEF new, y
    <2> QED
      BY <2>1, <1>1, <1>2 DEF Coherent, NoRecords, Indexes, y
  <1>3. CASE info.vid # Unversioned
    <2>1. info.vid \in VersionIds
      BY <1>3 DEF Infos
    <2> DEFINE dem == Demote(x, info.vid)
    <2>2. y = [ptr |-> new, rec |-> [dem EXCEPT ![info.vid] = new]]
      BY <1>3 DEF PutObjectMeta
    <2>3. /\ dem \in [VersionIds -> Infos \cup {None}]
          /\ \A v \in VersionIds \ {info.vid} : dem[v] # None =>
                dem[v].vid = v /\ ~dem[v].latest
      BY <2>1, DemoteFacts
    <2> HIDE DEF new, dem, y
    <2>4. /\ y.ptr = new
          /\ y.rec[info.vid] = new
          /\ \A v \in VersionIds \ {info.vid} : y.rec[v] = dem[v]
      BY <2>1, <2>2, <2>3
    <2>5. y \in Indexes
      BY <2>1, <2>2, <2>3, <1>1 DEF Indexes
    <2>6. Coherent(y)
      BY <2>1, <2>3, <2>4, <1>1, <1>3 DEF Coherent
    <2> QED
      BY <2>5, <2>6 DEF y
  <1> QED
    BY <1>2, <1>3

(* Deleting one version: either another one was the latest and stays so,   *)
(* or a remaining record is promoted, or nothing is left.                  *)
LEMMA DeleteVersionCoherent ==
    ASSUME NEW x \in Indexes, Coherent(x), NEW w \in VersionIds,
           NEW y \in DeleteVersionMeta(x, w)
    PROVE  y \in Indexes /\ Coherent(y)
  <1> DEFINE left == [x.rec EXCEPT ![w] = None]
  <1>1. x.rec \in [VersionIds -> Infos \cup {None}] /\ x.ptr \in Infos \cup {None}
    BY DEF Indexes
  <1>2. /\ left \in [VersionIds -> Infos \cup {None}]
        /\ left[w] = None
        /\ \A v \in VersionIds \ {w} : left[v] = x.rec[v]
    BY <1>1
  <1>3. CASE x.ptr = None \/ x.ptr.vid # w
    <2>1. y = [ptr |-> x.ptr, rec |-> left]
      BY <1>3 DEF DeleteVersionMeta
    <2> HIDE DEF left
    <2>2. y \in Indexes
      BY <2>1, <1>1, <1>2 DEF Indexes
    <2>3. y.ptr = x.ptr /\ y.rec = left
      BY <2>1
    <2>4. x.ptr # None => x.ptr.vid \in VersionIds \cup {Unversioned}
      BY <1>1 DEF Infos
    <2>5. Coherent(y)
      BY <2>3, <2>4, <1>2, <1>3 DEF Coherent
    <2> QED
      BY <2>2, <2>5
  <1>4. CASE ~(x.ptr = None \/ x.ptr.vid # w)
    <2>1. CASE Records(left) = {}
      <3>1. y = EmptyIndex
        BY <2>1, <1>4 DEF DeleteVersionMeta
      <3> QED
        BY <3>1, EmptyIsCoherent
    <2>2. CASE Records(left) # {}
      <3>1. PICK next \in FindNextNewestVersion(left) : y = Promote(left, next)
        BY <2>2, <1>4 DEF DeleteVersionMeta
      <3> HIDE DEF left
      <3>2. PICK u \in VersionIds : left[u] # None /\ next = left[u]
        BY <3>1 DEF FindNextNewestVersion, Records
      <3>3. u # w /\ next = x.rec[u] /\ next \in Infos /\ next.vid = u
        BY <3>2, <1>1, <1>2 DEF Coherent
      <3> DEFINE new == [next EXCEPT !.latest = TRUE]
      <3>4. new \in Infos /\ new # None /\ new.vid = u /\ new.latest
        BY <3>3, Flagged
      <3>5. y = [ptr |-> new, rec |-> [left EXCEPT ![u] = new]]
        BY <3>1, <3>4 DEF Promote
      <3> HIDE DEF new
      <3>6. /\ y.ptr = new /\ y.rec[u] = new
            /\ \A v \in VersionIds \ {u} : y.rec[v] = left[v]
        BY <3>5, <1>2
      <3>7. y \in Indexes
        BY <3>4, <3>5, <1>2 DEF Indexes
      <3>8. \A v \in VersionIds \ {u} : y.rec[v] # None =>
               y.rec[v].vid = v /\ ~y.rec[v].latest
        <4> SUFFICES ASSUME NEW v \in VersionIds \ {u}, y.rec[v] # None
                     PROVE  y.rec[v].vid = v /\ ~y.rec[v].latest
          OBVIOUS
        <4>1. v # w /\ y.rec[v] = x.rec[v] /\ x.rec[v] \in Infos
          BY <3>6, <1>1, <1>2
        <4> QED
          BY <4>1, <1>4 DEF Coherent, Infos
      <3>9. Coherent(y)
        BY <3>3, <3>4, <3>6, <3>8, Ids DEF Coherent
      <3> QED
        BY <3>7, <3>9
    <2> QED
      BY <2>1, <2>2
  <1> QED
    BY <1>3, <1>4

(* DeleteObjectMeta maps coherent indexes to coherent indexes. *)
LEMMA DeleteCoherent ==
    ASSUME NEW x \in Indexes, Coherent(x), NEW v \in VersionIds \cup {Unversioned},
           NEW y \in DeleteObjectMeta(x, v)
    PROVE  y \in Indexes /\ Coherent(y)
  BY DeleteVersionCoherent, EmptyIsCoherent DEF DeleteObjectMeta

(* Demotion keeps what a uuid's record says: the pointer it copies is that *)
(* record.                                                                 *)
LEMMA PutImmutable ==
    ASSUME NEW x \in Indexes, Coherent(x), NEW info \in Infos,
           NEW v \in VersionIds, v # info.vid, x.rec[v] # None,
           PutObjectMeta(x, info).rec[v] # None
    PROVE  SameVersion(x.rec[v], PutObjectMeta(x, info).rec[v])
  <1> DEFINE new == [info EXCEPT !.latest = TRUE]
             y   == PutObjectMeta(x, info)
             dem == Demote(x, info.vid)
             old == [x.ptr EXCEPT !.latest = FALSE]
  <1>1. x.rec \in [VersionIds -> Infos \cup {None}] /\ x.ptr \in Infos \cup {None}
    BY DEF Indexes
  <1>2. info.vid \in VersionIds
    <2>1. y.rec[v] = None \/ info.vid # Unversioned
      BY DEF PutObjectMeta, NoRecords
    <2> QED
      BY <2>1 DEF Infos
  <1>3. y.rec[v] = dem[v]
    <2>1. y = [ptr |-> new, rec |-> [dem EXCEPT ![info.vid] = new]]
      BY <1>2, Ids DEF PutObjectMeta
    <2>2. dem \in [VersionIds -> Infos \cup {None}]
      BY <1>2, DemoteFacts
    <2> HIDE DEF y, new, dem
    <2> QED
      BY <2>1, <2>2
  <1>4. CASE x.ptr # None /\ x.ptr.vid \notin {Unversioned, info.vid}
    <2>1. x.ptr \in Infos /\ x.ptr.vid \in VersionIds /\ x.rec[x.ptr.vid] = x.ptr
      BY <1>1, <1>4 DEF Infos, Coherent
    <2>2. old.vid = x.ptr.vid /\ old.lm = x.ptr.lm /\ old.etag = x.ptr.etag
      BY <2>1, Flagged
    <2>3. dem = [x.rec EXCEPT ![x.ptr.vid] = old]
      BY <1>4 DEF Demote
    <2> HIDE DEF old, dem, y
    <2>4. dem[v] = IF v = x.ptr.vid THEN old ELSE x.rec[v]
      BY <2>3, <1>1
    <2> QED
      BY <2>1, <2>2, <2>4, <1>3 DEF SameVersion, y
  <1>5. CASE ~(x.ptr # None /\ x.ptr.vid \notin {Unversioned, info.vid})
    <2>1. dem[v] = x.rec[v]
      BY <1>5 DEF Demote
    <2> HIDE DEF dem, y
    <2> QED
      BY <2>1, <1>3 DEF SameVersion, y
  <1> QED
    BY <1>4, <1>5

(* Promotion keeps what the promoted record says. *)
LEMMA DeleteImmutable ==
    ASSUME NEW x \in Indexes, Coherent(x), NEW w \in VersionIds \cup {Unversioned},
           NEW y \in DeleteObjectMeta(x, w), NEW v \in VersionIds,
           x.rec[v] # None, y.rec[v] # None
    PROVE  SameVersion(x.rec[v], y.rec[v])
  <1> DEFINE left == [x.rec EXCEPT ![w] = None]
  <1>1. x.rec \in [VersionIds -> Infos \cup {None}]
    BY DEF Indexes
  <1>2. y # EmptyIndex
    BY DEF EmptyIndex, NoRecords
  <1>3. w \in VersionIds /\ y \in DeleteVersionMeta(x, w)
    BY <1>2 DEF DeleteObjectMeta
  <1>4. left \in [VersionIds -> Infos \cup {None}] /\ (left[v] # None => left[v] = x.rec[v])
    BY <1>1, <1>3
  <1>5. CASE x.ptr = None \/ x.ptr.vid # w
    <2>1. y = [ptr |-> x.ptr, rec |-> left]
      BY <1>3, <1>5 DEF DeleteVersionMeta
    <2> HIDE DEF left
    <2> QED
      BY <2>1, <1>4 DEF SameVersion
  <1>6. CASE ~(x.ptr = None \/ x.ptr.vid # w)
    <2>1. Records(left) # {}
      <3>1. Records(left) = {} => y = EmptyIndex
        BY <1>3, <1>6 DEF DeleteVersionMeta
      <3> QED
        BY <3>1, <1>2
    <2>2. PICK next \in FindNextNewestVersion(left) : y = Promote(left, next)
      BY <2>1, <1>3, <1>6 DEF DeleteVersionMeta
    <2>w. \A u \in VersionIds : left[u] # None => left[u] = x.rec[u]
      BY <1>1, <1>3
    <2> HIDE DEF left
    <2>3. PICK u \in VersionIds : left[u] # None /\ next = left[u]
      BY <2>2 DEF FindNextNewestVersion, Records
    <2>4. next = x.rec[u] /\ next \in Infos /\ next.vid = u
      BY <2>3, <2>w, <1>1 DEF Coherent
    <2> DEFINE new == [next EXCEPT !.latest = TRUE]
    <2>5. new.vid = u /\ new.lm = next.lm /\ new.etag = next.etag
      BY <2>4, Flagged
    <2>6. y = [ptr |-> new, rec |-> [left EXCEPT ![u] = new]]
      BY <2>2, <2>5 DEF Promote
    <2> HIDE DEF new
    <2>7. y.rec[v] = IF v = u THEN new ELSE left[v]
      BY <2>6, <1>4
    <2> QED
      BY <2>4, <2>5, <2>7, <1>4 DEF SameVersion
  <1> QED
    BY <1>5, <1>6

(* A write adds no record but its own, and a deletion adds none. *)
LEMMA PutAddsOne ==
    ASSUME NEW x \in Indexes, Coherent(x), NEW info \in Infos,
           NEW v \in VersionIds, v # info.vid, PutObjectMeta(x, info).rec[v] # None
    PROVE  x.rec[v] # None
  <1> SUFFICES ASSUME x.rec[v] = None PROVE PutObjectMeta(x, info).rec[v] = None
    OBVIOUS
  <1>1. x.rec \in [VersionIds -> Infos \cup {None}] /\ x.ptr \in Infos \cup {None}
    BY DEF Indexes
  <1>2. CASE info.vid = Unversioned
    BY <1>2 DEF PutObjectMeta, NoRecords
  <1>3. CASE info.vid # Unversioned
    <2> DEFINE new == [info EXCEPT !.latest = TRUE]
               dem == Demote(x, info.vid)
    <2>1. info.vid \in VersionIds
      BY <1>3 DEF Infos
    <2>2. dem \in [VersionIds -> Infos \cup {None}]
      BY <2>1, DemoteFacts
    <2>3. PutObjectMeta(x, info).rec = [dem EXCEPT ![info.vid] = new]
      BY <1>3 DEF PutObjectMeta
    <2>4. x.ptr # None /\ x.ptr.vid # Unversioned => x.ptr.vid # v
      BY VersionIndexAssumption, <1>1 DEF Coherent
    <2>5. dem[v] = None
      BY <2>4, <1>1 DEF Demote
    <2> HIDE DEF new, dem
    <2> QED
      BY <2>2, <2>3, <2>5
  <1> QED
    BY <1>2, <1>3

LEMMA DeleteAddsNothing ==
    ASSUME NEW x \in Indexes, Coherent(x), NEW w \in VersionIds \cup {Unversioned},
           NEW y \in DeleteObjectMeta(x, w), NEW v \in VersionIds, y.rec[v] # None
    PROVE  x.rec[v] # None
  <1> DEFINE left == [x.rec EXCEPT ![w] = None]
  <1>1. x.rec \in [VersionIds -> Infos \cup {None}]
    BY DEF Indexes
  <1>2. y # EmptyIndex
    BY DEF EmptyIndex, NoRecords
  <1>3. w \in VersionIds /\ y \in DeleteVersionMeta(x, w)
    BY <1>2 DEF DeleteObjectMeta
  <1>4. left \in [VersionIds -> Infos \cup {None}]
        /\ \A u \in VersionIds : left[u] # None => left[u] = x.rec[u]
    BY <1>1, <1>3
  <1>5. CASE x.ptr = None \/ x.ptr.vid # w
    <2>1. y = [ptr |-> x.ptr, rec |-> left]
      BY <1>3, <1>5 DEF DeleteVersionMeta
    <2> HIDE DEF left
    <2> QED
      BY <2>1, <1>4
  <1>6. CASE ~(x.ptr = None \/ x.ptr.vid # w)
    <2>1. Records(left) # {}
      <3>1. Records(left) = {} => y = EmptyIndex
        BY <1>3, <1>6 DEF DeleteVersionMeta
      <3> QED
        BY <3>1, <1>2
    <2>2. PICK next \in FindNextNewestVersion(left) : y = Promote(left, next)
      BY <2>1, <1>3, <1>6 DEF DeleteVersionMeta
    <2> HIDE DEF left
    <2>3. PICK u \in VersionIds : left[u] # None /\ next = left[u]
      BY <2>2 DEF FindNextNewestVersion, Records
    <2>4. next = x.rec[u] /\ next \in Infos /\ next.vid = u
      BY <2>3, <1>1, <1>4 DEF Coherent
    <2> DEFINE new == [next EXCEPT !.latest = TRUE]
    <2>5. new.vid = u
      BY <2>4, Flagged
    <2>6. y = [ptr |-> new, rec |-> [left EXCEPT ![u] = new]]
      BY <2>2, <2>5 DEF Promote
    <2> HIDE DEF new
    <2>7. y.rec[v] = IF v = u THEN new ELSE left[v]
      BY <2>6, <1>4
    <2> QED
      BY <2>3, <2>7, <1>4
  <1> QED
    BY <1>5, <1>6

(* Deleting the latest version promotes a newest one of those that remain, *)
(* and a key with records always has a pointer.                            *)
LEMMA DeletePromotes ==
    ASSUME NEW x \in Indexes, Coherent(x), NEW w \in VersionIds,
           NEW y \in DeleteVersionMeta(x, w), NEW v \in VersionIds, y.rec[v] # None
    PROVE  /\ y.ptr # None
           /\ y.ptr # x.ptr => y.rec[v].lm <= y.ptr.lm
  <1> DEFINE left == [x.rec EXCEPT ![w] = None]
  <1>1. x.rec \in [VersionIds -> Infos \cup {None}]
    BY DEF Indexes
  <1>2. /\ left \in [VersionIds -> Infos \cup {None}]
        /\ \A u \in VersionIds : left[u] # None => left[u] = x.rec[u]
    BY <1>1
  <1>3. y.ptr # None
    BY DeleteVersionCoherent DEF Coherent
  <1>4. CASE x.ptr = None \/ x.ptr.vid # w
    BY <1>3, <1>4 DEF DeleteVersionMeta
  <1>5. CASE ~(x.ptr = None \/ x.ptr.vid # w)
    <2>1. Records(left) # {}
      <3>1. Records(left) = {} => y = EmptyIndex
        BY <1>5 DEF DeleteVersionMeta
      <3> QED
        BY <3>1, <1>3 DEF EmptyIndex
    <2>2. PICK next \in FindNextNewestVersion(left) : y = Promote(left, next)
      BY <2>1, <1>5 DEF DeleteVersionMeta
    <2> HIDE DEF left
    <2>3. PICK u \in VersionIds : left[u] # None /\ next = left[u]
      BY <2>2 DEF FindNextNewestVersion, Records
    <2>4. next \in Infos /\ next.vid = u /\ next.lm \in Nat
      BY <2>3, <1>1, <1>2 DEF Coherent, Infos
    <2> DEFINE new == [next EXCEPT !.latest = TRUE]
    <2>5. new.vid = u /\ new.lm = next.lm
      BY <2>4, Flagged
    <2>6. y = [ptr |-> new, rec |-> [left EXCEPT ![u] = new]]
      BY <2>2, <2>5 DEF Promote
    <2> HIDE DEF new
    <2>7. y.ptr = new /\ y.rec[v] = IF v = u THEN new ELSE left[v]
      BY <2>6, <1>2
    <2>8. CASE v = u
      BY <2>4, <2>5, <2>7, <2>8
    <2>9. CASE v # u
      <3>1. left[v] \in Records(left) /\ y.rec[v] = left[v] /\ left[v] \in Infos
        BY <2>7, <2>9, <1>2 DEF Records
      <3>2. left[v].lm \in Nat
        BY <3>1 DEF Infos
      <3>3. left[v].lm < next.lm \/ left[v].lm = next.lm
        BY <3>1, <2>2 DEF FindNextNewestVersion
      <3>4. left[v].lm <= next.lm
        BY <3>2, <3>3, <2>4
      <3> QED
        BY <3>1, <3>4, <2>5, <2>7, <1>3
    <2> QED
      BY <2>8, <2>9, <1>3
  <1> QED
    BY <1>4, <1>5

(* A write stores what it was given. *)
LEMMA PutStores ==
    ASSUME NEW x \in Indexes, Coherent(x), NEW info \in Infos, info.vid \in VersionIds
    PROVE  /\ SameVersion(info, PutObjectMeta(x, info).rec[info.vid])
           /\ PutObjectMeta(x, info).rec[info.vid] # None
  <1> DEFINE new == [info EXCEPT !.latest = TRUE]
             dem == Demote(x, info.vid)
  <1>1. SameVersion(info, new) /\ new # None
    BY Flagged DEF SameVersion
  <1>2. dem \in [VersionIds -> Infos \cup {None}]
    BY DemoteFacts
  <1>3. PutObjectMeta(x, info).rec = [dem EXCEPT ![info.vid] = new]
    BY Ids DEF PutObjectMeta
  <1> HIDE DEF new, dem
  <1> QED
    BY <1>1, <1>2, <1>3

(* Storing a version with an id drops no other version's record. *)
LEMMA PutKeeps ==
    ASSUME NEW x \in Indexes, Coherent(x), NEW info \in Infos, info.vid \in VersionIds,
           NEW v \in VersionIds, v # info.vid, x.rec[v] # None
    PROVE  PutObjectMeta(x, info).rec[v] # None
  <1> DEFINE new == [info EXCEPT !.latest = TRUE]
             dem == Demote(x, info.vid)
             old == [x.ptr EXCEPT !.latest = FALSE]
  <1>1. x.rec \in [VersionIds -> Infos \cup {None}] /\ x.ptr \in Infos \cup {None}
    BY DEF Indexes
  <1>2. dem \in [VersionIds -> Infos \cup {None}]
    BY DemoteFacts
  <1>3. PutObjectMeta(x, info).rec = [dem EXCEPT ![info.vid] = new]
    BY Ids DEF PutObjectMeta
  <1>4. dem[v] # None
    <2>1. CASE x.ptr # None /\ x.ptr.vid \notin {Unversioned, info.vid}
      <3>1. old # None
        BY <1>1, <2>1, Flagged
      <3>2. dem = [x.rec EXCEPT ![x.ptr.vid] = old]
        BY <2>1 DEF Demote
      <3> HIDE DEF old, dem
      <3> QED
        BY <1>1, <3>1, <3>2
    <2>2. CASE ~(x.ptr # None /\ x.ptr.vid \notin {Unversioned, info.vid})
      BY <2>2 DEF Demote
    <2> QED
      BY <2>1, <2>2
  <1> HIDE DEF dem, new
  <1> QED
    BY <1>2, <1>3, <1>4

(* Deleting one version drops no other version's record. *)
LEMMA DeleteKeeps ==
    ASSUME NEW x \in Indexes, NEW w \in VersionIds, NEW y \in DeleteVersionMeta(x, w),
           NEW v \in VersionIds, v # w, x.rec[v] # None
    PROVE  y.rec[v] # None
  <1> DEFINE left == [x.rec EXCEPT ![w] = None]
  <1>1. left \in [VersionIds -> Infos \cup {None}] /\ left[v] = x.rec[v]
    BY DEF Indexes
  <1>2. Records(left) # {} /\ Records(left) \subseteq Infos
    BY <1>1 DEF Records
  <1>3. CASE x.ptr = None \/ x.ptr.vid # w
    <2>1. y.rec = left
      BY <1>3 DEF DeleteVersionMeta
    <2> QED
      BY <1>1, <2>1
  <1>4. CASE ~(x.ptr = None \/ x.ptr.vid # w)
    <2>1. PICK next \in FindNextNewestVersion(left) : y = Promote(left, next)
      BY <1>2, <1>4 DEF DeleteVersionMeta
    <2> DEFINE new == [next EXCEPT !.latest = TRUE]
    <2>2. next \in Infos
      BY <1>2, <2>1 DEF FindNextNewestVersion
    <2>3. new # None
      BY <2>2, Flagged
    <2>4. y.rec = [left EXCEPT ![new.vid] = new]
      BY <2>1 DEF Promote
    <2> HIDE DEF left, new
    <2> QED
      BY <1>1, <2>3, <2>4
  <1> QED
    BY <1>3, <1>4

(* What a key lists after a write: the new version, and others it listed   *)
(* before.                                                                 *)
LEMMA PutLists ==
    ASSUME NEW x \in Indexes, Coherent(x), NEW info \in Infos,
           NEW i \in GetObjectVersions(PutObjectMeta(x, info))
    PROVE  \/ SameVersion(i, info)
           \/ i.vid # info.vid /\ \E j \in GetObjectVersions(x) : SameVersion(i, j)
  <1> DEFINE y   == PutObjectMeta(x, info)
             new == [info EXCEPT !.latest = TRUE]
  <1>1. y.ptr = new /\ SameVersion(new, info) /\ new # None
    BY Flagged DEF PutObjectMeta, SameVersion
  <1>2. CASE i = y.ptr
    BY <1>1, <1>2
  <1>3. CASE i # y.ptr
    <2> HIDE DEF y
    <2>1. PICK v \in VersionIds : y.rec[v] # None /\ i = y.rec[v] /\ i.vid # y.ptr.vid
      BY <1>1, <1>3 DEF y, GetObjectVersions, Records
    <2>2. Coherent(y) /\ y \in Indexes
      BY PutCoherent DEF y
    <2>3. i.vid = v /\ v # info.vid
      BY <1>1, <2>1, <2>2 DEF Coherent, SameVersion
    <2>4. x.rec[v] # None
      BY <2>1, <2>3, PutAddsOne DEF y
    <2>5. SameVersion(x.rec[v], i)
      BY <2>1, <2>3, <2>4, PutImmutable DEF y
    <2>6. x.rec[v] \in GetObjectVersions(x)
      BY <2>4 DEF Coherent, GetObjectVersions, Records
    <2> QED
      BY <2>3, <2>5, <2>6 DEF SameVersion
  <1> QED
    BY <1>2, <1>3
=============================================================================
