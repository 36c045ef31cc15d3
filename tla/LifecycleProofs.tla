-------------------------- MODULE LifecycleProofs --------------------------
(***************************************************************************)
(* Whatever sequence of transactions runs, the metadata of a key stays     *)
(* coherent and its versions immutable, for every number of versions,      *)
(* every content and every order of timestamps (MetaStore).  Clients and   *)
(* the lifecycle worker only run such transactions, and a sweep that works *)
(* on a stale list neither removes a current version its rule keeps nor    *)
(* brings a deleted object back (Lifecycle).                               *)
(***************************************************************************)
EXTENDS Lifecycle, VersionIndexProofs

Inv == TypeOK /\ IndexCoherent

LEMMA NextInv == Inv /\ [Next]_vars => Inv'
  <1> SUFFICES ASSUME Inv, [Next]_vars PROVE Inv'
    OBVIOUS
  <1>1. CASE UNCHANGED vars
    BY <1>1 DEF Inv, vars, TypeOK, IndexCoherent
  <1>2. ASSUME NEW v \in VersionIds \cup {Unversioned}, Delete(v)
        PROVE  Inv'
    BY <1>2, DeleteCoherent DEF Inv, Delete, TypeOK, IndexCoherent
  <1>3. ASSUME NEW v \in VersionIds \cup {Unversioned}, NEW t \in Times,
               NEW e \in Bodies \cup {None}, Put(v, t, e)
        PROVE  Inv'
    <2> DEFINE info == [vid |-> v, lm |-> t, etag |-> e, latest |-> FALSE]
    <2>1. info \in Infos
      BY <1>3, TimesAssumption DEF Infos, IsDeleteMarker, Put
    <2>2. ix' = PutObjectMeta(ix, info) /\ used' \subseteq used \cup Uuids
      BY <1>3 DEF Put
    <2> HIDE DEF info
    <2> QED
      BY <2>1, <2>2, PutCoherent DEF Inv, TypeOK, IndexCoherent
  <1> QED
    BY <1>1, <1>2, <1>3 DEF Next

(* Type correctness of the stored metadata, for every number of versions.  *)
THEOREM TypeCorrect == Spec => []TypeOK
  <1>1. Init => Inv
    BY EmptyIsCoherent DEF Init, Inv, TypeOK, IndexCoherent
  <1>2. Inv => TypeOK
    BY DEF Inv
  <1> QED
    BY <1>1, <1>2, NextInv, PTL DEF Spec

(* The pointer is always the unique record flagged IsLatest, whatever      *)
(* sequence of PutObjectMeta and DeleteObjectMeta transactions runs.       *)
THEOREM Coherence == Spec => []IndexCoherent
  <1>1. Init => Inv
    BY EmptyIsCoherent DEF Init, Inv, TypeOK, IndexCoherent
  <1>2. Inv => IndexCoherent
    BY DEF Inv
  <1> QED
    BY <1>1, <1>2, NextInv, PTL DEF Spec

(* Records under a uuid are of uuids that were drawn. *)
Drawn == \A v \in Uuids : ix.rec[v] # None => v \in used

LEMMA DrawnInit == Init => Inv /\ Drawn
  BY EmptyIsCoherent, Ids DEF Init, Inv, TypeOK, IndexCoherent, Drawn, EmptyIndex, NoRecords

LEMMA DrawnNext ==
    ASSUME Inv, Drawn, [Next]_vars
    PROVE  /\ Drawn'
           /\ \A v \in Uuids : ix.rec[v] # None /\ ix'.rec[v] # None
                                   => SameVersion(ix.rec[v], ix'.rec[v])
  <1> DEFINE Kept == \A v \in Uuids : ix.rec[v] # None /\ ix'.rec[v] # None
                                          => SameVersion(ix.rec[v], ix'.rec[v])
  <1>1. ix \in Indexes /\ Coherent(ix)
    BY DEF Inv, TypeOK, IndexCoherent
  <1>2. CASE UNCHANGED vars
    BY <1>2 DEF vars, SameVersion, Drawn
  <1>3. ASSUME NEW w \in VersionIds \cup {Unversioned}, Delete(w)
        PROVE  Kept /\ Drawn'
    <2>1. Kept
      BY <1>1, <1>3, DeleteImmutable, Ids DEF Delete
    <2>2. ASSUME NEW v \in Uuids, ix'.rec[v] # None PROVE ix.rec[v] # None
      BY <1>1, <1>3, <2>2, DeleteAddsNothing, Ids DEF Delete
    <2> QED
      BY <2>1, <2>2, <1>3 DEF Delete, Drawn
  <1>4. ASSUME NEW w \in VersionIds \cup {Unversioned}, NEW t \in Times,
               NEW e \in Bodies \cup {None}, Put(w, t, e)
        PROVE  Kept /\ Drawn'
    <2> DEFINE info == [vid |-> w, lm |-> t, etag |-> e, latest |-> FALSE]
    <2>1. info \in Infos /\ info.vid = w
      BY <1>4, TimesAssumption DEF Infos, IsDeleteMarker, Put
    <2>2. /\ ix' = PutObjectMeta(ix, info)
          /\ used' = used \cup ({w} \cap Uuids)
          /\ w \in Uuids => w \notin used
      BY <1>4 DEF Put
    <2> HIDE DEF info
    <2>3. ASSUME NEW v \in Uuids, ix.rec[v] # None, ix'.rec[v] # None
          PROVE  SameVersion(ix.rec[v], ix'.rec[v])
      <3>1. v # info.vid
        BY <2>1, <2>2, <2>3 DEF Drawn
      <3> QED
        BY <3>1, <2>1, <2>2, <2>3, <1>1, PutImmutable, Ids
    <2>4. ASSUME NEW v \in Uuids, v # w, ix'.rec[v] # None PROVE ix.rec[v] # None
      BY <2>1, <2>2, <2>4, <1>1, PutAddsOne, Ids
    <2>5. ASSUME NEW v \in Uuids, ix'.rec[v] # None PROVE v \in used'
      BY <2>2, <2>4, <2>5 DEF Drawn
    <2> QED
      BY <2>3, <2>5 DEF Drawn
  <1> QED
    BY <1>2, <1>3, <1>4 DEF Next

(* What a version written under a uuid says never changes: neither         *)
(* PutObjectMeta's demotion nor DeleteObjectMeta's promotion rewrites its  *)
(* timestamp or ETag.                                                      *)
THEOREM Immutability == Spec => VersionImmutable
  <1> DEFINE Kept == \A v \in Uuids : ix.rec[v] # None /\ ix'.rec[v] # None
                                          => SameVersion(ix.rec[v], ix'.rec[v])
  <1>1. Inv /\ Drawn /\ [Next]_vars => Kept /\ Drawn'
    BY DrawnNext
  <1>2. QED
    BY <1>1, DrawnInit, NextInv, PTL DEF Spec, VersionImmutable

(* Deleting the latest version points the key at a newest remaining one,   *)
(* delete marker or not, as DeleteObjectMeta does with                     *)
(* findNextNewestVersion; a key is never left with records and no pointer. *)
THEOREM Promotion == Spec => DeletePromotesNewest
  <1> DEFINE Promoted == \A v \in VersionIds : Delete(v) =>
                \A i \in Records(ix'.rec) :
                   /\ ix'.ptr # None
                   /\ ix'.ptr # ix.ptr => i.lm <= ix'.ptr.lm
  <1>1. Init => Inv
    BY EmptyIsCoherent DEF Init, Inv, TypeOK, IndexCoherent
  <1>2. Inv => Promoted
    <2> SUFFICES ASSUME Inv, NEW v \in VersionIds, Delete(v), NEW i \in Records(ix'.rec)
                 PROVE  /\ ix'.ptr # None
                        /\ ix'.ptr # ix.ptr => i.lm <= ix'.ptr.lm
      OBVIOUS
    <2>1. ix \in Indexes /\ Coherent(ix)
      BY DEF Inv, TypeOK, IndexCoherent
    <2>2. ix' \in DeleteVersionMeta(ix, v)
      BY Ids DEF Delete, DeleteObjectMeta
    <2>3. PICK u \in VersionIds : ix'.rec[u] # None /\ i = ix'.rec[u]
      BY DEF Records
    <2> QED
      BY <2>1, <2>2, <2>3, DeletePromotes
  <1>3. QED
    BY <1>1, <1>2, NextInv, PTL DEF Spec, DeletePromotesNewest

-----------------------------------------------------------------------------
(***************************************************************************)
(* Clients and the lifecycle worker run MetaStore's transactions.          *)
(***************************************************************************)
(* What the sweep has on its list: one pointer the rule expires, which is  *)
(* a delete marker while its removal is pending, or noncurrent versions.   *)
Listed ==
    /\ now \in Times /\ overtaken \in BOOLEAN
    /\ pc \in {"idle", "current", "marker", "unread", "noncurrent"}
    /\ pc = "idle" => todo = {}
    /\ todo \subseteq Infos
    /\ \A i \in todo : i.vid \in Uuids => i.vid \in used
    /\ pc \in {"current", "marker", "unread"} =>
          /\ \A i, j \in todo : i = j
          /\ \A i \in todo : Older(i, rule.expire)
    /\ pc \in {"marker", "unread"} => \A i \in todo : IsDeleteMarker(i)
    /\ pc = "noncurrent" => \A i \in todo : i.vid # Unversioned

LEMMA NewIds == NewVersionIds \subseteq VersionIds \cup {Unversioned}
  <1>1. CASE versioning = "Enabled"
    BY <1>1, Ids DEF NewVersionIds
  <1>2. CASE versioning = "Suspended"
    BY <1>2, Ids DEF NewVersionIds
  <1>3. CASE versioning # "Enabled" /\ versioning # "Suspended"
    BY <1>3 DEF NewVersionIds
  <1> QED
    BY <1>1, <1>2, <1>3

LEMMA StepRefines ==
    ASSUME Listed, [LifecycleNext]_lifecycleVars
    PROVE  [Next]_vars
  <1>1. ASSUME DeleteObject PROVE Next
    BY <1>1, NewIds DEF DeleteObject, Next, Listed
  <1>2. ASSUME NEW i \in todo, Delete(i.vid) PROVE Next
    <2>1. i.vid \in VersionIds \cup {Unversioned}
      BY DEF Listed, Infos
    <2> QED
      BY <1>2, <2>1 DEF Next
  <1>3. CASE Clients
    <2>1. ASSUME NEW e \in Bodies, ClientPut(e) PROVE Next
      BY <2>1, NewIds DEF ClientPut, Next, Listed
    <2>2. ASSUME NEW v \in VersionIds, ClientDeleteVersion(v) PROVE Next
      BY <2>2 DEF ClientDeleteVersion, Next
    <2> QED
      BY <1>1, <1>3, <2>1, <2>2 DEF Clients, ClientDelete, SetBucketVersioning, vars
  <1>4. CASE Sweep
    BY <1>1, <1>2, <1>4 DEF Sweep, ListCurrent, ExpireCurrent, CheckMarker, RemoveMarker,
                            ListNoncurrent, ExpireNoncurrent, EndSweep, vars
  <1>5. CASE NextDay \/ Faults \/ Finished \/ UNCHANGED lifecycleVars
    BY <1>5 DEF NextDay, Faults, VersionsUnread, DeleteFails, Crash, Finished, lifecycleVars, vars
  <1> QED
    BY <1>3, <1>4, <1>5 DEF LifecycleNext
-----------------------------------------------------------------------------
(***************************************************************************)
(* A list that clients have not overtaken still means what it meant when   *)
(* it was made, although writes under new ids may have come since.         *)
(***************************************************************************)
StillMeant(i) ==
    /\ pc = "current" /\ ~IsDeleteMarker(i) => ix.ptr = i
    /\ pc \in {"current", "marker", "unread"} /\ IsDeleteMarker(i)
          => (ix.ptr # None /\ ix.ptr.vid = i.vid => ix.ptr = i)
    /\ pc = "marker"
          => (ix.ptr # None /\ ix.ptr.vid = i.vid => \A v \in VersionIds \ {i.vid} : ix.rec[v] = None)
    /\ pc = "noncurrent" => (ix.ptr # None => ix.ptr.vid # i.vid)

NotOvertaken == ~overtaken => \A i \in todo : StillMeant(i)

SweepInv == Inv /\ Drawn /\ Listed /\ NotOvertaken


(* Deleting a version that is not the latest leaves the pointer alone. *)
LEMMA PointerStays ==
    ASSUME NEW w \in VersionIds, Delete(w), ix.ptr = None \/ ix.ptr.vid # w
    PROVE  ix'.ptr = ix.ptr
  BY Ids DEF Delete, DeleteObjectMeta, DeleteVersionMeta

(* Deleting the only version leaves nothing. *)
LEMMA LastGoes ==
    ASSUME Inv, NEW w \in VersionIds, Delete(w), ix.ptr # None, ix.ptr.vid = w,
           \A v \in VersionIds \ {w} : ix.rec[v] = None
    PROVE  ix' = EmptyIndex
  <1> DEFINE left == [ix.rec EXCEPT ![w] = None]
  <1>1. \A v \in VersionIds : left[v] = None
    BY DEF Inv, TypeOK, Indexes
  <1>2. Records(left) = {}
    BY <1>1 DEF Records
  <1>3. DeleteObjectMeta(ix, w) = {EmptyIndex}
    BY <1>2, Ids DEF DeleteObjectMeta, DeleteVersionMeta
  <1> QED
    BY <1>3 DEF Delete

(* A write of a version id no entry of the list has, and that does not     *)
(* overtake the list.                                                      *)
LEMMA ClientWrites ==
    ASSUME SweepInv, NEW v \in VersionIds \cup {Unversioned}, NEW e \in Bodies \cup {None},
           Put(v, now, e), Client(Overtakes(v))
    PROVE  Listed' /\ NotOvertaken'
  <1>1. /\ UNCHANGED <<rule, now, pc, todo>> /\ used \subseteq used'
        /\ overtaken' = (overtaken \/ Overtakes(v))
        /\ v \in Uuids => v \notin used
    BY DEF Client, Put, sweepVars
  <1>2. overtaken' \in BOOLEAN
    BY <1>1
  <1>3. Listed'
    BY <1>1, <1>2 DEF SweepInv, Listed, Older
  <1>4. ix'.ptr # None /\ ix'.ptr.vid = v
    <2> DEFINE info == [vid |-> v, lm |-> now, etag |-> e, latest |-> FALSE]
    <2>1. info \in Infos /\ info.vid = v
      BY TimesAssumption DEF SweepInv, Listed, Infos, IsDeleteMarker, Put
    <2>2. ix'.ptr = [info EXCEPT !.latest = TRUE]
      BY DEF Put, PutObjectMeta
    <2> HIDE DEF info
    <2> QED
      BY <2>1, <2>2, Flagged
  <1>5. ASSUME ~overtaken', NEW i \in todo PROVE StillMeant(i)'
    <2>1. v # NullVersion /\ ~(pc = "current" /\ ~IsDeleteMarker(i))
      BY <1>1, <1>5 DEF Overtakes
    <2>2. IsDeleteMarker(i) \/ pc = "noncurrent" => i.vid \in VersionIds
      BY DEF SweepInv, Listed, Infos
    <2>3. pc \in {"marker", "unread"} => IsDeleteMarker(i)
      BY DEF SweepInv, Listed
    <2>4. i.vid \in VersionIds => i.vid # v
      BY <1>1, <2>1, Ids DEF SweepInv, Listed
    <2> QED
      BY <1>1, <1>4, <2>1, <2>2, <2>3, <2>4 DEF StillMeant
  <1> QED
    BY <1>1, <1>3, <1>5 DEF NotOvertaken

LEMMA ClientsKeepList ==
    ASSUME SweepInv, Clients
    PROVE  Listed' /\ NotOvertaken'
  <1>1. ASSUME NEW e \in Bodies, ClientPut(e) PROVE Listed' /\ NotOvertaken'
    BY <1>1, NewIds, ClientWrites DEF ClientPut
  <1>2. CASE ClientDelete
    <2>1. PICK v \in NewVersionIds :
             IF v = Unversioned THEN Delete(Unversioned) ELSE Put(v, now, None)
      BY <1>2 DEF ClientDelete, DeleteObject
    <2>2. /\ UNCHANGED <<rule, now, pc, todo>> /\ used \subseteq used'
          /\ overtaken' \in BOOLEAN
          /\ ~overtaken' => ~overtaken /\ ~Overtakes(v)
      BY <1>2, <2>1 DEF ClientDelete, Client, sweepVars, Delete, Put
    <2>3. Listed'
      BY <2>2 DEF SweepInv, Listed, Older
    <2>4. CASE v = Unversioned
      <3>1. ix'.ptr = None
        BY <2>1, <2>4 DEF Delete, DeleteObjectMeta, EmptyIndex
      <3>2. ASSUME ~overtaken', NEW i \in todo PROVE StillMeant(i)'
        BY <2>2, <3>1, <3>2 DEF StillMeant, Overtakes
      <3> QED
        BY <2>2, <2>3, <3>2 DEF NotOvertaken
    <2>5. CASE v # Unversioned
      <3>1. CASE overtaken'
        BY <2>3, <3>1 DEF NotOvertaken
      <3>2. CASE ~overtaken'
        <4>1. Client(Overtakes(v))
          BY <1>2, <2>1, <2>2, <3>2 DEF ClientDelete, Client
        <4> QED
          BY <2>1, <2>5, <4>1, NewIds, ClientWrites
      <3> QED
        BY <3>1, <3>2
    <2> QED
      BY <2>4, <2>5
  <1>3. ASSUME NEW v \in VersionIds, ClientDeleteVersion(v) PROVE Listed' /\ NotOvertaken'
    <2>1. /\ UNCHANGED <<rule, now, pc, todo, used>> /\ overtaken' = (overtaken \/ todo # {})
      BY <1>3 DEF ClientDeleteVersion, Client, sweepVars, Delete
    <2>2. overtaken' \in BOOLEAN
      BY <2>1
    <2> QED
      BY <2>1, <2>2 DEF SweepInv, Listed, Older, NotOvertaken
  <1>4. ASSUME NEW status \in Statuses, SetBucketVersioning(status) PROVE Listed' /\ NotOvertaken'
    BY <1>4 DEF SetBucketVersioning, sweepVars, SweepInv, Listed, Older, NotOvertaken, StillMeant
  <1> QED
    BY <1>1, <1>2, <1>3, <1>4 DEF Clients


(* The entry of a list that a pointer or a record stands for. *)
LEMMA RecordFacts ==
    ASSUME Inv, Drawn
    PROVE  /\ ix.ptr # None => ix.ptr \in Infos /\ (ix.ptr.vid \in Uuids => ix.ptr.vid \in used)
           /\ \A i \in Records(ix.rec) :
                 /\ i \in Infos /\ i.vid # Unversioned /\ ix.ptr # None
                 /\ i.vid \in Uuids => i.vid \in used
                 /\ ~i.latest => ix.ptr.vid # i.vid
  <1>1. /\ ix.ptr \in Infos \cup {None} /\ ix.rec \in [VersionIds -> Infos \cup {None}]
        /\ Coherent(ix)
    BY DEF Inv, TypeOK, IndexCoherent, Indexes
  <1>2. ASSUME ix.ptr # None PROVE ix.ptr \in Infos /\ (ix.ptr.vid \in Uuids => ix.ptr.vid \in used)
    BY <1>1, <1>2, Ids DEF Coherent, Drawn
  <1>3. ASSUME NEW i \in Records(ix.rec)
        PROVE  /\ i \in Infos /\ i.vid # Unversioned /\ ix.ptr # None
               /\ i.vid \in Uuids => i.vid \in used
               /\ ~i.latest => ix.ptr.vid # i.vid
    <2>1. PICK v \in VersionIds : ix.rec[v] # None /\ i = ix.rec[v]
      BY DEF Records
    <2> QED
      BY <1>1, <2>1, Ids DEF Coherent, Drawn
  <1> QED
    BY <1>2, <1>3

LEMMA SweepKeepsList ==
    ASSUME SweepInv, Sweep
    PROVE  Listed' /\ NotOvertaken'
  <1>0. Inv /\ Drawn /\ Listed
    BY DEF SweepInv
  <1>1. CASE ListCurrent
    <2>1. /\ todo' = Expired /\ pc' = "current" /\ overtaken' = FALSE
          /\ UNCHANGED <<ix, used, rule, now>>
      BY <1>1 DEF ListCurrent
    <2>2. \A i \in todo' : i = ix.ptr /\ ix.ptr # None /\ Older(i, rule.expire)
      BY <2>1 DEF Expired
    <2>3. Listed'
      BY <1>0, <2>1, <2>2, RecordFacts DEF Listed, Older
    <2>4. \A i \in todo' : StillMeant(i)'
      BY <2>1, <2>2 DEF StillMeant
    <2> QED
      BY <2>3, <2>4 DEF NotOvertaken
  <1>2. CASE ExpireCurrent
    <2>1. todo' = {} /\ pc' = "current" /\ UNCHANGED <<now, overtaken>>
      BY <1>2 DEF ExpireCurrent
    <2> QED
      BY <1>0, <2>1 DEF Listed, NotOvertaken
  <1>3. CASE CheckMarker
    <2>1. PICK i \in todo :
             /\ IsDeleteMarker(i)
             /\ IF HasNoncurrent(i) THEN todo' = {} /\ UNCHANGED pc ELSE pc' = "marker" /\ UNCHANGED todo
      BY <1>3 DEF CheckMarker
    <2>2. pc = "current" /\ UNCHANGED <<ix, used, rule, now, overtaken>>
      BY <1>3 DEF CheckMarker
    <2>3. CASE HasNoncurrent(i)
      BY <1>0, <2>1, <2>2, <2>3 DEF Listed, NotOvertaken
    <2>4. CASE ~HasNoncurrent(i)
      <3>1. pc' = "marker" /\ todo' = todo /\ \A j \in todo : j = i
        BY <1>0, <2>1, <2>2, <2>4 DEF Listed
      <3>2. Listed'
        BY <1>0, <2>1, <2>2, <3>1 DEF Listed, Older
      <3>3. ASSUME NEW v \in VersionIds, v # i.vid PROVE ix.rec[v] = None
        <4>1. SUFFICES ASSUME ix.rec[v] # None PROVE FALSE
          OBVIOUS
        <4>2. ix.rec[v].vid = v /\ ix.ptr # None
          BY <1>0, <4>1 DEF Inv, IndexCoherent, Coherent
        <4>3. ix.ptr.vid = i.vid
          BY <2>4, <4>2 DEF HasNoncurrent, GetObjectVersions
        <4>4. ix.rec[v] \in GetObjectVersions(ix)
          BY <3>3, <4>1, <4>2, <4>3 DEF GetObjectVersions, Records
        <4> QED
          BY <2>4, <3>3, <4>2, <4>4 DEF HasNoncurrent
      <3>4. ASSUME ~overtaken PROVE StillMeant(i)'
        <4>1. StillMeant(i)
          BY <3>4 DEF SweepInv, NotOvertaken
        <4> QED
          BY <2>1, <2>2, <3>1, <3>3, <4>1 DEF StillMeant
      <3> QED
        BY <2>2, <3>1, <3>2, <3>4 DEF NotOvertaken
    <2> QED
      BY <2>3, <2>4
  <1>4. CASE RemoveMarker
    <2>1. todo' = {} /\ pc' = "current" /\ UNCHANGED <<now, overtaken>>
      BY <1>4 DEF RemoveMarker
    <2> QED
      BY <1>0, <2>1 DEF Listed, NotOvertaken
  <1>5. CASE ListNoncurrent
    <2>1. /\ todo' = FirstBatch(ExpiredNoncurrent) /\ pc' = "noncurrent" /\ overtaken' = FALSE
          /\ UNCHANGED <<ix, used, rule, now>>
      BY <1>5 DEF ListNoncurrent
    <2>2. \A i \in todo' : i \in Records(ix.rec) /\ ~i.latest
      BY <2>1 DEF FirstBatch, ExpiredNoncurrent
    <2>3. Listed'
      BY <1>0, <2>1, <2>2, RecordFacts DEF Listed
    <2>4. \A i \in todo' : StillMeant(i)'
      BY <1>0, <2>1, <2>2, RecordFacts DEF StillMeant
    <2> QED
      BY <2>3, <2>4 DEF NotOvertaken
  <1>6. CASE ExpireNoncurrent
    <2>1. PICK i \in todo : Delete(i.vid) /\ todo' = todo \ {i}
      BY <1>6 DEF ExpireNoncurrent
    <2>2. pc = "noncurrent" /\ UNCHANGED <<used, rule, now, pc, overtaken>>
      BY <1>6, <2>1 DEF ExpireNoncurrent, Delete
    <2>3. Listed'
      BY <1>0, <2>1, <2>2 DEF Listed
    <2>4. ASSUME ~overtaken PROVE ix'.ptr = ix.ptr
      <3>1. i.vid \in VersionIds
        BY <1>0, <2>1, <2>2 DEF Listed, Infos
      <3>2. ix.ptr # None => ix.ptr.vid # i.vid
        BY <2>2, <2>4 DEF SweepInv, NotOvertaken, StillMeant
      <3> QED
        BY <2>1, <3>1, <3>2, PointerStays
    <2>5. ASSUME ~overtaken, NEW j \in todo' PROVE StillMeant(j)'
      <3>1. StillMeant(j)
        BY <2>1, <2>5 DEF SweepInv, NotOvertaken
      <3> QED
        BY <2>2, <2>4, <2>5, <3>1 DEF StillMeant
    <2> QED
      BY <2>2, <2>3, <2>5 DEF NotOvertaken
  <1>7. CASE EndSweep
    BY <1>0, <1>7 DEF EndSweep, Listed, NotOvertaken
  <1> QED
    BY <1>1, <1>2, <1>3, <1>4, <1>5, <1>6, <1>7 DEF Sweep

LEMMA FaultsKeepList ==
    ASSUME SweepInv, NextDay \/ Faults
    PROVE  Listed' /\ NotOvertaken'
  <1>0. Listed /\ NotOvertaken
    BY DEF SweepInv
  <1>1. CASE NextDay
    BY <1>0, <1>1 DEF NextDay, Listed, NotOvertaken
  <1>2. CASE VersionsUnread
    <2>1. PICK i \in todo : IsDeleteMarker(i)
      BY <1>2 DEF VersionsUnread
    <2>2. pc = "current" /\ pc' = "unread" /\ UNCHANGED <<ix, used, rule, now, todo, overtaken>>
      BY <1>2 DEF VersionsUnread
    <2>3. \A j \in todo : j = i
      BY <1>0, <2>2 DEF Listed
    <2> QED
      BY <1>0, <2>1, <2>2, <2>3 DEF Listed, Older, NotOvertaken, StillMeant
  <1>3. CASE DeleteFails
    <2>1. /\ todo # {} /\ todo' \subseteq todo
          /\ pc' = (IF pc = "noncurrent" THEN pc ELSE "current")
          /\ UNCHANGED <<ix, used, rule, now, overtaken>>
      BY <1>3 DEF DeleteFails
    <2>2. pc # "idle"
      BY <1>0, <2>1 DEF Listed
    <2>3. CASE pc = "noncurrent"
      BY <1>0, <2>1, <2>3 DEF Listed, NotOvertaken, StillMeant
    <2>4. CASE pc \in {"current", "marker", "unread"}
      BY <1>0, <2>1, <2>4 DEF Listed, Older, NotOvertaken, StillMeant
    <2> QED
      BY <1>0, <2>2, <2>3, <2>4 DEF Listed
  <1>4. CASE Crash
    BY <1>0, <1>4 DEF Crash, Listed, NotOvertaken
  <1> QED
    BY <1>1, <1>2, <1>3, <1>4 DEF Faults

LEMMA SweepNext == SweepInv /\ [LifecycleNext]_lifecycleVars => SweepInv'
  <1> SUFFICES ASSUME SweepInv, [LifecycleNext]_lifecycleVars PROVE SweepInv'
    OBVIOUS
  <1>1. [Next]_vars
    BY StepRefines DEF SweepInv
  <1>2. Inv' /\ Drawn'
    BY <1>1, NextInv, DrawnNext DEF SweepInv
  <1>3. ASSUME Finished \/ UNCHANGED lifecycleVars PROVE Listed' /\ NotOvertaken'
    BY <1>3 DEF Finished, lifecycleVars, sweepVars, SweepInv, Listed, Older, NotOvertaken, StillMeant
  <1>4. Listed' /\ NotOvertaken'
    BY <1>3, SweepKeepsList, ClientsKeepList, FaultsKeepList DEF LifecycleNext, SweepInv
  <1> QED
    BY <1>2, <1>4 DEF SweepInv

LEMMA SweepInvariance == LifecycleSpec => []SweepInv
  <1>1. LifecycleInit => SweepInv
    BY DrawnInit, LifecycleAssumption DEF LifecycleInit, SweepInv, Listed, NotOvertaken
  <1> QED
    BY <1>1, SweepNext, PTL DEF LifecycleSpec

(* Clients and lifecycle sweeps together drive a key's metadata through a  *)
(* behaviour of MetaStore, so Coherence, Immutability and Promotion hold   *)
(* of them: CleanExpiredObjects adds no transaction of its own.            *)
THEOREM LifecycleRefinement == LifecycleSpec => Spec
  <1>1. LifecycleInit => Init
    BY DEF LifecycleInit
  <1>2. SweepInv /\ [LifecycleNext]_lifecycleVars => [Next]_vars
    BY StepRefines DEF SweepInv
  <1> QED
    BY <1>1, <1>2, SweepInvariance, PTL DEF LifecycleSpec, Spec

(* A sweep deletes only what its rule expires: a current version that is   *)
(* not old enough stays, for any number of versions, any batch size and    *)
(* any write between listing and deletion that does not change the         *)
(* meaning of an entry already listed (CleanExpiredObjects).               *)
THEOREM SweepKeepsCurrent == LifecycleSpec => CurrentKept
  <1> DEFINE Kept == Sweep /\ ix.ptr # None /\ ~Older(ix.ptr, rule.expire) /\ ~overtaken
                        => ix'.ptr = ix.ptr
  <1>1. SweepInv => Kept
    <2> SUFFICES ASSUME SweepInv, Sweep, ix.ptr # None, ~Older(ix.ptr, rule.expire), ~overtaken
                 PROVE  ix'.ptr = ix.ptr
      OBVIOUS
    <2>1. Listed /\ \A i \in todo : StillMeant(i)
      BY DEF SweepInv, NotOvertaken
    <2>2. ~ExpireCurrent
      BY <2>1 DEF ExpireCurrent, StillMeant, Listed
    <2>3. ASSUME NEW i \in todo, Delete(i.vid), pc \in {"marker", "unread", "noncurrent"}
          PROVE  ix'.ptr = ix.ptr
      <3>1. i.vid \in VersionIds
        BY <2>1, <2>3 DEF Listed, Infos
      <3>2. ix.ptr.vid # i.vid
        BY <2>1, <2>3 DEF Listed, StillMeant
      <3> QED
        BY <2>3, <3>1, <3>2, PointerStays
    <2> QED
      BY <2>2, <2>3 DEF Sweep, ListCurrent, CheckMarker, RemoveMarker, ListNoncurrent,
                        ExpireNoncurrent, EndSweep
  <1> QED
    BY <1>1, SweepInvariance, PTL DEF CurrentKept

(* A sweep brings no deleted object back: DeleteObject puts a marker on    *)
(* top or removes everything, a marker goes only when nothing is below it  *)
(* and noncurrent versions are no pointer, unless a client changed the     *)
(* meaning of the list or the versions could not be read.                  *)
THEOREM SweepResurrectsNothing == LifecycleSpec => NoResurrection
  <1> DEFINE Safe == Sweep /\ Readable(ix') => Readable(ix) \/ overtaken \/ pc = "unread"
  <1>1. SweepInv => Safe
    <2> SUFFICES ASSUME SweepInv, Sweep, Readable(ix'), ~overtaken, pc # "unread"
                 PROVE  Readable(ix)
      OBVIOUS
    <2>1. Inv /\ Listed /\ \A i \in todo : StillMeant(i)
      BY DEF SweepInv, NotOvertaken
    <2>2. ~DeleteObject
      <3> SUFFICES ASSUME NEW v \in NewVersionIds,
                          IF v = Unversioned THEN Delete(Unversioned) ELSE Put(v, now, None)
                   PROVE  FALSE
        BY DEF DeleteObject
      <3>1. CASE v = Unversioned
        BY <3>1 DEF Delete, DeleteObjectMeta, EmptyIndex, Readable
      <3>2. CASE v # Unversioned
        BY <3>2 DEF Put, PutObjectMeta, Readable, IsDeleteMarker
      <3> QED
        BY <3>1, <3>2
    <2>3. ASSUME NEW i \in todo, Delete(i.vid), pc \in {"marker", "noncurrent"}
          PROVE  Readable(ix)
      <3>1. i.vid \in VersionIds
        BY <2>1, <2>3 DEF Listed, Infos
      <3>2. CASE ix.ptr # None /\ ix.ptr.vid = i.vid
        <4>1. pc = "marker" /\ \A v \in VersionIds \ {i.vid} : ix.rec[v] = None
          BY <2>1, <2>3, <3>2 DEF StillMeant
        <4>2. ix' = EmptyIndex
          BY <2>1, <2>3, <3>1, <3>2, <4>1, LastGoes
        <4> QED
          BY <4>2 DEF EmptyIndex, Readable
      <3>3. CASE ~(ix.ptr # None /\ ix.ptr.vid = i.vid)
        BY <2>3, <3>1, <3>3, PointerStays DEF Readable
      <3> QED
        BY <3>2, <3>3
    <2> QED
      BY <2>2, <2>3 DEF Sweep, ListCurrent, ExpireCurrent, CheckMarker, RemoveMarker,
                        ListNoncurrent, ExpireNoncurrent, EndSweep
  <1> QED
    BY <1>1, SweepInvariance, PTL DEF NoResurrection
=============================================================================
