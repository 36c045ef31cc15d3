-------------------------- MODULE ObjectStoreProofs --------------------------
(***************************************************************************)
(* Racing requests on a key drive its metadata as MetaStore allows, and    *)
(* reads of uuid versions are consistent: for any number of clients,       *)
(* requests, versions, crashes and failures.                               *)
(***************************************************************************)
EXTENDS ObjectStore, VersionIndexProofs

Locals == [op : AllOps \cup {"none"}, vid : AnyId, body : Bodies \cup {None}, lm : Nat,
           todo : SUBSET (AnyId \cup Bodies \cup {None})]

Steps == {"idle", "staged", "locked", "renamed", "head", "opened",
          "marker", "stamped", "lookup", "list", "remove"}

(* Shapes, and the coherence of the version index the requests work on. *)
Shapes ==
    /\ ix \in Indexes /\ Coherent(ix)
    /\ used \subseteq Uuids /\ committed \subseteq used
    /\ files \in [AnyId -> Bodies \cup {None}]
    /\ clock \in Nat
    /\ pc \in [Clients -> Steps]
    /\ req \in [Clients -> Locals]

(* The locals of a request fit the step it is at. *)
Fits(c) ==
    /\ pc[c] \in {"staged", "locked", "renamed", "head", "opened"} => req[c].body \in Bodies
    /\ pc[c] \in {"marker", "stamped"} => req[c].vid # Unversioned /\ req[c].body = None
    /\ pc[c] \in {"renamed", "stamped"} => req[c].lm \in Times
    /\ pc[c] = "opened" => req[c].todo \subseteq Bodies

(* A request has drawn a version id it has not stored yet. *)
Drawn(c) == pc[c] \in {"staged", "locked", "renamed", "marker", "stamped"}

(* A uuid is in the hands of one request until it is committed. *)
OwnUuid ==
    /\ \A c \in Clients : Drawn(c) /\ req[c].vid \in Uuids
                             => req[c].vid \in used /\ req[c].vid \notin committed
    /\ \A c, d \in Clients : c # d /\ Drawn(c) /\ Drawn(d) /\ req[c].vid \in Uuids
                             => req[c].vid # req[d].vid

Sees(c) ==
    req[c].vid \in Uuids =>
        /\ pc[c] \in {"staged", "locked", "marker", "stamped"} => files[req[c].vid] = None
        /\ pc[c] = "renamed" => files[req[c].vid] \in {None, req[c].body}
        /\ pc[c] \in {"head", "opened"} => /\ req[c].vid \in committed
                                           /\ files[req[c].vid] \in {None, req[c].body}
        /\ pc[c] = "opened" => req[c].todo = {req[c].body}

(* A uuid's file, while there is one, has the content its record, its      *)
(* writer and every reader of it know.                                     *)
Bytes ==
    /\ \A v \in Uuids : v \notin used => files[v] = None
    /\ \A v \in Uuids : ix.rec[v] # None => v \in committed /\ files[v] \in {None, ix.rec[v].etag}
    /\ \A c \in Clients : Sees(c)

Inv == Shapes /\ (\A c \in Clients : Fits(c)) /\ OwnUuid /\ Bytes
-----------------------------------------------------------------------------
LEMMA Constants ==
    /\ NoRequest \in Locals
    /\ Uuids \subseteq AnyId /\ VersionIds \subseteq AnyId /\ Unversioned \in AnyId
    /\ Unversioned \notin Uuids /\ NullVersion \in AnyId /\ Times \subseteq Nat
  BY Ids, ObjectStoreAssumption DEF NoRequest, Locals, AnyId, Times

LEMMA InitInv == Init => Inv
  <1> SUFFICES ASSUME Init PROVE Inv
    OBVIOUS
  <1>1. Shapes
    BY EmptyIsCoherent, Constants DEF Init, Shapes, Steps
  <1>2. \A v \in Uuids : ix.rec[v] = None
    BY Ids DEF Init, EmptyIndex, NoRecords
  <1> QED
    BY <1>1, <1>2, Constants DEF Init, Inv, Fits, OwnUuid, Drawn, Bytes, Sees

(* Steps after which a request owns no version id and reads nothing, and   *)
(* which at most remove files.                                             *)
LEMMA PassiveInv ==
    ASSUME Inv, NEW c \in Clients,
           pc'[c] \in {"idle", "lookup", "list", "remove"},
           pc' = [pc EXCEPT ![c] = pc'[c]],
           req'[c] \in Locals,
           req' = [req EXCEPT ![c] = req'[c]],
           files' \in [AnyId -> Bodies \cup {None}],
           \A v \in AnyId : files'[v] \in {None, files[v]},
           UNCHANGED <<ix, used, clock, committed>>
    PROVE  Inv'
  <1>1. /\ pc' \in [Clients -> Steps] /\ req' \in [Clients -> Locals]
        /\ \A d \in Clients \ {c} : pc'[d] = pc[d] /\ req'[d] = req[d]
    BY DEF Inv, Shapes, Steps
  <1>2. Shapes'
    BY <1>1 DEF Inv, Shapes
  <1>3. \A d \in Clients : Fits(d)'
    BY <1>1 DEF Inv, Fits
  <1>4. OwnUuid'
    BY <1>1 DEF Inv, Shapes, OwnUuid, Drawn
  <1>5. Bytes'
    BY <1>1, Constants DEF Inv, Shapes, Bytes, Sees
  <1> QED
    BY <1>2, <1>3, <1>4, <1>5 DEF Inv

LEMMA ReturnInv ==
    ASSUME Inv, NEW c \in Clients, Return(c), UNCHANGED <<ix, used, files, clock, committed>>
    PROVE  Inv'
  <1>1. pc'[c] = "idle" /\ pc' = [pc EXCEPT ![c] = pc'[c]]
    BY DEF Inv, Shapes, Return, Goto
  <1>2. req'[c] \in Locals /\ req' = [req EXCEPT ![c] = req'[c]]
    BY Constants DEF Inv, Shapes, Return
  <1>3. files' \in [AnyId -> Bodies \cup {None}] /\ \A v \in AnyId : files'[v] \in {None, files[v]}
    BY DEF Inv, Shapes
  <1> QED
    BY <1>1, <1>2, <1>3, PassiveInv

(* A write or delete marker gets a uuid nobody has, "null" or no id. *)
LEMMA NewIds ==
    ASSUME NEW status, NEW v \in NewVersionIds(status)
    PROVE  v \in AnyId /\ (v \in Uuids => v \notin used)
  <1>1. CASE status = "Enabled"
    BY <1>1, Constants DEF NewVersionIds
  <1>2. CASE status = "Suspended"
    BY <1>2, Constants, Ids DEF NewVersionIds
  <1>3. CASE status # "Enabled" /\ status # "Suspended"
    BY <1>3, Constants DEF NewVersionIds
  <1> QED
    BY <1>1, <1>2, <1>3

LEMMA StageInv ==
    ASSUME Inv, NEW c \in Clients, NEW op \in AllOps, NEW body \in Bodies, ~Drawn(c),
           Stage(c, op, body)
    PROVE  Inv'
  <1>1. PICK v \in AnyId :
           /\ v \in Uuids => v \notin used
           /\ req' = [req EXCEPT ![c] = [NoRequest EXCEPT !.op = op, !.vid = v, !.body = body]]
           /\ used' = used \cup ({v} \cap Uuids)
    BY NewIds DEF Stage
  <1>2. /\ pc' = [pc EXCEPT ![c] = "staged"]
        /\ UNCHANGED <<ix, files, clock, committed>>
    BY DEF Stage, Goto
  <1>3. /\ req' \in [Clients -> Locals]
        /\ req'[c].vid = v /\ req'[c].body = body
        /\ \A d \in Clients \ {c} : req'[d] = req[d]
    BY <1>1, Constants DEF Inv, Shapes, Locals, NoRequest
  <1>4. /\ pc' \in [Clients -> Steps] /\ pc'[c] = "staged"
        /\ \A d \in Clients \ {c} : pc'[d] = pc[d]
    BY <1>2 DEF Inv, Shapes, Steps
  <1>5. Shapes'
    BY <1>1, <1>2, <1>3, <1>4 DEF Inv, Shapes
  <1>6. \A d \in Clients : Fits(d)'
    BY <1>3, <1>4 DEF Inv, Fits
  <1>7. OwnUuid'
    BY <1>1, <1>2, <1>3, <1>4 DEF Inv, Shapes, OwnUuid, Drawn
  <1>8. Bytes'
    BY <1>1, <1>2, <1>3, <1>4 DEF Inv, Shapes, Bytes, Sees
  <1> QED
    BY <1>5, <1>6, <1>7, <1>8 DEF Inv

LEMMA LockInv ==
    ASSUME Inv, NEW c \in Clients, LockObjectKey(c)
    PROVE  Inv'
  <1>1. /\ pc' \in [Clients -> Steps] /\ pc[c] = "staged" /\ pc'[c] = "locked"
        /\ \A d \in Clients \ {c} : pc'[d] = pc[d]
        /\ UNCHANGED <<ix, used, files, clock, req, committed>>
    BY DEF Inv, Shapes, LockObjectKey, Goto, Steps
  <1> QED
    BY <1>1 DEF Inv, Shapes, Fits, OwnUuid, Drawn, Bytes, Sees

LEMMA RenameInv ==
    ASSUME Inv, NEW c \in Clients, Rename(c)
    PROVE  Inv'
  <1>1. /\ pc' \in [Clients -> Steps] /\ pc[c] \in {"staged", "locked"} /\ pc'[c] = "renamed"
        /\ \A d \in Clients \ {c} : pc'[d] = pc[d]
        /\ UNCHANGED <<ix, used, committed>>
    BY DEF Inv, Shapes, Rename, Goto, Steps
  <1>2. /\ clock \in Times /\ clock' \in Nat
        /\ req' = [req EXCEPT ![c].lm = clock]
    BY Constants DEF Inv, Shapes, Rename, Stamp
  <1>3. /\ req' \in [Clients -> Locals]
        /\ req'[c].vid = req[c].vid /\ req'[c].body = req[c].body /\ req'[c].lm \in Times
        /\ \A d \in Clients \ {c} : req'[d] = req[d]
    BY <1>2, Constants DEF Inv, Shapes, Locals
  <1>4. /\ req[c].body \in Bodies /\ req[c].vid \in AnyId
        /\ files' = [files EXCEPT ![req[c].vid] = req[c].body]
    BY <1>1 DEF Inv, Shapes, Fits, Locals, Rename
  <1>5. /\ files' \in [AnyId -> Bodies \cup {None}]
        /\ files'[req[c].vid] = req[c].body
        /\ \A v \in AnyId \ {req[c].vid} : files'[v] = files[v]
    BY <1>4 DEF Inv, Shapes
  <1>6. Shapes'
    BY <1>1, <1>2, <1>3, <1>5 DEF Inv, Shapes
  <1>7. \A d \in Clients : Fits(d)'
    BY <1>1, <1>3, <1>4 DEF Inv, Fits
  <1>8. OwnUuid'
    BY <1>1, <1>3 DEF Inv, OwnUuid, Drawn
  <1>9. Bytes'
    <2> DEFINE w == req[c].vid
    <2>1. w \in Uuids => w \in used /\ w \notin committed
      BY <1>1 DEF Inv, OwnUuid, Drawn
    <2>2. \A d \in Clients \ {c} : Drawn(d) /\ w \in Uuids => req[d].vid # w
      BY <1>1 DEF Inv, OwnUuid, Drawn
    <2>3. \A v \in Uuids : v \notin used' => files'[v] = None
      BY <1>1, <1>5, <2>1, Constants DEF Inv, Bytes
    <2>4. \A v \in Uuids : ix'.rec[v] # None => v \in committed' /\ files'[v] \in {None, ix'.rec[v].etag}
      BY <1>1, <1>5, <2>1, Constants DEF Inv, Bytes
    <2>5. ASSUME NEW d \in Clients, d # c PROVE Sees(d)'
      BY <1>1, <1>3, <1>5, <2>1, <2>2, <2>5, Constants DEF Inv, Bytes, Drawn, Sees
    <2> QED
      BY <2>3, <2>4, <2>5, <1>1, <1>3, <1>5 DEF Bytes, Sees
  <1> QED
    BY <1>6, <1>7, <1>8, <1>9 DEF Inv

(* Storing the metadata of a version that was drawn and stamped. *)
LEMMA PublishInv ==
    ASSUME Inv, NEW c \in Clients, pc[c] \in {"renamed", "stamped"},
           Publish(c), Return(c), UNCHANGED <<used, files, clock>>
    PROVE  Inv'
  <1> DEFINE info == InfoOf(c)
             w    == req[c].vid
  <1>1. /\ info \in Infos /\ info.vid = w /\ info.etag = req[c].body
        /\ w \in AnyId
    <2>1. w \in AnyId /\ req[c].lm \in Nat /\ req[c].body \in Bodies \cup {None}
      BY DEF Inv, Shapes, Locals
    <2>2. req[c].body = None => w # Unversioned
      BY VersionIndexAssumption DEF Inv, Fits
    <2> QED
      BY <2>1, <2>2 DEF InfoOf, Infos, IsDeleteMarker, AnyId
  <1>2. ix \in Indexes /\ Coherent(ix) /\ ix' = PutObjectMeta(ix, info)
    BY DEF Inv, Shapes, Publish
  <1>3. committed' = committed \cup ({w} \cap Uuids) /\ (w \in Uuids => w \in used)
    BY DEF Inv, OwnUuid, Drawn, Publish
  <1> HIDE DEF info
  <1>4. /\ pc' \in [Clients -> Steps] /\ pc'[c] = "idle" /\ req' \in [Clients -> Locals]
        /\ \A d \in Clients \ {c} : pc'[d] = pc[d] /\ req'[d] = req[d]
    BY Constants DEF Inv, Shapes, Return, Goto, Steps
  <1>5. ix' \in Indexes /\ Coherent(ix')
    BY <1>1, <1>2, PutCoherent
  <1>6. Shapes'
    BY <1>3, <1>4, <1>5 DEF Inv, Shapes
  <1>7. \A d \in Clients : Fits(d)'
    BY <1>4 DEF Inv, Fits
  <1>8. OwnUuid'
    BY <1>3, <1>4 DEF Inv, OwnUuid, Drawn
  <1>9. Bytes'
    <2>1. ASSUME NEW v \in Uuids, v # w, ix'.rec[v] # None
          PROVE  v \in committed' /\ files'[v] \in {None, ix'.rec[v].etag}
      <3>1. ix.rec[v] # None
        BY <1>1, <1>2, <2>1, PutAddsOne, Ids
      <3>2. SameVersion(ix.rec[v], ix'.rec[v])
        BY <1>1, <1>2, <2>1, <3>1, PutImmutable, Ids
      <3> QED
        BY <3>1, <3>2, <1>3 DEF Inv, Bytes, SameVersion
    <2>2. ASSUME w \in Uuids
          PROVE  w \in committed' /\ files'[w] \in {None, ix'.rec[w].etag}
      <3>1. ix'.rec[w].etag = req[c].body
        BY <1>1, <1>2, <2>2, PutStores, Ids DEF SameVersion
      <3>2. files[w] \in {None, req[c].body}
        BY <2>2 DEF Inv, Bytes, Sees
      <3> QED
        BY <3>1, <3>2, <2>2, <1>3
    <2>3. \A d \in Clients : Sees(d)'
      BY <1>3, <1>4 DEF Inv, Bytes, Sees
    <2> QED
      BY <2>1, <2>2, <2>3 DEF Inv, Bytes
  <1> QED
    BY <1>6, <1>7, <1>8, <1>9 DEF Inv

(* The metadata of a version or of the whole key is dropped. *)
LEMMA CommitDeleteInv ==
    ASSUME Inv, NEW c \in Clients, CommitDelete(c)
    PROVE  Inv'
  <1>1. /\ ix \in Indexes /\ Coherent(ix) /\ ix' \in DeleteObjectMeta(ix, req[c].vid)
        /\ req[c].vid \in VersionIds \cup {Unversioned}
        /\ UNCHANGED <<used, files, clock, committed>>
    BY DEF Inv, Shapes, Locals, AnyId, CommitDelete
  <1>2. /\ pc' \in [Clients -> Steps] /\ pc'[c] = "idle" /\ req' \in [Clients -> Locals]
        /\ \A d \in Clients \ {c} : pc'[d] = pc[d] /\ req'[d] = req[d]
    BY Constants DEF Inv, Shapes, CommitDelete, Return, Goto, Steps
  <1>3. ix' \in Indexes /\ Coherent(ix')
    BY <1>1, DeleteCoherent
  <1>4. ASSUME NEW v \in Uuids, ix'.rec[v] # None
        PROVE  v \in committed' /\ files'[v] \in {None, ix'.rec[v].etag}
    <2>1. ix.rec[v] # None
      BY <1>1, <1>4, DeleteAddsNothing, Ids
    <2>2. SameVersion(ix.rec[v], ix'.rec[v])
      BY <1>1, <1>4, <2>1, DeleteImmutable, Ids
    <2> QED
      BY <2>1, <2>2, <1>1 DEF Inv, Bytes, SameVersion
  <1>5. Shapes' /\ (\A d \in Clients : Fits(d)') /\ OwnUuid'
    BY <1>1, <1>2, <1>3 DEF Inv, Shapes, Fits, OwnUuid, Drawn
  <1>6. Bytes'
    BY <1>1, <1>2, <1>4 DEF Inv, Bytes, Sees
  <1> QED
    BY <1>5, <1>6 DEF Inv

(* Reading metadata: by coherence the pointer is one of the records. *)
LEMMA GetInv ==
    ASSUME Inv, NEW c \in Clients, NEW op \in Ops, NEW v \in AnyId, GetObject(c, op, v)
    PROVE  Inv'
  <1> DEFINE info == GetObjectMeta(ix, v)
  <1>1. /\ info \in Infos /\ ~IsDeleteMarker(info) /\ op \in AllOps
        /\ req' = [req EXCEPT ![c] = [NoRequest EXCEPT !.op = op, !.vid = info.vid,
                                                       !.body = info.etag]]
        /\ pc' = [pc EXCEPT ![c] = "head"]
        /\ UNCHANGED <<ix, used, files, clock, committed>>
    BY ObjectStoreAssumption DEF Inv, Shapes, Indexes, GetObject, GetObjectMeta, AnyId, Goto
  <1>2. info.vid \in Uuids => ix.rec[info.vid] = info
    <2>1. CASE v = Unversioned
      BY <2>1, <1>1, Ids, VersionIndexAssumption DEF Inv, Shapes, Coherent, GetObjectMeta
    <2>2. CASE v # Unversioned
      BY <2>2, <1>1, Ids, VersionIndexAssumption DEF Inv, Shapes, Coherent, GetObjectMeta, AnyId
    <2> QED
      BY <2>1, <2>2
  <1> HIDE DEF info
  <1>3. info.vid \in AnyId /\ info.etag \in Bodies
    BY <1>1 DEF Infos, IsDeleteMarker, AnyId
  <1>4. info.vid \in Uuids => info.vid \in committed /\ files[info.vid] \in {None, info.etag}
    BY <1>1, <1>2, VersionIndexAssumption DEF Inv, Bytes
  <1>5. /\ pc' \in [Clients -> Steps] /\ pc'[c] = "head" /\ req' \in [Clients -> Locals]
        /\ req'[c].vid = info.vid /\ req'[c].body = info.etag
        /\ \A d \in Clients \ {c} : pc'[d] = pc[d] /\ req'[d] = req[d]
    BY <1>1, <1>3, Constants DEF Inv, Shapes, Steps, Locals, NoRequest
  <1>6. Shapes' /\ (\A d \in Clients : Fits(d)') /\ OwnUuid'
    BY <1>1, <1>3, <1>5 DEF Inv, Shapes, Fits, OwnUuid, Drawn
  <1>7. Bytes'
    BY <1>1, <1>4, <1>5 DEF Inv, Bytes, Sees
  <1> QED
    BY <1>6, <1>7 DEF Inv

LEMMA OpenInv ==
    ASSUME Inv, NEW c \in Clients, OpenFile(c)
    PROVE  Inv'
  <1>1. CASE files[req[c].vid] = None
    BY <1>1, ReturnInv DEF OpenFile
  <1>2. CASE files[req[c].vid] # None
    <2> DEFINE bytes == files[req[c].vid]
    <2>1. bytes \in Bodies /\ pc[c] = "head" /\ req[c].vid \in AnyId /\ req[c].body \in Bodies
      BY <1>2 DEF Inv, Shapes, Fits, Locals, OpenFile
    <2>2. /\ pc' = [pc EXCEPT ![c] = "opened"] /\ req' = [req EXCEPT ![c].todo = {bytes}]
          /\ UNCHANGED <<ix, used, files, clock, committed>>
      BY <1>2 DEF OpenFile, Goto
    <2>3. req[c].vid \in Uuids => bytes = req[c].body /\ req[c].vid \in committed
      BY <1>2, <2>1 DEF Inv, Bytes, Sees
    <2> HIDE DEF bytes
    <2>4. /\ pc' \in [Clients -> Steps] /\ pc'[c] = "opened" /\ req' \in [Clients -> Locals]
          /\ req'[c].vid = req[c].vid /\ req'[c].body = req[c].body /\ req'[c].todo = {bytes}
          /\ \A d \in Clients \ {c} : pc'[d] = pc[d] /\ req'[d] = req[d]
      BY <2>1, <2>2 DEF Inv, Shapes, Steps, Locals
    <2>5. Shapes' /\ (\A d \in Clients : Fits(d)') /\ OwnUuid'
      BY <2>1, <2>2, <2>4 DEF Inv, Shapes, Fits, OwnUuid, Drawn
    <2>6. Bytes'
      BY <2>1, <2>2, <2>3, <2>4 DEF Inv, Bytes, Sees
    <2> QED
      BY <2>5, <2>6 DEF Inv
  <1> QED
    BY <1>1, <1>2

LEMMA DeleteObjectInv ==
    ASSUME Inv, NEW c \in Clients, DeleteObject(c)
    PROVE  Inv'
  <1>1. PICK v \in AnyId :
           /\ v \in Uuids => v \notin used
           /\ req' = [req EXCEPT ![c] = [NoRequest EXCEPT !.op = "delete", !.vid = v,
                         !.todo = IF v = NullVersion THEN {v} ELSE {}]]
           /\ used' = used \cup ({v} \cap Uuids)
           /\ pc' = [pc EXCEPT ![c] = IF v = Unversioned THEN "lookup" ELSE "marker"]
    BY NewIds DEF DeleteObject, Goto
  <1>2. pc[c] = "idle" /\ UNCHANGED <<ix, files, clock, committed>>
    BY DEF DeleteObject, Start
  <1>3. /\ req' \in [Clients -> Locals] /\ req'[c].vid = v /\ req'[c].body = None
        /\ \A d \in Clients \ {c} : req'[d] = req[d]
    BY <1>1, Constants DEF Inv, Shapes, Locals, NoRequest, AllOps
  <1>4. /\ pc' \in [Clients -> Steps] /\ pc'[c] \in {"lookup", "marker"}
        /\ pc'[c] = "marker" => v # Unversioned
        /\ \A d \in Clients \ {c} : pc'[d] = pc[d]
    BY <1>1 DEF Inv, Shapes, Steps
  <1>5. Shapes' /\ (\A d \in Clients : Fits(d)')
    BY <1>1, <1>2, <1>3, <1>4 DEF Inv, Shapes, Fits
  <1>6. OwnUuid'
    BY <1>1, <1>2, <1>3, <1>4 DEF Inv, Shapes, OwnUuid, Drawn
  <1>7. Bytes'
    BY <1>1, <1>2, <1>3, <1>4 DEF Inv, Shapes, Bytes, Sees
  <1> QED
    BY <1>5, <1>6, <1>7 DEF Inv

LEMMA StampMarkerInv ==
    ASSUME Inv, NEW c \in Clients, StampMarker(c)
    PROVE  Inv'
  <1>1. /\ pc' \in [Clients -> Steps] /\ pc[c] = "marker" /\ pc'[c] = "stamped"
        /\ \A d \in Clients \ {c} : pc'[d] = pc[d]
        /\ UNCHANGED <<ix, used, committed>>
    BY DEF Inv, Shapes, StampMarker, Goto, Steps
  <1>2. clock \in Times /\ clock' \in Nat /\ req' = [req EXCEPT ![c].lm = clock]
    BY Constants DEF Inv, Shapes, StampMarker, Stamp
  <1>3. /\ req' \in [Clients -> Locals]
        /\ req'[c].vid = req[c].vid /\ req'[c].body = req[c].body /\ req'[c].lm \in Times
        /\ \A d \in Clients \ {c} : req'[d] = req[d]
    BY <1>2, Constants DEF Inv, Shapes, Locals
  <1>4. /\ files' \in [AnyId -> Bodies \cup {None}]
        /\ \A v \in AnyId : files'[v] \in {None, files[v]}
    BY DEF Inv, Shapes, StampMarker
  <1>5. Shapes' /\ (\A d \in Clients : Fits(d)') /\ OwnUuid'
    BY <1>1, <1>2, <1>3, <1>4 DEF Inv, Shapes, Fits, OwnUuid, Drawn
  <1>6. Bytes'
    BY <1>1, <1>3, <1>4, Constants DEF Inv, Bytes, Sees
  <1> QED
    BY <1>5, <1>6 DEF Inv

(* The steps of the delete loop, and the start of a version's deletion. *)
LEMMA DeleteStepsInv ==
    ASSUME Inv, NEW c \in Clients,
           \/ \E v \in VersionIds : DeleteVersion(c, v)
           \/ LookUp(c) \/ ListVersions(c) \/ RemoveFile(c)
    PROVE  Inv'
  <1>1. ASSUME NEW v \in VersionIds, DeleteVersion(c, v) PROVE Inv'
    <2>1. pc'[c] = "remove" /\ pc' = [pc EXCEPT ![c] = pc'[c]]
      BY <1>1 DEF Inv, Shapes, DeleteVersion, Goto
    <2>2. req'[c] \in Locals /\ req' = [req EXCEPT ![c] = req'[c]]
      <3> DEFINE new == [NoRequest EXCEPT !.op = "delete", !.vid = v, !.todo = {v}]
      <3>1. new \in Locals
        BY Constants DEF Locals, NoRequest, AllOps
      <3>2. req' = [req EXCEPT ![c] = new]
        BY <1>1 DEF DeleteVersion
      <3> HIDE DEF new
      <3> QED
        BY <3>1, <3>2 DEF Inv, Shapes
    <2>3. /\ files' \in [AnyId -> Bodies \cup {None}]
          /\ \A u \in AnyId : files'[u] \in {None, files[u]}
          /\ UNCHANGED <<ix, used, clock, committed>>
      BY <1>1 DEF Inv, Shapes, DeleteVersion
    <2> QED
      BY <2>1, <2>2, <2>3, PassiveInv
  <1>2. CASE LookUp(c)
    <2>1. CASE Return(c)
      BY <1>2, <2>1, ReturnInv DEF LookUp
    <2>2. CASE ix.ptr # None /\ req' = [req EXCEPT ![c].todo = {ix.ptr.vid}] /\ Goto(c, "list")
      <3>1. pc'[c] = "list" /\ pc' = [pc EXCEPT ![c] = pc'[c]]
        BY <2>2 DEF Inv, Shapes, Goto
      <3>2. ix.ptr.vid \in AnyId
        BY <2>2 DEF Inv, Shapes, Indexes, Infos, AnyId
      <3>3. req'[c] \in Locals /\ req' = [req EXCEPT ![c] = req'[c]]
        BY <2>2, <3>2 DEF Inv, Shapes, Locals
      <3>4. /\ files' \in [AnyId -> Bodies \cup {None}]
            /\ \A u \in AnyId : files'[u] \in {None, files[u]}
            /\ UNCHANGED <<ix, used, clock, committed>>
        BY <1>2 DEF Inv, Shapes, LookUp
      <3> QED
        BY <3>1, <3>3, <3>4, PassiveInv
    <2> QED
      BY <1>2, <2>1, <2>2 DEF LookUp
  <1>3. CASE ListVersions(c)
    <2>1. pc'[c] = "remove" /\ pc' = [pc EXCEPT ![c] = pc'[c]]
      BY <1>3 DEF Inv, Shapes, ListVersions, Goto
    <2>2. {i.vid : i \in GetObjectVersions(ix)} \subseteq AnyId
      <3>1. ix.ptr \in Infos \cup {None} /\ ix.rec \in [VersionIds -> Infos \cup {None}]
        BY DEF Inv, Shapes, Indexes
      <3>2. Records(ix.rec) \subseteq Infos
        BY <3>1 DEF Records
      <3>3. GetObjectVersions(ix) \subseteq Infos
        BY <3>1, <3>2 DEF GetObjectVersions
      <3> QED
        BY <3>3 DEF Infos, AnyId
    <2>3. req'[c] \in Locals /\ req' = [req EXCEPT ![c] = req'[c]]
      <3>1. CASE req' = [req EXCEPT ![c].todo = {i.vid : i \in GetObjectVersions(ix)}]
        BY <3>1, <2>2 DEF Inv, Shapes, Locals
      <3>2. CASE UNCHANGED req
        BY <3>2 DEF Inv, Shapes
      <3> QED
        BY <1>3, <3>1, <3>2 DEF ListVersions
    <2>4. /\ files' \in [AnyId -> Bodies \cup {None}]
          /\ \A u \in AnyId : files'[u] \in {None, files[u]}
          /\ UNCHANGED <<ix, used, clock, committed>>
      BY <1>3 DEF Inv, Shapes, ListVersions
    <2> QED
      BY <2>1, <2>3, <2>4, PassiveInv
  <1>4. CASE RemoveFile(c)
    <2>1. pc'[c] = "remove" /\ pc' = [pc EXCEPT ![c] = pc'[c]]
      BY <1>4 DEF Inv, Shapes, RemoveFile
    <2>2. PICK v \in req[c].todo : /\ files' = [files EXCEPT ![v] = None]
                                   /\ req' = [req EXCEPT ![c].todo = @ \ {v}]
      BY <1>4 DEF RemoveFile
    <2>3. req'[c] \in Locals /\ req' = [req EXCEPT ![c] = req'[c]]
      BY <2>2 DEF Inv, Shapes, Locals
    <2>4. /\ files' \in [AnyId -> Bodies \cup {None}]
          /\ \A u \in AnyId : files'[u] \in {None, files[u]}
          /\ UNCHANGED <<ix, used, clock, committed>>
      BY <1>4, <2>2 DEF Inv, Shapes, RemoveFile
    <2> QED
      BY <2>1, <2>3, <2>4, PassiveInv
  <1> QED
    BY <1>1, <1>2, <1>3, <1>4

LEMMA CrashInv ==
    ASSUME Inv, Crash
    PROVE  Inv'
  <1>1. /\ pc' = [c \in Clients |-> "idle"] /\ req' = [c \in Clients |-> NoRequest]
        /\ UNCHANGED <<ix, used, files, clock, committed>>
    BY DEF Crash
  <1>2. Shapes'
    BY <1>1, Constants DEF Inv, Shapes, Steps
  <1> QED
    BY <1>1, <1>2 DEF Inv, Fits, OwnUuid, Drawn, Bytes, Sees

LEMMA NextInv == Inv /\ [Next]_vars => Inv'
  <1> SUFFICES ASSUME Inv, [Next]_vars PROVE Inv'
    OBVIOUS
  <1>1. ASSUME NEW c \in Clients, Request(c) PROVE Inv'
    <2>1. ASSUME NEW op \in Ops, NEW body \in Bodies, PutObject(c, op, body) PROVE Inv'
      BY <2>1, StageInv, ObjectStoreAssumption DEF PutObject, Start, Drawn
    <2> QED
      BY <1>1, <2>1, GetInv, DeleteStepsInv, DeleteObjectInv DEF Request
  <1>2. ASSUME NEW c \in Clients, Progress(c) \/ StageFails(c) PROVE Inv'
    <2>1. CASE CommitMeta(c) \/ CommitMarker(c)
      BY <2>1, PublishInv DEF CommitMeta, CommitMarker
    <2>2. CASE CommitFails(c) \/ SendBody(c) \/ DeleteFails(c) \/ StageFails(c)
      BY <2>2, ReturnInv DEF CommitFails, SendBody, DeleteFails, StageFails
    <2>3. CASE CopyObject(c)
      <3>1. PICK body \in req[c].todo : Stage(c, "put", body)
        BY <2>3 DEF CopyObject
      <3>2. body \in Bodies /\ ~Drawn(c) /\ "put" \in AllOps
        BY <2>3 DEF CopyObject, Inv, Fits, Drawn, AllOps
      <3> QED
        BY <3>1, <3>2, StageInv
    <2> QED
      BY <1>2, <2>1, <2>2, <2>3, LockInv, RenameInv, OpenInv, StampMarkerInv, DeleteStepsInv,
         CommitDeleteInv DEF Progress
  <1>3. ASSUME UNCHANGED <<ix, used, files, clock, pc, req, committed>> PROVE Inv'
    BY <1>3 DEF Inv, Shapes, Fits, OwnUuid, Drawn, Bytes, Sees
  <1>4. ASSUME NEW status \in Statuses, SetBucketVersioning(status) PROVE Inv'
    BY <1>3, <1>4 DEF SetBucketVersioning
  <1>5. CASE Idle \/ UNCHANGED vars
    BY <1>3, <1>5 DEF Idle, vars
  <1> QED
    BY <1>1, <1>2, <1>4, <1>5, CrashInv DEF Next

LEMMA Invariance == Spec => []Inv
  BY InitInv, NextInv, PTL DEF Spec

(* A read of a uuid version never pairs one version's ETag with another's  *)
(* bytes, although GetObject looks up and opens without any lock.          *)
THEOREM VersionReads == Spec => []VersionReadsConsistent
  <1>1. Inv => VersionReadsConsistent
    BY DEF Inv, Bytes, Sees, VersionReadsConsistent, ReadMatches
  <1> QED
    BY <1>1, Invariance, PTL

(* The instance's transactions are the ones used here. *)
LEMMA SameTransactions ==
    /\ Metadata!EmptyIndex = EmptyIndex
    /\ \A x, i : Metadata!PutObjectMeta(x, i) = PutObjectMeta(x, i)
    /\ \A x, v : Metadata!DeleteObjectMeta(x, v) = DeleteObjectMeta(x, v)
  <1>1. Metadata!EmptyIndex = EmptyIndex
    BY DEF Metadata!EmptyIndex, Metadata!NoRecords, Metadata!VersionIds, Metadata!NullVersion,
           EmptyIndex, NoRecords, VersionIds, NullVersion
  <1>2. ASSUME NEW x, NEW i PROVE Metadata!PutObjectMeta(x, i) = PutObjectMeta(x, i)
    BY DEF Metadata!PutObjectMeta, Metadata!Demote, Metadata!NoRecords, Metadata!VersionIds,
           Metadata!NullVersion, Metadata!Unversioned,
           PutObjectMeta, Demote, NoRecords, VersionIds, NullVersion, Unversioned
  <1>3. ASSUME NEW x, NEW v PROVE Metadata!DeleteObjectMeta(x, v) = DeleteObjectMeta(x, v)
    BY <1>1 DEF Metadata!DeleteObjectMeta, Metadata!DeleteVersionMeta, Metadata!Records,
           Metadata!Promote, Metadata!FindNextNewestVersion, Metadata!VersionIds,
           Metadata!NullVersion, Metadata!Unversioned,
           DeleteObjectMeta, DeleteVersionMeta, Records, Promote, FindNextNewestVersion,
           VersionIds, NullVersion, Unversioned
  <1> QED
    BY <1>1, <1>2, <1>3

(* Whatever requests race on the key, fail or die, its metadata goes       *)
(* through a behaviour of MetaStore.                                       *)
THEOREM MetadataRefinement == Spec => ImplementsMetaStore
  <1>1. Init => Metadata!Init
    BY SameTransactions DEF Init, Metadata!Init
  <1>2. Inv /\ [Next]_vars => [Metadata!Next]_(Metadata!vars)
    <2> SUFFICES ASSUME Inv, [Next]_vars PROVE [Metadata!Next]_(Metadata!vars)
      OBVIOUS
    <2>1. ASSUME NEW c \in Clients, CommitMeta(c) \/ CommitMarker(c) PROVE Metadata!Next
      <3> DEFINE w == req[c].vid
                 e == req[c].body
                 t == req[c].lm
      <3>1. /\ w \in AnyId /\ t \in Times /\ e \in Bodies \cup {None}
            /\ w = Unversioned => e # None
            /\ w \in Uuids => w \notin committed
        BY <2>1, VersionIndexAssumption
           DEF CommitMeta, CommitMarker, Inv, Shapes, Locals, Fits, OwnUuid, Drawn
      <3>2. /\ ix' = PutObjectMeta(ix, [vid |-> w, lm |-> t, etag |-> e, latest |-> FALSE])
            /\ committed' = committed \cup ({w} \cap Uuids)
        BY <2>1 DEF CommitMeta, CommitMarker, Publish, InfoOf
      <3> HIDE DEF w, e, t
      <3>3. Metadata!Put(w, t, e)
        BY <3>1, <3>2, SameTransactions
           DEF Metadata!Put, Metadata!Uuids, Metadata!Unversioned, Uuids, Unversioned
      <3> QED
        BY <3>1, <3>3 DEF Metadata!Next, Metadata!VersionIds, Metadata!NullVersion,
                          Metadata!Unversioned, AnyId, VersionIds, NullVersion, Unversioned
    <2>2. ASSUME NEW c \in Clients, CommitDelete(c) PROVE Metadata!Next
      <3>1. Metadata!Delete(req[c].vid) /\ req[c].vid \in AnyId
        BY <2>2, SameTransactions DEF CommitDelete, Metadata!Delete, Inv, Shapes, Locals
      <3> QED
        BY <3>1 DEF Metadata!Next, Metadata!VersionIds, Metadata!NullVersion,
                    Metadata!Unversioned, AnyId, VersionIds, NullVersion, Unversioned
    <2>3. ASSUME UNCHANGED <<ix, committed>> PROVE UNCHANGED Metadata!vars
      BY <2>3 DEF Metadata!vars
    <2>4. ASSUME NEW c \in Clients, Request(c) PROVE UNCHANGED <<ix, committed>>
      BY <2>4 DEF Request, PutObject, Stage, GetObject, DeleteVersion, DeleteObject
    <2>5. ASSUME NEW c \in Clients, Progress(c) \/ StageFails(c),
                 ~CommitMeta(c), ~CommitMarker(c), ~CommitDelete(c)
          PROVE  UNCHANGED <<ix, committed>>
      BY <2>5 DEF Progress, StageFails, LockObjectKey, Rename, CommitFails, OpenFile, SendBody,
                  CopyObject, Stage, StampMarker, LookUp, ListVersions, RemoveFile, DeleteFails
    <2>6. ASSUME \/ \E status \in Statuses : SetBucketVersioning(status)
                 \/ Crash \/ Idle \/ UNCHANGED vars
          PROVE  UNCHANGED <<ix, committed>>
      BY <2>6 DEF SetBucketVersioning, Crash, Idle, vars
    <2> QED
      BY <2>1, <2>2, <2>3, <2>4, <2>5, <2>6 DEF Next
  <1> QED
    BY <1>1, <1>2, Invariance, PTL DEF Spec, ImplementsMetaStore, Metadata!Spec

-----------------------------------------------------------------------------
(***************************************************************************)
(* In a bucket that is "Enabled" or "Suspended" throughout, stored uuid    *)
(* versions are durable.                                                   *)
(***************************************************************************)
(* No request works on the key as on one of an unversioned bucket. *)
Versioned ==
    /\ versioning \in {"Enabled", "Suspended"}
    /\ \A c \in Clients : /\ pc[c] \notin {"lookup", "list"}
                          /\ Drawn(c) => req[c].vid # Unversioned

(* The only files to be removed are the null version's and those of        *)
(* stored versions whose deletion was asked for.                           *)
RemovesWanted ==
    \A c \in Clients :
        /\ pc[c] = "marker" => req[c].todo \subseteq {NullVersion}
        /\ pc[c] = "remove" => /\ req[c].vid \in VersionIds /\ req[c].todo \subseteq {req[c].vid}
                               /\ req[c].vid \in unwanted
                               /\ req[c].vid \in committed \cup {NullVersion}

(* So a uuid's file is there when its metadata is about to be stored. *)
Landed == \A c \in Clients : pc[c] = "renamed" /\ req[c].vid \in Uuids
                                => files[req[c].vid] = req[c].body

DurableInv == Versioned /\ RemovesWanted /\ Landed /\ DurableVersions

(* Steps that store nothing and remove nothing. *)
LEMMA DurableFrame ==
    ASSUME Inv, DurableInv, NEW c \in Clients,
           pc' = [pc EXCEPT ![c] = pc'[c]],
           req' = [req EXCEPT ![c] = req'[c]],
           pc'[c] \in {"idle", "head", "opened", "staged", "locked"},
           pc'[c] \in {"staged", "locked"} => req'[c].vid # Unversioned,
           UNCHANGED <<versioning, ix, files, committed, unwanted>>
    PROVE  DurableInv'
  <1>1. \A d \in Clients \ {c} : pc'[d] = pc[d] /\ req'[d] = req[d]
    BY DEF Inv, Shapes
  <1> QED
    BY <1>1 DEF DurableInv, Versioned, Drawn, RemovesWanted, Landed, DurableVersions

LEMMA DurableReturn ==
    ASSUME Inv, DurableInv, NEW c \in Clients, Return(c),
           UNCHANGED <<versioning, ix, files, committed, unwanted>>
    PROVE  DurableInv'
  <1>1. /\ pc' = [pc EXCEPT ![c] = pc'[c]] /\ req' = [req EXCEPT ![c] = req'[c]] /\ pc'[c] = "idle"
    BY DEF Inv, Shapes, Return, Goto
  <1> QED
    BY <1>1, DurableFrame

(* Without failing reads a write under these statuses has a version id. *)
LEMMA VersionedIds ==
    ASSUME DurableInv, ~Faults, NEW status \in VersioningRead, NEW v \in NewVersionIds(status)
    PROVE  v # Unversioned
  <1>1. status \in {"Enabled", "Suspended"}
    BY DEF DurableInv, Versioned, VersioningRead
  <1> QED
    BY <1>1, Ids DEF NewVersionIds

LEMMA DurableStage ==
    ASSUME Inv, DurableInv, ~Faults, NEW c \in Clients, NEW op, NEW body, Stage(c, op, body)
    PROVE  DurableInv'
  <1>1. PICK status \in VersioningRead : \E v \in NewVersionIds(status) :
           req' = [req EXCEPT ![c] = [NoRequest EXCEPT !.op = op, !.vid = v, !.body = body]]
    BY DEF Stage
  <1>2. PICK v \in NewVersionIds(status) :
           req' = [req EXCEPT ![c] = [NoRequest EXCEPT !.op = op, !.vid = v, !.body = body]]
    BY <1>1
  <1>3. v # Unversioned
    BY VersionedIds
  <1>4. req'[c].vid = v /\ req' = [req EXCEPT ![c] = req'[c]]
    BY <1>2 DEF Inv, Shapes, NoRequest
  <1>5. /\ pc'[c] = "staged" /\ pc' = [pc EXCEPT ![c] = pc'[c]]
        /\ UNCHANGED <<versioning, ix, files, committed, unwanted>>
    BY DEF Inv, Shapes, Stage, Goto
  <1> QED
    BY <1>3, <1>4, <1>5, DurableFrame

LEMMA DurableRename ==
    ASSUME Inv, DurableInv, NEW c \in Clients, Rename(c)
    PROVE  DurableInv'
  <1> DEFINE w == req[c].vid
  <1>1. /\ pc[c] \in {"staged", "locked"} /\ pc'[c] = "renamed"
        /\ \A d \in Clients \ {c} : pc'[d] = pc[d] /\ req'[d] = req[d]
        /\ req'[c].vid = w /\ req'[c].body = req[c].body
        /\ UNCHANGED <<versioning, ix, committed, unwanted>>
    BY DEF Inv, Shapes, Locals, Rename, Stamp, Goto
  <1>2. w \in AnyId /\ files'[w] = req[c].body /\ \A v \in AnyId \ {w} : files'[v] = files[v]
    BY DEF Inv, Shapes, Locals, Rename
  <1>3. w \in Uuids => w \notin committed /\ \A d \in Clients \ {c} : Drawn(d) => req[d].vid # w
    BY <1>1 DEF Inv, OwnUuid, Drawn
  <1>4. Versioned' /\ RemovesWanted'
    BY <1>1 DEF DurableInv, Versioned, RemovesWanted, Drawn
  <1>5. Landed'
    BY <1>1, <1>2, <1>3, Constants DEF DurableInv, Landed, Drawn
  <1>6. DurableVersions'
    BY <1>1, <1>2, <1>3, Constants DEF Inv, Shapes, DurableInv, DurableVersions
  <1> QED
    BY <1>4, <1>5, <1>6 DEF DurableInv

LEMMA DurablePublish ==
    ASSUME Inv, DurableInv, NEW c \in Clients, pc[c] \in {"renamed", "stamped"},
           Publish(c), Return(c), UNCHANGED <<versioning, files, unwanted>>
    PROVE  DurableInv'
  <1> DEFINE info == InfoOf(c)
             w    == req[c].vid
  <1>1. /\ info \in Infos /\ info.vid = w /\ info.etag = req[c].body /\ w \in VersionIds
    <2>1. w \in AnyId /\ req[c].lm \in Nat /\ req[c].body \in Bodies \cup {None}
      BY DEF Inv, Shapes, Locals
    <2>2. w # Unversioned
      BY DEF DurableInv, Versioned, Drawn
    <2> QED
      BY <2>1, <2>2 DEF InfoOf, Infos, IsDeleteMarker, AnyId
  <1>2. ix \in Indexes /\ Coherent(ix) /\ ix' = PutObjectMeta(ix, info)
    BY DEF Inv, Shapes, Publish
  <1>3. committed' = committed \cup ({w} \cap Uuids)
    BY DEF Publish
  <1> HIDE DEF info
  <1>4. /\ pc'[c] = "idle"
        /\ \A d \in Clients \ {c} : pc'[d] = pc[d] /\ req'[d] = req[d]
    BY DEF Inv, Shapes, Return, Goto
  <1>5. Versioned' /\ RemovesWanted' /\ Landed'
    BY <1>3, <1>4 DEF DurableInv, Versioned, RemovesWanted, Landed, Drawn
  <1>6. ASSUME NEW v \in committed \ unwanted, v # w
        PROVE  ix'.rec[v] # None /\ (~IsDeleteMarker(ix'.rec[v]) => files'[v] = ix'.rec[v].etag)
    <2>1. v \in VersionIds
      BY Ids DEF Inv, Shapes
    <2>2. ix'.rec[v] # None /\ ix.rec[v] # None
      BY <1>1, <1>2, <1>6, <2>1, PutKeeps DEF DurableInv, DurableVersions
    <2>3. SameVersion(ix.rec[v], ix'.rec[v])
      BY <1>1, <1>2, <1>6, <2>1, <2>2, PutImmutable
    <2> QED
      BY <1>6, <2>2, <2>3 DEF DurableInv, DurableVersions, SameVersion, IsDeleteMarker
  <1>7. ASSUME w \in Uuids
        PROVE  ix'.rec[w] # None /\ (~IsDeleteMarker(ix'.rec[w]) => files'[w] = ix'.rec[w].etag)
    <2>1. SameVersion(info, ix'.rec[w]) /\ ix'.rec[w] # None
      BY <1>1, <1>2, PutStores
    <2>2. ix'.rec[w].etag = req[c].body
      BY <1>1, <2>1 DEF SameVersion
    <2>3. pc[c] = "stamped" => req[c].body = None
      BY DEF Inv, Fits
    <2>4. pc[c] = "renamed" => files[w] = req[c].body
      BY <1>7 DEF DurableInv, Landed
    <2> QED
      BY <2>1, <2>2, <2>3, <2>4 DEF IsDeleteMarker
  <1>8. DurableVersions'
    <2> SUFFICES ASSUME NEW v \in committed' \ unwanted'
                 PROVE  ix'.rec[v] # None /\ (ix'.rec[v].etag # None => files'[v] = ix'.rec[v].etag)
      BY DEF DurableVersions, IsDeleteMarker
    <2>1. CASE v = w
      <3>1. w \in Uuids
        BY <1>3, <2>1 DEF Inv, Shapes
      <3> QED
        BY <1>7, <2>1, <3>1 DEF IsDeleteMarker
    <2>2. CASE v # w
      <3>1. v \in committed \ unwanted
        BY <1>3, <2>2
      <3> QED
        BY <1>6, <2>2, <3>1 DEF IsDeleteMarker
    <2> QED
      BY <2>1, <2>2
  <1> QED
    BY <1>5, <1>8 DEF DurableInv

(* Starting a deletion: a marker with a version id, or a stored version. *)
LEMMA DurableDelete ==
    ASSUME Inv, DurableInv, ~Faults, NEW c \in Clients,
           DeleteObject(c) \/ \E v \in VersionIds : DeleteVersion(c, v)
    PROVE  DurableInv'
  <1>1. ASSUME NEW v \in VersionIds, DeleteVersion(c, v) PROVE DurableInv'
    <2>1. /\ pc'[c] = "remove" /\ req'[c].vid = v /\ req'[c].todo = {v}
          /\ \A d \in Clients \ {c} : pc'[d] = pc[d] /\ req'[d] = req[d]
          /\ v \in committed \cup {NullVersion} /\ unwanted' = unwanted \cup {v}
          /\ UNCHANGED <<versioning, ix, files, committed>>
      BY <1>1 DEF Inv, Shapes, NoRequest, DeleteVersion, Goto
    <2> QED
      BY <2>1 DEF DurableInv, Versioned, RemovesWanted, Landed, DurableVersions, Drawn
  <1>2. CASE DeleteObject(c)
    <2>1. PICK status \in VersioningRead : \E v \in NewVersionIds(status) :
             /\ req' = [req EXCEPT ![c] = [NoRequest EXCEPT !.op = "delete", !.vid = v,
                            !.todo = IF v = NullVersion THEN {v} ELSE {}]]
             /\ Goto(c, IF v = Unversioned THEN "lookup" ELSE "marker")
      BY <1>2 DEF DeleteObject
    <2>2. PICK v \in NewVersionIds(status) :
             /\ req' = [req EXCEPT ![c] = [NoRequest EXCEPT !.op = "delete", !.vid = v,
                            !.todo = IF v = NullVersion THEN {v} ELSE {}]]
             /\ Goto(c, IF v = Unversioned THEN "lookup" ELSE "marker")
      BY <2>1
    <2>3. v # Unversioned
      BY VersionedIds
    <2>4. /\ pc'[c] = "marker" /\ req'[c].vid = v /\ req'[c].todo \subseteq {NullVersion}
          /\ \A d \in Clients \ {c} : pc'[d] = pc[d] /\ req'[d] = req[d]
      BY <2>2, <2>3 DEF Inv, Shapes, NoRequest, Goto
    <2>5. UNCHANGED <<versioning, ix, files, committed, unwanted>>
      BY <1>2 DEF DeleteObject
    <2> QED
      BY <2>3, <2>4, <2>5 DEF DurableInv, Versioned, RemovesWanted, Landed, DurableVersions, Drawn
  <1> QED
    BY <1>1, <1>2

(* Files go: the null version's, or one of a version being deleted. *)
LEMMA DurableRemove ==
    ASSUME Inv, DurableInv, NEW c \in Clients, StampMarker(c) \/ RemoveFile(c)
    PROVE  DurableInv'
  <1>1. /\ pc'[c] \in {"stamped", "remove"} /\ (pc'[c] = "remove" <=> pc[c] = "remove")
        /\ Drawn(c)' => Drawn(c)
        /\ \A d \in Clients \ {c} : pc'[d] = pc[d] /\ req'[d] = req[d]
        /\ req'[c].vid = req[c].vid /\ req'[c].todo \subseteq req[c].todo
        /\ UNCHANGED <<versioning, ix, committed, unwanted>>
    BY DEF Inv, Shapes, Locals, StampMarker, RemoveFile, Stamp, Goto, Drawn
  <1>2. \A v \in AnyId : files'[v] # files[v] => v \in req[c].todo
    BY DEF Inv, Shapes, StampMarker, RemoveFile
  <1>3. \A v \in AnyId : files'[v] # files[v] =>
           v = NullVersion \/ (v \in committed /\ v \in unwanted)
    <2>1. CASE pc[c] = "marker"
      BY <1>2, <2>1 DEF DurableInv, RemovesWanted
    <2>2. CASE pc[c] = "remove"
      BY <1>2, <2>2 DEF DurableInv, RemovesWanted
    <2> QED
      BY <2>1, <2>2 DEF StampMarker, RemoveFile
  <1>4. Versioned' /\ RemovesWanted'
    BY <1>1 DEF DurableInv, Versioned, RemovesWanted, Drawn
  <1>5. Landed'
    <2> SUFFICES ASSUME NEW d \in Clients, pc'[d] = "renamed", req'[d].vid \in Uuids
                 PROVE  files'[req'[d].vid] = req'[d].body
      BY DEF Landed
    <2>1. d # c /\ pc[d] = "renamed" /\ req'[d] = req[d]
      BY <1>1
    <2>2. files[req[d].vid] = req[d].body /\ req[d].vid \notin committed
      BY <2>1 DEF DurableInv, Landed, Inv, OwnUuid, Drawn
    <2> QED
      BY <1>3, <2>1, <2>2, Constants, Ids
  <1>6. DurableVersions'
    <2> SUFFICES ASSUME NEW v \in committed \ unwanted
                 PROVE  ix.rec[v] # None /\ (ix.rec[v].etag # None => files'[v] = ix.rec[v].etag)
      BY <1>1 DEF DurableVersions, IsDeleteMarker
    <2>1. v \in AnyId /\ v # NullVersion
      BY Constants, Ids DEF Inv, Shapes
    <2> QED
      BY <1>3, <2>1 DEF DurableInv, DurableVersions, IsDeleteMarker
  <1> QED
    BY <1>4, <1>5, <1>6 DEF DurableInv

LEMMA DurableCommitDelete ==
    ASSUME Inv, DurableInv, NEW c \in Clients, CommitDelete(c)
    PROVE  DurableInv'
  <1> DEFINE w == req[c].vid
  <1>1. /\ pc'[c] = "idle" /\ UNCHANGED <<versioning, files, committed, unwanted>>
        /\ \A d \in Clients \ {c} : pc'[d] = pc[d] /\ req'[d] = req[d]
    BY DEF Inv, Shapes, CommitDelete, Return, Goto
  <1>2. w \in VersionIds /\ w \in unwanted /\ ix' \in DeleteObjectMeta(ix, w)
    BY DEF DurableInv, RemovesWanted, CommitDelete
  <1>3. Versioned' /\ RemovesWanted' /\ Landed'
    BY <1>1 DEF DurableInv, Versioned, RemovesWanted, Landed, Drawn
  <1>4. ASSUME NEW v \in committed \ unwanted
        PROVE  ix'.rec[v] # None /\ (ix'.rec[v].etag # None => files'[v] = ix'.rec[v].etag)
    <2>1. v \in VersionIds /\ v # w /\ ix \in Indexes /\ Coherent(ix)
      BY <1>2, Ids DEF Inv, Shapes
    <2>2. ix.rec[v] # None /\ (ix.rec[v].etag # None => files[v] = ix.rec[v].etag)
      BY DEF DurableInv, DurableVersions, IsDeleteMarker
    <2>3. ix'.rec[v] # None
      BY <1>2, <2>1, <2>2, DeleteKeeps, Ids DEF DeleteObjectMeta
    <2>4. SameVersion(ix.rec[v], ix'.rec[v])
      BY <1>2, <2>1, <2>2, <2>3, DeleteImmutable
    <2> QED
      BY <1>1, <2>2, <2>3, <2>4 DEF SameVersion
  <1>5. DurableVersions'
    BY <1>1, <1>4 DEF DurableVersions, IsDeleteMarker
  <1> QED
    BY <1>3, <1>5 DEF DurableInv

LEMMA DurableNext ==
    ASSUME Statuses \subseteq {"Enabled", "Suspended"}, ~Faults, Inv, DurableInv, [Next]_vars
    PROVE  DurableInv'
  <1>1. ASSUME NEW c \in Clients, Request(c) PROVE DurableInv'
    <2>1. ASSUME NEW op \in Ops, NEW body \in Bodies, PutObject(c, op, body) PROVE DurableInv'
      BY <2>1, DurableStage DEF PutObject
    <2>2. ASSUME NEW op \in Ops, NEW v \in AnyId, GetObject(c, op, v) PROVE DurableInv'
      <3>1. /\ pc'[c] = "head" /\ pc' = [pc EXCEPT ![c] = pc'[c]]
            /\ req' = [req EXCEPT ![c] = req'[c]]
            /\ UNCHANGED <<versioning, ix, files, committed, unwanted>>
        BY <2>2 DEF Inv, Shapes, GetObject, Goto
      <3> QED
        BY <3>1, DurableFrame
    <2> QED
      BY <1>1, <2>1, <2>2, DurableDelete DEF Request
  <1>2. ASSUME NEW c \in Clients, Progress(c) \/ StageFails(c) PROVE DurableInv'
    <2>1. CASE CommitMeta(c) \/ CommitMarker(c)
      BY <2>1, DurablePublish DEF CommitMeta, CommitMarker
    <2>2. CASE SendBody(c) \/ StageFails(c)
      BY <2>2, DurableReturn DEF SendBody, StageFails
    <2>3. CASE CopyObject(c)
      BY <2>3, DurableStage DEF CopyObject
    <2>4. CASE LockObjectKey(c)
      <3>1. /\ pc[c] = "staged" /\ pc'[c] = "locked" /\ pc' = [pc EXCEPT ![c] = pc'[c]]
            /\ req' = [req EXCEPT ![c] = req'[c]] /\ req' = req
            /\ UNCHANGED <<versioning, ix, files, committed, unwanted>>
        BY <2>4 DEF Inv, Shapes, LockObjectKey, Goto
      <3>2. req[c].vid # Unversioned
        BY <3>1 DEF DurableInv, Versioned, Drawn
      <3> QED
        BY <3>1, <3>2, DurableFrame
    <2>5. CASE OpenFile(c)
      <3>1. /\ pc'[c] \in {"idle", "opened"} /\ pc' = [pc EXCEPT ![c] = pc'[c]]
            /\ req' = [req EXCEPT ![c] = req'[c]]
            /\ UNCHANGED <<versioning, ix, files, committed, unwanted>>
        BY <2>5 DEF Inv, Shapes, OpenFile, Return, Goto
      <3> QED
        BY <3>1, DurableFrame
    <2>6. ~LookUp(c) /\ ~ListVersions(c) /\ ~CommitFails(c) /\ ~DeleteFails(c)
      BY DEF DurableInv, Versioned, LookUp, ListVersions, CommitFails, DeleteFails
    <2> QED
      BY <1>2, <2>1, <2>2, <2>3, <2>4, <2>5, <2>6, DurableRename, DurableRemove,
         DurableCommitDelete DEF Progress
  <1>3. ASSUME NEW status \in Statuses, SetBucketVersioning(status) PROVE DurableInv'
    <2>1. /\ versioning' \in {"Enabled", "Suspended"}
          /\ UNCHANGED <<ix, files, pc, req, committed, unwanted>>
      BY <1>3 DEF SetBucketVersioning
    <2> QED
      BY <2>1 DEF DurableInv, Versioned, RemovesWanted, Landed, DurableVersions, Drawn
  <1>4. CASE Crash
    <2>1. /\ \A c \in Clients : pc'[c] = "idle"
          /\ UNCHANGED <<versioning, ix, files, committed, unwanted>>
      BY <1>4 DEF Crash
    <2> QED
      BY <2>1 DEF DurableInv, Versioned, RemovesWanted, Landed, DurableVersions, Drawn
  <1>5. CASE Idle \/ UNCHANGED vars
    BY <1>5 DEF Idle, vars, DurableInv, Versioned, RemovesWanted, Landed, DurableVersions, Drawn
  <1> QED
    BY <1>1, <1>2, <1>3, <1>4, <1>5 DEF Next

(* What a versioned bucket promises: in a bucket whose status moves        *)
(* between "Enabled" and "Suspended", and whose status reads do not fail   *)
(* (GetBucketVersioning, a failed read of which counts as unversioned), a  *)
(* version or delete marker stored under a uuid stays, with its bytes,     *)
(* until its own deletion is asked for, for any number of requests,        *)
(* versions and crashes.                                                   *)
THEOREM VersionsDurable ==
    Statuses \subseteq {"Enabled", "Suspended"} /\ ~Faults => (Spec => []DurableVersions)
  <1> SUFFICES ASSUME Statuses \subseteq {"Enabled", "Suspended"}, ~Faults
               PROVE  Spec => []DurableVersions
    OBVIOUS
  <1>1. Init => DurableInv
    BY DEF Init, DurableInv, Versioned, RemovesWanted, Landed, DurableVersions, Drawn
  <1>2. Inv /\ DurableInv /\ [Next]_vars => DurableInv'
    BY DurableNext
  <1>3. DurableInv => DurableVersions
    BY DEF DurableInv
  <1> QED
    BY <1>1, <1>2, <1>3, Invariance, PTL DEF Spec

-----------------------------------------------------------------------------
(***************************************************************************)
(* Racing PutObject, CopyObject and GetObject leave bytes and metadata of  *)
(* one write, if none of them dies or fails between the two.               *)
(***************************************************************************)
WritesOnly == Ops \subseteq {"put", "copy", "get"} /\ ~Faults /\ MaxCrashes = 0

(* A write that touches the file or the metadata has the key lock. *)
UnderLock ==
    /\ crashes = 0
    /\ \A c \in Clients :
          /\ pc[c] \in {"idle", "staged", "locked", "renamed", "head", "opened"}
          /\ pc[c] = "staged" => req[c].op = "put"
          /\ pc[c] \in {"locked", "renamed"} => lock = c

(* The file of a version is the one its metadata, or the write about to    *)
(* store that metadata, was computed from.                                 *)
Paired ==
    /\ \A c \in Clients : pc[c] = "renamed" => files[req[c].vid] = req[c].body
    /\ \A i \in GetObjectVersions(ix) :
          i.etag # None /\ (\A c \in Clients : pc[c] = "renamed" => req[c].vid # i.vid)
             => files[i.vid] = i.etag

WritesInv == UnderLock /\ Paired

(* Steps of a request that is not between rename and commit. *)
LEMMA WritesFrame ==
    ASSUME Inv, WritesInv, NEW c \in Clients,
           pc' = [pc EXCEPT ![c] = pc'[c]],
           req' = [req EXCEPT ![c] = req'[c]],
           pc[c] # "renamed",
           pc'[c] \in {"idle", "staged", "locked", "head", "opened"},
           pc'[c] = "staged" => req'[c].op = "put",
           pc'[c] = "locked" => lock' = c,
           \A d \in Clients \ {c} : lock = d => lock' = d,
           UNCHANGED <<ix, files, crashes>>
    PROVE  WritesInv'
  <1>1. \A d \in Clients \ {c} : pc'[d] = pc[d] /\ req'[d] = req[d]
    BY DEF Inv, Shapes
  <1>2. UnderLock'
    BY <1>1 DEF WritesInv, UnderLock
  <1>3. Paired'
    BY <1>1 DEF WritesInv, Paired, GetObjectVersions, Records
  <1> QED
    BY <1>2, <1>3 DEF WritesInv

LEMMA WritesStage ==
    ASSUME Inv, WritesInv, NEW c \in Clients, pc[c] # "renamed", NEW body, Stage(c, "put", body)
    PROVE  WritesInv'
  <1>1. /\ pc'[c] = "staged" /\ pc' = [pc EXCEPT ![c] = pc'[c]]
        /\ UNCHANGED <<ix, files, lock, crashes>>
    BY DEF Inv, Shapes, Stage, Goto
  <1>2. req'[c].op = "put" /\ req' = [req EXCEPT ![c] = req'[c]]
    BY DEF Inv, Shapes, Stage, NoRequest
  <1> QED
    BY <1>1, <1>2, WritesFrame

LEMMA WritesRename ==
    ASSUME Inv, WritesInv, NEW c \in Clients, Rename(c)
    PROVE  WritesInv'
  <1> DEFINE w == req[c].vid
  <1>1. /\ pc[c] = "locked" /\ lock = c
        /\ \A d \in Clients \ {c} : pc[d] # "renamed" /\ pc[d] # "locked"
    BY DEF WritesInv, UnderLock, Rename
  <1>2. /\ pc'[c] = "renamed" /\ req'[c].vid = w /\ req'[c].body = req[c].body
        /\ \A d \in Clients \ {c} : pc'[d] = pc[d] /\ req'[d] = req[d]
        /\ UNCHANGED <<ix, lock, crashes>>
    BY DEF Inv, Shapes, Locals, Rename, Stamp, Goto
  <1>3. w \in AnyId /\ files'[w] = req[c].body /\ \A v \in AnyId \ {w} : files'[v] = files[v]
    BY DEF Inv, Shapes, Locals, Rename
  <1>4. UnderLock'
    BY <1>1, <1>2 DEF WritesInv, UnderLock
  <1>5. ASSUME NEW i \in GetObjectVersions(ix'), i.etag # None,
               \A d \in Clients : pc'[d] = "renamed" => req'[d].vid # i.vid
        PROVE  files'[i.vid] = i.etag
    <2>1. i.vid # w
      BY <1>2, <1>5
    <2>2. i \in GetObjectVersions(ix) /\ i.vid \in AnyId
      <3>1. ix.ptr \in Infos \cup {None} /\ ix.rec \in [VersionIds -> Infos \cup {None}]
        BY DEF Inv, Shapes, Indexes
      <3>2. i \in Infos /\ i \in GetObjectVersions(ix)
        BY <1>2, <1>5, <3>1 DEF GetObjectVersions, Records
      <3> QED
        BY <3>2 DEF Infos, AnyId
    <2>3. files[i.vid] = i.etag
      BY <1>1, <1>5, <2>2 DEF WritesInv, Paired
    <2> QED
      BY <1>3, <2>1, <2>2, <2>3
  <1>6. \A d \in Clients : pc'[d] = "renamed" => files'[req'[d].vid] = req'[d].body
    BY <1>1, <1>2, <1>3
  <1>7. Paired'
    BY <1>5, <1>6 DEF Paired
  <1> QED
    BY <1>4, <1>7 DEF WritesInv

LEMMA WritesCommit ==
    ASSUME Inv, WritesInv, NEW c \in Clients, CommitMeta(c)
    PROVE  WritesInv'
  <1> DEFINE info == InfoOf(c)
             w    == req[c].vid
  <1>1. /\ pc[c] = "renamed" /\ lock = c
        /\ \A d \in Clients \ {c} : pc[d] # "renamed" /\ pc[d] # "locked"
    BY DEF WritesInv, UnderLock, CommitMeta
  <1>2. info \in Infos /\ info.vid = w /\ info.etag = req[c].body
    <2>1. w \in AnyId /\ req[c].lm \in Nat /\ req[c].body \in Bodies
      BY <1>1 DEF Inv, Shapes, Locals, Fits
    <2> QED
      BY <2>1, VersionIndexAssumption DEF InfoOf, Infos, IsDeleteMarker, AnyId
  <1>3. ix \in Indexes /\ Coherent(ix) /\ ix' = PutObjectMeta(ix, info)
    BY DEF Inv, Shapes, CommitMeta, Publish
  <1> HIDE DEF info
  <1>4. /\ pc'[c] = "idle" /\ UNCHANGED <<files, crashes>>
        /\ \A d \in Clients \ {c} : pc'[d] = pc[d] /\ req'[d] = req[d]
    BY DEF Inv, Shapes, CommitMeta, Return, Goto
  <1>5. UnderLock'
    BY <1>1, <1>4 DEF WritesInv, UnderLock
  <1>6. ASSUME NEW i \in GetObjectVersions(ix'), i.etag # None PROVE files'[i.vid] = i.etag
    <2>1. CASE SameVersion(i, info)
      BY <1>1, <1>2, <1>4, <2>1 DEF WritesInv, Paired, SameVersion
    <2>2. ASSUME i.vid # w, NEW j \in GetObjectVersions(ix), SameVersion(i, j)
          PROVE  files'[i.vid] = i.etag
      <3>1. j.etag # None /\ j.vid # w /\ j.vid = i.vid /\ j.etag = i.etag
        BY <1>6, <2>2 DEF SameVersion
      <3>2. files[j.vid] = j.etag
        BY <1>1, <3>1 DEF WritesInv, Paired
      <3> QED
        BY <1>4, <3>1, <3>2
    <2> QED
      BY <1>2, <1>3, <1>6, <2>1, <2>2, PutLists
  <1>7. Paired'
    BY <1>1, <1>4, <1>6 DEF Paired
  <1> QED
    BY <1>5, <1>7 DEF WritesInv

LEMMA WritesNext ==
    ASSUME WritesOnly, Inv, WritesInv, [Next]_vars
    PROVE  WritesInv'
  <1>1. ASSUME NEW c \in Clients, Request(c) PROVE WritesInv'
    <2>1. ASSUME NEW op \in Ops, NEW body \in Bodies, PutObject(c, op, body) PROVE WritesInv'
      <3>1. op = "put" /\ pc[c] = "idle" /\ Stage(c, "put", body)
        BY <2>1 DEF WritesOnly, PutObject, Start
      <3> QED
        BY <3>1, WritesStage
    <2>2. ASSUME NEW op \in Ops, NEW v \in AnyId, GetObject(c, op, v) PROVE WritesInv'
      <3>1. /\ pc[c] = "idle" /\ pc'[c] = "head" /\ pc' = [pc EXCEPT ![c] = pc'[c]]
            /\ req' = [req EXCEPT ![c] = req'[c]]
            /\ UNCHANGED <<ix, files, lock, crashes>>
        BY <2>2 DEF Inv, Shapes, GetObject, Start, Goto
      <3> QED
        BY <3>1, WritesFrame
    <2>3. ~DeleteObject(c) /\ \A v \in VersionIds : ~DeleteVersion(c, v)
      BY DEF WritesOnly, DeleteObject, DeleteVersion, Start
    <2> QED
      BY <1>1, <2>1, <2>2, <2>3 DEF Request
  <1>2. ASSUME NEW c \in Clients, Progress(c) \/ StageFails(c) PROVE WritesInv'
    <2>1. CASE SendBody(c) \/ StageFails(c) \/ OpenFile(c)
      <3>1. /\ pc[c] # "renamed" /\ pc'[c] \in {"idle", "opened"} /\ pc' = [pc EXCEPT ![c] = pc'[c]]
            /\ req' = [req EXCEPT ![c] = req'[c]]
            /\ UNCHANGED <<ix, files, crashes>>
        BY <2>1 DEF Inv, Shapes, SendBody, StageFails, OpenFile, Return, Goto
      <3>2. \A d \in Clients \ {c} : lock = d => lock' = d
        BY <2>1 DEF SendBody, StageFails, OpenFile, Unlock
      <3> QED
        BY <3>1, <3>2, WritesFrame
    <2>2. CASE LockObjectKey(c)
      <3>1. /\ pc[c] = "staged" /\ pc'[c] = "locked" /\ pc' = [pc EXCEPT ![c] = pc'[c]]
            /\ req' = [req EXCEPT ![c] = req'[c]] /\ lock = None /\ lock' = c
            /\ UNCHANGED <<ix, files, crashes>>
        BY <2>2 DEF Inv, Shapes, LockObjectKey, Goto
      <3>2. \A d \in Clients \ {c} : lock = d => lock' = d
        BY <3>1, ObjectStoreAssumption
      <3> QED
        BY <3>1, <3>2, WritesFrame
    <2>3. CASE CopyObject(c)
      BY <2>3, WritesStage DEF CopyObject
    <2>4. /\ ~CommitFails(c) /\ ~DeleteFails(c) /\ ~StampMarker(c) /\ ~CommitMarker(c)
          /\ ~LookUp(c) /\ ~ListVersions(c) /\ ~RemoveFile(c) /\ ~CommitDelete(c)
      BY DEF WritesInv, UnderLock, WritesOnly, CommitFails, DeleteFails, StampMarker, CommitMarker,
             LookUp, ListVersions, RemoveFile, CommitDelete
    <2> QED
      BY <1>2, <2>1, <2>2, <2>3, <2>4, WritesRename, WritesCommit DEF Progress
  <1>3. ASSUME UNCHANGED <<ix, files, lock, pc, req, crashes>> PROVE WritesInv'
    BY <1>3 DEF WritesInv, UnderLock, Paired, GetObjectVersions, Records
  <1>4. ASSUME NEW status \in Statuses, SetBucketVersioning(status) PROVE WritesInv'
    BY <1>3, <1>4 DEF SetBucketVersioning
  <1>5. CASE Idle \/ UNCHANGED vars
    BY <1>3, <1>5 DEF Idle, vars
  <1>6. ~Crash
    BY DEF WritesOnly, WritesInv, UnderLock, Crash
  <1> QED
    BY <1>1, <1>2, <1>4, <1>5, <1>6 DEF Next

(* "two racing PUTs to the same unversioned key can't leave the on-disk    *)
(* bytes from one request paired with the ETag/size metadata from the      *)
(* other" (lockObjectKey): for any number of puts, copies and reads, in    *)
(* every versioning status and across its changes.  Operations that skip   *)
(* the key lock, crashes and failing transactions are excluded: with them  *)
(* the code gives no such promise.                                         *)
THEOREM WritesPaired == WritesOnly => (Spec => []BytesMatchMeta)
  <1> SUFFICES ASSUME WritesOnly PROVE Spec => []BytesMatchMeta
    OBVIOUS
  <1>1. Init => WritesInv
    <2> SUFFICES ASSUME Init PROVE WritesInv
      OBVIOUS
    <2>1. GetObjectVersions(ix) = {}
      BY DEF Init, EmptyIndex, NoRecords, GetObjectVersions, Records
    <2> QED
      BY <2>1 DEF Init, WritesInv, UnderLock, Paired
  <1>2. Inv /\ WritesInv /\ [Next]_vars => WritesInv'
    BY WritesNext
  <1>3. WritesInv => BytesMatchMeta
    BY DEF WritesInv, Paired, BytesMatchMeta, Settled, IsDeleteMarker
  <1> QED
    BY <1>1, <1>2, <1>3, Invariance, PTL DEF Spec
=============================================================================
