--------------------------- MODULE MultipartProofs ---------------------------
(***************************************************************************)
(* What the locks of uploads and parts protect, for any number of          *)
(* requests, uploads, parts, keys and crashes.                             *)
(*                                                                         *)
(* The invariant has one part per concern: who holds which lock, which of  *)
(* record and directory is there at each step, which file a recorded part  *)
(* has, under which key, what Complete has copied so far, and how often an *)
(* upload was published.  Each part is inductive with the ones before it.  *)
(***************************************************************************)
EXTENDS Multipart, TLAPS

States == {"idle", "create", "upload", "prepared", "staged", "renamed", "complete", "assemble",
           "publish", "cleanup", "forget", "abort", "drop"}

Requests == [up : Uploads \cup {0}, part : Parts \cup {0}, data : Contents \cup {None},
             key : MaybeKey, list : Seq(CompletePart), body : Seq(Contents \cup {Garbled})]

(* The locals of a request fit the step it is at. *)
LocalsTyped ==
    /\ pc \in [Clients -> States]
    /\ req \in [Clients -> Requests]
    /\ \A c \in Clients :
          /\ pc[c] # "idle" => req[c].up \in 1..created
          /\ pc[c] \in {"upload", "prepared", "staged", "renamed"} =>
                req[c].part \in Parts /\ req[c].data \in Contents
          /\ pc[c] = "complete" => req[c].body = <<>>
          /\ pc[c] = "assemble" => Len(req[c].body) < Len(req[c].list)
          /\ pc[c] = "publish" => Len(req[c].body) = Len(req[c].list)

StoreTyped ==
    /\ record \in [Uploads -> Record \cup {None}]
    /\ dir \subseteq 1..created
    /\ files \in [Uploads -> [Parts -> PartFile \cup {None}]]
    /\ created \in 0..MaxUploads /\ started \in Nat /\ crashes \in Nat
    /\ published \in [Uploads -> Nat] /\ spared \in [Uploads -> Nat]
    /\ left \subseteq 1..created
    /\ \A u \in Uploads : u > created => record[u] = None /\ published[u] = 0

Typed == LocalsTyped /\ StoreTyped

UploadExclusive ==
    \A c, d \in Clients : pc[c] \in HoldsUpload /\ pc[d] \in HoldsUpload /\ c # d =>
        req[c].up # req[d].up

PartExclusive ==
    \A c, d \in Clients : pc[c] \in HoldsPart /\ pc[d] \in HoldsPart /\ c # d =>
        req[c].up # req[d].up \/ req[c].part # req[d].part

OneCreator ==
    \A c, d \in Clients : pc[c] = "create" /\ pc[d] = "create" /\ c # d => req[c].up # req[d].up

LockInv == UploadExclusive /\ PartExclusive /\ OneCreator

(* A temporary file is in a directory that exists, and its request at the  *)
(* rename.                                                                 *)
TempsStaged == \A c \in temps : c \in Clients /\ pc[c] = "staged" /\ req[c].up \in dir

(* Which of an upload's record and directory are there at each step: the   *)
(* record does not go before the directory, unless RemoveAll left that.    *)
StepsFit ==
    \A c \in Clients :
        /\ pc[c] = "create" => record[req[c].up] = None /\ req[c].up \in dir \ left
        /\ pc[c] \in {"prepared", "staged"} /\ req[c].up \in dir \ left => record[req[c].up] # None
        /\ pc[c] \in {"assemble", "publish", "cleanup"} => record[req[c].up] # None
        /\ pc[c] = "publish" => req[c].up \in dir
        /\ pc[c] \in {"forget", "drop"} => req[c].up \notin dir \ left

FilesInDir == \A u \in Uploads \ dir : files[u] = NoParts

DirInv == StepsFit /\ FilesInDir /\ NoUnreachableParts

(* Nobody replaces the file of a part while its request waits to record it. *)
RenamedInPlace ==
    \A c \in Clients : pc[c] = "renamed" /\ req[c].up \in dir =>
        \/ files[req[c].up][req[c].part] = [data |-> req[c].data, key |-> req[c].key]
        \/ files[req[c].up][req[c].part] = None /\ req[c].up \in left

PairInv == RenamedInPlace /\ PartsPaired

(* The check made in PrepareUpload is still right at the rename. *)
KeyChecked ==
    \A c \in Clients : pc[c] \in {"prepared", "staged"} /\ record[req[c].up] # None =>
        req[c].key \in {NoKey, record[req[c].up].sse}

KeyInv == KeyChecked /\ NoForeignKey

(* What Validate found holds as long as Complete copies. *)
StillValid ==
    \A c \in Clients : pc[c] \in {"assemble", "publish"} =>
        /\ record[req[c].up].sse = req[c].key
        /\ \A i \in DOMAIN req[c].list :
              record[req[c].up].parts[req[c].list[i].part] = req[c].list[i].etag

CopyInv == StillValid /\ AssembledAsListed

CleaningUp == {"cleanup", "forget"}

(* While record and directory are there, every publication but one that is *)
(* being cleaned up was followed by a crash or had its clean-up fall short. *)
PublishedBefore ==
    \A u \in dir :
        record[u] # None /\ (\A c \in Clients : pc[c] \in CleaningUp => req[c].up # u) =>
            published[u] <= crashes + spared[u]

(* Nothing is published of an upload whose record is not stored yet. *)
Unpublished == \A c \in Clients : pc[c] = "create" => published[req[c].up] = 0

PublishInv == PublishedBefore /\ Unpublished /\ PublishedOnce

Inv == Typed /\ TempsStaged /\ LockInv /\ DirInv /\ PairInv /\ KeyInv /\ CopyInv /\ PublishInv

-----------------------------------------------------------------------------
USE DEF HoldsUpload, HoldsPart, disk, counters, history

LEMMA UploadIds ==
    ASSUME StoreTyped, NEW u \in 1..created PROVE u \in Uploads
  BY MultipartAssumption DEF StoreTyped, Uploads

LEMMA NoRequestTyped == NoRequest \in Requests
  BY DEF NoRequest, Requests, MaybeKey

LEMMA ElementOfSeq == ASSUME NEW S, NEW s \in Seq(S), NEW i \in DOMAIN s PROVE s[i] \in S
  OBVIOUS

LEMMA AppendedTo ==
    ASSUME NEW S, NEW s \in Seq(S), NEW e \in S
    PROVE  /\ Len(Append(s, e)) = Len(s) + 1 /\ Append(s, e)[Len(s) + 1] = e
           /\ \A i \in 1..Len(s) : Append(s, e)[i] = s[i]
  OBVIOUS

LEMMA EmptyRecord == [sse |-> NoKey, parts |-> NoParts] \in Record
  BY DEF Record, NoParts, MaybeKey

(* The three shapes of a step: a request begins, goes on, or ends; the     *)
(* others stay where they are.                                             *)
Only(c) == \A d \in Clients \ {c} : pc'[d] = pc[d] /\ req'[d] = req[d]

LEMMA BeginShape ==
    ASSUME Typed, NEW c \in Clients, NEW s \in States, NEW r \in Requests, Begin(c, s, r)
    PROVE  /\ pc' \in [Clients -> States] /\ req' \in [Clients -> Requests]
           /\ pc[c] = "idle" /\ pc'[c] = s /\ req'[c] = r /\ Only(c) /\ started' \in Nat
  BY DEF Typed, LocalsTyped, StoreTyped, Begin, Goto, Only

LEMMA ReturnShape ==
    ASSUME Typed, NEW c \in Clients, Return(c)
    PROVE  /\ pc' \in [Clients -> States] /\ req' \in [Clients -> Requests]
           /\ pc'[c] = "idle" /\ Only(c)
  BY NoRequestTyped DEF Typed, LocalsTyped, Return, Goto, Only, States

LEMMA GotoShape ==
    ASSUME Typed, NEW c \in Clients, NEW s \in States, Goto(c, s), UNCHANGED req
    PROVE  /\ pc' \in [Clients -> States] /\ req' \in [Clients -> Requests]
           /\ pc'[c] = s /\ req'[c] = req[c] /\ Only(c)
  BY DEF Typed, LocalsTyped, Goto, Only

(* A request other than CreateMultipartUpload only sets up its locals. *)
LEMMA Requested ==
    ASSUME Typed, NEW c \in Clients, Request(c), ~CreateMultipartUpload(c)
    PROVE  /\ \E s \in {"upload", "complete", "abort"}, r \in Requests :
                 /\ Begin(c, s, r)
                 /\ r.up \in 1..created /\ r.body = <<>>
                 /\ s = "upload" => r.part \in Parts /\ r.data \in Contents
           /\ UNCHANGED <<record, disk, created, crashes, history>>
  <1> USE DEF NoRequest
  <1>1. PICK u \in 1..created :
            \/ \E p \in Parts, d \in Contents, k \in MaybeKey :
                  UploadPart(c, u, p, d, k) \/ UploadPartCopy(c, u, p, d, k)
            \/ \E n \in 0..Cardinality(Parts) : \E list \in [1..n -> CompletePart], k \in MaybeKey :
                  CompleteMultipartUpload(c, u, list, k)
            \/ AbortMultipartUpload(c, u) \/ CleanExpiredMultipartUploads(c, u)
    BY DEF Request
  <1>2. u \in Uploads
    BY UploadIds DEF Typed
  <1>3. ASSUME NEW p \in Parts, NEW d \in Contents, NEW k \in MaybeKey, UploadPart(c, u, p, d, k)
        PROVE  /\ \E r \in Requests : /\ Begin(c, "upload", r) /\ r.up \in 1..created /\ r.body = <<>>
                                      /\ r.part \in Parts /\ r.data \in Contents
               /\ UNCHANGED <<record, disk, created, crashes, history>>
    <2> DEFINE r == [NoRequest EXCEPT !.up = u, !.part = p, !.data = d, !.key = k]
    <2>1. r \in Requests /\ r.up = u /\ r.body = <<>> /\ r.part = p /\ r.data = d
      BY <1>2, NoRequestTyped DEF Requests
    <2>2. Begin(c, "upload", r) /\ UNCHANGED <<record, disk, created, crashes, history>>
      BY <1>3 DEF UploadPart
    <2> HIDE DEF r
    <2> QED
      BY <2>1, <2>2
  <1>4. ASSUME NEW n \in Nat, NEW list \in [1..n -> CompletePart], NEW k \in MaybeKey,
               CompleteMultipartUpload(c, u, list, k)
        PROVE  /\ \E r \in Requests : Begin(c, "complete", r) /\ r.up \in 1..created /\ r.body = <<>>
               /\ UNCHANGED <<record, disk, created, crashes, history>>
    <2> DEFINE r == [NoRequest EXCEPT !.up = u, !.list = list, !.key = k]
    <2>1. list \in Seq(CompletePart)
      OBVIOUS
    <2>2. r \in Requests /\ r.up = u /\ r.body = <<>>
      BY <1>2, <2>1, NoRequestTyped DEF Requests
    <2>3. Begin(c, "complete", r) /\ UNCHANGED <<record, disk, created, crashes, history>>
      BY <1>4 DEF CompleteMultipartUpload
    <2> HIDE DEF r
    <2> QED
      BY <2>2, <2>3
  <1>5. ASSUME AbortMultipartUpload(c, u)
        PROVE  /\ \E r \in Requests : Begin(c, "abort", r) /\ r.up \in 1..created /\ r.body = <<>>
               /\ UNCHANGED <<record, disk, created, crashes, history>>
    <2> DEFINE r == [NoRequest EXCEPT !.up = u]
    <2>1. r \in Requests /\ r.up = u /\ r.body = <<>>
      BY <1>2, NoRequestTyped DEF Requests
    <2>2. Begin(c, "abort", r) /\ UNCHANGED <<record, disk, created, crashes, history>>
      BY <1>5 DEF AbortMultipartUpload
    <2> HIDE DEF r
    <2> QED
      BY <2>1, <2>2
  <1> QED
    BY <1>1, <1>3, <1>4, <1>5 DEF UploadPartCopy, CleanExpiredMultipartUploads


LEMMA LocalsReturn ==
    ASSUME Typed, NEW c \in Clients, Return(c), UNCHANGED created
    PROVE  LocalsTyped'
  BY ReturnShape DEF Typed, LocalsTyped, Only

LEMMA LocalsGoto ==
    ASSUME Typed, NEW c \in Clients, NEW s \in States, Goto(c, s), UNCHANGED <<req, created>>,
           pc[c] # "idle", s \notin {"complete", "assemble", "publish"},
           s \in {"upload", "prepared", "staged", "renamed"} =>
              pc[c] \in {"upload", "prepared", "staged", "renamed"}
    PROVE  LocalsTyped'
  BY GotoShape DEF Typed, LocalsTyped, Only

LEMMA TypedCreate ==
    ASSUME Typed, NEW c \in Clients, CreateMultipartUpload(c)
    PROVE  Typed' /\ pc'[c] = "create" /\ req'[c].up = created + 1 /\ Only(c) /\ pc[c] = "idle"
  <1> DEFINE r == [NoRequest EXCEPT !.up = created + 1]
  <1>1. created' = created + 1 /\ created' \in 1..MaxUploads /\ created' \in Uploads
    BY MultipartAssumption DEF CreateMultipartUpload, Typed, StoreTyped, Uploads
  <1>2. r \in Requests /\ r.up = created'
    BY <1>1, NoRequestTyped DEF Requests
  <1>3. Begin(c, "create", r)
    BY DEF CreateMultipartUpload
  <1> HIDE DEF r
  <1>4. /\ pc' \in [Clients -> States] /\ req' \in [Clients -> Requests]
        /\ pc[c] = "idle" /\ pc'[c] = "create" /\ req'[c] = r /\ Only(c) /\ started' \in Nat
    BY <1>2, <1>3, BeginShape DEF States
  <1>5. LocalsTyped'
    BY <1>1, <1>2, <1>4 DEF Typed, LocalsTyped, StoreTyped, Only
  <1>6. StoreTyped'
    BY <1>1, <1>4 DEF CreateMultipartUpload, Typed, StoreTyped, Uploads
  <1> QED
    BY <1>1, <1>2, <1>4, <1>5, <1>6 DEF Typed

LEMMA TypedRequest ==
    ASSUME Typed, NEW c \in Clients, Request(c), ~CreateMultipartUpload(c)
    PROVE  Typed'
  <1>1. PICK s \in {"upload", "complete", "abort"}, r \in Requests :
            /\ Begin(c, s, r)
            /\ r.up \in 1..created /\ r.body = <<>>
            /\ s = "upload" => r.part \in Parts /\ r.data \in Contents
    BY Requested
  <1>2. UNCHANGED <<record, disk, created, crashes, history>>
    BY Requested
  <1>3. /\ pc' \in [Clients -> States] /\ req' \in [Clients -> Requests]
        /\ pc[c] = "idle" /\ pc'[c] = s /\ req'[c] = r /\ Only(c) /\ started' \in Nat
    BY <1>1, BeginShape DEF States
  <1>4. LocalsTyped'
    BY <1>1, <1>2, <1>3 DEF Typed, LocalsTyped, Only
  <1> QED
    BY <1>2, <1>3, <1>4 DEF Typed, StoreTyped

LEMMA WithKeyTyped ==
    ASSUME NEW r \in Record, NEW k \in MaybeKey
    PROVE  /\ WithKey(r, k) \in Record /\ WithKey(r, k).parts = r.parts
           /\ WithKey(r, k).sse = r.sse \/ (r.sse = NoKey /\ r.parts = NoParts /\ WithKey(r, k).sse = k)
  BY DEF WithKey, Record

(* A record is written only for an upload that was created. *)
LEMMA StorePutRecord ==
    ASSUME Typed, NEW u \in 1..created, NEW r \in Record \cup {None}, PutMultipartMeta(u, r),
           UNCHANGED <<dir, files, created, started, crashes, published, left, spared>>
    PROVE  StoreTyped' /\ record'[u] = r /\ \A v \in Uploads \ {u} : record'[v] = record[v]
  <1>1. u \in Uploads /\ u <= created
    BY UploadIds DEF Typed, StoreTyped
  <1> QED
    BY <1>1 DEF Typed, StoreTyped, PutMultipartMeta, Uploads

(* What RemoveAll may do: some files and temporary files of the upload go, *)
(* and the directory when all have gone.                                   *)
LEMMA RemoveShape ==
    ASSUME Typed, NEW u \in Uploads, RemoveAll(u)
    PROVE  /\ files' \in [Uploads -> [Parts -> PartFile \cup {None}]]
           /\ \A v \in Uploads \ {u} : files'[v] = files[v]
           /\ \A p \in Parts : files'[u][p] \in {files[u][p], None}
           /\ temps' \subseteq temps
           /\ \/ /\ dir' = dir \ {u} /\ left' = left \ {u}
                 /\ files'[u] = NoParts /\ \A c \in temps' : req[c].up # u
              \/ u \in dir /\ dir' = dir /\ left' = left \cup {u}
  <1>1. PICK kept \in SUBSET {p \in Parts : files[u][p] # None},
             open \in SUBSET {c \in temps : req[c].up = u} :
            /\ files' = [files EXCEPT ![u] = [p \in Parts |-> IF p \in kept THEN files[u][p] ELSE None]]
            /\ temps' = {c \in temps : req[c].up = u => c \in open}
            /\ \/ kept = {} /\ open = {} /\ dir' = dir \ {u} /\ left' = left \ {u}
               \/ u \in dir /\ left' = left \cup {u} /\ UNCHANGED dir
    BY DEF RemoveAll
  <1>2. PICK row \in [Parts -> PartFile \cup {None}] :
            row = [p \in Parts |-> IF p \in kept THEN files[u][p] ELSE None]
    BY DEF Typed, StoreTyped
  <1>3. /\ files' \in [Uploads -> [Parts -> PartFile \cup {None}]] /\ files'[u] = row
        /\ \A v \in Uploads \ {u} : files'[v] = files[v]
    BY <1>1, <1>2 DEF Typed, StoreTyped
  <1>4. \A p \in Parts : files'[u][p] \in {files[u][p], None}
    BY <1>2, <1>3
  <1>5. kept = {} => files'[u] = NoParts
    BY <1>2, <1>3 DEF NoParts
  <1>6. open = {} => \A c \in temps' : req[c].up # u
    BY <1>1
  <1> QED
    BY <1>1, <1>3, <1>4, <1>5, <1>6

LEMMA StoreRemoveAll ==
    ASSUME Typed, NEW u \in 1..created, RemoveAll(u),
           UNCHANGED <<record, created, started, crashes, published, spared>>
    PROVE  StoreTyped'
  <1>1. u \in Uploads
    BY UploadIds DEF Typed
  <1>2. dir' \subseteq dir /\ left' \subseteq left \cup {u}
    BY <1>1, RemoveShape
  <1> QED
    BY <1>1, <1>2, RemoveShape DEF Typed, StoreTyped

(* A rename replaces one file, or fails because its source has gone. *)
LEMMA RenameShape ==
    ASSUME Typed, NEW c \in Clients, RenamePart(c)
    PROVE  /\ files' \in [Uploads -> [Parts -> PartFile \cup {None}]]
           /\ \/ Return(c) /\ UNCHANGED files
              \/ /\ Goto(c, "renamed") /\ UNCHANGED req /\ c \in temps
                 /\ files'[req[c].up][req[c].part] = [data |-> req[c].data, key |-> req[c].key]
                 /\ \A u \in Uploads, p \in Parts :
                       u # req[c].up \/ p # req[c].part => files'[u][p] = files[u][p]
  <1> DEFINE f == [data |-> req[c].data, key |-> req[c].key]
  <1>1. req[c].up \in Uploads /\ req[c].part \in Parts
    BY UploadIds DEF RenamePart, Typed, LocalsTyped
  <1>2. f \in PartFile
    BY DEF RenamePart, PartFile, Typed, LocalsTyped, Requests
  <1>3. CASE c \in temps
    <2>1. /\ files' = [files EXCEPT ![req[c].up][req[c].part] = f]
          /\ Goto(c, "renamed") /\ UNCHANGED req
      BY <1>3 DEF RenamePart
    <2>2. files \in [Uploads -> [Parts -> PartFile \cup {None}]]
      BY DEF Typed, StoreTyped
    <2> HIDE DEF f
    <2>3. /\ files' \in [Uploads -> [Parts -> PartFile \cup {None}]]
          /\ files'[req[c].up][req[c].part] = f
          /\ \A u \in Uploads, p \in Parts :
                u # req[c].up \/ p # req[c].part => files'[u][p] = files[u][p]
      BY <1>1, <1>2, <2>1, <2>2
    <2> QED
      BY <1>3, <2>1, <2>3 DEF f
  <1>4. CASE c \notin temps
    BY <1>4 DEF RenamePart, Typed, StoreTyped
  <1> QED
    BY <1>3, <1>4

LEMMA TypedUploadSteps ==
    ASSUME Typed, NEW c \in Clients,
           \/ StoreRecord(c) \/ PrepareUpload(c) \/ StagePart(c) \/ RenamePart(c) \/ RecordPart(c)
           \/ UploadFails(c)
    PROVE  Typed'
  <1> USE DEF Typed
  <1>0. pc[c] # "idle" => req[c].up \in 1..created /\ req[c].up \in Uploads
    BY UploadIds DEF LocalsTyped
  <1>1. CASE StoreRecord(c)
    BY <1>0, <1>1, LocalsReturn, EmptyRecord, StorePutRecord DEF StoreRecord
  <1>2. CASE PrepareUpload(c)
    <2> DEFINE r == record[req[c].up]
    <2>1. LocalsTyped'
      BY <1>2, LocalsReturn, LocalsGoto DEF PrepareUpload, GetMultipartMeta, States
    <2>2. CASE r = None
      BY <1>2, <2>1, <2>2 DEF PrepareUpload, GetMultipartMeta, StoreTyped
    <2>3. CASE r # None
      <3>1. r \in Record /\ req[c].key \in MaybeKey
        BY <1>0, <1>2, <2>3 DEF PrepareUpload, StoreTyped, LocalsTyped, Requests
      <3>2. WithKey(r, req[c].key) \in Record
        BY <3>1, WithKeyTyped
      <3>3. PutMultipartMeta(req[c].up, WithKey(r, req[c].key))
        BY <1>2, <2>3 DEF PrepareUpload, GetMultipartMeta
      <3>4. StoreTyped'
        BY <1>0, <1>2, <3>2, <3>3, StorePutRecord DEF PrepareUpload
      <3> QED
        BY <2>1, <3>4
    <2> QED
      BY <2>2, <2>3
  <1>3. CASE StagePart(c)
    BY <1>3, LocalsReturn, LocalsGoto DEF StagePart, States, StoreTyped
  <1>4. CASE RenamePart(c)
    <2>1. LocalsTyped'
      BY <1>4, LocalsReturn, LocalsGoto DEF RenamePart, States
    <2> QED
      BY <1>4, <2>1, RenameShape DEF RenamePart, StoreTyped
  <1>5. CASE RecordPart(c)
    <2>1. LocalsTyped'
      BY <1>5, LocalsReturn DEF RecordPart
    <2>2. CASE record[req[c].up] = None
      BY <1>5, <2>1, <2>2 DEF RecordPart, StoreTyped
    <2>3. CASE record[req[c].up] # None
      <3> DEFINE r == [record[req[c].up] EXCEPT !.parts[req[c].part] = req[c].data]
      <3>1. record[req[c].up] \in Record /\ req[c].part \in Parts /\ req[c].data \in Contents
        BY <1>0, <1>5, <2>3 DEF RecordPart, StoreTyped, LocalsTyped
      <3>2. r \in Record
        BY <3>1 DEF Record
      <3>3. PutMultipartMeta(req[c].up, r)
        BY <1>5, <2>3 DEF RecordPart
      <3> HIDE DEF r
      <3>4. StoreTyped'
        BY <1>0, <1>5, <3>2, <3>3, StorePutRecord DEF RecordPart
      <3> QED
        BY <2>1, <3>4
    <2> QED
      BY <2>2, <2>3
  <1>6. CASE UploadFails(c)
    BY <1>6, LocalsReturn DEF UploadFails, StoreTyped
  <1> QED
    BY <1>1, <1>2, <1>3, <1>4, <1>5, <1>6

(* Complete works on the parts of its request in some order. *)
LEMMA SortedParts ==
    ASSUME NEW l \in Seq(CompletePart), NEW list \in SortParts(l)
    PROVE  list \in Seq(CompletePart) /\ Len(list) = Len(l)
  <1>1. PICK f \in [DOMAIN l -> DOMAIN l] : list = [i \in DOMAIN l |-> l[f[i]]]
    BY DEF SortParts, Bijection, Injection
  <1>2. DOMAIN l = 1..Len(l) /\ Len(l) \in Nat
    OBVIOUS
  <1>3. list \in [1..Len(l) -> CompletePart]
    BY <1>1, <1>2
  <1> QED
    BY <1>2, <1>3

(* Validate goes on with a list that matches the record, or gives up. *)
LEMMA ValidateShape ==
    ASSUME Typed, NEW c \in Clients, Validate(c)
    PROVE  \/ Return(c)
           \/ /\ pc' \in [Clients -> States] /\ req' \in [Clients -> Requests]
              /\ pc'[c] = "assemble" /\ Only(c)
              /\ req'[c].up = req[c].up /\ req'[c].key = req[c].key /\ req'[c].body = <<>>
              /\ Len(req'[c].list) > 0
              /\ record[req[c].up] # None /\ record[req[c].up].sse = req[c].key
              /\ \A i \in DOMAIN req'[c].list :
                    record[req[c].up].parts[req'[c].list[i].part] = req'[c].list[i].etag
  <1>1. PICK list \in SortParts(req[c].list) :
            LET r == record[req[c].up] IN
            IF r # None /\ r.sse = req[c].key /\ list # <<>> /\ NoDuplicates(list) /\ ValidParts(r, list)
            THEN Goto(c, "assemble") /\ req' = [req EXCEPT ![c].list = list]
            ELSE Return(c)
    BY DEF Validate, GetMultipartMeta
  <1> SUFFICES ASSUME ~Return(c) PROVE
              /\ pc' \in [Clients -> States] /\ req' \in [Clients -> Requests]
              /\ pc'[c] = "assemble" /\ Only(c)
              /\ req'[c].up = req[c].up /\ req'[c].key = req[c].key /\ req'[c].body = <<>>
              /\ Len(req'[c].list) > 0
              /\ record[req[c].up] # None /\ record[req[c].up].sse = req[c].key
              /\ \A i \in DOMAIN req'[c].list :
                    record[req[c].up].parts[req'[c].list[i].part] = req'[c].list[i].etag
    OBVIOUS
  <1>2. /\ record[req[c].up] # None /\ record[req[c].up].sse = req[c].key /\ list # <<>>
        /\ ValidParts(record[req[c].up], list)
        /\ Goto(c, "assemble") /\ req' = [req EXCEPT ![c].list = list]
    BY <1>1
  <1>3. list \in Seq(CompletePart) /\ Len(list) > 0
    <2>1. req[c].list \in Seq(CompletePart)
      BY DEF Typed, LocalsTyped, Requests
    <2>2. list \in Seq(CompletePart)
      BY <2>1, SortedParts
    <2> QED
      BY <1>2, <2>2
  <1>4. /\ req' \in [Clients -> Requests] /\ req'[c].list = list /\ req'[c].up = req[c].up
        /\ req'[c].key = req[c].key /\ req'[c].body = req[c].body
        /\ \A d \in Clients \ {c} : req'[d] = req[d]
    BY <1>2, <1>3 DEF Typed, LocalsTyped, Requests
  <1>5. /\ pc' \in [Clients -> States] /\ pc'[c] = "assemble"
        /\ \A d \in Clients \ {c} : pc'[d] = pc[d]
    BY <1>2 DEF Typed, LocalsTyped, Goto, States
  <1>6. req[c].body = <<>>
    BY DEF Validate, Typed, LocalsTyped
  <1> QED
    BY <1>2, <1>3, <1>4, <1>5, <1>6 DEF ValidParts, Only

(* CopyPart appends what the part's file decrypts to, or gives up. *)
LEMMA CopyShape ==
    ASSUME Typed, NEW c \in Clients, CopyPart(c)
    PROVE  \/ Return(c)
           \/ \E p \in Parts, f \in PartFile :
                 LET i == Len(req[c].body) + 1 IN
                 /\ i \in DOMAIN req[c].list /\ p = req[c].list[i].part /\ f = files[req[c].up][p]
                 /\ pc' \in [Clients -> States] /\ req' \in [Clients -> Requests] /\ Only(c)
                 /\ req'[c].up = req[c].up /\ req'[c].key = req[c].key /\ req'[c].list = req[c].list
                 /\ req'[c].body = Append(req[c].body, Decrypt(f, req[c].key))
                 /\ \/ pc'[c] = "assemble" /\ Len(req'[c].body) < Len(req'[c].list)
                    \/ pc'[c] = "publish" /\ Len(req'[c].body) = Len(req'[c].list)
  <1> DEFINE i == Len(req[c].body) + 1
             p == req[c].list[i].part
             f == files[req[c].up][p]
             b == Append(req[c].body, Decrypt(f, req[c].key))
  <1>1. /\ req[c].up \in Uploads /\ req[c].list \in Seq(CompletePart) /\ req[c].key \in MaybeKey
        /\ req[c].body \in Seq(Contents \cup {Garbled}) /\ Len(req[c].body) < Len(req[c].list)
        /\ pc[c] = "assemble"
    BY UploadIds DEF CopyPart, Typed, LocalsTyped, Requests
  <1>2. i \in DOMAIN req[c].list /\ i \in Nat /\ i <= Len(req[c].list)
    BY <1>1
  <1>3. p \in Parts
    <2>1. req[c].list[i] \in CompletePart
      BY <1>1, <1>2, ElementOfSeq
    <2> QED
      BY <2>1 DEF CompletePart
  <1>4. f \in PartFile \cup {None}
    BY <1>1, <1>3 DEF Typed, StoreTyped
  <1>5. CASE f = None
    BY <1>5 DEF CopyPart
  <1>6. CASE f # None
    <2>1. f \in PartFile
      BY <1>4, <1>6
    <2>2. /\ req' = [req EXCEPT ![c].body = Append(@, Decrypt(f, req[c].key))]
          /\ Goto(c, IF i = Len(req[c].list) THEN "publish" ELSE "assemble")
      BY <1>6 DEF CopyPart
    <2>3. Decrypt(f, req[c].key) \in Contents \cup {Garbled}
      BY <2>1 DEF Decrypt, PartFile
    <2>4. b \in Seq(Contents \cup {Garbled}) /\ Len(b) = i
      BY <1>1, <2>3
    <2>5. req[c] \in Requests /\ req' = [req EXCEPT ![c] = [req[c] EXCEPT !.body = b]]
      BY <2>2 DEF Typed, LocalsTyped
    <2> HIDE DEF b
    <2>6. /\ req' \in [Clients -> Requests]
          /\ req'[c].up = req[c].up /\ req'[c].key = req[c].key /\ req'[c].list = req[c].list
          /\ req'[c].body = b
          /\ \A d \in Clients \ {c} : req'[d] = req[d]
      BY <2>4, <2>5 DEF Typed, LocalsTyped, Requests
    <2>7. /\ pc' \in [Clients -> States] /\ \A d \in Clients \ {c} : pc'[d] = pc[d]
          /\ \/ pc'[c] = "assemble" /\ i # Len(req[c].list)
             \/ pc'[c] = "publish" /\ i = Len(req[c].list)
      BY <2>2 DEF Typed, LocalsTyped, Goto, States
    <2>8. \/ pc'[c] = "assemble" /\ Len(req'[c].body) < Len(req'[c].list)
          \/ pc'[c] = "publish" /\ Len(req'[c].body) = Len(req'[c].list)
      BY <1>1, <1>2, <2>4, <2>6, <2>7
    <2> HIDE DEF p, f
    <2> QED
      BY <1>2, <1>3, <2>1, <2>6, <2>7, <2>8 DEF Only, b, p, f
  <1> QED
    BY <1>5, <1>6

LEMMA TypedCompleteSteps ==
    ASSUME Typed, NEW c \in Clients,
           \/ Validate(c) \/ CopyPart(c) \/ Publish(c) \/ Cleanup(c) \/ Forget(c) \/ RemoveParts(c)
           \/ DropRecord(c) \/ RequestFails(c)
    PROVE  Typed'
  <1> USE DEF Typed
  <1>0. pc[c] # "idle" => req[c].up \in 1..created /\ req[c].up \in Uploads
    BY UploadIds DEF LocalsTyped
  <1>1. CASE Validate(c)
    <2>1. StoreTyped' /\ created' = created /\ pc[c] = "complete"
      BY <1>1 DEF Validate, StoreTyped
    <2>2. CASE Return(c)
      BY <2>1, <2>2, LocalsReturn
    <2>3. CASE ~Return(c)
      <3>1. LocalsTyped'
        BY <1>0, <1>1, <2>1, <2>3, ValidateShape DEF LocalsTyped, Only
      <3> QED
        BY <2>1, <3>1
    <2> QED
      BY <2>2, <2>3
  <1>2. CASE CopyPart(c)
    <2>1. StoreTyped' /\ created' = created /\ pc[c] = "assemble"
      BY <1>2 DEF CopyPart, StoreTyped
    <2>2. CASE Return(c)
      BY <2>1, <2>2, LocalsReturn
    <2>3. CASE ~Return(c)
      <3>1. LocalsTyped'
        BY <1>0, <1>2, <2>1, <2>3, CopyShape DEF LocalsTyped, Only
      <3> QED
        BY <2>1, <3>1
    <2> QED
      BY <2>2, <2>3
  <1>3. CASE Publish(c)
    <2>1. LocalsTyped'
      BY <1>3, LocalsGoto DEF Publish, States
    <2>2. published' \in [Uploads -> Nat] /\ \A u \in Uploads : u > created => published'[u] = 0
      BY <1>0, <1>3 DEF Publish, StoreTyped, Uploads
    <2> QED
      BY <1>3, <2>1, <2>2 DEF Publish, StoreTyped
  <1>4. CASE Cleanup(c)
    BY <1>0, <1>4, LocalsGoto, StoreRemoveAll DEF Cleanup, States
  <1>5. CASE Forget(c)
    <2>1. LocalsTyped'
      BY <1>5, LocalsReturn DEF Forget
    <2>2. CASE /\ UNCHANGED record
               /\ spared' = [spared EXCEPT ![req[c].up] = @ + (IF req[c].up \in dir THEN 1 ELSE 0)]
      <3>1. req[c].up \in Uploads
        BY <1>0, <1>5 DEF Forget
      <3>2. spared' \in [Uploads -> Nat]
        BY <2>2, <3>1 DEF StoreTyped
      <3> QED
        BY <1>5, <2>1, <2>2, <3>2 DEF Forget, StoreTyped
    <2>3. CASE PutMultipartMeta(req[c].up, None) /\ UNCHANGED spared
      BY <1>0, <1>5, <2>1, <2>3, StorePutRecord DEF Forget
    <2> QED
      BY <1>5, <2>2, <2>3 DEF Forget
  <1>6. CASE RemoveParts(c)
    <2>1. LocalsTyped'
      BY <1>6, LocalsReturn, LocalsGoto DEF RemoveParts, States
    <2>2. CASE UNCHANGED <<disk, left>>
      BY <1>6, <2>1, <2>2 DEF RemoveParts, StoreTyped
    <2>3. CASE RemoveAll(req[c].up)
      BY <1>0, <1>6, <2>1, <2>3, StoreRemoveAll DEF RemoveParts
    <2> QED
      BY <1>6, <2>2, <2>3 DEF RemoveParts
  <1>7. CASE DropRecord(c)
    BY <1>0, <1>7, LocalsReturn, StorePutRecord DEF DropRecord
  <1>8. CASE RequestFails(c)
    BY <1>8, LocalsReturn DEF RequestFails, StoreTyped
  <1> QED
    BY <1>1, <1>2, <1>3, <1>4, <1>5, <1>6, <1>7, <1>8

LEMMA TypedNext == Typed /\ [Next]_vars => Typed'
  <1> SUFFICES ASSUME Typed, [Next]_vars PROVE Typed'
    OBVIOUS
  <1>1. ASSUME NEW c \in Clients, Request(c) PROVE Typed'
    BY <1>1, TypedCreate, TypedRequest
  <1>2. ASSUME NEW c \in Clients, Locking(c) \/ Progress(c) \/ Failure(c) PROVE Typed'
    BY <1>2, TypedUploadSteps, TypedCompleteSteps DEF Locking, Progress, Failure
  <1>3. CASE Crash
    BY <1>3, NoRequestTyped DEF Crash, Typed, LocalsTyped, StoreTyped, States
  <1>4. CASE UNCHANGED vars
    BY <1>4 DEF vars, Typed, LocalsTyped, StoreTyped
  <1> QED
    BY <1>1, <1>2, <1>3, <1>4 DEF Next, Idle
-----------------------------------------------------------------------------
(***************************************************************************)
(* Temporary files.                                                        *)
(***************************************************************************)
LEMMA TempsFrame ==
    ASSUME TempsStaged, NEW c \in Clients, Only(c), temps' \subseteq temps \ {c}, dir \subseteq dir'
    PROVE  TempsStaged'
  BY DEF TempsStaged, Only

LEMMA TempsElsewhere ==
    ASSUME TempsStaged, NEW c \in Clients, Only(c), pc[c] # "staged", UNCHANGED temps, dir \subseteq dir'
    PROVE  TempsStaged'
  BY TempsFrame DEF TempsStaged

(* RemoveAll takes no directory with a temporary file in it. *)
LEMMA TempsRemove ==
    ASSUME Typed, TempsStaged, NEW c \in Clients, Only(c), pc[c] \notin {"idle", "staged"},
           RemoveAll(req[c].up)
    PROVE  TempsStaged'
  <1>1. PICK u \in Uploads : u = req[c].up
    BY UploadIds DEF Typed, LocalsTyped
  <1>2. /\ temps' \subseteq temps
        /\ (dir' = dir \ {u} /\ \A d \in temps' : req[d].up # u) \/ dir' = dir
    BY <1>1, RemoveShape
  <1> QED
    BY <1>2 DEF TempsStaged, Only

LEMMA TempsNext == Typed /\ TempsStaged /\ [Next]_vars => TempsStaged'
  <1> SUFFICES ASSUME Typed, TempsStaged, [Next]_vars PROVE TempsStaged'
    OBVIOUS
  <1> USE DEF States
  <1>1. ASSUME NEW c \in Clients, CreateMultipartUpload(c) PROVE TempsStaged'
    BY <1>1, TypedCreate, TempsElsewhere DEF CreateMultipartUpload
  <1>2. ASSUME NEW c \in Clients, Request(c), ~CreateMultipartUpload(c) PROVE TempsStaged'
    <2>1. PICK s \in {"upload", "complete", "abort"}, r \in Requests : Begin(c, s, r)
      BY <1>2, Requested
    <2>2. pc[c] = "idle" /\ Only(c)
      BY <2>1, BeginShape
    <2>3. UNCHANGED <<dir, temps>>
      BY <1>2, Requested
    <2> QED
      BY <2>2, <2>3, TempsElsewhere
  <1>3. ASSUME NEW c \in Clients, Locking(c) PROVE TempsStaged'
    <2>1. CASE PrepareUpload(c) \/ RecordPart(c)
      BY <2>1, ReturnShape, GotoShape, TempsElsewhere DEF PrepareUpload, RecordPart
    <2>2. CASE StagePart(c)
      <3>1. CASE req[c].up \in dir
        <4>1. temps' = temps \cup {c} /\ pc'[c] = "staged" /\ req'[c] = req[c] /\ Only(c) /\ UNCHANGED dir
          BY <2>2, <3>1, GotoShape DEF StagePart
        <4> QED
          BY <3>1, <4>1 DEF TempsStaged, Only
      <3>2. CASE req[c].up \notin dir
        BY <2>2, <3>2, ReturnShape, TempsElsewhere DEF StagePart
      <3> QED
        BY <3>1, <3>2
    <2>3. CASE Validate(c)
      <3>1. Only(c)
        BY <2>3, ReturnShape, ValidateShape
      <3> QED
        BY <2>3, <3>1, TempsElsewhere DEF Validate
    <2>4. CASE RemoveParts(c)
      <3>1. Only(c) /\ pc[c] = "abort"
        BY <2>4, ReturnShape, GotoShape DEF RemoveParts
      <3>2. CASE UNCHANGED disk
        BY <3>1, <3>2, TempsElsewhere
      <3> QED
        BY <2>4, <3>1, <3>2, TempsRemove DEF RemoveParts
    <2> QED
      BY <1>3, <2>1, <2>2, <2>3, <2>4 DEF Locking
  <1>4. ASSUME NEW c \in Clients, Progress(c) PROVE TempsStaged'
    <2>1. CASE StoreRecord(c) \/ Publish(c) \/ Forget(c) \/ DropRecord(c)
      BY <2>1, ReturnShape, GotoShape, TempsElsewhere DEF StoreRecord, Publish, Forget, DropRecord
    <2>2. CASE RenamePart(c)
      BY <2>2, ReturnShape, GotoShape, TempsFrame DEF RenamePart
    <2>3. CASE CopyPart(c)
      <3>1. Only(c)
        BY <2>3, ReturnShape, CopyShape
      <3> QED
        BY <2>3, <3>1, TempsElsewhere DEF CopyPart
    <2>4. CASE Cleanup(c)
      BY <2>4, GotoShape, TempsRemove DEF Cleanup
    <2> QED
      BY <1>4, <2>1, <2>2, <2>3, <2>4 DEF Progress
  <1>5. ASSUME NEW c \in Clients, Failure(c) PROVE TempsStaged'
    <2>1. CASE UploadFails(c)
      BY <2>1, ReturnShape, TempsFrame DEF UploadFails
    <2>2. CASE RequestFails(c)
      BY <2>2, ReturnShape, TempsElsewhere DEF RequestFails
    <2> QED
      BY <1>5, <2>1, <2>2 DEF Failure
  <1>6. CASE Crash
    BY <1>6 DEF Crash, TempsStaged
  <1>7. CASE UNCHANGED vars
    BY <1>7 DEF vars, TempsStaged
  <1> QED
    BY <1>1, <1>2, <1>3, <1>4, <1>5, <1>6, <1>7 DEF Next, Idle
-----------------------------------------------------------------------------
(***************************************************************************)
(* Locks.                                                                  *)
(***************************************************************************)
(* One request moves: it holds a lock only if it held it or found it free. *)
LEMMA LockFrame ==
    ASSUME Typed, LockInv, NEW c \in Clients, Only(c),
           pc'[c] \in HoldsUpload => /\ req'[c].up = req[c].up
                                     /\ pc[c] \in HoldsUpload \/ LockUpload(c),
           pc'[c] \in HoldsPart => /\ req'[c].up = req[c].up /\ req'[c].part = req[c].part
                                   /\ pc[c] \in HoldsPart \/ LockPart(c),
           pc'[c] = "create" => \A d \in Clients : pc[d] = "create" => req[d].up # req'[c].up
    PROVE  LockInv'
  <1>1. UploadExclusive'
    BY DEF LockInv, UploadExclusive, Only, LockUpload
  <1>2. PartExclusive'
    BY DEF LockInv, PartExclusive, Only, LockPart
  <1>3. OneCreator'
    BY DEF LockInv, OneCreator, Only
  <1> QED
    BY <1>1, <1>2, <1>3 DEF LockInv

LEMMA LockReturn ==
    ASSUME Typed, LockInv, NEW c \in Clients, Return(c) PROVE LockInv'
  BY ReturnShape, LockFrame

LEMMA LockGoto ==
    ASSUME Typed, LockInv, NEW c \in Clients, NEW s \in States, Goto(c, s), UNCHANGED req, s # "create",
           s \in HoldsUpload => pc[c] \in HoldsUpload \/ LockUpload(c),
           s \in HoldsPart => pc[c] \in HoldsPart \/ LockPart(c)
    PROVE  LockInv'
  BY GotoShape, LockFrame

LEMMA LockNext == Typed /\ LockInv /\ [Next]_vars => LockInv'
  <1> SUFFICES ASSUME Typed, LockInv, [Next]_vars PROVE LockInv'
    OBVIOUS
  <1> USE DEF States
  <1>1. ASSUME NEW c \in Clients, CreateMultipartUpload(c) PROVE LockInv'
    <2>1. pc'[c] = "create" /\ req'[c].up = created + 1 /\ Only(c)
      BY <1>1, TypedCreate
    <2>2. ASSUME NEW d \in Clients, pc[d] = "create" PROVE req[d].up # created + 1
      BY <2>2 DEF Typed, LocalsTyped, StoreTyped
    <2> QED
      BY <2>1, <2>2, LockFrame
  <1>2. ASSUME NEW c \in Clients, Request(c), ~CreateMultipartUpload(c) PROVE LockInv'
    <2>1. PICK s \in {"upload", "complete", "abort"}, r \in Requests : Begin(c, s, r)
      BY <1>2, Requested
    <2>2. pc'[c] = s /\ Only(c)
      BY <2>1, BeginShape
    <2> QED
      BY <2>2, LockFrame
  <1>3. ASSUME NEW c \in Clients, Locking(c) PROVE LockInv'
    <2>1. CASE PrepareUpload(c)
      BY <2>1, LockReturn, LockGoto DEF PrepareUpload
    <2>2. CASE StagePart(c)
      BY <2>2, LockReturn, LockGoto DEF StagePart
    <2>3. CASE RecordPart(c)
      BY <2>3, LockReturn DEF RecordPart
    <2>4. CASE Validate(c)
      <3>1. LockUpload(c)
        BY <2>4 DEF Validate
      <3> QED
        BY <2>4, <3>1, ValidateShape, LockReturn, LockFrame
    <2>5. CASE RemoveParts(c)
      BY <2>5, LockReturn, LockGoto DEF RemoveParts
    <2> QED
      BY <1>3, <2>1, <2>2, <2>3, <2>4, <2>5 DEF Locking
  <1>4. ASSUME NEW c \in Clients, Progress(c) PROVE LockInv'
    <2>1. CASE StoreRecord(c)
      BY <2>1, LockReturn DEF StoreRecord
    <2>2. CASE RenamePart(c)
      BY <2>2, LockReturn, LockGoto DEF RenamePart
    <2>3. CASE CopyPart(c)
      <3>1. pc[c] = "assemble"
        BY <2>3 DEF CopyPart
      <3> QED
        BY <2>3, <3>1, CopyShape, LockReturn, LockFrame
    <2>4. CASE Publish(c)
      BY <2>4, LockGoto DEF Publish
    <2>5. CASE Cleanup(c)
      BY <2>5, LockGoto DEF Cleanup
    <2>6. CASE Forget(c) \/ DropRecord(c)
      BY <2>6, LockReturn DEF Forget, DropRecord
    <2> QED
      BY <1>4, <2>1, <2>2, <2>3, <2>4, <2>5, <2>6 DEF Progress
  <1>5. ASSUME NEW c \in Clients, Failure(c) PROVE LockInv'
    BY <1>5, LockReturn DEF Failure, UploadFails, RequestFails
  <1>6. CASE Crash
    BY <1>6 DEF Crash, LockInv, UploadExclusive, PartExclusive, OneCreator
  <1>7. CASE UNCHANGED vars
    BY <1>7 DEF vars, LockInv, UploadExclusive, PartExclusive, OneCreator
  <1> QED
    BY <1>1, <1>2, <1>3, <1>4, <1>5, <1>6, <1>7 DEF Next, Idle

-----------------------------------------------------------------------------
(***************************************************************************)
(* Records, directories and files.                                         *)
(***************************************************************************)
(* Whoever is at one of the given states was there before. *)
Kept(states) == \A d \in Clients : pc'[d] \in states => pc[d] = pc'[d] /\ req'[d] = req[d]

LEMMA KeptOnReturn ==
    ASSUME Typed, NEW c \in Clients, Return(c) PROVE Kept(States \ {"idle"})
  BY ReturnShape DEF Kept, Only

LEMMA KeptOnGoto ==
    ASSUME Typed, NEW c \in Clients, NEW s \in States, Goto(c, s), UNCHANGED req
    PROVE  Kept(States \ {s})
  BY GotoShape DEF Kept, Only

LEMMA DirFrame ==
    ASSUME Typed, DirInv, UNCHANGED <<record, dir, files, left>>,
           Kept({"create", "prepared", "staged", "assemble", "publish", "cleanup", "forget", "drop"})
    PROVE  DirInv'
  <1>1. StepsFit'
    BY DEF DirInv, StepsFit, Kept
  <1> QED
    BY <1>1 DEF DirInv, FilesInDir, NoUnreachableParts

(* A record that was there is replaced by another one. *)
LEMMA DirRewrite ==
    ASSUME Typed, DirInv, NEW u \in Uploads, NEW r \in Record, record[u] # None,
           record' = [record EXCEPT ![u] = r], UNCHANGED <<dir, files, left>>,
           Kept({"create", "staged", "assemble", "publish", "cleanup", "forget", "drop"}),
           \A d \in Clients : pc'[d] = "prepared" => req'[d] = req[d] /\ (pc[d] = "prepared" \/ req[d].up = u)
    PROVE  DirInv'
  <1>1. record'[u] # None /\ \A v \in Uploads \ {u} : record'[v] = record[v]
    BY MultipartAssumption DEF Typed, StoreTyped, Record, MaybeKey
  <1>2. \A d \in Clients : pc[d] # "idle" => req[d].up \in Uploads
    BY UploadIds DEF Typed, LocalsTyped
  <1>3. StepsFit'
    BY <1>1, <1>2 DEF DirInv, StepsFit, Kept
  <1>4. NoUnreachableParts'
    BY <1>1 DEF DirInv, NoUnreachableParts
  <1> QED
    BY <1>3, <1>4 DEF DirInv, FilesInDir

(* A record goes when its directory has gone, or RemoveAll left that. *)
LEMMA DirForget ==
    ASSUME Typed, LockInv, DirInv, NEW c \in Clients, pc[c] \in {"forget", "drop"}, Return(c),
           PutMultipartMeta(req[c].up, None), UNCHANGED <<dir, files, left>>
    PROVE  DirInv'
  <1>1. PICK u \in Uploads : u = req[c].up
    BY UploadIds DEF Typed, LocalsTyped
  <1>2. u \in left \/ (u \notin dir /\ files[u] = NoParts)
    BY <1>1 DEF DirInv, StepsFit, FilesInDir
  <1>3. record'[u] = None /\ \A v \in Uploads \ {u} : record'[v] = record[v]
    BY <1>1 DEF Typed, StoreTyped, PutMultipartMeta
  <1>4. Kept(States \ {"idle"})
    BY KeptOnReturn
  <1>5. \A d \in Clients : pc'[d] \in HoldsUpload => req'[d].up # u
    BY <1>1, ReturnShape DEF LockInv, UploadExclusive, Only
  <1>6. \A d \in Clients : pc'[d] # "idle" => pc[d] # "idle" /\ req'[d].up \in Uploads
    <2>1. \A d \in Clients : pc'[d] # "idle" => pc[d] # "idle" /\ req'[d] = req[d]
      BY ReturnShape DEF Only
    <2> QED
      BY <2>1, UploadIds DEF Typed, LocalsTyped
  <1>7. StepsFit'
    <2> SUFFICES ASSUME NEW d \in Clients, pc'[d] # "idle" PROVE
            /\ pc'[d] = "create" => record'[req'[d].up] = None /\ req'[d].up \in dir' \ left'
            /\ pc'[d] \in {"prepared", "staged"} /\ req'[d].up \in dir' \ left' => record'[req'[d].up] # None
            /\ pc'[d] \in {"assemble", "publish", "cleanup"} => record'[req'[d].up] # None
            /\ pc'[d] = "publish" => req'[d].up \in dir'
            /\ pc'[d] \in {"forget", "drop"} => req'[d].up \notin dir' \ left'
      BY DEF StepsFit
    <2>1. pc'[d] = pc[d] /\ req'[d] = req[d] /\ d # c /\ req[d].up \in Uploads
      BY <1>6, ReturnShape DEF Only
    <2>2. CASE req[d].up = u
      BY <1>2, <1>3, <1>5, <2>1, <2>2 DEF DirInv, StepsFit
    <2>3. CASE req[d].up # u
      BY <1>3, <2>1, <2>3 DEF DirInv, StepsFit
    <2> QED
      BY <2>2, <2>3
  <1>8. NoUnreachableParts'
    BY <1>2, <1>3 DEF DirInv, NoUnreachableParts, NoParts
  <1> QED
    BY <1>7, <1>8 DEF DirInv, FilesInDir

(* The holder of the upload's lock removes directory and files. *)
LEMMA DirRemove ==
    ASSUME Typed, LockInv, DirInv, NEW c \in Clients, NEW s \in {"forget", "drop"},
           pc[c] # "idle", record[req[c].up] # None, pc[c] \in HoldsUpload \/ LockUpload(c),
           Goto(c, s), UNCHANGED <<req, record>>, RemoveAll(req[c].up)
    PROVE  DirInv'
  <1>1. PICK u \in Uploads : u = req[c].up
    BY UploadIds DEF Typed, LocalsTyped
  <1>2. /\ \/ dir' = dir \ {u} /\ left' = left \ {u} /\ files'[u] = NoParts
           \/ u \in dir /\ dir' = dir /\ left' = left \cup {u}
        /\ \A v \in Uploads \ {u} : files'[v] = files[v]
    BY <1>1, RemoveShape
  <1>3. pc'[c] = s /\ Only(c) /\ req'[c].up = u
    BY <1>1, GotoShape DEF States
  <1>4. \A d \in Clients \ {c} : pc[d] \in HoldsUpload => req[d].up # u
    BY <1>1 DEF LockInv, UploadExclusive, LockUpload
  <1>5. \A d \in Clients : pc[d] = "create" => req[d].up # u
    BY <1>1 DEF DirInv, StepsFit
  <1>6. StepsFit'
    BY <1>2, <1>3, <1>4, <1>5 DEF DirInv, StepsFit, Only
  <1>7. FilesInDir'
    BY <1>2 DEF DirInv, FilesInDir
  <1>8. NoUnreachableParts'
    BY <1>2 DEF DirInv, NoUnreachableParts, NoParts
  <1> QED
    BY <1>6, <1>7, <1>8 DEF DirInv

LEMMA DirRequest ==
    ASSUME Typed, DirInv, NEW c \in Clients, Request(c)
    PROVE  DirInv'
  <1>1. CASE CreateMultipartUpload(c)
    <2>1. pc'[c] = "create" /\ req'[c].up = created + 1 /\ Only(c)
      BY <1>1, TypedCreate
    <2>2. UNCHANGED <<record, files, left>> /\ dir' = dir \cup {created + 1}
      BY <1>1 DEF CreateMultipartUpload
    <2>3. /\ created \in Nat /\ created + 1 \in Uploads /\ record[created + 1] = None
          /\ created + 1 \notin left
      BY <1>1, MultipartAssumption DEF CreateMultipartUpload, Typed, StoreTyped, Uploads
    <2>4. \A d \in Clients : pc[d] # "idle" => req[d].up # created + 1
      BY DEF Typed, LocalsTyped, StoreTyped
    <2>5. StepsFit'
      BY <2>1, <2>2, <2>3, <2>4 DEF DirInv, StepsFit, Only
    <2> QED
      BY <2>2, <2>5 DEF DirInv, FilesInDir, NoUnreachableParts
  <1>2. CASE ~CreateMultipartUpload(c)
    <2>1. PICK s \in {"upload", "complete", "abort"}, r \in Requests : Begin(c, s, r)
      BY <1>2, Requested
    <2>2. pc'[c] = s /\ Only(c)
      BY <2>1, BeginShape DEF States
    <2>3. UNCHANGED <<record, dir, files, left>>
      BY <1>2, Requested
    <2> QED
      BY <2>2, <2>3, DirFrame DEF Kept, Only
  <1> QED
    BY <1>1, <1>2

LEMMA DirUploadSteps ==
    ASSUME Typed, TempsStaged, LockInv, DirInv, NEW c \in Clients,
           \/ StoreRecord(c) \/ PrepareUpload(c) \/ StagePart(c) \/ RenamePart(c) \/ RecordPart(c)
           \/ UploadFails(c)
    PROVE  DirInv'
  <1> USE DEF States
  <1>0. PICK u \in Uploads : u = req[c].up
    <2>1. pc[c] # "idle"
      BY DEF StoreRecord, PrepareUpload, StagePart, RenamePart, RecordPart, UploadFails
    <2> QED
      BY <2>1, UploadIds DEF Typed, LocalsTyped
  <1>1. CASE StoreRecord(c)
    <2>1. /\ UNCHANGED <<dir, files, left>> /\ pc[c] = "create" /\ Return(c)
          /\ record' = [record EXCEPT ![u] = [sse |-> NoKey, parts |-> NoParts]]
      BY <1>0, <1>1 DEF StoreRecord, PutMultipartMeta
    <2>2. record'[u] # None /\ \A v \in Uploads \ {u} : record'[v] = record[v]
      BY <2>1, EmptyRecord, MultipartAssumption DEF Typed, StoreTyped, Record, MaybeKey
    <2>3. \A d \in Clients : pc'[d] = "create" => req'[d].up # u
      BY <1>0, <2>1, ReturnShape DEF LockInv, OneCreator, Only
    <2>4. \A d \in Clients : pc'[d] # "idle" => pc'[d] = pc[d] /\ req'[d] = req[d] /\ req[d].up \in Uploads
      BY <2>1, ReturnShape, UploadIds DEF Only, Typed, LocalsTyped
    <2>5. StepsFit'
      BY <2>1, <2>2, <2>3, <2>4 DEF DirInv, StepsFit
    <2>6. NoUnreachableParts'
      BY <2>1, <2>2 DEF DirInv, NoUnreachableParts
    <2> QED
      BY <2>1, <2>5, <2>6 DEF DirInv, FilesInDir
  <1>2. CASE PrepareUpload(c)
    <2>1. CASE record[u] = None
      BY <1>0, <1>2, <2>1, KeptOnReturn, DirFrame DEF PrepareUpload, GetMultipartMeta, Kept
    <2>2. CASE record[u] # None
      <3>1. record[u] \in Record /\ req[c].key \in MaybeKey
        BY <2>2 DEF Typed, StoreTyped, LocalsTyped, Requests
      <3>2. PICK r \in Record : r = WithKey(record[u], req[c].key)
        BY <3>1, WithKeyTyped
      <3>3. /\ record' = [record EXCEPT ![u] = r] /\ UNCHANGED <<dir, files, left>>
            /\ Return(c) \/ (Goto(c, "prepared") /\ UNCHANGED req)
        BY <1>0, <1>2, <2>2, <3>2 DEF PrepareUpload, GetMultipartMeta, PutMultipartMeta
      <3>4. /\ Kept({"create", "staged", "assemble", "publish", "cleanup", "forget", "drop"})
            /\ \A d \in Clients : pc'[d] = "prepared" =>
                  req'[d] = req[d] /\ (pc[d] = "prepared" \/ req[d].up = u)
        <4>1. CASE Return(c)
          BY <4>1, KeptOnReturn DEF Kept
        <4>2. CASE Goto(c, "prepared") /\ UNCHANGED req
          BY <1>0, <4>2, GotoShape DEF Kept, Only
        <4> QED
          BY <3>3, <4>1, <4>2
      <3> QED
        BY <2>2, <3>3, <3>4, DirRewrite
    <2> QED
      BY <2>1, <2>2
  <1>3. CASE StagePart(c)
    <2>1. CASE u \in dir
      <3>1. pc[c] = "prepared" /\ pc'[c] = "staged" /\ req'[c] = req[c] /\ Only(c)
        BY <1>0, <1>3, <2>1, GotoShape DEF StagePart
      <3>2. UNCHANGED <<record, dir, files, left>>
        BY <1>3 DEF StagePart
      <3>3. StepsFit'
        BY <3>1, <3>2 DEF DirInv, StepsFit, Only
      <3> QED
        BY <3>2, <3>3 DEF DirInv, FilesInDir, NoUnreachableParts
    <2>2. CASE u \notin dir
      BY <1>0, <1>3, <2>2, KeptOnReturn, DirFrame DEF StagePart, Kept
    <2> QED
      BY <2>1, <2>2
  <1>4. CASE RenamePart(c)
    <2>0. UNCHANGED <<record, dir, left>> /\ pc[c] = "staged"
      BY <1>4 DEF RenamePart
    <2>1. CASE Return(c) /\ UNCHANGED files
      BY <2>0, <2>1, KeptOnReturn, DirFrame DEF Kept
    <2>2. CASE /\ Goto(c, "renamed") /\ UNCHANGED req /\ c \in temps
               /\ \A v \in Uploads, p \in Parts :
                     v # req[c].up \/ p # req[c].part => files'[v][p] = files[v][p]
      <3>1. files' \in [Uploads -> [Parts -> PartFile \cup {None}]]
        BY <1>4, RenameShape
      <3>2. u \in dir /\ (record[u] # None \/ u \in left)
        BY <1>0, <2>0, <2>2 DEF TempsStaged, DirInv, StepsFit
      <3>3. StepsFit'
        BY <2>0, <2>2, KeptOnGoto DEF DirInv, StepsFit, Kept
      <3>4. \A v \in Uploads \ {u} : files'[v] = files[v]
        BY <1>0, <2>2, <3>1 DEF Typed, StoreTyped
      <3> QED
        BY <1>0, <2>0, <2>2, <3>2, <3>3, <3>4 DEF DirInv, FilesInDir, NoUnreachableParts
    <2> QED
      BY <1>4, <2>1, <2>2, RenameShape
  <1>5. CASE RecordPart(c)
    <2>0. UNCHANGED <<dir, files, left>> /\ Return(c) /\ pc[c] = "renamed"
      BY <1>5 DEF RecordPart
    <2>1. CASE record[u] = None
      BY <1>0, <1>5, <2>0, <2>1, KeptOnReturn, DirFrame DEF RecordPart, Kept
    <2>2. CASE record[u] # None
      <3>1. record[u] \in Record /\ req[c].part \in Parts /\ req[c].data \in Contents
        BY <2>0, <2>2 DEF Typed, StoreTyped, LocalsTyped
      <3>2. PICK r \in Record : r = [record[u] EXCEPT !.parts[req[c].part] = req[c].data]
        BY <3>1 DEF Record
      <3>3. record' = [record EXCEPT ![u] = r]
        BY <1>0, <1>5, <2>2, <3>2 DEF RecordPart, PutMultipartMeta
      <3>4. Kept(States \ {"idle"})
        BY <2>0, KeptOnReturn
      <3> QED
        BY <2>0, <2>2, <3>3, <3>4, DirRewrite DEF Kept
    <2> QED
      BY <2>1, <2>2
  <1>6. CASE UploadFails(c)
    BY <1>6, KeptOnReturn, DirFrame DEF UploadFails, Kept
  <1> QED
    BY <1>1, <1>2, <1>3, <1>4, <1>5, <1>6

LEMMA DirCompleteSteps ==
    ASSUME Typed, LockInv, DirInv, NEW c \in Clients,
           \/ Validate(c) \/ CopyPart(c) \/ Publish(c) \/ Cleanup(c) \/ Forget(c) \/ RemoveParts(c)
           \/ DropRecord(c) \/ RequestFails(c)
    PROVE  DirInv'
  <1> USE DEF States
  <1>1. CASE Validate(c)
    <2>0. UNCHANGED <<record, dir, files, left>> /\ pc[c] = "complete"
      BY <1>1 DEF Validate
    <2>1. CASE Return(c)
      BY <2>0, <2>1, KeptOnReturn, DirFrame DEF Kept
    <2>2. CASE ~Return(c)
      <3>1. /\ pc'[c] = "assemble" /\ Only(c) /\ req'[c].up = req[c].up
            /\ record[req[c].up] # None
        BY <1>1, <2>2, ValidateShape
      <3>2. StepsFit'
        BY <2>0, <3>1 DEF DirInv, StepsFit, Only
      <3> QED
        BY <2>0, <3>2 DEF DirInv, FilesInDir, NoUnreachableParts
    <2> QED
      BY <2>1, <2>2
  <1>2. CASE CopyPart(c)
    <2>0. UNCHANGED <<record, dir, files, left>> /\ pc[c] = "assemble"
      BY <1>2 DEF CopyPart
    <2>1. CASE Return(c)
      BY <2>0, <2>1, KeptOnReturn, DirFrame DEF Kept
    <2>2. CASE ~Return(c)
      <3>1. PICK p \in Parts, f \in PartFile :
                /\ f = files[req[c].up][p] /\ Only(c) /\ req'[c].up = req[c].up
                /\ pc'[c] \in {"assemble", "publish"}
        BY <1>2, <2>2, CopyShape
      <3>2. req[c].up \in Uploads /\ None \notin PartFile
        BY <2>0, UploadIds, MultipartAssumption DEF Typed, LocalsTyped, PartFile, MaybeKey
      <3>3. req[c].up \in dir
        BY <3>1, <3>2 DEF DirInv, FilesInDir, NoParts
      <3>4. StepsFit'
        BY <2>0, <3>1, <3>3 DEF DirInv, StepsFit, Only
      <3> QED
        BY <2>0, <3>4 DEF DirInv, FilesInDir, NoUnreachableParts
    <2> QED
      BY <2>1, <2>2
  <1>3. CASE Publish(c)
    <2>0. UNCHANGED <<record, dir, files, left>> /\ pc[c] = "publish"
      BY <1>3 DEF Publish
    <2>1. pc'[c] = "cleanup" /\ Only(c) /\ req'[c] = req[c]
      BY <1>3, GotoShape DEF Publish
    <2>2. StepsFit'
      BY <2>0, <2>1 DEF DirInv, StepsFit, Only
    <2> QED
      BY <2>0, <2>2 DEF DirInv, FilesInDir, NoUnreachableParts
  <1>4. CASE Cleanup(c)
    BY <1>4, DirRemove DEF Cleanup, DirInv, StepsFit
  <1>5. CASE Forget(c)
    <2>1. CASE UNCHANGED record
      BY <1>5, <2>1, KeptOnReturn, DirFrame DEF Forget, Kept
    <2> QED
      BY <1>5, <2>1, DirForget DEF Forget
  <1>6. CASE RemoveParts(c)
    <2>1. CASE record[req[c].up] = None
      BY <1>6, <2>1, KeptOnReturn, DirFrame DEF RemoveParts, GetMultipartMeta, Kept
    <2>2. CASE record[req[c].up] # None
      BY <1>6, <2>2, DirRemove DEF RemoveParts, GetMultipartMeta
    <2> QED
      BY <2>1, <2>2
  <1>7. CASE DropRecord(c)
    BY <1>7, DirForget DEF DropRecord
  <1>8. CASE RequestFails(c)
    BY <1>8, KeptOnReturn, DirFrame DEF RequestFails, Kept
  <1> QED
    BY <1>1, <1>2, <1>3, <1>4, <1>5, <1>6, <1>7, <1>8

LEMMA DirNext == Typed /\ TempsStaged /\ LockInv /\ DirInv /\ [Next]_vars => DirInv'
  <1> SUFFICES ASSUME Typed, TempsStaged, LockInv, DirInv, [Next]_vars PROVE DirInv'
    OBVIOUS
  <1>1. ASSUME NEW c \in Clients, Request(c) PROVE DirInv'
    BY <1>1, DirRequest
  <1>2. ASSUME NEW c \in Clients, Locking(c) \/ Progress(c) \/ Failure(c) PROVE DirInv'
    BY <1>2, DirUploadSteps, DirCompleteSteps DEF Locking, Progress, Failure
  <1>3. CASE Crash
    BY <1>3, DirFrame DEF Crash, Kept
  <1>4. CASE UNCHANGED vars
    BY <1>4, DirFrame DEF vars, Kept
  <1> QED
    BY <1>1, <1>2, <1>3, <1>4 DEF Next, Idle

-----------------------------------------------------------------------------
(***************************************************************************)
(* Part files and the records of parts.                                    *)
(***************************************************************************)
(* A request between rename and record stays there, or leaves its part torn. *)
Settled ==
    /\ torn \subseteq torn'
    /\ \A d \in Clients : pc[d] = "renamed" =>
          (pc'[d] = "renamed" /\ req'[d] = req[d]) \/ <<req[d].up, req[d].part>> \in torn'

LEMMA SettledElsewhere ==
    ASSUME NEW c \in Clients, Only(c), pc[c] # "renamed", UNCHANGED torn
    PROVE  Settled /\ (pc'[c] # "renamed" => Kept({"renamed"}))
  BY DEF Settled, Kept, Only

(* No step but RecordPart records a part. *)
PartsKept ==
    \A u \in Uploads, p \in Parts : record'[u] # None /\ record'[u].parts[p] # None =>
        record[u] # None /\ record[u].parts[p] = record'[u].parts[p]

LEMMA PairFrame ==
    ASSUME Typed, PairInv, Settled, Kept({"renamed"}), PartsKept,
           dir' \subseteq dir \cup {v \in Uploads : v > created},
           \A u \in dir' : u \in left => u \in left',
           \A u \in dir', p \in Parts :
              files'[u][p] = files[u][p] \/ (files'[u][p] = None /\ u \in left'),
           \A u \in Uploads : u > created => record'[u] = None
    PROVE  PairInv'
  <1>1. RenamedInPlace'
    <2> SUFFICES ASSUME NEW d \in Clients, pc'[d] = "renamed", req'[d].up \in dir'
                 PROVE  \/ files'[req'[d].up][req'[d].part] = [data |-> req'[d].data, key |-> req'[d].key]
                        \/ files'[req'[d].up][req'[d].part] = None /\ req'[d].up \in left'
      BY DEF RenamedInPlace
    <2>1. pc[d] = "renamed" /\ req'[d] = req[d]
      BY DEF Kept
    <2>2. req[d].up <= created /\ req[d].up \in Nat /\ created \in Nat /\ req[d].part \in Parts
      BY <2>1 DEF Typed, LocalsTyped, StoreTyped
    <2>3. req[d].up \in dir
      BY <2>1, <2>2
    <2>4. PICK u \in dir', p \in Parts : u = req[d].up /\ p = req[d].part
      BY <2>1, <2>2
    <2>5. \/ files[u][p] = [data |-> req[d].data, key |-> req[d].key]
          \/ files[u][p] = None /\ u \in left
      BY <2>1, <2>3, <2>4 DEF PairInv, RenamedInPlace
    <2>6. files'[u][p] = files[u][p] \/ (files'[u][p] = None /\ u \in left')
      OBVIOUS
    <2>7. u \in left => u \in left'
      OBVIOUS
    <2> QED
      BY <2>1, <2>4, <2>5, <2>6, <2>7
  <1>2. PartsPaired'
    <2> SUFFICES ASSUME NEW u \in dir', NEW p \in Parts, record'[u] # None, record'[u].parts[p] # None
                 PROVE  \/ Replacing(u, p)' \/ <<u, p>> \in torn'
                        \/ files'[u][p] = None /\ u \in left'
                        \/ files'[u][p] # None /\ files'[u][p].data = record'[u].parts[p]
      BY DEF PartsPaired
    <2>1. u \in dir /\ u \in Uploads
      BY UploadIds DEF Typed, StoreTyped
    <2>2. record[u] # None /\ record[u].parts[p] = record'[u].parts[p]
      BY <2>1 DEF PartsKept
    <2>3. Replacing(u, p) => Replacing(u, p)' \/ <<u, p>> \in torn'
      BY DEF Replacing, Settled
    <2> QED
      BY <2>1, <2>2, <2>3 DEF PairInv, PartsPaired, Settled
  <1> QED
    BY <1>1, <1>2 DEF PairInv

(* The records of uploads that are not created yet stay empty. *)
LEMMA PairSame ==
    ASSUME Typed, PairInv, Settled, Kept({"renamed"}), UNCHANGED <<record, dir, files, left>>
    PROVE  PairInv'
  BY PairFrame DEF PartsKept, Typed, StoreTyped

LEMMA PairPutRecord ==
    ASSUME Typed, PairInv, NEW c \in Clients, Only(c), pc[c] \notin {"idle", "renamed"},
           pc'[c] # "renamed", NEW r \in Record \cup {None}, PutMultipartMeta(req[c].up, r),
           \A p \in Parts : r # None /\ r.parts[p] # None =>
               record[req[c].up] # None /\ record[req[c].up].parts[p] = r.parts[p],
           UNCHANGED <<dir, files, torn, left>>
    PROVE  PairInv'
  <1>1. PICK u \in Uploads : u = req[c].up /\ u <= created
    BY UploadIds DEF Typed, LocalsTyped
  <1>2. record'[u] = r /\ \A v \in Uploads \ {u} : record'[v] = record[v]
    BY <1>1 DEF Typed, StoreTyped, PutMultipartMeta
  <1>3. PartsKept
    BY <1>1, <1>2 DEF PartsKept
  <1>4. \A v \in Uploads : v > created => record'[v] = None
    BY <1>1, <1>2 DEF Typed, StoreTyped, Uploads
  <1> QED
    BY <1>3, <1>4, SettledElsewhere, PairFrame

LEMMA PairRemove ==
    ASSUME Typed, PairInv, NEW c \in Clients, Only(c), pc[c] \notin {"idle", "renamed"},
           pc'[c] # "renamed", RemoveAll(req[c].up), UNCHANGED <<record, torn>>
    PROVE  PairInv'
  <1>0. PICK v \in Uploads : v = req[c].up
    BY UploadIds DEF Typed, LocalsTyped
  <1>1. \A u \in dir' : /\ u \in dir /\ (u \in left => u \in left')
                       /\ \A p \in Parts : files'[u][p] = files[u][p] \/ (files'[u][p] = None /\ u \in left')
    <2>1. dir' \subseteq dir /\ dir \subseteq Uploads
      BY <1>0, RemoveShape, UploadIds DEF Typed, StoreTyped
    <2> QED
      BY <1>0, <2>1, RemoveShape
  <1>2. PartsKept /\ \A u \in Uploads : u > created => record'[u] = None
    BY DEF PartsKept, Typed, StoreTyped
  <1> QED
    BY <1>1, <1>2, SettledElsewhere, PairFrame

LEMMA PairRequest ==
    ASSUME Typed, PairInv, NEW c \in Clients, Request(c)
    PROVE  PairInv'
  <1>1. CASE CreateMultipartUpload(c)
    <2>1. pc[c] = "idle" /\ pc'[c] = "create" /\ Only(c)
      BY <1>1, TypedCreate
    <2>2. UNCHANGED <<record, files, torn, left>> /\ dir' = dir \cup {created + 1}
      BY <1>1 DEF CreateMultipartUpload
    <2>3. created + 1 \in Uploads /\ created + 1 > created
      BY <1>1, MultipartAssumption DEF CreateMultipartUpload, Typed, StoreTyped, Uploads
    <2>4. PartsKept /\ \A u \in Uploads : u > created => record'[u] = None
      BY <2>2 DEF PartsKept, Typed, StoreTyped
    <2> QED
      BY <2>1, <2>2, <2>3, <2>4, SettledElsewhere, PairFrame
  <1>2. CASE ~CreateMultipartUpload(c)
    <2>1. PICK s \in {"upload", "complete", "abort"}, r \in Requests : Begin(c, s, r)
      BY <1>2, Requested
    <2>2. pc[c] = "idle" /\ pc'[c] = s /\ Only(c)
      BY <2>1, BeginShape DEF States
    <2>3. UNCHANGED <<record, dir, files, torn, left>>
      BY <1>2, Requested
    <2> QED
      BY <2>2, <2>3, SettledElsewhere, PairSame
  <1> QED
    BY <1>1, <1>2

LEMMA PairUploadSteps ==
    ASSUME Typed, LockInv, PairInv, NEW c \in Clients,
           StoreRecord(c) \/ PrepareUpload(c) \/ StagePart(c) \/ UploadFails(c)
    PROVE  PairInv'
  <1> USE DEF States
  <1>1. CASE StoreRecord(c)
    <2>1. pc[c] = "create" /\ pc'[c] = "idle" /\ Only(c)
      BY <1>1, ReturnShape DEF StoreRecord
    <2>2. PICK r \in Record : r = [sse |-> NoKey, parts |-> NoParts]
      BY EmptyRecord
    <2> QED
      BY <1>1, <2>1, <2>2, PairPutRecord DEF StoreRecord, NoParts
  <1>2. CASE PrepareUpload(c)
    <2>0. UNCHANGED <<dir, files, torn, left>> /\ pc[c] = "upload" /\ req[c].up \in Uploads
      BY <1>2, UploadIds DEF PrepareUpload, Typed, LocalsTyped
    <2>1. Only(c) /\ pc'[c] # "renamed"
      BY <1>2, ReturnShape, GotoShape DEF PrepareUpload
    <2>2. CASE record[req[c].up] = None
      <3>1. UNCHANGED record
        BY <1>2, <2>2 DEF PrepareUpload, GetMultipartMeta
      <3> QED
        BY <2>0, <2>1, <3>1, SettledElsewhere, PairSame
    <2>3. CASE record[req[c].up] # None
      <3>1. record[req[c].up] \in Record /\ req[c].key \in MaybeKey
        BY <2>0, <2>3 DEF Typed, StoreTyped, LocalsTyped, Requests
      <3>2. PICK r \in Record : r = WithKey(record[req[c].up], req[c].key)
        BY <3>1, WithKeyTyped
      <3>3. PutMultipartMeta(req[c].up, r) /\ r.parts = record[req[c].up].parts
        BY <1>2, <2>3, <3>1, <3>2, WithKeyTyped DEF PrepareUpload, GetMultipartMeta
      <3> QED
        BY <2>0, <2>1, <2>3, <3>3, PairPutRecord
    <2> QED
      BY <2>2, <2>3
  <1>3. CASE StagePart(c)
    <2>1. Only(c) /\ pc'[c] # "renamed" /\ pc[c] = "prepared" /\ UNCHANGED <<record, dir, files, torn, left>>
      BY <1>3, ReturnShape, GotoShape DEF StagePart
    <2> QED
      BY <2>1, SettledElsewhere, PairSame
  <1>4. CASE UploadFails(c)
    <2>1. Only(c) /\ pc'[c] = "idle" /\ UNCHANGED <<record, dir, files, left>>
      BY <1>4, ReturnShape DEF UploadFails
    <2>2. torn \subseteq torn' /\ (pc[c] = "renamed" => <<req[c].up, req[c].part>> \in torn')
      BY <1>4 DEF UploadFails
    <2>3. Settled /\ Kept({"renamed"})
      BY <2>1, <2>2 DEF Settled, Kept, Only
    <2> QED
      BY <2>1, <2>3, PairSame
  <1> QED
    BY <1>1, <1>2, <1>3, <1>4

(* The file is replaced: the part is being replaced by this request, and   *)
(* by no other, which the lock of the part excludes.                       *)
LEMMA PairRename ==
    ASSUME Typed, LockInv, PairInv, NEW c \in Clients, RenamePart(c)
    PROVE  PairInv'
  <1>0. UNCHANGED <<record, dir, torn, left>> /\ pc[c] = "staged"
    BY DEF RenamePart
  <1>1. CASE Return(c) /\ UNCHANGED files
    BY <1>0, <1>1, ReturnShape, SettledElsewhere, PairSame
  <1>2. CASE /\ Goto(c, "renamed") /\ UNCHANGED req /\ c \in temps
             /\ files'[req[c].up][req[c].part] = [data |-> req[c].data, key |-> req[c].key]
             /\ \A u \in Uploads, p \in Parts :
                   u # req[c].up \/ p # req[c].part => files'[u][p] = files[u][p]
    <2>1. pc'[c] = "renamed" /\ req'[c] = req[c] /\ Only(c)
      BY <1>2, GotoShape DEF States
    <2>2. \A d \in Clients : pc[d] = "renamed" => pc'[d] = "renamed" /\ req'[d] = req[d] /\ d # c
      BY <1>0, <2>1 DEF Only
    <2>3. \A d \in Clients : pc[d] = "renamed" => req[d].up # req[c].up \/ req[d].part # req[c].part
      BY <1>0 DEF LockInv, PartExclusive
    <2>4. \A d \in Clients : pc[d] = "renamed" => req[d].up \in Uploads /\ req[d].part \in Parts
      BY UploadIds DEF Typed, LocalsTyped
    <2>5. \A d \in Clients : pc'[d] = "renamed" => d = c \/ (pc[d] = "renamed" /\ req'[d] = req[d])
      BY <2>1 DEF Only
    <2>6. RenamedInPlace'
      BY <1>0, <1>2, <2>1, <2>3, <2>4, <2>5 DEF PairInv, RenamedInPlace
    <2>7. \A u \in Uploads, p \in Parts : u = req[c].up /\ p = req[c].part => Replacing(u, p)'
      BY <2>1 DEF Replacing
    <2>8. \A u \in Uploads, p \in Parts : Replacing(u, p) => Replacing(u, p)'
      BY <2>2 DEF Replacing
    <2>9. dir \subseteq Uploads
      BY UploadIds DEF Typed, StoreTyped
    <2>10. PartsPaired'
      <3> SUFFICES ASSUME NEW u \in dir, NEW p \in Parts, record[u] # None, record[u].parts[p] # None
                   PROVE  \/ Replacing(u, p)' \/ <<u, p>> \in torn
                          \/ files'[u][p] = None /\ u \in left
                          \/ files'[u][p] # None /\ files'[u][p].data = record[u].parts[p]
        BY <1>0 DEF PartsPaired
      <3>1. CASE u = req[c].up /\ p = req[c].part
        BY <2>7, <2>9, <3>1
      <3>2. CASE u # req[c].up \/ p # req[c].part
        BY <1>2, <2>8, <2>9, <3>2 DEF PairInv, PartsPaired
      <3> QED
        BY <3>1, <3>2
    <2> QED
      BY <2>6, <2>10 DEF PairInv
  <1> QED
    BY <1>1, <1>2, RenameShape

(* The record gets the content that the rename put in place. *)
LEMMA PairRecord ==
    ASSUME Typed, LockInv, PairInv, NEW c \in Clients, RecordPart(c)
    PROVE  PairInv'
  <1> DEFINE u == req[c].up
             p == req[c].part
  <1>1. /\ pc[c] = "renamed" /\ UNCHANGED <<dir, files, left>> /\ Return(c)
        /\ torn' = torn \ {<<u, p>>}
        /\ IF record[u] = None THEN UNCHANGED record
           ELSE record' = [record EXCEPT ![u] = [record[u] EXCEPT !.parts[p] = req[c].data]]
    BY DEF RecordPart, PutMultipartMeta
  <1>2. u \in Uploads /\ p \in Parts /\ req[c].data \in Contents
    BY <1>1, UploadIds DEF Typed, LocalsTyped
  <1>3. pc'[c] = "idle" /\ Only(c)
    BY <1>1, ReturnShape
  <1>4. RenamedInPlace'
    BY <1>1, <1>3 DEF PairInv, RenamedInPlace, Only
  <1>5. ASSUME NEW v \in Uploads, NEW q \in Parts, v # u \/ q # p
        PROVE  Replacing(v, q) => Replacing(v, q)'
    BY <1>3, <1>5 DEF Replacing, Only
  <1>6. ASSUME NEW v \in Uploads, NEW q \in Parts, v # u \/ q # p, record[v] # None
        PROVE  record'[v] # None /\ record'[v].parts[q] = record[v].parts[q]
    <2>1. CASE record[u] = None \/ v # u
      BY <1>1, <1>2, <1>6, <2>1 DEF Typed, StoreTyped
    <2>2. CASE record[u] # None /\ v = u
      <3>1. record[u] \in Record
        BY <1>2, <2>2 DEF Typed, StoreTyped
      <3>2. PICK r \in Record : r = [record[u] EXCEPT !.parts[p] = req[c].data]
        BY <1>2, <3>1 DEF Record
      <3>3. record'[u] = r /\ r # None
        BY <1>1, <1>2, <2>2, <3>2, MultipartAssumption DEF Typed, StoreTyped, Record, MaybeKey
      <3>4. r.parts[q] = record[u].parts[q]
        BY <1>2, <1>6, <2>2, <3>1, <3>2 DEF Record
      <3> QED
        BY <2>2, <3>3, <3>4
    <2> QED
      BY <2>1, <2>2
  <1>7. \A v \in Uploads : record'[v] # None => record[v] # None
    BY <1>1, <1>2 DEF Typed, StoreTyped
  <1>8. u \in dir => \/ files[u][p] = [data |-> req[c].data, key |-> req[c].key]
                     \/ files[u][p] = None /\ u \in left
    BY <1>1 DEF PairInv, RenamedInPlace
  <1>9. record[u] # None => record'[u].parts[p] = req[c].data
    <2> SUFFICES ASSUME record[u] # None PROVE record'[u].parts[p] = req[c].data
      OBVIOUS
    <2>1. record[u] \in Record
      BY <1>2 DEF Typed, StoreTyped
    <2>2. PICK r \in Record : r = [record[u] EXCEPT !.parts[p] = req[c].data]
      BY <1>2, <2>1 DEF Record
    <2>3. record'[u] = r
      BY <1>1, <1>2, <2>2 DEF Typed, StoreTyped
    <2>4. r.parts[p] = req[c].data
      BY <1>2, <2>1, <2>2 DEF Record
    <2> QED
      BY <2>3, <2>4
  <1>10. [data |-> req[c].data, key |-> req[c].key] # None
    <2>1. [data |-> req[c].data, key |-> req[c].key] \in PartFile
      BY <1>2 DEF PartFile, Typed, LocalsTyped, Requests
    <2> QED
      BY <2>1, MultipartAssumption DEF PartFile, MaybeKey
  <1>11. PartsPaired'
    <2> SUFFICES ASSUME NEW v \in dir, NEW q \in Parts, record'[v] # None, record'[v].parts[q] # None
                 PROVE  \/ Replacing(v, q)' \/ <<v, q>> \in torn'
                        \/ files[v][q] = None /\ v \in left
                        \/ files[v][q] # None /\ files[v][q].data = record'[v].parts[q]
      BY <1>1 DEF PartsPaired
    <2>1. v \in Uploads /\ record[v] # None
      BY <1>7, UploadIds DEF Typed, StoreTyped
    <2>2. CASE v = u /\ q = p
      BY <1>8, <1>9, <1>10, <2>1, <2>2
    <2>3. CASE v # u \/ q # p
      <3>1. record'[v].parts[q] = record[v].parts[q] /\ (Replacing(v, q) => Replacing(v, q)')
        BY <1>5, <1>6, <2>1, <2>3
      <3>2. <<v, q>> \in torn => <<v, q>> \in torn'
        BY <1>1, <2>3
      <3> QED
        BY <2>1, <3>1, <3>2 DEF PairInv, PartsPaired
    <2> QED
      BY <2>2, <2>3
  <1> QED
    BY <1>4, <1>11 DEF PairInv

LEMMA PairCompleteSteps ==
    ASSUME Typed, LockInv, PairInv, NEW c \in Clients,
           \/ Validate(c) \/ CopyPart(c) \/ Publish(c) \/ Cleanup(c) \/ Forget(c) \/ RemoveParts(c)
           \/ DropRecord(c) \/ RequestFails(c)
    PROVE  PairInv'
  <1> USE DEF States
  <1>0. UNCHANGED torn /\ pc[c] \notin {"idle", "renamed"}
    BY DEF Validate, CopyPart, Publish, Cleanup, Forget, RemoveParts, DropRecord, RequestFails
  <1>1. CASE Validate(c)
    <2>1. Only(c) /\ pc'[c] # "renamed"
      BY <1>1, ReturnShape, ValidateShape
    <2> QED
      BY <1>0, <1>1, <2>1, SettledElsewhere, PairSame DEF Validate
  <1>2. CASE CopyPart(c)
    <2>1. Only(c) /\ pc'[c] # "renamed"
      BY <1>2, ReturnShape, CopyShape
    <2> QED
      BY <1>0, <1>2, <2>1, SettledElsewhere, PairSame DEF CopyPart
  <1>3. CASE Publish(c)
    BY <1>0, <1>3, GotoShape, SettledElsewhere, PairSame DEF Publish
  <1>4. CASE Cleanup(c)
    BY <1>0, <1>4, GotoShape, PairRemove DEF Cleanup
  <1>5. CASE Forget(c)
    <2>1. Only(c) /\ pc'[c] # "renamed"
      BY <1>5, ReturnShape DEF Forget
    <2>2. CASE UNCHANGED record
      BY <1>0, <1>5, <2>1, <2>2, SettledElsewhere, PairSame DEF Forget
    <2> QED
      BY <1>0, <1>5, <2>1, <2>2, PairPutRecord DEF Forget
  <1>6. CASE RemoveParts(c)
    <2>1. Only(c) /\ pc'[c] # "renamed"
      BY <1>6, ReturnShape, GotoShape DEF RemoveParts
    <2>2. CASE UNCHANGED <<disk, left>>
      BY <1>0, <1>6, <2>1, <2>2, SettledElsewhere, PairSame DEF RemoveParts
    <2> QED
      BY <1>0, <1>6, <2>1, <2>2, PairRemove DEF RemoveParts
  <1>7. CASE DropRecord(c)
    BY <1>0, <1>7, ReturnShape, PairPutRecord DEF DropRecord
  <1>8. CASE RequestFails(c)
    BY <1>0, <1>8, ReturnShape, SettledElsewhere, PairSame DEF RequestFails
  <1> QED
    BY <1>1, <1>2, <1>3, <1>4, <1>5, <1>6, <1>7, <1>8

LEMMA PairNext == Typed /\ LockInv /\ PairInv /\ [Next]_vars => PairInv'
  <1> SUFFICES ASSUME Typed, LockInv, PairInv, [Next]_vars PROVE PairInv'
    OBVIOUS
  <1>1. ASSUME NEW c \in Clients, Request(c) PROVE PairInv'
    BY <1>1, PairRequest
  <1>2. ASSUME NEW c \in Clients, Locking(c) \/ Progress(c) \/ Failure(c) PROVE PairInv'
    BY <1>2, PairUploadSteps, PairRename, PairRecord, PairCompleteSteps DEF Locking, Progress, Failure
  <1>3. CASE Crash
    BY <1>3, PairSame DEF Crash, Kept, Settled
  <1>4. CASE UNCHANGED vars
    BY <1>4, PairSame DEF vars, Kept, Settled
  <1> QED
    BY <1>1, <1>2, <1>3, <1>4 DEF Next, Idle

-----------------------------------------------------------------------------
(***************************************************************************)
(* Keys.                                                                   *)
(***************************************************************************)
(* Whoever writes a part passed the check before. *)
CheckedBefore ==
    \A d \in Clients : pc'[d] \in {"prepared", "staged"} =>
        pc[d] \in {"prepared", "staged"} /\ req'[d] = req[d]

(* The key of an upload is set once. *)
KeySetOnce ==
    \A u \in Uploads : record'[u] # None =>
        record[u] # None /\ (record'[u].sse = record[u].sse \/ record[u].sse = NoKey)

LEMMA KeyFrame ==
    ASSUME Typed, KeyInv, CheckedBefore, KeySetOnce,
           \A u \in Uploads, p \in Parts : files'[u][p] \in {files[u][p], None}
    PROVE  KeyInv'
  <1>1. \A d \in Clients : pc[d] # "idle" => req[d].up \in Uploads
    BY UploadIds DEF Typed, LocalsTyped
  <1>2. KeyChecked'
    BY <1>1 DEF KeyInv, KeyChecked, CheckedBefore, KeySetOnce
  <1>3. NoForeignKey'
    BY DEF KeyInv, NoForeignKey, KeySetOnce
  <1> QED
    BY <1>2, <1>3 DEF KeyInv

LEMMA CheckedOnReturn ==
    ASSUME Typed, NEW c \in Clients, Return(c) PROVE CheckedBefore
  BY ReturnShape DEF CheckedBefore, Only

LEMMA KeySame ==
    ASSUME Typed, KeyInv, CheckedBefore, UNCHANGED <<record, files>> PROVE KeyInv'
  BY KeyFrame DEF KeySetOnce

LEMMA KeyForget ==
    ASSUME Typed, KeyInv, NEW c \in Clients, Return(c), pc[c] # "idle",
           PutMultipartMeta(req[c].up, None), UNCHANGED files
    PROVE  KeyInv'
  <1>1. KeySetOnce
    BY DEF KeySetOnce, PutMultipartMeta, Typed, StoreTyped
  <1> QED
    BY <1>1, CheckedOnReturn, KeyFrame

LEMMA KeyRemove ==
    ASSUME Typed, KeyInv, NEW c \in Clients, NEW s \in {"forget", "drop"}, Goto(c, s),
           UNCHANGED <<req, record>>, pc[c] # "idle", RemoveAll(req[c].up)
    PROVE  KeyInv'
  <1>1. \A u \in Uploads, p \in Parts : files'[u][p] \in {files[u][p], None}
    <2>1. PICK v \in Uploads : v = req[c].up
      BY UploadIds DEF Typed, LocalsTyped
    <2> QED
      BY <2>1, RemoveShape
  <1>2. CheckedBefore
    BY GotoShape DEF CheckedBefore, Only, States
  <1> QED
    BY <1>1, <1>2, KeyFrame DEF KeySetOnce

LEMMA KeyStore ==
    ASSUME Typed, DirInv, KeyInv, NEW c \in Clients, StoreRecord(c)
    PROVE  KeyInv'
  <1>1. PICK u \in Uploads : u = req[c].up
    BY UploadIds DEF StoreRecord, Typed, LocalsTyped
  <1>2. PICK r \in Record : r = [sse |-> NoKey, parts |-> NoParts]
    BY EmptyRecord
  <1>3. record'[u] = r /\ \A v \in Uploads \ {u} : record'[v] = record[v]
    BY <1>1, <1>2 DEF StoreRecord, PutMultipartMeta, Typed, StoreTyped
  <1>4. record[u] = None /\ u \in dir \ left
    BY <1>1 DEF StoreRecord, DirInv, StepsFit
  <1>5. \A p \in Parts : files[u][p] = None
    BY <1>4 DEF DirInv, NoUnreachableParts
  <1>6. \A d \in Clients : pc[d] \in {"prepared", "staged"} => req[d].up # u /\ req[d].up \in Uploads
    BY <1>4, UploadIds DEF DirInv, StepsFit, Typed, LocalsTyped
  <1>7. CheckedBefore
    BY CheckedOnReturn DEF StoreRecord
  <1>8. KeyChecked'
    BY <1>3, <1>6, <1>7 DEF KeyInv, KeyChecked, CheckedBefore
  <1>9. NoForeignKey'
    BY <1>3, <1>5 DEF StoreRecord, KeyInv, NoForeignKey
  <1> QED
    BY <1>8, <1>9 DEF KeyInv

LEMMA KeyPrepare ==
    ASSUME Typed, KeyInv, NEW c \in Clients, PrepareUpload(c)
    PROVE  KeyInv'
  <1>1. PICK u \in Uploads : u = req[c].up
    BY UploadIds DEF PrepareUpload, Typed, LocalsTyped
  <1>2. UNCHANGED files
    BY DEF PrepareUpload
  <1>3. CASE record[u] = None
    BY <1>1, <1>3, CheckedOnReturn, KeySame DEF PrepareUpload, GetMultipartMeta
  <1>4. CASE record[u] # None
    <2>1. record[u] \in Record /\ req[c].key \in MaybeKey
      BY <1>4 DEF Typed, StoreTyped, LocalsTyped, Requests
    <2>2. PICK r \in Record : r = WithKey(record[u], req[c].key)
      BY <2>1, WithKeyTyped
    <2>3. r.sse = record[u].sse \/ record[u].sse = NoKey
      BY <2>1, <2>2, WithKeyTyped
    <2>4. record'[u] = r /\ \A v \in Uploads \ {u} : record'[v] = record[v]
      BY <1>1, <1>4, <2>2 DEF PrepareUpload, GetMultipartMeta, PutMultipartMeta, Typed, StoreTyped
    <2>5. KeySetOnce
      BY <1>4, <2>3, <2>4 DEF KeySetOnce
    <2>6. CASE Return(c)
      BY <1>2, <2>5, <2>6, CheckedOnReturn, KeyFrame
    <2>7. CASE Goto(c, "prepared") /\ UNCHANGED req /\ r.sse = req[c].key
      <3>1. pc'[c] = "prepared" /\ req'[c] = req[c] /\ Only(c)
        BY <2>7, GotoShape DEF States
      <3>2. \A d \in Clients : pc[d] # "idle" => req[d].up \in Uploads
        BY UploadIds DEF Typed, LocalsTyped
      <3>3. ASSUME NEW d \in Clients \ {c}, pc'[d] \in {"prepared", "staged"}, record'[req'[d].up] # None
            PROVE  req'[d].key \in {NoKey, record'[req'[d].up].sse}
        BY <2>5, <3>1, <3>2, <3>3 DEF KeySetOnce, KeyInv, KeyChecked, Only
      <3>4. KeyChecked'
        BY <1>1, <2>4, <2>7, <3>1, <3>3 DEF KeyChecked
      <3>5. NoForeignKey'
        BY <1>2, <2>5 DEF KeySetOnce, KeyInv, NoForeignKey
      <3> QED
        BY <3>4, <3>5 DEF KeyInv
    <2> QED
      BY <1>1, <1>4, <2>2, <2>6, <2>7 DEF PrepareUpload, GetMultipartMeta
  <1> QED
    BY <1>3, <1>4

LEMMA KeyRename ==
    ASSUME Typed, KeyInv, NEW c \in Clients, RenamePart(c)
    PROVE  KeyInv'
  <1>0. UNCHANGED record /\ pc[c] = "staged"
    BY DEF RenamePart
  <1>1. CASE Return(c) /\ UNCHANGED files
    BY <1>0, <1>1, CheckedOnReturn, KeySame
  <1>2. CASE /\ Goto(c, "renamed") /\ UNCHANGED req
             /\ files'[req[c].up][req[c].part] = [data |-> req[c].data, key |-> req[c].key]
             /\ \A u \in Uploads, p \in Parts :
                   u # req[c].up \/ p # req[c].part => files'[u][p] = files[u][p]
    <2>1. KeyChecked'
      BY <1>0, <1>2, GotoShape DEF KeyInv, KeyChecked, Only, States
    <2>2. record[req[c].up] # None => req[c].key \in {NoKey, record[req[c].up].sse}
      BY <1>0 DEF KeyInv, KeyChecked
    <2>3. NoForeignKey'
      BY <1>0, <1>2, <2>2 DEF KeyInv, NoForeignKey
    <2> QED
      BY <2>1, <2>3 DEF KeyInv
  <1> QED
    BY <1>1, <1>2, RenameShape

LEMMA KeyRecord ==
    ASSUME Typed, KeyInv, NEW c \in Clients, RecordPart(c)
    PROVE  KeyInv'
  <1>1. PICK u \in Uploads : u = req[c].up
    BY UploadIds DEF RecordPart, Typed, LocalsTyped
  <1>2. UNCHANGED files /\ CheckedBefore
    BY CheckedOnReturn DEF RecordPart
  <1>3. CASE record[u] = None
    BY <1>1, <1>2, <1>3, KeySame DEF RecordPart
  <1>4. CASE record[u] # None
    <2>1. record[u] \in Record /\ req[c].part \in Parts /\ req[c].data \in Contents
      BY <1>4 DEF RecordPart, Typed, StoreTyped, LocalsTyped
    <2>2. PICK r \in Record : r = [record[u] EXCEPT !.parts[req[c].part] = req[c].data]
      BY <2>1 DEF Record
    <2>3. r.sse = record[u].sse
      BY <2>1, <2>2 DEF Record
    <2>4. record'[u] = r /\ \A v \in Uploads \ {u} : record'[v] = record[v]
      BY <1>1, <1>4, <2>2 DEF RecordPart, PutMultipartMeta, Typed, StoreTyped
    <2>5. KeySetOnce
      BY <1>4, <2>3, <2>4 DEF KeySetOnce
    <2> QED
      BY <1>2, <2>5, KeyFrame
  <1> QED
    BY <1>3, <1>4

LEMMA KeyNext == Typed /\ DirInv /\ KeyInv /\ [Next]_vars => KeyInv'
  <1> SUFFICES ASSUME Typed, DirInv, KeyInv, [Next]_vars PROVE KeyInv'
    OBVIOUS
  <1> USE DEF States
  <1>1. ASSUME NEW c \in Clients, CreateMultipartUpload(c) PROVE KeyInv'
    <2>1. CheckedBefore
      BY <1>1, TypedCreate DEF CheckedBefore, Only
    <2> QED
      BY <1>1, <2>1, KeySame DEF CreateMultipartUpload
  <1>2. ASSUME NEW c \in Clients, Request(c), ~CreateMultipartUpload(c) PROVE KeyInv'
    <2>1. PICK s \in {"upload", "complete", "abort"}, r \in Requests : Begin(c, s, r)
      BY <1>2, Requested
    <2>2. CheckedBefore
      BY <2>1, BeginShape DEF CheckedBefore, Only
    <2>3. UNCHANGED <<record, files>>
      BY <1>2, Requested
    <2> QED
      BY <2>2, <2>3, KeySame
  <1>3. ASSUME NEW c \in Clients, Locking(c) PROVE KeyInv'
    <2>1. CASE StagePart(c)
      <3>1. CheckedBefore
        BY <2>1, ReturnShape, GotoShape DEF StagePart, CheckedBefore, Only
      <3> QED
        BY <2>1, <3>1, KeySame DEF StagePart
    <2>2. CASE Validate(c)
      <3>1. CheckedBefore
        BY <2>2, ReturnShape, ValidateShape DEF CheckedBefore, Only
      <3> QED
        BY <2>2, <3>1, KeySame DEF Validate
    <2>3. CASE RemoveParts(c)
      <3>1. CASE record[req[c].up] = None
        BY <2>3, <3>1, CheckedOnReturn, KeySame DEF RemoveParts, GetMultipartMeta
      <3>2. CASE record[req[c].up] # None
        BY <2>3, <3>2, KeyRemove DEF RemoveParts, GetMultipartMeta
      <3> QED
        BY <3>1, <3>2
    <2> QED
      BY <1>3, <2>1, <2>2, <2>3, KeyPrepare, KeyRecord DEF Locking
  <1>4. ASSUME NEW c \in Clients, Progress(c) PROVE KeyInv'
    <2>1. CASE CopyPart(c)
      <3>1. CheckedBefore
        BY <2>1, ReturnShape, CopyShape DEF CheckedBefore, Only
      <3> QED
        BY <2>1, <3>1, KeySame DEF CopyPart
    <2>2. CASE Publish(c)
      <3>1. CheckedBefore
        BY <2>2, GotoShape DEF Publish, CheckedBefore, Only
      <3> QED
        BY <2>2, <3>1, KeySame DEF Publish
    <2>3. CASE Cleanup(c)
      BY <2>3, KeyRemove DEF Cleanup
    <2>4. CASE Forget(c)
      <3>1. CASE UNCHANGED record
        BY <2>4, <3>1, CheckedOnReturn, KeySame DEF Forget
      <3> QED
        BY <2>4, <3>1, KeyForget DEF Forget
    <2>5. CASE DropRecord(c)
      BY <2>5, KeyForget DEF DropRecord
    <2> QED
      BY <1>4, <2>1, <2>2, <2>3, <2>4, <2>5, KeyStore, KeyRename DEF Progress
  <1>5. ASSUME NEW c \in Clients, Failure(c) PROVE KeyInv'
    BY <1>5, CheckedOnReturn, KeySame DEF Failure, UploadFails, RequestFails
  <1>6. CASE Crash
    BY <1>6, KeySame DEF Crash, CheckedBefore
  <1>7. CASE UNCHANGED vars
    BY <1>7, KeySame DEF vars, CheckedBefore
  <1> QED
    BY <1>1, <1>2, <1>3, <1>4, <1>5, <1>6, <1>7 DEF Next, Idle

-----------------------------------------------------------------------------
(***************************************************************************)
(* What Complete copies.                                                   *)
(***************************************************************************)
(* What a step leaves alone of an upload that is being completed. *)
Undisturbed(u) ==
    /\ record'[u] = record[u]
    /\ \A p \in Parts :
          /\ files'[u][p] = files[u][p] \/ Replacing(u, p)'
          /\ <<u, p>> \in torn => <<u, p>> \in torn'
          /\ Replacing(u, p) => Replacing(u, p)' \/ <<u, p>> \in torn'

Completing == {"assemble", "publish"}

LEMMA CopiedParts ==
    ASSUME Typed, NEW c \in Clients, pc[c] \in Completing
    PROVE  /\ req[c].up \in Uploads
           /\ \A i \in 1..Len(req[c].body) : i \in DOMAIN req[c].list /\ req[c].list[i].part \in Parts
  <1>1. /\ req[c].up \in Uploads /\ req[c].list \in Seq(CompletePart)
        /\ req[c].body \in Seq(Contents \cup {Garbled}) /\ Len(req[c].body) <= Len(req[c].list)
    BY UploadIds DEF Completing, Typed, LocalsTyped, Requests
  <1>2. ASSUME NEW i \in 1..Len(req[c].body) PROVE i \in DOMAIN req[c].list
    BY <1>1
  <1>3. ASSUME NEW i \in DOMAIN req[c].list PROVE req[c].list[i].part \in Parts
    <2>1. req[c].list[i] \in CompletePart
      BY <1>1, ElementOfSeq
    <2> QED
      BY <2>1 DEF CompletePart
  <1> QED
    BY <1>1, <1>2, <1>3

LEMMA CopyFrame ==
    ASSUME Typed, CopyInv, Kept(Completing),
           \A u \in Uploads, d \in Clients : pc[d] \in Completing /\ req[d].up = u => Undisturbed(u)
    PROVE  CopyInv'
  <1>1. StillValid'
    <2> SUFFICES ASSUME NEW d \in Clients, pc'[d] \in Completing
                 PROVE  /\ record'[req'[d].up].sse = req'[d].key
                        /\ \A i \in DOMAIN req'[d].list :
                              record'[req'[d].up].parts[req'[d].list[i].part] = req'[d].list[i].etag
      BY DEF StillValid, Completing
    <2>1. pc[d] \in Completing /\ req'[d] = req[d]
      BY DEF Kept
    <2>2. PICK u \in Uploads : u = req[d].up
      BY <2>1, CopiedParts
    <2>3. record'[u] = record[u]
      BY <2>1, <2>2 DEF Undisturbed
    <2> QED
      BY <2>1, <2>2, <2>3 DEF CopyInv, StillValid, Completing
  <1>2. AssembledAsListed'
    <2> SUFFICES ASSUME NEW d \in Clients, pc'[d] \in Completing, NEW i \in 1..Len(req'[d].body),
                        NEW u, u = req'[d].up, NEW p, p = req'[d].list[i].part
                 PROVE  \/ req'[d].body[i] = req'[d].list[i].etag
                        \/ Replacing(u, p)' \/ <<u, p>> \in torn'
                        \/ req'[d].body[i] = Garbled /\ req'[d].key # NoKey /\ files'[u][p].key = NoKey
      BY DEF AssembledAsListed, Completing, Replacing
    <2>1. pc[d] \in Completing /\ req'[d] = req[d]
      BY DEF Kept
    <2>2. u \in Uploads /\ p \in Parts
      BY <2>1, CopiedParts
    <2>3. \/ req[d].body[i] = req[d].list[i].etag
          \/ Replacing(u, p) \/ <<u, p>> \in torn
          \/ req[d].body[i] = Garbled /\ req[d].key # NoKey /\ files[u][p].key = NoKey
      BY <2>1 DEF CopyInv, AssembledAsListed, Completing
    <2>4. Undisturbed(u)
      BY <2>1, <2>2
    <2> QED
      BY <2>1, <2>2, <2>3, <2>4 DEF Undisturbed
  <1> QED
    BY <1>1, <1>2 DEF CopyInv

LEMMA SettledUndisturbed ==
    ASSUME Settled, NEW u \in Uploads, record'[u] = record[u],
           \A p \in Parts : files'[u][p] = files[u][p] \/ Replacing(u, p)'
    PROVE  Undisturbed(u)
  BY DEF Settled, Undisturbed, Replacing

LEMMA CopySame ==
    ASSUME Typed, CopyInv, Settled, Kept(Completing), UNCHANGED <<record, files>>
    PROVE  CopyInv'
  BY SettledUndisturbed, CopyFrame

(* A step that changes nothing but an upload nobody else completes. *)
LEMMA CopyElsewhere ==
    ASSUME Typed, CopyInv, NEW c \in Clients, Only(c), pc[c] \notin Completing, pc'[c] \notin Completing,
           \A d \in Clients : pc[d] \in Completing => req[d].up # req[c].up,
           \A u \in Uploads : u # req[c].up => record'[u] = record[u] /\ files'[u] = files[u],
           \A u \in Uploads, p \in Parts : u # req[c].up /\ <<u, p>> \in torn => <<u, p>> \in torn'
    PROVE  CopyInv'
  <1>1. Kept(Completing)
    BY DEF Kept, Only
  <1>2. ASSUME NEW u \in Uploads, u # req[c].up PROVE Undisturbed(u)
    <2>1. ASSUME NEW p \in Parts, Replacing(u, p) PROVE Replacing(u, p)'
      BY <1>2, <2>1 DEF Replacing, Only
    <2> QED
      BY <1>2, <2>1 DEF Undisturbed
  <1> QED
    BY <1>1, <1>2, CopyFrame

LEMMA CopyPutRecord ==
    ASSUME Typed, CopyInv, NEW c \in Clients, Only(c), pc[c] \notin Completing, pc'[c] \notin Completing,
           \A d \in Clients : pc[d] \in Completing => req[d].up # req[c].up,
           NEW r, PutMultipartMeta(req[c].up, r), UNCHANGED files,
           torn' \in {torn, torn \ {<<req[c].up, req[c].part>>}}
    PROVE  CopyInv'
  <1>1. \A u \in Uploads : u # req[c].up => record'[u] = record[u]
    BY DEF PutMultipartMeta, Typed, StoreTyped
  <1>2. \A u \in Uploads, p \in Parts : u # req[c].up /\ <<u, p>> \in torn => <<u, p>> \in torn'
    OBVIOUS
  <1> QED
    BY <1>1, <1>2, CopyElsewhere

LEMMA CopyRemove ==
    ASSUME Typed, CopyInv, NEW c \in Clients, Only(c), pc[c] \notin Completing \cup {"idle"},
           pc'[c] \notin Completing,
           \A d \in Clients : pc[d] \in Completing => req[d].up # req[c].up,
           RemoveAll(req[c].up), UNCHANGED <<record, torn>>
    PROVE  CopyInv'
  <1>1. req[c].up \in Uploads
    BY UploadIds DEF Typed, LocalsTyped
  <1>2. \A u \in Uploads : u # req[c].up => files'[u] = files[u]
    BY <1>1, RemoveShape
  <1> QED
    BY <1>2, CopyElsewhere

(* Who has the upload's lock completes it, or nobody does. *)
LEMMA Alone ==
    ASSUME LockInv, NEW c \in Clients, pc[c] \notin Completing, pc[c] \in HoldsUpload \/ LockUpload(c)
    PROVE  \A d \in Clients : pc[d] \in Completing => req[d].up # req[c].up
  BY DEF LockInv, UploadExclusive, LockUpload, Completing

LEMMA CopyUploadSteps ==
    ASSUME Typed, LockInv, DirInv, CopyInv, NEW c \in Clients,
           \/ StoreRecord(c) \/ PrepareUpload(c) \/ StagePart(c) \/ RenamePart(c) \/ RecordPart(c)
           \/ UploadFails(c)
    PROVE  CopyInv'
  <1> USE DEF States, Completing
  <1>1. CASE StoreRecord(c)
    <2>1. pc[c] = "create" /\ pc'[c] = "idle" /\ Only(c)
      BY <1>1, ReturnShape DEF StoreRecord
    <2>2. \A d \in Clients : pc[d] \in Completing => req[d].up # req[c].up
      BY <2>1 DEF DirInv, StepsFit
    <2> QED
      BY <1>1, <2>1, <2>2, CopyPutRecord DEF StoreRecord
  <1>2. CASE PrepareUpload(c)
    <2>1. pc[c] = "upload" /\ LockUpload(c) /\ UNCHANGED <<files, torn>>
      BY <1>2 DEF PrepareUpload
    <2>2. Only(c) /\ pc'[c] \in {"idle", "prepared"}
      BY <1>2, ReturnShape, GotoShape DEF PrepareUpload
    <2>3. CASE UNCHANGED record
      BY <2>1, <2>2, <2>3, SettledElsewhere, CopySame DEF Kept, Only
    <2>4. CASE PutMultipartMeta(req[c].up, WithKey(record[req[c].up], req[c].key))
      BY <2>1, <2>2, <2>4, Alone, CopyPutRecord
    <2> QED
      BY <1>2, <2>3, <2>4 DEF PrepareUpload, GetMultipartMeta
  <1>3. CASE StagePart(c)
    <2>1. Only(c) /\ pc'[c] \in {"idle", "staged"}
      BY <1>3, ReturnShape, GotoShape DEF StagePart
    <2> QED
      BY <1>3, <2>1, SettledElsewhere, CopySame DEF StagePart, Kept, Only
  <1>4. CASE RenamePart(c)
    <2>0. UNCHANGED <<record, torn>> /\ pc[c] = "staged"
      BY <1>4 DEF RenamePart
    <2>1. CASE Return(c) /\ UNCHANGED files
      BY <2>0, <2>1, ReturnShape, SettledElsewhere, CopySame DEF Kept, Only
    <2>2. CASE /\ Goto(c, "renamed") /\ UNCHANGED req
               /\ \A u \in Uploads, p \in Parts :
                     u # req[c].up \/ p # req[c].part => files'[u][p] = files[u][p]
      <3>1. pc'[c] = "renamed" /\ req'[c] = req[c] /\ Only(c)
        BY <2>2, GotoShape
      <3>2. Kept(Completing) /\ Settled
        BY <2>0, <3>1, SettledElsewhere DEF Kept, Only
      <3>3. \A u \in Uploads, p \in Parts : u = req[c].up /\ p = req[c].part => Replacing(u, p)'
        BY <3>1 DEF Replacing
      <3>4. \A u \in Uploads : Undisturbed(u)
        BY <2>0, <2>2, <3>2, <3>3, SettledUndisturbed
      <3> QED
        BY <3>2, <3>4, CopyFrame
    <2> QED
      BY <1>4, <2>1, <2>2, RenameShape
  <1>5. CASE RecordPart(c)
    <2>1. /\ pc[c] = "renamed" /\ LockUpload(c) /\ UNCHANGED files
          /\ torn' = torn \ {<<req[c].up, req[c].part>>}
      BY <1>5 DEF RecordPart
    <2>2. Only(c) /\ pc'[c] = "idle"
      BY <1>5, ReturnShape DEF RecordPart
    <2>3. CASE UNCHANGED record
      <3>1. \A u \in Uploads, p \in Parts : u # req[c].up /\ <<u, p>> \in torn => <<u, p>> \in torn'
        BY <2>1
      <3> QED
        BY <2>1, <2>2, <2>3, <3>1, Alone, CopyElsewhere
    <2>4. CASE PutMultipartMeta(req[c].up, [record[req[c].up] EXCEPT !.parts[req[c].part] = req[c].data])
      BY <2>1, <2>2, <2>4, Alone, CopyPutRecord
    <2> QED
      BY <1>5, <2>3, <2>4 DEF RecordPart
  <1>6. CASE UploadFails(c)
    <2>1. Only(c) /\ pc'[c] = "idle" /\ UNCHANGED <<record, files>>
      BY <1>6, ReturnShape DEF UploadFails
    <2>2. torn \subseteq torn' /\ (pc[c] = "renamed" => <<req[c].up, req[c].part>> \in torn')
      BY <1>6 DEF UploadFails
    <2>3. Settled /\ Kept(Completing)
      BY <2>1, <2>2 DEF Settled, Kept, Only
    <2> QED
      BY <2>1, <2>3, CopySame
  <1> QED
    BY <1>1, <1>2, <1>3, <1>4, <1>5, <1>6

(* The list that Validate accepts matches the record, and nothing is       *)
(* copied yet.                                                             *)
LEMMA CopyValidate ==
    ASSUME Typed, CopyInv, NEW c \in Clients, Validate(c)
    PROVE  CopyInv'
  <1> USE DEF Completing
  <1>0. UNCHANGED <<record, files, torn>> /\ pc[c] = "complete"
    BY DEF Validate
  <1>1. CASE Return(c)
    BY <1>0, <1>1, ReturnShape, SettledElsewhere, CopySame DEF Kept, Only
  <1>2. CASE ~Return(c)
    <2>1. /\ pc'[c] = "assemble" /\ Only(c) /\ req'[c].up = req[c].up /\ req'[c].key = req[c].key
          /\ req'[c].body = <<>> /\ record[req[c].up].sse = req[c].key
          /\ \A i \in DOMAIN req'[c].list :
                record[req[c].up].parts[req'[c].list[i].part] = req'[c].list[i].etag
      BY <1>2, ValidateShape
    <2>2. StillValid'
      BY <1>0, <2>1 DEF CopyInv, StillValid, Only
    <2>3. ASSUME NEW u, NEW p, Replacing(u, p) PROVE Replacing(u, p)'
      BY <1>0, <2>1, <2>3 DEF Replacing, Only
    <2>4. 1..Len(req'[c].body) = {}
      BY <2>1
    <2>5. ASSUME NEW d \in Clients \ {c}, pc'[d] \in Completing, NEW i \in 1..Len(req'[d].body),
                 NEW u, u = req'[d].up, NEW p, p = req'[d].list[i].part
          PROVE  \/ req'[d].body[i] = req'[d].list[i].etag
                 \/ Replacing(u, p)' \/ <<u, p>> \in torn'
                 \/ req'[d].body[i] = Garbled /\ req'[d].key # NoKey /\ files'[u][p].key = NoKey
      <3>1. pc[d] = pc'[d] /\ req'[d] = req[d]
        BY <2>1 DEF Only
      <3>2. \/ req[d].body[i] = req[d].list[i].etag
            \/ Replacing(u, p) \/ <<u, p>> \in torn
            \/ req[d].body[i] = Garbled /\ req[d].key # NoKey /\ files[u][p].key = NoKey
        BY <2>5, <3>1 DEF CopyInv, AssembledAsListed
      <3> QED
        BY <1>0, <2>3, <3>1, <3>2
    <2>6. AssembledAsListed'
      BY <2>4, <2>5 DEF AssembledAsListed, Replacing
    <2> QED
      BY <2>2, <2>6 DEF CopyInv
  <1> QED
    BY <1>1, <1>2

(* What is copied next has the listed content, for the same reasons that   *)
(* pair files with records, and decrypts to it under the recorded key.     *)
LEMMA CopyAppend ==
    ASSUME Typed, DirInv, PairInv, KeyInv, CopyInv, NEW c \in Clients, CopyPart(c)
    PROVE  CopyInv'
  <1> USE DEF Completing
  <1>0. UNCHANGED <<record, files, torn>> /\ pc[c] = "assemble" /\ req[c].up \in Uploads
    BY UploadIds DEF CopyPart, Typed, LocalsTyped
  <1>1. CASE Return(c)
    BY <1>0, <1>1, ReturnShape, SettledElsewhere, CopySame DEF Kept, Only
  <1>2. CASE ~Return(c)
    <2> DEFINE n == Len(req[c].body) + 1
    <2>1. PICK q \in Parts, f \in PartFile :
              /\ n \in DOMAIN req[c].list /\ q = req[c].list[n].part /\ f = files[req[c].up][q]
              /\ Only(c) /\ pc'[c] \in Completing
              /\ req'[c].up = req[c].up /\ req'[c].key = req[c].key /\ req'[c].list = req[c].list
              /\ req'[c].body = Append(req[c].body, Decrypt(f, req[c].key))
      BY <1>2, CopyShape
    <2>2. StillValid'
      <3>1. \A d \in Clients : pc'[d] \in Completing =>
               /\ pc[d] \in Completing /\ req'[d].up = req[d].up /\ req'[d].key = req[d].key
               /\ req'[d].list = req[d].list
        BY <1>0, <2>1 DEF Only
      <3> HIDE DEF n
      <3> QED
        BY <1>0, <3>1 DEF CopyInv, StillValid
    <2>3. ASSUME NEW u, NEW p, Replacing(u, p) PROVE Replacing(u, p)'
      BY <1>0, <2>1, <2>3 DEF Replacing, Only
    <2>4. PICK v \in Uploads : v = req[c].up
      BY <1>0
    <2>5. f # None /\ record[v] # None /\ v \in dir
      <3>1. f # None
        BY MultipartAssumption DEF PartFile, MaybeKey
      <3> QED
        BY <1>0, <2>1, <2>4, <3>1 DEF DirInv, StepsFit, FilesInDir, NoParts
    <2>6. /\ record[v].parts[q] = req[c].list[n].etag /\ record[v].sse = req[c].key
          /\ req[c].list[n].etag # None
      <3>1. req[c].list \in Seq(CompletePart)
        BY DEF Typed, LocalsTyped, Requests
      <3>2. req[c].list[n] \in CompletePart
        BY <2>1, <3>1, ElementOfSeq
      <3>3. req[c].list[n].etag # None
        BY <3>2, MultipartAssumption DEF CompletePart
      <3> QED
        BY <1>0, <2>1, <2>4, <3>3 DEF CopyInv, StillValid
    <2>7. Replacing(v, q) \/ <<v, q>> \in torn \/ f.data = req[c].list[n].etag
      BY <2>1, <2>4, <2>5, <2>6 DEF PairInv, PartsPaired
    <2>8. f.key \in {NoKey, req[c].key}
      BY <2>1, <2>4, <2>5, <2>6 DEF KeyInv, NoForeignKey
    <2>9. \/ Decrypt(f, req[c].key) = req[c].list[n].etag
          \/ Replacing(v, q) \/ <<v, q>> \in torn
          \/ Decrypt(f, req[c].key) = Garbled /\ req[c].key # NoKey /\ f.key = NoKey
      BY <2>7, <2>8 DEF Decrypt
    <2>10. /\ req[c].body \in Seq(Contents \cup {Garbled})
           /\ n \in Nat /\ Decrypt(f, req[c].key) \in Contents \cup {Garbled}
      BY DEF Typed, LocalsTyped, Requests, Decrypt, PartFile
    <2>11. /\ Len(req'[c].body) = n /\ req'[c].body[n] = Decrypt(f, req[c].key)
           /\ \A i \in 1..Len(req[c].body) : req'[c].body[i] = req[c].body[i]
      <3>1. PICK s \in Seq(Contents \cup {Garbled}) : s = req[c].body
        BY <2>10
      <3>2. PICK e \in Contents \cup {Garbled} : e = Decrypt(f, req[c].key)
        BY <2>10
      <3>3. PICK b : b = Append(s, e)
        OBVIOUS
      <3>4. Len(b) = Len(s) + 1 /\ b[Len(s) + 1] = e /\ \A i \in 1..Len(s) : b[i] = s[i]
        BY <3>3, AppendedTo
      <3>5. req'[c].body = b
        BY <2>1, <3>1, <3>2, <3>3
      <3> QED
        BY <3>1, <3>2, <3>4, <3>5, Zenon
    <2>12. \A d \in Clients : \A i \in 1..Len(req'[d].body) :
              pc'[d] \in Completing /\ ~(d = c /\ i = n) =>
                 /\ pc[d] \in Completing /\ i \in 1..Len(req[d].body)
                 /\ req'[d].up = req[d].up /\ req'[d].list = req[d].list /\ req'[d].key = req[d].key
                 /\ req'[d].body[i] = req[d].body[i]
      <3>1. ASSUME NEW i \in 1..n, i # n PROVE i \in 1..Len(req[c].body)
        BY <2>10, <3>1
      <3>2. \A d \in Clients \ {c} : pc'[d] = pc[d] /\ req'[d] = req[d]
        BY <2>1 DEF Only
      <3> HIDE DEF n
      <3> QED
        BY <1>0, <2>1, <2>11, <3>1, <3>2
    <2>13. ASSUME NEW d \in Clients, pc'[d] \in Completing, NEW i \in 1..Len(req'[d].body),
                  NEW u, u = req'[d].up, NEW p, p = req'[d].list[i].part
           PROVE  \/ req'[d].body[i] = req'[d].list[i].etag
                  \/ Replacing(u, p)' \/ <<u, p>> \in torn'
                  \/ req'[d].body[i] = Garbled /\ req'[d].key # NoKey /\ files'[u][p].key = NoKey
      <3> HIDE DEF n
      <3>1. CASE d = c /\ i = n
        <4>1. u = v /\ p = q
          BY <2>1, <2>4, <2>13, <3>1
        <4> QED
          BY <1>0, <2>1, <2>3, <2>4, <2>9, <2>11, <3>1, <4>1
      <3>2. CASE ~(d = c /\ i = n)
        <4>1. /\ pc[d] \in Completing /\ i \in 1..Len(req[d].body)
              /\ req'[d].up = req[d].up /\ req'[d].list = req[d].list /\ req'[d].key = req[d].key
              /\ req'[d].body[i] = req[d].body[i]
          BY <2>12, <2>13, <3>2
        <4>2. \/ req[d].body[i] = req[d].list[i].etag
              \/ Replacing(u, p) \/ <<u, p>> \in torn
              \/ req[d].body[i] = Garbled /\ req[d].key # NoKey /\ files[u][p].key = NoKey
          BY <2>13, <4>1 DEF CopyInv, AssembledAsListed
        <4> QED
          BY <1>0, <2>3, <4>1, <4>2
      <3> QED
        BY <3>1, <3>2
    <2>14. AssembledAsListed'
      BY <2>13 DEF AssembledAsListed, Replacing
    <2> QED
      BY <2>2, <2>14 DEF CopyInv
  <1> QED
    BY <1>1, <1>2

LEMMA CopyCompleteSteps ==
    ASSUME Typed, LockInv, CopyInv, NEW c \in Clients,
           Publish(c) \/ Cleanup(c) \/ Forget(c) \/ RemoveParts(c) \/ DropRecord(c) \/ RequestFails(c)
    PROVE  CopyInv'
  <1> USE DEF States, Completing
  <1>0. UNCHANGED torn /\ pc[c] \notin {"idle", "renamed"}
    BY DEF Publish, Cleanup, Forget, RemoveParts, DropRecord, RequestFails
  <1>1. CASE Publish(c)
    BY <1>0, <1>1, GotoShape, SettledElsewhere, CopySame DEF Publish, Kept, Only
  <1>2. CASE Cleanup(c)
    BY <1>0, <1>2, GotoShape, Alone, CopyRemove DEF Cleanup
  <1>3. CASE Forget(c)
    <2>1. Only(c) /\ pc'[c] = "idle" /\ pc[c] = "forget" /\ UNCHANGED files
      BY <1>3, ReturnShape DEF Forget
    <2>2. CASE UNCHANGED record
      BY <1>0, <2>1, <2>2, SettledElsewhere, CopySame DEF Kept, Only
    <2>3. CASE PutMultipartMeta(req[c].up, None)
      BY <1>0, <2>1, <2>3, Alone, CopyPutRecord
    <2> QED
      BY <1>3, <2>2, <2>3 DEF Forget
  <1>4. CASE RemoveParts(c)
    <2>1. Only(c) /\ pc'[c] \in {"idle", "drop"} /\ pc[c] = "abort" /\ LockUpload(c) /\ UNCHANGED record
      BY <1>4, ReturnShape, GotoShape DEF RemoveParts
    <2>2. CASE UNCHANGED <<disk, left>>
      BY <1>0, <2>1, <2>2, SettledElsewhere, CopySame DEF Kept, Only
    <2>3. CASE RemoveAll(req[c].up)
      BY <1>0, <2>1, <2>3, Alone, CopyRemove
    <2> QED
      BY <1>4, <2>2, <2>3 DEF RemoveParts
  <1>5. CASE DropRecord(c)
    BY <1>0, <1>5, ReturnShape, Alone, CopyPutRecord DEF DropRecord
  <1>6. CASE RequestFails(c)
    BY <1>0, <1>6, ReturnShape, SettledElsewhere, CopySame DEF RequestFails, Kept, Only
  <1> QED
    BY <1>1, <1>2, <1>3, <1>4, <1>5, <1>6

LEMMA CopyNext ==
    Typed /\ LockInv /\ DirInv /\ PairInv /\ KeyInv /\ CopyInv /\ [Next]_vars => CopyInv'
  <1> SUFFICES ASSUME Typed, LockInv, DirInv, PairInv, KeyInv, CopyInv, [Next]_vars PROVE CopyInv'
    OBVIOUS
  <1> USE DEF States, Completing
  <1>1. ASSUME NEW c \in Clients, CreateMultipartUpload(c) PROVE CopyInv'
    <2>1. Only(c) /\ pc[c] = "idle" /\ pc'[c] = "create"
      BY <1>1, TypedCreate
    <2> QED
      BY <1>1, <2>1, SettledElsewhere, CopySame DEF CreateMultipartUpload, Kept, Only
  <1>2. ASSUME NEW c \in Clients, Request(c), ~CreateMultipartUpload(c) PROVE CopyInv'
    <2>1. PICK s \in {"upload", "complete", "abort"}, r \in Requests : Begin(c, s, r)
      BY <1>2, Requested
    <2>2. Only(c) /\ pc[c] = "idle" /\ pc'[c] = s
      BY <2>1, BeginShape
    <2>3. UNCHANGED <<record, files, torn>>
      BY <1>2, Requested
    <2> QED
      BY <2>2, <2>3, SettledElsewhere, CopySame DEF Kept, Only
  <1>3. ASSUME NEW c \in Clients, Locking(c) \/ Progress(c) \/ Failure(c) PROVE CopyInv'
    BY <1>3, CopyUploadSteps, CopyValidate, CopyAppend, CopyCompleteSteps DEF Locking, Progress, Failure
  <1>4. CASE Crash
    BY <1>4, CopySame DEF Crash, Kept, Settled
  <1>5. CASE UNCHANGED vars
    BY <1>5, CopySame DEF vars, Kept, Settled
  <1> QED
    BY <1>1, <1>2, <1>3, <1>4, <1>5 DEF Next, Idle

-----------------------------------------------------------------------------
(***************************************************************************)
(* Publication.                                                            *)
(***************************************************************************)
LEMMA PublishFrame ==
    ASSUME Typed, PublishInv, UNCHANGED <<published, crashes, spared>>,
           dir' \subseteq dir \cup {v \in Uploads : v > created},
           \A u \in dir : record'[u] # None => record[u] # None,
           \A d \in Clients : pc[d] \in CleaningUp =>
              \/ pc'[d] \in CleaningUp /\ req'[d] = req[d]
              \/ record'[req[d].up] = None,
           \A d \in Clients : pc'[d] = "create" => published[req'[d].up] = 0
    PROVE  PublishInv'
  <1>1. PublishedBefore'
    <2> SUFFICES ASSUME NEW u \in dir', record'[u] # None,
                        \A c \in Clients : pc'[c] \in CleaningUp => req'[c].up # u
                 PROVE  published[u] <= crashes + spared[u]
      BY DEF PublishedBefore
    <2>1. CASE u \in dir
      BY <2>1 DEF PublishInv, PublishedBefore
    <2>2. CASE u \notin dir
      BY <2>2 DEF Typed, StoreTyped
    <2> QED
      BY <2>1, <2>2
  <1> QED
    BY <1>1 DEF PublishInv, PublishedOnce, Unpublished

LEMMA PublishElsewhere ==
    ASSUME Typed, PublishInv, NEW c \in Clients, Only(c), pc[c] \notin CleaningUp, pc'[c] # "create",
           UNCHANGED <<published, crashes, spared>>, dir' \subseteq dir \cup {v \in Uploads : v > created},
           \A u \in dir : record'[u] # None => record[u] # None
    PROVE  PublishInv'
  <1>1. \A d \in Clients : pc[d] \in CleaningUp => pc'[d] \in CleaningUp /\ req'[d] = req[d]
    BY DEF Only
  <1>2. \A d \in Clients : pc'[d] = "create" => published[req'[d].up] = 0
    BY DEF Only, PublishInv, Unpublished
  <1> QED
    BY <1>1, <1>2, PublishFrame

LEMMA PublishRequest ==
    ASSUME Typed, PublishInv, NEW c \in Clients, Request(c)
    PROVE  PublishInv'
  <1> USE DEF CleaningUp
  <1>1. CASE CreateMultipartUpload(c)
    <2>1. Only(c) /\ pc[c] = "idle" /\ pc'[c] = "create" /\ req'[c].up = created + 1
      BY <1>1, TypedCreate
    <2>2. created + 1 \in Uploads /\ created + 1 > created
      BY <1>1, MultipartAssumption DEF CreateMultipartUpload, Typed, StoreTyped, Uploads
    <2>3. dir' \subseteq dir \cup {v \in Uploads : v > created} /\ UNCHANGED <<record, published, crashes, spared>>
      BY <1>1, <2>2 DEF CreateMultipartUpload
    <2>4. published[created + 1] = 0
      BY <2>2 DEF Typed, StoreTyped
    <2>5. \A d \in Clients : pc'[d] = "create" => published[req'[d].up] = 0
      BY <2>1, <2>4 DEF Only, PublishInv, Unpublished
    <2>6. \A d \in Clients : pc[d] \in CleaningUp => pc'[d] \in CleaningUp /\ req'[d] = req[d]
      BY <2>1 DEF Only
    <2> QED
      BY <2>3, <2>5, <2>6, PublishFrame
  <1>2. CASE ~CreateMultipartUpload(c)
    <2>1. PICK s \in {"upload", "complete", "abort"}, r \in Requests : Begin(c, s, r)
      BY <1>2, Requested
    <2>2. Only(c) /\ pc[c] = "idle" /\ pc'[c] = s
      BY <2>1, BeginShape DEF States
    <2>3. UNCHANGED <<published, crashes, spared, dir, record>>
      BY <1>2, Requested
    <2> QED
      BY <2>2, <2>3, PublishElsewhere
  <1> QED
    BY <1>1, <1>2

(* A record appears where nothing was published yet. *)
LEMMA PublishStore ==
    ASSUME Typed, PublishInv, NEW c \in Clients, StoreRecord(c)
    PROVE  PublishInv'
  <1> USE DEF CleaningUp
  <1>1. /\ pc[c] = "create" /\ pc'[c] = "idle" /\ Only(c)
        /\ UNCHANGED <<dir, published, crashes, spared>>
        /\ PutMultipartMeta(req[c].up, [sse |-> NoKey, parts |-> NoParts])
    BY ReturnShape DEF StoreRecord
  <1>2. PICK u \in Uploads : u = req[c].up
    BY <1>1, UploadIds DEF Typed, LocalsTyped
  <1>3. published[u] = 0 /\ \A v \in Uploads \ {u} : record'[v] = record[v]
    BY <1>1, <1>2 DEF PublishInv, Unpublished, PutMultipartMeta, Typed, StoreTyped
  <1>4. PublishedBefore'
    <2> SUFFICES ASSUME NEW v \in dir, record'[v] # None,
                        \A d \in Clients : pc'[d] \in CleaningUp => req'[d].up # v
                 PROVE  published[v] <= crashes + spared[v]
      BY <1>1 DEF PublishedBefore
    <2>0. v \in Uploads
      BY UploadIds DEF Typed, StoreTyped
    <2>1. CASE v = u
      BY <1>3, <2>0, <2>1 DEF Typed, StoreTyped
    <2>2. CASE v # u
      <3>1. \A d \in Clients : pc[d] \in CleaningUp => req[d].up # v
        BY <1>1 DEF Only
      <3> QED
        BY <1>3, <2>0, <2>2, <3>1 DEF PublishInv, PublishedBefore
    <2> QED
      BY <2>1, <2>2
  <1>5. Unpublished'
    BY <1>1 DEF Only, PublishInv, Unpublished
  <1> QED
    BY <1>1, <1>4, <1>5 DEF PublishInv, PublishedOnce

(* A record that stays beside its directory is counted. *)
LEMMA PublishForget ==
    ASSUME Typed, PublishInv, NEW c \in Clients, Forget(c)
    PROVE  PublishInv'
  <1> USE DEF CleaningUp
  <1>1. pc[c] = "forget" /\ pc'[c] = "idle" /\ Only(c) /\ UNCHANGED <<dir, published, crashes>>
    BY ReturnShape DEF Forget
  <1>2. PICK u \in Uploads : u = req[c].up
    BY <1>1, UploadIds DEF Typed, LocalsTyped
  <1>3. \A d \in Clients \ {c} : pc[d] \in CleaningUp => pc'[d] \in CleaningUp /\ req'[d] = req[d]
    BY <1>1 DEF Only
  <1>4. Unpublished'
    BY <1>1 DEF Only, PublishInv, Unpublished
  <1>5. CASE PutMultipartMeta(req[c].up, None) /\ UNCHANGED spared
    <2>1. record'[u] = None /\ \A v \in Uploads \ {u} : record'[v] = record[v]
      BY <1>2, <1>5 DEF PutMultipartMeta, Typed, StoreTyped
    <2>2. \A v \in dir : record'[v] # None => record[v] # None
      BY <2>1, UploadIds DEF Typed, StoreTyped
    <2>3. \A d \in Clients : pc'[d] = "create" => published[req'[d].up] = 0
      BY <1>1, <1>4 DEF Unpublished
    <2> QED
      BY <1>1, <1>2, <1>3, <1>5, <2>1, <2>2, <2>3, PublishFrame
  <1>6. CASE /\ UNCHANGED record
             /\ spared' = [spared EXCEPT ![req[c].up] = @ + (IF req[c].up \in dir THEN 1 ELSE 0)]
    <2>1. /\ spared'[u] = spared[u] + (IF u \in dir THEN 1 ELSE 0)
          /\ \A v \in Uploads \ {u} : spared'[v] = spared[v]
      BY <1>2, <1>6 DEF Typed, StoreTyped
    <2>2. \A v \in Uploads : spared[v] \in Nat /\ published[v] \in Nat /\ crashes \in Nat
      BY DEF Typed, StoreTyped
    <2>3. PublishedOnce'
      BY <1>1, <2>1, <2>2 DEF PublishInv, PublishedOnce
    <2>4. PublishedBefore'
      <3> SUFFICES ASSUME NEW v \in dir, record[v] # None,
                          \A d \in Clients : pc'[d] \in CleaningUp => req'[d].up # v
                   PROVE  published[v] <= crashes + spared'[v]
        BY <1>1, <1>6 DEF PublishedBefore
      <3>0. v \in Uploads
        BY UploadIds DEF Typed, StoreTyped
      <3>1. CASE v = u
        <4>1. published[u] <= 1 + crashes + spared[u]
          BY DEF PublishInv, PublishedOnce
        <4> QED
          BY <2>1, <2>2, <3>1, <4>1
      <3>2. CASE v # u
        <4>1. \A d \in Clients : pc[d] \in CleaningUp => req[d].up # v
          BY <1>2, <1>3, <3>2
        <4> QED
          BY <2>1, <3>0, <3>2, <4>1 DEF PublishInv, PublishedBefore
      <3> QED
        BY <3>1, <3>2
    <2> QED
      BY <1>4, <2>3, <2>4 DEF PublishInv
  <1> QED
    BY <1>5, <1>6 DEF Forget

LEMMA PublishSteps ==
    ASSUME Typed, LockInv, DirInv, PublishInv, NEW c \in Clients,
           Locking(c) \/ Progress(c) \/ Failure(c)
    PROVE  PublishInv'
  <1> USE DEF States, CleaningUp
  <1>0. pc[c] # "idle" => req[c].up \in Uploads
    BY UploadIds DEF Typed, LocalsTyped
  <1>1. CASE Locking(c)
    <2>1. Only(c) /\ pc'[c] # "create"
      <3>1. CASE Validate(c)
        BY <3>1, ReturnShape, ValidateShape
      <3>2. CASE PrepareUpload(c) \/ StagePart(c) \/ RecordPart(c) \/ RemoveParts(c)
        BY <3>2, ReturnShape, GotoShape DEF PrepareUpload, StagePart, RecordPart, RemoveParts
      <3> QED
        BY <1>1, <3>1, <3>2 DEF Locking
    <2>2. pc[c] \notin CleaningUp \cup {"idle"} /\ UNCHANGED <<published, crashes, spared>>
      BY <1>1 DEF Locking, PrepareUpload, StagePart, RecordPart, Validate, RemoveParts
    <2>3. dir' \subseteq dir
      <3>1. CASE RemoveParts(c)
        BY <1>0, <2>2, <3>1, RemoveShape DEF RemoveParts
      <3> QED
        BY <1>1, <3>1 DEF Locking, PrepareUpload, StagePart, RecordPart, Validate
    <2>4. \A u \in Uploads : record'[u] # None => record[u] # None
      <3>1. CASE PrepareUpload(c)
        BY <1>0, <2>2, <3>1 DEF PrepareUpload, GetMultipartMeta, PutMultipartMeta, Typed, StoreTyped
      <3>2. CASE RecordPart(c)
        BY <1>0, <2>2, <3>2 DEF RecordPart, PutMultipartMeta, Typed, StoreTyped
      <3> QED
        BY <1>1, <3>1, <3>2 DEF Locking, StagePart, Validate, RemoveParts
    <2>5. dir \subseteq Uploads
      BY UploadIds DEF Typed, StoreTyped
    <2> QED
      BY <2>1, <2>2, <2>3, <2>4, <2>5, PublishElsewhere
  <1>2. CASE RenamePart(c) \/ CopyPart(c) \/ DropRecord(c) \/ Failure(c)
    <2>1. Only(c) /\ pc'[c] # "create"
      <3>1. CASE CopyPart(c)
        BY <3>1, ReturnShape, CopyShape
      <3>2. CASE RenamePart(c) \/ DropRecord(c) \/ Failure(c)
        BY <3>2, ReturnShape, GotoShape DEF RenamePart, DropRecord, Failure, UploadFails, RequestFails
      <3> QED
        BY <1>2, <3>1, <3>2
    <2>2. pc[c] \notin CleaningUp \cup {"idle"} /\ UNCHANGED <<published, crashes, spared, dir>>
      BY <1>2 DEF RenamePart, CopyPart, DropRecord, Failure, UploadFails, RequestFails
    <2>3. \A u \in Uploads : record'[u] # None => record[u] # None
      <3>1. CASE DropRecord(c)
        BY <1>0, <2>2, <3>1 DEF DropRecord, PutMultipartMeta, Typed, StoreTyped
      <3> QED
        BY <1>2, <3>1 DEF RenamePart, CopyPart, Failure, UploadFails, RequestFails
    <2>4. dir \subseteq Uploads
      BY UploadIds DEF Typed, StoreTyped
    <2> QED
      BY <2>1, <2>2, <2>3, <2>4, PublishElsewhere
  <1>3. CASE Cleanup(c)
    <2>1. /\ Only(c) /\ pc[c] = "cleanup" /\ pc'[c] = "forget" /\ req'[c] = req[c]
          /\ UNCHANGED <<published, crashes, spared, record>>
      BY <1>3, GotoShape DEF Cleanup
    <2>2. dir' \subseteq dir
      BY <1>0, <1>3, <2>1, RemoveShape DEF Cleanup
    <2>3. \A d \in Clients : pc[d] \in CleaningUp => pc'[d] \in CleaningUp /\ req'[d] = req[d]
      BY <2>1 DEF Only
    <2>4. \A d \in Clients : pc'[d] = "create" => published[req'[d].up] = 0
      BY <2>1 DEF Only, PublishInv, Unpublished
    <2> QED
      BY <2>1, <2>2, <2>3, <2>4, PublishFrame
  <1>4. CASE Publish(c)
    <2>1. /\ pc[c] = "publish" /\ UNCHANGED <<dir, crashes, spared, record>>
          /\ published' = [published EXCEPT ![req[c].up] = @ + 1]
          /\ pc'[c] = "cleanup" /\ req'[c] = req[c] /\ Only(c)
      BY <1>4, GotoShape DEF Publish
    <2>2. PICK u \in Uploads : u = req[c].up /\ u \in dir /\ record[u] # None
      BY <1>0, <2>1 DEF DirInv, StepsFit
    <2>3. \A d \in Clients : pc[d] \in CleaningUp => req[d].up # u
      BY <2>1, <2>2 DEF LockInv, UploadExclusive
    <2>4. /\ published[u] <= crashes + spared[u] /\ published[u] \in Nat
          /\ crashes \in Nat /\ spared[u] \in Nat
      BY <2>2, <2>3 DEF PublishInv, PublishedBefore, Typed, StoreTyped
    <2>5. published'[u] = published[u] + 1 /\ \A v \in Uploads \ {u} : published'[v] = published[v]
      BY <2>1, <2>2 DEF Typed, StoreTyped
    <2>6. PublishedOnce'
      BY <2>1, <2>4, <2>5 DEF PublishInv, PublishedOnce
    <2>7. PublishedBefore'
      <3> SUFFICES ASSUME NEW v \in dir, record[v] # None,
                          \A d \in Clients : pc'[d] \in CleaningUp => req'[d].up # v
                   PROVE  published'[v] <= crashes + spared[v]
        BY <2>1 DEF PublishedBefore
      <3>1. v # u /\ v \in Uploads
        BY <2>1, <2>2, UploadIds DEF Typed, StoreTyped
      <3>2. \A d \in Clients : pc[d] \in CleaningUp => req[d].up # v
        BY <2>1 DEF Only
      <3> QED
        BY <2>5, <3>1, <3>2 DEF PublishInv, PublishedBefore
    <2>8. Unpublished'
      <3> SUFFICES ASSUME NEW d \in Clients, pc'[d] = "create" PROVE published'[req'[d].up] = 0
        BY DEF Unpublished
      <3>1. pc[d] = "create" /\ req'[d] = req[d]
        BY <2>1 DEF Only
      <3>2. req[d].up # u /\ req[d].up \in Uploads
        BY <2>2, <3>1, UploadIds DEF DirInv, StepsFit, Typed, LocalsTyped
      <3> QED
        BY <2>5, <3>1, <3>2 DEF PublishInv, Unpublished
    <2> QED
      BY <2>6, <2>7, <2>8 DEF PublishInv
  <1> QED
    BY <1>1, <1>2, <1>3, <1>4, PublishStore, PublishForget DEF Progress

LEMMA PublishNext == Typed /\ LockInv /\ DirInv /\ PublishInv /\ [Next]_vars => PublishInv'
  <1> SUFFICES ASSUME Typed, LockInv, DirInv, PublishInv, [Next]_vars PROVE PublishInv'
    OBVIOUS
  <1>1. ASSUME NEW c \in Clients, Request(c) PROVE PublishInv'
    BY <1>1, PublishRequest
  <1>2. ASSUME NEW c \in Clients, Locking(c) \/ Progress(c) \/ Failure(c) PROVE PublishInv'
    BY <1>2, PublishSteps
  <1>3. CASE Crash
    <2>1. /\ UNCHANGED <<published, dir, spared>> /\ crashes' = crashes + 1 /\ crashes \in Nat
          /\ \A c \in Clients : pc'[c] = "idle"
      BY <1>3 DEF Crash, Typed, StoreTyped
    <2>2. \A u \in Uploads : published[u] \in Nat /\ spared[u] \in Nat
      BY DEF Typed, StoreTyped
    <2>3. PublishedOnce'
      BY <2>1, <2>2 DEF PublishInv, PublishedOnce
    <2>4. PublishedBefore'
      BY <2>1, <2>2, UploadIds DEF PublishInv, PublishedOnce, PublishedBefore, Typed, StoreTyped
    <2>5. Unpublished'
      BY <2>1 DEF Unpublished
    <2> QED
      BY <2>3, <2>4, <2>5 DEF PublishInv
  <1>4. CASE UNCHANGED vars
    BY <1>4, PublishFrame DEF vars, PublishInv, Unpublished
  <1> QED
    BY <1>1, <1>2, <1>3, <1>4 DEF Next, Idle
-----------------------------------------------------------------------------
LEMMA InitInv == Init => Inv
  <1> SUFFICES ASSUME Init PROVE Inv
    OBVIOUS
  <1> USE DEF Init
  <1>1. Typed
    <2>1. NoParts \in [Parts -> PartFile \cup {None}]
      BY DEF NoParts
    <2> QED
      BY <2>1, NoRequestTyped, MultipartAssumption DEF Typed, LocalsTyped, StoreTyped, States
  <1>2. TempsStaged /\ LockInv /\ DirInv
    BY DEF TempsStaged, LockInv, UploadExclusive, PartExclusive, OneCreator, DirInv, StepsFit, FilesInDir,
           NoUnreachableParts, NoParts
  <1>3. PairInv /\ KeyInv
    BY DEF PairInv, RenamedInPlace, PartsPaired, KeyInv, KeyChecked, NoForeignKey
  <1>4. CopyInv /\ PublishInv
    BY DEF CopyInv, StillValid, AssembledAsListed, PublishInv, PublishedBefore, Unpublished,
           PublishedOnce
  <1> QED
    BY <1>1, <1>2, <1>3, <1>4 DEF Inv

LEMMA Invariance == Spec => []Inv
  <1>1. Inv /\ [Next]_vars => Inv'
    BY TypedNext, TempsNext, LockNext, DirNext, PairNext, KeyNext, CopyNext, PublishNext DEF Inv
  <1> QED
    BY <1>1, InitInv, PTL DEF Spec

(* The lock of a part pairs its file with its record (UploadPart), through *)
(* any interleaving of uploads of the same part, failures and crashes.     *)
THEOREM PartFilesPaired == Spec => []PartsPaired
  BY Invariance, PTL DEF Inv, PairInv

(* CompleteMultipartUpload publishes the contents it validated, but for    *)
(* the exceptions the property names.                                      *)
THEOREM CompleteAssembles == Spec => []AssembledAsListed
  BY Invariance, PTL DEF Inv, CopyInv

(* No part is written under another key than the upload's, although        *)
(* UploadPart checks the key against a copy of the record.                 *)
THEOREM OneKeyPerUpload == Spec => []NoForeignKey
  BY Invariance, PTL DEF Inv, KeyInv

(* Complete, Abort and the lifecycle worker remove the parts of an upload  *)
(* before the record that leads to them: parts outlive it only where       *)
(* os.RemoveAll, raced by an UploadPart or failing, left the directory.    *)
THEOREM PartsReachable == Spec => []NoUnreachableParts
  BY Invariance, PTL DEF Inv, DirInv

(* Racing and repeated CompleteMultipartUpload calls publish an upload     *)
(* once, and once more at most per crash and per Complete that got rid of  *)
(* neither the directory nor the record.                                   *)
THEOREM PublishesOnce == Spec => []PublishedOnce
  BY Invariance, PTL DEF Inv, PublishInv

(* Two requests between lock and unlock of the same upload, or of the same *)
(* part, are one request.                                                  *)
THEOREM LocksExclude == Spec => [](UploadExclusive /\ PartExclusive)
  BY Invariance, PTL DEF Inv, LockInv
=============================================================================
