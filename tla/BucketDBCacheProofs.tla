------------------------- MODULE BucketDBCacheProofs -------------------------
(***************************************************************************)
(* Reference counting keeps bucket database handles usable and accounted   *)
(* for, for any number of threads, buckets and handles and any cap.        *)
(***************************************************************************)
EXTENDS BucketDBCache, FiniteSetTheorems, TLAPS

(* A thread has a bucket unless it is idle, and an entry from bolt.Open or *)
(* the map until it returns.                                               *)
LocalsInv ==
    \A t \in Threads :
        /\ pc[t] = "idle" <=> bkt[t] = Nil
        /\ pc[t] \in {"opening", "opened", "using"} <=> hnd[t] # Nil

HoldsInit(t) == pc[t] \in {"init", "opening", "opened"}

(* One thread at a time opens a bucket's database. *)
InitExclusive ==
    \A t, u \in Threads : t # u /\ HoldsInit(t) /\ HoldsInit(u) => bkt[t] # bkt[u]

(* An entry that is being opened is known to nobody else. *)
Private ==
    \A t \in Threads : pc[t] \in {"opening", "opened"} =>
        /\ ~evicted[hnd[t]]
        /\ pc[t] = "opened" => open[hnd[t]]
        /\ \A b \in Buckets : active[b] # hnd[t]
        /\ \A u \in Threads \ {t} : hnd[u] # hnd[t]

Injective == \A b, c \in Buckets : b # c /\ active[b] # Nil => active[b] # active[c]

CachedOpen == \A b \in Cached : open[active[b]] /\ ~evicted[active[b]]

Counted == \A h \in Handles : ~Unreferenced(h) => refCount[h] = Cardinality(Users(h))

(* A handle in use that no release will close is still in the map. *)
Homed == \A t \in Threads : pc[t] = "using" /\ open[hnd[t]] /\ ~evicted[hnd[t]]
             => \E b \in Buckets : active[b] = hnd[t]

Inv == /\ TypeOK
       /\ LocalsInv
       /\ InitExclusive /\ InsertFindsNoEntry
       /\ Private
       /\ Injective /\ CachedOpen
       /\ Counted
       /\ HandleUsable /\ Homed /\ NoLeakedHandle
-----------------------------------------------------------------------------
LEMMA UsersFinite == \A h : IsFiniteSet(Users(h))
  BY FS_Subset, BucketDBCacheAssumption DEF Users

(* Whoever uses an entry is counted: a count of zero means nobody does,    *)
(* and a count of one that nobody else does.                               *)
LEMMA CountedUsers ==
    ASSUME Inv, NEW h \in Handles, ~Unreferenced(h), NEW t \in Threads, pc[t] = "using", hnd[t] = h
    PROVE  /\ refCount[h] \in Nat \ {0}
           /\ refCount[h] = 1 => Users(h) = {t}
           /\ Cardinality(Users(h) \ {t}) = refCount[h] - 1
  <1>1. t \in Users(h) /\ IsFiniteSet(Users(h)) /\ refCount[h] = Cardinality(Users(h))
    BY UsersFinite DEF Users, Inv, Counted
  <1>2. IsFiniteSet(Users(h) \ {t}) /\ Cardinality(Users(h) \ {t}) = Cardinality(Users(h)) - 1
    BY <1>1, FS_RemoveElement
  <1>3. Cardinality(Users(h) \ {t}) \in Nat /\ Cardinality(Users(h)) \in Nat
    BY <1>1, <1>2, FS_CardinalityType
  <1>4. Cardinality(Users(h) \ {t}) = 0 => Users(h) \ {t} = {}
    BY <1>2, FS_EmptySet
  <1> QED
    BY <1>1, <1>2, <1>3, <1>4

LEMMA InitInv == Init => Inv
  <1> SUFFICES ASSUME Init PROVE Inv
    OBVIOUS
  <1> USE BucketDBCacheAssumption
  <1>1. TypeOK
    BY DEF Init, TypeOK
  <1>2. \A h \in Handles : Unreferenced(h)
    BY DEF Init, Unreferenced
  <1>3. LocalsInv /\ InitExclusive /\ InsertFindsNoEntry /\ Private /\ Injective
    BY DEF Init, LocalsInv, InitExclusive, HoldsInit, InsertFindsNoEntry, Private, Injective
  <1>4. CachedOpen /\ Counted /\ HandleUsable /\ Homed /\ NoLeakedHandle
    BY <1>2 DEF Init, CachedOpen, Cached, Counted, HandleUsable, Homed, NoLeakedHandle
  <1> QED
    BY <1>1, <1>3, <1>4 DEF Inv

(* Steps that touch no entry and leave the thread without one. *)
LEMMA QuietInv ==
    ASSUME Inv, TypeOK', NEW t \in Threads,
           pc[t] \notin {"opening", "opened", "using"},
           pc'[t] \notin {"opening", "opened", "using"},
           pc'[t] = "idle" <=> bkt'[t] = Nil,
           pc'[t] = "init" => \A u \in Threads \ {t} : HoldsInit(u) => bkt[u] # bkt'[t],
           \A u \in Threads \ {t} : pc'[u] = pc[u] /\ bkt'[u] = bkt[u] /\ hnd'[u] = hnd[u],
           hnd'[t] = Nil,
           UNCHANGED <<active, entry, closed>>
    PROVE  Inv'
  <1>1. hnd[t] = Nil
    BY DEF Inv, LocalsInv
  <1>2. UNCHANGED hnd
    BY <1>1 DEF Inv, TypeOK
  <1>3. \A h : Users(h)' = Users(h) /\ Unreferenced(h)' = Unreferenced(h)
    BY <1>2 DEF Users, Unreferenced
  <1>4. LocalsInv' /\ InitExclusive' /\ InsertFindsNoEntry' /\ Private'
    BY <1>2 DEF Inv, LocalsInv, InitExclusive, HoldsInit, InsertFindsNoEntry, Private, entry
  <1>5. Injective' /\ CachedOpen' /\ HandleUsable' /\ Homed'
    BY <1>2 DEF Inv, Injective, CachedOpen, Cached, HandleUsable, Homed, entry
  <1>6. Counted' /\ NoLeakedHandle'
    BY <1>3 DEF Inv, Counted, NoLeakedHandle, entry
  <1> QED
    BY <1>4, <1>5, <1>6 DEF Inv

LEMMA QuietSteps ==
    ASSUME Inv, NEW t \in Threads,
           \/ \E b \in Buckets, k \in Kinds : AcquireMiss(t, b, k)
           \/ CheckRegistry(t) \/ LockInit(t)
           \/ \E b \in Buckets : CreateBucket(t, b) \/ DeleteBucket(t, b)
           \/ RemoveFile(t)
    PROVE  Inv'
  <1> USE BucketDBCacheAssumption DEF Goto, Return
  <1>0. TypeOK /\ LocalsInv
    BY DEF Inv
  <1>1. ASSUME NEW b \in Buckets, NEW k \in Kinds, AcquireMiss(t, b, k) PROVE Inv'
    <2>1. TypeOK'
      BY <1>0, <1>1 DEF AcquireMiss, Enter, TypeOK, entry
    <2> QED
      BY <1>0, <1>1, <2>1, QuietInv DEF AcquireMiss, Enter, TypeOK, LocalsInv
  <1>2. CASE CheckRegistry(t)
    <2>1. TypeOK'
      BY <1>0, <1>2 DEF CheckRegistry, TypeOK, entry
    <2> QED
      BY <1>0, <1>2, <2>1, QuietInv DEF CheckRegistry, TypeOK, LocalsInv
  <1>3. CASE LockInit(t)
    <2>1. TypeOK'
      BY <1>0, <1>3 DEF LockInit, TypeOK, entry
    <2> QED
      BY <1>0, <1>3, <2>1, QuietInv DEF LockInit, TypeOK, LocalsInv, Initializing, HoldsInit
  <1>4. ASSUME NEW b \in Buckets, CreateBucket(t, b) PROVE Inv'
    <2>1. TypeOK'
      BY <1>0, <1>4 DEF CreateBucket, TypeOK, entry, thread
    <2> QED
      BY <1>0, <1>4, <2>1, QuietInv DEF CreateBucket, TypeOK, LocalsInv, thread
  <1>5. ASSUME NEW b \in Buckets, DeleteBucket(t, b) PROVE Inv'
    <2>1. TypeOK'
      BY <1>0, <1>5 DEF DeleteBucket, TypeOK, entry
    <2> QED
      BY <1>0, <1>5, <2>1, QuietInv DEF DeleteBucket, TypeOK, LocalsInv
  <1>6. CASE RemoveFile(t)
    <2>1. TypeOK'
      BY <1>0, <1>6 DEF RemoveFile, TypeOK, entry
    <2> QED
      BY <1>0, <1>6, <2>1, QuietInv DEF RemoveFile, TypeOK, LocalsInv
  <1> QED
    BY <1>1, <1>2, <1>3, <1>4, <1>5, <1>6

(* One more user of a cached entry. *)
LEMMA TakeInv ==
    ASSUME Inv, NEW t \in Threads, NEW b \in Buckets, pc[t] \in {"idle", "init"}, Take(t, b),
           bkt' = [bkt EXCEPT ![t] = b], kind' = [kind EXCEPT ![t] = kind'[t]],
           kind'[t] \in {"request", "listing", "delete", Nil}
    PROVE  Inv'
  <1> USE BucketDBCacheAssumption
  <1>0. PICK h \in Handles : h = active[b]
    BY DEF Take, Inv, TypeOK
  <1>1. /\ hnd[t] = Nil
        /\ refCount' = [refCount EXCEPT ![h] = @ + 1]
        /\ hnd' = [hnd EXCEPT ![t] = h]
        /\ pc' = [pc EXCEPT ![t] = "using"]
        /\ UNCHANGED <<registry, file, active, evicted, open, inode, closed>>
    BY <1>0 DEF Inv, TypeOK, LocalsInv, Take
  <1>2. open[h] /\ ~evicted[h]
    BY <1>0 DEF Inv, CachedOpen, Cached
  <1>3. TypeOK'
    BY <1>1 DEF Inv, TypeOK
  <1>4. LocalsInv' /\ InitExclusive' /\ InsertFindsNoEntry'
    BY <1>1 DEF Inv, TypeOK, LocalsInv, InitExclusive, HoldsInit, InsertFindsNoEntry
  <1>5. Private'
    BY <1>0, <1>1 DEF Inv, TypeOK, Private
  <1>6. Injective' /\ CachedOpen'
    BY <1>1 DEF Inv, Injective, CachedOpen, Cached
  <1>7. HandleUsable' /\ Homed'
    BY <1>0, <1>1, <1>2 DEF Inv, TypeOK, HandleUsable, Homed
  <1>8. ASSUME NEW g \in Handles
        PROVE  /\ Unreferenced(g)' => Unreferenced(g)
               /\ g # h => (Unreferenced(g) => Unreferenced(g)') /\ Users(g)' = Users(g)
               /\ Users(h)' = Users(h) \cup {t} /\ t \notin Users(h) /\ ~Unreferenced(h)
    BY <1>0, <1>1 DEF Inv, TypeOK, Unreferenced, Users
  <1>9. NoLeakedHandle'
    BY <1>1, <1>8 DEF Inv, NoLeakedHandle
  <1>10. Counted'
    <2>1. refCount[h] = Cardinality(Users(h)) /\ refCount[h] \in Nat
      BY <1>1, <1>8 DEF Inv, Counted, TypeOK
    <2>2. Cardinality(Users(h) \cup {t}) = Cardinality(Users(h)) + 1
      BY <1>1, <1>8, UsersFinite, FS_AddElement
    <2>3. refCount'[h] = Cardinality(Users(h)')
      BY <1>1, <1>8, <2>1, <2>2 DEF Inv, TypeOK
    <2>4. ASSUME NEW g \in Handles, g # h, ~Unreferenced(g)' PROVE refCount'[g] = Cardinality(Users(g)')
      BY <1>1, <1>8, <2>4 DEF Inv, TypeOK, Counted
    <2> QED
      BY <2>3, <2>4 DEF Counted
  <1> QED
    BY <1>3, <1>4, <1>5, <1>6, <1>7, <1>9, <1>10 DEF Inv

(* A fresh entry becomes private to the thread that opens the file. *)
LEMMA OpenFileInv ==
    ASSUME Inv, NEW t \in Threads, OpenFile(t)
    PROVE  Inv'
  <1> USE BucketDBCacheAssumption
  <1>1. PICK h \in Handles, i \in Inodes :
           /\ FreshHandle(h)
           /\ file' = [file EXCEPT ![bkt[t]] = i]
           /\ inode' = [inode EXCEPT ![h] = i]
           /\ refCount' = [refCount EXCEPT ![h] = 0]
           /\ evicted' = [evicted EXCEPT ![h] = FALSE]
           /\ hnd' = [hnd EXCEPT ![t] = h]
    BY DEF OpenFile
  <1>2. /\ pc[t] = "init" /\ active[bkt[t]] = Nil /\ hnd[t] = Nil
        /\ pc' = [pc EXCEPT ![t] = "opening"]
        /\ UNCHANGED <<registry, active, open, closed, kind, bkt>>
    BY DEF OpenFile, Goto, Inv, LocalsInv
  <1>3. TypeOK'
    BY <1>1, <1>2 DEF Inv, TypeOK
  <1>4. LocalsInv' /\ InitExclusive' /\ InsertFindsNoEntry'
    BY <1>1, <1>2 DEF Inv, TypeOK, LocalsInv, InitExclusive, HoldsInit, InsertFindsNoEntry
  <1>5. /\ \A b \in Buckets : active[b] # h
        /\ \A u \in Threads : hnd[u] # h
        /\ ~open[h]
    BY <1>1 DEF FreshHandle, Unreferenced
  <1>6. Private'
    BY <1>1, <1>2, <1>5 DEF Inv, TypeOK, Private
  <1>7. Injective' /\ CachedOpen'
    BY <1>1, <1>2, <1>5 DEF Inv, TypeOK, Injective, CachedOpen, Cached
  <1>8. HandleUsable' /\ Homed'
    BY <1>1, <1>2, <1>5 DEF Inv, TypeOK, HandleUsable, Homed
  <1>9. ASSUME NEW g \in Handles
        PROVE  /\ Users(g)' = Users(g) /\ Users(h) = {}
               /\ g # h => Unreferenced(g)' = Unreferenced(g)
               /\ ~Unreferenced(h)'
    BY <1>1, <1>2, <1>5 DEF Inv, TypeOK, Unreferenced, Users
  <1>10. NoLeakedHandle'
    BY <1>2, <1>5, <1>9 DEF Inv, NoLeakedHandle
  <1>11. Counted'
    BY <1>1, <1>9, FS_EmptySet DEF Inv, TypeOK, Counted
  <1> QED
    BY <1>3, <1>4, <1>6, <1>7, <1>8, <1>10, <1>11 DEF Inv

LEMMA FlockInv ==
    ASSUME Inv, NEW t \in Threads, Flock(t)
    PROVE  Inv'
  <1> USE BucketDBCacheAssumption
  <1>1. /\ pc[t] = "opening" /\ hnd[t] \in Handles
        /\ open' = [open EXCEPT ![hnd[t]] = TRUE]
        /\ pc' = [pc EXCEPT ![t] = "opened"]
        /\ UNCHANGED <<registry, file, active, refCount, evicted, inode, closed, kind, bkt, hnd>>
    BY DEF Flock, Goto, Inv, TypeOK, LocalsInv
  <1>2. TypeOK' /\ LocalsInv' /\ InitExclusive' /\ InsertFindsNoEntry'
    BY <1>1 DEF Inv, TypeOK, LocalsInv, InitExclusive, HoldsInit, InsertFindsNoEntry
  <1>3. Private' /\ Injective' /\ CachedOpen'
    BY <1>1 DEF Inv, TypeOK, Private, Injective, CachedOpen, Cached
  <1>4. HandleUsable' /\ Homed'
    BY <1>1 DEF Inv, TypeOK, HandleUsable, Homed, Private
  <1>5. \A h : Users(h)' = Users(h) /\ Unreferenced(h)' = Unreferenced(h)
    BY <1>1 DEF Inv, TypeOK, Users, Unreferenced
  <1>6. Counted' /\ NoLeakedHandle'
    BY <1>1, <1>5 DEF Inv, TypeOK, Counted, NoLeakedHandle, Unreferenced
  <1> QED
    BY <1>2, <1>3, <1>4, <1>6 DEF Inv

LEMMA OpenFailsInv ==
    ASSUME Inv, NEW t \in Threads, OpenFails(t)
    PROVE  Inv'
  <1> USE BucketDBCacheAssumption
  <1>0. PICK h \in Handles : h = hnd[t]
    BY DEF OpenFails, Inv, TypeOK, LocalsInv
  <1>1. /\ pc[t] \in {"opening", "opened"}
        /\ open' = [open EXCEPT ![h] = FALSE]
        /\ pc' = [pc EXCEPT ![t] = "idle"] /\ kind' = [kind EXCEPT ![t] = Nil]
        /\ bkt' = [bkt EXCEPT ![t] = Nil] /\ hnd' = [hnd EXCEPT ![t] = Nil]
        /\ UNCHANGED <<registry, file, active, refCount, evicted, inode, closed>>
    BY <1>0 DEF OpenFails, Return
  <1>2. /\ \A b \in Buckets : active[b] # h
        /\ \A u \in Threads \ {t} : hnd[u] # h
    BY <1>0, <1>1 DEF Inv, Private
  <1>3. TypeOK' /\ LocalsInv' /\ InitExclusive' /\ InsertFindsNoEntry'
    BY <1>1 DEF Inv, TypeOK, LocalsInv, InitExclusive, HoldsInit, InsertFindsNoEntry
  <1>4. Private' /\ Injective' /\ CachedOpen'
    BY <1>1, <1>2 DEF Inv, TypeOK, Private, Injective, CachedOpen, Cached, LocalsInv
  <1>5. HandleUsable' /\ Homed'
    BY <1>1, <1>2 DEF Inv, TypeOK, HandleUsable, Homed
  <1>6. ASSUME NEW g \in Handles
        PROVE  Users(g)' = Users(g) /\ (g # h => Unreferenced(g)' = Unreferenced(g)) /\ Unreferenced(h)'
    BY <1>0, <1>1, <1>2 DEF Inv, TypeOK, Users, Unreferenced
  <1>7. Counted' /\ NoLeakedHandle'
    BY <1>1, <1>6 DEF Inv, TypeOK, Counted, NoLeakedHandle
  <1> QED
    BY <1>3, <1>4, <1>5, <1>7 DEF Inv

(* Nobody uses an entry of the map whose count is zero. *)
LEMMA IdleEntry ==
    ASSUME Inv, NEW b \in Buckets, NEW h \in Handles, h = active[b], refCount[h] = 0
    PROVE  Users(h) = {}
  <1>1. Cardinality(Users(h)) = 0
    BY DEF Inv, Counted, Unreferenced
  <1> QED
    BY <1>1, UsersFinite, FS_EmptySet

(* The new entry enters the map, an idle one may leave it and is closed. *)
LEMMA InsertInv ==
    ASSUME Inv, NEW t \in Threads, Insert(t)
    PROVE  Inv'
  <1> USE BucketDBCacheAssumption
  <1>1. PICK h \in Handles, b \in Buckets : h = hnd[t] /\ b = bkt[t]
    BY DEF Insert, Inv, TypeOK, LocalsInv
  <1>2. PICK victim \in IF Victims(b) = {} THEN {Nil} ELSE Victims(b) :
           /\ active' = [c \in Buckets |-> IF c = b THEN h
                                           ELSE IF active[c] = victim THEN Nil ELSE active[c]]
           /\ evicted' = [g \in Handles |-> evicted[g] \/ g = victim]
           /\ open' = [g \in Handles |-> open[g] /\ g # victim]
           /\ refCount' = [refCount EXCEPT ![h] = 1]
    BY <1>1 DEF Insert
  <1>3. /\ pc[t] = "opened" /\ pc' = [pc EXCEPT ![t] = "using"]
        /\ UNCHANGED <<registry, file, inode, closed, kind, bkt, hnd>>
    BY DEF Insert, Goto
  <1>4. /\ active[b] = Nil /\ open[h] /\ ~evicted[h]
        /\ \A c \in Buckets : active[c] # h
        /\ \A u \in Threads \ {t} : hnd[u] # h
    BY <1>1, <1>3 DEF Inv, InsertFindsNoEntry, Private
  <1>5. /\ victim # h
        /\ victim # Nil => victim \in Handles /\ (\E c \in Buckets : active[c] = victim)
                           /\ refCount[victim] = 0
    BY <1>2, <1>4 DEF Victims, Cached, Inv, TypeOK
  <1>6. \A u \in Threads : pc[u] = "using" => hnd[u] # victim
    BY <1>5, IdleEntry DEF Users, Inv, LocalsInv
  <1>7. TypeOK'
    BY <1>2, <1>3 DEF Inv, TypeOK
  <1>8. LocalsInv' /\ InitExclusive'
    BY <1>3 DEF Inv, TypeOK, LocalsInv, InitExclusive, HoldsInit
  <1>9. InsertFindsNoEntry'
    <2> SUFFICES ASSUME NEW u \in Threads, pc'[u] \in {"opening", "opened"}
                 PROVE  active'[bkt'[u]] = Nil
      BY DEF InsertFindsNoEntry
    <2>1. u # t /\ pc[u] = pc'[u] /\ bkt'[u] = bkt[u] /\ bkt[u] \in Buckets
      BY <1>3 DEF Inv, TypeOK, LocalsInv
    <2>2. bkt[u] # b /\ active[bkt[u]] = Nil
      BY <2>1, <1>1, <1>3 DEF Inv, InitExclusive, HoldsInit, InsertFindsNoEntry
    <2> QED
      BY <2>1, <2>2, <1>2
  <1>10. Private'
    <2> SUFFICES ASSUME NEW u \in Threads, pc'[u] \in {"opening", "opened"}
                 PROVE  /\ ~evicted'[hnd'[u]]
                        /\ pc'[u] = "opened" => open'[hnd'[u]]
                        /\ \A c \in Buckets : active'[c] # hnd'[u]
                        /\ \A w \in Threads \ {u} : hnd'[w] # hnd'[u]
      BY DEF Private
    <2>1. u # t /\ pc[u] = pc'[u] /\ hnd[u] \in Handles /\ hnd'[u] = hnd[u]
      BY <1>3 DEF Inv, TypeOK, LocalsInv
    <2>2. hnd[u] # victim /\ hnd[u] # h
      BY <2>1, <1>4, <1>5 DEF Inv, Private
    <2> QED
      BY <2>1, <2>2, <1>2, <1>3 DEF Inv, Private
  <1>11. Injective' /\ CachedOpen'
    BY <1>2, <1>4, <1>5 DEF Inv, TypeOK, Injective, CachedOpen, Cached
  <1>12. HandleUsable'
    BY <1>1, <1>2, <1>3, <1>4, <1>5, <1>6 DEF Inv, TypeOK, HandleUsable, LocalsInv
  <1>13. Homed'
    <2> SUFFICES ASSUME NEW u \in Threads, pc'[u] = "using", open'[hnd'[u]], ~evicted'[hnd'[u]]
                 PROVE  \E c \in Buckets : active'[c] = hnd'[u]
      BY DEF Homed
    <2>1. CASE u = t
      BY <2>1, <1>1, <1>2, <1>3
    <2>2. CASE u # t
      <3>1. pc[u] = "using" /\ hnd'[u] = hnd[u] /\ hnd[u] \in Handles
        BY <2>2, <1>3 DEF Inv, TypeOK, LocalsInv
      <3>2. PICK c \in Buckets : active[c] = hnd[u]
        BY <3>1, <1>2 DEF Inv, Homed
      <3> QED
        BY <3>1, <3>2, <1>2, <1>4, <1>6
    <2> QED
      BY <2>1, <2>2
  <1>14. ASSUME NEW g \in Handles
         PROVE  /\ g # h => Users(g)' = Users(g) /\ (Unreferenced(g) => Unreferenced(g)')
                /\ g # victim => (Unreferenced(g)' => Unreferenced(g))
                /\ Users(h)' = {t}
    BY <1>1, <1>2, <1>3, <1>4 DEF Inv, TypeOK, Unreferenced, Users
  <1>15. NoLeakedHandle'
    BY <1>2, <1>14 DEF Inv, NoLeakedHandle
  <1>16. Counted'
    <2>1. Cardinality({t}) = 1
      BY FS_Singleton
    <2> QED
      BY <2>1, <1>2, <1>14 DEF Inv, TypeOK, Counted
  <1> QED
    BY <1>7, <1>8, <1>9, <1>10, <1>11, <1>12, <1>13, <1>15, <1>16 DEF Inv

(* One user less: an entry that left the map is closed with its last one. *)
LEMMA ReleaseInv ==
    ASSUME Inv, NEW t \in Threads, Release(t)
    PROVE  Inv'
  <1> USE BucketDBCacheAssumption
  <1>1. PICK h \in Handles : h = hnd[t]
    BY DEF Release, Inv, TypeOK, LocalsInv
  <1>2. /\ pc[t] = "using"
        /\ refCount' = [refCount EXCEPT ![h] = @ - 1]
        /\ open' = [open EXCEPT ![h] = @ /\ ~(refCount[h] = 1 /\ evicted[h])]
        /\ pc' = [pc EXCEPT ![t] = "idle"] /\ kind' = [kind EXCEPT ![t] = Nil]
        /\ bkt' = [bkt EXCEPT ![t] = Nil] /\ hnd' = [hnd EXCEPT ![t] = Nil]
        /\ UNCHANGED <<registry, file, active, evicted, inode, closed>>
    BY <1>1 DEF Release, Return
  <1>3. /\ refCount[h] \in Nat \ {0}
        /\ refCount[h] = 1 => Users(h) = {t}
        /\ Cardinality(Users(h) \ {t}) = refCount[h] - 1
    BY <1>1, <1>2, CountedUsers DEF Unreferenced
  <1>4. TypeOK'
    BY <1>2, <1>3 DEF Inv, TypeOK
  <1>5. LocalsInv' /\ InitExclusive' /\ InsertFindsNoEntry'
    BY <1>2 DEF Inv, TypeOK, LocalsInv, InitExclusive, HoldsInit, InsertFindsNoEntry
  <1>6. Private'
    BY <1>1, <1>2 DEF Inv, TypeOK, Private, LocalsInv
  <1>7. Injective' /\ CachedOpen'
    BY <1>2 DEF Inv, TypeOK, Injective, CachedOpen, Cached
  <1>8. ASSUME NEW u \in Threads, pc'[u] = "using"
        PROVE  pc[u] = "using" /\ hnd'[u] = hnd[u] /\ u # t /\ hnd[u] \in Handles
               /\ open'[hnd[u]] = open[hnd[u]]
    <2>1. pc[u] = "using" /\ hnd'[u] = hnd[u] /\ u # t /\ hnd[u] \in Handles
      BY <1>2, <1>8 DEF Inv, TypeOK, LocalsInv
    <2>2. hnd[u] = h => refCount[h] # 1
      BY <2>1, <1>3 DEF Users
    <2> QED
      BY <2>1, <2>2, <1>2 DEF Inv, TypeOK
  <1>9. HandleUsable' /\ Homed'
    BY <1>2, <1>8 DEF Inv, HandleUsable, Homed
  <1>10. ASSUME NEW g \in Handles
         PROVE  /\ Users(g)' = IF g = h THEN Users(h) \ {t} ELSE Users(g)
                /\ Unreferenced(g) => Unreferenced(g)'
                /\ g # h => (Unreferenced(g)' => Unreferenced(g))
    BY <1>1, <1>2 DEF Inv, TypeOK, Unreferenced, Users
  <1>11. open'[h] => ~Unreferenced(h)'
    <2> SUFFICES ASSUME open'[h], Unreferenced(h)' PROVE FALSE
      OBVIOUS
    <2>1. open[h] /\ ~(refCount[h] = 1 /\ evicted[h])
      BY <1>2 DEF Inv, TypeOK
    <2>2. \A b \in Buckets : active[b] # h
      BY <1>2 DEF Unreferenced
    <2>3. evicted[h]
      BY <1>1, <1>2, <2>1, <2>2 DEF Inv, Homed
    <2>4. Users(h) \ {t} = {}
      BY <1>2 DEF Unreferenced, Users, Inv, TypeOK
    <2>5. Cardinality(Users(h) \ {t}) = 0
      BY <2>4, FS_EmptySet
    <2> QED
      BY <2>1, <2>3, <2>5, <1>3
  <1>12. NoLeakedHandle'
    BY <1>2, <1>10, <1>11 DEF Inv, TypeOK, NoLeakedHandle
  <1>13. Counted'
    BY <1>2, <1>3, <1>10 DEF Inv, TypeOK, Counted
  <1> QED
    BY <1>4, <1>5, <1>6, <1>7, <1>9, <1>12, <1>13 DEF Inv

(* The deletion of a bucket drops its entry, closing it only if unused. *)
LEMMA DropEntryInv ==
    ASSUME Inv, NEW t \in Threads, DropEntry(t)
    PROVE  Inv'
  <1> USE BucketDBCacheAssumption
  <1>1. PICK b \in Buckets, h \in Handles \cup {Nil} : b = bkt[t] /\ h = active[b]
    BY DEF DropEntry, Inv, TypeOK, LocalsInv
  <1>2. /\ active' = [active EXCEPT ![b] = Nil]
        /\ evicted' = [g \in Handles |-> evicted[g] \/ (g = h /\ refCount[g] > 0)]
        /\ open' = [g \in Handles |-> open[g] /\ ~(g = h /\ refCount[g] = 0)]
        /\ pc[t] = "unregistered" /\ pc' = [pc EXCEPT ![t] = "dropped"]
        /\ UNCHANGED <<registry, file, refCount, inode, closed, kind, bkt, hnd>>
    BY <1>1 DEF DropEntry, Goto
  <1>3. \A u \in Threads : pc[u] = "using" /\ hnd[u] = h => refCount[h] # 0
    BY <1>1, IdleEntry DEF Users, Inv, LocalsInv, TypeOK
  <1>4. TypeOK'
    BY <1>2 DEF Inv, TypeOK
  <1>5. LocalsInv' /\ InitExclusive' /\ InsertFindsNoEntry'
    BY <1>2 DEF Inv, TypeOK, LocalsInv, InitExclusive, HoldsInit, InsertFindsNoEntry
  <1>6. Private'
    <2> SUFFICES ASSUME NEW u \in Threads, pc'[u] \in {"opening", "opened"}
                 PROVE  /\ ~evicted'[hnd'[u]]
                        /\ pc'[u] = "opened" => open'[hnd'[u]]
                        /\ \A c \in Buckets : active'[c] # hnd'[u]
                        /\ \A w \in Threads \ {u} : hnd'[w] # hnd'[u]
      BY DEF Private
    <2>1. pc[u] = pc'[u] /\ hnd[u] \in Handles /\ hnd'[u] = hnd[u] /\ hnd[u] # h
      BY <1>1, <1>2 DEF Inv, TypeOK, LocalsInv, Private
    <2> QED
      BY <2>1, <1>2 DEF Inv, TypeOK, Private
  <1>7. Injective' /\ CachedOpen'
    BY <1>1, <1>2 DEF Inv, TypeOK, Injective, CachedOpen, Cached
  <1>8. HandleUsable' /\ Homed'
    <2>1. ASSUME NEW u \in Threads, pc'[u] = "using"
          PROVE  /\ pc[u] = "using" /\ hnd'[u] = hnd[u] /\ hnd[u] \in Handles
                 /\ open'[hnd[u]] = open[hnd[u]]
                 /\ hnd[u] = h => evicted'[hnd[u]]
      <3>1. pc[u] = "using" /\ hnd'[u] = hnd[u] /\ hnd[u] \in Handles
        BY <2>1, <1>2 DEF Inv, TypeOK, LocalsInv
      <3>2. hnd[u] = h => refCount[h] > 0
        BY <3>1, <1>3 DEF Inv, TypeOK
      <3>3. hnd[u] = h => evicted'[hnd[u]]
        BY <3>1, <3>2, <1>2
      <3>4. open'[hnd[u]] = open[hnd[u]]
        <4>1. ~(hnd[u] = h /\ refCount[hnd[u]] = 0)
          BY <3>1, <3>2
        <4>2. open'[hnd[u]] = (open[hnd[u]] /\ ~(hnd[u] = h /\ refCount[hnd[u]] = 0))
          BY <3>1, <1>2
        <4>3. open[hnd[u]] \in BOOLEAN
          BY <3>1 DEF Inv, TypeOK
        <4> QED
          BY <4>1, <4>2, <4>3
      <3> QED
        BY <3>1, <3>3, <3>4
    <2>2. HandleUsable'
      BY <2>1, <1>2 DEF Inv, HandleUsable
    <2>3. ASSUME NEW u \in Threads, pc'[u] = "using", open'[hnd'[u]], ~evicted'[hnd'[u]]
          PROVE  \E c \in Buckets : active'[c] = hnd'[u]
      <3>1. PICK c \in Buckets : active[c] = hnd[u]
        BY <2>1, <2>3, <1>2 DEF Inv, Homed
      <3> QED
        BY <2>1, <2>3, <3>1, <1>1, <1>2 DEF Inv, TypeOK
    <2> QED
      BY <2>2, <2>3 DEF Homed
  <1>9. ASSUME NEW g \in Handles
        PROVE  /\ Users(g)' = Users(g)
               /\ Unreferenced(g) => Unreferenced(g)'
               /\ g # h => (Unreferenced(g)' => Unreferenced(g))
    BY <1>1, <1>2 DEF Inv, TypeOK, Unreferenced, Users
  <1>10. ASSUME h \in Handles, open'[h] PROVE ~Unreferenced(h)'
    <2>1. refCount[h] # 0
      BY <1>2, <1>10
    <2>2. refCount[h] = Cardinality(Users(h))
      BY <1>1, <1>10 DEF Inv, Counted, Unreferenced
    <2>3. Users(h) # {}
      BY <2>1, <2>2, FS_EmptySet
    <2> QED
      BY <2>3, <1>2 DEF Users, Unreferenced
  <1>11. NoLeakedHandle'
    BY <1>2, <1>9, <1>10 DEF Inv, NoLeakedHandle
  <1>12. Counted'
    BY <1>2, <1>9 DEF Inv, Counted
  <1> QED
    BY <1>4, <1>5, <1>6, <1>7, <1>8, <1>11, <1>12 DEF Inv

LEMMA CloseInv ==
    ASSUME Inv, Close
    PROVE  Inv'
  <1> USE BucketDBCacheAssumption
  <1>1. /\ closed' = TRUE
        /\ open' = [h \in Handles |-> open[h] /\ \A b \in Buckets : active[b] # h]
        /\ active' = [b \in Buckets |-> Nil]
        /\ UNCHANGED <<registry, file, refCount, evicted, inode, pc, kind, bkt, hnd>>
    BY DEF Close, thread
  <1>2. TypeOK'
    BY <1>1 DEF Inv, TypeOK
  <1>3. LocalsInv' /\ InitExclusive' /\ InsertFindsNoEntry'
    BY <1>1 DEF Inv, TypeOK, LocalsInv, InitExclusive, HoldsInit, InsertFindsNoEntry
  <1>4. Private'
    BY <1>1 DEF Inv, TypeOK, Private, LocalsInv
  <1>5. Injective' /\ CachedOpen' /\ HandleUsable'
    BY <1>1 DEF Injective, CachedOpen, Cached, HandleUsable
  <1>6. Homed'
    BY <1>1 DEF Inv, TypeOK, LocalsInv, Homed
  <1>7. Counted' /\ NoLeakedHandle'
    BY <1>1 DEF Inv, Counted, NoLeakedHandle, Unreferenced, Users
  <1> QED
    BY <1>2, <1>3, <1>4, <1>5, <1>6, <1>7 DEF Inv

LEMMA NextInv == Inv /\ [Next]_vars => Inv'
  <1> SUFFICES ASSUME Inv, [Next]_vars PROVE Inv'
    OBVIOUS
  <1>1. ASSUME NEW t \in Threads, NEW b \in Buckets, NEW k \in Kinds, AcquireHit(t, b, k)
        PROVE  Inv'
    <2>1. /\ pc[t] \in {"idle", "init"} /\ Take(t, b) /\ bkt' = [bkt EXCEPT ![t] = b]
          /\ kind' = [kind EXCEPT ![t] = kind'[t]]
          /\ kind'[t] \in {"request", "listing", "delete", Nil}
      BY <1>1, BucketDBCacheAssumption DEF AcquireHit, Enter, Inv, TypeOK
    <2> QED
      BY <2>1, TakeInv
  <1>2. ASSUME NEW t \in Threads, TakeAgain(t) PROVE Inv'
    <2>1. /\ pc[t] \in {"idle", "init"} /\ bkt[t] \in Buckets /\ Take(t, bkt[t])
          /\ bkt' = [bkt EXCEPT ![t] = bkt[t]]
          /\ kind' = [kind EXCEPT ![t] = kind'[t]]
          /\ kind'[t] \in {"request", "listing", "delete", Nil}
      BY <1>2 DEF TakeAgain, Inv, TypeOK, LocalsInv
    <2> QED
      BY <2>1, TakeInv
  <1>3. CASE UNCHANGED vars
    BY <1>3 DEF vars, entry, thread, Inv, TypeOK, LocalsInv, InitExclusive, HoldsInit,
                InsertFindsNoEntry, Private, Injective, CachedOpen, Cached, Counted,
                HandleUsable, Homed, NoLeakedHandle, Unreferenced, Users
  <1> QED
    BY <1>1, <1>2, <1>3, QuietSteps, OpenFileInv, FlockInv, OpenFailsInv, InsertInv, ReleaseInv,
       DropEntryInv, CloseInv DEF Next

LEMMA Invariance == Spec => []Inv
  BY InitInv, NextInv, PTL DEF Spec

(* Type correctness; above all, no release drives a count below zero. *)
THEOREM TypeCorrect == Spec => []TypeOK
  <1>1. Inv => TypeOK
    BY DEF Inv
  <1> QED
    BY <1>1, Invariance, PTL

(* No request loses its database handle to eviction or to the deletion of  *)
(* its bucket.                                                             *)
THEOREM Usable == Spec => []HandleUsable
  <1>1. Inv => HandleUsable
    BY DEF Inv
  <1> QED
    BY <1>1, Invariance, PTL

(* Every open handle has an owner, and its count is exact: handles are     *)
(* neither leaked nor closed twice.                                        *)
THEOREM Accounted == Spec => [](RefCountExact /\ NoLeakedHandle)
  <1>1. Inv => RefCountExact /\ NoLeakedHandle
    BY BucketDBCacheAssumption
       DEF Inv, RefCountExact, NoLeakedHandle, Counted, FreshHandle, CachedOpen, Cached, TypeOK
  <1> QED
    BY <1>1, Invariance, PTL

(* acquireBucketDB's second look at the map finds no entry: the branch     *)
(* that closes the handle just opened and shares another is dead code.     *)
THEOREM InsertUncontended == Spec => []InsertFindsNoEntry
  <1>1. Inv => InsertFindsNoEntry
    BY DEF Inv
  <1> QED
    BY <1>1, Invariance, PTL

-----------------------------------------------------------------------------
(***************************************************************************)
(* What the bucket's lock adds, when every user holds it for reading: the  *)
(* methods of MetadataStore do, the listings do not.                       *)
(***************************************************************************)
KindsFit ==
    \A t \in Threads :
        /\ pc[t] \in {"check", "wait", "init", "opening", "opened", "using"} => kind[t] = "request"
        /\ pc[t] \in {"unregistered", "dropped"} <=> kind[t] = "delete"

(* A deletion is alone with its bucket. *)
WriteExclusive ==
    \A t, u \in Threads : kind[t] = "delete" /\ u # t => bkt[u] # bkt[t]

LockInv == KindsFit /\ WriteExclusive

(* Whoever found the bucket in the registry still does. *)
StillRegistered ==
    \A t \in Threads : pc[t] \in {"wait", "init", "opening", "opened"} => bkt[t] \in registry

RegistryInv == StillRegistered /\ DeletedStaysDeleted

(* A handle is opened on the file at the bucket's path, which stays there  *)
(* until the entry has left the map.                                       *)
OpensCurrent ==
    \A t \in Threads : pc[t] \in {"opening", "opened"} => inode[hnd[t]] = file[bkt[t]]

DroppedUncached == \A t \in Threads : pc[t] = "dropped" => active[bkt[t]] = Nil

CachedCurrent == \A b \in Cached : inode[active[b]] = file[b]

CurrentInv == OpensCurrent /\ DroppedUncached /\ CachedCurrent

RequestsInv == LockInv /\ RegistryInv /\ CurrentInv

LEMMA InitRequestsInv == Init => RequestsInv
  BY BucketDBCacheAssumption
     DEF Init, RequestsInv, LockInv, KindsFit, WriteExclusive, RegistryInv, StillRegistered,
         DeletedStaysDeleted, CurrentInv, OpensCurrent, DroppedUncached, CachedCurrent, Cached

(* A thread moves on or returns and changes neither file nor map. *)
Moves(t) == \A u \in Threads \ {t} : /\ pc'[u] = pc[u] /\ kind'[u] = kind[u] /\ bkt'[u] = bkt[u]
                                     /\ hnd'[u] = hnd[u]

LEMMA LockMoves ==
    ASSUME Inv, LockInv, NEW t \in Threads, Moves(t), kind[t] # "delete",
           \/ pc'[t] = "idle" /\ kind'[t] = Nil /\ bkt'[t] = Nil
           \/ /\ pc'[t] \in {"check", "wait", "init", "opening", "opened", "using"}
              /\ kind'[t] = "request" /\ bkt'[t] \in Buckets
              /\ bkt'[t] = bkt[t] \/ Writers(bkt'[t]) = {}
    PROVE  LockInv'
  <1>1. KindsFit'
    BY BucketDBCacheAssumption DEF LockInv, KindsFit, Moves
  <1>2. WriteExclusive'
    <2> SUFFICES ASSUME NEW u \in Threads, NEW w \in Threads, kind'[u] = "delete", w # u
                 PROVE  bkt'[w] # bkt'[u]
      BY DEF WriteExclusive
    <2>1. u # t /\ kind[u] = "delete" /\ bkt'[u] = bkt[u] /\ bkt[u] \in Buckets
      BY BucketDBCacheAssumption DEF Moves, LockInv, KindsFit, Inv, LocalsInv, TypeOK
    <2>2. CASE w # t
      BY <2>1, <2>2 DEF Moves, LockInv, WriteExclusive
    <2>3. CASE w = t
      BY <2>1, <2>3, BucketDBCacheAssumption DEF Writers, LockInv, WriteExclusive
    <2> QED
      BY <2>2, <2>3
  <1> QED
    BY <1>1, <1>2 DEF LockInv

LEMMA RegistryMoves ==
    ASSUME Inv, LockInv, RegistryInv, NEW t \in Threads, Moves(t), kind[t] # "delete",
           pc'[t] \in {"wait", "init", "opening", "opened"} => bkt'[t] \in registry,
           registry \subseteq registry',
           \A b \in Buckets : file'[b] = file[b] \/ b \in registry'
    PROVE  RegistryInv'
  <1>1. StillRegistered'
    BY DEF RegistryInv, StillRegistered, Moves
  <1>2. \A b \in Buckets : Writers(b)' = {} => Writers(b) = {}
    BY DEF Writers, Moves
  <1> QED
    BY <1>1, <1>2 DEF RegistryInv, DeletedStaysDeleted

LEMMA CurrentMoves ==
    ASSUME Inv, CurrentInv, NEW t \in Threads, Moves(t), pc'[t] # "dropped",
           pc'[t] \in {"opening", "opened"} => /\ pc[t] \in {"opening", "opened"}
                                               /\ hnd'[t] = hnd[t] /\ bkt'[t] = bkt[t],
           UNCHANGED <<inode, file>>,
           \A b \in Buckets : active'[b] \in {active[b], Nil}
    PROVE  CurrentInv'
  <1>1. OpensCurrent'
    BY DEF CurrentInv, OpensCurrent, Moves
  <1>2. DroppedUncached'
    BY BucketDBCacheAssumption DEF CurrentInv, DroppedUncached, Moves, Inv, LocalsInv, TypeOK
  <1>3. CachedCurrent'
    BY DEF CurrentInv, CachedCurrent, Cached
  <1> QED
    BY <1>1, <1>2, <1>3 DEF CurrentInv

(* Acquire, release and the steps in between. *)
LEMMA RequestSteps ==
    ASSUME Kinds \subseteq {"request"}, Inv, RequestsInv, NEW t \in Threads,
           \/ \E b \in Buckets, k \in Kinds : AcquireHit(t, b, k) \/ AcquireMiss(t, b, k)
           \/ CheckRegistry(t) \/ LockInit(t) \/ TakeAgain(t)
           \/ Flock(t) \/ OpenFails(t) \/ Release(t)
    PROVE  RequestsInv'
  <1> USE BucketDBCacheAssumption DEF Goto, Return, entry
  <1>0. /\ LockInv /\ RegistryInv /\ CurrentInv /\ TypeOK /\ LocalsInv
        /\ kind[t] # "delete"
        /\ pc[t] # "idle" => bkt[t] \in Buckets /\ kind[t] = "request"
    <2>1. pc[t] \notin {"unregistered", "dropped"}
      BY DEF AcquireHit, AcquireMiss, Enter, CheckRegistry, LockInit, TakeAgain, Flock, OpenFails, Release
    <2> QED
      BY <2>1 DEF Inv, RequestsInv, LockInv, KindsFit, LocalsInv, TypeOK
  <1>1. ASSUME NEW b \in Buckets, NEW k \in Kinds, AcquireHit(t, b, k) \/ AcquireMiss(t, b, k)
        PROVE  RequestsInv'
    <2>1. /\ Moves(t) /\ Writers(b) = {} /\ bkt'[t] = b /\ kind'[t] = "request"
          /\ pc'[t] \in {"check", "using"}
          /\ UNCHANGED <<registry, file, inode, active>>
      BY <1>0, <1>1 DEF AcquireHit, AcquireMiss, Enter, Take, TypeOK, Moves
    <2> QED
      BY <1>0, <2>1, LockMoves, RegistryMoves, CurrentMoves DEF RequestsInv
  <1>2. CASE CheckRegistry(t)
    <2>1. /\ Moves(t) /\ UNCHANGED <<registry, file, inode, active>>
          /\ \/ pc'[t] = "idle" /\ kind'[t] = Nil /\ bkt'[t] = Nil
             \/ pc'[t] = "wait" /\ kind'[t] = kind[t] /\ bkt'[t] = bkt[t] /\ bkt[t] \in registry
          /\ pc[t] = "check"
      BY <1>0, <1>2 DEF CheckRegistry, InRegistry, TypeOK, Moves
    <2> QED
      BY <1>0, <2>1, LockMoves, RegistryMoves, CurrentMoves DEF RequestsInv
  <1>3. CASE LockInit(t)
    <2>1. /\ Moves(t) /\ UNCHANGED <<registry, file, inode, active>>
          /\ pc'[t] = "init" /\ kind'[t] = kind[t] /\ bkt'[t] = bkt[t] /\ pc[t] = "wait"
      BY <1>0, <1>3 DEF LockInit, TypeOK, Moves
    <2>2. bkt[t] \in registry
      BY <1>0, <2>1 DEF RegistryInv, StillRegistered
    <2> QED
      BY <1>0, <2>1, <2>2, LockMoves, RegistryMoves, CurrentMoves DEF RequestsInv
  <1>4. CASE TakeAgain(t)
    <2>1. /\ Moves(t) /\ UNCHANGED <<registry, file, inode, active>>
          /\ pc'[t] = "using" /\ kind'[t] = kind[t] /\ bkt'[t] = bkt[t] /\ pc[t] = "init"
      BY <1>0, <1>4 DEF TakeAgain, Take, TypeOK, Moves
    <2> QED
      BY <1>0, <2>1, LockMoves, RegistryMoves, CurrentMoves DEF RequestsInv
  <1>5. CASE Flock(t)
    <2>1. /\ Moves(t) /\ UNCHANGED <<registry, file, inode, active>> /\ hnd'[t] = hnd[t]
          /\ pc'[t] = "opened" /\ kind'[t] = kind[t] /\ bkt'[t] = bkt[t] /\ pc[t] = "opening"
      BY <1>0, <1>5 DEF Flock, TypeOK, Moves
    <2>2. bkt[t] \in registry
      BY <1>0, <2>1 DEF RegistryInv, StillRegistered
    <2> QED
      BY <1>0, <2>1, <2>2, LockMoves, RegistryMoves, CurrentMoves DEF RequestsInv
  <1>6. CASE OpenFails(t) \/ Release(t)
    <2>1. /\ Moves(t) /\ UNCHANGED <<registry, file, inode, active>>
          /\ pc'[t] = "idle" /\ kind'[t] = Nil /\ bkt'[t] = Nil
      BY <1>0, <1>6 DEF OpenFails, Release, TypeOK, Moves
    <2> QED
      BY <1>0, <2>1, LockMoves, RegistryMoves, CurrentMoves DEF RequestsInv
  <1> QED
    BY <1>1, <1>2, <1>3, <1>4, <1>5, <1>6

(* A file is created for a bucket whose registration was checked, and      *)
(* nobody else holds a handle on that path.                                *)
LEMMA RequestOpensFile ==
    ASSUME Inv, RequestsInv, NEW t \in Threads, OpenFile(t)
    PROVE  RequestsInv'
  <1> USE BucketDBCacheAssumption
  <1>0. LockInv /\ RegistryInv /\ CurrentInv /\ TypeOK /\ LocalsInv
    BY DEF Inv, RequestsInv
  <1>1. PICK h \in Handles, i \in Inodes :
           /\ FreshHandle(h)
           /\ IF file[bkt[t]] = Nil THEN FreshInode(i) ELSE i = file[bkt[t]]
           /\ file' = [file EXCEPT ![bkt[t]] = i]
           /\ inode' = [inode EXCEPT ![h] = i]
           /\ hnd' = [hnd EXCEPT ![t] = h]
    BY DEF OpenFile
  <1>2. PICK b \in Buckets : b = bkt[t]
    BY <1>0 DEF OpenFile, TypeOK, LocalsInv
  <1>3. /\ pc[t] = "init" /\ active[b] = Nil
        /\ pc' = [pc EXCEPT ![t] = "opening"]
        /\ UNCHANGED <<registry, active, kind, bkt>>
    BY <1>2 DEF OpenFile, Goto
  <1>4. kind[t] = "request" /\ b \in registry
    BY <1>0, <1>2, <1>3 DEF LockInv, KindsFit, RegistryInv, StillRegistered
  <1>5. Moves(t) /\ pc'[t] = "opening" /\ kind'[t] = "request" /\ bkt'[t] = b /\ hnd'[t] = h
    BY <1>0, <1>1, <1>2, <1>3, <1>4 DEF TypeOK, Moves
  <1>6. file'[b] = i /\ inode'[h] = i /\ \A c \in Buckets \ {b} : file'[c] = file[c]
    BY <1>0, <1>1, <1>2 DEF TypeOK
  <1>7. /\ \A c \in Buckets : active[c] # h
        /\ \A u \in Threads : hnd[u] # h
    BY <1>1 DEF FreshHandle, Unreferenced
  <1>8. \A g \in Handles \ {h} : inode'[g] = inode[g]
    BY <1>0, <1>1 DEF TypeOK
  <1>9. LockInv'
    BY <1>0, <1>2, <1>4, <1>5, LockMoves
  <1>10. RegistryInv'
    BY <1>0, <1>2, <1>3, <1>4, <1>5, <1>6, RegistryMoves
  <1>11. OpensCurrent'
    <2> SUFFICES ASSUME NEW u \in Threads, pc'[u] \in {"opening", "opened"}
                 PROVE  inode'[hnd'[u]] = file'[bkt'[u]]
      BY DEF OpensCurrent
    <2>1. CASE u = t
      BY <1>5, <1>6, <2>1
    <2>2. CASE u # t
      <3>1. pc[u] = pc'[u] /\ hnd'[u] = hnd[u] /\ bkt'[u] = bkt[u]
        BY <1>5, <2>2 DEF Moves
      <3>2. hnd[u] \in Handles \ {h} /\ bkt[u] \in Buckets \ {b}
        BY <1>0, <1>2, <1>3, <1>7, <2>2, <3>1 DEF TypeOK, LocalsInv, Inv, InitExclusive, HoldsInit
      <3> QED
        BY <1>0, <1>6, <1>8, <3>1, <3>2 DEF CurrentInv, OpensCurrent
    <2> QED
      BY <2>1, <2>2
  <1>12. DroppedUncached'
    BY <1>0, <1>3, <1>5 DEF CurrentInv, DroppedUncached, Moves
  <1>13. CachedCurrent'
    BY <1>0, <1>3, <1>6, <1>7, <1>8 DEF CurrentInv, CachedCurrent, Cached, TypeOK
  <1> QED
    BY <1>9, <1>10, <1>11, <1>12, <1>13 DEF RequestsInv, CurrentInv

LEMMA RequestInserts ==
    ASSUME Inv, RequestsInv, NEW t \in Threads, Insert(t)
    PROVE  RequestsInv'
  <1> USE BucketDBCacheAssumption
  <1>0. LockInv /\ RegistryInv /\ CurrentInv /\ TypeOK /\ LocalsInv
    BY DEF Inv, RequestsInv
  <1>1. PICK h \in Handles, b \in Buckets : h = hnd[t] /\ b = bkt[t]
    BY <1>0 DEF Insert, TypeOK, LocalsInv
  <1>2. /\ active'[b] = h /\ \A c \in Buckets \ {b} : active'[c] \in {active[c], Nil}
        /\ pc[t] = "opened" /\ pc' = [pc EXCEPT ![t] = "using"]
        /\ UNCHANGED <<registry, file, inode, kind, bkt, hnd>>
    BY <1>1 DEF Insert, Goto
  <1>3. Moves(t) /\ pc'[t] = "using" /\ kind'[t] = "request" /\ bkt'[t] = bkt[t]
    BY <1>0, <1>2 DEF TypeOK, Moves, LockInv, KindsFit
  <1>4. LockInv' /\ RegistryInv'
    BY <1>0, <1>1, <1>2, <1>3, LockMoves, RegistryMoves
  <1>5. OpensCurrent'
    BY <1>0, <1>2, <1>3 DEF CurrentInv, OpensCurrent, Moves
  <1>6. DroppedUncached'
    <2> SUFFICES ASSUME NEW u \in Threads, pc'[u] = "dropped" PROVE active'[bkt'[u]] = Nil
      BY DEF DroppedUncached
    <2>1. u # t /\ pc[u] = "dropped" /\ bkt'[u] = bkt[u] /\ bkt[u] \in Buckets /\ kind[u] = "delete"
      BY <1>0, <1>3 DEF Moves, TypeOK, LocalsInv, LockInv, KindsFit
    <2>2. bkt[u] # b /\ active[bkt[u]] = Nil
      BY <1>0, <1>1, <2>1 DEF LockInv, WriteExclusive, CurrentInv, DroppedUncached
    <2> QED
      BY <1>2, <2>1, <2>2
  <1>7. CachedCurrent'
    BY <1>0, <1>1, <1>2 DEF CurrentInv, CachedCurrent, OpensCurrent, Cached
  <1> QED
    BY <1>4, <1>5, <1>6, <1>7 DEF RequestsInv, CurrentInv

LEMMA DeletionSteps ==
    ASSUME Inv, RequestsInv, NEW t \in Threads,
           \/ \E b \in Buckets : CreateBucket(t, b) \/ DeleteBucket(t, b)
           \/ DropEntry(t) \/ RemoveFile(t)
    PROVE  RequestsInv'
  <1> USE BucketDBCacheAssumption DEF entry, thread
  <1>0. LockInv /\ RegistryInv /\ CurrentInv /\ TypeOK /\ LocalsInv
    BY DEF Inv, RequestsInv
  <1>1. ASSUME NEW b \in Buckets, CreateBucket(t, b) PROVE RequestsInv'
    <2>1. UNCHANGED <<file, active, inode, pc, kind, bkt, hnd>> /\ registry' = registry \cup {b}
      BY <1>1 DEF CreateBucket
    <2>2. LockInv' /\ CurrentInv'
      BY <1>0, <2>1 DEF LockInv, KindsFit, WriteExclusive, CurrentInv, OpensCurrent, DroppedUncached,
                        CachedCurrent, Cached
    <2>3. RegistryInv'
      BY <1>0, <2>1 DEF RegistryInv, StillRegistered, DeletedStaysDeleted, Writers
    <2> QED
      BY <2>2, <2>3 DEF RequestsInv
  <1>2. ASSUME NEW b \in Buckets, DeleteBucket(t, b) PROVE RequestsInv'
    <2>1. /\ pc[t] = "idle" /\ Readers(b) = {} /\ Writers(b) = {}
          /\ pc'[t] = "unregistered" /\ kind'[t] = "delete" /\ bkt'[t] = b
          /\ Moves(t) /\ registry' = registry \ {b} /\ UNCHANGED <<file, active, inode, hnd>>
      BY <1>0, <1>2 DEF DeleteBucket, TypeOK, Moves
    <2>2. \A u \in Threads : bkt[u] # b
      <3> SUFFICES ASSUME NEW u \in Threads, bkt[u] = b PROVE FALSE
        OBVIOUS
      <3>1. pc[u] # "idle"
        BY <1>0 DEF LocalsInv
      <3>2. kind[u] \in {"request", "delete"}
        BY <1>0, <3>1 DEF TypeOK, LockInv, KindsFit
      <3> QED
        BY <2>1, <3>2 DEF Readers, Writers
    <2>3. LockInv'
      BY <1>0, <2>1, <2>2 DEF LockInv, KindsFit, WriteExclusive, Moves
    <2>4. StillRegistered'
      BY <1>0, <2>1, <2>2 DEF RegistryInv, StillRegistered, Moves
    <2>5. ASSUME NEW c \in Buckets, Writers(c)' = {} PROVE Writers(c) = {} /\ c # b
      <3>1. t \in Writers(b)'
        BY <2>1 DEF Writers
      <3>2. kind[t] # "delete"
        BY <1>0, <2>1 DEF LockInv, KindsFit
      <3>3. \A u \in Threads : u \in Writers(c) => u \in Writers(c)'
        BY <2>1, <3>2 DEF Writers, Moves
      <3> QED
        BY <2>5, <3>1, <3>3 DEF Writers
    <2>6. RegistryInv'
      BY <1>0, <2>1, <2>4, <2>5 DEF RegistryInv, DeletedStaysDeleted
    <2>7. CurrentInv'
      BY <1>0, <2>1, CurrentMoves
    <2> QED
      BY <2>3, <2>6, <2>7 DEF RequestsInv
  <1>3. CASE DropEntry(t)
    <2>1. PICK b \in Buckets : b = bkt[t]
      BY <1>0, <1>3 DEF DropEntry, TypeOK, LocalsInv
    <2>2. /\ pc[t] = "unregistered" /\ pc' = [pc EXCEPT ![t] = "dropped"]
          /\ active' = [active EXCEPT ![b] = Nil]
          /\ UNCHANGED <<registry, file, inode, kind, bkt, hnd>>
      BY <1>3, <2>1 DEF DropEntry, Goto
    <2>3. LockInv'
      BY <1>0, <2>2 DEF TypeOK, LockInv, KindsFit, WriteExclusive
    <2>4. RegistryInv'
      BY <1>0, <2>2 DEF TypeOK, RegistryInv, StillRegistered, DeletedStaysDeleted, Writers
    <2>5. CurrentInv'
      BY <1>0, <2>1, <2>2 DEF TypeOK, LocalsInv, CurrentInv, OpensCurrent, DroppedUncached, CachedCurrent,
                              Cached
    <2> QED
      BY <2>3, <2>4, <2>5 DEF RequestsInv
  <1>4. CASE RemoveFile(t)
    <2>1. PICK b \in Buckets : b = bkt[t]
      BY <1>0, <1>4 DEF RemoveFile, TypeOK, LocalsInv
    <2>2. /\ pc[t] = "dropped" /\ pc'[t] = "idle" /\ kind'[t] = Nil /\ bkt'[t] = Nil
          /\ Moves(t) /\ file' = [file EXCEPT ![b] = Nil]
          /\ UNCHANGED <<registry, active, inode>>
      BY <1>0, <1>4, <2>1 DEF RemoveFile, Return, TypeOK, Moves
    <2>3. kind[t] = "delete" /\ active[b] = Nil /\ \A u \in Threads \ {t} : bkt[u] # b
      BY <1>0, <2>1, <2>2 DEF LockInv, KindsFit, WriteExclusive, CurrentInv, DroppedUncached
    <2>4. LockInv'
      <3>1. KindsFit'
        BY <1>0, <2>2 DEF LockInv, KindsFit, Moves
      <3>2. ASSUME NEW u \in Threads, NEW w \in Threads, kind'[u] = "delete", w # u
            PROVE  bkt'[w] # bkt'[u]
        <4>1. u # t /\ kind[u] = "delete" /\ bkt'[u] = bkt[u] /\ bkt[u] # Nil
          BY <1>0, <2>2, <3>2 DEF Moves, LockInv, KindsFit, LocalsInv
        <4> QED
          BY <1>0, <2>2, <3>2, <4>1 DEF Moves, LockInv, WriteExclusive
      <3> QED
        BY <3>1, <3>2 DEF LockInv, WriteExclusive
    <2>5. StillRegistered'
      BY <1>0, <2>2 DEF RegistryInv, StillRegistered, Moves
    <2>6. \A c \in Buckets \ {b} : file'[c] = file[c] /\ (Writers(c)' = {} => Writers(c) = {})
      BY <1>0, <2>1, <2>2 DEF TypeOK, Writers, Moves
    <2>7. file'[b] = Nil
      BY <1>0, <2>2 DEF TypeOK
    <2>8. RegistryInv'
      BY <1>0, <2>2, <2>5, <2>6, <2>7 DEF RegistryInv, DeletedStaysDeleted
    <2>9. OpensCurrent' /\ DroppedUncached'
      BY <1>0, <2>2, <2>3, <2>6 DEF CurrentInv, OpensCurrent, DroppedUncached, Moves, TypeOK, LocalsInv
    <2>10. CachedCurrent'
      BY <1>0, <2>2, <2>3, <2>6 DEF CurrentInv, CachedCurrent, Cached
    <2> QED
      BY <2>4, <2>8, <2>9, <2>10 DEF RequestsInv, CurrentInv
  <1> QED
    BY <1>1, <1>2, <1>3, <1>4

LEMMA NextRequestsInv ==
    Kinds \subseteq {"request"} /\ Inv /\ RequestsInv /\ [Next]_vars => RequestsInv'
  <1> SUFFICES ASSUME Kinds \subseteq {"request"}, Inv, RequestsInv, [Next]_vars PROVE RequestsInv'
    OBVIOUS
  <1>1. CASE Close
    <2>1. /\ active' = [b \in Buckets |-> Nil]
          /\ UNCHANGED <<registry, file, inode, pc, kind, bkt, hnd>>
      BY <1>1 DEF Close, thread
    <2> QED
      BY <2>1, BucketDBCacheAssumption
         DEF RequestsInv, LockInv, KindsFit, WriteExclusive, RegistryInv, StillRegistered,
             DeletedStaysDeleted, Writers, CurrentInv, OpensCurrent, DroppedUncached, CachedCurrent, Cached,
             Inv, TypeOK, LocalsInv
  <1>2. CASE UNCHANGED vars
    BY <1>2 DEF vars, entry, thread, RequestsInv, LockInv, KindsFit, WriteExclusive, RegistryInv,
                StillRegistered, DeletedStaysDeleted, Writers, CurrentInv, OpensCurrent, DroppedUncached,
                CachedCurrent, Cached
  <1> QED
    BY <1>1, <1>2, RequestSteps, RequestOpensFile, RequestInserts, DeletionSteps DEF Next

LEMMA RequestsInvariance == Kinds \subseteq {"request"} => (Spec => []RequestsInv)
  <1> SUFFICES ASSUME Kinds \subseteq {"request"} PROVE Spec => []RequestsInv
    OBVIOUS
  <1>1. Inv /\ RequestsInv /\ [Next]_vars => RequestsInv'
    BY NextRequestsInv
  <1> QED
    BY <1>1, InitRequestsInv, Invariance, PTL DEF Spec

(* With users that hold the bucket's lock, as every method of the store    *)
(* but the listings does, CloseAndRemoveBucketDB is final: no request      *)
(* re-creates the database file of a deleted bucket.                       *)
THEOREM DeletionFinal == Kinds \subseteq {"request"} => (Spec => []DeletedStaysDeleted)
  <1>1. RequestsInv => DeletedStaysDeleted
    BY DEF RequestsInv, RegistryInv
  <1> QED
    BY <1>1, RequestsInvariance, PTL

(* Under the same condition acquireBucketDB never hands out a handle on a  *)
(* file that has been unlinked.                                            *)
THEOREM HandlesCurrent == Kinds \subseteq {"request"} => (Spec => []CachedHandleCurrent)
  <1>1. Inv /\ RequestsInv => CachedHandleCurrent
    BY DEF Inv, CachedOpen, RequestsInv, CurrentInv, CachedCurrent, CachedHandleCurrent
  <1> QED
    BY <1>1, Invariance, RequestsInvariance, PTL
=============================================================================
