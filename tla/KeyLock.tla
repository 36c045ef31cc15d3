------------------------------- MODULE KeyLock -------------------------------
(***************************************************************************)
(* The refcounted lock tables of the storage engine.                       *)
(*                                                                         *)
(* lockKey (internal/storage/multipart.go) guards uploads, parts and       *)
(* object keys with one mutex per name; acquireBucketLock (metadata.go)    *)
(* guards buckets with one RWMutex per name, and acquireBucketDB repeats   *)
(* the pattern for its init locks.  A lock object is created when the      *)
(* first user of its name arrives and dropped from the table when the last *)
(* one leaves.  The danger is the gap between leaving the mutex and        *)
(* leaving the table: a name must never be guarded by two objects.         *)
(*                                                                         *)
(* Modes is {"write"} for lockKey and the init locks, {"read", "write"}    *)
(* for acquireBucketLock.  The 32 table segments only spread contention:   *)
(* every access to one name goes through one segment.                      *)
(***************************************************************************)
EXTENDS Naturals, FiniteSets

CONSTANTS Threads,   \* goroutines using the table
          Keys,      \* lock names
          LockObjs,  \* addresses a lock object can have
          Nil,       \* the nil pointer: no entry, no lock taken
          Modes      \* the modes in which a lock is taken

ASSUME KeyLockAssumption ==
    /\ IsFiniteSet(Threads)
    /\ Nil \notin LockObjs
    /\ Nil \notin Keys
    /\ Nil \notin {"read", "write"}
    /\ Modes \subseteq {"read", "write"}

VARIABLES table,     \* fs.locks / seg.locks : name -> lock object
          refCount,  \* the refCount field of each lock object
          pc,        \* how far each thread's lock / unlock pair has come
          key, mode, obj   \* its arguments, and its pointer l

vars == <<table, refCount, pc, key, mode, obj>>

(* The threads that have counted themselves in on lock object l. *)
Users(l) == {t \in Threads : obj[t] = l}

Init ==
    /\ table = [k \in Keys |-> Nil]
    /\ refCount = [l \in LockObjs |-> 0]
    /\ pc = [t \in Threads |-> "idle"]
    /\ key = [t \in Threads |-> Nil]
    /\ mode = [t \in Threads |-> Nil]
    /\ obj = [t \in Threads |-> Nil]

(* A fresh allocation: an address no table entry and no thread refers to. *)
Fresh(l) == /\ \A k \in Keys : table[k] # l
            /\ Users(l) = {}

(***************************************************************************)
(* Under the table mutex: find or create the entry and count in.           *)
(***************************************************************************)
LookUpOrCreate(k, l) ==
    \/ /\ table[k] = l
       /\ refCount' = [refCount EXCEPT ![l] = @ + 1]
       /\ UNCHANGED table
    \/ /\ table[k] = Nil
       /\ Fresh(l)
       /\ table' = [table EXCEPT ![k] = l]
       /\ refCount' = [refCount EXCEPT ![l] = 1]

Register(t, k, m) ==
    /\ pc[t] = "idle"
    /\ \E l \in LockObjs :
          /\ LookUpOrCreate(k, l)
          /\ obj' = [obj EXCEPT ![t] = l]
    /\ pc' = [pc EXCEPT ![t] = "registered"]
    /\ key' = [key EXCEPT ![t] = k]
    /\ mode' = [mode EXCEPT ![t] = m]

(***************************************************************************)
(* The Go sync.Mutex / sync.RWMutex.  A writer first announces itself      *)
(* (which keeps new readers and other writers out), then waits for the     *)
(* readers inside to leave.                                                *)
(***************************************************************************)
WriterOn(l) == \E u \in Users(l) : mode[u] = "write" /\ pc[u] \in {"pending", "held"}
ReaderIn(l) == \E u \in Users(l) : mode[u] = "read" /\ pc[u] = "held"

RLock(t) ==
    /\ pc[t] = "registered" /\ mode[t] = "read"
    /\ ~WriterOn(obj[t])
    /\ pc' = [pc EXCEPT ![t] = "held"]
    /\ UNCHANGED <<table, refCount, key, mode, obj>>

AnnounceOnceFree(t) ==
    /\ pc[t] = "registered" /\ mode[t] = "write"
    /\ ~WriterOn(obj[t]) /\ ~ReaderIn(obj[t])
    /\ pc' = [pc EXCEPT ![t] = "pending"]
    /\ UNCHANGED <<table, refCount, key, mode, obj>>

Announce(t) ==
    /\ pc[t] = "registered" /\ mode[t] = "write"
    /\ ~WriterOn(obj[t])
    /\ pc' = [pc EXCEPT ![t] = "pending"]
    /\ UNCHANGED <<table, refCount, key, mode, obj>>

Lock(t) ==
    /\ pc[t] = "pending"
    /\ ~ReaderIn(obj[t])
    /\ pc' = [pc EXCEPT ![t] = "held"]
    /\ UNCHANGED <<table, refCount, key, mode, obj>>

Unlock(t) ==
    /\ pc[t] = "held"
    /\ pc' = [pc EXCEPT ![t] = "unlocked"]
    /\ UNCHANGED <<table, refCount, key, mode, obj>>

(***************************************************************************)
(* Under the table mutex again: count out, and drop the entry with the     *)
(* last user.                                                              *)
(***************************************************************************)
Leave(t) ==
    /\ pc' = [pc EXCEPT ![t] = "idle"]
    /\ key' = [key EXCEPT ![t] = Nil]
    /\ mode' = [mode EXCEPT ![t] = Nil]
    /\ obj' = [obj EXCEPT ![t] = Nil]

UnregisterDropsAlways(t) ==
    /\ pc[t] = "unlocked"
    /\ refCount' = [refCount EXCEPT ![obj[t]] = @ - 1]
    /\ table' = [table EXCEPT ![key[t]] = Nil]
    /\ Leave(t)

UnregisterKeepsEntry(t) ==
    /\ pc[t] = "unlocked"
    /\ refCount' = [refCount EXCEPT ![obj[t]] = @ - 1]
    /\ Leave(t)
    /\ UNCHANGED table

Unregister(t) ==
    /\ pc[t] = "unlocked"
    /\ refCount' = [refCount EXCEPT ![obj[t]] = @ - 1]
    /\ table' = [table EXCEPT ![key[t]] = IF refCount[obj[t]] = 1 THEN Nil ELSE @]
    /\ Leave(t)

Next == \E t \in Threads :
          \/ \E k \in Keys, m \in Modes : Register(t, k, m)
          \/ RLock(t) \/ Announce(t) \/ Lock(t) \/ Unlock(t) \/ Unregister(t)

Spec == Init /\ [][Next]_vars

(***************************************************************************)
(* Every section guarded by these locks ends (a deferred unlock), and a Go *)
(* mutex in starvation mode, like an RWMutex releasing the readers it held *)
(* back, does not pass over a waiting goroutine for ever.                  *)
(***************************************************************************)
Fairness == \A t \in Threads :
    /\ WF_vars(Lock(t)) /\ WF_vars(Unlock(t)) /\ WF_vars(Unregister(t))
    /\ SF_vars(RLock(t)) /\ SF_vars(Announce(t))

FairSpec == Spec /\ Fairness
-----------------------------------------------------------------------------
(* Every variable keeps its type; in particular a reference count never    *)
(* drops below zero, however lock and unlock calls interleave.             *)
TypeOK ==
    /\ table \in [Keys -> LockObjs \cup {Nil}]
    /\ refCount \in [LockObjs -> Nat]
    /\ pc \in [Threads -> {"idle", "registered", "pending", "held", "unlocked"}]
    /\ key \in [Threads -> Keys \cup {Nil}]
    /\ mode \in [Threads -> {"read", "write", Nil}]
    /\ obj \in [Threads -> LockObjs \cup {Nil}]

(* A writer shares its name with nobody: two goroutines inside sections    *)
(* for the same name are both readers, although the lock object behind the *)
(* name is dropped and re-created (multipart.go lockKey, metadata.go       *)
(* acquireBucketLock).                                                     *)
MutualExclusion ==
    \A t, u \in Threads :
        /\ t # u /\ key[t] = key[u]
        /\ pc[t] = "held" /\ pc[u] = "held"
        => mode[t] = "read" /\ mode[u] = "read"

(* "creating it on first use and removing it once the last holder releases *)
(* it": the table has an entry exactly for the names in use, so it is      *)
(* empty again when nobody locks anything.                                 *)
NoStaleEntry ==
    \A k \in Keys : table[k] # Nil <=> \E t \in Threads : key[t] = k

(* Everyone between lockKey's map access and the matching one in the       *)
(* release function points at the object the table has for the name, and   *)
(* the counter says how many they are.                                     *)
OneObjectPerName ==
    /\ \A t \in Threads : obj[t] # Nil => table[key[t]] = obj[t]
    /\ \A l \in LockObjs : refCount[l] = Cardinality(Users(l))

(* Whoever asks for a lock gets it.                                        *)
EveryRequestServed ==
    \A t \in Threads : (pc[t] = "registered") ~> (pc[t] = "held")

Inside(k, m) == {t \in Threads : key[t] = k /\ pc[t] = "held" /\ mode[t] = m}

Abstract == INSTANCE RWLock WITH
               readers <- [k \in Keys |-> Inside(k, "read")],
               writers <- [k \in Keys |-> Inside(k, "write")]

(* The table of reference-counted objects behaves as one ideal             *)
(* reader-writer lock per name.                                            *)
ImplementsRWLock == Abstract!Spec
=============================================================================
