---------------------------- MODULE KeyLockProofs ----------------------------
(***************************************************************************)
(* Mutual exclusion of the refcounted lock tables, and their refinement of *)
(* RWLock, for any number of goroutines, names and lock objects.           *)
(***************************************************************************)
EXTENDS KeyLock, FiniteSetTheorems, TLAPS

(* A thread has a lock object, a name and a mode exactly while it is not idle. *)
LocalsInv ==
    \A t \in Threads :
        /\ pc[t] = "idle" <=> obj[t] = Nil
        /\ obj[t] = Nil <=> key[t] = Nil
        /\ obj[t] = Nil <=> mode[t] = Nil
        /\ pc[t] = "pending" => mode[t] = "write"

(* One object never guards two names. *)
Injective == \A j, k \in Keys : table[j] = table[k] /\ table[j] # Nil => j = k

Excludes(t, u) ==
    obj[t] = obj[u] /\ pc[t] \in {"pending", "held"} /\ mode[t] = "write"
    => /\ ~(pc[u] \in {"pending", "held"} /\ mode[u] = "write")
       /\ ~(pc[t] = "held" /\ pc[u] = "held")

(* What the mutex of one object guarantees to its users. *)
ObjectExclusion == \A t, u \in Threads : t # u => Excludes(t, u)

Inv == /\ TypeOK
       /\ LocalsInv
       /\ Injective
       /\ NoStaleEntry
       /\ OneObjectPerName
       /\ ObjectExclusion

(* The users of an object are finitely many, so they can be counted. *)
LEMMA UsersFinite == \A l : IsFiniteSet(Users(l))
  BY FS_Subset, KeyLockAssumption DEF Users

LEMMA InitInv == Init => Inv
  <1> SUFFICES ASSUME Init PROVE Inv
    OBVIOUS
  <1>1. TypeOK
    BY DEF Init, TypeOK
  <1>2. LocalsInv /\ Injective /\ ObjectExclusion
    BY DEF Init, LocalsInv, Injective, ObjectExclusion, Excludes
  <1>3. NoStaleEntry
    BY KeyLockAssumption DEF Init, NoStaleEntry
  <1>4. ASSUME NEW l \in LockObjs PROVE Users(l) = {}
    BY KeyLockAssumption DEF Init, Users
  <1>5. OneObjectPerName
    BY <1>4, FS_EmptySet DEF Init, OneObjectPerName
  <1> QED
    BY <1>1, <1>2, <1>3, <1>5 DEF Inv

(* Counting in: by joining the entry of the name or by creating it. *)
LEMMA RegisterInv ==
    ASSUME Inv, NEW t \in Threads, NEW k \in Keys, NEW m \in Modes, Register(t, k, m)
    PROVE  Inv'
  <1> USE KeyLockAssumption
  <1>1. PICK l \in LockObjs : LookUpOrCreate(k, l) /\ obj' = [obj EXCEPT ![t] = l]
    BY DEF Register
  <1>2. /\ pc[t] = "idle" /\ obj[t] = Nil /\ key[t] = Nil
        /\ pc' = [pc EXCEPT ![t] = "registered"]
        /\ key' = [key EXCEPT ![t] = k]
        /\ mode' = [mode EXCEPT ![t] = m]
    BY DEF Register, Inv, LocalsInv
  <1>3. /\ table[k] \in {l, Nil} /\ table' = [table EXCEPT ![k] = l]
        /\ table[k] = Nil => Fresh(l)
        /\ refCount' = [refCount EXCEPT ![l] = IF table[k] = l THEN @ + 1 ELSE 1]
    BY <1>1 DEF LookUpOrCreate, Inv, TypeOK
  <1>4. TypeOK'
    BY <1>1, <1>2, <1>3 DEF Inv, TypeOK
  <1>5. LocalsInv'
    BY <1>1, <1>2 DEF Inv, LocalsInv, TypeOK
  <1>6. Injective'
    BY <1>3 DEF Inv, TypeOK, Injective, Fresh
  <1>7. NoStaleEntry'
    BY <1>2, <1>3 DEF Inv, TypeOK, NoStaleEntry
  <1>8. OneObjectPerName'
    <2>1. ASSUME NEW u \in Threads, obj'[u] # Nil PROVE table'[key'[u]] = obj'[u]
      <3>1. CASE u = t
        BY <3>1, <1>1, <1>2, <1>3 DEF Inv, TypeOK
      <3>2. CASE u # t
        <4>1. obj'[u] = obj[u] /\ key'[u] = key[u] /\ key[u] \in Keys /\ table[key[u]] = obj[u]
          BY <3>2, <2>1, <1>1, <1>2 DEF Inv, TypeOK, LocalsInv, OneObjectPerName
        <4> QED
          BY <4>1, <2>1, <1>1, <1>3 DEF Inv, TypeOK
      <3> QED
        BY <3>1, <3>2
    <2>2. ASSUME NEW x \in LockObjs PROVE refCount'[x] = Cardinality(Users(x)')
      <3>1. Users(x)' = IF x = l THEN Users(x) \cup {t} ELSE Users(x)
        BY <1>1, <1>2 DEF Users, Inv, TypeOK
      <3>2. t \notin Users(x)
        BY <1>2 DEF Users
      <3>3. refCount[x] = Cardinality(Users(x)) /\ refCount[x] \in Nat
        BY DEF Inv, OneObjectPerName, TypeOK
      <3>4. CASE x # l
        BY <3>1, <3>3, <3>4, <1>3 DEF Inv, TypeOK
      <3>5. CASE x = l
        <4>0. Cardinality(Users(x) \cup {t}) = Cardinality(Users(x)) + 1
          BY <3>2, UsersFinite, FS_AddElement
        <4>1. Cardinality(Users(x)') = refCount[x] + 1
          BY <4>0, <3>1, <3>3, <3>5
        <4>2. table[k] = Nil => refCount[x] = 0
          BY <1>3, <3>3, <3>5, FS_EmptySet DEF Fresh
        <4> QED
          BY <4>1, <4>2, <3>5, <1>3 DEF Inv, TypeOK
      <3> QED
        BY <3>4, <3>5
    <2> QED
      BY <2>1, <2>2 DEF OneObjectPerName
  <1>9. ObjectExclusion'
    BY <1>1, <1>2 DEF Inv, TypeOK, ObjectExclusion, Excludes
  <1> QED
    BY <1>4, <1>5, <1>6, <1>7, <1>8, <1>9 DEF Inv

(* Passing through the mutex or the RWMutex leaves the table alone. *)
LEMMA MutexStepInv ==
    ASSUME Inv, NEW t \in Threads, RLock(t) \/ Announce(t) \/ Lock(t) \/ Unlock(t)
    PROVE  Inv'
  <1> USE KeyLockAssumption DEF RLock, Announce, Lock, Unlock
  <1>1. UNCHANGED <<table, refCount, key, mode, obj>> /\ pc[t] # "idle"
    OBVIOUS
  <1>2. \A x : Users(x)' = Users(x)
    BY <1>1 DEF Users
  <1>3. TypeOK'
    BY DEF Inv, TypeOK
  <1>4. LocalsInv'
    BY DEF Inv, TypeOK, LocalsInv
  <1>5. Injective' /\ NoStaleEntry'
    BY <1>1 DEF Inv, Injective, NoStaleEntry
  <1>6. OneObjectPerName'
    BY <1>1, <1>2 DEF Inv, OneObjectPerName
  <1>7. ObjectExclusion'
    <2>1. CASE RLock(t)
      BY <2>1 DEF Inv, TypeOK, ObjectExclusion, Excludes, WriterOn, Users
    <2>2. CASE Announce(t)
      BY <2>2 DEF Inv, TypeOK, ObjectExclusion, Excludes, WriterOn, Users
    <2>3. CASE Lock(t)
      BY <2>3 DEF Inv, TypeOK, ObjectExclusion, Excludes, ReaderIn, Users, LocalsInv
    <2>4. CASE Unlock(t)
      BY <2>4 DEF Inv, TypeOK, ObjectExclusion, Excludes
    <2> QED
      BY <2>1, <2>2, <2>3, <2>4
  <1> QED
    BY <1>3, <1>4, <1>5, <1>6, <1>7 DEF Inv

(* Counting out: the entry goes with the last user and stays otherwise. *)
LEMMA UnregisterInv ==
    ASSUME Inv, NEW t \in Threads, Unregister(t)
    PROVE  Inv'
  <1> USE KeyLockAssumption
  <1> DEFINE l == obj[t]
             k == key[t]
  <1>1. /\ l \in LockObjs /\ k \in Keys /\ table[k] = l
        /\ refCount[l] = Cardinality(Users(l)) /\ refCount[l] \in Nat
    BY DEF Unregister, Inv, TypeOK, LocalsInv, OneObjectPerName
  <1>2. /\ pc' = [pc EXCEPT ![t] = "idle"]
        /\ key' = [key EXCEPT ![t] = Nil]
        /\ mode' = [mode EXCEPT ![t] = Nil]
        /\ obj' = [obj EXCEPT ![t] = Nil]
        /\ refCount' = [refCount EXCEPT ![l] = @ - 1]
        /\ table' = [table EXCEPT ![k] = IF refCount[l] = 1 THEN Nil ELSE @]
    BY DEF Unregister, Leave
  <1>3. t \in Users(l) /\ IsFiniteSet(Users(l))
    BY UsersFinite DEF Users
  <1> DEFINE others == Users(l) \ {t}
  <1>o. IsFiniteSet(others) /\ Cardinality(others) = Cardinality(Users(l)) - 1
    BY <1>3, FS_RemoveElement
  <1>4. Cardinality(others) = refCount[l] - 1
    BY <1>1, <1>o
  <1>5. refCount[l] - 1 \in Nat
    BY <1>4, <1>o, FS_CardinalityType
  <1>6. refCount[l] = 1 <=> Users(l) \ {t} = {}
    <2>1. Cardinality(others) = 0 <=> others = {}
      BY <1>o, FS_EmptySet
    <2> QED
      BY <2>1, <1>1, <1>4
  <1>7. \A u \in Threads \ {t} : key[u] = k => u \in Users(l)
    BY <1>1 DEF Users, Inv, LocalsInv, OneObjectPerName
  <1>8. \A u \in Users(l) : key[u] = k
    BY <1>1 DEF Users, Inv, TypeOK, LocalsInv, OneObjectPerName, Injective
  <1>9. TypeOK'
    BY <1>1, <1>2, <1>5 DEF Inv, TypeOK
  <1>10. LocalsInv'
    BY <1>2 DEF Inv, TypeOK, LocalsInv
  <1>11. Injective'
    BY <1>1, <1>2 DEF Inv, TypeOK, Injective
  <1>12. NoStaleEntry'
    <2>1. ASSUME NEW j \in Keys, j # k
          PROVE  table'[j] # Nil <=> \E u \in Threads : key'[u] = j
      BY <2>1, <1>1, <1>2 DEF Inv, TypeOK, NoStaleEntry
    <2>2. table'[k] # Nil <=> refCount[l] # 1
      BY <1>1, <1>2 DEF Inv, TypeOK
    <2>3. (\E u \in Threads : key'[u] = k) <=> Users(l) \ {t} # {}
      <3>1. \A u \in Threads : key'[u] = k <=> u # t /\ key[u] = k
        BY <1>1, <1>2 DEF Inv, TypeOK
      <3>2. Users(l) \subseteq Threads
        BY DEF Users
      <3> QED
        BY <3>1, <3>2, <1>7, <1>8
    <2> QED
      BY <2>1, <2>2, <2>3, <1>6 DEF NoStaleEntry
  <1>13. OneObjectPerName'
    <2>1. ASSUME NEW u \in Threads, obj'[u] # Nil PROVE table'[key'[u]] = obj'[u]
      <3>1. /\ u # t /\ obj'[u] = obj[u] /\ key'[u] = key[u] /\ key[u] \in Keys
            /\ table[key[u]] = obj[u]
        BY <2>1, <1>2 DEF Inv, TypeOK, LocalsInv, OneObjectPerName
      <3>2. CASE key[u] = k
        <4>1. refCount[l] # 1
          BY <3>1, <3>2, <1>6, <1>7
        <4> QED
          BY <4>1, <3>1, <1>1, <1>2 DEF Inv, TypeOK
      <3>3. CASE key[u] # k
        BY <3>1, <3>3, <1>2 DEF Inv, TypeOK
      <3> QED
        BY <3>2, <3>3
    <2>2. ASSUME NEW x \in LockObjs PROVE refCount'[x] = Cardinality(Users(x)')
      <3>1. CASE x = l
        <4>1. Users(x)' = Users(l) \ {t}
          BY <3>1, <1>1, <1>2 DEF Users, Inv, TypeOK
        <4> QED
          BY <4>1, <3>1, <1>1, <1>2, <1>4 DEF Inv, TypeOK
      <3>2. CASE x # l
        <4>1. Users(x)' = Users(x)
          BY <3>2, <1>1, <1>2 DEF Users, Inv, TypeOK
        <4> QED
          BY <4>1, <3>2, <1>1, <1>2 DEF Inv, TypeOK, OneObjectPerName
      <3> QED
        BY <3>1, <3>2
    <2> QED
      BY <2>1, <2>2 DEF OneObjectPerName
  <1>14. ObjectExclusion'
    BY <1>2 DEF Inv, TypeOK, ObjectExclusion, Excludes
  <1> QED
    BY <1>9, <1>10, <1>11, <1>12, <1>13, <1>14 DEF Inv

LEMMA NextInv == Inv /\ [Next]_vars => Inv'
  <1> SUFFICES ASSUME Inv, [Next]_vars PROVE Inv'
    OBVIOUS
  <1>1. CASE UNCHANGED vars
    BY <1>1 DEF vars, Inv, TypeOK, LocalsInv, Injective, NoStaleEntry, OneObjectPerName,
                ObjectExclusion, Excludes, Users
  <1>2. CASE Next
    BY <1>2, RegisterInv, MutexStepInv, UnregisterInv DEF Next
  <1> QED
    BY <1>1, <1>2

(* The inductive invariant holds in every reachable state. *)
THEOREM Invariance == Spec => []Inv
  BY InitInv, NextInv, PTL DEF Spec

(* lockKey and acquireBucketLock never go wrong on their table: every      *)
(* field keeps its type and no reference count ever becomes negative.      *)
THEOREM TypeCorrect == Spec => []TypeOK
  <1>1. Inv => TypeOK
    BY DEF Inv
  <1> QED
    BY <1>1, Invariance, PTL

(* The table holds exactly the names in use, and each user holds the       *)
(* object the table shows: dropping and re-creating entries never leaves   *)
(* two objects for one name.                                               *)
THEOREM TableExact == Spec => [](NoStaleEntry /\ OneObjectPerName)
  <1>1. Inv => NoStaleEntry /\ OneObjectPerName
    BY DEF Inv
  <1> QED
    BY <1>1, Invariance, PTL

LEMMA InvExcludes == Inv => MutualExclusion
  <1> SUFFICES ASSUME Inv, NEW t \in Threads, NEW u \in Threads,
                      t # u, key[t] = key[u], pc[t] = "held", pc[u] = "held"
               PROVE  mode[t] = "read" /\ mode[u] = "read"
    BY DEF MutualExclusion
  <1>1. obj[t] = obj[u]
    BY DEF Inv, LocalsInv, OneObjectPerName
  <1>2. mode[t] \in {"read", "write"} /\ mode[u] \in {"read", "write"}
    BY DEF Inv, TypeOK, LocalsInv
  <1> QED
    BY <1>1, <1>2 DEF Inv, ObjectExclusion, Excludes

(* Whatever the number of goroutines and names, a holder of a write lock   *)
(* is alone on its name.                                                   *)
THEOREM Exclusion == Spec => []MutualExclusion
  BY InvExcludes, Invariance, PTL

(* The holders seen by the abstraction: only RLock, Lock and Unlock move   *)
(* a thread in or out, every other step leaves all of them in place.       *)
LEMMA SameHolders ==
    ASSUME Inv, Inv', NEW t \in Threads,
           \/ \E k \in Keys, m \in Modes : Register(t, k, m)
           \/ Announce(t)
           \/ Unregister(t)
    PROVE  \A k, m : Inside(k, m)' = Inside(k, m)
  <1>1. /\ pc[t] # "held" /\ pc'[t] # "held"
        /\ \A u \in Threads \ {t} : pc'[u] = pc[u] /\ key'[u] = key[u] /\ mode'[u] = mode[u]
    BY DEF Register, Announce, Unregister, Leave, Inv, TypeOK
  <1> QED
    BY <1>1 DEF Inside

LEMMA StepRefines == Inv /\ Inv' /\ [Next]_vars => [Abstract!Next]_(Abstract!vars)
  <1> SUFFICES ASSUME Inv, Inv', [Next]_vars PROVE [Abstract!Next]_(Abstract!vars)
    OBVIOUS
  <1> USE KeyLockAssumption
  <1>1. ASSUME \A k, m : Inside(k, m)' = Inside(k, m)
        PROVE  UNCHANGED Abstract!vars
    BY <1>1 DEF Abstract!vars
  <1>2. CASE UNCHANGED vars
    BY <1>1, <1>2 DEF vars, Inside
  <1>3. ASSUME NEW t \in Threads,
               (\E k \in Keys, m \in Modes : Register(t, k, m)) \/ Announce(t) \/ Unregister(t)
        PROVE  UNCHANGED Abstract!vars
    BY <1>1, <1>3, SameHolders
  <1>4. ASSUME NEW t \in Threads, RLock(t) \/ Lock(t) \/ Unlock(t)
        PROVE  Abstract!Next
    <2> DEFINE k == key[t]
    <2>1. k \in Keys /\ obj[t] # Nil /\ table[k] = obj[t]
      BY <1>4 DEF RLock, Lock, Unlock, Inv, TypeOK, LocalsInv, OneObjectPerName
    <2>2. \A u \in Threads : key[u] = k => obj[u] = obj[t]
      BY <2>1 DEF Inv, LocalsInv, OneObjectPerName
    <2>3. UNCHANGED <<key, mode>>
      BY <1>4 DEF RLock, Lock, Unlock
    <2>4. CASE RLock(t)
      <3>1. Inside(k, "write") = {}
        BY <2>2, <2>4 DEF RLock, WriterOn, Users, Inside
      <3>2. \A j, m : Inside(j, m)' = IF j = k /\ m = "read" THEN Inside(j, m) \cup {t} ELSE Inside(j, m)
        BY <2>3, <2>4 DEF RLock, Inside, Inv, TypeOK
      <3>3. Abstract!RLock(t, k)
        BY <2>1, <3>1, <3>2 DEF Abstract!RLock
      <3> QED
        BY <3>3, <2>1 DEF Abstract!Next
    <2>5. CASE Lock(t)
      <3>1. Inside(k, "read") = {}
        BY <2>2, <2>5 DEF Lock, ReaderIn, Users, Inside
      <3>2. Inside(k, "write") = {}
        <4> SUFFICES ASSUME NEW u \in Inside(k, "write") PROVE FALSE
          OBVIOUS
        <4>1. u \in Threads /\ key[u] = k /\ pc[u] = "held" /\ mode[u] = "write" /\ u # t
          BY <2>5 DEF Inside, Lock
        <4>2. obj[u] = obj[t]
          BY <4>1, <2>2
        <4>3. Excludes(u, t) /\ pc[t] = "pending" /\ mode[t] = "write"
          BY <4>1, <2>5 DEF Inv, ObjectExclusion, LocalsInv, Lock
        <4> QED
          BY <4>1, <4>2, <4>3 DEF Excludes
      <3>3. \A j, m : Inside(j, m)' = IF j = k /\ m = "write" THEN Inside(j, m) \cup {t} ELSE Inside(j, m)
        BY <2>3, <2>5 DEF Lock, Inside, Inv, TypeOK, LocalsInv
      <3>4. Abstract!Lock(t, k)
        BY <2>1, <3>1, <3>2, <3>3 DEF Abstract!Lock
      <3> QED
        BY <3>4, <2>1 DEF Abstract!Next
    <2>6. CASE Unlock(t)
      <3>1. \A j, m : Inside(j, m)' = IF j = k /\ m = mode[t] THEN Inside(j, m) \ {t} ELSE Inside(j, m)
        BY <2>3, <2>6 DEF Unlock, Inside, Inv, TypeOK
      <3>2. mode[t] \in {"read", "write"} /\ t \in Inside(k, mode[t])
        BY <2>1, <2>6 DEF Unlock, Inside, Inv, TypeOK, LocalsInv
      <3>3. CASE mode[t] = "read"
        <4>1. Abstract!RUnlock(t, k)
          BY <2>1, <3>1, <3>2, <3>3 DEF Abstract!RUnlock
        <4> QED
          BY <4>1, <2>1 DEF Abstract!Next
      <3>4. CASE mode[t] = "write"
        <4>1. Abstract!Unlock(t, k)
          BY <2>1, <3>1, <3>2, <3>4 DEF Abstract!Unlock
        <4> QED
          BY <4>1, <2>1 DEF Abstract!Next
      <3> QED
        BY <3>2, <3>3, <3>4
    <2> QED
      BY <1>4, <2>4, <2>5, <2>6
  <1> QED
    BY <1>2, <1>3, <1>4 DEF Next

(* The refcounted table implements one ideal reader-writer lock per name:  *)
(* what the callers of lockKey, lockUpload, lockPart, lockObjectKey and    *)
(* acquireBucketLock rely on.                                              *)
THEOREM Refinement == Spec => ImplementsRWLock
  <1>1. Init => Abstract!Init
    BY DEF Init, Abstract!Init, Inside
  <1> QED
    BY <1>1, StepRefines, Invariance, PTL DEF Spec, ImplementsRWLock, Abstract!Spec
=============================================================================
