------------------------------- MODULE RWLock -------------------------------
(***************************************************************************)
(* What a keyed lock promises its callers, with no table, no reference     *)
(* counts and no lock objects: per key, either one writer or any number    *)
(* of readers.  KeyLock shows that the two lock tables of the storage      *)
(* engine implement it; the other modules use locks at this level.         *)
(***************************************************************************)
CONSTANTS Threads,  \* goroutines
          Keys      \* lock names: "object:b/k", "upload:id", a bucket name

VARIABLES readers,  \* readers[k]: the threads inside k's shared section
          writers   \* writers[k]: the threads inside k's exclusive section

vars == <<readers, writers>>

Init == /\ readers = [k \in Keys |-> {}]
        /\ writers = [k \in Keys |-> {}]

RLock(t, k) == /\ writers[k] = {}
               /\ readers' = [readers EXCEPT ![k] = @ \cup {t}]
               /\ UNCHANGED writers

Lock(t, k) == /\ writers[k] = {}
              /\ readers[k] = {}
              /\ writers' = [writers EXCEPT ![k] = {t}]
              /\ UNCHANGED readers

RUnlock(t, k) == /\ t \in readers[k]
                 /\ readers' = [readers EXCEPT ![k] = @ \ {t}]
                 /\ UNCHANGED writers

Unlock(t, k) == /\ t \in writers[k]
                /\ writers' = [writers EXCEPT ![k] = @ \ {t}]
                /\ UNCHANGED readers

Next == \E t \in Threads, k \in Keys :
           RLock(t, k) \/ Lock(t, k) \/ RUnlock(t, k) \/ Unlock(t, k)

Spec == Init /\ [][Next]_vars
=============================================================================
