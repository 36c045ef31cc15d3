-------------------------- MODULE MCBucketDBCache --------------------------
(* BucketDBCache for TLC: threads, entries and inodes are interchangeable, *)
(* and what a freed entry last held is not read before OpenFile resets it. *)
EXTENDS BucketDBCache, TLC

Symmetry == Permutations(Threads) \cup Permutations(Handles) \cup Permutations(Inodes)
               \cup Permutations(Buckets)

View == <<registry, file, active, closed, thread,
          [h \in Handles |-> IF FreshHandle(h) THEN <<>>
                             ELSE <<refCount[h], evicted[h], open[h], inode[h]>>]>>
=============================================================================
