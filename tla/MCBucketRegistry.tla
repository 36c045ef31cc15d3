--------------------------- MODULE MCBucketRegistry ---------------------------
(* BucketRegistry for TLC: clients and buckets are interchangeable. *)
EXTENDS BucketRegistry, TLC

Symmetry == Permutations(Clients) \cup Permutations(Buckets)
=============================================================================
