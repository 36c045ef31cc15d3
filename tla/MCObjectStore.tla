--------------------------- MODULE MCObjectStore ---------------------------
(* ObjectStore for TLC: clients and contents are interchangeable. *)
EXTENDS ObjectStore, TLC

Symmetry == Permutations(Clients) \cup Permutations(Bodies)
=============================================================================
