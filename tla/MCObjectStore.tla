--------------------------- MODULE MCObjectStore ---------------------------
(* TLC instances of ObjectStore.                                           *)
EXTENDS ObjectStore, TLC

Symmetry == Permutations(Hashes) \cup Permutations(Tasks)
=============================================================================
