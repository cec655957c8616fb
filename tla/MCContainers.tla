---------------------------- MODULE MCContainers ----------------------------
(* TLC instances of Containers.                                            *)
EXTENDS Containers, TLC

Symmetry == Permutations(Spawns)
=============================================================================
