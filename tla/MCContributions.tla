-------------------------- MODULE MCContributions --------------------------
(* TLC instances of Contributions.                                         *)
EXTENDS Contributions, TLC

Symmetry == Permutations(Voters) \cup Permutations(Tasks) \cup Permutations(Proposals)
=============================================================================
