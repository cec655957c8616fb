----------------------------- MODULE MCGroups -----------------------------
(* TLC instances of Groups.                                                *)
EXTENDS Groups, TLC

Symmetry == Permutations(Tokens) \cup Permutations(Tasks)
            \cup Permutations(Gateways) \cup Permutations(GroupIds)
=============================================================================
