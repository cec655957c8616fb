----------------------------- MODULE MCTaskLog -----------------------------
(* TLC instances of TaskLog.                                               *)
EXTENDS TaskLog, TLC

Symmetry == Permutations(Ids) \cup Permutations(Writers) \cup Permutations(Projects)
=============================================================================
