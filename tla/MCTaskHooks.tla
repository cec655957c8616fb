---------------------------- MODULE MCTaskHooks -----------------------------
(* TLC instances of TaskHooks.                                             *)
EXTENDS TaskHooks, TLC

CONSTANTS a, b, upper, lower, other

\* Two spellings of one task and another task.
Spellings == (upper :> lower) @@ (lower :> lower) @@ (other :> other)
\* The task both agents write, and one of b alone.
Shares == {<<a, upper>>, <<b, lower>>, <<b, other>>}
Collation == (upper :> 1) @@ (lower :> 2) @@ (other :> 3)
=============================================================================
