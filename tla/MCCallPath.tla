---------------------------- MODULE MCCallPath ----------------------------
(* TLC instances of CallPath.                                              *)
EXTENDS CallPath, TLC

CONSTANTS a, b, e1, e2

\* Two agents that may call each other; no entry for external callers.
MutualGraph == (a :> {b}) @@ (b :> {a})

\* a is listed in gateway.toml, b only registers itself.
SeedA == a :> e1
=============================================================================
