---------------------------- MODULE MCFileSync ----------------------------
(* TLC instances of FileSync.                                              *)
EXTENDS FileSync, TLC

CONSTANTS a, b, c, p1, p2

\* b pulls p1 from a.
OneWay == {<<b, a, p1>>}

\* b pulls p1 from a, and c from b; p2 stays at a.
Chain == {<<b, a, p1>>, <<c, b, p1>>}
=============================================================================
