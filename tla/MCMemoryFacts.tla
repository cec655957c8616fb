--------------------------- MODULE MCMemoryFacts ----------------------------
(* TLC instances of MemoryFacts.                                           *)
EXTENDS MemoryFacts, TLC

CONSTANTS a, b, p, x

\* A fact of a project, and a global one of another agent.
MCScopes == {[agent |-> a, project |-> p, topic |-> x],
             [agent |-> b, project |-> None, topic |-> x]}

\* The four queries.
MCFilters == {[agent |-> a, project |-> Unset, topic |-> Unset],
              [agent |-> a, project |-> p, topic |-> Unset],
              [agent |-> a, project |-> Unset, topic |-> x],
              [agent |-> a, project |-> p, topic |-> x]}

Symmetry == Permutations(Calls)
=============================================================================
