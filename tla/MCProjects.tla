---------------------------- MODULE MCProjects ----------------------------
(* The TLC instance of Projects: one project, so that every call meets     *)
(* every other one.  No symmetry, because the run checks liveness.         *)
EXTENDS Projects
=============================================================================
