----------------------------- MODULE MCProjects -----------------------------
(* An instance of Projects for TLC: three events, two tasks at a time.      *)
EXTENDS Projects
=============================================================================
