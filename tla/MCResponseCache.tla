---------------------------- MODULE MCResponseCache ----------------------------
(***************************************************************************)
(* Three questions in two workspaces for two places, and two requests that *)
(* may wait for the model at the same time.                                *)
(***************************************************************************)
EXTENDS ResponseCache, TLC

Symmetric == Permutations(Path) \cup Permutations(Request)
=============================================================================
