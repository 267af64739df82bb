----------------------------- MODULE MCGitDelta -----------------------------
(***************************************************************************)
(* The index profile and the contents of the runs of GitDelta.             *)
(***************************************************************************)
EXTENDS GitDelta

\* The default profile stores a workspace's index under its own id.
SameId == [w \in Workspace |-> w]

Every == [p \in Path |-> Content]
Kinds == [p \in Path |-> IF p = "p2" THEN {None, "v1"} ELSE Content]
=============================================================================
