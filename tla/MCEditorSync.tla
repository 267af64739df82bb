---------------------------- MODULE MCEditorSync ----------------------------
(***************************************************************************)
(* Files and texts that nothing tells apart, for the run of EditorSync.    *)
(***************************************************************************)
EXTENDS EditorSync

Interchangeable == Permutations(File) \cup Permutations(Text)
=============================================================================
