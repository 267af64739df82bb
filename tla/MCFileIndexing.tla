--------------------------- MODULE MCFileIndexing ---------------------------
(***************************************************************************)
(* Model values of the runs of FileIndexing.                               *)
(***************************************************************************)
EXTENDS FileIndexing

\* Three contents of a file: a body changes between the first and the third,
\* a symbol comes and goes between the second and the others.
Contents == {"v1", "v2", "v3"}
Uids     == {"f", "g"}
Bodies   == {1, 2}
Symbols  == [v1 |-> {<<"f", 1>>, <<"g", 1>>},
             v2 |-> {<<"f", 2>>},
             v3 |-> {<<"f", 2>>, <<"g", 1>>}]

ASSUME SmallFiles
=============================================================================
