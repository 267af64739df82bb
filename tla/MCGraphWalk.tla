---------------------------- MODULE MCGraphWalk ----------------------------
(***************************************************************************)
(* Model values of the run of GraphWalk.                                   *)
(***************************************************************************)
EXTENDS GraphWalk

\* Four symbols; the first two, one a class, share a file and the last lies in
\* a test file.  The first and last share an external node, or none does.
Uids   == 1 .. 4
Files  == {"a", "b", "t"}
Places == <<"a", "a", "b", "t">>

Calls == {[sym |-> E, ext |-> {}] :
            E \in SUBSET {<<1, 2>>, <<2, 3>>, <<3, 1>>, <<4, 3>>}}
         \cup {[sym |-> E, ext |-> {1, 4} \X External] :
            E \in SUBSET {<<1, 2>>, <<2, 3>>, <<3, 1>>}}

Merged == [grouped |-> FALSE, seeds |-> {1, 2}, direction |-> "undirected",
           bridges |-> TRUE, anchor |-> "seed", hops |-> 2, limit |-> 3,
           classTargets |-> FALSE, excludeTests |-> FALSE]
Forward == [Merged EXCEPT !.seeds = {1}, !.direction = "forward",
                          !.bridges = FALSE, !.hops = 3]
Walks == {Merged,
          Forward,
          [Forward EXCEPT !.anchor = "file_classes"],
          [Merged EXCEPT !.seeds = {3}, !.direction = "reverse",
                         !.limit = 1, !.excludeTests = TRUE],
          [Merged EXCEPT !.seeds = {3}, !.classTargets = TRUE],
          [Merged EXCEPT !.grouped = TRUE, !.limit = 1, !.seeds = {1}],
          [Merged EXCEPT !.grouped = TRUE, !.limit = 2, !.seeds = {1, 3}]}
=============================================================================
