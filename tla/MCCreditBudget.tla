--------------------------- MODULE MCCreditBudget ---------------------------
(***************************************************************************)
(* A pool of five rows, two of them of one seed: a class and its members,  *)
(* which fold; two functions that share symbols with it; one bundle larger *)
(* than the budget.  The related symbol "x" is in a file no seed is in.    *)
(***************************************************************************)
EXTENDS CreditBudget

Files == [a |-> "fa", C |-> "fa", s |-> "fa", b |-> "fb", e |-> "fb", d |-> "fd", x |-> "fx"]
Windows == [a |-> 3, s |-> 2]

Of(surface, signature, compact, fold, lean, hybrid, whole, tiered) ==
    [impact_surface |-> surface, signature_only |-> signature, fold_compact |-> compact,
     fold |-> fold, hybrid_compact |-> lean, hybrid |-> hybrid, full |-> whole,
     impact_tiered |-> tiered]

ClassText == Of([a |-> 1, s |-> 1, C |-> 1, x |-> 1], [a |-> 1, s |-> 1, C |-> 1, x |-> 1],
                [C |-> 4, x |-> 1], [C |-> 6, x |-> 4],
                [a |-> 3, s |-> 1, C |-> 1, x |-> 1], [a |-> 5, s |-> 1, C |-> 1, x |-> 1],
                [a |-> 5, s |-> 3, C |-> 1, x |-> 4], [C |-> 4, x |-> 1])
SharerText == Of([b |-> 1, s |-> 1], [b |-> 1, s |-> 1], [b |-> 3, s |-> 3],
                 [b |-> 3, s |-> 3], [b |-> 2, s |-> 1], [b |-> 3, s |-> 1],
                 [b |-> 3, s |-> 3], [b |-> 1, s |-> 1])
CallerText == Of([e |-> 1, a |-> 1], [e |-> 1, a |-> 1], [e |-> 2, a |-> 5],
                 [e |-> 2, a |-> 5], [e |-> 2, a |-> 1], [e |-> 2, a |-> 1],
                 [e |-> 2, a |-> 5], [e |-> 1, a |-> 1])
LoneText == [m \in Mode |-> [d |-> IF m = "impact_surface" THEN 2 ELSE 13]]

Row(seed, utility, passive, folds, leader, lanes, text) ==
    [seed |-> seed, utility |-> utility, passive |-> passive, folds |-> folds,
     leader |-> leader, lanes |-> lanes, text |-> text]
Lane(target, home) == [target |-> target, home |-> home]

Candidates ==
    <<Row("a", 3, FALSE, TRUE, TRUE, <<Lane("a", "a"), Lane("s", "C")>>, ClassText),
      Row("b", 1, TRUE, FALSE, FALSE, <<>>, LoneText),
      Row("d", 2, FALSE, FALSE, TRUE, <<>>, LoneText),
      Row("b", 2, TRUE, FALSE, FALSE, <<Lane("b", "b"), Lane("s", "b")>>, SharerText),
      Row("e", 1, FALSE, FALSE, FALSE, <<Lane("a", "e")>>, CallerText)>>

Requested == [mode: {"hybrid", "full", "impact_tiered"}, signatures: BOOLEAN,
              freeze: BOOLEAN, rank: {"none", "ladder", "symbols"}, cutoff: Cutoff]
=============================================================================
