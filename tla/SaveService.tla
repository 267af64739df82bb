---------------------------- MODULE SaveService -----------------------------
(***************************************************************************)
(* What the index queue promises its callers, without clocks, stamps,      *)
(* counters or threads: saves of a key are owed one run of the processor,  *)
(* runs take bounded batches, a project job runs alone, and nothing is     *)
(* taken that is not owed.                                                 *)
(* (src/context_engine/indexer/queue.py, docstrings of IndexBatchQueue and *)
(* enqueue_project.)                                                       *)
(***************************************************************************)
EXTENDS Naturals, FiniteSets

CONSTANTS FileKey, ProjectKey, Processor, BatchSize, MaxPending

Key == FileKey \cup ProjectKey

VARIABLES
    owed,     \* keys with an accepted save that no run has taken
    serving   \* keys each processor is running

svars == <<owed, serving>>

Init ==
    /\ owed = {}
    /\ serving = [p \in Processor |-> {}]

\* A save is accepted: at once for a key already owed, otherwise only while
\* there is room.
Accept(k) ==
    /\ k \in owed \/ Cardinality(owed) < MaxPending
    /\ owed' = owed \cup {k}
    /\ UNCHANGED serving

Take(p, S) ==
    /\ serving[p] = {}
    /\ S # {} /\ S \subseteq owed
    /\ \/ S \subseteq FileKey /\ Cardinality(S) <= BatchSize
       \/ \E k \in ProjectKey : S = {k}
    /\ owed' = owed \ S
    /\ serving' = [serving EXCEPT ![p] = S]

Finish(p) ==
    /\ serving[p] # {}
    /\ serving' = [serving EXCEPT ![p] = {}]
    /\ UNCHANGED owed

Next ==
    \/ \E k \in Key : Accept(k)
    \/ \E p \in Processor :
          Finish(p) \/ \E S \in SUBSET owed : Take(p, S)

Spec == Init /\ [][Next]_svars
=============================================================================
