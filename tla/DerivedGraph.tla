---------------------------- MODULE DerivedGraph ----------------------------
(***************************************************************************)
(* What an index batch derives from the symbol graph, and keeps next to    *)
(* it: the degrees stored on Symbol nodes, the AFFECTS edges               *)
(* (indexer/affects.py) and the adjacency rows in LanceDB that the         *)
(* in-process graph walk reads instead of Neo4j                            *)
(* (indexer/fast/adjacency_materialization.py).                            *)
(*                                                                         *)
(* None of the three is recomputed for the whole workspace.  A batch       *)
(* relinks the files it was given, collects the symbols it touched, and    *)
(* refreshes what it believes depends on those.  The question is whether   *)
(* the belief is right: an edge that appears or goes in one file changes   *)
(* the degree, the dependents and the row of symbols in another.           *)
(*                                                                         *)
(* A symbol's body is the set of its calls: the name called and, where the *)
(* parser could tell, the symbol meant by its qualified name.  That one is *)
(* tried first; a name alone resolves when exactly one symbol of the       *)
(* workspace carries it.  A qualified name stands for one uid: twins that  *)
(* share one (of which the first in source order wins) and the prefixes    *)
(* that reach an object_api surface are left out.                          *)
(***************************************************************************)
EXTENDS Naturals, FiniteSets

CONSTANTS
    Symbol,        \* uids
    Path, FileOf,  \* the file a uid belongs to (uids hash the path)
    Name, NameOf,  \* the name a symbol is declared under
    Absent,        \* not declared, or no node
    Bodies,        \* bodies a symbol may be edited to
    Initial,       \* the working tree before the first batch
    SubsetPercent, \* LANCEDB_AXIS_ADJACENCY_PARTIAL_RESET_MAX_RATIO, in percent
    MaxDepth,      \* MAX_AFFECTS_DEPTH
    MaxFanout,     \* MAX_FANOUT_PER_LEVEL
    Rank,          \* the order of dependents: qualified name, hash, uid
    MaxEdits       \* edits made (bound)

\* qn: the symbol a qualified name means, or Absent when there is none.
Call == [name : Name, qn : Symbol \cup {Absent}]

ASSUME DerivedConstants ==
    /\ IsFiniteSet(Symbol)
    /\ FileOf \in [Symbol -> Path] /\ NameOf \in [Symbol -> Name]
    /\ Bodies \subseteq SUBSET Call
    /\ Initial \in [Symbol -> Bodies \cup {Absent}]
    /\ Absent \notin Bodies /\ Absent \notin Symbol
    /\ Rank \in [Symbol -> Nat]
    /\ \A s, t \in Symbol : Rank[s] = Rank[t] => s = t
    /\ Absent \notin [out : SUBSET Symbol, in : SUBSET Symbol]
    /\ SubsetPercent \in Nat /\ MaxEdits \in Nat
    /\ MaxDepth \in Nat /\ MaxFanout \in Nat

VARIABLES
    text,     \* the working tree: each symbol's body
    edits,    \* edits made so far
    stored,   \* Symbol nodes in a file: the body each was upserted with
    calls,    \* edges of the relations that count for the degree
    affects,  \* AFFECTS edges
    degree,   \* in_degree and out_degree on the nodes
    rows,     \* axis_adjacency: each row's edges, or Absent
    batch,    \* the batch being worked on
    bereaved  \* history: symbols that lost an edge to a tombstone

vars == <<text, edits, stored, calls, affects, degree, rows, batch, bereaved>>
graphVars == <<stored, calls, affects, degree>>

Pair == Symbol \X Symbol

\* at: no batch; files, and AFFECTS after them; adjacency.
\* seeds is adjacency_seeds, changed is all_changed_uids.
Batch == [at: {"rest", "files", "adjacency"},
          project: BOOLEAN, todo: SUBSET Path,
          seeds: SUBSET Symbol, changed: SUBSET Symbol]

Live == {s \in Symbol : stored[s] # Absent}
In(p) == {s \in Symbol : FileOf[s] = p}

\* Symbols an edge of E joins to one of S, and S with them.
Neighbours(S, E) ==
    {t \in Symbol : \E s \in S : <<s, t>> \in E \/ <<t, s>> \in E}
Closure(S, E) == S \cup Neighbours(S, E)

\* An adjacency row: the calls out of a symbol and into it.
Row(s, E) == [out |-> {t \in Symbol : <<s, t>> \in E},
              in  |-> {t \in Symbol : <<t, s>> \in E}]
DegreeOf(s, E) == [out |-> Cardinality(Row(s, E).out),
                   in  |-> Cardinality(Row(s, E).in)]
NoDegree == [out |-> 0, in |-> 0]

Rest == [at |-> "rest", project |-> FALSE, todo |-> {},
         seeds |-> {}, changed |-> {}]

Init ==
    /\ text = Initial
    /\ edits = 0
    /\ stored = [s \in Symbol |-> Absent]
    /\ calls = {} /\ affects = {}
    /\ degree = [s \in Symbol |-> NoDegree]
    /\ rows = [s \in Symbol |-> Absent]
    /\ batch = Rest
    /\ bereaved = {}

-----------------------------------------------------------------------------
(* The developer, and the batch's first call *)

Edit(s, body) ==
    /\ edits < MaxEdits /\ text[s] # body
    /\ edits' = edits + 1
    /\ text' = [text EXCEPT ![s] = body]
    /\ UNCHANGED <<graphVars, rows, batch, bereaved>>

\* process_index_batch with a group of files, or index_file_now with one; or
\* run_fast_indexing with the files of a project whose content changed.
BatchBegins(group, project) ==
    /\ batch.at = "rest" /\ group # {}
    /\ batch' = [Rest EXCEPT !.at = "files", !.todo = group,
                             !.project = project]
    /\ UNCHANGED <<text, edits, graphVars, rows, bereaved>>

-----------------------------------------------------------------------------
(* The symbol delta of one file, the graph and the degrees for files P *)

Declared(p) == {s \in In(p) : text[s] # Absent}
Changed(p)  == {s \in Declared(p) : stored[s] # text[s]}
Removed(p)  == {s \in In(p) : stored[s] # Absent /\ text[s] = Absent}

\* edge_refresh_uids = changed_uids or current_uids
Refreshed(p) == IF Changed(p) = {} THEN Declared(p) ELSE Changed(p)

DeclaredIn(P)  == UNION {Declared(p) : p \in P}
ChangedIn(P)   == UNION {Changed(p) : p \in P}
RemovedIn(P)   == UNION {Removed(p) : p \in P}
RefreshedIn(P) == UNION {Refreshed(p) : p \in P}

\* The symbol index link_calls resolves against: the files' new nodes too.
Indexed(P) == (Live \ RemovedIn(P)) \cup ChangedIn(P)

\* _resolve_call_callee_uid against the symbols S: the qualified name's, and
\* failing that the only one of that name; never the caller.
Callees(body, S, caller) ==
    {t \in S \ {caller} : \E call \in body :
        \/ call.qn = t
        \/ /\ call.qn \notin S \ {caller}
           /\ NameOf[t] = call.name
           /\ \A u \in S : NameOf[u] = call.name => u = t}

\* Fault: the index is read before the files' nodes are written.
ResolveBefore(P, caller) == Callees(text[caller], Live, caller)

Resolve(P, caller) == Callees(text[caller], Indexed(P), caller)

\* prune_symbols_for_file, clear_outgoing_symbol_edges, then link_calls with
\* all calls of the files, whether their caller was refreshed or not.
Relink(P) ==
    {e \in calls : /\ e[1] \notin RefreshedIn(P)
                   /\ {e[1], e[2]} \cap RemovedIn(P) = {}}
    \cup {e \in Pair : e[1] \in DeclaredIn(P) /\ e[2] \in Resolve(P, e[1])}

\* Fault: the neighbours are read after the edges changed.
SeedsAfter(P) ==
    Closure(RefreshedIn(P) \cup RemovedIn(P), Relink(P)) \ RemovedIn(P)

\* The refreshed symbols with the neighbours they and the removed ones had
\* before anything was deleted (degree_neighbor_uids).
Seeds(P) ==
    Closure(RefreshedIn(P) \cup RemovedIn(P), calls) \ RemovedIn(P)

\* recompute_degree_for_closure: the seeds and their neighbours.
RecomputeDegree(seeds, E) ==
    [s \in Symbol |-> IF s \in Closure(seeds, E) THEN DegreeOf(s, E)
                                                 ELSE degree[s]]

\* The nodes of all the files, their edges, the degrees.
IndexFiles(P) ==
    /\ stored' = [s \in Symbol |-> IF FileOf[s] \in P THEN text[s]
                                                     ELSE stored[s]]
    /\ calls' = Relink(P)
    /\ affects' = {e \in affects : {e[1], e[2]} \cap RemovedIn(P) = {}}
    /\ degree' = [s \in Symbol |->
           IF s \in RemovedIn(P) THEN NoDegree
           ELSE RecomputeDegree(Seeds(P), Relink(P))[s]]
    /\ batch' = [batch EXCEPT !.todo = @ \ P,
                              !.seeds = @ \cup Seeds(P),
                              !.changed = @ \cup ChangedIn(P)]
    /\ UNCHANGED <<text, edits, rows, bereaved>>

\* A batch relinks one file after the other (index_file).
IndexFile(p) ==
    /\ batch.at = "files" /\ ~batch.project /\ p \in batch.todo
    /\ IndexFiles({p})

\* A project run writes the nodes of every file before it links any
\* (_apply_graph), with one snapshot of the neighbours before.
ApplyGraph ==
    /\ batch.at = "files" /\ batch.project /\ batch.todo # {}
    /\ IndexFiles(batch.todo)

\* tombstone_indexed_file: the file is gone, and so are its nodes with their
\* edges.  Neither the degrees nor the adjacency rows are refreshed.
Tombstone(p) ==
    LET gone == {s \in In(p) : stored[s] # Absent} IN
    /\ batch.at = "rest" /\ gone # {} /\ Declared(p) = {}
    /\ stored' = [s \in Symbol |-> IF s \in gone THEN Absent ELSE stored[s]]
    /\ calls' = {e \in calls : {e[1], e[2]} \cap gone = {}}
    /\ affects' = {e \in affects : {e[1], e[2]} \cap gone = {}}
    /\ degree' = [s \in Symbol |-> IF s \in gone THEN NoDegree ELSE degree[s]]
    /\ bereaved' = bereaved \cup (Neighbours(gone, calls) \ gone)
    /\ UNCHANGED <<text, edits, rows, batch>>

-----------------------------------------------------------------------------
(* The end of the batch: AFFECTS, then the adjacency rows *)

\* The next frontier, in the order it is found in: by the first of the
\* frontier a symbol depends on, then by Rank.  Only MaxFanout of it are kept;
\* the others are not visited, and may be found again a level further on.
\* A level is what was visited, and the place of each symbol of the frontier.
NextLevel(s, E, level) ==
    LET frontier == DOMAIN level.place
        found == {t \in Symbol : /\ \E u \in frontier : <<t, u>> \in E
                                 /\ t \notin level.visited \cup {s}}
        Ahead(t, u) ==
            \E v \in frontier : /\ <<t, v>> \in E
               /\ \A w \in frontier : <<u, w>> \in E =>
                     \/ level.place[v] < level.place[w]
                     \/ v = w /\ Rank[t] < Rank[u]
        Place(t) == Cardinality({u \in found \ {t} : Ahead(u, t)})
        kept == {t \in found : Place(t) < MaxFanout}
    IN  [visited |-> level.visited \cup kept,
         place   |-> [t \in kept |-> Place(t)]]

\* _dependents_within_depth: breadth first against the edges, a level at a
\* time, leaving out the source and whatever an earlier level found.
Dependents(s, E) ==
    LET Level[n \in 0 .. MaxDepth] ==
            IF n = 0 THEN [visited |-> {}, place |-> [t \in {s} |-> 0]]
                     ELSE NextLevel(s, E, Level[n - 1])
    IN Level[MaxDepth].visited

\* Fault: the AFFECTS edges into the changed symbols are deleted.
RebuildAffectsInto ==
    /\ batch.at = "files" /\ batch.todo = {}
    /\ affects' = {e \in affects : e[2] \notin batch.changed}
           \cup {e \in Live \X Live : /\ e[1] \in batch.changed
                                     /\ e[2] \in Dependents(e[1], calls)}
    /\ batch' = [batch EXCEPT !.at = "adjacency"]
    /\ UNCHANGED <<text, edits, stored, calls, degree, rows, bereaved>>

\* rebuild_affects over every symbol the batch changed.
RebuildAffects ==
    /\ batch.at = "files" /\ batch.todo = {}
    /\ affects' = {e \in affects : e[1] \notin batch.changed}
           \cup {e \in Live \X Live : /\ e[1] \in batch.changed
                                     /\ e[2] \in Dependents(e[1], calls)}
    /\ batch' = [batch EXCEPT !.at = "adjacency"]
    /\ UNCHANGED <<text, edits, stored, calls, degree, rows, bereaved>>

\* Fault: rows are updated, never inserted.
UpdateRows(seeds) ==
    LET fetched == {e \in calls : {e[1], e[2]} \cap seeds # {}}
    IN [s \in Symbol |-> IF /\ s \in Closure(seeds, calls \cup affects) \cap Live
                            /\ rows[s] # Absent
                         THEN Row(s, fetched) ELSE rows[s]]

\* Fault: a refreshed row keeps the edges it had.
MergeRows(seeds) ==
    LET fetched == {e \in calls : {e[1], e[2]} \cap seeds # {}}
        Old(s)  == IF rows[s] = Absent THEN Row(s, {}) ELSE rows[s]
    IN [s \in Symbol |-> IF s \in Closure(seeds, calls \cup affects) \cap Live
                         THEN [out |-> Old(s).out \cup Row(s, fetched).out,
                               in |-> Old(s).in \cup Row(s, fetched).in]
                         ELSE rows[s]]

\* materialize_axis_adjacency_subset: the edges that touch a seed, and a row
\* from them for each symbol on one.
SubsetRows(seeds) ==
    LET fetched == {e \in calls : {e[1], e[2]} \cap seeds # {}}
    IN [s \in Symbol |-> IF s \in Closure(seeds, calls \cup affects) \cap Live
                         THEN Row(s, fetched) ELSE rows[s]]

\* materialize_axis_adjacency: the whole snapshot.
AllRows == [s \in Symbol |-> IF s \in Live THEN Row(s, calls) ELSE Absent]

\* The snapshot is empty, or the closure is too large a part of it.
ReplacesAll(seeds) ==
    LET existing == Cardinality({s \in Symbol : rows[s] # Absent})
        closure  == Closure(seeds, calls \cup affects)
    IN \/ seeds = {} \/ existing = 0
       \/ 100 * Cardinality(closure) > SubsetPercent * existing

MaterializeAdjacency ==
    /\ batch.at = "adjacency"
    /\ rows' = LET seeds == batch.seeds \cup batch.changed IN
                IF ReplacesAll(seeds) THEN AllRows ELSE SubsetRows(seeds)
    /\ batch' = Rest
    /\ UNCHANGED <<text, edits, graphVars, bereaved>>

Next ==
    \/ \E s \in Symbol, body \in Bodies \cup {Absent} : Edit(s, body)
    \/ \E group \in SUBSET Path, project \in BOOLEAN :
          BatchBegins(group, project)
    \/ \E p \in Path : IndexFile(p) \/ Tombstone(p)
    \/ ApplyGraph
    \/ RebuildAffects
    \/ MaterializeAdjacency

Spec == Init /\ [][Next]_vars

-----------------------------------------------------------------------------
(* Properties *)

\* Every variable has its type, and edges join nodes of the graph.
TypeOK ==
    /\ text \in [Symbol -> Bodies \cup {Absent}] /\ edits \in Nat
    /\ stored \in [Symbol -> Bodies \cup {Absent}]
    /\ calls \in SUBSET (Live \X Live) /\ affects \in SUBSET (Live \X Live)
    /\ degree \in [Symbol -> [out : Nat, in : Nat]]
    /\ rows \in [Symbol -> [out : SUBSET Symbol, in : SUBSET Symbol]
                              \cup {Absent}]
    /\ batch \in Batch
    /\ bereaved \in SUBSET Symbol

\* A degree is never too high: whoever loses an edge was a neighbour before
\* the batch, so its degree is recomputed, in whatever file it is.  The
\* symbols that lost an edge to a tombstone are the exception.
DegreesNeverOvercount ==
    \A s \in Live \ bereaved :
       /\ degree[s].out <= DegreeOf(s, calls).out
       /\ degree[s].in <= DegreeOf(s, calls).in

\* For the same reason an adjacency row never lists a call that is gone, once
\* the batch that removed it is through.
RowsListRealCalls ==
    \A s \in Live \ (bereaved \cup batch.seeds) :
       rows[s] # Absent => /\ rows[s].out \subseteq Row(s, calls).out
                           /\ rows[s].in \subseteq Row(s, calls).in

\* The walk cannot start from, or end at, a symbol without a row: between
\* batches every symbol of the graph has one.
EverySymbolHasARow ==
    batch.at = "rest" => \A s \in Live : rows[s] # Absent

\* The symbols that depend on s over at most n calls, by definition.
DependsWithin(s, n) ==
    {t \in Symbol \ {s} : \E k \in 1 .. n : \E w \in [0 .. k -> Symbol] :
        /\ w[0] = s /\ w[k] = t
        /\ \A i \in 1 .. k : <<w[i], w[i - 1]>> \in calls}

\* The levels up to n have no more symbols than a level may keep.
NothingIsCut(s, n) ==
    \A k \in 1 .. n :
       Cardinality(DependsWithin(s, k) \ DependsWithin(s, k - 1)) <= MaxFanout

\* rebuild_affects runs once, after every file of the batch: the AFFECTS edges
\* of the symbols the batch changed, in other files of the batch too, are then
\* to dependents within MAX_AFFECTS_DEPTH, and to all that are no further than
\* the last level before the first that MAX_FANOUT_PER_LEVEL cuts.
ChangedAffectsAreExact ==
    batch.at = "adjacency" =>
       \A s \in batch.changed :
          LET found == {t \in Symbol : <<s, t>> \in affects} IN
          /\ found \subseteq DependsWithin(s, MaxDepth)
          /\ \A n \in 1 .. MaxDepth :
                NothingIsCut(s, n) => DependsWithin(s, n) \subseteq found

\* "Edges are linked only after every changed file has refreshed its
\* File/Symbol nodes" (phases.py:343): a project run leaves no call of a
\* changed symbol unlinked that resolves in the graph it wrote.
ProjectCallsAreLinked ==
    batch.at = "adjacency" /\ batch.project =>
       \A s \in batch.changed :
          {t \in Symbol : <<s, t>> \in calls} = Callees(stored[s], Live, s)
=============================================================================
