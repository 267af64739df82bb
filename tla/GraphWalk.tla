----------------------------- MODULE GraphWalk -----------------------------
(***************************************************************************)
(* The neighbour walk of the axis expansion passes (axis/graph_walk.py) and *)
(* its in-process twin (axis/graph_walk_inproc.py).                        *)
(*                                                                         *)
(* A walk is a variable-length Cypher pattern.  While a workspace has      *)
(* adjacency rows in LanceDB it is answered from a snapshot of them        *)
(* instead, loaded once and cached for the process: a breadth-first search *)
(* per seed, merged and ranked.  Cypher enumerates trails (no relationship *)
(* is used twice) and takes the shortest; the search visits nodes once.    *)
(* The module has both, with the index batches that replace the rows and   *)
(* drop the cache while walks are under way.                               *)
(*                                                                         *)
(* A request follows the edges between symbols and, when its edge types are *)
(* among those (bridges), the edges to nodes that are no symbols.  No caller *)
(* follows the latter forward.                                             *)
(***************************************************************************)
EXTENDS Naturals, FiniteSets

CONSTANTS
    Symbol,    \* uids of the workspace's symbols, ordered as numbers
    External,  \* nodes that are no symbols: packages, endpoints, topics
    File, FileOf,
    Class,     \* symbols of kind "class"
    TestFile,
    Graphs,    \* graphs the store may hold
    Requests,  \* walks that are asked for
    Walker,    \* threads that answer requests
    None,
    MaxRelinks \* graph changes (bound)

Node == Symbol \cup External
Graph == [sym: SUBSET (Symbol \X Symbol), ext: SUBSET (Symbol \X External)]

Direction == {"forward", "reverse", "undirected"}
Request == [grouped: BOOLEAN, seeds: SUBSET Symbol, direction: Direction,
            bridges: BOOLEAN, anchor: {"seed", "file_classes"}, hops: Nat,
            limit: Nat, classTargets: BOOLEAN, excludeTests: BOOLEAN]

ASSUME WalkConstants ==
    /\ IsFiniteSet(Symbol) /\ Symbol \subseteq Nat
    /\ Symbol \cap External = {}
    /\ FileOf \in [Symbol -> File]
    /\ Class \subseteq Symbol /\ TestFile \subseteq File
    /\ Graphs \subseteq Graph /\ Requests \subseteq Request
    /\ \A q \in Requests :
          (q.grouped => q.anchor = "seed") /\ (q.bridges => q.direction # "forward")
    /\ None \notin Graph \cup Nat /\ MaxRelinks \in Nat

VARIABLES
    graph,    \* the edges in Neo4j
    relinks,  \* changes made so far
    rows,     \* axis_adjacency and its external maps
    batch,    \* where an index batch is with them
    cache,    \* _CACHE: a snapshot, or None
    walk,     \* the request a walker is at, and its search
    spoilt    \* history: a load failed or was under way when the cache was
              \* dropped, or a batch could not write its tables

vars == <<graph, relinks, rows, batch, cache, walk, spoilt>>
storeVars == <<graph, relinks, rows, batch>>

\* A row of an answer.  seed tells the groups of a grouped walk apart.
Neighbour == [seed: Symbol \cup {None}, uid: Symbol, depth: Nat, reach: Nat]

NoRows == [sym |-> {}, ext |-> {}]

\* What a walker holds: its request, the snapshot, the seeds left, the seed
\* under way with the distances found so far, and what earlier seeds found.
Walk == [at: {"idle", "load", "external", "store", "walk", "hop", "cypher",
              "done", "failed"},
         ask: Requests \cup {None}, adj: Graph,
         todo: SUBSET Symbol, seed: Symbol \cup {None},
         dist: [Node -> Nat \cup {None}], hop: Nat,
         found: SUBSET [seed: Symbol, uid: Symbol, depth: Nat],
         answer: SUBSET Neighbour]

Nowhere == [v \in Node |-> None]
Idle == [at |-> "idle", ask |-> None, adj |-> NoRows, todo |-> {},
         seed |-> None, dist |-> Nowhere, hop |-> 0, found |-> {},
         answer |-> {}]

Init ==
    /\ graph \in Graphs
    /\ relinks = 0
    /\ rows = graph
    /\ batch = "rest"
    /\ cache = None
    /\ walk = [w \in Walker |-> Idle]
    /\ spoilt = FALSE

-----------------------------------------------------------------------------
(* What both walks share *)

\* A class-anchored walk starts at the classes of the seed's file.
Starts(q, seed) ==
    IF q.anchor = "seed" THEN {seed}
    ELSE {c \in Class : FileOf[c] = FileOf[seed]}

\* ... and drops what lies in that file.
Elsewhere(q, seed, n) ==
    q.anchor = "file_classes" => FileOf[n] # FileOf[seed]

PassesFilters(q, n) ==
    /\ q.classTargets => n \in Class
    /\ q.excludeTests => FileOf[n] \notin TestFile

\* ORDER BY depth ASC, reach DESC, uid ASC
Ahead(a, b) ==
    \/ a.depth < b.depth
    \/ a.depth = b.depth /\ a.reach > b.reach
    \/ a.depth = b.depth /\ a.reach = b.reach /\ a.uid < b.uid

First(limit, S) == {a \in S : Cardinality({b \in S : Ahead(b, a)}) < limit}

Shortest(ds) == CHOOSE d \in ds : \A e \in ds : d <= e

\* Rows from what each seed found.  The filters of a merged walk are applied
\* to its result; a grouped walk has none, and a limit per seed.
Ranked(q, found) ==
    IF q.grouped
    THEN UNION {First(q.limit,
                      {[seed |-> s, uid |-> f.uid, depth |-> f.depth,
                        reach |-> 1] : f \in {f \in found : f.seed = s}})
                : s \in q.seeds}
    ELSE First(q.limit,
               {[seed |-> None, uid |-> n,
                 depth |-> Shortest({f.depth : f \in {f \in found : f.uid = n}}),
                 reach |-> Cardinality({f.seed : f \in {f \in found : f.uid = n}})]
                : n \in {n \in {f.uid : f \in found} : PassesFilters(q, n)}})

-----------------------------------------------------------------------------
(* Neo4j *)

\* The ends a relationship may be left by when it is entered at u.
Across(direction, u, e) ==
    (IF direction # "reverse" /\ e[1] = u THEN {e[2]} ELSE {})
    \cup (IF direction # "forward" /\ e[2] = u THEN {e[1]} ELSE {})

\* The matches of -[r*1..hops]-: trails from the starts, by their length.
Trails(g, q, starts) ==
    LET Edges == g.sym \cup (IF q.bridges THEN g.ext ELSE {})
        T[k \in 0 .. q.hops] ==
            IF k = 0 THEN {[at |-> s, used |-> {}] : s \in starts}
            ELSE UNION {{[at |-> v, used |-> x[1].used \cup {x[2]}] :
                           v \in Across(q.direction, x[1].at, x[2])}
                        : x \in {x \in T[k - 1] \X Edges :
                                   x[2] \notin x[1].used}}
    IN T

\* The walk as a query: per seed, each symbol at the end of a trail with the
\* length of the shortest.
Matched(g, q) ==
    {f \in [seed: q.seeds, uid: Symbol, depth: 1 .. q.hops] :
        /\ Elsewhere(q, f.seed, f.uid)
        /\ LET T == Trails(g, q, Starts(q, f.seed))
           IN /\ \E t \in T[f.depth] : t.at = f.uid
              /\ \A k \in 1 .. f.depth - 1 : \A t \in T[k] : t.at # f.uid}

CypherRows(g, q) == Ranked(q, Matched(g, q))

-----------------------------------------------------------------------------
(* A walk over the snapshot *)

\* should_use: the walk runs in process if the workspace has rows, or if it
\* was configured to.
Ask(w, q) ==
    /\ walk[w].at \in {"idle", "done", "failed"}
    /\ \E at \in {"load", "cypher"} :
          walk' = [walk EXCEPT ![w] = [Idle EXCEPT !.at = at, !.ask = q,
                                                  !.todo = q.seeds]]
    /\ UNCHANGED <<storeVars, cache, spoilt>>

\* load_adjacency: a snapshot is there already,
LoadCached(w) ==
    /\ walk[w].at = "load" /\ cache # None
    /\ walk' = [walk EXCEPT ![w] = [@ EXCEPT !.at = "walk", !.adj = cache]]
    /\ UNCHANGED <<storeVars, cache, spoilt>>

\* or the rows are read, or if they cannot be the graph, and after them the
\* external maps likewise.
LoadSymbols(w) ==
    /\ walk[w].at = "load" /\ cache = None
    /\ \E from \in {rows, graph} :
          walk' = [walk EXCEPT ![w] =
                     [@ EXCEPT !.at = "external", !.adj.sym = from.sym]]
    /\ UNCHANGED <<storeVars, cache, spoilt>>

LoadExternal(w) ==
    /\ walk[w].at = "external"
    /\ \E from \in {rows, graph} :
          walk' = [walk EXCEPT ![w] =
                     [@ EXCEPT !.at = "store", !.adj.ext = from.ext]]
    /\ UNCHANGED <<storeVars, cache, spoilt>>

\* Neither can be read: the walk goes on with what it has, and so does every
\* walk after it.
LoadFails(w) ==
    /\ walk[w].at = "external" \/ (walk[w].at = "load" /\ cache = None)
    /\ walk' = [walk EXCEPT ![w].at = "store"]
    /\ spoilt' = TRUE
    /\ UNCHANGED <<storeVars, cache>>

StoreAdjacency(w) ==
    /\ walk[w].at = "store"
    /\ cache' = walk[w].adj
    /\ walk' = [walk EXCEPT ![w].at = "walk"]
    /\ UNCHANGED <<storeVars, spoilt>>

\* _collect_node_neighbours: a symbol's edges in the walk's direction; an
\* external node leads to every symbol that has an edge to it.
Neighbours(adj, q, u) ==
    {v \in Symbol : \/ q.direction # "reverse" /\ <<u, v>> \in adj.sym
                    \/ q.direction # "forward" /\ <<v, u>> \in adj.sym
                    \/ u \in External /\ q.bridges /\ <<v, u>> \in adj.ext}
    \cup {x \in External : /\ q.direction # "reverse" /\ q.bridges
                           /\ <<u, x>> \in adj.ext}

Begun(k, seed) ==
    [k EXCEPT !.at = "hop", !.seed = seed, !.todo = k.todo \ {seed}, !.hop = 0,
              !.dist = [v \in Node |-> IF v \in Starts(k.ask, seed) THEN 0
                                                               ELSE None]]

StartSeed(w, seed) ==
    /\ walk[w].at = "walk" /\ seed \in walk[w].todo
    /\ walk' = [walk EXCEPT ![w] = Begun(walk[w], seed)]
    /\ UNCHANGED <<storeVars, cache, spoilt>>

Seen(k) == {u \in Node : k.dist[u] # None}
Frontier(k) == {u \in Node : k.dist[u] = k.hop}

\* Fault: external nodes fill the limit.
OverCountingAll(k) ==
    \/ k.hop = k.ask.hops \/ Frontier(k) = {}
    \/ /\ k.ask.grouped
       /\ Cardinality({u \in Seen(k) : k.dist[u] > 0}) >= k.ask.limit

\* _bfs_distances_from_starts ends: depth, nothing new, or (a grouped walk
\* only) as many symbols as the seed may have.
Over(k) ==
    \/ k.hop = k.ask.hops \/ Frontier(k) = {}
    \/ /\ k.ask.grouped
       /\ Cardinality({u \in Seen(k) \cap Symbol : k.dist[u] > 0})
             >= k.ask.limit

Reached(k) == UNION {Neighbours(k.adj, k.ask, u) : u \in Frontier(k)}

\* Fault: a node is entered again by a longer way.
AdvancedAgain(k) ==
    [k EXCEPT !.hop = k.hop + 1,
              !.dist = [v \in Node |-> IF v \in Reached(k) THEN k.hop + 1
                                                           ELSE k.dist[v]]]

Advanced(k) ==
    [k EXCEPT !.hop = k.hop + 1,
              !.dist = [v \in Node |->
                          IF v \in Reached(k) \ Seen(k) THEN k.hop + 1
                                                        ELSE k.dist[v]]]

Hop(w) ==
    /\ walk[w].at = "hop" /\ ~Over(walk[w])
    /\ walk' = [walk EXCEPT ![w] = Advanced(walk[w])]
    /\ UNCHANGED <<storeVars, cache, spoilt>>

\* _merge_seed_distances, or the seed's group: all symbols but the starts.
FoundBy(k) ==
    {[seed |-> k.seed, uid |-> n, depth |-> k.dist[n]] :
       n \in {n \in Seen(k) \cap Symbol :
                k.dist[n] > 0 /\ Elsewhere(k.ask, k.seed, n)}}

MergeSeed(w) ==
    LET k == walk[w] IN
    /\ k.at = "hop" /\ Over(k)
    /\ walk' = [walk EXCEPT ![w] =
           [k EXCEPT !.at = "walk", !.dist = Nowhere, !.hop = 0, !.seed = None,
                     !.found = k.found \cup FoundBy(k)]]
    /\ UNCHANGED <<storeVars, cache, spoilt>>

Done(q, answer) == [Idle EXCEPT !.at = "done", !.ask = q, !.answer = answer]
AskAgain(q) == [Idle EXCEPT !.at = "cypher", !.ask = q]
Unanswered(q) == [Idle EXCEPT !.at = "failed", !.ask = q]

\* Fault: an empty walk over the snapshot is the answer.
RankTrusts(w) ==
    LET k == walk[w]  found == Ranked(k.ask, k.found) IN
    /\ k.at = "walk" /\ k.todo = {}
    /\ walk' = [walk EXCEPT ![w] = Done(k.ask, found)]
    /\ UNCHANGED <<storeVars, cache, spoilt>>

\* The answer; an empty merged walk is asked again of Neo4j.
Rank(w) ==
    LET k == walk[w]  found == Ranked(k.ask, k.found) IN
    /\ k.at = "walk" /\ k.todo = {}
    /\ walk' = [walk EXCEPT ![w] =
           IF found = {} /\ ~k.ask.grouped THEN AskAgain(k.ask)
           ELSE Done(k.ask, found)]
    /\ UNCHANGED <<storeVars, cache, spoilt>>

\* The in-process walk raised.
Fails(w) ==
    /\ walk[w].at \in {"load", "walk", "hop"}
    /\ walk' = [walk EXCEPT ![w] = AskAgain(@.ask)]
    /\ UNCHANGED <<storeVars, cache, spoilt>>

AskGraph(w) ==
    /\ walk[w].at = "cypher"
    /\ walk' = [walk EXCEPT ![w] =
                   Done(@.ask, CypherRows(graph, walk[w].ask))]
    /\ UNCHANGED <<storeVars, cache, spoilt>>

\* "Empty list on any driver error", and a warning of the stage.
GraphFails(w) ==
    /\ walk[w].at = "cypher"
    /\ walk' = [walk EXCEPT ![w] = Unanswered(@.ask)]
    /\ UNCHANGED <<storeVars, cache, spoilt>>

-----------------------------------------------------------------------------
(* An index batch: new edges, then materialize_axis_adjacency *)

Relink(g) ==
    /\ batch = "rest" /\ relinks < MaxRelinks /\ g # graph
    /\ graph' = g
    /\ relinks' = relinks + 1
    /\ batch' = "linked"
    /\ UNCHANGED <<rows, cache, walk, spoilt>>

ReplaceRows ==
    /\ batch = "linked"
    /\ rows' = [rows EXCEPT !.sym = graph.sym]
    /\ batch' = "rows"
    /\ UNCHANGED <<graph, relinks, cache, walk, spoilt>>

ReplaceExternal ==
    /\ batch = "rows"
    /\ rows' = [rows EXCEPT !.ext = graph.ext]
    /\ batch' = "written"
    /\ UNCHANGED <<graph, relinks, cache, walk, spoilt>>

Loading(w) == walk[w].at \in {"external", "store"}

\* Fault: the cache is dropped before the external maps are replaced.
InvalidateEarly ==
    \/ /\ batch = "rows" /\ cache # None
       /\ cache' = None
       /\ spoilt' = (spoilt \/ \E w \in Walker : Loading(w))
       /\ UNCHANGED <<storeVars, walk>>
    \/ /\ batch = "written"
       /\ batch' = "rest"
       /\ UNCHANGED <<graph, relinks, rows, cache, walk, spoilt>>

InvalidateAdjacency ==
    /\ batch = "written"
    /\ cache' = None
    /\ batch' = "rest"
    /\ spoilt' = (spoilt \/ \E w \in Walker : Loading(w))
    /\ UNCHANGED <<graph, relinks, rows, walk>>

\* A table could not be written: the batch stops where it is.
BatchFails ==
    /\ batch \in {"linked", "rows"}
    /\ batch' = "rest"
    /\ spoilt' = TRUE
    /\ UNCHANGED <<graph, relinks, rows, cache, walk>>

\* The process dies, with its cache and whatever it was at.
Restart ==
    /\ batch' = "rest"
    /\ cache' = None
    /\ walk' = [w \in Walker |-> Idle]
    /\ spoilt' = FALSE
    /\ UNCHANGED <<graph, relinks, rows>>

Next ==
    \/ \E w \in Walker :
          \/ \E q \in Requests : Ask(w, q)
          \/ LoadCached(w) \/ LoadSymbols(w) \/ LoadExternal(w)
          \/ LoadFails(w) \/ StoreAdjacency(w)
          \/ \E s \in Symbol : StartSeed(w, s)
          \/ Hop(w) \/ MergeSeed(w) \/ Rank(w) \/ Fails(w)
          \/ AskGraph(w) \/ GraphFails(w)
    \/ \E g \in Graphs : Relink(g)
    \/ ReplaceRows \/ ReplaceExternal \/ InvalidateAdjacency
    \/ BatchFails \/ Restart

Spec == Init /\ [][Next]_vars

-----------------------------------------------------------------------------
(* Properties *)

\* Types, and a search knows its request and holds a whole snapshot.
TypeOK ==
    /\ graph \in Graph /\ rows \in Graph /\ relinks \in Nat
    /\ batch \in {"rest", "linked", "rows", "written"}
    /\ cache \in Graph \cup {None}
    /\ spoilt \in BOOLEAN
    /\ walk \in [Walker -> Walk]
    /\ \A w \in Walker :
          LET k == walk[w] IN
          /\ k.at # "idle" => k.ask \in Requests
          /\ k.at = "hop" => k.seed # None
          /\ \A v \in Seen(k) : k.dist[v] <= k.hop

\* The search visits the snapshot in layers: exactly the starts are at
\* distance 0, every other node has a neighbour one nearer, and whatever is a
\* neighbour of a node that was expanded is at most one further.  No distance
\* can then be longer than a path, nor shorter than all.
VisitsInLayers ==
    \A w \in Walker :
       LET k == walk[w]
           Near(u) == Neighbours(k.adj, k.ask, u)
       IN k.at = "hop" =>
            /\ {v \in Node : k.dist[v] = 0} = Starts(k.ask, k.seed)
            /\ \A v \in Seen(k) : k.dist[v] > 0 =>
                  \E u \in Seen(k) :
                     k.dist[u] + 1 = k.dist[v] /\ v \in Near(u)
            /\ \A u \in Seen(k) : k.dist[u] < k.hop =>
                  \A v \in Near(u) :
                     v \in Seen(k) /\ k.dist[v] <= k.dist[u] + 1

\* "It is a faithful drop-in" (graph_walk_inproc.py:5): an answer from the
\* snapshot is the one the query would give on it, depth, reach, order and
\* limit included, but for the seed itself: a trail may come back to it, the
\* search never does.
AnswersLikeTheQuery ==
    \A w \in Walker :
       LET k == walk[w] IN
       k.at = "walk" /\ k.todo = {} =>
          Ranked(k.ask, k.found)
             = Ranked(k.ask, {f \in Matched(k.adj, k.ask) : f.uid # f.seed})

\* "Treating an empty snapshot walk as authoritative creates a false 'no
\* impact' result" (graph_walk.py:568): a merged walk is answered with nothing
\* only when the graph has nothing either, however old the snapshot, or with
\* the warning that Neo4j did not answer ("failed").
EmptyIsConfirmed ==
    [][\A w \in Walker :
         walk[w].at # "done" /\ walk'[w].at = "done" /\ walk'[w].answer = {}
         /\ ~walk[w].ask.grouped
         => CypherRows(graph, walk[w].ask) = {}]_vars

\* Between batches the snapshot is no older than what is stored, in either of
\* its halves, unless a load or a batch went wrong or the two met.
OnlySpoiltGoesStale ==
    batch = "rest" /\ ~spoilt /\ cache # None =>
       /\ cache.sym \in {rows.sym, graph.sym}
       /\ cache.ext \in {rows.ext, graph.ext}
=============================================================================
