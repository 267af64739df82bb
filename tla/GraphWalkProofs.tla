-------------------------- MODULE GraphWalkProofs --------------------------
(***************************************************************************)
(* Proofs about GraphWalk, for any workspace, any graphs, any requests and *)
(* any number of walkers.                                                  *)
(*                                                                         *)
(* The breadth-first layers are inductive together with the types.  The    *)
(* freshness of the cache needs one more fact: between batches, and unless *)
(* something was spoilt, what a walker is loading is as fresh as what is   *)
(* stored already.                                                         *)
(***************************************************************************)
EXTENDS GraphWalk, FiniteSetTheorems, WellFoundedInduction, TLAPS

Fresh(g) == /\ g.sym \in {rows.sym, graph.sym}
            /\ g.ext \in {rows.ext, graph.ext}

\* What a walker has loaded between batches is fresh.
LoadsAreFresh ==
    batch = "rest" /\ ~spoilt =>
       \A w \in Walker :
          /\ Loading(w) => walk[w].adj.sym \in {rows.sym, graph.sym}
          /\ walk[w].at = "store" => walk[w].adj.ext \in {rows.ext, graph.ext}

\* VisitsInLayers of one walker.
Layered(k) ==
    k.at = "hop" =>
       /\ {v \in Node : k.dist[v] = 0} = Starts(k.ask, k.seed)
       /\ \A v \in Seen(k) : k.dist[v] > 0 =>
             \E u \in Seen(k) :
                k.dist[u] + 1 = k.dist[v] /\ v \in Neighbours(k.adj, k.ask, u)
       /\ \A u \in Seen(k) : k.dist[u] < k.hop =>
             \A v \in Neighbours(k.adj, k.ask, u) :
                v \in Seen(k) /\ k.dist[v] <= k.dist[u] + 1

\* What TypeOK and VisitsInLayers say of one walker.
Sound(k) ==
    /\ k \in Walk
    /\ k.at # "idle" => k.ask \in Requests
    /\ k.at = "hop" => k.seed # None
    /\ \A v \in Seen(k) : k.dist[v] <= k.hop
    /\ Layered(k)

IInv == TypeOK /\ VisitsInLayers /\ LoadsAreFresh /\ OnlySpoiltGoesStale

-----------------------------------------------------------------------------
\* The shortest of some distances is a distance.
LEMMA ShortestIsNat ==
    ASSUME NEW ds \in SUBSET Nat, ds # {}
    PROVE  Shortest(ds) \in Nat
<1>1. PICK d \in ds : \A e \in ds : ~(<<e, d>> \in OpToRel(<, Nat))
  BY NatLessThanWellFounded, WFMin, Zenon
<1>2. \A e \in ds : ~(e < d)
  BY <1>1, Zenon DEF OpToRel
<1>3. \E m \in ds : \A e \in ds : m <= e
  BY <1>2
<1> QED  BY <1>3, Zenon DEF Shortest

\* An answer is made of neighbours.
LEMMA RankedType ==
    ASSUME NEW q \in Requests,
           NEW found \in SUBSET [seed : Symbol, uid : Symbol, depth : Nat]
    PROVE  Ranked(q, found) \in SUBSET Neighbour
<1>1. q.seeds \subseteq Symbol
  BY WalkConstants DEF WalkConstants, Request
<1>2. CASE q.grouped
  <2>1. ASSUME NEW s \in q.seeds
        PROVE  First(q.limit,
                     {[seed |-> s, uid |-> f.uid, depth |-> f.depth,
                       reach |-> 1] : f \in {f \in found : f.seed = s}})
                 \subseteq Neighbour
    BY <1>1 DEF First, Neighbour
  <2> QED  BY <1>2, <2>1 DEF Ranked
<1>3. CASE ~q.grouped
  <2> DEFINE Of(n)  == {f \in found : f.uid = n}
             D(n)   == {f.depth : f \in Of(n)}
             R(n)   == {f.seed : f \in Of(n)}
             Nb(n)  == [seed |-> None, uid |-> n, depth |-> Shortest(D(n)),
                        reach |-> Cardinality(R(n))]
             N      == {n \in {f.uid : f \in found} : PassesFilters(q, n)}
  <2>1. ASSUME NEW n \in N
        PROVE  Nb(n) \in Neighbour
    <3>1. n \in Symbol /\ D(n) \in SUBSET Nat /\ D(n) # {}
      OBVIOUS
    <3>2. Shortest(D(n)) \in Nat
      BY <3>1, ShortestIsNat
    <3>3. R(n) \in SUBSET Symbol
      OBVIOUS
    <3>4. Cardinality(R(n)) \in Nat
      BY <3>3, FS_Subset, FS_CardinalityType, WalkConstants DEF WalkConstants
    <3> HIDE DEF D, R, N
    <3> QED  BY <3>1, <3>2, <3>4 DEF Neighbour
  <2>2. Ranked(q, found) = First(q.limit, {Nb(n) : n \in N})
    BY <1>3 DEF Ranked
  <2> HIDE DEF Nb, N
  <2> QED  BY <2>1, <2>2 DEF First
<1> QED  BY <1>2, <1>3

\* What the records of a walk look like when nothing is under way.
LEMMA WalkTypes ==
    /\ Idle \in Walk
    /\ NoRows \in Graph
    /\ \A q \in Requests : /\ AskAgain(q) \in Walk /\ Unanswered(q) \in Walk
                           /\ q.seeds \subseteq Symbol
    /\ \A q \in Requests, A \in SUBSET Neighbour : Done(q, A) \in Walk
  BY WalkConstants
  DEF WalkConstants, Idle, Walk, NoRows, Graph, Nowhere, AskAgain, Unanswered, Done,
      Request

\* Nobody walks and the cache is empty.
LEMMA InitInvariant == Init => IInv
<1> SUFFICES ASSUME Init PROVE IInv  OBVIOUS
<1> USE DEF Init
<1>1. TypeOK
  <2>1. graph \in Graph
    BY WalkConstants DEF WalkConstants
  <2>2. walk \in [Walker -> Walk]
    BY WalkTypes
  <2>3. \A w \in Walker : Seen(walk[w]) = {} /\ walk[w].at = "idle"
    BY DEF Idle, Seen, Nowhere
  <2> QED  BY <2>1, <2>2, <2>3 DEF TypeOK
<1>2. VisitsInLayers
  BY DEF VisitsInLayers, Idle
<1>3. LoadsAreFresh
  BY DEF LoadsAreFresh, Loading, Idle
<1>4. OnlySpoiltGoesStale
  BY DEF OnlySpoiltGoesStale
<1> QED  BY <1>1, <1>2, <1>3, <1>4 DEF IInv
-----------------------------------------------------------------------------
(* The walkers *)

\* The parts of the invariant that are about one walker.
LEMMA EveryWalkerIsSound ==
    ASSUME TypeOK, VisitsInLayers
    PROVE  \A w \in Walker : Sound(walk[w])
  BY DEF TypeOK, VisitsInLayers, Sound, Layered

\* A step of one walker keeps the types and the layers if its outcome has them.
LEMMA OneWalkerStep ==
    ASSUME TypeOK, VisitsInLayers, NEW w \in Walker, NEW k, Sound(k),
           walk' = [walk EXCEPT ![w] = k],
           UNCHANGED storeVars, cache' \in Graph \cup {None}, spoilt' \in BOOLEAN
    PROVE  TypeOK' /\ VisitsInLayers'
<1>1. walk' \in [Walker -> Walk]
  BY DEF TypeOK, Sound
<1>2. \A v \in Walker : walk'[v] = IF v = w THEN k ELSE walk[v]
  BY DEF TypeOK
<1>3. \A v \in Walker : Sound(walk'[v])
  BY <1>2, EveryWalkerIsSound
<1>4. TypeOK'
  BY <1>1, <1>3 DEF TypeOK, Sound, storeVars, Seen
<1>5. VisitsInLayers'
  BY <1>3 DEF VisitsInLayers, Sound, Layered, Seen, Starts, Neighbours
<1> QED  BY <1>4, <1>5

\* Whoever is not in a search has nothing to show but its types.
LEMMA OutOfSearch ==
    ASSUME NEW k, Sound(k), NEW n \in Walk, n.at # "hop", n.ask = k.ask,
           k.at # "idle", n.dist = k.dist, n.hop = k.hop
    PROVE  Sound(n)
  BY DEF Sound, Layered, Seen

\* Nor has one that starts anew.
LEMMA Anew ==
    ASSUME NEW q \in Requests, NEW n \in Walk, n.at # "hop", n.ask = q,
           n.dist = Nowhere
    PROVE  Sound(n)
  BY DEF Sound, Layered, Seen, Nowhere

\* A walker at rest has nothing to show.
LEMMA IdleIsSound == Sound(Idle)
  BY WalkTypes DEF Sound, Layered, Seen, Idle, Nowhere

\* The freshness of the loads, likewise.
LEMMA OneWalkerFresh ==
    ASSUME TypeOK, LoadsAreFresh, NEW w \in Walker, NEW n,
           walk' = [walk EXCEPT ![w] = n], UNCHANGED storeVars,
           spoilt => spoilt',
           batch = "rest" /\ ~spoilt' =>
              /\ n.at \in {"external", "store"} => n.adj.sym \in {rows.sym, graph.sym}
              /\ n.at = "store" => n.adj.ext \in {rows.ext, graph.ext}
    PROVE  LoadsAreFresh'
<1>1. \A v \in Walker : walk'[v] = IF v = w THEN n ELSE walk[v]
  BY DEF TypeOK
<1>2. rows' = rows /\ graph' = graph /\ batch' = batch
  BY DEF storeVars
<1> QED  BY <1>1, <1>2 DEF LoadsAreFresh, Loading, storeVars

\* A hop adds the next layer: the unseen neighbours of the last one.
LEMMA LayersGrow ==
    ASSUME NEW k, Sound(k), k.at = "hop"
    PROVE  Sound(Advanced(k)) /\ Advanced(k).at = "hop"
<1> DEFINE n == Advanced(k)
<1>0. None \notin Nat
  BY WalkConstants DEF WalkConstants
<1>1. /\ k.hop \in Nat /\ k.dist \in [Node -> Nat \cup {None}]
      /\ k \in Walk
  BY DEF Sound, Walk
<1> DEFINE d == [v \in Node |-> IF v \in Reached(k) \ Seen(k)
                               THEN k.hop + 1 ELSE k.dist[v]]
<1>21. d \in [Node -> Nat \cup {None}]
  BY <1>1
<1>22. \A v \in Node : d[v] = IF v \in Reached(k) \ Seen(k)
                             THEN k.hop + 1 ELSE k.dist[v]
  OBVIOUS
<1>23. n = [k EXCEPT !.hop = k.hop + 1, !.dist = d]
  BY DEF Advanced
<1>2. /\ n \in Walk
      /\ n.at = "hop" /\ n.ask = k.ask /\ n.adj = k.adj /\ n.seed = k.seed
      /\ n.hop = k.hop + 1
      /\ \A v \in Node : n.dist[v] = IF v \in Reached(k) \ Seen(k)
                                     THEN k.hop + 1 ELSE k.dist[v]
  <2> HIDE DEF d, n
  <2>1. n = [at |-> "hop", ask |-> k.ask, adj |-> k.adj, todo |-> k.todo,
             seed |-> k.seed, dist |-> d, hop |-> k.hop + 1,
             found |-> k.found, answer |-> k.answer]
    BY <1>1, <1>23 DEF Walk
  <2>2. n \in Walk
    BY <1>1, <1>21, <2>1 DEF Walk
  <2> QED  BY <1>22, <2>1, <2>2
<1> HIDE DEF d, n
<1>3. \A u \in Node : Neighbours(k.adj, k.ask, u) \subseteq Node
  BY DEF Neighbours, Node
<1>4. Reached(k) \subseteq Node
  BY <1>3 DEF Reached, Frontier
<1>5. Seen(n) = Seen(k) \cup Reached(k)
  BY <1>0, <1>1, <1>2, <1>4 DEF Seen
<1>6. \A v \in Seen(k) : n.dist[v] = k.dist[v] /\ k.dist[v] \in 0 .. k.hop
  BY <1>1, <1>2 DEF Seen, Sound
<1>7. \A v \in Seen(n) \ Seen(k) : n.dist[v] = k.hop + 1 /\ v \in Reached(k)
  BY <1>2, <1>4, <1>5
<1>8. \A v \in Seen(n) : n.dist[v] <= n.hop
  BY <1>1, <1>2, <1>6, <1>7
<1>9. {v \in Node : n.dist[v] = 0} = Starts(n.ask, n.seed)
  <2>1. \A v \in Node : n.dist[v] = 0 <=> k.dist[v] = 0
    BY <1>0, <1>1, <1>2 DEF Seen
  <2> QED  BY <2>1, <1>2 DEF Sound, Layered
<1>10. ASSUME NEW v \in Seen(n), n.dist[v] > 0
       PROVE  \E u \in Seen(n) : /\ n.dist[u] + 1 = n.dist[v]
                                 /\ v \in Neighbours(n.adj, n.ask, u)
  <2>1. CASE v \in Seen(k)
    <3>1. PICK u \in Seen(k) : /\ k.dist[u] + 1 = k.dist[v]
                               /\ v \in Neighbours(k.adj, k.ask, u)
      BY <1>6, <1>10, <2>1 DEF Sound, Layered
    <3> QED  BY <1>2, <1>5, <1>6, <2>1, <3>1
  <2>2. CASE v \notin Seen(k)
    <3>1. PICK u \in Frontier(k) : v \in Neighbours(k.adj, k.ask, u)
      BY <1>7, <2>2 DEF Reached
    <3>2. u \in Seen(k) /\ k.dist[u] = k.hop
      BY <1>0, <1>1, <3>1 DEF Frontier, Seen
    <3> QED  BY <1>2, <1>5, <1>6, <1>7, <2>2, <3>1, <3>2
  <2> QED  BY <2>1, <2>2
<1>11. ASSUME NEW u \in Seen(n), n.dist[u] < n.hop,
              NEW v \in Neighbours(n.adj, n.ask, u)
       PROVE  v \in Seen(n) /\ n.dist[v] <= n.dist[u] + 1
  <2>1. u \in Seen(k)
    BY <1>1, <1>2, <1>7, <1>11
  <2>2. CASE k.dist[u] < k.hop
    <3>1. v \in Seen(k) /\ k.dist[v] <= k.dist[u] + 1
      BY <1>2, <2>1, <2>2 DEF Sound, Layered
    <3> QED  BY <1>5, <1>6, <2>1, <3>1
  <2>3. CASE k.dist[u] = k.hop
    <3>1. v \in Reached(k)
      BY <1>2, <2>1, <2>3 DEF Reached, Frontier, Seen
    <3> QED  BY <1>1, <1>5, <1>6, <1>7, <2>1, <2>3, <3>1
  <2> QED  BY <1>1, <1>6, <2>1, <2>2, <2>3
<1>12. Layered(n)
  BY <1>2, <1>9, <1>10, <1>11 DEF Layered
<1>13. Sound(n)
  BY <1>2, <1>8, <1>12 DEF Sound
<1> QED  BY <1>2, <1>13 DEF n

\* A walker that loads nothing and leaves the cache alone keeps the invariant
\* if its search is sound.
LEMMA PlainStep ==
    ASSUME IInv, NEW w \in Walker, NEW n, Sound(n),
           n.at \notin {"external", "store"},
           walk' = [walk EXCEPT ![w] = n], UNCHANGED <<storeVars, cache, spoilt>>
    PROVE  IInv'
<1>1. TypeOK' /\ VisitsInLayers'
  BY OneWalkerStep DEF IInv, TypeOK
<1>2. LoadsAreFresh'
  BY OneWalkerFresh DEF IInv
<1>3. OnlySpoiltGoesStale'
  BY DEF IInv, OnlySpoiltGoesStale, storeVars
<1> QED  BY <1>1, <1>2, <1>3 DEF IInv

\* Loads, with what a failure or an invalidation makes of them.
LEMMA LoadSteps ==
    ASSUME IInv, NEW w \in Walker,
           LoadCached(w) \/ LoadSymbols(w) \/ LoadExternal(w) \/ LoadFails(w)
              \/ StoreAdjacency(w)
    PROVE  IInv'
<1> DEFINE k == walk[w]
<1>1. TypeOK /\ VisitsInLayers /\ LoadsAreFresh /\ OnlySpoiltGoesStale
  BY DEF IInv
<1>2. Sound(k)
  BY <1>1, EveryWalkerIsSound
<1>3. k \in Walk /\ k.adj \in Graph
  BY <1>2 DEF Sound, Walk
<1>4. rows \in Graph /\ graph \in Graph /\ cache \in Graph \cup {None}
      /\ spoilt \in BOOLEAN
  BY <1>1 DEF TypeOK
<1>5. CASE LoadCached(w)
  <2> DEFINE n == [k EXCEPT !.at = "walk", !.adj = cache]
  <2>1. n \in Walk /\ n.at = "walk" /\ n.ask = k.ask /\ n.dist = k.dist
        /\ n.hop = k.hop /\ k.at = "load"
    BY <1>3, <1>4, <1>5 DEF LoadCached, Walk
  <2>2. Sound(n)
    BY <1>2, <2>1, OutOfSearch
  <2>3. walk' = [walk EXCEPT ![w] = n]
    BY <1>5 DEF LoadCached
  <2> HIDE DEF n
  <2> QED  BY <1>5, <2>1, <2>2, <2>3, PlainStep DEF LoadCached
<1>6. CASE LoadSymbols(w)
  <2>1. PICK from \in {rows, graph} :
          walk' = [walk EXCEPT ![w] =
                     [@ EXCEPT !.at = "external", !.adj.sym = from.sym]]
    BY <1>6 DEF LoadSymbols
  <2> DEFINE n == [k EXCEPT !.at = "external", !.adj.sym = from.sym]
  <2>2. from.sym \in SUBSET (Symbol \X Symbol)
    BY <1>4, <2>1 DEF Graph
  <2>3. /\ n \in Walk /\ n.at = "external" /\ n.ask = k.ask
        /\ n.dist = k.dist /\ n.hop = k.hop /\ k.at = "load"
        /\ n.adj.sym = from.sym
    BY <1>3, <1>6, <2>2 DEF LoadSymbols, Walk, Graph
  <2>4. Sound(n)
    BY <1>2, <2>3, OutOfSearch
  <2>5. walk' = [walk EXCEPT ![w] = n]
    BY <2>1
  <2> HIDE DEF n
  <2>6. UNCHANGED <<storeVars, cache, spoilt>>
    BY <1>6 DEF LoadSymbols
  <2>7. TypeOK' /\ VisitsInLayers'
    BY <1>1, <1>4, <2>4, <2>5, <2>6, OneWalkerStep
  <2>8. LoadsAreFresh'
    <3>1. from.sym \in {rows.sym, graph.sym}
      BY <2>1
    <3>2. UNCHANGED storeVars /\ spoilt' = spoilt
      BY <2>6
    <3> QED  BY <1>1, <2>3, <2>5, <3>1, <3>2, OneWalkerFresh, Zenon
  <2>9. OnlySpoiltGoesStale'
    BY <1>1, <2>6 DEF OnlySpoiltGoesStale, storeVars
  <2> QED  BY <2>7, <2>8, <2>9 DEF IInv
<1>7. CASE LoadExternal(w)
  <2>1. PICK from \in {rows, graph} :
          walk' = [walk EXCEPT ![w] =
                     [@ EXCEPT !.at = "store", !.adj.ext = from.ext]]
    BY <1>7 DEF LoadExternal
  <2> DEFINE n == [k EXCEPT !.at = "store", !.adj.ext = from.ext]
  <2>2. from.ext \in SUBSET (Symbol \X External)
    BY <1>4, <2>1 DEF Graph
  <2>3. /\ n \in Walk /\ n.at = "store" /\ n.ask = k.ask
        /\ n.dist = k.dist /\ n.hop = k.hop /\ k.at = "external"
        /\ n.adj.sym = k.adj.sym /\ n.adj.ext = from.ext
    BY <1>3, <1>7, <2>2 DEF LoadExternal, Walk, Graph
  <2>4. Sound(n)
    BY <1>2, <2>3, OutOfSearch
  <2>5. walk' = [walk EXCEPT ![w] = n]
    BY <2>1
  <2> HIDE DEF n
  <2>6. UNCHANGED <<storeVars, cache, spoilt>>
    BY <1>7 DEF LoadExternal
  <2>7. TypeOK' /\ VisitsInLayers'
    BY <1>1, <1>4, <2>4, <2>5, <2>6, OneWalkerStep
  <2>8. batch = "rest" /\ ~spoilt => k.adj.sym \in {rows.sym, graph.sym}
    BY <1>1, <2>3 DEF LoadsAreFresh, Loading
  <2>9. LoadsAreFresh'
    <3>1. from.ext \in {rows.ext, graph.ext}
      BY <2>1
    <3>2. UNCHANGED storeVars /\ spoilt' = spoilt
      BY <2>6
    <3>3. n.adj.sym = k.adj.sym /\ n.adj.ext = from.ext
      BY <2>3
    <3> HIDE DEF k
    <3> QED  BY <1>1, <2>5, <2>8, <3>1, <3>2, <3>3, OneWalkerFresh, Zenon
  <2>10. OnlySpoiltGoesStale'
    BY <1>1, <2>6 DEF OnlySpoiltGoesStale, storeVars
  <2> QED  BY <2>7, <2>9, <2>10 DEF IInv
<1>8. CASE LoadFails(w)
  <2> DEFINE n == [k EXCEPT !.at = "store"]
  <2>1. n \in Walk /\ n.at = "store" /\ n.ask = k.ask /\ n.dist = k.dist
        /\ n.hop = k.hop /\ k.at # "idle"
    BY <1>3, <1>8 DEF LoadFails, Walk
  <2>2. Sound(n)
    BY <1>2, <2>1, OutOfSearch
  <2>3. walk' = [walk EXCEPT ![w] = n]
    BY <1>8 DEF LoadFails
  <2> HIDE DEF n
  <2>4. UNCHANGED <<storeVars, cache>> /\ spoilt' = TRUE
    BY <1>8 DEF LoadFails
  <2>5. TypeOK' /\ VisitsInLayers'
    BY <1>1, <1>4, <2>2, <2>3, <2>4, OneWalkerStep
  <2> QED  BY <2>4, <2>5 DEF IInv, LoadsAreFresh, OnlySpoiltGoesStale
<1>9. CASE StoreAdjacency(w)
  <2> DEFINE n == [k EXCEPT !.at = "walk"]
  <2>1. n \in Walk /\ n.at = "walk" /\ n.ask = k.ask /\ n.dist = k.dist
        /\ n.hop = k.hop /\ k.at = "store"
    BY <1>3, <1>9 DEF StoreAdjacency, Walk
  <2>2. Sound(n)
    BY <1>2, <2>1, OutOfSearch
  <2>3. walk' = [walk EXCEPT ![w] = n]
    BY <1>9 DEF StoreAdjacency
  <2> HIDE DEF n
  <2>4. UNCHANGED <<storeVars, spoilt>> /\ cache' = k.adj
    BY <1>9 DEF StoreAdjacency
  <2>5. TypeOK' /\ VisitsInLayers'
    BY <1>1, <1>3, <1>4, <2>2, <2>3, <2>4, OneWalkerStep
  <2>6. LoadsAreFresh'
    BY <1>1, <2>1, <2>3, <2>4, OneWalkerFresh
  <2>7. batch = "rest" /\ ~spoilt => Fresh(k.adj)
    BY <1>1, <2>1 DEF LoadsAreFresh, Loading, Fresh
  <2>8. OnlySpoiltGoesStale'
    BY <2>4, <2>7 DEF OnlySpoiltGoesStale, storeVars, Fresh
  <2> QED  BY <2>5, <2>6, <2>8 DEF IInv
<1> QED  BY <1>5, <1>6, <1>7, <1>8, <1>9

\* The search itself.
LEMMA SearchSteps ==
    ASSUME IInv, NEW w \in Walker,
           (\E s \in Symbol : StartSeed(w, s)) \/ Hop(w) \/ MergeSeed(w)
    PROVE  IInv'
<1> DEFINE k == walk[w]
<1>1. Sound(k)
  BY EveryWalkerIsSound DEF IInv
<1>2. k \in Walk
  BY <1>1 DEF Sound
<1>0. None \notin Nat
  BY WalkConstants DEF WalkConstants
<1>3. ASSUME NEW s \in Symbol, StartSeed(w, s)
      PROVE  IInv'
  <2> DEFINE d == [v \in Node |-> IF v \in Starts(k.ask, s) THEN 0 ELSE None]
             n == Begun(k, s)
  <2>1. d \in [Node -> Nat \cup {None}]
    OBVIOUS
  <2>2. k.at = "walk" /\ k.ask \in Requests
    BY <1>1, <1>3 DEF StartSeed, Sound
  <2>3. Starts(k.ask, s) \subseteq Node
    BY WalkConstants DEF WalkConstants, Starts, Node
  <2>4. \A v \in Node : d[v] = IF v \in Starts(k.ask, s) THEN 0 ELSE None
    OBVIOUS
  <2>5. walk' = [walk EXCEPT ![w] = n] /\ UNCHANGED <<storeVars, cache, spoilt>>
    BY <1>3 DEF StartSeed
  <2>6. n = [k EXCEPT !.at = "hop", !.seed = s, !.todo = k.todo \ {s},
                      !.hop = 0, !.dist = d]
    BY DEF Begun
  <2> HIDE DEF d, n
  <2>7. n = [at |-> "hop", ask |-> k.ask, adj |-> k.adj, todo |-> k.todo \ {s},
             seed |-> s, dist |-> d, hop |-> 0,
             found |-> k.found, answer |-> k.answer]
    BY <1>2, <2>6 DEF Walk
  <2>8. n \in Walk
    BY <1>2, <2>1, <2>7 DEF Walk
  <2>9. Seen(n) = Starts(k.ask, s) /\ \A v \in Seen(n) : n.dist[v] = 0
    BY <1>0, <2>3, <2>4, <2>7 DEF Seen
  <2>10. {v \in Node : n.dist[v] = 0} = Starts(n.ask, n.seed)
    BY <1>0, <2>3, <2>4, <2>7
  <2>11. Layered(n)
    <3>1. \A v \in Seen(n) : ~(n.dist[v] > 0) /\ ~(n.dist[v] < n.hop)
      BY <2>7, <2>9
    <3> QED  BY <2>10, <3>1, Zenon DEF Layered
  <2>12. s # None
    BY <1>0, WalkConstants DEF WalkConstants
  <2>13. Sound(n)
    BY <2>2, <2>7, <2>8, <2>9, <2>11, <2>12 DEF Sound
  <2> QED  BY <2>5, <2>7, <2>13, PlainStep
<1>4. CASE Hop(w)
  <2> DEFINE n == Advanced(k)
  <2>1. k.at = "hop"
    BY <1>4 DEF Hop
  <2>2. Sound(n) /\ n.at = "hop"
    BY <1>1, <2>1, LayersGrow
  <2>3. walk' = [walk EXCEPT ![w] = n] /\ UNCHANGED <<storeVars, cache, spoilt>>
    BY <1>4 DEF Hop
  <2> HIDE DEF n
  <2> QED  BY <2>2, <2>3, PlainStep
<1>5. CASE MergeSeed(w)
  <2> DEFINE F == FoundBy(k)
             n == [k EXCEPT !.at = "walk", !.dist = Nowhere, !.hop = 0,
                            !.seed = None, !.found = k.found \cup F]
  <2>1. k.at = "hop" /\ k.ask \in Requests /\ k.seed \in Symbol
    BY <1>1, <1>5 DEF MergeSeed, Sound, Walk
  <2>2. F \subseteq [seed : Symbol, uid : Symbol, depth : Nat]
    BY <1>2, <2>1 DEF Walk, Seen, FoundBy
  <2>3. walk' = [walk EXCEPT ![w] = n] /\ UNCHANGED <<storeVars, cache, spoilt>>
    BY <1>5 DEF MergeSeed
  <2>4. n = [k EXCEPT !.at = "walk", !.dist = Nowhere, !.hop = 0,
                      !.seed = None, !.found = k.found \cup F]
    OBVIOUS
  <2>5. Nowhere \in [Node -> Nat \cup {None}]
    BY DEF Nowhere
  <2> HIDE DEF F, n
  <2>6. n = [at |-> "walk", ask |-> k.ask, adj |-> k.adj, todo |-> k.todo,
             seed |-> None, dist |-> Nowhere, hop |-> 0,
             found |-> k.found \cup F, answer |-> k.answer]
    BY <1>2, <2>4 DEF Walk
  <2>7. n \in Walk
    BY <1>2, <2>2, <2>5, <2>6 DEF Walk
  <2>8. Sound(n)
    BY <2>1, <2>6, <2>7, Anew
  <2> QED  BY <2>3, <2>6, <2>8, PlainStep
<1> QED  BY <1>3, <1>4, <1>5

\* Requests and answers.
LEMMA AnswerSteps ==
    ASSUME IInv, NEW w \in Walker,
           (\E q \in Requests : Ask(w, q)) \/ Rank(w) \/ Fails(w)
              \/ AskGraph(w) \/ GraphFails(w)
    PROVE  IInv'
<1> DEFINE k == walk[w]
<1>1. Sound(k)
  BY EveryWalkerIsSound DEF IInv
<1>2. k \in Walk /\ (k.at # "idle" => k.ask \in Requests)
  BY <1>1 DEF Sound
<1>3. ASSUME NEW q \in Requests
      PROVE  /\ Sound(AskAgain(q)) /\ AskAgain(q).at = "cypher"
             /\ Sound(Unanswered(q)) /\ Unanswered(q).at = "failed"
             /\ \A A \in SUBSET Neighbour :
                   Sound(Done(q, A)) /\ Done(q, A).at = "done"
  <2>1. AskAgain(q) \in Walk /\ AskAgain(q).at = "cypher"
        /\ AskAgain(q).ask = q /\ AskAgain(q).dist = Nowhere
    BY WalkTypes DEF AskAgain, Idle
  <2>2. Unanswered(q) \in Walk /\ Unanswered(q).at = "failed"
        /\ Unanswered(q).ask = q /\ Unanswered(q).dist = Nowhere
    BY WalkTypes DEF Unanswered, Idle
  <2>3. ASSUME NEW A \in SUBSET Neighbour
        PROVE  Done(q, A) \in Walk /\ Done(q, A).at = "done"
               /\ Done(q, A).ask = q /\ Done(q, A).dist = Nowhere
    BY WalkTypes DEF Done, Idle
  <2> QED  BY <2>1, <2>2, <2>3, Anew
<1>4. ASSUME NEW q \in Requests, Ask(w, q)
      PROVE  IInv'
  <2>1. PICK at \in {"load", "cypher"} :
          walk' = [walk EXCEPT ![w] = [Idle EXCEPT !.at = at, !.ask = q,
                                                  !.todo = q.seeds]]
    BY <1>4 DEF Ask
  <2> DEFINE n == [Idle EXCEPT !.at = at, !.ask = q, !.todo = q.seeds]
  <2>2. n \in Walk /\ n.at = at /\ n.ask = q /\ n.dist = Nowhere
    BY WalkTypes DEF Idle, Walk
  <2>3. Sound(n)
    BY <2>1, <2>2, Anew
  <2> HIDE DEF n
  <2> QED  BY <1>4, <2>1, <2>2, <2>3, PlainStep DEF Ask, n
<1>5. CASE Rank(w)
  <2>1. k.at = "walk" /\ k.ask \in Requests
    BY <1>2, <1>5 DEF Rank
  <2>2. Ranked(k.ask, k.found) \in SUBSET Neighbour
    BY <1>2, <2>1, RankedType DEF Walk
  <2>3. \/ walk' = [walk EXCEPT ![w] = AskAgain(k.ask)]
        \/ walk' = [walk EXCEPT ![w] = Done(k.ask, Ranked(k.ask, k.found))]
    BY <1>5 DEF Rank
  <2>4. UNCHANGED <<storeVars, cache, spoilt>>
    BY <1>5 DEF Rank
  <2>5. CASE walk' = [walk EXCEPT ![w] = AskAgain(k.ask)]
    BY <1>3, <2>1, <2>4, <2>5, PlainStep
  <2>6. CASE walk' = [walk EXCEPT ![w] = Done(k.ask, Ranked(k.ask, k.found))]
    BY <1>3, <2>1, <2>2, <2>4, <2>6, PlainStep
  <2> QED  BY <2>3, <2>5, <2>6
<1>6. CASE Fails(w)
  <2>1. k.ask \in Requests /\ walk' = [walk EXCEPT ![w] = AskAgain(k.ask)]
        /\ UNCHANGED <<storeVars, cache, spoilt>>
    BY <1>2, <1>6 DEF Fails
  <2> QED  BY <1>3, <2>1, PlainStep
<1>7. CASE AskGraph(w)
  <2>1. /\ k.ask \in Requests
        /\ walk' = [walk EXCEPT ![w] = Done(k.ask, CypherRows(graph, k.ask))]
        /\ UNCHANGED <<storeVars, cache, spoilt>>
    BY <1>2, <1>7 DEF AskGraph
  <2>2. k.ask.seeds \subseteq Symbol /\ k.ask.hops \in Nat
    BY <2>1, WalkConstants DEF WalkConstants, Request
  <2>3. Matched(graph, k.ask) \in SUBSET [seed : Symbol, uid : Symbol, depth : Nat]
    BY <2>2 DEF Matched
  <2>4. CypherRows(graph, k.ask) \in SUBSET Neighbour
    BY <2>1, <2>3, RankedType DEF CypherRows
  <2> QED  BY <1>3, <2>1, <2>4, PlainStep
<1>8. CASE GraphFails(w)
  <2>1. k.ask \in Requests /\ walk' = [walk EXCEPT ![w] = Unanswered(k.ask)]
        /\ UNCHANGED <<storeVars, cache, spoilt>>
    BY <1>2, <1>8 DEF GraphFails
  <2> QED  BY <1>3, <2>1, PlainStep
<1> QED  BY <1>4, <1>5, <1>6, <1>7, <1>8

-----------------------------------------------------------------------------
(* Batches and restarts *)

\* Whatever leaves the walkers alone leaves their searches sound.
LEMMA SearchesStay ==
    ASSUME VisitsInLayers, walk' = walk
    PROVE  VisitsInLayers'
  BY DEF VisitsInLayers, Seen, Starts, Neighbours

\* A batch writes the tables and then invalidates the snapshot.
LEMMA BatchSteps ==
    ASSUME IInv,
           (\E g \in Graphs : Relink(g)) \/ ReplaceRows \/ ReplaceExternal
              \/ InvalidateAdjacency \/ BatchFails
    PROVE  IInv'
<1>1. walk' = walk
  BY DEF Relink, ReplaceRows, ReplaceExternal, InvalidateAdjacency, BatchFails
<1>2. VisitsInLayers'
  BY <1>1, SearchesStay DEF IInv
<1>3. /\ graph' \in Graph /\ rows' \in Graph /\ relinks' \in Nat
      /\ batch' \in {"rest", "linked", "rows", "written"}
      /\ cache' \in Graph \cup {None} /\ spoilt' \in BOOLEAN
  <2>1. /\ graph \in Graph /\ rows \in Graph /\ relinks \in Nat
        /\ batch \in {"rest", "linked", "rows", "written"}
        /\ cache \in Graph \cup {None} /\ spoilt \in BOOLEAN
    BY DEF IInv, TypeOK
  <2>2. ASSUME NEW g \in Graphs, Relink(g)
        PROVE  <1>3!:
    BY <2>1, <2>2, WalkConstants DEF Relink, WalkConstants
  <2>3. CASE ReplaceRows
    BY <2>1, <2>3 DEF ReplaceRows, Graph
  <2>4. CASE ReplaceExternal
    BY <2>1, <2>4 DEF ReplaceExternal, Graph
  <2>5. CASE InvalidateAdjacency
    BY <2>1, <2>5 DEF InvalidateAdjacency
  <2>6. CASE BatchFails
    BY <2>1, <2>6 DEF BatchFails
  <2> QED  BY <2>2, <2>3, <2>4, <2>5, <2>6
<1>4. TypeOK'
  BY <1>1, <1>3 DEF IInv, TypeOK, Seen
<1>5. \/ batch' # "rest" \/ spoilt'
      \/ cache' = None /\ \A w \in Walker : ~Loading(w)
  BY DEF Relink, ReplaceRows, ReplaceExternal, InvalidateAdjacency, BatchFails
<1>6. LoadsAreFresh'
  BY <1>1, <1>5 DEF LoadsAreFresh, Loading
<1>7. OnlySpoiltGoesStale'
  BY <1>5 DEF OnlySpoiltGoesStale
<1> QED  BY <1>2, <1>4, <1>6, <1>7 DEF IInv

\* A restart empties the cache and ends every walk.
LEMMA RestartStep ==
    ASSUME IInv, Restart
    PROVE  IInv'
<1>1. \A w \in Walker : walk'[w] = Idle /\ Sound(walk'[w])
  BY IdleIsSound DEF Restart
<1>2. walk' \in [Walker -> Walk]
  BY WalkTypes DEF Restart
<1>3. TypeOK'
  BY <1>1, <1>2 DEF IInv, TypeOK, Restart, Sound, Seen
<1>4. VisitsInLayers'
  BY <1>1 DEF VisitsInLayers, Idle
<1>5. LoadsAreFresh' /\ OnlySpoiltGoesStale'
  BY <1>1 DEF Restart, LoadsAreFresh, OnlySpoiltGoesStale, Loading, Idle
<1> QED  BY <1>3, <1>4, <1>5 DEF IInv

\* Every step keeps the invariant.
LEMMA StepInvariant == IInv /\ [Next]_vars => IInv'
<1> SUFFICES ASSUME IInv, [Next]_vars PROVE IInv'
  OBVIOUS
<1>1. CASE Next
  BY <1>1, LoadSteps, SearchSteps, AnswerSteps, BatchSteps, RestartStep DEF Next
<1>2. CASE UNCHANGED vars
  <2>1. walk' = walk /\ graph' = graph /\ rows' = rows /\ batch' = batch
        /\ relinks' = relinks /\ cache' = cache /\ spoilt' = spoilt
    BY <1>2 DEF vars
  <2>2. VisitsInLayers'
    BY <2>1, SearchesStay DEF IInv
  <2> QED  BY <2>1, <2>2 DEF IInv, TypeOK, LoadsAreFresh, OnlySpoiltGoesStale,
                            Loading, Seen
<1> QED  BY <1>1, <1>2

-----------------------------------------------------------------------------
\* The invariant of every behaviour.
THEOREM WalkInvariant == Spec => []IInv
<1> QED  BY InitInvariant, StepInvariant, PTL DEF Spec

\* Types; a search has its request, and its distances never pass its hop.
THEOREM WalkTypesHold == Spec => []TypeOK
<1>1. IInv => TypeOK
  BY DEF IInv
<1> QED  BY WalkInvariant, <1>1, PTL

\* Every search is breadth first (_bfs_distances_from_starts), over whatever
\* snapshot and however walks and batches interleave.
THEOREM WalkVisitsInLayers == Spec => []VisitsInLayers
<1>1. IInv => VisitsInLayers
  BY DEF IInv
<1> QED  BY WalkInvariant, <1>1, PTL

\* Between batches the cached adjacency is no older than the stores, unless a
\* load or a batch failed or the two met (load_adjacency, invalidate_adjacency).
THEOREM WalkCacheIsFresh == Spec => []OnlySpoiltGoesStale
<1>1. IInv => OnlySpoiltGoesStale
  BY DEF IInv
<1> QED  BY WalkInvariant, <1>1, PTL

-----------------------------------------------------------------------------
\* Only the rank of a search and the query itself end in an answer.
LEMMA EmptyAnswerStep ==
    ASSUME TypeOK, [Next]_vars, NEW w \in Walker,
           walk[w].at # "done", walk'[w].at = "done",
           walk'[w].answer = {}, ~walk[w].ask.grouped
    PROVE  CypherRows(graph, walk[w].ask) = {}
<1> DEFINE k == walk[w]
<1>1. walk \in [Walker -> Walk]
  BY DEF TypeOK
<1>2. k \in Walk
  BY <1>1
<1>3. \A q, A : /\ Done(q, A).at = "done" /\ Done(q, A).answer = A
                /\ AskAgain(q).at = "cypher" /\ Unanswered(q).at = "failed"
  BY DEF Done, AskAgain, Unanswered, Idle
<1>4. CASE Rank(w)
  <2>1. walk'[w] = IF Ranked(k.ask, k.found) = {} /\ ~k.ask.grouped
                   THEN AskAgain(k.ask)
                   ELSE Done(k.ask, Ranked(k.ask, k.found))
    BY <1>1, <1>4 DEF Rank
  <2> QED  BY <1>3, <2>1
<1>5. CASE AskGraph(w)
  <2>1. walk'[w] = Done(k.ask, CypherRows(graph, k.ask))
    BY <1>1, <1>5 DEF AskGraph
  <2> QED  BY <1>3, <2>1
<1>6. ASSUME NEW n, walk' = [walk EXCEPT ![w] = n], n.at # "done"
      PROVE  FALSE
  BY <1>1, <1>6
<1>7. ASSUME NEW q \in Requests, Ask(w, q)
      PROVE  FALSE
  BY <1>6, <1>7 DEF Ask, Idle
<1>8. CASE LoadCached(w) \/ LoadSymbols(w) \/ LoadExternal(w) \/ LoadFails(w)
              \/ StoreAdjacency(w) \/ MergeSeed(w)
  <2>1. CASE LoadCached(w)
    BY <1>1, <1>2, <2>1 DEF LoadCached, Walk
  <2>2. CASE LoadSymbols(w)
    BY <1>1, <1>2, <2>2 DEF LoadSymbols, Walk
  <2>3. CASE LoadExternal(w)
    BY <1>1, <1>2, <2>3 DEF LoadExternal, Walk
  <2>4. CASE LoadFails(w)
    BY <1>1, <1>2, <2>4 DEF LoadFails, Walk
  <2>5. CASE StoreAdjacency(w)
    BY <1>1, <1>2, <2>5 DEF StoreAdjacency, Walk
  <2>6. CASE MergeSeed(w)
    BY <1>1, <1>2, <2>6 DEF MergeSeed, Walk
  <2> QED  BY <1>8, <2>1, <2>2, <2>3, <2>4, <2>5, <2>6
<1>9. CASE (\E s \in Symbol : StartSeed(w, s)) \/ Hop(w)
  <2>1. ASSUME NEW s \in Symbol, StartSeed(w, s) PROVE FALSE
    BY <1>1, <1>2, <2>1 DEF StartSeed, Begun, Walk
  <2>2. CASE Hop(w)
    BY <1>1, <1>2, <2>2 DEF Hop, Advanced, Walk
  <2> QED  BY <1>9, <2>1, <2>2
<1>10. CASE Fails(w) \/ GraphFails(w)
  BY <1>3, <1>6, <1>10 DEF Fails, GraphFails
<1>11. ASSUME NEW v \in Walker \ {w}, NEW n, walk' = [walk EXCEPT ![v] = n]
       PROVE  FALSE
  BY <1>1, <1>11
<1>12. ASSUME NEW v \in Walker \ {w},
              \/ \E q \in Requests : Ask(v, q)
              \/ LoadCached(v) \/ LoadSymbols(v) \/ LoadExternal(v)
              \/ LoadFails(v) \/ StoreAdjacency(v)
              \/ \E s \in Symbol : StartSeed(v, s)
              \/ Hop(v) \/ MergeSeed(v) \/ Rank(v) \/ Fails(v)
              \/ AskGraph(v) \/ GraphFails(v)
       PROVE  FALSE
  <2>1. \E n : walk' = [walk EXCEPT ![v] = n]
    BY <1>12 DEF Ask, LoadCached, LoadSymbols, LoadExternal, LoadFails,
                 StoreAdjacency, StartSeed, Hop, MergeSeed, Rank, Fails,
                 AskGraph, GraphFails
  <2> QED  BY <1>11, <2>1
<1>13. CASE UNCHANGED walk
  BY <1>13
<1>14. CASE (\E g \in Graphs : Relink(g)) \/ ReplaceRows \/ ReplaceExternal
               \/ InvalidateAdjacency \/ BatchFails \/ UNCHANGED vars
  BY <1>13, <1>14 DEF Relink, ReplaceRows, ReplaceExternal,
                      InvalidateAdjacency, BatchFails, vars
<1>15. CASE Restart
  BY <1>15 DEF Restart, Idle
<1> QED  BY <1>4, <1>5, <1>7, <1>8, <1>9, <1>10, <1>12, <1>14, <1>15 DEF Next

\* A merged walk is answered with nothing only if the graph has nothing
\* (fetch_neighbours asks again after an empty walk), for any number of walkers
\* and whatever became of the snapshot meanwhile.
THEOREM WalkEmptyIsConfirmed == Spec => EmptyIsConfirmed
<1>1. TypeOK /\ [Next]_vars =>
         [\A w \in Walker :
            walk[w].at # "done" /\ walk'[w].at = "done"
            /\ walk'[w].answer = {} /\ ~walk[w].ask.grouped
            => CypherRows(graph, walk[w].ask) = {}]_vars
  BY EmptyAnswerStep
<1> QED  BY WalkTypesHold, <1>1, PTL DEF Spec, EmptyIsConfirmed

-----------------------------------------------------------------------------
(* Trails and layers *)

\* Induction over the naturals, of a set.
LEMMA InductiveSet ==
    ASSUME NEW P, 0 \in P, \A n \in Nat : n \in P => n + 1 \in P
    PROVE  Nat \subseteq P
<1>1. SUFFICES ASSUME Nat \ P # {} PROVE FALSE
  OBVIOUS
<1>2. PICK n \in Nat \ P : \A m \in Nat \ P : ~(<<m, n>> \in OpToRel(<, Nat))
  BY <1>1, NatLessThanWellFounded, WFMin, Zenon
<1>3. \A m \in Nat \ P : ~(m < n)
  BY <1>2, Zenon DEF OpToRel
<1>4. n # 0 /\ n - 1 \in Nat /\ n - 1 < n /\ (n - 1) + 1 = n
  OBVIOUS
<1>5. n - 1 \in P
  BY <1>3, <1>4
<1> QED  BY <1>4, <1>5

\* The relationships a request follows.
Links(g, q) == g.sym \cup (IF q.bridges THEN g.ext ELSE {})

\* Trails that have not begun.
Still(starts) == {[at |-> s, used |-> {}] : s \in starts}

\* Trails that are one relationship longer.
Longer(g, q, shorter) ==
    UNION {{[at |-> v, used |-> x[1].used \cup {x[2]}] :
               v \in Across(q.direction, x[1].at, x[2])}
            : x \in {x \in shorter \X Links(g, q) : x[2] \notin x[1].used}}

\* What the recursion of Trails says of the trails up to length d.
IsTrails(T, g, q, starts, d) ==
    T = [k \in 0 .. d |-> IF k = 0 THEN Still(starts)
                          ELSE Longer(g, q, T[k - 1])]

\* The recursion has a solution.
LEMMA TrailsExist ==
    ASSUME NEW g, NEW q, NEW starts, NEW d \in Nat
    PROVE  \E T : IsTrails(T, g, q, starts, d)
<1> DEFINE step(T, k) == IF k = 0 THEN Still(starts)
                         ELSE Longer(g, q, T[k - 1])
           P == {m \in Nat : \E T : T = [k \in 0 .. m |-> step(T, k)]}
<1>1. 0 \in P
  <2> DEFINE T == [k \in 0 .. 0 |-> Still(starts)]
  <2>1. T = [k \in 0 .. 0 |-> step(T, k)]
    OBVIOUS
  <2> QED  BY <2>1
<1>2. ASSUME NEW m \in Nat, m \in P
      PROVE  m + 1 \in P
  <2>1. PICK T : T = [k \in 0 .. m |-> step(T, k)]
    BY <1>2
  <2> DEFINE U == [k \in 0 .. m + 1 |-> IF k = m + 1 THEN step(T, k) ELSE T[k]]
  <2>2. ASSUME NEW k \in 0 .. m + 1
        PROVE  U[k] = step(U, k)
    <3>0. \A i \in 0 .. m : T[i] = step(T, i)
      BY <2>1
    <3>1. U[k] = step(T, k)
      <4>1. CASE k = m + 1
        BY <4>1
      <4>2. CASE k # m + 1
        <5>1. k \in 0 .. m /\ U[k] = T[k]
          BY <4>2
        <5> QED  BY <3>0, <5>1
      <4> QED  BY <4>1, <4>2
    <3>2. k # 0 => k - 1 \in 0 .. m /\ U[k - 1] = T[k - 1]
      OBVIOUS
    <3> QED  BY <3>1, <3>2
  <2>3. U = [k \in 0 .. m + 1 |-> step(U, k)]
    <3> DEFINE V == [k \in 0 .. m + 1 |-> step(U, k)]
    <3>1. \A k \in 0 .. m + 1 : U[k] = V[k]
      BY <2>2
    <3> QED  BY <3>1
  <2> HIDE DEF U
  <2>4. \E V : V = [k \in 0 .. m + 1 |-> step(V, k)]
    BY <2>3
  <2> QED  BY <2>4
<1>3. Nat \subseteq P
  <2> HIDE DEF P
  <2> QED  BY <1>1, <1>2, InductiveSet
<1> QED  BY <1>3 DEF IsTrails

\* The trails of length 0, and those of the next length.
LEMMA TrailsStep ==
    ASSUME NEW g, NEW q \in Requests, NEW starts,
           NEW T, T = Trails(g, q, starts)
    PROVE  /\ T[0] = Still(starts)
           /\ \A k \in Nat : k + 1 <= q.hops => T[k + 1] = Longer(g, q, T[k])
<1> DEFINE d == q.hops
<1>1. d \in Nat
  BY WalkConstants DEF WalkConstants, Request
<1>2. T = CHOOSE U : IsTrails(U, g, q, starts, d)
  BY DEF Trails, IsTrails, Longer, Links, Still
<1> HIDE DEF d
<1>3. IsTrails(T, g, q, starts, d)
  BY <1>1, <1>2, TrailsExist
<1>4. T[0] = Still(starts)
  BY <1>1, <1>3 DEF IsTrails
<1>5. ASSUME NEW k \in Nat, k + 1 <= d
      PROVE  T[k + 1] = Longer(g, q, T[k])
  <2> DEFINE j == k + 1
  <2>1. j \in 0 .. d /\ j # 0 /\ j - 1 = k
    BY <1>1, <1>5
  <2> HIDE DEF j
  <2>2. T[j] = Longer(g, q, T[j - 1])
    BY <1>3, <2>1 DEF IsTrails
  <2> QED  BY <2>1, <2>2 DEF j
<1> QED  BY <1>4, <1>5 DEF d

\* A neighbour is what a relationship leads to, and its ends are the two.
LEMMA AcrossIsNear ==
    ASSUME NEW g \in Graph, NEW q \in Requests, NEW u \in Node, NEW v
    PROVE  /\ v \in Neighbours(g, q, u) <=>
                 \E e \in Links(g, q) : v \in Across(q.direction, u, e)
           /\ \A e \in Links(g, q) : v \in Across(q.direction, u, e) =>
                 e[1] \in {u, v} /\ e[2] \in {u, v} /\ v \in {e[1], e[2]}
<1>1. q.direction \in Direction /\ (q.bridges => q.direction # "forward")
  BY WalkConstants DEF WalkConstants, Request
<1>2. g.sym \subseteq Symbol \X Symbol /\ g.ext \subseteq Symbol \X External
  BY DEF Graph
<1>3. ASSUME v \in Neighbours(g, q, u)
      PROVE  \E e \in Links(g, q) : v \in Across(q.direction, u, e)
  <2>1. CASE q.direction # "reverse" /\ <<u, v>> \in g.sym
    BY <2>1 DEF Links, Across
  <2>2. CASE q.direction # "forward" /\ <<v, u>> \in g.sym
    BY <2>2 DEF Links, Across
  <2>3. CASE q.bridges /\ <<v, u>> \in g.ext
    BY <1>1, <2>3 DEF Links, Across
  <2>4. CASE q.direction # "reverse" /\ q.bridges /\ <<u, v>> \in g.ext
    BY <2>4 DEF Links, Across
  <2> QED  BY <1>3, <2>1, <2>2, <2>3, <2>4 DEF Neighbours
<1>4. ASSUME NEW e \in Links(g, q), v \in Across(q.direction, u, e)
      PROVE  /\ v \in Neighbours(g, q, u)
             /\ e[1] \in {u, v} /\ e[2] \in {u, v} /\ v \in {e[1], e[2]}
  <2>1. \/ q.direction # "reverse" /\ e[1] = u /\ v = e[2]
        \/ q.direction # "forward" /\ e[2] = u /\ v = e[1]
    BY <1>4 DEF Across
  <2>2. e \in g.sym \/ (q.bridges /\ e \in g.ext)
    BY <1>4 DEF Links
  <2>3. e = <<e[1], e[2]>> /\ e[1] \in Symbol
    BY <1>2, <2>2
  <2>4. (e \in g.sym => e[2] \in Symbol) /\ (e \in g.ext => e[2] \in External)
    BY <1>2
  <2> QED  BY <2>1, <2>2, <2>3, <2>4 DEF Neighbours
<1> QED  BY <1>3, <1>4

\* The trails of a search's request over its snapshot.
TrailsOf(k) == Trails(k.adj, k.ask, Starts(k.ask, k.seed))

\* The end of a trail is seen, at most as far away as the trail is long, when
\* the search went that far or has nothing left to expand.
LEMMA TrailsAreSeen ==
    ASSUME NEW k, Sound(k), k.at = "hop"
    PROVE  \A n \in 0 .. k.ask.hops :
              n <= k.hop \/ Frontier(k) = {} =>
                 \A t \in TrailsOf(k)[n] : t.at \in Seen(k) /\ k.dist[t.at] <= n
<1> DEFINE q == k.ask
           T == TrailsOf(k)
           P == {n \in Nat : n <= q.hops /\ (n <= k.hop \/ Frontier(k) = {}) =>
                   \A t \in T[n] : t.at \in Seen(k) /\ k.dist[t.at] <= n}
<1>0. None \notin Nat
  BY WalkConstants DEF WalkConstants
<1>1. /\ q \in Requests /\ q.hops \in Nat /\ k.hop \in Nat /\ k.adj \in Graph
      /\ k.dist \in [Node -> Nat \cup {None}]
  BY WalkConstants DEF WalkConstants, Request, Sound, Walk
<1>2. /\ T[0] = Still(Starts(q, k.seed))
      /\ \A n \in Nat : n + 1 <= q.hops => T[n + 1] = Longer(k.adj, q, T[n])
  <2> DEFINE S == Starts(q, k.seed)
  <2>1. T = Trails(k.adj, q, S)
    BY DEF TrailsOf
  <2> HIDE DEF T, S, q
  <2>2. /\ T[0] = Still(S)
        /\ \A n \in Nat : n + 1 <= q.hops => T[n + 1] = Longer(k.adj, q, T[n])
    BY ONLY <1>1, <2>1, TrailsStep
  <2> QED  BY <2>2 DEF S
<1>3. /\ {v \in Node : k.dist[v] = 0} = Starts(q, k.seed)
      /\ \A v \in Seen(k) : k.dist[v] \in Nat /\ k.dist[v] <= k.hop
      /\ \A u \in Seen(k) : k.dist[u] < k.hop =>
            \A v \in Neighbours(k.adj, q, u) :
               v \in Seen(k) /\ k.dist[v] <= k.dist[u] + 1
  BY <1>1 DEF Sound, Layered, Seen
<1> HIDE DEF T, q
<1>4. 0 \in P
  <2>1. ASSUME NEW t \in T[0] PROVE t.at \in Seen(k) /\ k.dist[t.at] <= 0
    BY <1>0, <1>2, <1>3 DEF Seen, Still
  <2> QED  BY <2>1
<1>5. ASSUME NEW n \in Nat, n \in P PROVE n + 1 \in P
  <2> SUFFICES ASSUME n + 1 <= q.hops, n + 1 <= k.hop \/ Frontier(k) = {},
                      NEW t \in T[n + 1]
               PROVE  t.at \in Seen(k) /\ k.dist[t.at] <= n + 1
    OBVIOUS
  <2>1. n <= q.hops /\ (n <= k.hop \/ Frontier(k) = {})
    BY <1>1
  <2>2. \A p \in T[n] : p.at \in Seen(k) /\ k.dist[p.at] <= n
    BY <1>5, <2>1
  <2>3. t \in Longer(k.adj, q, T[n])
    BY <1>2
  <2>4. PICK p \in T[n], e \in Links(k.adj, q) :
           t.at \in Across(q.direction, p.at, e)
    BY <2>3 DEF Longer
  <2>5. p.at \in Seen(k) /\ k.dist[p.at] <= n /\ p.at \in Node
    BY <2>2 DEF Seen
  <2>6. t.at \in Neighbours(k.adj, q, p.at)
    BY <1>1, <2>4, <2>5, AcrossIsNear
  <2>7. k.dist[p.at] < k.hop
    <3>1. k.dist[p.at] # k.hop \/ p.at \in Frontier(k)
      BY <2>5 DEF Frontier
    <3> QED  BY <1>1, <1>3, <2>5, <3>1
  <2>8. t.at \in Seen(k) /\ k.dist[t.at] <= k.dist[p.at] + 1
    BY <1>3, <2>5, <2>6, <2>7
  <2> QED  BY <1>3, <2>5, <2>8
<1>6. Nat \subseteq P
  <2> HIDE DEF P
  <2> QED  BY <1>4, <1>5, InductiveSet
<1>7. \A n \in 0 .. q.hops : n \in Nat /\ n <= q.hops
  BY <1>1
<1> QED  BY <1>6, <1>7 DEF q, T

\* Whatever was seen ends a trail as long as it is far away: one whose
\* relationships all lie within that distance, so that the next is not among
\* them.
LEMMA SeenEndTrails ==
    ASSUME NEW k, Sound(k), k.at = "hop", k.hop <= k.ask.hops
    PROVE  \A v \in Seen(k) : \E t \in TrailsOf(k)[k.dist[v]] : t.at = v
<1> DEFINE q == k.ask
           T == TrailsOf(k)
           Within(e, n) == /\ e[1] \in Seen(k) /\ k.dist[e[1]] <= n
                           /\ e[2] \in Seen(k) /\ k.dist[e[2]] <= n
           P == {n \in Nat : n <= k.hop =>
                   \A v \in Seen(k) : k.dist[v] = n =>
                      \E t \in T[n] : t.at = v /\ \A e \in t.used : Within(e, n)}
<1>0. None \notin Nat
  BY WalkConstants DEF WalkConstants
<1>1. /\ q \in Requests /\ q.hops \in Nat /\ k.hop \in Nat /\ k.adj \in Graph
      /\ k.dist \in [Node -> Nat \cup {None}] /\ k.hop <= q.hops
  BY WalkConstants DEF WalkConstants, Request, Sound, Walk
<1>2. /\ T[0] = Still(Starts(q, k.seed))
      /\ \A n \in Nat : n + 1 <= q.hops => T[n + 1] = Longer(k.adj, q, T[n])
  <2> DEFINE S == Starts(q, k.seed)
  <2>1. T = Trails(k.adj, q, S)
    BY DEF TrailsOf
  <2> HIDE DEF T, S, q
  <2>2. /\ T[0] = Still(S)
        /\ \A n \in Nat : n + 1 <= q.hops => T[n + 1] = Longer(k.adj, q, T[n])
    BY ONLY <1>1, <2>1, TrailsStep
  <2> QED  BY <2>2 DEF S
<1>3. /\ {v \in Node : k.dist[v] = 0} = Starts(q, k.seed)
      /\ \A v \in Seen(k) : v \in Node /\ k.dist[v] \in Nat /\ k.dist[v] <= k.hop
      /\ \A v \in Seen(k) : k.dist[v] > 0 =>
            \E u \in Seen(k) :
               k.dist[u] + 1 = k.dist[v] /\ v \in Neighbours(k.adj, q, u)
  BY <1>1 DEF Sound, Layered, Seen
<1> HIDE DEF T, q
<1>4. 0 \in P
  <2>1. ASSUME NEW v \in Seen(k), k.dist[v] = 0
        PROVE  \E t \in T[0] : t.at = v /\ \A e \in t.used : Within(e, 0)
    <3>1. v \in Starts(q, k.seed)
      BY <1>3, <2>1
    <3>2. [at |-> v, used |-> {}] \in T[0]
      BY <1>2, <3>1 DEF Still
    <3> QED  BY <3>2
  <2> QED  BY <2>1
<1>5. ASSUME NEW n \in Nat, n \in P PROVE n + 1 \in P
  <2> SUFFICES ASSUME n + 1 <= k.hop, NEW v \in Seen(k), k.dist[v] = n + 1
               PROVE  \E t \in T[n + 1] :
                         t.at = v /\ \A e \in t.used : Within(e, n + 1)
    OBVIOUS
  <2>1. PICK u \in Seen(k) : /\ k.dist[u] + 1 = k.dist[v]
                             /\ v \in Neighbours(k.adj, q, u)
    BY <1>3
  <2>2. k.dist[u] = n /\ n <= k.hop /\ u \in Node
    BY <1>1, <1>3, <2>1
  <2>3. PICK t \in T[n] : t.at = u /\ \A e \in t.used : Within(e, n)
    BY <1>5, <2>2
  <2>4. PICK e \in Links(k.adj, q) : v \in Across(q.direction, u, e)
    BY <1>1, <2>1, <2>2, AcrossIsNear
  <2>5. e[1] \in {u, v} /\ e[2] \in {u, v} /\ v \in {e[1], e[2]}
    BY <1>1, <2>2, <2>4, AcrossIsNear
  <2>6. e \notin t.used
    <3>1. ~Within(e, n)
      BY <1>1, <2>5
    <3> QED  BY <2>3, <3>1
  <2> DEFINE x == <<t, e>>
             r == [at |-> v, used |-> t.used \cup {e}]
  <2>7. r \in T[n + 1]
    <3>1. T[n + 1] = Longer(k.adj, q, T[n])
      BY <1>1, <1>2
    <3>2. x \in T[n] \X Links(k.adj, q) /\ x[1] = t /\ x[2] = e
      OBVIOUS
    <3>3. r \in {[at |-> y, used |-> x[1].used \cup {x[2]}] :
                    y \in Across(q.direction, x[1].at, x[2])}
      BY <2>3, <2>4
    <3> HIDE DEF x, r
    <3> QED  BY <2>6, <3>1, <3>2, <3>3 DEF Longer
  <2>8. \A f \in r.used : Within(f, n + 1)
    <3>1. Within(e, n + 1)
      BY <2>1, <2>2, <2>5
    <3>2. \A f \in t.used : Within(f, n + 1)
      BY <1>3, <2>3
    <3> QED  BY <3>1, <3>2
  <2> QED  BY <2>7, <2>8
<1>6. Nat \subseteq P
  <2> HIDE DEF P
  <2> QED  BY <1>4, <1>5, InductiveSet
<1> QED  BY <1>3, <1>6 DEF T

\* What was found, or is to be found, for one seed.
OfSeed(found, s) == {f \in found : f.seed = s}

\* What a walk is to find: the matches of the query but for the seeds.
Sought(g, q) == {f \in Matched(g, q) : f.uid # f.seed}

\* A search finds exactly the matches of its seed up to the hop it is at, and
\* all of them when it went as far as the request or has nothing to expand.
LEMMA SearchFindsMatches ==
    ASSUME NEW k, Sound(k), k.at = "hop", k.hop <= k.ask.hops,
           k.seed \in k.ask.seeds
    PROVE  /\ FoundBy(k) = {f \in OfSeed(Sought(k.adj, k.ask), k.seed) :
                               f.depth <= k.hop}
           /\ k.hop = k.ask.hops \/ Frontier(k) = {} =>
                 FoundBy(k) = OfSeed(Sought(k.adj, k.ask), k.seed)
<1> DEFINE q == k.ask
           s == k.seed
           T == TrailsOf(k)
           M == OfSeed(Sought(k.adj, q), s)
<1>0. None \notin Nat
  BY WalkConstants DEF WalkConstants
<1>1. /\ q \in Requests /\ q.hops \in Nat /\ k.hop \in Nat /\ k.hop <= q.hops
      /\ k.dist \in [Node -> Nat \cup {None}]
      /\ q.seeds \subseteq Symbol /\ q.anchor \in {"seed", "file_classes"}
      /\ Symbol \subseteq Node
  BY WalkConstants DEF WalkConstants, Request, Sound, Walk, Node
<1>2. /\ {v \in Node : k.dist[v] = 0} = Starts(q, s)
      /\ \A v \in Seen(k) : v \in Node /\ k.dist[v] \in Nat /\ k.dist[v] <= k.hop
  BY <1>1 DEF Sound, Layered, Seen
<1>3. \A n \in Symbol : Elsewhere(q, s, n) =>
         (n # s <=> n \notin Starts(q, s))
  BY <1>1 DEF Elsewhere, Starts
<1>4. \A n \in 0 .. q.hops : n <= k.hop \/ Frontier(k) = {} =>
         \A t \in T[n] : t.at \in Seen(k) /\ k.dist[t.at] <= n
  BY TrailsAreSeen
<1>5. \A v \in Seen(k) : \E t \in T[k.dist[v]] : t.at = v
  BY SeenEndTrails
<1>6. \A f : f \in M <=>
         /\ f \in [seed : q.seeds, uid : Symbol, depth : 1 .. q.hops]
         /\ f.seed = s /\ f.uid # s /\ Elsewhere(q, s, f.uid)
         /\ \E t \in T[f.depth] : t.at = f.uid
         /\ \A i \in 1 .. f.depth - 1 : \A t \in T[i] : t.at # f.uid
  BY DEF OfSeed, Sought, Matched, TrailsOf
<1>7. FoundBy(k) = {[seed |-> s, uid |-> n, depth |-> k.dist[n]] :
                      n \in {n \in Seen(k) \cap Symbol :
                               k.dist[n] > 0 /\ Elsewhere(q, s, n)}}
  BY DEF FoundBy
<1> HIDE DEF q, s, T, M
<1>8. ASSUME NEW f \in M, f.depth <= k.hop \/ Frontier(k) = {}
      PROVE  f \in FoundBy(k) /\ f.depth <= k.hop
  <2> DEFINE n == f.uid
             d == f.depth
  <2>1. /\ f = [seed |-> s, uid |-> n, depth |-> d]
        /\ n \in Symbol /\ n \in Node /\ d \in 1 .. q.hops
        /\ n # s /\ Elsewhere(q, s, n)
    BY <1>1, <1>6
  <2>2. PICK t \in T[d] : t.at = n
    BY <1>6
  <2>3. \A i \in 1 .. d - 1 : \A u \in T[i] : u.at # n
    BY <1>6
  <2> HIDE DEF n, d
  <2>4. d \in 0 .. q.hops /\ d \in Nat
    BY <1>1, <2>1
  <2>5. d <= k.hop \/ Frontier(k) = {}
    BY <1>8 DEF d
  <2>6. n \in Seen(k) /\ k.dist[n] <= d
    BY <1>4, <2>2, <2>4, <2>5
  <2>7. k.dist[n] \in Nat /\ k.dist[n] <= k.hop /\ k.dist[n] # 0
    BY <1>2, <1>3, <2>1, <2>6
  <2>8. PICK u \in T[k.dist[n]] : u.at = n
    BY <1>5, <2>6
  <2>9. k.dist[n] \notin 1 .. d - 1
    BY <2>3, <2>8
  <2>10. k.dist[n] = d
    BY <2>4, <2>6, <2>7, <2>9
  <2> QED  BY <1>7, <2>1, <2>6, <2>7, <2>10 DEF d
<1>9. ASSUME NEW f \in FoundBy(k)
      PROVE  f \in M /\ f.depth <= k.hop
  <2>1. PICK n \in Seen(k) \cap Symbol :
           /\ k.dist[n] > 0 /\ Elsewhere(q, s, n)
           /\ f = [seed |-> s, uid |-> n, depth |-> k.dist[n]]
    BY <1>7
  <2> DEFINE d == k.dist[n]
  <2>2. d \in Nat /\ d <= k.hop /\ d \in 1 .. q.hops /\ n \in Node
    BY <1>1, <1>2, <2>1
  <2>3. f.seed = s /\ f.uid = n /\ f.depth = d
    BY <2>1
  <2>4. \E t \in T[d] : t.at = n
    BY <1>5, <2>1
  <2>5. ASSUME NEW i \in 1 .. d - 1, NEW t \in T[i]
        PROVE  t.at # n
    <3>1. i \in 0 .. q.hops /\ i <= k.hop /\ i < d
      BY <1>1, <2>2
    <3>2. k.dist[t.at] <= i
      BY <1>4, <3>1
    <3> QED  BY <2>2, <3>1, <3>2
  <2>6. n # s
    BY <1>2, <1>3, <2>1, <2>2
  <2>7. f \in [seed : q.seeds, uid : Symbol, depth : 1 .. q.hops]
    <3>1. s \in q.seeds
      BY DEF q, s
    <3> QED  BY <2>1, <2>2, <3>1
  <2> HIDE DEF d
  <2> QED  BY <1>6, <2>1, <2>2, <2>3, <2>4, <2>5, <2>6, <2>7
<1>10. \A f \in M : f.depth \in 1 .. q.hops
  BY <1>6
<1>11. FoundBy(k) = {f \in M : f.depth <= k.hop}
  BY <1>8, <1>9
<1>12. ASSUME k.hop = q.hops \/ Frontier(k) = {}
       PROVE  FoundBy(k) = M
  BY <1>1, <1>8, <1>9, <1>10, <1>12
<1> QED  BY <1>11, <1>12 DEF q, s, M

-----------------------------------------------------------------------------
(* Ranks *)

\* The rows of a group.
Rows(s, found) == {[seed |-> s, uid |-> f.uid, depth |-> f.depth, reach |-> 1] :
                     f \in found}

\* A query matches a symbol at one depth only.
LEMMA OneDepth ==
    ASSUME NEW g, NEW q \in Requests, NEW s,
           NEW e \in OfSeed(Sought(g, q), s), NEW f \in OfSeed(Sought(g, q), s),
           e.uid = f.uid
    PROVE  e = f
<1> DEFINE T == Trails(g, q, Starts(q, s))
<1>0. q.hops \in Nat
  BY WalkConstants DEF WalkConstants, Request
<1>1. \A x \in OfSeed(Sought(g, q), s) :
         /\ x = [seed |-> s, uid |-> x.uid, depth |-> x.depth]
         /\ x.depth \in 1 .. q.hops
         /\ \E t \in T[x.depth] : t.at = x.uid
         /\ \A i \in 1 .. x.depth - 1 : \A t \in T[i] : t.at # x.uid
  BY DEF OfSeed, Sought, Matched
<1> HIDE DEF T
<1>2. e.depth \notin 1 .. f.depth - 1
  BY <1>1
<1>3. f.depth \notin 1 .. e.depth - 1
  BY <1>1
<1>4. e.depth = f.depth
  BY <1>0, <1>1, <1>2, <1>3
<1> QED  BY <1>1, <1>4

\* A group has as many rows as symbols.
LEMMA RowsPerSymbol ==
    ASSUME NEW s, NEW F, \A e, f \in F : e.uid = f.uid => e = f,
           \A f \in F : f.uid \in Symbol
    PROVE  /\ IsFiniteSet(Rows(s, F))
           /\ Cardinality(Rows(s, F)) = Cardinality({f.uid : f \in F})
<1> DEFINE U == {f.uid : f \in F}
           R == Rows(s, F)
           h == [n \in U |-> CHOOSE r \in R : r.uid = n]
<1>1. IsFiniteSet(U)
  <2>1. U \in SUBSET Symbol
    OBVIOUS
  <2> QED  BY <2>1, FS_Subset, WalkConstants DEF WalkConstants
<1>2. ASSUME NEW n \in U PROVE \E r \in R : r.uid = n
  <2>1. PICK f \in F : f.uid = n
    OBVIOUS
  <2>2. [seed |-> s, uid |-> f.uid, depth |-> f.depth, reach |-> 1] \in R
    BY DEF Rows
  <2> QED  BY <2>1, <2>2
<1>3. \A r \in R : r.uid \in U
  BY DEF Rows
<1>4. \A r, x \in R : r.uid = x.uid => r = x
  BY DEF Rows
<1> HIDE DEF U, R
<1>5. \A n \in U : h[n] \in R /\ h[n].uid = n
  BY <1>2
<1>6. h \in [U -> R]
  BY <1>5
<1>7. \A r \in R : h[r.uid] = r
  BY <1>3, <1>4, <1>5
<1> HIDE DEF h
<1>8. h \in Bijection(U, R)
  BY <1>3, <1>5, <1>6, <1>7 DEF Bijection, Injection, Surjection, IsInjective
<1>9. ExistsBijection(U, R)
  BY <1>8 DEF ExistsBijection
<1> QED  BY <1>1, <1>9, FS_Bijection DEF U, R

\* A limit that the rows up to some depth fill cuts off all others.
LEMMA CutKeepsFirst ==
    ASSUME NEW R, IsFiniteSet(R), \A a \in R : a.depth \in Nat,
           NEW h \in Nat, NEW limit \in Nat,
           limit <= Cardinality({a \in R : a.depth <= h})
    PROVE  First(limit, {a \in R : a.depth <= h}) = First(limit, R)
<1> DEFINE S == {a \in R : a.depth <= h}
           before(a, X) == {b \in X : Ahead(b, a)}
<1>1. ASSUME NEW a \in S
      PROVE  before(a, S) = before(a, R)
  <2>1. ASSUME NEW b \in R, Ahead(b, a) PROVE b.depth <= h
    BY <2>1 DEF Ahead
  <2> QED  BY <2>1
<1>2. ASSUME NEW a \in R, a \notin S
      PROVE  ~(Cardinality(before(a, R)) < limit)
  <2>1. S \subseteq before(a, R)
    BY <1>2 DEF Ahead
  <2>2. before(a, R) \in SUBSET R /\ S \in SUBSET before(a, R)
    BY <2>1
  <2> HIDE DEF S, before
  <2>3. IsFiniteSet(before(a, R))
    BY <2>2, FS_Subset
  <2>4. Cardinality(S) <= Cardinality(before(a, R)) /\ Cardinality(S) \in Nat
        /\ Cardinality(before(a, R)) \in Nat
    <3>1. IsFiniteSet(S) /\ Cardinality(S) <= Cardinality(before(a, R))
      BY <2>2, <2>3, FS_Subset
    <3> QED  BY <2>3, <3>1, FS_CardinalityType
  <2>5. limit <= Cardinality(S)
    BY DEF S
  <2> QED  BY <2>4, <2>5
<1>3. First(limit, S) = {a \in S : Cardinality(before(a, S)) < limit}
  BY DEF First
<1>4. First(limit, R) = {a \in R : Cardinality(before(a, R)) < limit}
  BY DEF First
<1>5. S \subseteq R
  OBVIOUS
<1> HIDE DEF S, before
<1>6. First(limit, S) = First(limit, R)
  BY <1>1, <1>2, <1>3, <1>4, <1>5
<1> QED  BY <1>6 DEF S

\* What a search leaves for its seed: all its matches or, in a grouped walk,
\* those up to a depth by which the limit is reached.
Answered(g, q, s, found) ==
    LET F == OfSeed(found, s)
        M == OfSeed(Sought(g, q), s)
    IN \/ F = M
       \/ /\ q.grouped
          /\ \E h \in Nat : F = {f \in M : f.depth <= h}
          /\ q.limit <= Cardinality({f.uid : f \in F})

\* The first of such a group are the first of all matches.
LEMMA GroupIsRanked ==
    ASSUME NEW g, NEW q \in Requests, NEW s, NEW found, Answered(g, q, s, found)
    PROVE  First(q.limit, Rows(s, OfSeed(found, s)))
              = First(q.limit, Rows(s, OfSeed(Sought(g, q), s)))
<1> DEFINE F == OfSeed(found, s)
           M == OfSeed(Sought(g, q), s)
<1>0. q.limit \in Nat /\ q.hops \in Nat
  BY WalkConstants DEF WalkConstants, Request
<1>1. \A f \in M : f.uid \in Symbol /\ f.depth \in Nat
  BY <1>0 DEF OfSeed, Sought, Matched
<1>2. \A e, f \in M : e.uid = f.uid => e = f
  BY OneDepth
<1>3. \/ F = M
      \/ /\ \E h \in Nat : F = {f \in M : f.depth <= h}
         /\ q.limit <= Cardinality({f.uid : f \in F})
  BY DEF Answered
<1> HIDE DEF F, M
<1>4. ASSUME NEW h \in Nat, F = {f \in M : f.depth <= h},
             q.limit <= Cardinality({f.uid : f \in F})
      PROVE  First(q.limit, Rows(s, F)) = First(q.limit, Rows(s, M))
  <2> DEFINE R == Rows(s, M)
             C == {a \in R : a.depth <= h}
  <2>1. \A a \in R : a.depth \in Nat
    BY <1>1 DEF Rows
  <2>2. IsFiniteSet(R)
    BY <1>1, <1>2, RowsPerSymbol
  <2>3. Rows(s, F) = C
    BY <1>4 DEF Rows
  <2>4. Cardinality(Rows(s, F)) = Cardinality({f.uid : f \in F})
    <3>1. \A f \in F : f.uid \in Symbol
      BY <1>1, <1>4
    <3>2. \A e, f \in F : e.uid = f.uid => e = f
      BY <1>2, <1>4
    <3> QED  BY <3>1, <3>2, RowsPerSymbol
  <2> HIDE DEF R
  <2>5. First(q.limit, C) = First(q.limit, R)
    <3>1. q.limit <= Cardinality(C)
      BY <1>4, <2>3, <2>4
    <3> QED  BY <1>0, <2>1, <2>2, <3>1, CutKeepsFirst
  <2> QED  BY <2>3, <2>5 DEF R
<1>5. First(q.limit, Rows(s, F)) = First(q.limit, Rows(s, M))
  BY <1>3, <1>4
<1> QED  BY <1>5 DEF F, M

\* When every seed was answered, the ranks are those of the query.
LEMMA AnsweredIsRanked ==
    ASSUME NEW g, NEW q \in Requests, NEW found,
           \A f \in found : f.seed \in q.seeds,
           \A s \in q.seeds : Answered(g, q, s, found)
    PROVE  Ranked(q, found) = Ranked(q, Sought(g, q))
<1>1. CASE q.grouped
  <2>1. \A A : Ranked(q, A) =
           UNION {First(q.limit, Rows(s, OfSeed(A, s))) : s \in q.seeds}
    BY <1>1 DEF Ranked, Rows, OfSeed
  <2>2. \A s \in q.seeds :
           First(q.limit, Rows(s, OfSeed(found, s)))
              = First(q.limit, Rows(s, OfSeed(Sought(g, q), s)))
    BY GroupIsRanked
  <2> QED  BY <2>1, <2>2
<1>2. CASE ~q.grouped
  <2>1. \A s \in q.seeds : OfSeed(found, s) = OfSeed(Sought(g, q), s)
    BY <1>2 DEF Answered
  <2>2. \A f \in Sought(g, q) : f.seed \in q.seeds
    BY DEF Sought, Matched
  <2>3. found = Sought(g, q)
    <3>1. ASSUME NEW f \in found PROVE f \in Sought(g, q)
      BY <2>1 DEF OfSeed
    <3>2. ASSUME NEW f \in Sought(g, q) PROVE f \in found
      BY <2>1, <2>2 DEF OfSeed
    <3> QED  BY <3>1, <3>2
  <2> QED  BY <2>3
<1> QED  BY <1>1, <1>2

-----------------------------------------------------------------------------
(* A walk answers like the query *)

\* The seeds a walk is through with.
Processed(k) == k.ask.seeds \ (k.todo \cup {k.seed})

\* Seed by seed a walk over a snapshot finds what the query would.
Faithful(k) ==
    k.at \in {"load", "external", "store", "walk", "hop"} =>
       /\ k.at = "hop" <=> k.seed # None
       /\ k.at = "hop" => k.seed \in k.ask.seeds \ k.todo /\ k.hop <= k.ask.hops
       /\ k.at \notin {"walk", "hop"} => k.todo = k.ask.seeds
       /\ k.todo \subseteq k.ask.seeds
       /\ \A f \in k.found : f.seed \in Processed(k)
       /\ \A s \in Processed(k) : Answered(k.adj, k.ask, s, k.found)

AllFaithful == \A w \in Walker : Faithful(walk[w])

\* A search that is over has answered its seed.
LEMMA SearchAnswers ==
    ASSUME NEW k, Sound(k), k.at = "hop", Faithful(k), Over(k),
           NEW found, OfSeed(found, k.seed) = FoundBy(k)
    PROVE  Answered(k.adj, k.ask, k.seed, found)
<1> DEFINE M == OfSeed(Sought(k.adj, k.ask), k.seed)
           F == FoundBy(k)
<1>1. k.seed \in k.ask.seeds /\ k.hop <= k.ask.hops /\ k.hop \in Nat
  BY DEF Faithful, Sound, Walk
<1>2. /\ F = {f \in M : f.depth <= k.hop}
      /\ k.hop = k.ask.hops \/ Frontier(k) = {} => F = M
  BY <1>1, SearchFindsMatches
<1>3. CASE k.hop = k.ask.hops \/ Frontier(k) = {}
  BY <1>2, <1>3 DEF Answered
<1>4. CASE /\ k.ask.grouped
           /\ Cardinality({u \in Seen(k) \cap Symbol : k.dist[u] > 0})
                 >= k.ask.limit
  <2> DEFINE N == {u \in Seen(k) \cap Symbol : k.dist[u] > 0}
  <2>1. \A n \in N : Elsewhere(k.ask, k.seed, n)
    <3>1. k.ask.anchor = "seed"
      BY <1>4, WalkConstants DEF WalkConstants, Sound
    <3> QED  BY <3>1 DEF Elsewhere
  <2>2. {f.uid : f \in F} = N
    <3>1. F = {[seed |-> k.seed, uid |-> n, depth |-> k.dist[n]] : n \in N}
      BY <2>1 DEF FoundBy
    <3> HIDE DEF F, N
    <3>2. ASSUME NEW n \in N PROVE n \in {f.uid : f \in F}
      <4>1. [seed |-> k.seed, uid |-> n, depth |-> k.dist[n]] \in F
        BY <3>1
      <4> QED  BY <4>1
    <3>3. \A f \in F : f.uid \in N
      BY <3>1
    <3> QED  BY <3>2, <3>3
  <2>3. k.ask.limit <= Cardinality({f.uid : f \in F})
    <3>1. k.ask.limit \in Nat
      BY WalkConstants DEF WalkConstants, Request, Sound
    <3>2. IsFiniteSet(N)
      <4>1. N \in SUBSET Symbol
        OBVIOUS
      <4> QED  BY <4>1, FS_Subset, WalkConstants DEF WalkConstants
    <3>3. Cardinality(N) \in Nat
      BY <3>2, FS_CardinalityType
    <3>4. Cardinality(N) >= k.ask.limit
      BY <1>4
    <3> HIDE DEF N, F
    <3> QED  BY <2>2, <3>1, <3>3, <3>4
  <2> HIDE DEF F, M
  <2>4. OfSeed(found, k.seed) = F /\ M = OfSeed(Sought(k.adj, k.ask), k.seed)
    BY DEF F, M
  <2> QED  BY <1>1, <1>2, <1>4, <2>3, <2>4 DEF Answered
<1> QED  BY <1>3, <1>4 DEF Over

\* Whoever begins to load has all seeds before it.
LEMMA NothingFound ==
    ASSUME NEW k, k.at \notin {"walk", "hop"}, k.seed = None,
           k.todo = k.ask.seeds, k.found = {}
    PROVE  Faithful(k)
  BY DEF Faithful, Processed

\* A load changes neither the request nor what was answered.
LEMMA LoadsStayFaithful ==
    ASSUME IInv, NEW w \in Walker, Faithful(walk[w]),
           LoadCached(w) \/ LoadSymbols(w) \/ LoadExternal(w) \/ LoadFails(w)
              \/ StoreAdjacency(w)
    PROVE  Faithful(walk'[w])
<1> DEFINE k == walk[w]
           n == walk'[w]
<1>1. k \in Walk /\ walk \in [Walker -> Walk]
  BY DEF IInv, TypeOK
<1>2. /\ k.at \in {"load", "external", "store"}
      /\ n.at \in {"external", "store", "walk"}
      /\ n.ask = k.ask /\ n.todo = k.todo /\ n.seed = k.seed
      /\ n.found = k.found
  <2>1. CASE LoadCached(w)
    BY <1>1, <2>1 DEF LoadCached, Walk
  <2>2. CASE LoadSymbols(w)
    BY <1>1, <2>2 DEF LoadSymbols, Walk
  <2>3. CASE LoadExternal(w)
    BY <1>1, <2>3 DEF LoadExternal, Walk
  <2>4. CASE LoadFails(w)
    BY <1>1, <2>4 DEF LoadFails, Walk
  <2>5. CASE StoreAdjacency(w)
    BY <1>1, <2>5 DEF StoreAdjacency, Walk
  <2> QED  BY <2>1, <2>2, <2>3, <2>4, <2>5
<1> HIDE DEF k, n
<1>3. Faithful(k)
  BY DEF k
<1>4. k.todo = k.ask.seeds /\ k.seed = None /\ Processed(k) = {}
  BY <1>2, <1>3 DEF Faithful, Processed
<1>5. Processed(n) = {} /\ k.found = {}
  BY <1>2, <1>3, <1>4 DEF Faithful, Processed
<1>6. Faithful(n)
  BY <1>2, <1>4, <1>5 DEF Faithful
<1> QED  BY <1>6 DEF n

\* A search collects what the query would match, and no more.
LEMMA SearchStaysFaithful ==
    ASSUME IInv, NEW w \in Walker, Faithful(walk[w]),
           (\E s \in Symbol : StartSeed(w, s)) \/ Hop(w) \/ MergeSeed(w)
    PROVE  Faithful(walk'[w])
<1> DEFINE k == walk[w]
           n == walk'[w]
<1>0. None \notin Symbol
  BY WalkConstants DEF WalkConstants
<1>1. walk \in [Walker -> Walk] /\ k \in Walk /\ Sound(k)
  BY EveryWalkerIsSound DEF IInv, TypeOK
<1>2. Faithful(k)
  OBVIOUS
<1>3. ASSUME NEW s \in Symbol, StartSeed(w, s)
      PROVE  Faithful(n)
  <2>1. k.at = "walk" /\ s \in k.todo /\ n = Begun(k, s)
    BY <1>1, <1>3 DEF StartSeed
  <2>2. /\ n.at = "hop" /\ n.ask = k.ask /\ n.adj = k.adj /\ n.seed = s
        /\ n.todo = k.todo \ {s} /\ n.hop = 0 /\ n.found = k.found
    BY <1>1, <2>1 DEF Begun, Walk
  <2>3. k.ask \in Requests
    BY <1>1, <2>1 DEF Sound
  <2>4. k.ask.hops \in Nat
    BY <2>3, WalkConstants DEF WalkConstants, Request
  <2> HIDE DEF k, n
  <2>5. k.todo \subseteq k.ask.seeds /\ k.seed = None
        /\ (\A f \in k.found : f.seed \in Processed(k))
        /\ \A x \in Processed(k) : Answered(k.adj, k.ask, x, k.found)
    BY <1>2, <2>1 DEF Faithful
  <2>6. k.ask.seeds \subseteq Symbol
    BY <2>3, WalkConstants DEF WalkConstants, Request
  <2>7. Processed(n) = Processed(k)
    BY <1>0, <2>1, <2>2, <2>5, <2>6 DEF Processed
  <2> QED  BY <1>0, <2>1, <2>2, <2>4, <2>5, <2>7 DEF Faithful
<1>4. ASSUME Hop(w) PROVE Faithful(n)
  <2>1. k.at = "hop" /\ ~Over(k) /\ n = Advanced(k)
    BY <1>1, <1>4 DEF Hop
  <2>2. /\ n.at = "hop" /\ n.ask = k.ask /\ n.adj = k.adj /\ n.seed = k.seed
        /\ n.todo = k.todo /\ n.hop = k.hop + 1 /\ n.found = k.found
    BY <1>1, <2>1 DEF Advanced, Walk
  <2>3. k.hop # k.ask.hops /\ k.hop \in Nat /\ k.ask \in Requests
    BY <1>1, <2>1 DEF Over, Walk, Sound
  <2>4. k.ask.hops \in Nat
    BY <2>3, WalkConstants DEF WalkConstants, Request
  <2> HIDE DEF k, n
  <2>5. Processed(n) = Processed(k)
    BY <2>2 DEF Processed
  <2>6. k.hop <= k.ask.hops
    BY <1>2, <2>1 DEF Faithful
  <2>7. n.hop <= n.ask.hops
    BY <2>2, <2>3, <2>4, <2>6
  <2> QED  BY <1>2, <2>1, <2>2, <2>5, <2>7 DEF Faithful
<1>5. ASSUME MergeSeed(w) PROVE Faithful(n)
  <2> DEFINE F == FoundBy(k)
  <2>1. k.at = "hop" /\ Over(k)
    BY <1>5 DEF MergeSeed
  <2>2. /\ n.at = "walk" /\ n.ask = k.ask /\ n.adj = k.adj /\ n.seed = None
        /\ n.todo = k.todo /\ n.found = k.found \cup F
    BY <1>1, <1>5 DEF MergeSeed, Walk
  <2>3. \A f \in F : f.seed = k.seed
    BY DEF FoundBy
  <2>4. k.ask.seeds \subseteq Symbol
    BY <1>1, <2>1, WalkConstants DEF WalkConstants, Request, Sound
  <2> HIDE DEF k, n, F
  <2>5. /\ k.seed \in k.ask.seeds \ k.todo /\ k.todo \subseteq k.ask.seeds
        /\ \A f \in k.found : f.seed \in Processed(k)
        /\ \A s \in Processed(k) : Answered(k.adj, k.ask, s, k.found)
    BY <1>2, <2>1 DEF Faithful
  <2>6. Processed(n) = Processed(k) \cup {k.seed} /\ k.seed \notin Processed(k)
    BY <1>0, <2>2, <2>4, <2>5 DEF Processed
  <2>7. \A s \in Processed(k) : OfSeed(n.found, s) = OfSeed(k.found, s)
    BY <2>2, <2>3, <2>6 DEF OfSeed
  <2>8. OfSeed(n.found, k.seed) = F
    BY <2>2, <2>3, <2>5, <2>6 DEF OfSeed
  <2>9. Answered(k.adj, k.ask, k.seed, n.found)
    BY <1>1, <1>2, <2>1, <2>8, SearchAnswers DEF F
  <2>10. \A s \in Processed(k) : Answered(k.adj, k.ask, s, n.found)
    BY <2>5, <2>7 DEF Answered
  <2>11. \A s \in Processed(n) : Answered(n.adj, n.ask, s, n.found)
    BY <2>2, <2>6, <2>9, <2>10
  <2>12. \A f \in n.found : f.seed \in Processed(n)
    BY <2>2, <2>3, <2>5, <2>6
  <2> QED  BY <2>2, <2>5, <2>11, <2>12 DEF Faithful
<1> QED  BY <1>3, <1>4, <1>5 DEF n

\* Answers hold what the searches found, or what the query said.
LEMMA AnswersStayFaithful ==
    ASSUME IInv, NEW w \in Walker,
           (\E q \in Requests : Ask(w, q)) \/ Rank(w) \/ Fails(w)
              \/ AskGraph(w) \/ GraphFails(w)
    PROVE  Faithful(walk'[w])
<1>1. walk \in [Walker -> Walk]
  BY DEF IInv, TypeOK
<1>2. \A q, A : /\ Done(q, A).at = "done" /\ AskAgain(q).at = "cypher"
                /\ Unanswered(q).at = "failed"
  BY DEF Done, AskAgain, Unanswered, Idle
<1>3. ASSUME NEW n, walk' = [walk EXCEPT ![w] = n],
             n.at \in {"done", "cypher", "failed"}
      PROVE  Faithful(walk'[w])
  <2>1. walk'[w] = n
    BY <1>1, <1>3
  <2>2. Faithful(n)
    BY <1>3 DEF Faithful
  <2> QED  BY <2>1, <2>2
<1>4. ASSUME NEW q \in Requests, Ask(w, q)
      PROVE  Faithful(walk'[w])
  <2>1. PICK at \in {"load", "cypher"} :
          walk' = [walk EXCEPT ![w] = [Idle EXCEPT !.at = at, !.ask = q,
                                                  !.todo = q.seeds]]
    BY <1>4 DEF Ask
  <2> DEFINE n == [Idle EXCEPT !.at = at, !.ask = q, !.todo = q.seeds]
  <2>2. /\ n.at = at /\ n.seed = None /\ n.todo = n.ask.seeds /\ n.found = {}
    BY DEF Idle
  <2> HIDE DEF n
  <2>3. walk'[w] = n
    BY <1>1, <2>1 DEF n
  <2>4. Faithful(n)
    BY <2>1, <2>2, NothingFound
  <2> QED  BY <2>3, <2>4
<1>5. CASE Rank(w)
  <2>1. \E n : walk' = [walk EXCEPT ![w] = n] /\ n.at \in {"done", "cypher", "failed"}
    BY <1>2, <1>5 DEF Rank
  <2> QED  BY <1>3, <2>1
<1>6. CASE Fails(w) \/ AskGraph(w) \/ GraphFails(w)
  <2>1. \E n : walk' = [walk EXCEPT ![w] = n] /\ n.at \in {"done", "cypher", "failed"}
    BY <1>2, <1>6 DEF Fails, AskGraph, GraphFails
  <2> QED  BY <1>3, <2>1
<1> QED  BY <1>4, <1>5, <1>6

\* No step of any walker, batch or restart makes a walk unfaithful.
LEMMA FaithfulNext == IInv /\ AllFaithful /\ [Next]_vars => AllFaithful'
<1> SUFFICES ASSUME IInv, AllFaithful, [Next]_vars, NEW w \in Walker
             PROVE  Faithful(walk'[w])
  BY DEF AllFaithful, Faithful, Processed, Answered, OfSeed, Sought
<1>1. Faithful(walk[w]) /\ walk \in [Walker -> Walk]
  BY DEF AllFaithful, IInv, TypeOK
<1>2. CASE walk'[w] = walk[w]
  BY <1>1, <1>2
<1>3. ASSUME NEW v \in Walker,
             \/ \E q \in Requests : Ask(v, q)
             \/ LoadCached(v) \/ LoadSymbols(v) \/ LoadExternal(v)
             \/ LoadFails(v) \/ StoreAdjacency(v)
             \/ \E s \in Symbol : StartSeed(v, s)
             \/ Hop(v) \/ MergeSeed(v) \/ Rank(v) \/ Fails(v)
             \/ AskGraph(v) \/ GraphFails(v)
      PROVE  Faithful(walk'[w])
  <2>1. CASE v = w
    BY <1>1, <1>3, <2>1, LoadsStayFaithful, SearchStaysFaithful,
       AnswersStayFaithful
  <2>2. CASE v # w
    <3>1. \E n : walk' = [walk EXCEPT ![v] = n]
      BY <1>3 DEF Ask, LoadCached, LoadSymbols, LoadExternal, LoadFails,
                  StoreAdjacency, StartSeed, Hop, MergeSeed, Rank, Fails,
                  AskGraph, GraphFails
    <3>2. walk'[w] = walk[w]
      BY <1>1, <2>2, <3>1
    <3> QED  BY <1>2, <3>2
  <2> QED  BY <2>1, <2>2
<1>4. CASE (\E g \in Graphs : Relink(g)) \/ ReplaceRows \/ ReplaceExternal
               \/ InvalidateAdjacency \/ BatchFails \/ UNCHANGED vars
  BY <1>2, <1>4 DEF Relink, ReplaceRows, ReplaceExternal,
                    InvalidateAdjacency, BatchFails, vars
<1>5. CASE Restart
  BY <1>5 DEF Restart, Idle, Faithful
<1> QED  BY <1>3, <1>4, <1>5 DEF Next

\* "It is a faithful drop-in": for any graph, request and number of walkers a
\* walk over the snapshot ranks what the query would rank on it, depth, reach,
\* order and limit included, but for the seeds.
THEOREM WalkAnswersLikeTheQuery == Spec => []AnswersLikeTheQuery
<1>1. Init => AllFaithful
  BY DEF Init, AllFaithful, Faithful, Idle
<1>2. IInv /\ AllFaithful => AnswersLikeTheQuery
  <2> SUFFICES ASSUME IInv, AllFaithful, NEW w \in Walker,
                      walk[w].at = "walk", walk[w].todo = {}
               PROVE  Ranked(walk[w].ask, walk[w].found)
                         = Ranked(walk[w].ask, Sought(walk[w].adj, walk[w].ask))
    BY DEF AnswersLikeTheQuery, Sought
  <2> DEFINE k == walk[w]
  <2>1. k.ask \in Requests
    BY DEF IInv, TypeOK
  <2>2. k.seed = None /\ (\A f \in k.found : f.seed \in Processed(k))
        /\ \A s \in Processed(k) : Answered(k.adj, k.ask, s, k.found)
    BY DEF AllFaithful, Faithful
  <2>3. Processed(k) = k.ask.seeds
    BY <2>1, <2>2, WalkConstants DEF WalkConstants, Request, Processed
  <2> HIDE DEF k
  <2>4. Ranked(k.ask, k.found) = Ranked(k.ask, Sought(k.adj, k.ask))
    BY <2>1, <2>2, <2>3, AnsweredIsRanked
  <2> QED  BY <2>4 DEF k
<1> QED  BY WalkInvariant, FaithfulNext, <1>1, <1>2, PTL DEF Spec
=============================================================================
