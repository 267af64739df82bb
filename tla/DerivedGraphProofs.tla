------------------------- MODULE DerivedGraphProofs -------------------------
(***************************************************************************)
(* Proofs about DerivedGraph, for any workspace, any partition into files  *)
(* and any limit on the size of a subset.                                  *)
(*                                                                         *)
(* The argument: an edge that relinking takes away has, at both ends, a    *)
(* symbol that was refreshed, or removed, or a neighbour of one before the *)
(* batch (LEMMA OthersKeepTheirEdges).  So whoever is not among the seeds  *)
(* keeps its edges, and its degree and row stay right.                     *)
(***************************************************************************)
EXTENDS DerivedGraph, FiniteSetTheorems, WellFoundedInduction, TLAPS

\* Between batches there are no seeds; a symbol of the graph has a row, or
\* will be given one by the batch.
Pending ==
    /\ batch.at = "rest" => batch.seeds = {}
    /\ \A s \in Live : rows[s] # Absent \/ s \in batch.seeds

IInv == TypeOK /\ Pending /\ DegreesNeverOvercount /\ RowsListRealCalls

-----------------------------------------------------------------------------
\* A row holds symbols; so its sides are finite and a degree is a number.
LEMMA RowType ==
    ASSUME NEW s, NEW E
    PROVE  /\ Row(s, E) \in [out : SUBSET Symbol, in : SUBSET Symbol]
           /\ IsFiniteSet(Row(s, E).out) /\ IsFiniteSet(Row(s, E).in)
           /\ DegreeOf(s, E) \in [out : Nat, in : Nat]
<1>1. Row(s, E) \in [out : SUBSET Symbol, in : SUBSET Symbol]
  BY DEF Row
<1>2. IsFiniteSet(Row(s, E).out) /\ IsFiniteSet(Row(s, E).in)
  BY <1>1, FS_Subset, DerivedConstants DEF DerivedConstants
<1>3. /\ Cardinality(Row(s, E).out) \in Nat
      /\ Cardinality(Row(s, E).in) \in Nat
  BY <1>2, FS_CardinalityType
<1> QED  BY <1>1, <1>2, <1>3 DEF DegreeOf

\* More edges, no smaller degree.
LEMMA DegreeGrows ==
    ASSUME NEW s, NEW D, NEW E,
           Row(s, D).out \subseteq Row(s, E).out,
           Row(s, D).in \subseteq Row(s, E).in
    PROVE  /\ DegreeOf(s, D).out <= DegreeOf(s, E).out
           /\ DegreeOf(s, D).in <= DegreeOf(s, E).in
<1>1. /\ IsFiniteSet(Row(s, E).out)
      /\ IsFiniteSet(Row(s, E).in)
  BY RowType
<1>2. /\ Cardinality(Row(s, D).out) <= Cardinality(Row(s, E).out)
      /\ Cardinality(Row(s, D).in) <= Cardinality(Row(s, E).in)
  BY <1>1, FS_Subset
<1> QED  BY <1>2 DEF DegreeOf

\* The nodes after the files P are indexed: those link_calls resolves against.
LEMMA NodesAfterIndexing ==
    ASSUME TypeOK, NEW P \in SUBSET Path, IndexFiles(P)
    PROVE  /\ Live' = Indexed(P)
           /\ DeclaredIn(P) \subseteq Live'
           /\ RemovedIn(P) \cap Live' = {}
<1> USE DerivedConstants DEF DerivedConstants
<1>1. ASSUME NEW s \in Symbol
      PROVE  stored'[s] = IF FileOf[s] \in P THEN text[s] ELSE stored[s]
  BY DEF IndexFiles
<1>2. ASSUME NEW s \in Symbol
      PROVE  /\ s \in DeclaredIn(P) <=> FileOf[s] \in P /\ text[s] # Absent
             /\ s \in ChangedIn(P) <=> /\ FileOf[s] \in P /\ text[s] # Absent
                                       /\ stored[s] # text[s]
             /\ s \in RemovedIn(P) <=> /\ FileOf[s] \in P /\ text[s] = Absent
                                       /\ stored[s] # Absent
  BY DEF DeclaredIn, ChangedIn, RemovedIn, Declared, Changed, Removed, In
<1>3. /\ DeclaredIn(P) \subseteq Symbol /\ ChangedIn(P) \subseteq Symbol
      /\ RemovedIn(P) \subseteq Symbol
  BY DEF DeclaredIn, ChangedIn, RemovedIn, Declared, Changed, Removed, In
<1> QED  BY <1>1, <1>2, <1>3 DEF Live, Indexed

\* Who is not a seed was in the graph before and keeps every edge it had.
LEMMA OthersKeepTheirEdges ==
    ASSUME TypeOK, NEW P \in SUBSET Path, IndexFiles(P),
           NEW s \in Live', s \notin Seeds(P)
    PROVE  /\ s \in Live
           /\ Row(s, calls).out \subseteq Row(s, calls').out
           /\ Row(s, calls).in \subseteq Row(s, calls').in
<1>1. s \in Indexed(P) /\ s \notin RemovedIn(P)
  BY NodesAfterIndexing
<1>2. s \notin Closure(RefreshedIn(P) \cup RemovedIn(P), calls)
  BY <1>1 DEF Seeds
<1>3. ChangedIn(P) \subseteq RefreshedIn(P)
  BY DEF ChangedIn, RefreshedIn, Refreshed
<1>4. s \in Live
  BY <1>1, <1>2, <1>3 DEF Indexed, Closure
<1>5. s \notin RefreshedIn(P)
  BY <1>2 DEF Closure
<1>6. ASSUME NEW t \in Symbol, <<s, t>> \in calls
      PROVE  <<s, t>> \in calls'
  <2>1. t \notin RemovedIn(P)
    BY <1>2, <1>4, <1>6 DEF Closure, Neighbours, Live
  <2> QED  BY <1>1, <1>5, <1>6, <2>1 DEF IndexFiles, Relink
<1>7. ASSUME NEW t \in Symbol, <<t, s>> \in calls
      PROVE  <<t, s>> \in calls'
  <2>1. t \notin RemovedIn(P) /\ t \notin RefreshedIn(P)
    BY <1>2, <1>4, <1>7 DEF Closure, Neighbours, Live
  <2> QED  BY <1>1, <1>7, <2>1 DEF IndexFiles, Relink
<1> QED  BY <1>4, <1>6, <1>7 DEF Row

-----------------------------------------------------------------------------
\* Indexing files, one of a batch or all of a project run.
LEMMA IndexingKeepsIInv ==
    ASSUME IInv, NEW P \in SUBSET Path, batch.at = "files", IndexFiles(P)
    PROVE  IInv'
<1> USE DerivedConstants DEF DerivedConstants
<1>0. TypeOK /\ Pending /\ DegreesNeverOvercount /\ RowsListRealCalls
  BY DEF IInv
<1>1. /\ Live' = Indexed(P)
      /\ DeclaredIn(P) \subseteq Live'
      /\ RemovedIn(P) \cap Live' = {}
  BY <1>0, NodesAfterIndexing
<1>2. Seeds(P) \subseteq Symbol /\ ChangedIn(P) \subseteq Symbol
  BY DEF Seeds, Closure, Neighbours, RefreshedIn, Refreshed, RemovedIn,
         Removed, ChangedIn, Changed, Declared, In
<1>3. /\ batch' = [batch EXCEPT !.todo = @ \ P, !.seeds = @ \cup Seeds(P),
                                !.changed = @ \cup ChangedIn(P)]
      /\ UNCHANGED <<text, edits, rows, bereaved>>
  BY DEF IndexFiles
<1>4. /\ batch' \in Batch /\ batch'.at = "files"
      /\ batch'.seeds = batch.seeds \cup Seeds(P)
  BY <1>0, <1>2, <1>3 DEF TypeOK, Batch
<1>5. /\ calls' \in SUBSET (Live' \X Live')
      /\ affects' \in SUBSET (Live' \X Live')
  <2>1. ASSUME NEW e \in Live \X Live, {e[1], e[2]} \cap RemovedIn(P) = {}
        PROVE  e \in Live' \X Live'
    BY <1>1, <2>1 DEF Indexed
  <2>2. ASSUME NEW e \in Pair, e[1] \in DeclaredIn(P),
               e[2] \in Resolve(P, e[1])
        PROVE  e \in Live' \X Live'
    BY <1>1, <2>2 DEF Resolve, Callees, Pair
  <2>3. calls' = Relink(P)
    BY DEF IndexFiles
  <2>4. affects' = {e \in affects : {e[1], e[2]} \cap RemovedIn(P) = {}}
    BY DEF IndexFiles
  <2> QED  BY <1>0, <2>1, <2>2, <2>3, <2>4 DEF Relink, TypeOK
<1>6. ASSUME NEW s \in Symbol
      PROVE  /\ degree'[s] \in [out : Nat, in : Nat]
             /\ s \in Live' => degree'[s] = IF s \in Closure(Seeds(P), calls')
                                          THEN DegreeOf(s, calls') ELSE degree[s]
  <2>1. degree'[s] = IF s \in RemovedIn(P) THEN NoDegree
                     ELSE IF s \in Closure(Seeds(P), calls')
                          THEN DegreeOf(s, calls') ELSE degree[s]
    BY DEF IndexFiles, RecomputeDegree
  <2>2. DegreeOf(s, calls') \in [out : Nat, in : Nat]
    BY RowType
  <2> QED  BY <1>0, <1>1, <2>1, <2>2 DEF NoDegree, TypeOK
<1>7. degree' \in [Symbol -> [out : Nat, in : Nat]]
  <2>1. degree' = [s \in Symbol |-> degree'[s]]
    BY DEF IndexFiles
  <2> QED  BY <1>6, <2>1
<1>8. stored' \in [Symbol -> Bodies \cup {Absent}]
  BY <1>0 DEF IndexFiles, TypeOK
<1>9. TypeOK'
  BY <1>0, <1>3, <1>4, <1>5, <1>7, <1>8 DEF TypeOK
<1>10. ASSUME NEW s \in Live', s \notin Seeds(P)
       PROVE  /\ s \in Live
              /\ Row(s, calls).out \subseteq Row(s, calls').out
              /\ Row(s, calls).in \subseteq Row(s, calls').in
  BY <1>0, <1>10, OthersKeepTheirEdges
<1>11. Pending'
  BY <1>0, <1>3, <1>4, <1>10 DEF Pending
<1>12. RowsListRealCalls'
  <2> SUFFICES ASSUME NEW s \in Live', s \notin bereaved, s \notin batch'.seeds,
                      rows[s] # Absent
               PROVE  /\ rows[s].out \subseteq Row(s, calls').out
                      /\ rows[s].in \subseteq Row(s, calls').in
    BY <1>3 DEF RowsListRealCalls
  <2>1. s \notin Seeds(P) /\ s \notin batch.seeds
    BY <1>4
  <2> QED  BY <1>0, <1>10, <2>1 DEF RowsListRealCalls
<1>13. DegreesNeverOvercount'
  <2> SUFFICES ASSUME NEW s \in Live', s \notin bereaved
               PROVE  /\ degree'[s].out <= DegreeOf(s, calls').out
                      /\ degree'[s].in <= DegreeOf(s, calls').in
    BY <1>3 DEF DegreesNeverOvercount
  <2>0. s \in Symbol
    BY DEF Live
  <2>1. DegreeOf(s, calls') \in [out : Nat, in : Nat]
    BY RowType
  <2>2. CASE s \in Closure(Seeds(P), calls')
    BY <1>6, <2>0, <2>1, <2>2
  <2>3. CASE s \notin Closure(Seeds(P), calls')
    <3>1. s \notin Seeds(P)
      BY <2>3 DEF Closure
    <3>2. degree'[s] = degree[s]
      BY <1>6, <2>0, <2>3
    <3>3. /\ degree[s].out <= DegreeOf(s, calls).out
          /\ degree[s].in <= DegreeOf(s, calls).in
      BY <1>0, <1>10, <3>1 DEF DegreesNeverOvercount
    <3>4. /\ DegreeOf(s, calls).out <= DegreeOf(s, calls').out
          /\ DegreeOf(s, calls).in <= DegreeOf(s, calls').in
      BY <1>10, <3>1, DegreeGrows
    <3>5. /\ DegreeOf(s, calls) \in [out : Nat, in : Nat]
          /\ degree[s] \in [out : Nat, in : Nat]
      BY <1>0, <2>0, RowType DEF TypeOK
    <3> QED  BY <2>1, <3>2, <3>3, <3>4, <3>5
  <2> QED  BY <2>2, <2>3
<1> QED  BY <1>9, <1>11, <1>12, <1>13 DEF IInv

\* A tombstone: whoever loses an edge is bereaved.
LEMMA TombstoneKeepsIInv ==
    ASSUME IInv, NEW p \in Path, Tombstone(p)
    PROVE  IInv'
<1> USE DerivedConstants DEF DerivedConstants
<1> DEFINE gone == {s \in In(p) : stored[s] # Absent}
<1>0. /\ TypeOK /\ Pending /\ DegreesNeverOvercount /\ RowsListRealCalls
      /\ gone \subseteq Symbol /\ batch.at = "rest" /\ batch' = batch
      /\ UNCHANGED <<text, edits, rows>>
      /\ stored' = [s \in Symbol |-> IF s \in gone THEN Absent ELSE stored[s]]
      /\ calls' = {e \in calls : {e[1], e[2]} \cap gone = {}}
      /\ affects' = {e \in affects : {e[1], e[2]} \cap gone = {}}
      /\ degree' = [s \in Symbol |-> IF s \in gone THEN NoDegree ELSE degree[s]]
      /\ bereaved' = bereaved \cup (Neighbours(gone, calls) \ gone)
  BY DEF IInv, Tombstone, In
<1> HIDE DEF gone
<1>1. Live' = Live \ gone
  BY <1>0 DEF Live
<1>2. TypeOK'
  <2>1. degree' \in [Symbol -> [out : Nat, in : Nat]]
    BY <1>0 DEF TypeOK, NoDegree
  <2>2. stored' \in [Symbol -> Bodies \cup {Absent}]
    BY <1>0 DEF TypeOK
  <2>3. bereaved' \in SUBSET Symbol
    BY <1>0 DEF TypeOK, Neighbours
  <2>4. /\ calls' \in SUBSET (Live' \X Live')
        /\ affects' \in SUBSET (Live' \X Live')
    BY <1>0, <1>1 DEF TypeOK
  <2> QED  BY <1>0, <2>1, <2>2, <2>3, <2>4 DEF TypeOK
<1>3. Pending'
  BY <1>0, <1>1 DEF Pending
<1>4. ASSUME NEW s \in Live', s \notin bereaved'
      PROVE  /\ s \in Live /\ s \notin bereaved /\ s \notin gone
             /\ Row(s, calls).out \subseteq Row(s, calls').out
             /\ Row(s, calls).in \subseteq Row(s, calls').in
  <2>1. s \in Live /\ s \notin gone /\ s \notin bereaved
    BY <1>0, <1>1, <1>4
  <2>2. s \notin Neighbours(gone, calls)
    BY <1>0, <1>4, <2>1
  <2>3. ASSUME NEW t \in Symbol, <<s, t>> \in calls
        PROVE  <<s, t>> \in calls'
    <3>1. t \notin gone
      BY <2>1, <2>2, <2>3 DEF Neighbours, Live
    <3> QED  BY <1>0, <2>1, <2>3, <3>1
  <2>4. ASSUME NEW t \in Symbol, <<t, s>> \in calls
        PROVE  <<t, s>> \in calls'
    <3>1. t \notin gone
      BY <2>1, <2>2, <2>4 DEF Neighbours, Live
    <3> QED  BY <1>0, <2>1, <2>4, <3>1
  <2> QED  BY <2>1, <2>3, <2>4 DEF Row
<1>5. RowsListRealCalls'
  BY <1>0, <1>4 DEF RowsListRealCalls
<1>6. DegreesNeverOvercount'
  <2> SUFFICES ASSUME NEW s \in Live', s \notin bereaved'
               PROVE  /\ degree'[s].out <= DegreeOf(s, calls').out
                      /\ degree'[s].in <= DegreeOf(s, calls').in
    BY DEF DegreesNeverOvercount
  <2>1. /\ s \in Live /\ s \in Symbol /\ s \notin bereaved
        /\ degree'[s] = degree[s]
    BY <1>0, <1>4 DEF Live
  <2>2. /\ degree[s].out <= DegreeOf(s, calls).out
        /\ degree[s].in <= DegreeOf(s, calls).in
    BY <1>0, <2>1 DEF DegreesNeverOvercount
  <2>3. /\ DegreeOf(s, calls).out <= DegreeOf(s, calls').out
        /\ DegreeOf(s, calls).in <= DegreeOf(s, calls').in
    BY <1>4, DegreeGrows
  <2>4. /\ DegreeOf(s, calls) \in [out : Nat, in : Nat]
        /\ DegreeOf(s, calls') \in [out : Nat, in : Nat]
        /\ degree[s] \in [out : Nat, in : Nat]
    BY <1>0, <2>1, RowType DEF TypeOK
  <2> QED  BY <2>1, <2>2, <2>3, <2>4
<1> QED  BY <1>2, <1>3, <1>5, <1>6 DEF IInv

\* The rows written, all of them or those around the seeds, list calls of the
\* graph, and every seed still in the graph gets one.
LEMMA WrittenRows ==
    ASSUME IInv, NEW seeds \in SUBSET Symbol, batch.seeds \subseteq seeds,
           NEW new \in {AllRows, SubsetRows(seeds)}
    PROVE  /\ new \in [Symbol -> [out : SUBSET Symbol, in : SUBSET Symbol]
                                  \cup {Absent}]
           /\ \A s \in Live : new[s] # Absent
           /\ \A s \in Live \ bereaved :
                 new[s] # Absent => /\ new[s].out \subseteq Row(s, calls).out
                                    /\ new[s].in \subseteq Row(s, calls).in
<1> DEFINE Type == [out : SUBSET Symbol, in : SUBSET Symbol]
           fetched == {e \in calls : {e[1], e[2]} \cap seeds # {}}
           closure == Closure(seeds, calls \cup affects)
<1>0. TypeOK /\ Pending /\ RowsListRealCalls /\ Live \subseteq Symbol
  BY DEF IInv, Live
<1>1. ASSUME NEW s, NEW E PROVE Row(s, E) \in Type
  BY RowType
<1>2. ASSUME NEW s, NEW E PROVE Row(s, E) # Absent
  BY <1>1, DerivedConstants DEF DerivedConstants
<1>3. CASE new = AllRows
  BY <1>0, <1>1, <1>2, <1>3 DEF AllRows
<1>4. CASE new = SubsetRows(seeds)
  <2>1. new = [s \in Symbol |-> IF s \in closure \cap Live
                                THEN Row(s, fetched) ELSE rows[s]]
    BY <1>4 DEF SubsetRows
  <2>2. new \in [Symbol -> Type \cup {Absent}]
    BY <1>0, <1>1, <2>1 DEF TypeOK
  <2>3. ASSUME NEW s \in Live PROVE new[s] # Absent
    <3>1. CASE s \in closure
      BY <1>0, <1>2, <2>1, <3>1
    <3>2. CASE s \notin closure
      <4>1. s \notin batch.seeds
        BY <3>2 DEF Closure
      <4> QED  BY <1>0, <2>1, <3>2, <4>1 DEF Pending
    <3> QED  BY <3>1, <3>2
  <2>4. ASSUME NEW s \in Live, s \notin bereaved
        PROVE  /\ new[s].out \subseteq Row(s, calls).out
               /\ new[s].in \subseteq Row(s, calls).in
    <3>1. CASE s \in closure
      <4>1. new[s] = Row(s, fetched)
        BY <1>0, <2>1, <3>1
      <4> QED  BY <4>1 DEF Row
    <3>2. CASE s \notin closure
      <4>1. s \notin batch.seeds /\ new[s] = rows[s]
        BY <1>0, <2>1, <3>2 DEF Closure
      <4> QED  BY <1>0, <2>3, <2>4, <4>1 DEF RowsListRealCalls
    <3> QED  BY <3>1, <3>2
  <2> QED  BY <2>2, <2>3, <2>4
<1> QED  BY <1>3, <1>4

\* The rows of the seeds, or all rows, are written from the graph as it is.
LEMMA MaterializingKeepsIInv ==
    ASSUME IInv, MaterializeAdjacency
    PROVE  IInv'
<1> DEFINE seeds == batch.seeds \cup batch.changed
<1>0. /\ TypeOK /\ Pending /\ DegreesNeverOvercount
      /\ batch' = Rest /\ UNCHANGED <<text, edits, graphVars, bereaved>>
      /\ rows' = IF ReplacesAll(seeds) THEN AllRows ELSE SubsetRows(seeds)
  BY DEF IInv, MaterializeAdjacency
<1>1. /\ Live' = Live /\ stored' = stored /\ calls' = calls
      /\ affects' = affects /\ degree' = degree
  BY <1>0 DEF Live, graphVars
<1>2. seeds \in SUBSET Symbol
  BY <1>0 DEF TypeOK, Batch
<1>3. rows' \in {AllRows, SubsetRows(seeds)}
  BY <1>0
<1>4. /\ rows' \in [Symbol -> [out : SUBSET Symbol, in : SUBSET Symbol]
                              \cup {Absent}]
      /\ \A s \in Live : rows'[s] # Absent
      /\ \A s \in Live \ bereaved :
            rows'[s] # Absent => /\ rows'[s].out \subseteq Row(s, calls).out
                                 /\ rows'[s].in \subseteq Row(s, calls).in
  BY <1>2, <1>3, WrittenRows
<1>5. batch' \in Batch /\ batch'.seeds = {}
  BY <1>0 DEF Rest, Batch
<1>6. TypeOK'
  BY <1>0, <1>1, <1>4, <1>5 DEF TypeOK
<1>7. Pending' /\ RowsListRealCalls'
  BY <1>0, <1>1, <1>4, <1>5 DEF Pending, RowsListRealCalls
<1>8. DegreesNeverOvercount'
  BY <1>0, <1>1 DEF DegreesNeverOvercount
<1> QED  BY <1>6, <1>7, <1>8 DEF IInv

\* rebuild_affects: the AFFECTS edges of the batch are computed anew.
LEMMA RebuildingKeepsIInv ==
    ASSUME IInv, RebuildAffects
    PROVE  IInv'
<1>0. /\ TypeOK /\ Pending /\ DegreesNeverOvercount /\ RowsListRealCalls
      /\ batch.at = "files" /\ batch' = [batch EXCEPT !.at = "adjacency"]
      /\ UNCHANGED <<text, edits, stored, calls, degree, rows, bereaved>>
  BY DEF IInv, RebuildAffects
<1>1. Live' = Live
  BY <1>0 DEF Live
<1>2. affects' \in SUBSET (Live \X Live)
  BY <1>0 DEF RebuildAffects, TypeOK
<1>3. /\ batch' \in Batch /\ batch'.seeds = batch.seeds
      /\ batch'.at = "adjacency"
  BY <1>0 DEF TypeOK, Batch
<1>4. TypeOK'
  BY <1>0, <1>1, <1>2, <1>3 DEF TypeOK
<1>5. Pending' /\ DegreesNeverOvercount' /\ RowsListRealCalls'
  BY <1>0, <1>1, <1>3 DEF Pending, DegreesNeverOvercount, RowsListRealCalls
<1> QED  BY <1>4, <1>5 DEF IInv

\* Steps that leave the graph and the rows alone.
LEMMA OtherStepsKeepIInv ==
    ASSUME IInv, UNCHANGED <<graphVars, rows, bereaved>>, TypeOK',
           batch'.seeds = batch.seeds, batch'.at = "rest" => batch.at = "rest"
    PROVE  IInv'
<1>1. Live' = Live /\ calls' = calls /\ degree' = degree
  BY DEF Live, graphVars
<1> QED  BY <1>1 DEF IInv, Pending, DegreesNeverOvercount, RowsListRealCalls

\* Before the first run there is no graph and no row.
LEMMA IInvInit == Init => IInv
<1> SUFFICES ASSUME Init PROVE IInv
  OBVIOUS
<1> USE DerivedConstants DEF DerivedConstants
<1>1. Live = {}
  BY DEF Init, Live
<1>2. TypeOK
  <2>1. Rest \in Batch
    BY DEF Rest, Batch
  <2> QED  BY <1>1, <2>1 DEF Init, TypeOK, NoDegree
<1> QED  BY <1>1, <1>2 DEF Init, IInv, Pending, DegreesNeverOvercount,
                           RowsListRealCalls, Rest

\* Every step keeps the invariant.
LEMMA IInvStep == IInv /\ [Next]_vars => IInv'
<1> SUFFICES ASSUME IInv, [Next]_vars PROVE IInv'
  OBVIOUS
<1> USE DerivedConstants DEF DerivedConstants
<1>0. TypeOK /\ Pending
  BY DEF IInv
<1>1. ASSUME NEW s \in Symbol, NEW body \in Bodies \cup {Absent}, Edit(s, body)
      PROVE  IInv'
  <2>1. TypeOK'
    BY <1>0, <1>1 DEF TypeOK, Edit, graphVars, Live
  <2> QED  BY <1>1, <2>1, OtherStepsKeepIInv DEF Edit
<1>2. ASSUME NEW group \in SUBSET Path, NEW project \in BOOLEAN,
             BatchBegins(group, project)
      PROVE  IInv'
  <2>1. batch' \in Batch /\ batch'.seeds = {} /\ batch'.at = "files"
    BY <1>2 DEF BatchBegins, Rest, Batch
  <2>2. batch.seeds = {}
    BY <1>0, <1>2 DEF BatchBegins, Pending
  <2>3. TypeOK'
    BY <1>0, <1>2, <2>1 DEF TypeOK, BatchBegins, graphVars, Live
  <2> QED  BY <1>2, <2>1, <2>2, <2>3, OtherStepsKeepIInv DEF BatchBegins
<1>3. ASSUME NEW p \in Path, IndexFile(p) PROVE IInv'
  BY <1>3, IndexingKeepsIInv DEF IndexFile
<1>4. ASSUME NEW p \in Path, Tombstone(p) PROVE IInv'
  BY <1>4, TombstoneKeepsIInv
<1>5. CASE ApplyGraph
  <2>1. batch.todo \in SUBSET Path
    BY <1>0 DEF TypeOK, Batch
  <2> QED  BY <1>5, <2>1, IndexingKeepsIInv DEF ApplyGraph
<1>6. CASE RebuildAffects
  BY <1>6, RebuildingKeepsIInv
<1>7. CASE MaterializeAdjacency
  BY <1>7, MaterializingKeepsIInv
<1>8. CASE UNCHANGED vars
  <2>1. TypeOK'
    BY <1>0, <1>8 DEF TypeOK, vars, Live
  <2> QED  BY <1>8, <2>1, OtherStepsKeepIInv DEF vars, graphVars
<1> QED  BY <1>1, <1>2, <1>3, <1>4, <1>5, <1>6, <1>7, <1>8 DEF Next

\* The invariant of every behaviour.
THEOREM DerivedInvariant == Spec => []IInv
<1> QED  BY IInvInit, IInvStep, PTL DEF Spec

\* Types, and edges join nodes of the graph.
THEOREM DerivedTypes == Spec => []TypeOK
<1>1. IInv => TypeOK
  BY DEF IInv
<1> QED  BY DerivedInvariant, <1>1, PTL

\* No degree is too high, in any workspace (recompute_degree_for_closure).
THEOREM DerivedDegreesNeverOvercount == Spec => []DegreesNeverOvercount
<1>1. IInv => DegreesNeverOvercount
  BY DEF IInv
<1> QED  BY DerivedInvariant, <1>1, PTL

\* No adjacency row lists a call that is gone (the subset materialization).
THEOREM DerivedRowsListRealCalls == Spec => []RowsListRealCalls
<1>1. IInv => RowsListRealCalls
  BY DEF IInv
<1> QED  BY DerivedInvariant, <1>1, PTL

\* Between batches every symbol of the graph has a row.
THEOREM DerivedSymbolsHaveRows == Spec => []EverySymbolHasARow
<1>1. IInv => EverySymbolHasARow
  BY DEF IInv, Pending, EverySymbolHasARow
<1> QED  BY DerivedInvariant, <1>1, PTL
-----------------------------------------------------------------------------
(* A project run links every call it can resolve *)

\* A project run has changed nothing before it links, and the calls of what
\* it changed are linked ever after.
ProjectLinks ==
    batch.project /\ batch.at # "rest" =>
       /\ batch.at = "files" /\ batch.todo # {} => batch.changed = {}
       /\ \A s \in batch.changed :
             {t \in Symbol : <<s, t>> \in calls} = Callees(stored[s], Live, s)

\* The one step that links: the nodes of all the files are there, and the old
\* edges of what changed are not.
LEMMA ApplyGraphLinks ==
    ASSUME TypeOK, ProjectLinks, ApplyGraph
    PROVE  ProjectLinks'
<1> USE DerivedConstants DEF DerivedConstants
<1> DEFINE P == batch.todo
<1>1. P \in SUBSET Path /\ IndexFiles(P)
  BY DEF ApplyGraph, TypeOK, Batch
<1>2. /\ Live' = Indexed(P) /\ calls' = Relink(P)
      /\ \A s \in Symbol :
            stored'[s] = IF FileOf[s] \in P THEN text[s] ELSE stored[s]
  BY <1>1, NodesAfterIndexing DEF IndexFiles
<1>3. batch'.changed = ChangedIn(P) /\ batch'.todo = {}
  <2>1. batch.changed = {} /\ batch \in Batch
    BY DEF ProjectLinks, ApplyGraph, TypeOK
  <2>2. batch' = [batch EXCEPT !.todo = @ \ P,
                               !.seeds = @ \cup Seeds(P),
                               !.changed = @ \cup ChangedIn(P)]
    BY <1>1 DEF IndexFiles
  <2> HIDE DEF P
  <2>3. batch'.changed = batch.changed \cup ChangedIn(P)
        /\ batch'.todo = batch.todo \ P
    BY <2>1, <2>2 DEF Batch
  <2> QED  BY <2>1, <2>3 DEF P
<1> HIDE DEF P
<1>4. ASSUME NEW s \in ChangedIn(P)
      PROVE  {t \in Symbol : <<s, t>> \in calls'} = Callees(stored'[s], Live', s)
  <2>1. /\ s \in Symbol /\ s \in RefreshedIn(P) /\ s \in DeclaredIn(P)
        /\ FileOf[s] \in P
    BY DEF ChangedIn, RefreshedIn, DeclaredIn, Refreshed, Changed, Declared,
           In
  <2>2. stored'[s] = text[s]
    BY <1>2, <2>1
  <2>3. \A t \in Symbol : <<s, t>> \in calls' <=> t \in Resolve(P, s)
    BY <1>2, <2>1 DEF Relink, Pair
  <2>4. Resolve(P, s) = Callees(stored'[s], Live', s)
    BY <1>2, <2>2 DEF Resolve
  <2>5. Callees(stored'[s], Live', s) \subseteq Symbol
    BY DEF Callees, Live
  <2> QED  BY <2>3, <2>4, <2>5
<1>5. \A s \in batch'.changed :
         {t \in Symbol : <<s, t>> \in calls'} = Callees(stored[s], Live, s)'
  BY <1>3, <1>4 DEF Callees
<1> QED  BY <1>3, <1>5 DEF ProjectLinks

\* Only linking and indexing touch the calls a project run answers for.
LEMMA ProjectLinksStep == IInv /\ ProjectLinks /\ [Next]_vars => ProjectLinks'
<1> SUFFICES ASSUME IInv, ProjectLinks, [Next]_vars PROVE ProjectLinks'
  OBVIOUS
<1>0. TypeOK /\ batch \in Batch
  BY DEF IInv, TypeOK
<1>1. ASSUME stored' = stored, calls' = calls, batch' = batch
      PROVE  ProjectLinks'
  BY <1>1 DEF ProjectLinks, Callees, Live
<1>2. CASE UNCHANGED vars \/ \E s \in Symbol, body \in Bodies \cup {Absent} :
                                Edit(s, body)
  BY <1>1, <1>2 DEF vars, Edit, graphVars
<1>3. ASSUME NEW group \in SUBSET Path, NEW project \in BOOLEAN,
             BatchBegins(group, project)
      PROVE  ProjectLinks'
  <2>1. batch'.changed = {}
    BY <1>3 DEF BatchBegins, Rest
  <2> QED  BY <2>1 DEF ProjectLinks
<1>4. ASSUME NEW p \in Path, IndexFile(p) PROVE ProjectLinks'
  <2>1. batch'.project = batch.project
    BY <1>0, <1>4 DEF IndexFile, IndexFiles, Batch
  <2> QED  BY <1>4, <2>1 DEF IndexFile, ProjectLinks
<1>5. ASSUME NEW p \in Path, Tombstone(p) PROVE ProjectLinks'
  BY <1>5 DEF Tombstone, ProjectLinks
<1>6. CASE ApplyGraph
  BY <1>0, <1>6, ApplyGraphLinks
<1>7. CASE RebuildAffects
  <2>1. /\ batch'.project = batch.project /\ batch'.changed = batch.changed
        /\ batch'.at = "adjacency" /\ batch.at = "files"
        /\ stored' = stored /\ calls' = calls
    BY <1>0, <1>7 DEF RebuildAffects, Batch
  <2> QED  BY <2>1 DEF ProjectLinks, Callees, Live
<1>8. CASE MaterializeAdjacency
  BY <1>8 DEF MaterializeAdjacency, Rest, ProjectLinks
<1> QED  BY <1>2, <1>3, <1>4, <1>5, <1>6, <1>7, <1>8 DEF Next

\* A project run leaves no call of a changed symbol unlinked that resolves in
\* the graph it wrote, and links no other: the nodes of every file are there
\* before any call is linked (_apply_graph).
THEOREM DerivedProjectCallsAreLinked == Spec => []ProjectCallsAreLinked
<1>1. Init => ProjectLinks
  BY DEF Init, ProjectLinks, Rest
<1>2. ProjectLinks => ProjectCallsAreLinked
  BY DEF ProjectLinks, ProjectCallsAreLinked
<1> QED  BY DerivedInvariant, ProjectLinksStep, <1>1, <1>2, PTL DEF Spec
-----------------------------------------------------------------------------
(* AFFECTS: the breadth-first search finds the dependents *)

\* Induction over the naturals, of a set: it needs no operator for the
\* induction hypothesis.
LEMMA InductiveSet ==
    ASSUME NEW P, 0 \in P, \A n \in Nat : n \in P => n + 1 \in P
    PROVE  Nat \subseteq P
<1>1. SUFFICES ASSUME Nat \ P # {} PROVE FALSE
  OBVIOUS
<1>2. PICK n \in Nat \ P : \A m \in Nat \ P : ~(<<m, n>> \in OpToRel(<, Nat))
  BY <1>1, NatLessThanWellFounded, WFMin, Zenon
<1>3. \A m \in Nat \ P : ~(m < n)
  BY <1>2, Zenon DEF OpToRel
<1>4. n # 0 /\ n - 1 \in Nat /\ n - 1 < n /\ (n - 1) + 1 = n
  OBVIOUS
<1>5. n - 1 \in P
  BY <1>3, <1>4
<1> QED  BY <1>4, <1>5

\* The symbols that end a chain of n calls down to s.
Chain(s, n, w) ==
    /\ w \in [0 .. n -> Symbol] /\ w[0] = s
    /\ \A i \in 1 .. n : <<w[i], w[i - 1]>> \in calls
Callers(s, n) == {t \in Symbol : \E w : Chain(s, n, w) /\ w[n] = t}

\* A chain of n + 1 calls is a call to the end of a chain of n.
LEMMA CallersStep ==
    ASSUME NEW s \in Symbol, NEW n \in Nat
    PROVE  /\ Callers(s, 0) = {s}
           /\ Callers(s, n + 1) =
                 {t \in Symbol : \E u \in Callers(s, n) : <<t, u>> \in calls}
<1>1. Callers(s, 0) = {s}
  <2> DEFINE w == [i \in 0 .. 0 |-> s]
  <2>1. Chain(s, 0, w) /\ w[0] = s
    BY DEF Chain
  <2> QED  BY <2>1 DEF Callers, Chain
<1>2. ASSUME NEW t \in Callers(s, n + 1)
      PROVE  \E u \in Callers(s, n) : <<t, u>> \in calls
  <2>1. PICK w : Chain(s, n + 1, w) /\ w[n + 1] = t
    BY DEF Callers
  <2> DEFINE v == [i \in 0 .. n |-> w[i]]
  <2>2. Chain(s, n, v)
    BY <2>1 DEF Chain
  <2>3. <<w[n + 1], w[(n + 1) - 1]>> \in calls
    BY <2>1 DEF Chain
  <2>4. v[n] = w[n] /\ w[n] \in Symbol /\ (n + 1) - 1 = n
    BY <2>1 DEF Chain
  <2> QED  BY <2>1, <2>2, <2>3, <2>4 DEF Callers
<1>3. ASSUME NEW t \in Symbol, NEW u \in Callers(s, n), <<t, u>> \in calls
      PROVE  t \in Callers(s, n + 1)
  <2>1. PICK w : Chain(s, n, w) /\ w[n] = u
    BY DEF Callers
  <2> DEFINE v == [i \in 0 .. n + 1 |-> IF i = n + 1 THEN t ELSE w[i]]
  <2>2. v \in [0 .. n + 1 -> Symbol] /\ v[0] = s /\ v[n + 1] = t
    BY <2>1 DEF Chain
  <2>3. ASSUME NEW i \in 1 .. n + 1 PROVE <<v[i], v[i - 1]>> \in calls
    <3>1. CASE i = n + 1
      <4>1. v[i] = t /\ v[i - 1] = w[n]
        BY <3>1
      <4> QED  BY <1>3, <2>1, <4>1
    <3>2. CASE i # n + 1
      <4>1. i \in 1 .. n /\ v[i] = w[i] /\ v[i - 1] = w[i - 1]
        BY <3>2
      <4> QED  BY <2>1, <4>1 DEF Chain
    <3> QED  BY <3>1, <3>2
  <2>4. Chain(s, n + 1, v)
    BY <2>2, <2>3 DEF Chain
  <2> QED  BY <2>2, <2>4 DEF Callers
<1>4. Callers(s, n + 1) \subseteq Symbol
  BY DEF Callers
<1> QED  BY <1>1, <1>2, <1>3, <1>4

\* DependsWithin in terms of chains.
LEMMA WithinIsCallers ==
    ASSUME NEW s \in Symbol, NEW n \in Nat
    PROVE  DependsWithin(s, n) =
              {t \in Symbol \ {s} : \E k \in 1 .. n : t \in Callers(s, k)}
BY DEF DependsWithin, Callers, Chain

\* The symbols found by level n: those within n calls; at it: those no nearer.
Newest(s, n) == IF n = 0 THEN {s}
                ELSE DependsWithin(s, n) \ DependsWithin(s, n - 1)

\* One level of the search reaches exactly what is one call further.
LEMMA LevelStep ==
    ASSUME NEW s \in Symbol, NEW n \in Nat
    PROVE  LET next == {t \in Symbol :
                          /\ \E u \in Newest(s, n) : <<t, u>> \in calls
                          /\ t \notin DependsWithin(s, n) \cup {s}}
           IN  /\ DependsWithin(s, n + 1) = DependsWithin(s, n) \cup next
               /\ Newest(s, n + 1) = next
<1> DEFINE next == {t \in Symbol :
                      /\ \E u \in Newest(s, n) : <<t, u>> \in calls
                      /\ t \notin DependsWithin(s, n) \cup {s}}
           W(k) == Callers(s, k)
<1>1. \A k \in Nat : DependsWithin(s, k) =
                        {t \in Symbol \ {s} : \E j \in 1 .. k : t \in W(j)}
  BY WithinIsCallers
<1>2. /\ W(0) = {s}
      /\ \A k \in Nat : W(k + 1) =
            {t \in Symbol : \E u \in W(k) : <<t, u>> \in calls}
  BY CallersStep
<1> HIDE DEF W
<1>3. DependsWithin(s, n) \subseteq DependsWithin(s, n + 1)
  BY <1>1
<1>4. ASSUME NEW t \in next PROVE t \in DependsWithin(s, n + 1)
  <2>1. PICK u \in Newest(s, n) : <<t, u>> \in calls
    OBVIOUS
  <2>2. \E j \in 0 .. n : u \in W(j)
    <3>1. CASE n = 0
      BY <1>2, <2>1, <3>1 DEF Newest
    <3>2. CASE n # 0
      <4>1. u \in DependsWithin(s, n)
        BY <2>1, <3>2 DEF Newest
      <4>2. \E j \in 1 .. n : u \in W(j)
        BY <1>1, <4>1
      <4> QED  BY <4>2
    <3> QED  BY <3>1, <3>2
  <2>3. PICK j \in 0 .. n : u \in W(j)
    BY <2>2
  <2>4. t \in W(j + 1) /\ j + 1 \in 1 .. n + 1 /\ t \in Symbol \ {s}
    BY <1>2, <2>1, <2>3
  <2> QED  BY <1>1, <2>4
<1>5. ASSUME NEW t \in DependsWithin(s, n + 1), t \notin DependsWithin(s, n)
      PROVE  t \in next
  <2>1. t \in Symbol \ {s} /\ \E j \in 1 .. n + 1 : t \in W(j)
    BY <1>1
  <2>2. t \in W(n + 1)
    <3>1. PICK j \in 1 .. n + 1 : t \in W(j)
      BY <2>1
    <3>2. j \notin 1 .. n
      BY <1>1, <1>5, <2>1, <3>1
    <3>3. j = n + 1
      BY <3>2
    <3> QED  BY <3>1, <3>3
  <2>3. PICK u \in W(n) : <<t, u>> \in calls
    BY <1>2, <2>2
  <2>4. u \in Newest(s, n)
    <3>1. CASE n = 0
      BY <1>2, <2>3, <3>1 DEF Newest
    <3>2. CASE n # 0
      <4>1. n - 1 \in Nat /\ n \in 1 .. n /\ 1 \in 1 .. n
        BY <3>2
      <4>2. u \in Symbol
        BY <2>3 DEF W, Callers
      <4>3. u # s
        <5>1. u = s => t \in W(0 + 1)
          BY <1>2, <2>1, <2>3
        <5> QED  BY <1>1, <1>5, <2>1, <4>1, <5>1
      <4>4. u \in DependsWithin(s, n)
        BY <1>1, <2>3, <4>1, <4>2, <4>3
      <4>5. u \notin DependsWithin(s, n - 1)
        <5> SUFFICES ASSUME u \in DependsWithin(s, n - 1) PROVE FALSE
          OBVIOUS
        <5>1. PICK j \in 1 .. n - 1 : u \in W(j)
          BY <1>1, <4>1
        <5>2. t \in W(j + 1) /\ j + 1 \in 1 .. n
          BY <1>2, <2>1, <2>3, <4>1, <5>1
        <5> QED  BY <1>1, <1>5, <2>1, <5>2
      <4> QED  BY <3>2, <4>4, <4>5 DEF Newest
    <3> QED  BY <3>1, <3>2
  <2> QED  BY <1>5, <2>1, <2>3, <2>4
<1>6. next \cap DependsWithin(s, n) = {}
  OBVIOUS
<1> HIDE DEF next
<1>7. DependsWithin(s, n + 1) = DependsWithin(s, n) \cup next
  BY <1>3, <1>4, <1>5
<1>8. Newest(s, n + 1) = next
  <2>1. Newest(s, n + 1) = DependsWithin(s, n + 1) \ DependsWithin(s, n)
    BY DEF Newest
  <2> QED  BY <1>6, <1>7, <2>1
<1> QED  BY <1>7, <1>8 DEF next

\* What the recursion of Dependents says of the levels up to d.
Levels(f, s, E, d) ==
    f = [n \in 0 .. d |->
            IF n = 0 THEN [visited |-> {}, place |-> [t \in {s} |-> 0]]
                     ELSE NextLevel(s, E, f[n - 1])]

\* The recursion has a solution: a level is added to one that ends before it.
LEMMA LevelsExist ==
    ASSUME NEW s, NEW E, NEW d \in Nat
    PROVE  \E f : Levels(f, s, E, d)
<1> DEFINE First == [visited |-> {}, place |-> [t \in {s} |-> 0]]
           N(level) == NextLevel(s, E, level)
           P == {n \in Nat : \E f :
                    f = [i \in 0 .. n |-> IF i = 0 THEN First ELSE N(f[i - 1])]}
<1> HIDE DEF First, N
<1>1. 0 \in P
  <2> DEFINE f == [i \in 0 .. 0 |-> First]
  <2>1. f = [i \in 0 .. 0 |-> IF i = 0 THEN First ELSE N(f[i - 1])]
    OBVIOUS
  <2> QED  BY <2>1
<1>2. ASSUME NEW n \in Nat, n \in P PROVE n + 1 \in P
  <2>1. PICK f : f = [i \in 0 .. n |-> IF i = 0 THEN First ELSE N(f[i - 1])]
    BY <1>2
  <2> DEFINE m == n + 1
             g == [i \in 0 .. m |-> IF i = m THEN N(f[n]) ELSE f[i]]
  <2>2. /\ m \in Nat /\ m # 0 /\ m - 1 = n /\ 0 .. n \subseteq 0 .. m
        /\ \A i \in 0 .. m : i # m => i \in 0 .. n
        /\ \A i \in 0 .. m : i # 0 => i - 1 \in 0 .. m /\ i - 1 # m
    OBVIOUS
  <2> HIDE DEF m
  <2>3. ASSUME NEW i \in 0 .. m
        PROVE  g[i] = IF i = 0 THEN First ELSE N(g[i - 1])
    <3>1. CASE i = m
      <4>1. g[i] = N(f[n]) /\ g[n] = f[n]
        BY <2>2, <3>1
      <4> HIDE DEF g
      <4> QED  BY <2>2, <3>1, <4>1
    <3>2. CASE i # m
      <4>1. i \in 0 .. n /\ g[i] = f[i]
        BY <2>2, <3>2
      <4>2. i # 0 => g[i - 1] = f[i - 1]
        BY <2>2
      <4>3. f[i] = IF i = 0 THEN First ELSE N(f[i - 1])
        BY <2>1, <4>1
      <4> HIDE DEF g
      <4> QED  BY <4>1, <4>2, <4>3
    <3> QED  BY <3>1, <3>2
  <2>4. g = [i \in 0 .. m |-> IF i = 0 THEN First ELSE N(g[i - 1])]
    <3>1. g = [i \in 0 .. m |-> g[i]]
      OBVIOUS
    <3> HIDE DEF g
    <3> QED  BY <2>3, <3>1
  <2> HIDE DEF g
  <2>5. m \in P
    BY <2>2, <2>4
  <2> QED  BY <2>5 DEF m
<1> HIDE DEF P
<1>3. d \in P
  BY <1>1, <1>2, InductiveSet
<1> QED  BY <1>3 DEF P, First, N, Levels

\* A level keeps none that it did not find, and all where there are no more
\* than it may keep.
LEMMA LevelKeeps ==
    ASSUME NEW s, NEW level
    PROVE  LET found == {t \in Symbol :
                           /\ \E u \in DOMAIN level.place : <<t, u>> \in calls
                           /\ t \notin level.visited \cup {s}}
               after == NextLevel(s, calls, level)
           IN  /\ after.visited = level.visited \cup DOMAIN after.place
               /\ DOMAIN after.place \subseteq found
               /\ Cardinality(found) <= MaxFanout => DOMAIN after.place = found
<1> DEFINE frontier == DOMAIN level.place
           found == {t \in Symbol : /\ \E u \in frontier : <<t, u>> \in calls
                                    /\ t \notin level.visited \cup {s}}
           Ahead(t, u) ==
               \E v \in frontier : /\ <<t, v>> \in calls
                  /\ \A w \in frontier : <<u, w>> \in calls =>
                        \/ level.place[v] < level.place[w]
                        \/ v = w /\ Rank[t] < Rank[u]
           Before(t) == {u \in found \ {t} : Ahead(u, t)}
           Place(t) == Cardinality(Before(t))
           kept == {t \in found : Place(t) < MaxFanout}
           after == NextLevel(s, calls, level)
<1>1. after = [visited |-> level.visited \cup kept,
               place   |-> [t \in kept |-> Place(t)]]
  BY DEF NextLevel
<1>2. IsFiniteSet(found)
  BY FS_Subset, DerivedConstants DEF DerivedConstants
<1> HIDE DEF after, Ahead
<1>3. ASSUME Cardinality(found) <= MaxFanout, NEW t \in found
      PROVE  t \in kept
  <2> HIDE DEF found
  <2>1. Before(t) \subseteq found \ {t}
    OBVIOUS
  <2>2. /\ IsFiniteSet(found \ {t}) /\ Cardinality(found \ {t}) = Cardinality(found) - 1
        /\ Cardinality(found) \in Nat
    BY <1>2, <1>3, FS_RemoveElement, FS_CardinalityType
  <2> HIDE DEF Before
  <2>3. IsFiniteSet(Before(t)) /\ Cardinality(Before(t)) <= Cardinality(found \ {t})
    BY <2>1, <2>2, FS_Subset
  <2>4. Cardinality(Before(t)) \in Nat /\ MaxFanout \in Nat
    BY <2>3, FS_CardinalityType, DerivedConstants DEF DerivedConstants
  <2>5. Place(t) < MaxFanout
    BY <1>3, <2>2, <2>3, <2>4
  <2> QED  BY <1>3, <2>5
<1>4. after.visited = level.visited \cup kept /\ DOMAIN after.place = kept
  BY <1>1
<1>5. kept \subseteq found
  OBVIOUS
<1> HIDE DEF kept
<1>6. /\ after.visited = level.visited \cup DOMAIN after.place
      /\ DOMAIN after.place \subseteq found
      /\ Cardinality(found) <= MaxFanout => DOMAIN after.place = found
  BY <1>3, <1>4, <1>5
<1> QED  BY <1>6 DEF after, found, frontier

\* The search with a depth bound finds only dependents within it, and all of
\* them up to the first level that is cut.
LEMMA DependentsAreWithin ==
    ASSUME NEW s \in Symbol
    PROVE  /\ Dependents(s, calls) \subseteq DependsWithin(s, MaxDepth)
           /\ \A n \in 1 .. MaxDepth :
                 NothingIsCut(s, n) =>
                    DependsWithin(s, n) \subseteq Dependents(s, calls)
<1> DEFINE d == MaxDepth
           f == CHOOSE g : Levels(g, s, calls, d)
           V(n) == f[n].visited
           F(n) == DOMAIN f[n].place
           D(n) == DependsWithin(s, n)
           C(n) == Callers(s, n)
           W(n) == Newest(s, n)
           found(n) == {t \in Symbol : /\ \E u \in F(n) : <<t, u>> \in calls
                                       /\ t \notin V(n) \cup {s}}
<1>1. d \in Nat
  BY DerivedConstants DEF DerivedConstants
<1>2. Dependents(s, calls) = V(d)
  BY DEF Dependents, Levels
<1> HIDE DEF d
<1>3. Levels(f, s, calls, d)
  BY <1>1, LevelsExist
<1> HIDE DEF f
<1>4. V(0) = {} /\ F(0) = {s}
  <2>1. f[0] = [visited |-> {}, place |-> [t \in {s} |-> 0]]
    BY <1>1, <1>3 DEF Levels
  <2> QED  BY <2>1
<1>5. ASSUME NEW n \in Nat, n + 1 <= d
      PROVE  /\ V(n + 1) = V(n) \cup F(n + 1)
             /\ F(n + 1) \subseteq found(n)
             /\ Cardinality(found(n)) <= MaxFanout => F(n + 1) = found(n)
  <2> DEFINE j == n + 1
  <2>1. j \in 0 .. d /\ j # 0 /\ j - 1 = n
    BY <1>1, <1>5
  <2> HIDE DEF j
  <2>2. f[j] = NextLevel(s, calls, f[j - 1])
    BY <1>3, <2>1 DEF Levels
  <2>3. f[j] = NextLevel(s, calls, f[n])
    BY <2>1, <2>2
  <2> DEFINE level == f[n]
             after == f[j]
             next == {t \in Symbol :
                        /\ \E u \in DOMAIN level.place : <<t, u>> \in calls
                        /\ t \notin level.visited \cup {s}}
  <2>4. after = NextLevel(s, calls, level)
    BY <2>3
  <2> HIDE DEF level, after
  <2>5. /\ after.visited = level.visited \cup DOMAIN after.place
        /\ DOMAIN after.place \subseteq next
        /\ Cardinality(next) <= MaxFanout => DOMAIN after.place = next
    BY <2>4, LevelKeeps
  <2> QED  BY <2>5 DEF j, level, after
<1>6. D(0) = {} /\ W(0) = {s} /\ C(0) = {s}
  BY WithinIsCallers, CallersStep DEF Newest
<1>7. ASSUME NEW n \in Nat
      PROVE  /\ C(n + 1) = {t \in Symbol : \E u \in C(n) : <<t, u>> \in calls}
             /\ D(n) \subseteq D(n + 1)
             /\ C(n + 1) \ {s} \subseteq D(n + 1)
             /\ W(n + 1) = D(n + 1) \ D(n)
             /\ W(n + 1) = {t \in Symbol :
                              /\ \E u \in W(n) : <<t, u>> \in calls
                              /\ t \notin D(n) \cup {s}}
             /\ D(n + 1) = D(n) \cup W(n + 1)
  <2>1. C(n + 1) = {t \in Symbol : \E u \in C(n) : <<t, u>> \in calls}
    BY CallersStep
  <2>2. /\ W(n + 1) = {t \in Symbol :
                              /\ \E u \in W(n) : <<t, u>> \in calls
                              /\ t \notin D(n) \cup {s}}
        /\ D(n + 1) = D(n) \cup W(n + 1)
    BY LevelStep
  <2>3. C(n + 1) \ {s} \subseteq D(n + 1)
    <3>1. D(n + 1) = {t \in Symbol \ {s} : \E k \in 1 .. n + 1 : t \in C(k)}
      BY WithinIsCallers
    <3>2. C(n + 1) \subseteq Symbol /\ n + 1 \in 1 .. n + 1
      BY DEF Callers
    <3> HIDE DEF C
    <3> QED  BY <3>1, <3>2
  <2>4. W(n + 1) = D(n + 1) \ D(n)
    BY DEF Newest
  <2> HIDE DEF W, D
  <2> QED  BY <2>1, <2>2, <2>3, <2>4
<1> DEFINE Found(n) == /\ V(n) \subseteq D(n) /\ F(n) \subseteq C(n)
                       /\ NothingIsCut(s, n) => V(n) = D(n) /\ F(n) = W(n)
           P == {n \in Nat : n <= d => Found(n)}
           Q(n) == {i \in Nat : n + i <= d => V(n) \subseteq V(n + i)}
<1>8. ASSUME NEW n \in Nat, NothingIsCut(s, n + 1)
      PROVE  NothingIsCut(s, n) /\ Cardinality(W(n + 1)) <= MaxFanout
  <2>1. n + 1 \in 1 .. n + 1 /\ (n + 1) - 1 = n /\ 1 .. n \subseteq 1 .. n + 1
    OBVIOUS
  <2>2. Cardinality(D(n + 1) \ D((n + 1) - 1)) <= MaxFanout
    BY <1>8, <2>1 DEF NothingIsCut
  <2> QED  BY <1>7, <1>8, <2>1, <2>2 DEF NothingIsCut
<1> HIDE DEF V, F, D, C, W
<1>9. Nat \subseteq P
  <2>1. 0 \in P
    BY <1>4, <1>6
  <2>2. ASSUME NEW n \in Nat, n \in P, n + 1 <= d PROVE Found(n + 1)
    <3>1. Found(n)
      BY <1>1, <2>2
    <3>2. F(n + 1) \subseteq found(n)
      BY <1>5, <2>2
    <3>3. found(n) \subseteq C(n + 1) \ {s}
      BY <1>7, <3>1
    <3>4. V(n + 1) \subseteq D(n + 1)
      <4>1. V(n + 1) = V(n) \cup F(n + 1) /\ V(n) \subseteq D(n)
        BY <1>5, <2>2, <3>1
      <4>2. D(n) \subseteq D(n + 1) /\ C(n + 1) \ {s} \subseteq D(n + 1)
        BY <1>7
      <4> HIDE DEF found
      <4> QED  BY <3>2, <3>3, <4>1, <4>2
    <3>5. ASSUME NothingIsCut(s, n + 1)
          PROVE  V(n + 1) = D(n + 1) /\ F(n + 1) = W(n + 1)
      <4>1. V(n) = D(n) /\ F(n) = W(n) /\ Cardinality(W(n + 1)) <= MaxFanout
        BY <1>8, <3>1, <3>5
      <4>2. found(n) = W(n + 1)
        BY <1>7, <4>1
      <4>3. F(n + 1) = W(n + 1)
        BY <1>5, <2>2, <4>1, <4>2
      <4> QED  BY <1>5, <1>7, <2>2, <4>1, <4>3
    <3> QED  BY <3>2, <3>3, <3>4, <3>5
  <2> HIDE DEF Found
  <2>3. ASSUME NEW n \in Nat, n \in P PROVE n + 1 \in P
    BY <2>2, <2>3
  <2> HIDE DEF P
  <2> QED  BY <2>1, <2>3, InductiveSet
<1>10. Found(d)
  BY <1>1, <1>9
<1>11. ASSUME NEW n \in 1 .. d PROVE V(n) \subseteq V(d) /\ Found(n)
  <2>1. n \in Nat /\ n <= d /\ d - n \in Nat /\ n + (d - n) = d
    BY <1>1
  <2>2. 0 \in Q(n)
    <3>1. n + 0 = n
      BY <2>1
    <3> QED  BY <3>1
  <2>3. ASSUME NEW i \in Nat, i \in Q(n) PROVE i + 1 \in Q(n)
    <3> SUFFICES ASSUME n + (i + 1) <= d PROVE V(n) \subseteq V(n + (i + 1))
      OBVIOUS
    <3> DEFINE m == n + i
    <3>1. m \in Nat /\ m + 1 <= d /\ m <= d /\ m + 1 = n + (i + 1)
      BY <1>1, <2>1
    <3>2. V(n) \subseteq V(m)
      BY <2>3, <3>1
    <3> HIDE DEF m
    <3>3. V(m + 1) = V(m) \cup F(m + 1)
      BY <1>5, <3>1
    <3> QED  BY <3>1, <3>2, <3>3
  <2>4. d - n \in Q(n)
    <3> HIDE DEF Q
    <3>1. Nat \subseteq Q(n)
      BY <2>2, <2>3, InductiveSet
    <3> QED  BY <2>1, <3>1
  <2>5. n \in P
    BY <1>9, <2>1
  <2> HIDE DEF Found
  <2> QED  BY <2>1, <2>4, <2>5
<1> QED  BY <1>2, <1>10, <1>11 DEF V, D, d

\* A symbol that something depends on is in the graph, and so is what does.
LEMMA DependentsAreLive ==
    ASSUME calls \in SUBSET (Live \X Live), NEW s \in Symbol, NEW n \in Nat,
           NEW t \in DependsWithin(s, n)
    PROVE  s \in Live /\ t \in Live
<1>1. PICK k \in 1 .. n : \E w \in [0 .. k -> Symbol] :
         /\ w[0] = s /\ w[k] = t
         /\ \A i \in 1 .. k : <<w[i], w[i - 1]>> \in calls
  BY DEF DependsWithin
<1>2. PICK w \in [0 .. k -> Symbol] :
         /\ w[0] = s /\ w[k] = t
         /\ \A i \in 1 .. k : <<w[i], w[i - 1]>> \in calls
  BY <1>1
<1>3. <<w[1], w[1 - 1]>> \in calls /\ <<w[k], w[k - 1]>> \in calls
  BY <1>2
<1> QED  BY <1>2, <1>3

\* What depends on a symbol, and where the search is cut, is a matter of calls.
LEMMA SameCallsSameDependents ==
    ASSUME calls' = calls, NEW s \in Symbol, NEW n \in Nat
    PROVE  /\ DependsWithin(s, n)' = DependsWithin(s, n)
           /\ NothingIsCut(s, n)' = NothingIsCut(s, n)
<1>1. \A k : DependsWithin(s, k)' = DependsWithin(s, k)
  BY DEF DependsWithin
<1> QED  BY <1>1 DEF NothingIsCut

\* The rebuild is the only step to the adjacency, and it replaces the edges of
\* every symbol the batch changed.
LEMMA AffectsStep ==
    IInv /\ ChangedAffectsAreExact /\ [Next]_vars => ChangedAffectsAreExact'
<1> SUFFICES ASSUME IInv, ChangedAffectsAreExact, [Next]_vars
             PROVE  ChangedAffectsAreExact'
  OBVIOUS
<1>0. TypeOK /\ batch \in Batch
  BY DEF IInv, TypeOK
<1>1. ASSUME calls' = calls, affects' = affects, batch' = batch
      PROVE  ChangedAffectsAreExact'
  <2>1. \A s \in Symbol : \A n \in Nat :
           /\ DependsWithin(s, n)' = DependsWithin(s, n)
           /\ NothingIsCut(s, n)' = NothingIsCut(s, n)
    BY <1>1, SameCallsSameDependents
  <2>2. batch.changed \subseteq Symbol /\ MaxDepth \in Nat
    BY <1>0, DerivedConstants DEF Batch, DerivedConstants
  <2> QED  BY <1>1, <2>1, <2>2 DEF ChangedAffectsAreExact
<1>2. CASE UNCHANGED vars \/ \E s \in Symbol, body \in Bodies \cup {Absent} :
                                Edit(s, body)
  BY <1>1, <1>2 DEF vars, Edit, graphVars
<1>3. ASSUME batch'.at # "adjacency" PROVE ChangedAffectsAreExact'
  BY <1>3 DEF ChangedAffectsAreExact
<1>4. ASSUME NEW group \in SUBSET Path, NEW project \in BOOLEAN,
             BatchBegins(group, project)
      PROVE  ChangedAffectsAreExact'
  BY <1>3, <1>4 DEF BatchBegins, Rest
<1>5. ASSUME NEW P, IndexFiles(P), batch.at = "files"
      PROVE  ChangedAffectsAreExact'
  <2>1. batch'.at = "files"
    BY <1>0, <1>5 DEF IndexFiles, Batch
  <2> QED  BY <1>3, <2>1
<1>6. ASSUME NEW p \in Path, Tombstone(p) PROVE ChangedAffectsAreExact'
  BY <1>3, <1>6 DEF Tombstone
<1>7. CASE RebuildAffects
  <2>1. /\ batch'.changed = batch.changed /\ batch.changed \subseteq Symbol
        /\ calls' = calls
        /\ affects' = {e \in affects : e[1] \notin batch.changed}
              \cup {e \in Live \X Live :
                       /\ e[1] \in batch.changed
                       /\ e[2] \in Dependents(e[1], calls)}
    BY <1>0, <1>7 DEF RebuildAffects, Batch
  <2>2. ASSUME NEW s \in batch.changed
        PROVE  LET found == {t \in Symbol : <<s, t>> \in affects'} IN
               /\ found \subseteq DependsWithin(s, MaxDepth)
               /\ \A n \in 1 .. MaxDepth :
                     NothingIsCut(s, n) => DependsWithin(s, n) \subseteq found
    <3>1. s \in Symbol /\ MaxDepth \in Nat /\ Live \subseteq Symbol
      BY <2>1, DerivedConstants DEF DerivedConstants, Live
    <3>2. /\ Dependents(s, calls) \subseteq DependsWithin(s, MaxDepth)
          /\ \A n \in 1 .. MaxDepth :
                NothingIsCut(s, n) => DependsWithin(s, n) \subseteq Dependents(s, calls)
      BY <3>1, DependentsAreWithin
    <3>3. \A t \in DependsWithin(s, MaxDepth) : s \in Live /\ t \in Live
      BY <1>0, <3>1, DependentsAreLive DEF TypeOK
    <3>4. {t \in Symbol : <<s, t>> \in affects'} = Dependents(s, calls)
      BY <2>1, <3>1, <3>2, <3>3
    <3> QED  BY <3>2, <3>4
  <2>3. \A s \in batch.changed : \A n \in Nat :
           /\ DependsWithin(s, n)' = DependsWithin(s, n)
           /\ NothingIsCut(s, n)' = NothingIsCut(s, n)
    BY <2>1, SameCallsSameDependents
  <2>4. MaxDepth \in Nat
    BY DerivedConstants DEF DerivedConstants
  <2> QED  BY <2>1, <2>2, <2>3, <2>4 DEF ChangedAffectsAreExact
<1>8. CASE MaterializeAdjacency
  BY <1>3, <1>8 DEF MaterializeAdjacency, Rest
<1>9. CASE \E p \in Path : IndexFile(p)
  BY <1>5, <1>9 DEF IndexFile
<1>10. CASE ApplyGraph
  BY <1>5, <1>10 DEF ApplyGraph
<1> QED  BY <1>2, <1>4, <1>6, <1>7, <1>8, <1>9, <1>10 DEF Next

\* After every batch the AFFECTS edges of the symbols it changed are all their
\* dependents up to the depth bound and no others, in any graph and for any
\* bound (rebuild_affects, _dependents_within_depth).
THEOREM DerivedAffectsAreExact == Spec => []ChangedAffectsAreExact
<1>1. Init => ChangedAffectsAreExact
  BY DEF Init, ChangedAffectsAreExact, Rest
<1> QED  BY DerivedInvariant, AffectsStep, <1>1, PTL DEF Spec
=============================================================================
