---------------------------- MODULE FileIndexing ----------------------------
(***************************************************************************)
(* Indexing of saved files: the batch group of the queue and the           *)
(* synchronous request (src/context_engine/indexer/service.py), both       *)
(* around index_file (src/context_engine/indexer/code.py), tracked by the  *)
(* job log.                                                                *)
(*                                                                         *)
(* One run rewrites four stores one after the other, with no transaction   *)
(* around them: the graph's File and Symbol nodes, the outgoing edges of   *)
(* the symbols, the vector table, the AFFECTS edges.  The File node's hash *)
(* is written FIRST, with the symbols; it is what a later run compares to  *)
(* decide that a file is unchanged.  Edits and commits happen meanwhile,   *)
(* any call to a store may raise, and the process may stop.                *)
(*                                                                         *)
(* A symbol is its uid with the hash of its body and range; each store     *)
(* holds a set of symbols per file.                                        *)
(***************************************************************************)
EXTENDS JobLog, FiniteSets

CONSTANTS
    Name,         \* uids of the symbols of one file
    Hash,         \* content hashes (and line ranges) of a symbol
    Version,      \* contents of a file, as its sha256 tells them apart
    Body,         \* the symbols the extractor finds in each version
    QueueRunner,  \* runners that process queue batches; others are requests
    BulkMin,      \* LANCEDB_SYMBOL_BULK_REPLACE_MIN
    BulkPercent,  \* LANCEDB_SYMBOL_BULK_REPLACE_RATIO, in percent
    Exclusive,    \* no two runners index one file at once (the queue alone)
    MaxEdits      \* edits made (bound)

Symbol == Name \X Hash
Names(S) == {s[1] : s \in S}
Without(S, N) == {s \in S : s[1] \notin N}
Only(S, N) == {s \in S : s[1] \in N}

ASSUME IndexingConstants ==
    /\ Body \in [Version -> SUBSET Symbol]
    /\ \A v \in Version : \A s, t \in Body[v] : s[1] = t[1] => s = t
    /\ QueueRunner \subseteq Runner
    /\ BulkMin \in Nat /\ BulkPercent \in Nat /\ MaxEdits \in Nat
    /\ Exclusive \in BOOLEAN
    /\ None \notin Version

\* No file is large enough for its upsert to clear the whole vector table.
SmallFiles ==
    \A v \in Version : IsFiniteSet(Body[v]) /\ Cardinality(Body[v]) < BulkMin

VARIABLES
    disk,        \* version of each file in the working tree
    head,        \* version of each file at HEAD
    edits,       \* edits made so far
    failed,      \* history: a call raised or the process stopped
    file,        \* File.hash: the version stored for each file, or None
    graph,       \* Symbol nodes each File node contains
    edges,       \* bodies whose calls are linked, by file
    vectors,     \* rows of the symbols table, by file
    affectsDue,  \* symbols upserted whose AFFECTS edges are not rebuilt
    cacheDue,    \* files upserted whose cached answers are not dropped
    overlay,     \* files with an unsaved buffer
    work         \* what each runner is doing

treeVars  == <<disk, head, edits, failed>>
storeVars == <<file, graph, edges, vectors>>
dueVars   == <<affectsDue, cacheDue, overlay>>
vars == <<jobVars, treeVars, storeVars, dueVars, work>>

\* at: the call a runner makes next.
Stage == {"gate", "extract", "delta", "upsert", "prune", "clear", "link",
          "embed", "add", "drop", "affects", "overlay", "complete"}
Outside == {"idle", "hashes", "next", "invalidate"}
Work == [at: Stage \cup Outside,
         todo: SUBSET Path,            \* paths of the batch still to index
         hashes: [Path -> Version \cup {None}],   \* current_hashes
         version: Version \cup {None}, \* content read by the extractor
         changed: SUBSET Symbol, removed: SUBSET Name,
         allChanged: SUBSET (Path \X Name), indexed: SUBSET Path]

Rest == [at |-> "idle", todo |-> {}, hashes |-> [p \in Path |-> None],
         version |-> None, changed |-> {}, removed |-> {},
         allChanged |-> {}, indexed |-> {}]

Queued(r) == r \in QueueRunner
Of(r)     == runner[r].path                \* the path being indexed
New(r)    == Body[work[r].version]         \* the symbols extracted
Tracked(r, stage) == runner[r].at = "tracked" /\ work[r].at = stage

\* edge_refresh_uids: the changed symbols, or all when none changed.
Refresh(r) == Names(IF work[r].changed = {} THEN New(r) ELSE work[r].changed)

Init ==
    /\ JobInit
    /\ disk \in [Path -> Version] /\ head = disk
    /\ edits = 0 /\ failed = FALSE
    /\ file = [p \in Path |-> None]
    /\ graph = [p \in Path |-> {}]
    /\ edges = [p \in Path |-> {}]
    /\ vectors = [p \in Path |-> {}]
    /\ affectsDue = {} /\ cacheDue = {} /\ overlay = {}
    /\ work = [r \in Runner |-> Rest]

-----------------------------------------------------------------------------
(* The developer: edits and commits, and buffers the editor posts *)

Edit(p, v) ==
    /\ edits < MaxEdits /\ disk[p] # v
    /\ edits' = edits + 1
    /\ disk' = [disk EXCEPT ![p] = v]
    /\ UNCHANGED <<jobVars, head, failed, storeVars, dueVars, work>>

Commit(p) ==
    /\ head[p] # disk[p]
    /\ head' = [head EXCEPT ![p] = disk[p]]
    /\ UNCHANGED <<jobVars, disk, edits, failed, storeVars, dueVars, work>>

Type(p) ==
    /\ overlay' = overlay \cup {p}
    /\ UNCHANGED <<jobVars, treeVars, storeVars, affectsDue, cacheDue, work>>

-----------------------------------------------------------------------------
(* The two callers up to the job, and the job's start *)

\* should_index_file: the file equals HEAD.
Indexable(p) == disk[p] = head[p]

\* Nobody indexes the file, when the runs of a file take turns.
Free(p) == Exclusive => \A q \in Runner : runner[q].path # p

\* index_file_now, to the first statement of start_file_job.
RequestBegins(r, p) ==
    /\ ~Queued(r) /\ work[r].at = "idle"
    /\ Indexable(p) /\ Free(p)
    /\ SelectFailed(r, p)
    /\ work' = [work EXCEPT ![r].at = "gate"]
    /\ UNCHANGED <<treeVars, storeVars, dueVars>>

\* A batch group: the indexable paths, and the hashes they have on disk.
GroupBegins(r, group) ==
    /\ Queued(r) /\ work[r].at = "idle"
    /\ LET paths == {p \in group : Indexable(p)} IN
         /\ paths # {}
         /\ work' = [work EXCEPT
                ![r] = [Rest EXCEPT !.at = "hashes", !.todo = paths,
                        !.hashes = [p \in Path |-> IF p \in paths
                                        THEN disk[p] ELSE None]]]
    /\ UNCHANGED <<jobVars, treeVars, storeVars, dueVars>>

\* Then the stored hashes: paths whose hash is stored are skipped.
SkipUnchanged(r) ==
    /\ work[r].at = "hashes"
    /\ work' = [work EXCEPT ![r].at = "next",
           ![r].todo = {p \in @ : file[p] # work[r].hashes[p]}]
    /\ UNCHANGED <<jobVars, treeVars, storeVars, dueVars>>

GroupTakes(r, p) ==
    /\ work[r].at = "next" /\ p \in work[r].todo /\ Free(p)
    /\ SelectFailed(r, p)
    /\ work' = [work EXCEPT ![r].at = "gate", ![r].todo = @ \ {p}]
    /\ UNCHANGED <<treeVars, storeVars, dueVars>>

JobStarts(r) ==
    /\ StartFileJob(r)
    /\ UNCHANGED <<treeVars, storeVars, dueVars, work>>

-----------------------------------------------------------------------------
(* index_file, one action per store call *)

\* The runner goes on to another call of index_file.
Goes(r, stage) == work' = [work EXCEPT ![r].at = stage]

\* A run that finds the file dirty returns without indexing it, and its
\* caller treats that as success.
Gate(r) ==
    /\ Tracked(r, "gate")
    /\ IF Indexable(Of(r))
       THEN Goes(r, "extract")
       ELSE Goes(r, IF Queued(r) THEN "overlay" ELSE "complete")
    /\ UNCHANGED <<jobVars, treeVars, storeVars, dueVars>>

\* extract_all reads the file.
Extract(r) ==
    /\ Tracked(r, "extract")
    /\ work' = [work EXCEPT ![r].at = "delta", ![r].version = disk[Of(r)]]
    /\ UNCHANGED <<jobVars, treeVars, storeVars, dueVars>>

\* Fault: the vectors are written before the graph.
EmbedFirst(r) ==
    /\ Tracked(r, "delta")
    /\ work' = [work EXCEPT ![r] =
           [@ EXCEPT !.at = "embed",
                     !.changed = New(r) \ graph[Of(r)],
                     !.removed = Names(graph[Of(r)]) \ Names(New(r))]]
    /\ UNCHANGED <<jobVars, treeVars, storeVars, dueVars>>

\* The symbols are compared with the graph's.
Delta(r) ==
    /\ Tracked(r, "delta")
    /\ work' = [work EXCEPT ![r] =
           [@ EXCEPT !.at = "upsert",
                     !.changed = New(r) \ graph[Of(r)],
                     !.removed = Names(graph[Of(r)]) \ Names(New(r))]]
    /\ UNCHANGED <<jobVars, treeVars, storeVars, dueVars>>

\* Fault: only symbols the graph does not name yet are upserted.
UpsertNewNames(r) ==
    /\ Tracked(r, "upsert")
    /\ LET p == Of(r)
           new == Without(work[r].changed, Names(graph[p])) IN
         /\ file' = [file EXCEPT ![p] = work[r].version]
         /\ graph' = [graph EXCEPT ![p] = @ \cup new]
         /\ affectsDue' = affectsDue \cup ({p} \X Names(new))
         /\ cacheDue' = cacheDue \cup {p}
    /\ Goes(r, "prune")
    /\ UNCHANGED <<jobVars, treeVars, edges, vectors, overlay>>

\* upsert_file_structure, one transaction: the hash and the changed symbols.
Upsert(r) ==
    /\ Tracked(r, "upsert")
    /\ LET p == Of(r)
           new == work[r].changed IN
         /\ file' = [file EXCEPT ![p] = work[r].version]
         /\ graph' = [graph EXCEPT ![p] = Without(@, Names(new)) \cup new]
         /\ affectsDue' = affectsDue \cup ({p} \X Names(new))
         /\ cacheDue' = cacheDue \cup {p}
    /\ Goes(r, "prune")
    /\ UNCHANGED <<jobVars, treeVars, edges, vectors, overlay>>

\* prune_symbols_for_file: symbols no longer in the file, with their edges.
Prune(r) ==
    /\ Tracked(r, "prune")
    /\ LET p == Of(r)
           keep == Names(New(r)) IN
         /\ graph' = [graph EXCEPT ![p] = Only(@, keep)]
         /\ edges' = [edges EXCEPT ![p] = Only(@, keep)]
         /\ affectsDue' = affectsDue
                \ {d \in affectsDue : d[1] = p /\ d[2] \notin keep}
    /\ Goes(r, "clear")
    /\ UNCHANGED <<jobVars, treeVars, file, vectors, cacheDue, overlay>>

Clear(r) ==
    /\ Tracked(r, "clear")
    /\ edges' = [edges EXCEPT ![Of(r)] = Without(@, Refresh(r))]
    /\ Goes(r, "link")
    /\ UNCHANGED <<jobVars, treeVars, file, graph, vectors, dueVars>>

\* link_calls links the calls of every symbol the file has and the graph
\* knows, refreshed or not; the links by file (imports, endpoints, proxies,
\* decorators, types, injections) are deleted and made again after it.
Link(r) ==
    /\ Tracked(r, "link")
    /\ edges' = [edges EXCEPT ![Of(r)] =
                    @ \cup Only(New(r), Names(graph[Of(r)]))]
    /\ Goes(r, "embed")
    /\ UNCHANGED <<jobVars, treeVars, file, graph, vectors, dueVars>>

\* The vector table's rows, of all files.
TableRows == {row \in Path \X Symbol : row[2] \in vectors[row[1]]}

\* _apply_symbol_upsert_delete_strategy: a large upsert clears the table.
BulkReplace(n) ==
    LET existing == Cardinality(TableRows) IN
      /\ existing > 0
      /\ n >= BulkMin
      /\ n >= (existing * BulkPercent) \div 100

\* upsert_symbol_embeddings deletes the rows it is about to add.
Embed(r) ==
    /\ Tracked(r, "embed")
    /\ LET new == work[r].changed IN
         \/ /\ new = {}
            /\ Goes(r, "drop")
            /\ UNCHANGED vectors
         \/ /\ new # {}
            /\ Goes(r, "add")
            /\ vectors' = IF BulkReplace(Cardinality(new))
                          THEN [p \in Path |-> {}]
                          ELSE [vectors EXCEPT
                                   ![Of(r)] = Without(@, Names(new))]
    /\ UNCHANGED <<jobVars, treeVars, file, graph, edges, dueVars>>

Add(r) ==
    /\ Tracked(r, "add")
    /\ vectors' = [vectors EXCEPT ![Of(r)] = @ \cup work[r].changed]
    /\ Goes(r, "drop")
    /\ UNCHANGED <<jobVars, treeVars, file, graph, edges, dueVars>>

\* Fault: the rows of removed symbols stay.
KeepRemoved(r) ==
    /\ Tracked(r, "drop")
    /\ Goes(r, IF Queued(r) THEN "overlay" ELSE "affects")
    /\ UNCHANGED <<jobVars, treeVars, storeVars, dueVars>>

\* delete_symbol_embeddings of the removed symbols; the end of index_file
\* rebuilds AFFECTS only for a request.
Drop(r) ==
    /\ Tracked(r, "drop")
    /\ vectors' = [vectors EXCEPT ![Of(r)] = Without(@, work[r].removed)]
    /\ Goes(r, IF Queued(r) THEN "overlay" ELSE "affects")
    /\ UNCHANGED <<jobVars, treeVars, file, graph, edges, dueVars>>

\* rebuild_affects, then the adjacency and the pending anchors.
RequestAffects(r) ==
    /\ Tracked(r, "affects")
    /\ affectsDue' = affectsDue \ ({Of(r)} \X Names(work[r].changed))
    /\ Goes(r, "complete")
    /\ UNCHANGED <<jobVars, treeVars, storeVars, cacheDue, overlay>>

\* The queue leaves AFFECTS to the end of the batch, and clears the overlay
\* inside the job.
GroupIndexed(r) ==
    /\ Tracked(r, "overlay")
    /\ overlay' = overlay \ {Of(r)}
    /\ work' = [work EXCEPT ![r] =
           [@ EXCEPT !.at = "complete",
                     !.allChanged = work[r].allChanged
                          \cup ({Of(r)} \X Names(work[r].changed)),
                     !.indexed = work[r].indexed \cup {Of(r)}]]
    /\ UNCHANGED <<jobVars, treeVars, storeVars, affectsDue, cacheDue>>

-----------------------------------------------------------------------------
(* The end of the job and of the run *)

\* A group goes on with its next path; what it knew of this one is gone.
NextPath(r) == [work[r] EXCEPT !.at = "next", !.version = None,
                               !.changed = {}, !.removed = {}]

JobCompletes(r) ==
    /\ Tracked(r, "complete")
    /\ MarkCompleted(r)
    /\ work' = [work EXCEPT ![r] =
           IF Queued(r) THEN NextPath(r)
           ELSE [Rest EXCEPT !.at = "invalidate", !.indexed = {Of(r)}]]
    /\ UNCHANGED <<treeVars, storeVars, dueVars>>

\* index_file_now after the job: the cache, then the overlay.
RequestEnds(r) ==
    /\ ~Queued(r) /\ work[r].at = "invalidate"
    /\ cacheDue' = cacheDue \ work[r].indexed
    /\ overlay' = overlay \ work[r].indexed
    /\ work' = [work EXCEPT ![r] = Rest]
    /\ UNCHANGED <<jobVars, treeVars, storeVars, affectsDue>>

\* _finalize_index_batch: nothing when no path was indexed.
GroupFinalizes(r) ==
    /\ work[r].at = "next" /\ work[r].todo = {}
    /\ IF work[r].indexed = {}
       THEN /\ work' = [work EXCEPT ![r] = Rest]
            /\ UNCHANGED affectsDue
       ELSE /\ affectsDue' = affectsDue \ work[r].allChanged
            /\ Goes(r, "invalidate")
    /\ UNCHANGED <<jobVars, treeVars, storeVars, cacheDue, overlay>>

\* Last of all, the cached answers about the indexed files are dropped.
GroupEnds(r) ==
    /\ Queued(r) /\ work[r].at = "invalidate"
    /\ cacheDue' = cacheDue \ work[r].indexed
    /\ work' = [work EXCEPT ![r] = Rest]
    /\ UNCHANGED <<jobVars, treeVars, storeVars, affectsDue, overlay>>

-----------------------------------------------------------------------------
(* Failures *)

\* What every failure leaves behind, and does not touch.
Fails == failed' = TRUE /\ UNCHANGED <<disk, head, edits>>

\* A call of the tracked block raises; track_file_job reads the job.
Raise(r) ==
    /\ Fails
    /\ work[r].at \in Stage \ {"gate", "overlay", "complete"}
    /\ ReadFailed(r)
    /\ UNCHANGED <<storeVars, dueVars, work>>

\* It marks the job; a group logs the exception and goes on, a request ends.
JobFails(r) ==
    /\ MarkFailed(r)
    /\ work' = [work EXCEPT ![r] = IF Queued(r) THEN NextPath(r) ELSE Rest]
    /\ UNCHANGED <<treeVars, storeVars, dueVars>>

\* The job log itself raises: the row stays as it is.
JobLogRaises(r) ==
    /\ Fails
    /\ runner[r].at \in {"starting", "failing"} \/ Tracked(r, "complete")
    /\ Abandon(r)
    /\ work' = [work EXCEPT ![r] = IF Queued(r) THEN NextPath(r) ELSE Rest]
    /\ UNCHANGED <<storeVars, dueVars>>

\* A group raises outside its jobs, in the stored hashes, in AFFECTS or in
\* the finalization that follows: the exception leaves the batch.
GroupRaises(r) ==
    /\ Fails
    /\ Queued(r) /\ work[r].at \in {"hashes", "next", "invalidate"}
    /\ work[r].at = "next" => work[r].todo = {} /\ work[r].indexed # {}
    /\ work' = [work EXCEPT ![r] = Rest]
    /\ UNCHANGED <<jobVars, storeVars, dueVars>>

\* The sidecar stops and starts again: the stores and the job log stay,
\* runs, cached answers and buffers are gone.
Restart ==
    /\ Fails
    /\ runner' = [r \in Runner |-> Idle]
    /\ overtaken' = {}
    /\ work' = [r \in Runner |-> Rest]
    /\ cacheDue' = {} /\ overlay' = {}
    /\ UNCHANGED <<jobs, second, clobbered, storeVars, affectsDue>>

\* The clock the job log orders its rows by.
Tick ==
    /\ SecondPasses
    /\ UNCHANGED <<treeVars, storeVars, dueVars, work>>

Develop == \E p \in Path : (\E v \in Version : Edit(p, v)) \/ Commit(p) \/ Type(p)

Run(r) ==
    \/ \E p \in Path : RequestBegins(r, p) \/ GroupTakes(r, p)
    \/ \E group \in SUBSET Path : GroupBegins(r, group)
    \/ SkipUnchanged(r) \/ JobStarts(r)
    \/ Gate(r) \/ Extract(r) \/ Delta(r)
    \/ Upsert(r) \/ Prune(r) \/ Clear(r) \/ Link(r)
    \/ Embed(r) \/ Add(r) \/ Drop(r)
    \/ RequestAffects(r) \/ GroupIndexed(r)
    \/ JobCompletes(r) \/ RequestEnds(r) \/ GroupFinalizes(r) \/ GroupEnds(r)

Fail(r) == Raise(r) \/ JobFails(r) \/ JobLogRaises(r) \/ GroupRaises(r)

Next ==
    \/ Develop
    \/ \E r \in Runner : Run(r) \/ Fail(r)
    \/ Restart
    \/ Tick

Spec == Init /\ [][Next]_vars

-----------------------------------------------------------------------------
(* Properties *)

\* Types, and the stage of a run agrees with its job: a run has a row while
\* it is inside index_file, and none outside.
TypeOK ==
    /\ JobTypeOK
    /\ disk \in [Path -> Version] /\ head \in [Path -> Version]
    /\ edits \in Nat /\ failed \in BOOLEAN
    /\ file \in [Path -> Version \cup {None}]
    /\ graph \in [Path -> SUBSET Symbol] /\ edges \in [Path -> SUBSET Symbol]
    /\ vectors \in [Path -> SUBSET Symbol]
    /\ affectsDue \subseteq Path \X Name
    /\ cacheDue \subseteq Path /\ overlay \subseteq Path
    /\ work \in [Runner -> Work]
    /\ \A r \in Runner : work[r].at \in Stage <=> runner[r].at # "idle"

Resting == \A r \in Runner : work[r].at = "idle"

\* What the stores hold of a file whose hash is stored is that version.
Agrees(p) ==
    file[p] # None =>
        /\ graph[p] = Body[file[p]]
        /\ edges[p] = Body[file[p]]
        /\ vectors[p] = Body[file[p]]

\* Between runs, until the first failure, the four stores agree on one version
\* of each file, and no AFFECTS edge or cached answer predates it: the deltas
\* computed at the start of a run were applied in full to every store.
StoresAgreeAtRest ==
    Resting /\ ~failed =>
        (\A p \in Path : Agrees(p)) /\ affectsDue = {} /\ cacheDue = {}

\* The stored hash of a file is what makes later runs skip it: whatever
\* failed and whenever the process stopped, the graph holds every symbol of
\* the version whose hash it stores.
StoredHashIsBacked ==
    \A p \in Path : file[p] # None => Body[file[p]] \subseteq graph[p]

\* The vector table never runs ahead of the graph: a row is added only for a
\* body the graph holds at that moment.
VectorsFollowGraph ==
    [][\A p \in Path : vectors'[p] \ vectors[p] \subseteq graph[p]]_vars

\* docs/architectura.md:249: partial graph or vector failures are visible,
\* so a file whose stores disagree between runs has a job that is not
\* completed.
DivergenceIsVisible ==
    Resting => \A p \in Path :
        ~Agrees(p) => \E i \in Rows : jobs[i].target = p
                                        /\ jobs[i].status # "completed"
=============================================================================
