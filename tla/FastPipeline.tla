---------------------------- MODULE FastPipeline ----------------------------
(***************************************************************************)
(* The project run (indexer/fast): collect the committed files, tombstone  *)
(* what is no longer among them, hash, parse what changed, write every     *)
(* file's nodes, clear what was derived from the changed files, link it    *)
(* anew one kind after the other, and bring the vectors up to date.        *)
(*                                                                         *)
(* Nothing in the run is undone when a step raises: what is written stays, *)
(* and the stored hash decides alone whether a later run looks at the file *)
(* again.  The developer edits and commits while the run is going on; the  *)
(* queue's worker indexes single files (index_file) between two runs, and  *)
(* relinks fewer kinds of edges than a run does.                           *)
(*                                                                         *)
(* Degrees, AFFECTS and adjacency rows are DerivedGraph's.                 *)
(***************************************************************************)
EXTENDS Naturals, FiniteSets

CONSTANTS
    File,
    Name,       \* names of symbols and of proxy variables
    Body,       \* what _symbol_needs_upsert compares
    Contents,   \* for each file, what it may hold
    Initial,    \* the working tree at first, all of it committed
    None,       \* no file on disk, no File node, no diff
    MaxEdits,   \* changes of the working tree (bound)
    MaxAborts   \* runs that raise or are killed (bound)

Uid == File \X Name

\* The kinds of facts extracted from a file that name a symbol elsewhere.
\*   proxy   the bindings of lazy proxies: nodes with a PROXY_OF edge
\*   attr    what only a run links: attribute accesses, re-exports,
\*           instantiations, hooks, decorator compositions
\*   type    what index_file links too: type references, decorators,
\*           injections, imports, HTTP endpoints
\*   alias   REFERENCES, which clear_outgoing_symbol_edges deletes
Kind == {"proxy", "attr", "type", "alias"}

Content == [symbols: SUBSET (Name \X Body),
            facts: [Kind -> SUBSET (Name \X Uid)]]

Names(S) == {s[1] : s \in S}

ASSUME PipelineConstants ==
    /\ IsFiniteSet(File) /\ IsFiniteSet(Name) /\ IsFiniteSet(Body)
    /\ Contents \in [File -> SUBSET Content]
    /\ Initial \in [File -> Content \cup {None}]
    /\ \A f \in File : Initial[f] \in Contents[f] \cup {None}
    /\ None \notin Content
    /\ None \notin [content: Content, changed: SUBSET (Name \X Body),
                    removed: SUBSET Name]
    /\ MaxEdits \in Nat /\ MaxAborts \in Nat

\* A symbol is declared once, facts other than proxies are found in the body
\* of a declared symbol, and a proxy variable is not a symbol of its file.
ASSUME FactsFollowBodies ==
    \A f \in File : \A c \in Contents[f] :
        /\ \A s, t \in c.symbols : s[1] = t[1] => s = t
        /\ Names(c.facts["proxy"]) \cap Names(c.symbols) = {}
        /\ \A k \in Kind \ {"proxy"} :
             /\ Names(c.facts[k]) \subseteq Names(c.symbols)
             /\ \A d \in Contents[f] : \A s \in c.symbols \cap d.symbols :
                  {x \in c.facts[k] : x[1] = s[1]}
                  = {x \in d.facts[k] : x[1] = s[1]}

\* No name is a proxy in one content of a file and a symbol in another.  Not
\* assumed: a function of no arguments has the uid that a proxy variable of
\* its name would have.
ProxiesStayProxies ==
    \A f \in File : \A c, d \in Contents[f] :
        Names(c.facts["proxy"]) \cap Names(d.symbols) = {}

VARIABLES
    disk,      \* the working tree
    clean,     \* files that git tracks and reports unmodified
    edits,     \* edits so far
    hash,      \* the File nodes: the content their stored hash is of
    nodes,     \* Symbol nodes of each file, with the body upserted
    proxies,   \* Symbol nodes of kind proxy_binding
    edges,     \* derived edges: kind, from, to
    vectors,   \* rows of the vector table, with the body embedded
    run,       \* the project run going on
    aborts,    \* runs aborted so far
    broken,    \* history: files an aborted run left half written
    touched    \* history: files edited or committed since the run began

vars == <<disk, clean, edits, hash, nodes, proxies, edges, vectors, run,
          aborts, broken, touched>>
treeVars == <<disk, clean, edits>>
graphVars == <<hash, nodes, proxies, edges>>
histVars == <<aborts, broken, touched>>

\* FileDiff
Diff == [content: Content, changed: SUBSET (Name \X Body),
         removed: SUBSET Name]
NoDiffs == [f \in File |-> None]

\* The phases of a run that write, in the order the pipeline calls them.
Stage == {"rest", "tombstone", "forget", "parse", "upsert", "prune", "edges",
          "clear", "proxy", "attr", "type", "alias", "embed", "unembed"}

RunType == [at: Stage, outcome: {"none", "done", "aborted"},
            files: SUBSET File, todo: SUBSET File,
            file: File \cup {None}, gone: SUBSET Name,
            diffs: [File -> Diff \cup {None}]]

Idle(outcome) == [at |-> "rest", outcome |-> outcome, files |-> {},
                  todo |-> {}, file |-> None, gone |-> {}, diffs |-> NoDiffs]

Declared(u) == \E b \in Body : <<u[2], b>> \in nodes[u[1]]
Node(u) == u \in proxies \/ Declared(u)

Init ==
    /\ disk = Initial
    /\ clean = {f \in File : Initial[f] # None}
    /\ edits = 0
    /\ hash = [f \in File |-> None]
    /\ nodes = [f \in File |-> {}]
    /\ proxies = {} /\ edges = {}
    /\ vectors = [f \in File |-> {}]
    /\ run = Idle("none")
    /\ aborts = 0 /\ broken = {} /\ touched = {}

-----------------------------------------------------------------------------
(* The developer *)

Edit(f, c) ==
    /\ edits < MaxEdits /\ disk[f] # c
    /\ edits' = edits + 1
    /\ disk' = [disk EXCEPT ![f] = c]
    /\ clean' = clean \ {f}
    /\ touched' = touched \cup {f}
    /\ UNCHANGED <<graphVars, vectors, run, aborts, broken>>

Commit(f) ==
    /\ f \notin clean /\ disk[f] # None
    /\ clean' = clean \cup {f}
    /\ touched' = touched \cup {f}
    /\ UNCHANGED <<disk, edits, graphVars, vectors, run, aborts, broken>>

-----------------------------------------------------------------------------
(* Collecting and tombstones *)

Indexed == {f \in File : hash[f] # None}

\* Fault: a file is stale when it is no longer on disk.
StaleOnDisk(files) == {f \in Indexed : disk[f] = None}

Stale(files) == Indexed \ files

\* collect_files keeps what git tracks and reports unmodified.
Collect ==
    /\ run.at = "rest"
    /\ run' = [Idle("none") EXCEPT !.at = "tombstone", !.files = clean,
                                   !.todo = Stale(clean)]
    /\ touched' = {}
    /\ UNCHANGED <<treeVars, graphVars, vectors, aborts, broken>>

\* Edges with no end in U: what DETACH DELETE leaves.
Detached(U) == {e \in edges : e[2] \notin U /\ e[3] \notin U}
UidsOf(f, N) == {<<f, n>> : n \in N}
ProxiesOf(f) == {u \in proxies : u[1] = f}
Existing(f) == Names(nodes[f]) \cup {u[2] : u \in ProxiesOf(f)}

\* tombstone_indexed_file: the uids are read, then the graph forgets them,
\* then the vector table.
Tombstone(f) ==
    /\ run.at = "tombstone" /\ f \in run.todo
    /\ hash' = [hash EXCEPT ![f] = None]
    /\ nodes' = [nodes EXCEPT ![f] = {}]
    /\ proxies' = proxies \ ProxiesOf(f)
    /\ edges' = Detached(UidsOf(f, Existing(f)))
    /\ run' = [run EXCEPT !.at = "forget", !.todo = @ \ {f}, !.file = f,
                          !.gone = Existing(f)]
    /\ UNCHANGED <<treeVars, vectors, histVars>>

Forget ==
    /\ run.at = "forget"
    /\ vectors' = [vectors EXCEPT
                     ![run.file] = {s \in @ : s[1] \notin run.gone}]
    /\ run' = [run EXCEPT !.at = "tombstone", !.file = None, !.gone = {}]
    /\ UNCHANGED <<treeVars, graphVars, histVars>>

-----------------------------------------------------------------------------
(* Hashing and parsing *)

ChangedFiles(files) == {f \in files : disk[f] # None /\ disk[f] # hash[f]}

\* _finish_tombstone_only, _finish_no_indexable_files and
\* _finish_unchanged_files: the run is over.
NothingChanged ==
    /\ run.at = "tombstone" /\ run.todo = {}
    /\ ChangedFiles(run.files) = {}
    /\ run' = [Idle("done") EXCEPT !.files = run.files]
    /\ UNCHANGED <<treeVars, graphVars, vectors, histVars>>

Hash ==
    /\ run.at = "tombstone" /\ run.todo = {}
    /\ ChangedFiles(run.files) # {}
    /\ run' = [run EXCEPT !.at = "parse", !.todo = ChangedFiles(run.files)]
    /\ UNCHANGED <<treeVars, graphVars, vectors, histVars>>

\* Fault: a symbol is compared by its uid alone.
ParsedByName(f) ==
    [content |-> disk[f],
     changed |-> {s \in disk[f].symbols : s[1] \notin Existing(f)},
     removed |-> Existing(f) \ Names(disk[f].symbols)]

\* _parse_one: the file is read again, and compared with the symbol index
\* preloaded from the graph, which holds the proxies too.
Parsed(f) ==
    [content |-> disk[f],
     changed |-> disk[f].symbols \ nodes[f],
     removed |-> Existing(f) \ Names(disk[f].symbols)]

\* A file that is gone meanwhile is skipped; so is one that fails to parse in
\* the process pool.  (In the thread pool its exception aborts the run.)
Parse(failed) ==
    /\ run.at = "parse" /\ failed \subseteq run.todo
    /\ LET read == {f \in run.todo \ failed : disk[f] # None} IN
       run' = [run EXCEPT
                 !.at = "upsert", !.todo = read,
                 !.files = @ \ failed,
                 !.diffs = [f \in File |->
                              IF f \in read THEN Parsed(f) ELSE None]]
    /\ UNCHANGED <<treeVars, graphVars, vectors, histVars>>

-----------------------------------------------------------------------------
(* Writing the nodes of every file *)

Parsing(f) == run.diffs[f] # None
Diffed == {f \in File : Parsing(f)}
Now(f) == run.diffs[f].content

\* The nodes S with those of T, which replace what has their names.
Merged(S, T) == {s \in S : s[1] \notin Names(T)} \cup T

\* upsert_file_structure: one transaction for the hash and the symbols.
Upsert(f) ==
    /\ run.at = "upsert" /\ f \in run.todo
    /\ hash' = [hash EXCEPT ![f] = Now(f)]
    /\ nodes' = [nodes EXCEPT ![f] = Merged(@, run.diffs[f].changed)]
    /\ run' = [run EXCEPT !.at = "prune", !.file = f]
    /\ UNCHANGED <<treeVars, proxies, edges, vectors, histVars>>

\* prune_symbols_for_file, with the symbols to keep.  A proxy is never one.
PruneTo(f, keep) ==
    /\ nodes' = [nodes EXCEPT ![f] = {s \in @ : s[1] \in keep}]
    /\ proxies' = proxies \ ProxiesOf(f)
    /\ edges' = Detached(UidsOf(f, Existing(f) \ keep))

Prune ==
    /\ run.at = "prune"
    /\ PruneTo(run.file, Names(Now(run.file).symbols))
    /\ run' = [run EXCEPT !.at = "upsert", !.todo = @ \ {run.file},
                          !.file = None]
    /\ UNCHANGED <<treeVars, hash, vectors, histVars>>

NodesWritten ==
    /\ run.at = "upsert" /\ run.todo = {}
    /\ run' = [run EXCEPT !.at = "edges"]
    /\ UNCHANGED <<treeVars, graphVars, vectors, histVars>>

-----------------------------------------------------------------------------
(* Clearing and linking *)

\* edge_refresh_uids: the changed symbols, or all of them.
Refreshed(f, content, changed) ==
    UidsOf(f, Names(IF changed = {} THEN content.symbols ELSE changed))

OfKind(k) == {e \in edges : e[1] = k}
From(U) == {e \in edges : e[2] \in U}

\* Fault: the clearing comes after the proxies.
LateClear(at) ==
    CASE at = "edges" -> "proxy" [] at = "proxy" -> "clear"
      [] at = "clear" -> "attr" [] at = "attr" -> "type"
      [] at = "type" -> "alias" [] OTHER -> "embed"

\* What the pipeline calls after a phase.
After(at) ==
    CASE at = "edges" -> "clear" [] at = "clear" -> "proxy"
      [] at = "proxy" -> "attr" [] at = "attr" -> "type"
      [] at = "type" -> "alias" [] OTHER -> "embed"

\* clear_outgoing_symbol_edges; the calls are linked next.
ClearOutgoing ==
    /\ run.at = "edges"
    /\ edges' = edges \ (OfKind("alias") \cap
          From(UNION {Refreshed(f, Now(f), run.diffs[f].changed) :
                        f \in Diffed}))
    /\ run' = [run EXCEPT !.at = After(@)]
    /\ UNCHANGED <<treeVars, hash, nodes, proxies, vectors, histVars>>

\* Fault: what the deleters of a file clear reaches edges into the file.
ClearedBothEnds(f, kinds) ==
    {e \in edges : e[1] \in kinds /\ (e[2][1] = f \/ e[3][1] = f)}

\* Fault: index_file links without clearing.
ClearedInRuns(f, kinds) ==
    {e \in edges : run.at # "rest" /\ e[1] \in kinds /\ e[2][1] = f}

\* What the deleters of a file clear, for kinds of edges.
Cleared(f, kinds) == {e \in edges : e[1] \in kinds /\ e[2][1] = f}

\* _clear_derived_edges_for_diffs: the proxies with all their edges, and
\* the outgoing edges of the kinds that have a deleter.
ClearDerived ==
    /\ run.at = "clear"
    /\ LET gone == {u \in proxies : u[1] \in Diffed} IN
       /\ proxies' = proxies \ gone
       /\ edges' = Detached(gone)
                   \ UNION {Cleared(f, {"attr", "type"}) : f \in Diffed}
    /\ run' = [run EXCEPT !.at = After(@)]
    /\ UNCHANGED <<treeVars, hash, nodes, vectors, histVars>>

\* The linkers match both ends among the nodes U, and merge the edge.
LinksAmong(k, f, content, U) ==
    {<<k, <<f, x[1]>>, x[2]>> : x \in {y \in content.facts[k] : y[2] \in U}}

Present == {u \in Uid : Node(u)}
Symbols == {u \in Uid : Declared(u)}

\* A proxy is of a class, a function or a method; other facts may name any
\* node, and what a package exports or an attribute is read from may be a
\* proxy.
Targets(k) == IF k = "proxy" THEN Symbols ELSE Present
Links(k, f, content) == LinksAmong(k, f, content, Targets(k))

Bound(f, content) == UidsOf(f, Names(content.facts["proxy"]))

\* _proxy_binding_phase: the nodes, and PROXY_OF where there is a target.
LinkProxies ==
    /\ run.at = "proxy"
    /\ proxies' = proxies \cup UNION {Bound(f, Now(f)) : f \in Diffed}
    /\ edges' = edges \cup UNION {Links("proxy", f, Now(f)) : f \in Diffed}
    /\ run' = [run EXCEPT !.at = After(@)]
    /\ UNCHANGED <<treeVars, hash, nodes, vectors, histVars>>

\* The other phases that only create.
LinkFacts(k) ==
    /\ run.at = k /\ k # "proxy"
    /\ edges' = edges \cup UNION {Links(k, f, Now(f)) : f \in Diffed}
    /\ run' = [run EXCEPT !.at = After(@)]
    /\ UNCHANGED <<treeVars, hash, nodes, proxies, vectors, histVars>>

-----------------------------------------------------------------------------
(* Vectors, and the end of a run *)

\* Fault: only symbols the table does not have yet.
EmbedNew(f, changed) ==
    vectors[f] \cup {s \in changed : s[1] \notin Names(vectors[f])}

\* upsert_symbol_embeddings
Embedded(f, changed) == Merged(vectors[f], changed)

Embed ==
    /\ run.at = "embed"
    /\ vectors' = [f \in File |->
                     IF Parsing(f) THEN Embedded(f, run.diffs[f].changed)
                                   ELSE vectors[f]]
    /\ run' = [run EXCEPT !.at = "unembed"]
    /\ UNCHANGED <<treeVars, graphVars, histVars>>

\* delete_symbol_embeddings for what was removed; the run is complete.
Unembed ==
    /\ run.at = "unembed"
    /\ vectors' = [f \in File |->
                     IF Parsing(f)
                     THEN {s \in vectors[f] :
                             s[1] \notin run.diffs[f].removed}
                     ELSE vectors[f]]
    /\ run' = [Idle("done") EXCEPT !.files = run.files]
    /\ UNCHANGED <<treeVars, graphVars, histVars>>

\* What a run that stops now leaves between two of its writes.
HalfWritten ==
    CASE run.at = "forget" -> {run.file}
      [] run.at = "upsert" -> Diffed \ run.todo
      [] run.at = "prune" -> (Diffed \ run.todo) \cup {run.file}
      [] run.at \in {"tombstone", "parse"} -> {}
      [] OTHER -> Diffed

\* A store raises, or the process dies: nothing is caught, nothing undone.
Abort ==
    /\ run.at # "rest" /\ aborts < MaxAborts
    /\ aborts' = aborts + 1
    /\ broken' = broken \cup HalfWritten
    /\ run' = Idle("aborted")
    /\ UNCHANGED <<treeVars, graphVars, vectors, touched>>

-----------------------------------------------------------------------------
(* The worker between two runs *)

\* What index_file relinks: proxies and "type".  It does not know the rest.
Relinks == {"proxy", "type"}

\* index_file: the gate, the delta, the nodes, the edges, the vectors.
SaveFile(f) ==
    /\ run.at = "rest" /\ f \in clean
    /\ LET new == Parsed(f)
           keep == Names(disk[f].symbols)
           bound == (proxies \ ProxiesOf(f)) \cup Bound(f, disk[f])
           symbols == {u \in Symbols : u[1] # f} \cup UidsOf(f, keep)
           there(k) == IF k = "proxy" THEN symbols ELSE symbols \cup bound
       IN
       /\ hash' = [hash EXCEPT ![f] = disk[f]]
       /\ nodes' = [nodes EXCEPT ![f] =
                      {s \in Merged(@, new.changed) : s[1] \in keep}]
       /\ proxies' = bound
       /\ edges' = (Detached(UidsOf(f, Existing(f) \ keep))
                    \ ((OfKind("alias") \cap
                          From(Refreshed(f, disk[f], new.changed)))
                       \cup Cleared(f, Relinks)))
                   \cup UNION {LinksAmong(k, f, disk[f], there(k)) :
                                 k \in Relinks}
       /\ vectors' = [vectors EXCEPT ![f] =
                        {s \in Embedded(f, new.changed) :
                           s[1] \notin new.removed}]
    /\ UNCHANGED <<treeVars, run, histVars>>

Developer ==
    \E f \in File :
        \/ \E c \in Contents[f] \cup {None} : Edit(f, c)
        \/ Commit(f)

Run ==
    \/ Collect
    \/ \E f \in File : Tombstone(f) \/ Upsert(f)
    \/ Forget \/ NothingChanged \/ Hash
    \/ \E failed \in SUBSET run.todo : Parse(failed)
    \/ Prune \/ NodesWritten
    \/ ClearOutgoing \/ ClearDerived \/ LinkProxies
    \/ \E k \in Kind : LinkFacts(k)
    \/ Embed \/ Unembed

Next == Developer \/ Run \/ Abort \/ \E f \in File : SaveFile(f)

Spec == Init /\ [][Next]_vars

-----------------------------------------------------------------------------
(* Properties *)

TypeOK ==
    /\ disk \in [File -> Content \cup {None}] /\ clean \subseteq File
    /\ edits \in 0..MaxEdits /\ aborts \in 0..MaxAborts
    /\ hash \in [File -> Content \cup {None}]
    /\ nodes \in [File -> SUBSET (Name \X Body)]
    /\ vectors \in [File -> SUBSET (Name \X Body)]
    /\ proxies \subseteq Uid
    /\ edges \subseteq Kind \X Present \X Present
    /\ run \in RunType
    /\ broken \subseteq File /\ touched \subseteq File

\* A stored hash says that the content it is of is in the graph.  The next
\* run skips the file on the strength of it, so this holds at every step, in
\* the middle of a run and after one that stopped anywhere, and although the
\* file may change between the run's hash phase and its parse
\* (pipeline.py:846-850, phases.py:341).
HashIsBacked ==
    \A f \in Indexed : hash[f].symbols \subseteq nodes[f]

\* Between two runs the two stores hold, for every file that no aborted run
\* left half written, the symbols of the content last indexed and no others:
\* none for a file that was tombstoned, whatever was saved, committed,
\* tombstoned or brought back since (phases.py:327-382, 1042-1092;
\* workspace_paths.py:214-248).
StoresAgree ==
    run.at = "rest" =>
        \A f \in File \ broken :
            /\ nodes[f] = IF f \in Indexed THEN hash[f].symbols ELSE {}
            /\ vectors[f] = nodes[f]

\* A run that completed has brought the index to the committed tree: every
\* file not edited since it began is indexed as it is, or not at all when git
\* does not report it clean.  Later saves do not undo that
\* (pipeline.py:803-850, workspace_paths.py:251-277).
RunCatchesUp ==
    run.at = "rest" /\ run.outcome = "done" =>
        \A f \in File \ touched :
            /\ f \in run.files => hash[f] = disk[f]
            /\ f \notin clean => hash[f] = None

\* When a run has linked, the derived edges out of each file it parsed are
\* the file's facts with a target in the graph, no edge less and no edge
\* more, for every kind: what was cleared is linked again and nothing linked
\* is cleared, although targets live in files parsed by the same run, tombs
\* and prunes took edges on the way and a save linked only half the kinds
\* (pipeline.py:528-535, phases.py:348-352).  REFERENCES is cleared for the
\* changed symbols alone, hence a file that an aborted run left half written
\* keeps what its symbols referred to before.
RunLinksItsFiles ==
    run.at = "embed" =>
        \A f \in Diffed : \A k \in Kind :
            \/ k = "alias" /\ f \in broken
            \/ {e \in OfKind(k) : e[2][1] = f} = Links(k, f, Now(f))

\* Between runs, no edge of the kinds both paths link says what the file it
\* leaves no longer says.
SharedEdgesAreFacts ==
    run.at = "rest" =>
        \A e \in edges :
            e[1] \in Relinks /\ e[2][1] \notin broken =>
                /\ e[2][1] \in Indexed
                /\ <<e[2][2], e[3]>> \in hash[e[2][1]].facts[e[1]]

\* Re-indexing a file costs no edge that another file holds into a symbol
\* which stays: the other file is not parsed again and nobody would link the
\* edge anew.  This is what the symbol diff is for (workspace.py:285-324).
\* Edges into a proxy are lost with its node, which is deleted and created
\* again whenever its file is indexed.
IncomingEdgesSurvive ==
    [][\A e \in edges \ edges' :
          \/ IF run.at = "rest" THEN SaveFile(e[2][1]) ELSE e[2][1] \in Diffed
          \/ ~Node(e[2])' \/ ~Declared(e[3])']_vars
=============================================================================
