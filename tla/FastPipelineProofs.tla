------------------------- MODULE FastPipelineProofs -------------------------
(***************************************************************************)
(* Proofs about FastPipeline, for any files, contents and histories of     *)
(* edits, saves and aborted runs.                                          *)
(*                                                                         *)
(* The argument follows one file through a run.  Until its nodes are       *)
(* written it is as it was (Untouched), and the delta parsed for it is     *)
(* still the one between the graph and its new content, because nobody     *)
(* else writes.  From then on its nodes are those of its content, and the  *)
(* vectors are the same once what is still due to them is applied          *)
(* (VectorsDue).  A file whose writes stop in between is in broken.        *)
(***************************************************************************)
EXTENDS FastPipeline, TLAPS

SymbolsOf(c) == IF c = None THEN {} ELSE c.symbols

\* The file's delta is parsed, its nodes are not written yet.
Waiting(f) ==
    /\ run.at \in {"upsert", "prune"} /\ f \in run.todo
    /\ ~(run.at = "prune" /\ run.file = f)

Untouched(f) ==
    /\ ~(run.at = "forget" /\ run.file = f)
    /\ Parsing(f) => Waiting(f)

Settled(f) == nodes[f] = SymbolsOf(hash[f]) /\ vectors[f] = nodes[f]

\* What the vectors become when the rest of the delta is applied.
VectorsDue(f) ==
    {s \in IF run.at = "unembed" THEN vectors[f]
                                 ELSE Merged(vectors[f], run.diffs[f].changed) :
        s[1] \notin run.diffs[f].removed} = Now(f).symbols

\* Everything indexed, parsed or on disk is one of the file's contents.
Known ==
    \A f \in File :
        /\ disk[f] \in Contents[f] \cup {None}
        /\ hash[f] \in Contents[f] \cup {None}
        /\ f \in clean => disk[f] # None
        /\ Parsing(f) => Now(f) \in Contents[f]

Shape ==
    /\ run.at \in {"forget", "prune"} => run.file \in File
    /\ run.at = "prune" => run.file \in run.todo
    /\ run.at \in {"upsert", "prune"} => run.todo \subseteq Diffed
    /\ run.at \in {"rest", "tombstone", "forget", "parse"} => Diffed = {}
    /\ \A f \in Diffed :
         IF Waiting(f) THEN run.diffs[f].changed = Now(f).symbols \ nodes[f]
                       ELSE hash[f] = Now(f)

FileHolds(f) ==
    /\ Untouched(f) => Settled(f)
    /\ run.at = "forget" /\ run.file = f =>
         hash[f] = None /\ nodes[f] = {} /\ Names(vectors[f]) \subseteq run.gone
    /\ Parsing(f) /\ ~Waiting(f) =>
         IF run.at = "prune" /\ run.file = f
         THEN {s \in nodes[f] : s[1] \in Names(Now(f).symbols)} = Now(f).symbols
         ELSE nodes[f] = Now(f).symbols
    /\ Parsing(f) => VectorsDue(f)

FilesHold == \A f \in File \ broken : FileHolds(f)

IInv == TypeOK /\ Known /\ Shape /\ HashIsBacked /\ FilesHold

-----------------------------------------------------------------------------
\* Symbols of one content are told apart by their names.
LEMMA ContentType ==
    ASSUME NEW f \in File, NEW c \in Contents[f]
    PROVE  /\ c \in Content /\ c # None
           /\ c.symbols \subseteq Name \X Body
           /\ \A s, t \in c.symbols : s[1] = t[1] => s = t
           /\ \A k \in Kind : c.facts[k] \subseteq Name \X Uid
           /\ \A k \in Kind \ {"proxy"} :
                Names(c.facts[k]) \subseteq Names(c.symbols)
<1>1. c \in Content /\ c # None
  BY PipelineConstants DEF PipelineConstants
<1>2. /\ c.symbols \subseteq Name \X Body
      /\ \A k \in Kind : c.facts[k] \subseteq Name \X Uid
  BY <1>1 DEF Content
<1>3. /\ \A s, t \in c.symbols : s[1] = t[1] => s = t
      /\ \A k \in Kind \ {"proxy"} :
           Names(c.facts[k]) \subseteq Names(c.symbols)
  BY FactsFollowBodies, Zenon DEF FactsFollowBodies
<1> QED  BY <1>1, <1>2, <1>3

\* Merging what a content has new into the nodes yields all of it.
LEMMA MergedHasAll ==
    ASSUME NEW S, NEW C, \A s, t \in C : s[1] = t[1] => s = t
    PROVE  C \subseteq Merged(S, C \ S)
  BY DEF Merged, Names

\* And nothing else under its names, when names tell nodes apart.
LEMMA MergedIsContent ==
    ASSUME NEW S, NEW C,
           \A s, t \in S : s[1] = t[1] => s = t,
           \A s, t \in C : s[1] = t[1] => s = t
    PROVE  {s \in Merged(S, C \ S) : s[1] \in Names(C)} = C
<1>1. C \subseteq Merged(S, C \ S)
  BY MergedHasAll
<1>2. \A s \in C : s[1] \in Names(C)
  BY DEF Names
<1>3. ASSUME NEW s \in Merged(S, C \ S), s[1] \in Names(C)
      PROVE  s \in C
  <2>1. PICK c \in C : c[1] = s[1]
    BY <1>3 DEF Names
  <2>2. CASE s \in C \ S
    BY <2>2
  <2>3. CASE s \in S /\ s[1] \notin Names(C \ S)
    <3>1. c \in S
      BY <2>1, <2>3 DEF Names
    <3> QED  BY <2>1, <2>3, <3>1
  <2> QED  BY <2>2, <2>3 DEF Merged
<1> QED  BY <1>1, <1>2, <1>3

\* What a file has, by name.
LEMMA ExistingType ==
    ASSUME TypeOK, NEW f \in File
    PROVE  /\ Existing(f) \subseteq Name
           /\ \A n \in Name : <<f, n>> \in Present <=> n \in Existing(f)
           /\ \A s \in nodes[f] : s[1] \in Existing(f)
<1>1. nodes[f] \subseteq Name \X Body /\ proxies \subseteq File \X Name
  BY DEF TypeOK, Uid
<1>2. \A u \in proxies : u = <<u[1], u[2]>> /\ u[1] \in File /\ u[2] \in Name
  BY <1>1
<1>3. \A s \in nodes[f] : s = <<s[1], s[2]>> /\ s[1] \in Name /\ s[2] \in Body
  BY <1>1
<1>4. Existing(f) \subseteq Name
  BY <1>2, <1>3 DEF Existing, Names, ProxiesOf
<1>5. ASSUME NEW n \in Name
      PROVE  <<f, n>> \in Present <=> n \in Existing(f)
  <2>1. <<f, n>> \in Present <=>
           <<f, n>> \in proxies \/ \E b \in Body : <<n, b>> \in nodes[f]
    BY DEF Present, Node, Declared, Uid
  <2>2. <<f, n>> \in proxies <=> \E u \in ProxiesOf(f) : u[2] = n
    BY <1>2 DEF ProxiesOf
  <2>3. (\E b \in Body : <<n, b>> \in nodes[f]) <=> n \in Names(nodes[f])
    BY <1>3 DEF Names
  <2> QED  BY <2>1, <2>2, <2>3 DEF Existing
<1> QED  BY <1>4, <1>5 DEF Existing, Names

\* Parsing a file yields a delta.
LEMMA ParsedType ==
    ASSUME TypeOK, Known, NEW f \in File, disk[f] # None
    PROVE  /\ Parsed(f) \in Diff /\ Parsed(f) # None
           /\ Parsed(f).content = disk[f] /\ disk[f] \in Contents[f]
           /\ Parsed(f).changed = disk[f].symbols \ nodes[f]
           /\ Parsed(f).removed = Existing(f) \ Names(disk[f].symbols)
<1>1. disk[f] \in Contents[f]
  BY DEF Known
<1>2. disk[f] \in Content /\ disk[f].symbols \subseteq Name \X Body
  BY <1>1, ContentType
<1>3. Existing(f) \subseteq Name
  BY ExistingType
<1>4. Parsed(f) \in Diff
  BY <1>2, <1>3 DEF Parsed, Diff
<1> QED  BY <1>1, <1>4, PipelineConstants DEF Parsed, PipelineConstants, Diff

\* For a settled file the delta is what its vectors lack and have too many.
LEMMA DeltaIsDue ==
    ASSUME TypeOK, Known, NEW f \in File, disk[f] # None, Settled(f)
    PROVE  {s \in Merged(vectors[f], Parsed(f).changed) :
              s[1] \notin Parsed(f).removed} = disk[f].symbols
<1> DEFINE C == disk[f].symbols
<1> DEFINE S == nodes[f]
<1>1. disk[f] \in Contents[f]
  BY DEF Known
<1>2. \A s, t \in C : s[1] = t[1] => s = t
  BY <1>1, ContentType
<1>3. \A s, t \in S : s[1] = t[1] => s = t
  <2>1. CASE hash[f] = None
    BY <2>1 DEF Settled, SymbolsOf
  <2>2. CASE hash[f] # None
    <3>1. hash[f] \in Contents[f]
      BY <2>2 DEF Known
    <3>2. S = hash[f].symbols
      BY <2>2 DEF Settled, SymbolsOf
    <3> QED  BY <3>1, <3>2, ContentType
  <2> QED  BY <2>1, <2>2
<1>4. \A s \in S : s[1] \in Existing(f)
  BY ExistingType
<1>5. \A s \in Merged(S, C \ S) : s[1] \in Existing(f) \/ s[1] \in Names(C)
  BY <1>4 DEF Merged, Names
<1>6. {s \in Merged(S, C \ S) : s[1] \in Names(C)} = C
  BY <1>2, <1>3, MergedIsContent
<1>7. {s \in Merged(S, C \ S) : s[1] \notin Existing(f) \ Names(C)} = C
  BY <1>5, <1>6
<1> QED  BY <1>7, ParsedType DEF Settled

-----------------------------------------------------------------------------
(* Steps that write nothing to the stores *)

\* Nothing is indexed and no run is under way.
LEMMA InitHolds == Init => IInv
<1> SUFFICES ASSUME Init PROVE IInv
  OBVIOUS
<1> USE DEF Init, Idle
<1>1. run \in RunType
  BY DEF RunType, Stage, NoDiffs
<1>4. TypeOK
  BY <1>1, PipelineConstants DEF TypeOK, PipelineConstants
<1>5. Diffed = {}
  BY DEF Diffed, Parsing, NoDiffs
<1>6. Known
  BY <1>5, PipelineConstants DEF Known, PipelineConstants, Diffed
<1>7. Shape
  BY <1>5 DEF Shape
<1>8. HashIsBacked
  BY DEF HashIsBacked, Indexed
<1>9. FilesHold
  BY <1>5 DEF FilesHold, FileHolds, Untouched, Settled, SymbolsOf, Diffed
<1> QED  BY <1>4, <1>6, <1>7, <1>8, <1>9 DEF IInv

\* Edits of the working tree touch no store and no run.
LEMMA DeveloperKeeps ==
    ASSUME IInv, Developer
    PROVE  IInv'
<1>0. TypeOK /\ Known /\ Shape /\ HashIsBacked /\ FilesHold
  BY DEF IInv
<1>1. PICK f \in File : (\E c \in Contents[f] \cup {None} : Edit(f, c))
                        \/ Commit(f)
  BY DEF Developer
<1>2. UNCHANGED <<graphVars, vectors, run, aborts, broken>>
  BY <1>1 DEF Edit, Commit
<1>3. \A c \in Contents[f] \cup {None} : c \in Content \cup {None}
  BY ContentType
<1>4. TypeOK'
  <2>1. Present' = Present
    BY <1>2 DEF graphVars, Present, Node, Declared
  <2>2. /\ disk' \in [File -> Content \cup {None}] /\ clean' \subseteq File
        /\ edits' \in 0..MaxEdits /\ touched' \subseteq File
    BY <1>0, <1>1, <1>3, PipelineConstants
       DEF Edit, Commit, TypeOK, PipelineConstants
  <2> QED  BY <1>0, <1>2, <2>1, <2>2 DEF TypeOK, graphVars
<1>5. Known'
  BY <1>0, <1>1, <1>2 DEF Known, Edit, Commit, graphVars, TypeOK, Parsing, Now
<1>6. Shape' /\ HashIsBacked' /\ FilesHold'
  BY <1>0, <1>2
     DEF Shape, HashIsBacked, FilesHold, FileHolds, graphVars, Diffed,
         Parsing, Now, Waiting, Untouched, Settled, VectorsDue, Indexed, Merged
<1> QED  BY <1>4, <1>5, <1>6 DEF IInv

\* A step that leaves the stores alone and has no file half way: at, files
\* and todo are all that matters, and there are no diffs before or after.
LEMMA NoDiffSteps ==
    ASSUME IInv, UNCHANGED <<treeVars, graphVars, vectors, aborts, broken>>,
           run' \in RunType, touched' \subseteq File,
           Diffed = {}, run'.diffs = NoDiffs,
           run.at # "forget",
           run'.at \in {"rest", "tombstone", "parse"}
    PROVE  IInv'
<1>0. TypeOK /\ Known /\ Shape /\ HashIsBacked /\ FilesHold
  BY DEF IInv
<1>1. Diffed' = {} /\ (\A f \in File : ~Parsing(f) /\ ~Parsing(f)')
  BY DEF Diffed, Parsing, NoDiffs
<1>2. TypeOK'
  <2>1. Present' = Present
    BY DEF graphVars, Present, Node, Declared
  <2> QED  BY <1>0, <2>1 DEF TypeOK, graphVars, treeVars
<1>3. Known' /\ Shape' /\ HashIsBacked'
  BY <1>0, <1>1 DEF Known, Shape, HashIsBacked, Indexed, graphVars, treeVars
<1>4. FilesHold'
  <2> SUFFICES ASSUME NEW f \in File, f \notin broken
               PROVE  FileHolds(f)'
    BY DEF FilesHold
  <2>1. Settled(f)
    BY <1>0, <1>1 DEF FilesHold, FileHolds, Untouched
  <2>2. Settled(f)'
    BY <2>1 DEF Settled, graphVars
  <2> QED  BY <1>1, <2>2 DEF FileHolds
<1> QED  BY <1>2, <1>3, <1>4 DEF IInv

\* Collecting the files of a run and comparing their hashes.
LEMMA CollectAndHashKeep ==
    ASSUME IInv, Collect \/ NothingChanged \/ Hash
    PROVE  IInv'
<1>0. TypeOK /\ Shape
  BY DEF IInv
<1>1. run \in RunType
  BY <1>0 DEF TypeOK
<1>2. Diffed = {} /\ run.at \in {"rest", "tombstone"}
  BY <1>0 DEF Shape, Collect, NothingChanged, Hash
<1>3. run.diffs = NoDiffs
  <2>1. run.diffs \in [File -> Diff \cup {None}]
    BY <1>1 DEF RunType
  <2>2. \A f \in File : run.diffs[f] = None
    BY <1>2 DEF Diffed, Parsing
  <2> QED  BY <2>1, <2>2 DEF NoDiffs
<1>4. CASE Collect
  <2>1. run' = [at |-> "tombstone", outcome |-> "none", files |-> clean,
                todo |-> Stale(clean), file |-> None, gone |-> {},
                diffs |-> NoDiffs]
    BY <1>4 DEF Collect, Idle
  <2>2. Stale(clean) \subseteq File /\ clean \subseteq File
    BY <1>0 DEF Stale, Indexed, TypeOK
  <2>3. run' \in RunType
    BY <2>1, <2>2 DEF RunType, Stage, NoDiffs
  <2>4. /\ UNCHANGED <<treeVars, graphVars, vectors, aborts, broken>>
        /\ touched' \subseteq File /\ run.at # "forget"
    BY <1>4 DEF Collect
  <2>5. run'.diffs = NoDiffs /\ run'.at = "tombstone"
    BY <2>1
  <2> QED  BY <1>2, <2>3, <2>4, <2>5, NoDiffSteps
<1>5. CASE NothingChanged
  <2>1. run' = [at |-> "rest", outcome |-> "done", files |-> run.files,
                todo |-> {}, file |-> None, gone |-> {}, diffs |-> NoDiffs]
    BY <1>5 DEF NothingChanged, Idle
  <2>2. run' \in RunType
    BY <1>1, <2>1 DEF RunType, Stage, NoDiffs
  <2> QED  BY <1>0, <1>2, <1>5, <2>1, <2>2, NoDiffSteps
           DEF NothingChanged, histVars, TypeOK
<1>6. CASE Hash
  <2>1. ChangedFiles(run.files) \subseteq File
    BY <1>1 DEF ChangedFiles, RunType
  <2>2. run' \in RunType /\ run'.diffs = NoDiffs /\ run'.at = "parse"
    BY <1>1, <1>3, <1>6, <2>1 DEF Hash, RunType, Stage
  <2> QED  BY <1>0, <1>2, <1>6, <2>2, NoDiffSteps DEF Hash, histVars, TypeOK
<1> QED  BY <1>4, <1>5, <1>6

\* Parsing: a file that fails leaves the run, the others stay in it.
LEMMA ParseKeeps ==
    ASSUME IInv, NEW failed \in SUBSET run.todo, Parse(failed)
    PROVE  IInv'
<1>0. TypeOK /\ Known /\ Shape /\ HashIsBacked /\ FilesHold
  BY DEF IInv
<1> DEFINE read == {f \in run.todo \ failed : disk[f] # None}
<1>1. run \in RunType /\ run.todo \subseteq File
  BY <1>0 DEF TypeOK, RunType
<1>2. Diffed = {} /\ run.at = "parse"
  BY <1>0 DEF Shape, Parse
<1>3. /\ run'.at = "upsert" /\ run'.todo = read
      /\ run'.diffs = [f \in File |-> IF f \in read THEN Parsed(f) ELSE None]
      /\ UNCHANGED <<treeVars, graphVars, vectors, histVars>>
  BY <1>1 DEF Parse, RunType
<1>4. \A f \in read : Parsed(f) \in Diff /\ Parsed(f) # None
  BY <1>0, <1>1, ParsedType
<1>5. run' \in RunType
  <2>1. run'.diffs \in [File -> Diff \cup {None}]
    BY <1>3, <1>4
  <2> QED  BY <1>1, <1>3, <2>1 DEF Parse, RunType, Stage
<1>6. /\ Diffed' = read
      /\ \A f \in File : Parsing(f)' <=> f \in read
      /\ \A f \in read : Waiting(f)' /\ run'.diffs[f] = Parsed(f)
      /\ \A f \in read : Now(f)' = disk[f]
  <2>1. \A f \in read : run'.diffs[f] = Parsed(f)
    BY <1>1, <1>3
  <2>2. \A f \in File : Parsing(f)' <=> f \in read
    BY <1>3, <1>4 DEF Parsing
  <2> QED  BY <1>1, <1>3, <2>1, <2>2 DEF Diffed, Waiting, Now, Parsed
<1>7. TypeOK'
  <2>1. Present' = Present
    BY <1>3 DEF graphVars, Present, Node, Declared
  <2> QED  BY <1>0, <1>3, <1>5, <2>1 DEF TypeOK, graphVars, treeVars, histVars
<1>8. Known'
  BY <1>0, <1>1, <1>3, <1>6 DEF Known, graphVars, treeVars
<1>9. Shape'
  BY <1>0, <1>1, <1>3, <1>6, ParsedType DEF Shape, graphVars
<1>10. HashIsBacked'
  BY <1>0, <1>3 DEF HashIsBacked, Indexed, graphVars
<1>11. FilesHold'
  <2> SUFFICES ASSUME NEW f \in File, f \notin broken
               PROVE  FileHolds(f)'
    BY <1>3 DEF FilesHold, histVars
  <2>1. Settled(f)
    BY <1>0, <1>2 DEF FilesHold, FileHolds, Untouched, Diffed
  <2>2. Settled(f)'
    BY <2>1, <1>3 DEF Settled, graphVars
  <2>3. ASSUME f \in read PROVE VectorsDue(f)'
    BY <1>0, <1>1, <1>3, <1>6, <2>1, <2>3, DeltaIsDue
       DEF VectorsDue, Merged
  <2> QED  BY <1>3, <1>6, <2>2, <2>3 DEF FileHolds
<1> QED  BY <1>7, <1>8, <1>9, <1>10, <1>11 DEF IInv

\* From the nodes to the edges: every file of the run is upserted by then.
LEMMA NodesWrittenKeeps ==
    ASSUME IInv, NodesWritten
    PROVE  IInv'
<1>0. TypeOK /\ Known /\ Shape /\ HashIsBacked /\ FilesHold
  BY DEF IInv
<1>1. run \in RunType
  BY <1>0 DEF TypeOK
<1>2. /\ run.at = "upsert" /\ run.todo = {} /\ run'.at = "edges"
      /\ run'.diffs = run.diffs /\ run'.todo = {} /\ run' \in RunType
      /\ UNCHANGED <<treeVars, graphVars, vectors, histVars>>
  BY <1>1 DEF NodesWritten, RunType, Stage
<1>3. TypeOK'
  <2>1. Present' = Present
    BY <1>2 DEF graphVars, Present, Node, Declared
  <2> QED  BY <1>0, <1>2, <2>1 DEF TypeOK, graphVars, treeVars, histVars
<1>4. Known' /\ HashIsBacked'
  BY <1>0, <1>2 DEF Known, HashIsBacked, Indexed, Parsing, Now, graphVars,
                    treeVars
<1>5. Shape'
  BY <1>0, <1>2 DEF Shape, Diffed, Parsing, Now, Waiting, graphVars
<1>6. FilesHold'
  BY <1>0, <1>2
     DEF FilesHold, FileHolds, Diffed, Parsing, Now, Waiting, Untouched,
         Settled, VectorsDue, Merged, graphVars, histVars
<1> QED  BY <1>3, <1>4, <1>5, <1>6 DEF IInv

\* A run that breaks off leaves the stores as they are.
LEMMA AbortKeeps ==
    ASSUME IInv, Abort
    PROVE  IInv'
<1>0. TypeOK /\ Known /\ Shape /\ HashIsBacked /\ FilesHold
  BY DEF IInv
<1>1. /\ run.at # "rest" /\ aborts' = aborts + 1 /\ aborts < MaxAborts
      /\ broken' = broken \cup HalfWritten /\ run' = Idle("aborted")
      /\ UNCHANGED <<treeVars, graphVars, vectors, touched>>
  BY DEF Abort
<1>2. /\ run'.at = "rest" /\ run'.diffs = NoDiffs /\ run' \in RunType
  BY <1>1 DEF Idle, RunType, Stage, NoDiffs
<1>3. Diffed' = {} /\ \A f \in File : ~Parsing(f)'
  BY <1>2 DEF Diffed, Parsing, NoDiffs
<1>4. HalfWritten \subseteq File
  BY <1>0 DEF HalfWritten, Diffed, Shape
<1>5. TypeOK'
  <2>1. Present' = Present
    BY <1>1 DEF graphVars, Present, Node, Declared
  <2> QED  BY <1>0, <1>1, <1>2, <1>4, <2>1, PipelineConstants
           DEF TypeOK, graphVars, treeVars, PipelineConstants
<1>6. Known' /\ HashIsBacked' /\ Shape'
  BY <1>0, <1>1, <1>2, <1>3 DEF Known, HashIsBacked, Indexed, Shape,
                                graphVars, treeVars
<1>7. FilesHold'
  <2> SUFFICES ASSUME NEW f \in File, f \notin broken, f \notin HalfWritten
               PROVE  FileHolds(f)'
    BY <1>1 DEF FilesHold
  <2>1. Untouched(f)
    BY <1>0 DEF HalfWritten, Untouched, Waiting, Diffed, Shape
  <2>2. Settled(f)
    BY <1>0, <2>1 DEF FilesHold, FileHolds
  <2>3. Settled(f)'
    BY <1>1, <2>2 DEF Settled, graphVars
  <2> QED  BY <1>2, <1>3, <2>3 DEF FileHolds
<1> QED  BY <1>5, <1>6, <1>7 DEF IInv

-----------------------------------------------------------------------------
(* Steps that write to the graph *)

\* DETACH DELETE leaves only edges whose ends are left.
LEMMA DetachedEnds ==
    ASSUME TypeOK, NEW U
    PROVE  Detached(U) \subseteq Kind \X (Present \ U) \X (Present \ U)
  BY DEF Detached, TypeOK

\* An edge is linked from a fact of the content to a node of U.
LEMMA LinkEnds ==
    ASSUME NEW f \in File, NEW c \in Contents[f], NEW k \in Kind, NEW U
    PROVE  LinksAmong(k, f, c, U)
             \subseteq Kind \X UidsOf(f, Names(c.facts[k])) \X U
  BY DEF LinksAmong, UidsOf, Names

\* What a linker links ends at nodes.
LEMMA LinksEnds ==
    ASSUME NEW f \in File, NEW c \in Contents[f], NEW k \in Kind
    PROVE  Links(k, f, c) \subseteq Kind \X UidsOf(f, Names(c.facts[k])) \X Present
<1>1. Targets(k) \subseteq Present
  BY DEF Targets, Symbols, Present, Node
<1>2. LinksAmong(k, f, c, Targets(k))
        \subseteq Kind \X UidsOf(f, Names(c.facts[k])) \X Targets(k)
  BY LinkEnds
<1> QED  BY <1>1, <1>2 DEF Links

\* Symbols that are nodes have present uids.
LEMMA NodesPresent ==
    ASSUME TypeOK, NEW f \in File, NEW S, S \subseteq nodes[f]
    PROVE  UidsOf(f, Names(S)) \subseteq Present
<1> SUFFICES ASSUME NEW s \in S PROVE <<f, s[1]>> \in Present
  BY DEF UidsOf, Names
<1>1. s[1] \in Existing(f) /\ s[1] \in Name
  BY ExistingType DEF TypeOK
<1> QED  BY <1>1, ExistingType

\* What leaves the nodes of a file when only keep stays.
LEMMA PresentAfterRemoval ==
    ASSUME TypeOK, NEW f \in File, NEW keep,
           nodes' = [nodes EXCEPT ![f] = {s \in @ : s[1] \in keep}],
           proxies' = proxies \ ProxiesOf(f)
    PROVE  Present \ UidsOf(f, Existing(f) \ keep) \subseteq
             Present' \cup UidsOf(f, keep)
<1> SUFFICES ASSUME NEW u \in Present, u \notin UidsOf(f, Existing(f) \ keep),
                    u \notin UidsOf(f, keep)
             PROVE  u \in Present'
  OBVIOUS
<1>1. u \in Uid /\ u = <<u[1], u[2]>> /\ u[1] \in File /\ u[2] \in Name
  BY DEF Present, Uid
<1>2. u[1] # f
  <2>1. ASSUME u[1] = f PROVE FALSE
    <3>1. u[2] \in Existing(f)
      BY <1>1, <2>1, ExistingType
    <3> QED  BY <1>1, <2>1, <3>1 DEF UidsOf
  <2> QED  BY <2>1
<1>3. nodes'[u[1]] = nodes[u[1]] /\ (u \in proxies => u \in proxies')
  BY <1>1, <1>2 DEF TypeOK, ProxiesOf
<1> QED  BY <1>1, <1>3 DEF Present, Node, Declared

\* A file that is gone loses its nodes.
LEMMA TombstoneKeeps ==
    ASSUME IInv, NEW f \in File, Tombstone(f)
    PROVE  IInv'
<1>0. TypeOK /\ Known /\ Shape /\ HashIsBacked /\ FilesHold
  BY DEF IInv
<1>1. run \in RunType /\ Diffed = {} /\ run.at = "tombstone"
  BY <1>0 DEF TypeOK, Shape, Tombstone
<1>2. /\ run'.at = "forget" /\ run'.file = f /\ run'.gone = Existing(f)
      /\ run'.diffs = run.diffs /\ run' \in RunType
  <2>1. Existing(f) \subseteq Name
    BY <1>0, ExistingType
  <2> QED  BY <1>1, <2>1 DEF Tombstone, RunType, Stage
<1>3. /\ hash' = [hash EXCEPT ![f] = None]
      /\ nodes' = [nodes EXCEPT ![f] = {}]
      /\ proxies' = proxies \ ProxiesOf(f)
      /\ edges' = Detached(UidsOf(f, Existing(f)))
      /\ UNCHANGED <<treeVars, vectors, histVars>>
  BY DEF Tombstone
<1>4. Diffed' = {} /\ (\A g \in File : ~Parsing(g) /\ ~Parsing(g)')
  BY <1>1, <1>2 DEF Diffed, Parsing
<1>5. TypeOK'
  <2>1. nodes' = [nodes EXCEPT ![f] = {s \in @ : s[1] \in {}}]
    BY <1>0, <1>3 DEF TypeOK
  <2>2. Present \ UidsOf(f, Existing(f)) \subseteq Present'
    <3>1. Existing(f) \ {} = Existing(f) /\ UidsOf(f, {}) = {}
      BY DEF UidsOf
    <3> QED  BY <1>0, <1>3, <2>1, <3>1, PresentAfterRemoval
  <2>3. edges' \subseteq Kind \X Present' \X Present'
    BY <1>0, <1>3, <2>2, DetachedEnds
  <2>4. /\ hash' \in [File -> Content \cup {None}]
        /\ nodes' \in [File -> SUBSET (Name \X Body)]
        /\ proxies' \subseteq Uid
    BY <1>0, <1>3 DEF TypeOK
  <2> QED  BY <1>0, <1>2, <1>3, <2>3, <2>4 DEF TypeOK, treeVars, histVars
<1>6. Known'
  BY <1>0, <1>3, <1>4 DEF Known, treeVars, TypeOK
<1>7. Shape'
  BY <1>2, <1>4 DEF Shape
<1>8. HashIsBacked'
  BY <1>0, <1>3 DEF HashIsBacked, Indexed, TypeOK
<1>9. FilesHold'
  <2> SUFFICES ASSUME NEW g \in File, g \notin broken
               PROVE  FileHolds(g)'
    BY <1>3 DEF FilesHold, histVars
  <2>1. Settled(g)
    BY <1>0, <1>1, <1>4 DEF FilesHold, FileHolds, Untouched
  <2>2. CASE g = f
    <3>1. Names(vectors'[f]) \subseteq Existing(f)
      BY <1>0, <1>3, <2>1, <2>2, ExistingType DEF Settled, Names
    <3> QED  BY <1>0, <1>2, <1>3, <1>4, <2>2, <3>1
             DEF FileHolds, Untouched, TypeOK
  <2>3. CASE g # f
    <3>1. Settled(g)'
      BY <1>0, <1>3, <2>1, <2>3 DEF Settled, TypeOK
    <3> QED  BY <1>2, <1>4, <2>3, <3>1 DEF FileHolds
  <2> QED  BY <2>2, <2>3
<1> QED  BY <1>5, <1>6, <1>7, <1>8, <1>9 DEF IInv

\* The vectors of the files that are gone.
LEMMA ForgetKeeps ==
    ASSUME IInv, Forget
    PROVE  IInv'
<1>0. TypeOK /\ Known /\ Shape /\ HashIsBacked /\ FilesHold
  BY DEF IInv
<1>1. /\ run \in RunType /\ Diffed = {} /\ run.at = "forget"
      /\ run.file \in File
  BY <1>0 DEF TypeOK, Shape, Forget
<1>2. /\ run'.at = "tombstone" /\ run'.diffs = run.diffs /\ run' \in RunType
  BY <1>1 DEF Forget, RunType, Stage
<1>3. /\ vectors' = [vectors EXCEPT
                       ![run.file] = {s \in @ : s[1] \notin run.gone}]
      /\ UNCHANGED <<treeVars, graphVars, histVars>>
  BY DEF Forget
<1>4. Diffed' = {} /\ (\A g \in File : ~Parsing(g) /\ ~Parsing(g)')
  BY <1>1, <1>2 DEF Diffed, Parsing
<1>5. TypeOK'
  <2>1. Present' = Present
    BY <1>3 DEF graphVars, Present, Node, Declared
  <2>2. vectors' \in [File -> SUBSET (Name \X Body)]
    BY <1>0, <1>3 DEF TypeOK
  <2> QED  BY <1>0, <1>2, <1>3, <2>1, <2>2
           DEF TypeOK, treeVars, graphVars, histVars
<1>6. Known' /\ Shape' /\ HashIsBacked'
  BY <1>0, <1>2, <1>3, <1>4
     DEF Known, Shape, HashIsBacked, Indexed, treeVars, graphVars
<1>7. FilesHold'
  <2> SUFFICES ASSUME NEW g \in File, g \notin broken
               PROVE  FileHolds(g)'
    BY <1>3 DEF FilesHold, histVars
  <2>1. CASE g = run.file
    <3>1. /\ hash[g] = None /\ nodes[g] = {}
          /\ Names(vectors[g]) \subseteq run.gone
      BY <1>0, <1>1, <2>1 DEF FilesHold, FileHolds
    <3>2. vectors'[g] = {}
      BY <1>0, <1>3, <2>1, <3>1 DEF TypeOK, Names
    <3> QED  BY <1>2, <1>3, <1>4, <3>1, <3>2
             DEF FileHolds, Settled, SymbolsOf, graphVars
  <2>2. CASE g # run.file
    <3>1. Settled(g)
      BY <1>0, <1>4, <2>2 DEF FilesHold, FileHolds, Untouched
    <3>2. Settled(g)'
      BY <1>0, <1>3, <2>2, <3>1 DEF Settled, TypeOK, graphVars
    <3> QED  BY <1>2, <1>4, <3>2 DEF FileHolds
  <2> QED  BY <2>1, <2>2
<1> QED  BY <1>5, <1>6, <1>7 DEF IInv

\* The upsert of one file writes its hash and its symbols.
LEMMA UpsertKeeps ==
    ASSUME IInv, NEW f \in File, Upsert(f)
    PROVE  IInv'
<1>0. TypeOK /\ Known /\ Shape /\ HashIsBacked /\ FilesHold
  BY DEF IInv
<1> DEFINE C == Now(f).symbols
<1>1. /\ run \in RunType /\ run.at = "upsert" /\ f \in run.todo /\ Parsing(f)
      /\ run.todo \subseteq Diffed /\ Waiting(f)
      /\ run.diffs[f].changed = C \ nodes[f]
  <2>1. run.at = "upsert" /\ f \in run.todo /\ run.todo \subseteq Diffed
    BY <1>0 DEF Shape, Upsert
  <2> QED  BY <1>0, <2>1 DEF TypeOK, Shape, Waiting, Diffed
<1>2. /\ run'.at = "prune" /\ run'.file = f /\ run'.todo = run.todo
      /\ run'.diffs = run.diffs /\ run' \in RunType
  BY <1>1 DEF Upsert, RunType, Stage
<1>3. /\ hash' = [hash EXCEPT ![f] = Now(f)]
      /\ nodes' = [nodes EXCEPT ![f] = Merged(@, run.diffs[f].changed)]
      /\ UNCHANGED <<treeVars, proxies, edges, vectors, histVars>>
  BY DEF Upsert
<1>4. Now(f) \in Contents[f] /\ Now(f) \in Content /\ Now(f) # None
      /\ C \subseteq Name \X Body /\ \A s, t \in C : s[1] = t[1] => s = t
  BY <1>0, <1>1, ContentType DEF Known
<1>5. /\ hash'[f] = Now(f) /\ nodes'[f] = Merged(nodes[f], C \ nodes[f])
      /\ \A g \in File \ {f} : hash'[g] = hash[g] /\ nodes'[g] = nodes[g]
  BY <1>0, <1>1, <1>3 DEF TypeOK
<1>6. C \subseteq nodes'[f]
  BY <1>4, <1>5, MergedHasAll
<1>7. TypeOK'
  <2>1. nodes'[f] \subseteq Name \X Body
    BY <1>0, <1>4, <1>5 DEF Merged, TypeOK
  <2>2. Present \subseteq Present'
    <3> SUFFICES ASSUME NEW u \in Present PROVE u \in Present'
      OBVIOUS
    <3>1. u \in Uid /\ u[1] \in File /\ u[2] \in Name /\ Node(u)
      BY DEF Present, Uid
    <3>2. CASE u \in proxies
      BY <1>3, <3>1, <3>2 DEF Present, Node, Declared
    <3>3. CASE u[1] # f /\ u \notin proxies
      BY <1>5, <3>1, <3>3 DEF Present, Node, Declared
    <3>4. CASE u[1] = f /\ u \notin proxies
      <4>1. PICK b \in Body : <<u[2], b>> \in nodes[f]
        BY <3>1, <3>4 DEF Node, Declared
      <4>2. \E s \in nodes'[f] : s[1] = u[2]
        BY <1>5, <4>1 DEF Merged, Names
      <4>3. PICK s \in nodes'[f] : s[1] = u[2]
        BY <4>2
      <4>4. s[2] \in Body /\ s = <<u[2], s[2]>>
        BY <2>1, <4>3
      <4>5. <<u[2], s[2]>> \in nodes'[u[1]]
        BY <3>4, <4>3, <4>4
      <4> QED  BY <3>1, <4>4, <4>5 DEF Present, Node, Declared
    <3> QED  BY <3>2, <3>3, <3>4
  <2>3. edges' \subseteq Kind \X Present' \X Present'
    BY <1>0, <1>3, <2>2 DEF TypeOK
  <2>4. /\ hash' \in [File -> Content \cup {None}]
        /\ nodes' \in [File -> SUBSET (Name \X Body)]
    BY <1>0, <1>3, <1>4, <1>5, <2>1 DEF TypeOK
  <2> QED  BY <1>0, <1>2, <1>3, <2>3, <2>4 DEF TypeOK, treeVars, histVars
<1>8. \A g \in File : (Parsing(g)' <=> Parsing(g)) /\ Now(g)' = Now(g)
  BY <1>2 DEF Parsing, Now
<1>9. Known'
  BY <1>0, <1>3, <1>4, <1>5, <1>8 DEF Known, treeVars
<1>10. /\ ~Waiting(f)' /\ ~Untouched(f)'
       /\ \A g \in File \ {f} : /\ Waiting(g)' <=> Waiting(g)
                                /\ Untouched(g)' <=> Untouched(g)
  BY <1>1, <1>2, <1>8 DEF Waiting, Untouched
<1>11. Shape'
  <2>1. Diffed' = Diffed
    BY <1>8 DEF Diffed
  <2>2. ASSUME NEW g \in Diffed
        PROVE  IF Waiting(g)' THEN run'.diffs[g].changed
                                     = Now(g)'.symbols \ nodes'[g]
                              ELSE hash'[g] = Now(g)'
    BY <1>0, <1>2, <1>5, <1>8, <1>10 DEF Shape, Diffed
  <2> QED  BY <1>1, <1>2, <2>1, <2>2 DEF Shape
<1>12. HashIsBacked'
  BY <1>0, <1>5, <1>6 DEF HashIsBacked, Indexed
<1>13. FilesHold'
  <2> SUFFICES ASSUME NEW g \in File, g \notin broken
               PROVE  FileHolds(g)'
    BY <1>3 DEF FilesHold, histVars
  <2>1. FileHolds(g)
    BY <1>0 DEF FilesHold
  <2>2. Parsing(g) => VectorsDue(g)'
    BY <1>1, <1>2, <1>3, <1>8, <2>1 DEF FileHolds, VectorsDue, Merged
  <2>3. CASE g = f
    <3>1. Settled(f)
      BY <1>1, <2>1, <2>3 DEF FileHolds, Untouched
    <3>2. \A s, t \in nodes[f] : s[1] = t[1] => s = t
      <4>1. CASE hash[f] = None
        BY <3>1, <4>1 DEF Settled, SymbolsOf
      <4>2. CASE hash[f] # None
        <5>1. hash[f] \in Contents[f] /\ nodes[f] = hash[f].symbols
          BY <1>0, <3>1, <4>2 DEF Known, Settled, SymbolsOf
        <5> QED  BY <5>1, ContentType
      <4> QED  BY <4>1, <4>2
    <3>3. {s \in nodes'[f] : s[1] \in Names(C)} = C
      <4> HIDE DEF C
      <4>1. {s \in Merged(nodes[f], C \ nodes[f]) : s[1] \in Names(C)} = C
        BY <1>4, <3>2, MergedIsContent
      <4> QED  BY <1>5, <4>1
    <3> QED  BY <1>2, <1>8, <1>10, <2>2, <2>3, <3>3 DEF FileHolds
  <2>4. CASE g # f
    <3>1. Settled(g) => Settled(g)'
      BY <1>3, <1>5, <2>4 DEF Settled
    <3> QED  BY <1>1, <1>2, <1>5, <1>8, <1>10, <2>1, <2>2, <2>4, <3>1
             DEF FileHolds
  <2> QED  BY <2>3, <2>4
<1> QED  BY <1>7, <1>9, <1>11, <1>12, <1>13 DEF IInv

\* Pruning removes the symbols the file no longer defines.
LEMMA PruneKeeps ==
    ASSUME IInv, NEW f \in File, f = run.file, Prune
    PROVE  IInv'
<1>0. TypeOK /\ Known /\ Shape /\ HashIsBacked /\ FilesHold
  BY DEF IInv
<1> DEFINE C == Now(f).symbols
<1>1. /\ run \in RunType /\ run.at = "prune" /\ f \in File /\ f \in run.todo
      /\ run.todo \subseteq Diffed /\ Parsing(f) /\ ~Waiting(f)
      /\ hash[f] = Now(f)
  <2>1. /\ run.at = "prune" /\ f \in File /\ f \in run.todo
        /\ run.todo \subseteq Diffed
    BY <1>0 DEF Shape, Prune
  <2>2. Parsing(f) /\ ~Waiting(f)
    BY <2>1 DEF Diffed, Waiting
  <2> QED  BY <1>0, <2>1, <2>2 DEF TypeOK, Shape
<1>2. /\ run'.at = "upsert" /\ run'.todo = run.todo \ {f}
      /\ run'.diffs = run.diffs /\ run' \in RunType
  BY <1>1 DEF Prune, RunType, Stage
<1>3. /\ nodes' = [nodes EXCEPT ![f] = {s \in @ : s[1] \in Names(C)}]
      /\ proxies' = proxies \ ProxiesOf(f)
      /\ edges' = Detached(UidsOf(f, Existing(f) \ Names(C)))
      /\ UNCHANGED <<treeVars, hash, vectors, histVars>>
  BY DEF Prune, PruneTo
<1>4. Now(f) \in Contents[f] /\ Now(f) # None
  BY <1>0, <1>1, ContentType DEF Known
<1>5. /\ nodes'[f] = {s \in nodes[f] : s[1] \in Names(C)}
      /\ \A g \in File \ {f} : nodes'[g] = nodes[g]
  BY <1>0, <1>1, <1>3 DEF TypeOK
<1>6. C \subseteq nodes[f]
  BY <1>0, <1>1, <1>4 DEF HashIsBacked, Indexed
<1>7. C \subseteq nodes'[f]
  BY <1>5, <1>6 DEF Names
<1>8. TypeOK'
  <2>1. nodes' \in [File -> SUBSET (Name \X Body)]
    BY <1>0, <1>1, <1>3, <1>5 DEF TypeOK
  <2>2. Present \ UidsOf(f, Existing(f) \ Names(C)) \subseteq Present'
    <3>1. Present \ UidsOf(f, Existing(f) \ Names(C))
            \subseteq Present' \cup UidsOf(f, Names(C))
      BY <1>0, <1>1, <1>3, PresentAfterRemoval
    <3>2. UidsOf(f, Names(C)) \subseteq Present'
      <4> SUFFICES ASSUME NEW s \in C PROVE <<f, s[1]>> \in Present'
        BY DEF UidsOf, Names
      <4>1. s \in nodes'[f] /\ s[1] \in Name /\ s[2] \in Body
        BY <1>1, <1>7, <2>1
      <4>2. s = <<s[1], s[2]>>
        BY <1>1, <1>7, <2>1
      <4> QED  BY <1>1, <4>1, <4>2 DEF Present, Node, Declared, Uid
    <3> QED  BY <3>1, <3>2
  <2>3. edges' \subseteq Kind \X Present' \X Present'
    <3> DEFINE U == UidsOf(f, Existing(f) \ Names(C))
    <3>1. edges' = Detached(U) /\ Present \ U \subseteq Present'
      BY <1>3, <2>2
    <3> HIDE DEF U
    <3>2. Detached(U) \subseteq Kind \X (Present \ U) \X (Present \ U)
      BY <1>0, DetachedEnds
    <3> QED  BY <3>1, <3>2
  <2> QED  BY <1>0, <1>2, <1>3, <2>1, <2>3 DEF TypeOK, treeVars, histVars
<1>9. \A g \in File : (Parsing(g)' <=> Parsing(g)) /\ Now(g)' = Now(g)
  BY <1>2 DEF Parsing, Now
<1>10. Known'
  BY <1>0, <1>3, <1>9 DEF Known, treeVars
<1>11. /\ ~Waiting(f)' /\ ~Untouched(f)'
       /\ \A g \in File \ {f} : /\ Waiting(g)' <=> Waiting(g)
                                /\ Untouched(g)' <=> Untouched(g)
  BY <1>1, <1>2, <1>9 DEF Waiting, Untouched
<1>12. Shape'
  <2>1. Diffed' = Diffed
    BY <1>9 DEF Diffed
  <2>2. ASSUME NEW g \in Diffed
        PROVE  IF Waiting(g)' THEN run'.diffs[g].changed
                                     = Now(g)'.symbols \ nodes'[g]
                              ELSE hash'[g] = Now(g)'
    BY <1>0, <1>1, <1>2, <1>3, <1>5, <1>9, <1>11 DEF Shape, Diffed
  <2> QED  BY <1>1, <1>2, <2>1, <2>2 DEF Shape
<1>13. HashIsBacked'
  BY <1>0, <1>1, <1>3, <1>5, <1>7 DEF HashIsBacked, Indexed
<1>14. FilesHold'
  <2> SUFFICES ASSUME NEW g \in File, g \notin broken
               PROVE  FileHolds(g)'
    BY <1>3 DEF FilesHold, histVars
  <2>1. FileHolds(g)
    BY <1>0 DEF FilesHold
  <2>2. Parsing(g) => VectorsDue(g)'
    BY <1>1, <1>2, <1>3, <1>9, <2>1 DEF FileHolds, VectorsDue, Merged
  <2>3. CASE g = f
    <3>1. nodes'[f] = C
      BY <1>1, <1>5, <2>1, <2>3 DEF FileHolds
    <3> QED  BY <1>2, <1>9, <1>11, <2>2, <2>3, <3>1 DEF FileHolds
  <2>4. CASE g # f
    <3>1. Settled(g) => Settled(g)'
      BY <1>3, <1>5, <2>4 DEF Settled
    <3> QED  BY <1>1, <1>2, <1>5, <1>9, <1>11, <2>1, <2>2, <2>4, <3>1
             DEF FileHolds
  <2> QED  BY <2>3, <2>4
<1> QED  BY <1>8, <1>10, <1>12, <1>13, <1>14 DEF IInv

-----------------------------------------------------------------------------
(* Steps that write only edges and proxies, or only vectors *)

\* Once the nodes are written, each parsed file's are all of its content's.
LEMMA NodesAreThere ==
    ASSUME IInv, run.at \notin {"upsert", "prune"}, NEW f \in Diffed
    PROVE  /\ f \in File /\ Now(f) \in Contents[f] /\ hash[f] = Now(f)
           /\ Now(f).symbols \subseteq nodes[f]
<1>0. Known /\ Shape /\ HashIsBacked
  BY DEF IInv
<1>1. f \in File /\ Parsing(f) /\ ~Waiting(f)
  BY DEF Diffed, Waiting
<1>2. Now(f) \in Contents[f] /\ hash[f] = Now(f)
  BY <1>0, <1>1 DEF Known, Shape
<1>3. hash[f] # None
  BY <1>1, <1>2, ContentType
<1> QED  BY <1>0, <1>1, <1>2, <1>3 DEF HashIsBacked, Indexed

LinkStage == {"edges", "clear", "proxy", "attr", "type", "alias"}

\* What the steps on the edges have in common: nodes and vectors stay.
LEMMA EdgeSteps ==
    ASSUME IInv, run.at \in LinkStage,
           run' = [run EXCEPT !.at = After(run.at)],
           UNCHANGED <<treeVars, hash, nodes, vectors, histVars>>,
           proxies' \subseteq Uid,
           edges' \subseteq Kind \X Present' \X Present'
    PROVE  IInv'
<1>0. TypeOK /\ Known /\ Shape /\ HashIsBacked /\ FilesHold
  BY DEF IInv
<1>1. run \in RunType
  BY <1>0 DEF TypeOK
<1>2. After(run.at) \in {"clear", "proxy", "attr", "type", "alias", "embed"}
  BY DEF After, LinkStage
<1>3. /\ run'.at = After(run.at) /\ run'.diffs = run.diffs
      /\ run' \in RunType
  BY <1>1, <1>2 DEF RunType, Stage
<1>4. \A f \in File : /\ Parsing(f)' <=> Parsing(f)
                      /\ Now(f)' = Now(f)
                      /\ ~Waiting(f) /\ ~Waiting(f)'
                      /\ Untouched(f)' <=> Untouched(f)
  BY <1>2, <1>3 DEF Parsing, Now, Waiting, Untouched, LinkStage
<1>5. TypeOK'
  BY <1>0, <1>3 DEF TypeOK, treeVars, histVars
<1>6. Known' /\ HashIsBacked'
  BY <1>0, <1>4 DEF Known, HashIsBacked, Indexed, treeVars
<1>7. Shape'
  BY <1>0, <1>2, <1>3, <1>4 DEF Shape, Diffed
<1>8. FilesHold'
  <2> SUFFICES ASSUME NEW f \in File, f \notin broken
               PROVE  FileHolds(f)'
    BY DEF FilesHold, histVars
  <2>1. FileHolds(f) /\ (Settled(f) => Settled(f)')
    BY <1>0 DEF FilesHold, Settled
  <2>2. Parsing(f) => VectorsDue(f)'
    BY <1>2, <1>3, <1>4, <2>1
       DEF FileHolds, VectorsDue, Merged, LinkStage
  <2> QED  BY <1>2, <1>3, <1>4, <2>1, <2>2 DEF FileHolds, LinkStage
<1> QED  BY <1>5, <1>6, <1>7, <1>8 DEF IInv

\* The two clearings of edges.
LEMMA ClearingKeeps ==
    ASSUME IInv, ClearOutgoing \/ ClearDerived
    PROVE  IInv'
<1>0. TypeOK
  BY DEF IInv
<1>1. CASE ClearOutgoing
  <2>1. Present' = Present
    BY <1>1 DEF ClearOutgoing, Present, Node, Declared
  <2>2. edges' \subseteq Kind \X Present' \X Present'
    BY <1>0, <1>1, <2>1 DEF ClearOutgoing, TypeOK
  <2>3. proxies' \subseteq Uid
    BY <1>0, <1>1 DEF ClearOutgoing, TypeOK
  <2>4. /\ run.at \in LinkStage
        /\ run' = [run EXCEPT !.at = After(run.at)]
        /\ UNCHANGED <<treeVars, hash, nodes, vectors, histVars>>
    BY <1>1 DEF ClearOutgoing, LinkStage
  <2> QED  BY <2>2, <2>3, <2>4, EdgeSteps
<1>2. CASE ClearDerived
  <2> DEFINE gone == {u \in proxies : u[1] \in Diffed}
  <2>1. /\ proxies' = proxies \ gone /\ edges' \subseteq Detached(gone)
        /\ nodes' = nodes
    BY <1>2 DEF ClearDerived
  <2>2. Present \ gone \subseteq Present'
    BY <2>1 DEF Present, Node, Declared
  <2>3. edges' \subseteq Kind \X Present' \X Present'
    <3> HIDE DEF gone
    <3>1. Detached(gone)
            \subseteq Kind \X (Present \ gone) \X (Present \ gone)
      BY <1>0, DetachedEnds
    <3> QED  BY <2>1, <2>2, <3>1
  <2>4. proxies' \subseteq Uid
    BY <1>0, <2>1 DEF TypeOK
  <2>5. /\ run.at \in LinkStage
        /\ run' = [run EXCEPT !.at = After(run.at)]
        /\ UNCHANGED <<treeVars, hash, nodes, vectors, histVars>>
    BY <1>2 DEF ClearDerived, LinkStage
  <2> QED  BY <2>3, <2>4, <2>5, EdgeSteps
<1> QED  BY <1>1, <1>2

\* The steps that link.
LEMMA LinkingKeeps ==
    ASSUME IInv, LinkProxies \/ \E k \in Kind : LinkFacts(k)
    PROVE  IInv'
<1>0. TypeOK
  BY DEF IInv
<1>1. CASE LinkProxies
  <2>1. /\ run.at = "proxy" /\ nodes' = nodes
        /\ proxies' = proxies \cup UNION {Bound(f, Now(f)) : f \in Diffed}
        /\ edges' = edges \cup
                      UNION {Links("proxy", f, Now(f)) : f \in Diffed}
    BY <1>1 DEF LinkProxies
  <2>2. \A f \in Diffed : Bound(f, Now(f)) \subseteq Uid
    <3> SUFFICES ASSUME NEW f \in Diffed PROVE Bound(f, Now(f)) \subseteq Uid
      OBVIOUS
    <3>1. f \in File /\ Now(f) \in Contents[f]
      BY <2>1, NodesAreThere
    <3>2. Now(f).facts["proxy"] \subseteq Name \X Uid
      BY <3>1, ContentType DEF Kind
    <3> QED  BY <3>1, <3>2 DEF Bound, UidsOf, Names, Uid
  <2>3. proxies' \subseteq Uid
    BY <1>0, <2>1, <2>2 DEF TypeOK
  <2>4. Present \subseteq Present' /\ proxies' \subseteq Present'
    BY <2>1, <2>3 DEF Present, Node, Declared
  <2>5. \A f \in Diffed :
          Links("proxy", f, Now(f)) \subseteq Kind \X Present' \X Present'
    <3> SUFFICES ASSUME NEW f \in Diffed
                 PROVE  Links("proxy", f, Now(f))
                          \subseteq Kind \X Present' \X Present'
      OBVIOUS
    <3>1. f \in File /\ Now(f) \in Contents[f]
      BY <2>1, NodesAreThere
    <3>2. Links("proxy", f, Now(f))
            \subseteq Kind \X Bound(f, Now(f)) \X Present
      BY <3>1, LinksEnds DEF Bound, Kind
    <3>3. Bound(f, Now(f)) \subseteq Present'
      BY <2>1, <2>4
    <3> QED  BY <2>4, <3>2, <3>3
  <2>6. edges' \subseteq Kind \X Present' \X Present'
    BY <1>0, <2>1, <2>4, <2>5 DEF TypeOK
  <2>7. /\ run.at \in LinkStage
        /\ run' = [run EXCEPT !.at = After(run.at)]
        /\ UNCHANGED <<treeVars, hash, nodes, vectors, histVars>>
    BY <1>1 DEF LinkProxies, LinkStage
  <2> QED  BY <2>3, <2>6, <2>7, EdgeSteps
<1>2. ASSUME NEW k \in Kind, LinkFacts(k)
      PROVE  IInv'
  <2>1. /\ run.at = k /\ k \in Kind \ {"proxy"}
        /\ nodes' = nodes /\ proxies' = proxies
        /\ edges' = edges \cup UNION {Links(k, f, Now(f)) : f \in Diffed}
    BY <1>2 DEF LinkFacts
  <2>2. Present' = Present
    BY <2>1 DEF Present, Node, Declared
  <2>3. \A f \in Diffed :
          Links(k, f, Now(f)) \subseteq Kind \X Present \X Present
    <3> SUFFICES ASSUME NEW f \in Diffed
                 PROVE  Links(k, f, Now(f))
                          \subseteq Kind \X Present \X Present
      OBVIOUS
    <3>1. /\ f \in File /\ Now(f) \in Contents[f]
          /\ Now(f).symbols \subseteq nodes[f]
      BY <2>1, NodesAreThere DEF Kind
    <3>2. Links(k, f, Now(f)) \subseteq
            Kind \X UidsOf(f, Names(Now(f).facts[k])) \X Present
      BY <3>1, LinksEnds
    <3>3. Names(Now(f).facts[k]) \subseteq Names(Now(f).symbols)
      BY <2>1, <3>1, ContentType
    <3>4. UidsOf(f, Names(Now(f).symbols)) \subseteq Present
      BY <1>0, <3>1, NodesPresent
    <3>5. UidsOf(f, Names(Now(f).facts[k])) \subseteq Present
      BY <3>3, <3>4 DEF UidsOf
    <3> QED  BY <3>2, <3>5
  <2>4. edges' \subseteq Kind \X Present' \X Present'
    BY <1>0, <2>1, <2>2, <2>3 DEF TypeOK
  <2>5. proxies' \subseteq Uid
    BY <1>0, <2>1 DEF TypeOK
  <2>6. /\ run.at \in LinkStage
        /\ run' = [run EXCEPT !.at = After(run.at)]
        /\ UNCHANGED <<treeVars, hash, nodes, vectors, histVars>>
    BY <1>2 DEF LinkFacts, LinkStage, Kind
  <2> QED  BY <2>4, <2>5, <2>6, EdgeSteps
<1> QED  BY <1>1, <1>2

\* The vectors of what the run changed.
LEMMA EmbedKeeps ==
    ASSUME IInv, Embed
    PROVE  IInv'
<1>0. TypeOK /\ Known /\ Shape /\ HashIsBacked /\ FilesHold
  BY DEF IInv
<1>1. /\ run \in RunType /\ run.at = "embed" /\ run'.at = "unembed"
      /\ run'.diffs = run.diffs /\ run' \in RunType
  BY <1>0 DEF Embed, TypeOK, RunType, Stage
<1>2. /\ \A f \in File :
           vectors'[f] = IF Parsing(f)
                         THEN Merged(vectors[f], run.diffs[f].changed)
                         ELSE vectors[f]
      /\ DOMAIN vectors' = File
      /\ vectors' = [f \in File |-> vectors'[f]]
      /\ UNCHANGED <<treeVars, graphVars, histVars>>
  BY DEF Embed, Embedded
<1>3. \A f \in File : /\ Parsing(f)' <=> Parsing(f)
                      /\ Now(f)' = Now(f)
                      /\ ~Waiting(f) /\ ~Waiting(f)'
                      /\ Untouched(f)' <=> Untouched(f)
  BY <1>1 DEF Parsing, Now, Waiting, Untouched
<1>4. TypeOK'
  <2>1. \A f \in File : Parsing(f) =>
          run.diffs[f].changed \subseteq Name \X Body
    BY <1>1 DEF RunType, Diff, Parsing
  <2>2. \A f \in File : vectors'[f] \subseteq Name \X Body
    BY <1>0, <1>2, <2>1 DEF TypeOK, Merged
  <2>3. vectors' \in [File -> SUBSET (Name \X Body)]
    BY <1>2, <2>2
  <2>4. Present' = Present
    BY <1>2 DEF graphVars, Present, Node, Declared
  <2> QED  BY <1>0, <1>1, <1>2, <2>3, <2>4
           DEF TypeOK, treeVars, graphVars, histVars
<1>5. Known' /\ HashIsBacked'
  BY <1>0, <1>2, <1>3
     DEF Known, HashIsBacked, Indexed, treeVars, graphVars
<1>6. Shape'
  BY <1>0, <1>1, <1>2, <1>3 DEF Shape, Diffed, graphVars
<1>7. FilesHold'
  <2> SUFFICES ASSUME NEW f \in File, f \notin broken
               PROVE  FileHolds(f)'
    BY <1>2 DEF FilesHold, histVars
  <2>1. FileHolds(f)
    BY <1>0 DEF FilesHold
  <2>2. ~Parsing(f) => (Settled(f) => Settled(f)')
    BY <1>2 DEF Settled, graphVars
  <2>3. Parsing(f) => VectorsDue(f)'
    BY <1>1, <1>2, <1>3, <2>1 DEF FileHolds, VectorsDue
  <2>4. Untouched(f) => ~Parsing(f)
    BY <1>1 DEF Untouched, Waiting
  <2> QED  BY <1>1, <1>2, <1>3, <2>1, <2>2, <2>3, <2>4
           DEF FileHolds, graphVars
<1> QED  BY <1>4, <1>5, <1>6, <1>7 DEF IInv

\* The vectors of what it pruned.
LEMMA UnembedKeeps ==
    ASSUME IInv, Unembed
    PROVE  IInv'
<1>0. TypeOK /\ Known /\ Shape /\ HashIsBacked /\ FilesHold
  BY DEF IInv
<1>1. run \in RunType /\ run.at = "unembed"
  BY <1>0 DEF Unembed, TypeOK
<1>2. run' = [at |-> "rest", outcome |-> "done", files |-> run.files,
              todo |-> {}, file |-> None, gone |-> {}, diffs |-> NoDiffs]
  BY DEF Unembed, Idle
<1>3. run' \in RunType
  BY <1>1, <1>2 DEF RunType, Stage, NoDiffs
<1>4. Diffed' = {} /\ \A f \in File : ~Parsing(f)'
  BY <1>2 DEF Diffed, Parsing, NoDiffs
<1>5. /\ \A f \in File :
           vectors'[f] = IF Parsing(f)
                         THEN {s \in vectors[f] :
                                 s[1] \notin run.diffs[f].removed}
                         ELSE vectors[f]
      /\ DOMAIN vectors' = File
      /\ vectors' = [f \in File |-> vectors'[f]]
      /\ UNCHANGED <<treeVars, graphVars, histVars>>
  BY DEF Unembed
<1>6. TypeOK'
  <2>1. \A f \in File : vectors'[f] \subseteq Name \X Body
    BY <1>0, <1>5 DEF TypeOK
  <2>2. vectors' \in [File -> SUBSET (Name \X Body)]
    BY <1>5, <2>1
  <2>3. Present' = Present
    BY <1>5 DEF graphVars, Present, Node, Declared
  <2> QED  BY <1>0, <1>3, <1>5, <2>2, <2>3
           DEF TypeOK, treeVars, graphVars, histVars
<1>7. Known' /\ HashIsBacked' /\ Shape'
  BY <1>0, <1>2, <1>4, <1>5
     DEF Known, HashIsBacked, Indexed, Shape, treeVars, graphVars
<1>8. FilesHold'
  <2> SUFFICES ASSUME NEW f \in File, f \notin broken
               PROVE  FileHolds(f)'
    BY <1>5 DEF FilesHold, histVars
  <2>1. FileHolds(f)
    BY <1>0 DEF FilesHold
  <2>2. CASE ~Parsing(f)
    <3>1. Settled(f)
      BY <1>1, <2>1, <2>2 DEF FileHolds, Untouched
    <3>2. Settled(f)'
      BY <1>5, <2>2, <3>1 DEF Settled, graphVars
    <3> QED  BY <1>2, <1>4, <3>2 DEF FileHolds
  <2>3. CASE Parsing(f)
    <3>1. ~Waiting(f) /\ f \in Diffed
      BY <1>1, <2>3 DEF Waiting, Diffed
    <3>2. hash[f] = Now(f) /\ Now(f) \in Contents[f]
      BY <1>1, <3>1, NodesAreThere
    <3>3. nodes[f] = Now(f).symbols /\ vectors'[f] = Now(f).symbols
      BY <1>1, <1>5, <2>1, <2>3, <3>1 DEF FileHolds, VectorsDue
    <3>4. hash[f] # None
      BY <3>2, ContentType
    <3>5. Settled(f)'
      BY <1>5, <3>2, <3>3, <3>4 DEF Settled, SymbolsOf, graphVars
    <3> QED  BY <1>2, <1>4, <3>5 DEF FileHolds
  <2> QED  BY <2>2, <2>3
<1> QED  BY <1>6, <1>7, <1>8 DEF IInv

\* A save indexed by the other path, between two runs.
LEMMA SaveKeeps ==
    ASSUME IInv, NEW f \in File, SaveFile(f)
    PROVE  IInv'
<1>0. TypeOK /\ Known /\ Shape /\ HashIsBacked /\ FilesHold
  BY DEF IInv
<1> DEFINE C == disk[f].symbols
<1> DEFINE keep == Names(C)
<1> DEFINE bound == (proxies \ ProxiesOf(f)) \cup Bound(f, disk[f])
<1> DEFINE symbols == {u \in Symbols : u[1] # f} \cup UidsOf(f, keep)
<1> DEFINE there(k) == IF k = "proxy" THEN symbols ELSE symbols \cup bound
<1> DEFINE removed == UidsOf(f, Existing(f) \ keep)
<1> DEFINE links == UNION {LinksAmong(k, f, disk[f], there(k)) : k \in Relinks}
<1>1. /\ run.at = "rest" /\ Diffed = {} /\ f \in clean /\ disk[f] # None
      /\ \A g \in File : ~Parsing(g)
  BY <1>0 DEF SaveFile, Shape, Known, Diffed
<1>2. /\ disk[f] \in Contents[f] /\ disk[f] \in Content
      /\ C \subseteq Name \X Body
      /\ \A s, t \in C : s[1] = t[1] => s = t
  BY <1>0, <1>1, ContentType DEF Known
<1>3. /\ Parsed(f).changed = C \ nodes[f]
      /\ Parsed(f).removed = Existing(f) \ keep
  BY <1>0, <1>1, ParsedType
<1>4. /\ hash' = [hash EXCEPT ![f] = disk[f]]
      /\ nodes' = [nodes EXCEPT ![f] = {s \in Merged(@, Parsed(f).changed) :
                                          s[1] \in keep}]
      /\ proxies' = (proxies \ ProxiesOf(f)) \cup Bound(f, disk[f])
      /\ edges' \subseteq Detached(removed) \cup links
      /\ vectors' = [vectors EXCEPT ![f] =
                       {s \in Embedded(f, Parsed(f).changed) :
                          s[1] \notin Parsed(f).removed}]
      /\ UNCHANGED <<treeVars, run, histVars>>
  BY DEF SaveFile
<1>5. /\ hash'[f] = disk[f]
      /\ nodes'[f] = {s \in Merged(nodes[f], C \ nodes[f]) : s[1] \in keep}
      /\ vectors'[f] = {s \in Merged(vectors[f], Parsed(f).changed) :
                          s[1] \notin Parsed(f).removed}
      /\ \A g \in File \ {f} : /\ hash'[g] = hash[g] /\ nodes'[g] = nodes[g]
                               /\ vectors'[g] = vectors[g]
  BY <1>0, <1>3, <1>4 DEF TypeOK, Embedded
<1>6. C \subseteq nodes'[f]
  <2>1. C \subseteq Merged(nodes[f], C \ nodes[f])
    <3> HIDE DEF C
    <3> QED  BY <1>2, MergedHasAll
  <2> QED  BY <1>5, <2>1 DEF Names
<1>7. TypeOK'
  <2>1. nodes'[f] \subseteq Name \X Body /\ vectors'[f] \subseteq Name \X Body
    BY <1>0, <1>2, <1>3, <1>5 DEF Merged, TypeOK
  <2>2. /\ hash' \in [File -> Content \cup {None}]
        /\ nodes' \in [File -> SUBSET (Name \X Body)]
        /\ vectors' \in [File -> SUBSET (Name \X Body)]
    <3>1. /\ DOMAIN hash' = File /\ DOMAIN nodes' = File
          /\ DOMAIN vectors' = File
          /\ hash' = [g \in File |-> hash'[g]]
          /\ nodes' = [g \in File |-> nodes'[g]]
          /\ vectors' = [g \in File |-> vectors'[g]]
      BY <1>0, <1>4 DEF TypeOK
    <3>2. \A g \in File : /\ hash'[g] \in Content \cup {None}
                          /\ nodes'[g] \in SUBSET (Name \X Body)
                          /\ vectors'[g] \in SUBSET (Name \X Body)
      BY <1>0, <1>2, <1>5, <2>1 DEF TypeOK
    <3> QED  BY <3>1, <3>2
  <2>3. proxies' \subseteq Uid
    <3>1. disk[f].facts["proxy"] \subseteq Name \X Uid
      BY <1>2, ContentType DEF Kind
    <3>2. Bound(f, disk[f]) \subseteq Uid
      BY <3>1 DEF Bound, UidsOf, Names, Uid
    <3> QED  BY <1>0, <1>4, <3>2 DEF TypeOK
  <2>4. UidsOf(f, keep) \subseteq Present'
    <3> SUFFICES ASSUME NEW s \in C PROVE <<f, s[1]>> \in Present'
      BY DEF UidsOf, Names
    <3>1. /\ s \in nodes'[f] /\ s[1] \in Name /\ s[2] \in Body
          /\ s = <<s[1], s[2]>>
      BY <1>2, <1>6
    <3> QED  BY <3>1 DEF Present, Node, Declared, Uid
  <2>5. \A u \in Present : u[1] # f => u \in Present'
    <3> SUFFICES ASSUME NEW u \in Present, u[1] # f PROVE u \in Present'
      OBVIOUS
    <3>1. u \in Uid /\ u[1] \in File /\ nodes'[u[1]] = nodes[u[1]]
      BY <1>5 DEF Present, Uid
    <3>2. u \in proxies => u \in proxies'
      BY <1>4 DEF ProxiesOf
    <3> QED  BY <3>1, <3>2 DEF Present, Node, Declared
  <2>6. Present \ removed \subseteq Present' /\ \A k : there(k) \subseteq Present'
    <3>1. ASSUME NEW u \in Present, u \notin removed, u[1] = f
          PROVE  u \in UidsOf(f, keep)
      <4>1. u = <<f, u[2]>> /\ u[2] \in Name
        BY <3>1 DEF Present, Uid
      <4>2. u[2] \in Existing(f)
        BY <1>0, <4>1, ExistingType
      <4> QED  BY <3>1, <4>1, <4>2 DEF UidsOf
    <3>2. symbols \subseteq Present'
      BY <2>4, <2>5 DEF Symbols, Present, Node
    <3>3. bound \subseteq Present'
      BY <1>4, <2>3 DEF Present, Node
    <3> QED  BY <2>4, <2>5, <3>1, <3>2, <3>3
  <2>7. Detached(removed) \subseteq Kind \X Present' \X Present'
    <3>1. Present \ removed \subseteq Present'
      BY <2>6
    <3> HIDE DEF removed
    <3>2. Detached(removed)
            \subseteq Kind \X (Present \ removed) \X (Present \ removed)
      BY <1>0, DetachedEnds
    <3> QED  BY <3>1, <3>2
  <2>8. links \subseteq Kind \X Present' \X Present'
    <3> SUFFICES ASSUME NEW k \in Relinks
                 PROVE  LinksAmong(k, f, disk[f], there(k))
                          \subseteq Kind \X Present' \X Present'
      OBVIOUS
    <3>1. k \in {"proxy", "type"} /\ k \in Kind
      BY DEF Relinks, Kind
    <3>2. UidsOf(f, Names(disk[f].facts[k])) \subseteq Present'
      <4>1. CASE k = "proxy"
        BY <1>4, <2>3, <4>1 DEF Bound, Present, Node, Declared
      <4>2. CASE k = "type"
        <5>1. Names(disk[f].facts[k]) \subseteq keep
          BY <1>2, <3>1, <4>2, ContentType
        <5> QED  BY <2>4, <5>1 DEF UidsOf
      <4> QED  BY <3>1, <4>1, <4>2
    <3>3. LinksAmong(k, f, disk[f], there(k))
            \subseteq Kind \X UidsOf(f, Names(disk[f].facts[k])) \X there(k)
      <4> HIDE DEF there
      <4> QED  BY <1>2, <3>1, LinkEnds
    <3> HIDE DEF there
    <3>4. there(k) \subseteq Present'
      BY <2>6
    <3> HIDE DEF there
    <3> QED  BY <3>2, <3>3, <3>4
  <2>9. edges' \subseteq Kind \X Present' \X Present'
    BY <1>4, <2>7, <2>8
  <2> QED  BY <1>0, <1>4, <2>2, <2>3, <2>9 DEF TypeOK, treeVars, histVars
<1>8. \A g \in File : ~Parsing(g)' /\ run'.at = "rest"
  BY <1>1, <1>4 DEF Parsing
<1>9. Known'
  BY <1>0, <1>2, <1>4, <1>5, <1>8 DEF Known, treeVars
<1>10. Shape'
  BY <1>8 DEF Shape, Diffed
<1>11. HashIsBacked'
  BY <1>0, <1>5, <1>6 DEF HashIsBacked, Indexed
<1>12. FilesHold'
  <2> SUFFICES ASSUME NEW g \in File, g \notin broken
               PROVE  FileHolds(g)'
    BY <1>4 DEF FilesHold, histVars
  <2>1. Settled(g)
    BY <1>0, <1>1 DEF FilesHold, FileHolds, Untouched
  <2>2. Settled(g)'
    <3>1. CASE g # f
      BY <1>5, <2>1, <3>1 DEF Settled
    <3>2. CASE g = f
      <4>1. \A s, t \in nodes[f] : s[1] = t[1] => s = t
        <5>1. CASE hash[f] = None
          BY <2>1, <3>2, <5>1 DEF Settled, SymbolsOf
        <5>2. CASE hash[f] # None
          <6>1. hash[f] \in Contents[f] /\ nodes[f] = hash[f].symbols
            BY <1>0, <2>1, <3>2, <5>2 DEF Known, Settled, SymbolsOf
          <6> QED  BY <6>1, ContentType
        <5> QED  BY <5>1, <5>2
      <4>2. nodes'[f] = C
        <5> HIDE DEF C
        <5>1. {s \in Merged(nodes[f], C \ nodes[f]) : s[1] \in Names(C)} = C
          BY <1>2, <4>1, MergedIsContent
        <5> QED  BY <1>5, <5>1
      <4>3. vectors'[f] = C
        BY <1>0, <1>1, <1>5, <2>1, <3>2, DeltaIsDue
      <4> QED  BY <1>1, <1>5, <3>2, <4>2, <4>3 DEF Settled, SymbolsOf
    <3> QED  BY <3>1, <3>2
  <2> QED  BY <1>8, <2>2 DEF FileHolds
<1> QED  BY <1>7, <1>9, <1>10, <1>11, <1>12 DEF IInv

-----------------------------------------------------------------------------
(* The theorems *)

\* Every step keeps the invariant.
LEMMA NextKeeps ==
    ASSUME IInv, [Next]_vars
    PROVE  IInv'
<1>1. CASE Developer
  BY <1>1, DeveloperKeeps
<1>2. CASE Abort
  BY <1>2, AbortKeeps
<1>3. CASE \E f \in File : SaveFile(f)
  BY <1>3, SaveKeeps
<1>4. CASE Run
  <2>1. CASE Collect \/ NothingChanged \/ Hash
    BY <2>1, CollectAndHashKeep
  <2>2. ASSUME NEW f \in File, Tombstone(f) \/ Upsert(f) PROVE IInv'
    BY <2>2, TombstoneKeeps, UpsertKeeps
  <2>3. CASE Forget
    BY <2>3, ForgetKeeps
  <2>4. CASE \E failed \in SUBSET run.todo : Parse(failed)
    BY <2>4, ParseKeeps
  <2>5. CASE Prune
    <3>1. run.file \in File
      BY <2>5 DEF Prune, IInv, Shape
    <3> QED  BY <2>5, <3>1, PruneKeeps
  <2>6. CASE NodesWritten
    BY <2>6, NodesWrittenKeeps
  <2>7. CASE ClearOutgoing \/ ClearDerived
    BY <2>7, ClearingKeeps
  <2>8. CASE LinkProxies \/ \E k \in Kind : LinkFacts(k)
    BY <2>8, LinkingKeeps
  <2>9. CASE Embed \/ Unembed
    BY <2>9, EmbedKeeps, UnembedKeeps
  <2> QED
    BY <1>4, <2>1, <2>2, <2>3, <2>4, <2>5, <2>6, <2>7, <2>8, <2>9 DEF Run
<1>5. CASE UNCHANGED vars
  <2>1. IInv /\ UNCHANGED <<disk, clean, edits, hash, nodes, proxies, edges,
                            vectors, run, aborts, broken, touched>>
    BY <1>5 DEF vars
  <2> QED
    BY <2>1 DEF IInv, TypeOK, Known, Shape, HashIsBacked, FilesHold,
                FileHolds, Present, Node, Declared, Diffed, Parsing, Now, Waiting,
                Untouched, Settled, VectorsDue, Merged, Indexed
<1> QED  BY <1>1, <1>2, <1>3, <1>4, <1>5 DEF Next

\* The inductive invariant: each file is as it was, half way through the
\* run's writes as its stage says, done, or left half written by an abort.
THEOREM PipelineInvariant == Spec => []IInv
<1>1. Init => IInv
  BY InitHolds
<1>2. IInv /\ [Next]_vars => IInv'
  BY NextKeeps
<1> QED  BY <1>1, <1>2, PTL DEF Spec

\* Every variable has its type; edges have both ends in the graph, whatever
\* tombstones, prunes and clearing take away.
THEOREM PipelineTypes == Spec => []TypeOK
<1>1. IInv => TypeOK
  BY DEF IInv
<1> QED  BY <1>1, PipelineInvariant, PTL

\* A stored hash is backed by the symbols of its content at every step of a
\* run, after every abort and between runs, for any files and contents.
THEOREM PipelineHashIsBacked == Spec => []HashIsBacked
<1>1. IInv => HashIsBacked
  BY DEF IInv
<1> QED  BY <1>1, PipelineInvariant, PTL

\* Between runs graph and vectors agree on every file that no aborted run
\* left half written.
THEOREM PipelineStoresAgree == Spec => []StoresAgree
<1>1. IInv => StoresAgree
  <2> SUFFICES ASSUME IInv, run.at = "rest", NEW f \in File \ broken
               PROVE  /\ nodes[f] = IF f \in Indexed THEN hash[f].symbols
                                                     ELSE {}
                      /\ vectors[f] = nodes[f]
    BY DEF StoresAgree
  <2>1. Untouched(f)
    BY DEF IInv, Shape, Diffed, Untouched
  <2>2. Settled(f)
    BY <2>1 DEF IInv, FilesHold, FileHolds
  <2> QED  BY <2>2 DEF Settled, SymbolsOf, Indexed
<1> QED  BY <1>1, PipelineInvariant, PTL
-----------------------------------------------------------------------------
(* A completed run has caught up *)

\* A run knows the files it collected: as long as nobody touches one, it is
\* clean, its delta is of what is on disk, and it is either still due or
\* indexed; one that is not clean is still to be tombstoned, or gone.
CatchingUp ==
    /\ Diffed \subseteq run.files
    /\ run.at = "parse" => run.todo \subseteq run.files
    /\ run.at # "rest" =>
         \A f \in File \ touched :
            /\ f \in run.files => f \in clean
            /\ Parsing(f) => Now(f) = disk[f]
            /\ \/ f \in clean
               \/ hash[f] = None
               \/ run.at \in {"tombstone", "forget"} /\ f \in run.todo
            /\ f \in run.files =>
                 \/ run.at \in {"tombstone", "forget"}
                 \/ run.at \in {"parse", "upsert", "prune"} /\ f \in run.todo
                 \/ hash[f] = disk[f]

CatchInv == CatchingUp /\ RunCatchesUp

\* The developer only touches a file, which asks nothing of it any more.
LEMMA DeveloperCatches ==
    ASSUME TypeOK, CatchInv, Developer
    PROVE  CatchInv'
<1>1. PICK f \in File : /\ touched' = touched \cup {f}
                        /\ \A g \in File \ {f} : /\ disk'[g] = disk[g]
                                                 /\ g \in clean' <=> g \in clean
  BY DEF Developer, Edit, Commit, TypeOK
<1>2. UNCHANGED <<hash, run>>
  BY DEF Developer, Edit, Commit, graphVars
<1>3. /\ Diffed' = Diffed
      /\ \A g \in File : (Parsing(g)' <=> Parsing(g)) /\ Now(g)' = Now(g)
  BY <1>2 DEF Diffed, Parsing, Now
<1> QED  BY <1>1, <1>2, <1>3 DEF CatchInv, CatchingUp, RunCatchesUp

\* The steps up to the parse, and the two ways a run ends before it.
LEMMA EarlyStepsCatch ==
    ASSUME IInv, CatchInv,
           \/ Collect \/ NothingChanged \/ Hash \/ Forget
           \/ \E f \in File : Tombstone(f)
    PROVE  CatchInv'
<1>0. TypeOK /\ Shape /\ run \in RunType
  BY DEF IInv, TypeOK
<1>1. Diffed = {} /\ \A f \in File : ~Parsing(f)
  BY <1>0 DEF Shape, Diffed, Collect, NothingChanged, Hash, Forget, Tombstone
<1>2. CASE Collect
  <2>1. /\ run'.at = "tombstone" /\ run'.files = clean /\ run'.diffs = NoDiffs
        /\ run'.todo = Indexed \ clean /\ touched' = {}
        /\ UNCHANGED <<treeVars, hash>>
    BY <1>2 DEF Collect, Idle, Stale, graphVars
  <2>2. Diffed' = {} /\ \A f \in File : ~Parsing(f)'
    BY <2>1 DEF Diffed, Parsing, NoDiffs
  <2> QED
    BY <2>1, <2>2 DEF CatchInv, CatchingUp, RunCatchesUp, treeVars, Indexed
<1>3. CASE NothingChanged
  <2>1. /\ run.at = "tombstone" /\ run.todo = {}
        /\ run'.at = "rest" /\ run'.files = run.files /\ run'.diffs = NoDiffs
        /\ UNCHANGED <<treeVars, hash, touched>>
        /\ \A f \in run.files : disk[f] = None \/ disk[f] = hash[f]
    BY <1>3 DEF NothingChanged, Idle, graphVars, histVars, ChangedFiles
  <2>2. Diffed' = {}
    BY <2>1 DEF Diffed, Parsing, NoDiffs
  <2>3. \A f \in clean : disk[f] # None
    BY <1>0 DEF IInv, Known, TypeOK
  <2> QED
    BY <2>1, <2>2, <2>3 DEF CatchInv, CatchingUp, RunCatchesUp, treeVars
<1>4. CASE Hash
  <2>1. /\ run.at = "tombstone" /\ run.todo = {} /\ run'.at = "parse"
        /\ run'.files = run.files /\ run'.diffs = run.diffs
        /\ run'.todo = ChangedFiles(run.files)
        /\ UNCHANGED <<treeVars, hash, touched>>
    BY <1>0, <1>4 DEF Hash, RunType, graphVars, histVars
  <2>2. Diffed' = {} /\ \A f \in File : ~Parsing(f)'
    BY <1>1, <2>1 DEF Diffed, Parsing
  <2>3. \A f \in clean : disk[f] # None
    BY <1>0 DEF IInv, Known, TypeOK
  <2> QED
    BY <2>1, <2>2, <2>3 DEF CatchInv, CatchingUp, RunCatchesUp, treeVars,
                            ChangedFiles
<1>5. CASE Forget
  <2>1. /\ run.at = "forget" /\ run'.at = "tombstone"
        /\ run'.files = run.files /\ run'.diffs = run.diffs
        /\ run'.todo = run.todo
        /\ UNCHANGED <<treeVars, hash, touched>>
    BY <1>0, <1>5 DEF Forget, RunType, graphVars, histVars
  <2>2. Diffed' = {} /\ \A f \in File : ~Parsing(f)'
    BY <1>1, <2>1 DEF Diffed, Parsing
  <2> QED
    BY <2>1, <2>2 DEF CatchInv, CatchingUp, RunCatchesUp, treeVars
<1>6. ASSUME NEW f \in File, Tombstone(f) PROVE CatchInv'
  <2>1. /\ run.at = "tombstone" /\ run'.at = "forget"
        /\ run'.files = run.files /\ run'.diffs = run.diffs
        /\ run'.todo = run.todo \ {f}
        /\ UNCHANGED <<treeVars, touched>>
    BY <1>0, <1>6 DEF Tombstone, RunType, graphVars, histVars
  <2>2. hash'[f] = None /\ \A g \in File \ {f} : hash'[g] = hash[g]
    BY <1>0, <1>6 DEF Tombstone, TypeOK
  <2>3. Diffed' = {} /\ \A g \in File : ~Parsing(g)'
    BY <1>1, <2>1 DEF Diffed, Parsing
  <2> QED
    BY <2>1, <2>2, <2>3 DEF CatchInv, CatchingUp, RunCatchesUp, treeVars
<1> QED  BY <1>2, <1>3, <1>4, <1>5, <1>6

\* Parsing, writing the nodes of a file and pruning them.
LEMMA NodeStepsCatch ==
    ASSUME IInv, CatchInv,
           \/ \E failed \in SUBSET run.todo : Parse(failed)
           \/ \E f \in File : Upsert(f)
           \/ Prune
    PROVE  CatchInv'
<1>0. TypeOK /\ Shape /\ run \in RunType
  BY DEF IInv, TypeOK
<1>1. ASSUME NEW failed \in SUBSET run.todo, Parse(failed) PROVE CatchInv'
  <2> DEFINE read == {f \in run.todo \ failed : disk[f] # None}
  <2>1. /\ run.at = "parse" /\ run'.at = "upsert" /\ run'.todo = read
        /\ run'.files = run.files \ failed
        /\ run'.diffs = [f \in File |-> IF f \in read THEN Parsed(f) ELSE None]
        /\ UNCHANGED <<treeVars, hash, touched>>
    BY <1>0, <1>1 DEF Parse, RunType, graphVars, histVars
  <2>2. read \subseteq File
    BY <1>0 DEF RunType
  <2>3. \A f \in read : Parsed(f) # None /\ Parsed(f).content = disk[f]
    BY <1>0, <2>2, ParsedType DEF IInv
  <2>4. /\ Diffed' = read
        /\ \A f \in File : Parsing(f)' => f \in read /\ Now(f)' = disk[f]
    <3>1. \A f \in File :
            run'.diffs[f] = IF f \in read THEN Parsed(f) ELSE None
      BY <2>1
    <3>2. \A f \in File : Parsing(f)' <=> f \in read
      BY <2>3, <3>1 DEF Parsing
    <3> QED  BY <2>2, <2>3, <3>1, <3>2 DEF Diffed, Now
  <2>5. \A f \in clean : disk[f] # None
    BY <1>0 DEF IInv, Known, TypeOK
  <2>6. read \subseteq run.files \ failed
    BY <2>1 DEF CatchInv, CatchingUp
  <2> QED
    BY <2>1, <2>4, <2>5, <2>6 DEF CatchInv, CatchingUp, RunCatchesUp, treeVars
<1>2. ASSUME NEW f \in File, Upsert(f) PROVE CatchInv'
  <2>1. /\ run.at = "upsert" /\ run'.at = "prune" /\ run'.todo = run.todo
        /\ f \in run.todo /\ run'.files = run.files /\ run'.diffs = run.diffs
        /\ UNCHANGED <<treeVars, touched>>
    BY <1>0, <1>2 DEF Upsert, RunType, graphVars, histVars
  <2>2. hash'[f] = Now(f) /\ \A g \in File \ {f} : hash'[g] = hash[g]
    BY <1>0, <1>2 DEF Upsert, TypeOK
  <2>3. f \in Diffed /\ Parsing(f) /\ f \in run.files
    BY <1>0, <2>1 DEF Shape, Diffed, CatchInv, CatchingUp
  <2>4. /\ Diffed' = Diffed
        /\ \A g \in File : (Parsing(g)' <=> Parsing(g)) /\ Now(g)' = Now(g)
    BY <2>1 DEF Diffed, Parsing, Now
  <2> QED
    BY <2>1, <2>2, <2>3, <2>4 DEF CatchInv, CatchingUp, RunCatchesUp, treeVars
<1>3. CASE Prune
  <2>1. /\ run.at = "prune" /\ run'.at = "upsert"
        /\ run'.todo = run.todo \ {run.file}
        /\ run'.files = run.files /\ run'.diffs = run.diffs
        /\ UNCHANGED <<treeVars, hash, touched>>
    BY <1>0, <1>3 DEF Prune, PruneTo, RunType, histVars
  <2>2. run.file \in Diffed /\ hash[run.file] = Now(run.file)
    BY <1>0, <2>1 DEF Shape, Waiting
  <2>3. /\ Diffed' = Diffed
        /\ \A g \in File : (Parsing(g)' <=> Parsing(g)) /\ Now(g)' = Now(g)
    BY <2>1 DEF Diffed, Parsing, Now
  <2> QED
    BY <2>1, <2>2, <2>3 DEF CatchInv, CatchingUp, RunCatchesUp, treeVars,
                            Diffed
<1> QED  BY <1>1, <1>2, <1>3

\* The steps after the nodes, and the end of the run.
LEMMA LateStepsCatch ==
    ASSUME IInv, CatchInv,
           \/ NodesWritten \/ ClearOutgoing \/ ClearDerived \/ LinkProxies
           \/ \E k \in Kind : LinkFacts(k)
           \/ Embed \/ Unembed
    PROVE  CatchInv'
<1>0. TypeOK /\ run \in RunType
  BY DEF IInv, TypeOK
<1>1. UNCHANGED <<treeVars, hash, touched>>
  BY DEF NodesWritten, ClearOutgoing, ClearDerived, LinkProxies, LinkFacts,
         Embed, Unembed, graphVars, histVars
<1>2. CASE Unembed
  <2>1. /\ run.at = "unembed" /\ run'.at = "rest" /\ run'.files = run.files
        /\ run'.diffs = NoDiffs
    BY <1>2 DEF Unembed, Idle
  <2>2. Diffed' = {}
    BY <2>1 DEF Diffed, Parsing, NoDiffs
  <2> QED
    BY <1>1, <2>1, <2>2 DEF CatchInv, CatchingUp, RunCatchesUp, treeVars
<1>3. CASE ~Unembed
  <2> DEFINE late == {"edges", "clear", "proxy", "attr", "type", "alias",
                      "embed", "unembed"}
  <2>1. /\ run' = [run EXCEPT !.at = run'.at] /\ run'.at \in late
        /\ (run.at = "upsert" /\ run.todo = {}) \/ run.at \in late
    BY <1>0, <1>3 DEF NodesWritten, ClearOutgoing, ClearDerived, LinkProxies,
                      LinkFacts, Embed, After, RunType, Kind
  <2>2. run'.files = run.files /\ run'.diffs = run.diffs
        /\ run'.todo = run.todo
    BY <1>0, <2>1 DEF RunType
  <2>3. /\ Diffed' = Diffed
        /\ \A g \in File : (Parsing(g)' <=> Parsing(g)) /\ Now(g)' = Now(g)
    BY <2>2 DEF Diffed, Parsing, Now
  <2> QED
    BY <1>1, <2>1, <2>2, <2>3 DEF CatchInv, CatchingUp, RunCatchesUp, treeVars
<1> QED  BY <1>2, <1>3

\* A save indexes a clean file as it is.
LEMMA SaveCatches ==
    ASSUME IInv, CatchInv, NEW f \in File, SaveFile(f)
    PROVE  CatchInv'
<1>1. /\ run.at = "rest" /\ f \in clean
      /\ UNCHANGED <<treeVars, run, touched>>
      /\ hash'[f] = disk[f] /\ \A g \in File \ {f} : hash'[g] = hash[g]
  BY DEF SaveFile, IInv, TypeOK, histVars
<1>2. Diffed' = Diffed
  BY <1>1 DEF Diffed, Parsing
<1> QED  BY <1>1, <1>2 DEF CatchInv, CatchingUp, RunCatchesUp, treeVars

\* A run that completed has brought the index to the committed tree, whatever
\* was edited, committed or aborted before it, and later saves keep it there.
THEOREM PipelineRunCatchesUp == Spec => []RunCatchesUp
<1>1. Init => CatchInv
  BY DEF Init, Idle, CatchInv, CatchingUp, RunCatchesUp, Diffed, Parsing,
         NoDiffs
<1>2. ASSUME IInv, CatchInv, [Next]_vars PROVE CatchInv'
  <2>1. CASE Developer
    BY <1>2, <2>1, DeveloperCatches DEF IInv
  <2>2. CASE Run
    <3>1. CASE \E f \in File : Tombstone(f) \/ Upsert(f)
      BY <1>2, <3>1, EarlyStepsCatch, NodeStepsCatch
    <3> QED
      BY <1>2, <2>2, <3>1, EarlyStepsCatch, NodeStepsCatch, LateStepsCatch
      DEF Run
  <2>3. CASE Abort
    BY <1>2, <2>3 DEF Abort, Idle, CatchInv, CatchingUp, RunCatchesUp, Diffed,
                      Parsing, NoDiffs
  <2>4. CASE \E f \in File : SaveFile(f)
    BY <1>2, <2>4, SaveCatches
  <2>5. CASE UNCHANGED vars
    BY <1>2, <2>5 DEF vars, CatchInv, CatchingUp, RunCatchesUp, Diffed,
                      Parsing, Now
  <2> QED  BY <1>2, <2>1, <2>2, <2>3, <2>4, <2>5 DEF Next
<1>3. CatchInv => RunCatchesUp
  BY DEF CatchInv
<1> QED  BY <1>1, <1>2, <1>3, PipelineInvariant, PTL DEF Spec
-----------------------------------------------------------------------------
(* Edges held by other files survive *)

\* Pruning a file took its proxies, and none come back before they are
\* linked: the clearing finds none to delete.
ProxiesPruned ==
    \A f \in Diffed :
        /\ run.at \in {"prune", "upsert", "edges", "clear"}
        /\ ~Waiting(f) /\ ~(run.at = "prune" /\ run.file = f)
        => ProxiesOf(f) = {}

\* Proxies only disappear, up to the clearing, and a file stops waiting by
\* being pruned.
LEMMA PrunedKeeps ==
    ASSUME IInv, ProxiesPruned, [Next]_vars
    PROVE  ProxiesPruned'
<1>0. TypeOK /\ Shape /\ run \in RunType
  BY DEF IInv, TypeOK
<1>1. CASE Developer \/ UNCHANGED vars
  BY <1>1 DEF Developer, Edit, Commit, vars, graphVars, ProxiesPruned, Diffed,
              Parsing, Waiting, ProxiesOf
<1>2. CASE \/ Abort \/ Unembed \/ Collect \/ NothingChanged
  <2>1. Abort \/ Unembed \/ NothingChanged => run'.at = "rest"
    BY DEF Abort, Unembed, NothingChanged, Idle
  <2>2. Collect => run'.at = "tombstone"
    BY DEF Collect, Idle
  <2> QED  BY <1>2, <2>1, <2>2 DEF ProxiesPruned
<1>3. CASE \/ Hash \/ Forget \/ \E f \in File : Tombstone(f) \/ SaveFile(f)
  <2>1. run'.at \in {"rest", "tombstone", "forget", "parse"}
    BY <1>0, <1>3 DEF Hash, Forget, Tombstone, SaveFile, RunType
  <2> QED  BY <2>1 DEF ProxiesPruned
<1>4. CASE LinkProxies \/ Embed \/ \E k \in Kind : LinkFacts(k)
  <2>1. run'.at \in {"attr", "type", "alias", "embed", "unembed"}
    BY <1>0, <1>4 DEF LinkProxies, LinkFacts, Embed, After, RunType, Kind
  <2> QED  BY <2>1 DEF ProxiesPruned
<1>5. ASSUME NEW failed \in SUBSET run.todo, Parse(failed)
      PROVE  ProxiesPruned'
  <2> DEFINE read == {f \in run.todo \ failed : disk[f] # None}
  <2>1. /\ run'.at = "upsert" /\ run'.todo = read
        /\ run'.diffs = [f \in File |-> IF f \in read THEN Parsed(f) ELSE None]
    BY <1>0, <1>5 DEF Parse, RunType
  <2>2. \A f \in File : Parsing(f)' => f \in read
    BY <2>1 DEF Parsing
  <2> QED  BY <2>1, <2>2 DEF ProxiesPruned, Waiting, Diffed
<1>6. ASSUME NEW f \in File, Upsert(f) PROVE ProxiesPruned'
  <2>1. /\ run.at = "upsert" /\ run'.at = "prune" /\ run'.todo = run.todo
        /\ run'.file = f /\ run'.diffs = run.diffs /\ proxies' = proxies
    BY <1>0, <1>6 DEF Upsert, RunType
  <2> QED  BY <2>1 DEF ProxiesPruned, Waiting, Diffed, Parsing, ProxiesOf
<1>7. CASE Prune
  <2>1. /\ run.at = "prune" /\ run'.at = "upsert"
        /\ run'.todo = run.todo \ {run.file} /\ run'.diffs = run.diffs
        /\ proxies' = proxies \ ProxiesOf(run.file)
    BY <1>0, <1>7 DEF Prune, PruneTo, RunType
  <2> QED  BY <2>1 DEF ProxiesPruned, Waiting, Diffed, Parsing, ProxiesOf
<1>8. CASE NodesWritten
  <2>1. /\ run.at = "upsert" /\ run.todo = {} /\ run'.at = "edges"
        /\ run'.todo = {} /\ run'.diffs = run.diffs /\ proxies' = proxies
    BY <1>0, <1>8 DEF NodesWritten, RunType, graphVars
  <2> QED  BY <2>1 DEF ProxiesPruned, Waiting, Diffed, Parsing, ProxiesOf
<1>9. CASE ClearOutgoing
  <2>1. /\ run.at = "edges" /\ run'.at = "clear"
        /\ run'.todo = run.todo /\ run'.diffs = run.diffs
        /\ proxies' = proxies
    BY <1>0, <1>9 DEF ClearOutgoing, RunType, After
  <2> QED  BY <2>1 DEF ProxiesPruned, Waiting, Diffed, Parsing, ProxiesOf
<1>10. CASE ClearDerived
  <2>1. run'.at = "proxy"
    BY <1>0, <1>10 DEF ClearDerived, RunType, After
  <2> QED  BY <2>1 DEF ProxiesPruned
<1> QED  BY <1>1, <1>2, <1>3, <1>4, <1>5, <1>6, <1>7, <1>8, <1>9, <1>10
         DEF Next, Run

\* An edge that a step takes is one that its own file is about to link anew,
\* or it has lost an end that does not come back as it was.
LEMMA LostEdges ==
    ASSUME IInv, ProxiesPruned, [Next]_vars, NEW e \in edges \ edges'
    PROVE  \/ IF run.at = "rest" THEN SaveFile(e[2][1]) ELSE e[2][1] \in Diffed
           \/ ~Node(e[2])' \/ ~Declared(e[3])'
<1>0. TypeOK /\ Shape /\ run \in RunType
  BY DEF IInv, TypeOK
<1>1. /\ e[2] \in Uid /\ e[3] \in Uid
      /\ e[2] = <<e[2][1], e[2][2]>> /\ e[3] = <<e[3][1], e[3][2]>>
  BY <1>0 DEF TypeOK, Present, Uid
<1>2. ASSUME NEW f \in File, Tombstone(f)
      PROVE  ~Node(e[2])' \/ ~Declared(e[3])'
  <2>1. /\ nodes'[f] = {} /\ proxies' = proxies \ ProxiesOf(f)
        /\ e[2] \in UidsOf(f, Existing(f)) \/ e[3] \in UidsOf(f, Existing(f))
    BY <1>0, <1>2 DEF Tombstone, TypeOK, Detached
  <2>2. e[2][1] = f \/ e[3][1] = f
    BY <2>1 DEF UidsOf
  <2> QED  BY <2>1, <2>2 DEF Node, Declared, ProxiesOf
<1>3. CASE Prune
  <2> DEFINE f == run.file
  <2> DEFINE keep == Names(Now(f).symbols)
  <2>1. f \in File
    BY <1>0, <1>3 DEF Prune, Shape
  <2>2. /\ nodes'[f] = {s \in nodes[f] : s[1] \in keep}
        /\ proxies' = proxies \ ProxiesOf(f)
        /\ \/ e[2] \in UidsOf(f, Existing(f) \ keep)
           \/ e[3] \in UidsOf(f, Existing(f) \ keep)
    BY <1>0, <1>3, <2>1 DEF Prune, PruneTo, TypeOK, Detached
  <2>3. \/ e[2][1] = f /\ e[2][2] \notin keep
        \/ e[3][1] = f /\ e[3][2] \notin keep
    BY <2>2 DEF UidsOf
  <2> HIDE DEF keep, f
  <2>4. ASSUME NEW u \in Uid, u[1] = f, u[2] \notin keep PROVE ~Node(u)'
    <3>1. u \notin proxies'
      BY <2>2, <2>4 DEF ProxiesOf
    <3>2. \A x \in Body : <<u[2], x>> \notin nodes'[f]
      BY <2>2, <2>4
    <3> QED  BY <2>4, <3>1, <3>2 DEF Node, Declared
  <2> QED  BY <1>1, <2>3, <2>4 DEF Node
<1>4. CASE ClearOutgoing
  <2>1. run.at = "edges"
        /\ \E f \in Diffed : e[2] \in Refreshed(f, Now(f), run.diffs[f].changed)
    BY <1>4 DEF ClearOutgoing, From
  <2> QED  BY <2>1 DEF Refreshed, UidsOf
<1>5. CASE ClearDerived
  <2>1. run.at = "clear" /\ {u \in proxies : u[1] \in Diffed} = {}
    BY <1>5 DEF ClearDerived, ProxiesPruned, Waiting, ProxiesOf
  <2>2. \E f \in Diffed : e \in Cleared(f, {"attr", "type"})
    BY <1>5, <2>1 DEF ClearDerived, Detached
  <2> QED  BY <2>1, <2>2 DEF Cleared
<1>6. ASSUME NEW f \in File, SaveFile(f)
      PROVE  (SaveFile(e[2][1]) /\ run.at = "rest") \/ ~Declared(e[3])'
  <2> DEFINE keep == Names(disk[f].symbols)
  <2>1. /\ run.at = "rest"
        /\ nodes'[f] = {s \in Merged(nodes[f], Parsed(f).changed) :
                          s[1] \in keep}
        /\ \/ e \notin Detached(UidsOf(f, Existing(f) \ keep))
           \/ e \in From(Refreshed(f, disk[f], Parsed(f).changed))
           \/ e \in Cleared(f, Relinks)
    BY <1>0, <1>6 DEF SaveFile, TypeOK
  <2>2. e[2][1] = f \/ e[3] \in UidsOf(f, Existing(f) \ keep)
    BY <2>1 DEF From, Cleared, Refreshed, UidsOf, Detached
  <2>3. CASE e[2][1] = f
    BY <1>6, <2>1, <2>3
  <2>4. CASE e[3] \in UidsOf(f, Existing(f) \ keep)
    <3>1. e[3][1] = f /\ e[3][2] \notin keep
      BY <2>4 DEF UidsOf
    <3> HIDE DEF keep
    <3>2. \A x \in Body : <<e[3][2], x>> \notin nodes'[f]
      BY <2>1, <3>1
    <3> QED  BY <3>1, <3>2 DEF Declared
  <2> QED  BY <2>2, <2>3, <2>4
<1>7. ASSUME ~Prune, ~ClearOutgoing, ~ClearDerived,
             \A f \in File : ~Tombstone(f) /\ ~SaveFile(f)
      PROVE  FALSE
  BY <1>7 DEF Next, Run, Developer, Edit, Commit, Abort, Collect, Forget,
              NothingChanged, Hash, Parse, Upsert, NodesWritten, LinkProxies,
              LinkFacts, Embed, Unembed, vars, graphVars
<1> QED  BY <1>2, <1>3, <1>4, <1>5, <1>6, <1>7

\* Re-indexing a file costs no edge that another file holds into a symbol
\* which stays, in a run or by a save, for any files and contents.
THEOREM PipelineIncomingEdgesSurvive == Spec => IncomingEdgesSurvive
<1>1. Init => ProxiesPruned
  BY DEF Init, Idle, ProxiesPruned
<1>2. IInv /\ ProxiesPruned /\ [Next]_vars => ProxiesPruned'
  BY PrunedKeeps
<1>3. IInv /\ ProxiesPruned /\ [Next]_vars =>
        [\A e \in edges \ edges' :
           \/ IF run.at = "rest" THEN SaveFile(e[2][1]) ELSE e[2][1] \in Diffed
           \/ ~Node(e[2])' \/ ~Declared(e[3])']_vars
  BY LostEdges
<1> QED
  BY <1>1, <1>2, <1>3, PipelineInvariant, PTL DEF Spec, IncomingEdgesSurvive
-----------------------------------------------------------------------------
(* Derived edges are facts *)

EdgesOut(k, f) == {e \in OfKind(k) : e[2][1] = f}
IsFact(e, c) == <<e[2][2], e[3]>> \in c.facts[e[1]]

NodesDeclared ==
    \A f \in File : \A s \in nodes[f] : \E c \in Contents[f] : s \in c.symbols

ProxyEdgesKnown ==
    \A e \in OfKind("proxy") : \E c \in Contents[e[2][1]] : IsFact(e, c)

\* The stages after which the edges of a kind are linked.
LinkedAt(k) ==
    CASE k = "proxy" -> {"attr", "type", "alias", "embed", "unembed"}
      [] k = "attr" -> {"type", "alias", "embed", "unembed"}
      [] k = "type" -> {"alias", "embed", "unembed"}
      [] OTHER -> {"embed", "unembed"}
ClearedAt == {"proxy", "attr", "type", "alias", "embed", "unembed"}

\* Once cleared, a file has the edges linked so far and no others.
Linking ==
    run.at \in ClearedAt =>
        \A f \in Diffed :
            /\ \A k \in Kind \ {"alias"} :
                 EdgesOut(k, f) = IF run.at \in LinkedAt(k)
                                  THEN Links(k, f, Now(f)) ELSE {}
            /\ f \notin broken /\ run.at \in LinkedAt("alias") =>
                 EdgesOut("alias", f) = Links("alias", f, Now(f))

\* A REFERENCES edge of a file whose nodes are written is a fact still, or
\* its symbol is one to be refreshed, or about to be pruned.
AliasDue ==
    \A f \in Diffed \ broken : ~Waiting(f) =>
        \A e \in EdgesOut("alias", f) :
            \/ IsFact(e, Now(f))
            \/ /\ run.at \in {"prune", "upsert", "edges"}
               /\ e[2] \in Refreshed(f, Now(f), run.diffs[f].changed)
            \/ /\ run.at = "prune" /\ run.file = f
               /\ e[2][2] \notin Names(Now(f).symbols)

\* A file that the run has not written to has the edges of what it was.
OldFacts ==
    \A f \in File \ broken : Untouched(f) =>
        \A k \in Kind \ {"attr"} : \A e \in EdgesOut(k, f) :
            hash[f] # None /\ IsFact(e, hash[f])

Forgotten == run.at = "forget" => \A k \in Kind : EdgesOut(k, run.file) = {}

EdgeInv == NodesDeclared /\ ProxyEdgesKnown /\ Linking /\ AliasDue
           /\ OldFacts /\ Forgotten

\* An edge out of a file leaves one of its names.
LEMMA EdgeEnds ==
    ASSUME TypeOK, NEW k \in Kind, NEW f \in File, NEW e \in EdgesOut(k, f)
    PROVE  /\ e = <<k, e[2], e[3]>> /\ e[1] = k /\ e[2] = <<f, e[2][2]>>
           /\ e[2][2] \in Existing(f) /\ e[2][2] \in Name
           /\ e[2] \in Present /\ e[3] \in Present
<1>1. /\ e \in edges /\ e[1] = k /\ e[2][1] = f /\ e = <<e[1], e[2], e[3]>>
      /\ e[2] \in Present /\ e[3] \in Present
  BY DEF EdgesOut, OfKind, TypeOK
<1>2. e[2] = <<f, e[2][2]>> /\ e[2][2] \in Name
  BY <1>1 DEF Present, Uid
<1> QED  BY <1>1, <1>2, ExistingType

\* What a linker links for a file are its facts with a target, all of them.
LEMMA LinksAreFacts ==
    ASSUME NEW f \in File, NEW c \in Contents[f], NEW k \in Kind, NEW U
    PROVE  /\ \A e \in LinksAmong(k, f, c, U) :
                e[1] = k /\ e[2][1] = f /\ e[3] \in U /\ IsFact(e, c)
           /\ \A e : (e = <<k, <<f, e[2][2]>>, e[3]>> /\ e[3] \in U
                      /\ IsFact(e, c)) => e \in LinksAmong(k, f, c, U)
<1>1. c.facts[k] \subseteq Name \X Uid
  BY ContentType
<1>2. \A e \in LinksAmong(k, f, c, U) :
        e[1] = k /\ e[2][1] = f /\ e[3] \in U /\ IsFact(e, c)
  BY <1>1 DEF LinksAmong, IsFact
<1>3. ASSUME NEW e, e = <<k, <<f, e[2][2]>>, e[3]>>, e[3] \in U, IsFact(e, c)
      PROVE  e \in LinksAmong(k, f, c, U)
  <2> DEFINE x == <<e[2][2], e[3]>>
  <2>1. e[1] = k /\ x \in c.facts[k] /\ x[1] = e[2][2] /\ x[2] = e[3]
    BY <1>3 DEF IsFact
  <2>2. e = <<k, <<f, x[1]>>, x[2]>>
    BY <1>3, <2>1
  <2> HIDE DEF x
  <2> QED  BY <1>3, <2>1, <2>2 DEF LinksAmong
<1> QED  BY <1>2, <1>3

\* What a symbol kept as it was refers to is what it referred to before; the
\* rest is refreshed or removed.
LEMMA AliasKept ==
    ASSUME TypeOK, Known, NEW f \in File, Settled(f), hash[f] # None,
           NEW c \in Contents[f],
           NEW e \in EdgesOut("alias", f), IsFact(e, hash[f])
    PROVE  \/ IsFact(e, c)
           \/ e[2] \in Refreshed(f, c, c.symbols \ nodes[f])
           \/ e[2][2] \notin Names(c.symbols)
<1>1. "alias" \in Kind \ {"proxy"}
  BY DEF Kind
<1>2. hash[f] \in Contents[f] /\ nodes[f] = hash[f].symbols
  BY DEF Known, Settled, SymbolsOf
<1> DEFINE n == e[2][2]
<1>3. e[1] = "alias" /\ e[2] = <<f, n>>
  BY <1>1, EdgeEnds
<1> HIDE DEF n
<1> DEFINE x == <<n, e[3]>>
<1>4. x \in hash[f].facts["alias"] /\ x[1] = n
  BY <1>3 DEF IsFact, n
<1>5. n \in Names(hash[f].symbols)
  BY <1>1, <1>2, <1>4, ContentType DEF Names
<1>6. PICK s \in hash[f].symbols : s[1] = n
  BY <1>5 DEF Names
<1>7. CASE s \in c.symbols
  <2>1. {y \in hash[f].facts["alias"] : y[1] = s[1]}
        = {y \in c.facts["alias"] : y[1] = s[1]}
    BY <1>1, <1>2, <1>6, <1>7, FactsFollowBodies DEF FactsFollowBodies
  <2>2. x \in c.facts["alias"]
    BY <1>4, <1>6, <2>1
  <2> QED  BY <1>3, <2>2 DEF IsFact, n
<1>8. CASE s \notin c.symbols /\ n \in Names(c.symbols)
  <2>1. PICK t \in c.symbols : t[1] = n
    BY <1>8 DEF Names
  <2>2. t \notin nodes[f]
    BY <1>2, <1>6, <1>8, <2>1, ContentType
  <2>3. t \in c.symbols \ nodes[f] /\ n \in Names(c.symbols \ nodes[f])
    BY <2>1, <2>2 DEF Names
  <2> QED  BY <1>3, <2>3 DEF Refreshed, UidsOf
<1> QED  BY <1>7, <1>8 DEF n
\* Steps that leave the graph as it is, before a run has linked anything: a
\* file untouched after the step was untouched before, or has no edges.
LEMMA GraphKeptEdges ==
    ASSUME TypeOK, EdgeInv, UNCHANGED graphVars, broken \subseteq broken',
           run'.at \notin ClearedAt, run'.at # "forget",
           \A f \in File : Parsing(f)' => Waiting(f)',
           \A f \in File \ broken' : \/ Untouched(f)
                                     \/ \A k \in Kind : EdgesOut(k, f) = {}
    PROVE  EdgeInv'
<1>1. \A k, f : EdgesOut(k, f)' = EdgesOut(k, f)
  BY DEF EdgesOut, OfKind, graphVars
<1>2. NodesDeclared' /\ ProxyEdgesKnown'
  BY DEF EdgeInv, NodesDeclared, ProxyEdgesKnown, OfKind, graphVars
<1>3. Linking' /\ Forgotten'
  BY DEF Linking, Forgotten
<1>4. AliasDue'
  BY DEF AliasDue, Diffed
<1>5. OldFacts'
  BY <1>1 DEF EdgeInv, OldFacts, graphVars
<1> QED  BY <1>2, <1>3, <1>4, <1>5 DEF EdgeInv

\* The steps that touch no edge.
LEMMA QuietStepsEdges ==
    ASSUME IInv, EdgeInv,
           \/ Collect \/ NothingChanged \/ Hash \/ Forget
           \/ \E failed \in SUBSET run.todo : Parse(failed)
    PROVE  EdgeInv'
<1>0. TypeOK /\ Shape /\ run \in RunType
  BY DEF IInv, TypeOK
<1>1. Diffed = {} /\ \A f \in File : ~Parsing(f)
  BY <1>0 DEF Shape, Diffed, Collect, NothingChanged, Hash, Forget, Parse
<1>2. UNCHANGED <<graphVars, broken>>
  BY DEF Collect, NothingChanged, Hash, Forget, Parse, histVars
<1>3. run.at = "forget" => \A k \in Kind : EdgesOut(k, run.file) = {}
  BY DEF EdgeInv, Forgotten
<1>4. \A f \in File : Untouched(f) \/ \A k \in Kind : EdgesOut(k, f) = {}
  BY <1>1, <1>3 DEF Untouched
<1>5. CASE \E failed \in SUBSET run.todo : Parse(failed)
  <2>1. PICK failed \in SUBSET run.todo : Parse(failed)
    BY <1>5
  <2> DEFINE read == {f \in run.todo \ failed : disk[f] # None}
  <2>2. /\ run'.at = "upsert" /\ run'.todo = read
        /\ run'.diffs = [f \in File |-> IF f \in read THEN Parsed(f) ELSE None]
    BY <1>0, <2>1 DEF Parse, RunType
  <2>3. \A f \in File : Parsing(f)' => Waiting(f)'
    BY <2>2 DEF Parsing, Waiting
  <2> QED  BY <1>0, <1>2, <1>4, <2>2, <2>3, GraphKeptEdges DEF ClearedAt
<1>6. CASE Collect \/ NothingChanged
  <2>1. NothingChanged => run'.at = "rest" /\ run'.diffs = NoDiffs
    BY DEF NothingChanged, Idle
  <2>2. Collect => run'.at = "tombstone" /\ run'.diffs = NoDiffs
    BY DEF Collect, Idle
  <2>3. \A f \in File : ~Parsing(f)'
    BY <1>6, <2>1, <2>2 DEF Parsing, NoDiffs
  <2> QED  BY <1>0, <1>2, <1>4, <1>6, <2>1, <2>2, <2>3, GraphKeptEdges
           DEF ClearedAt
<1>7. CASE Hash \/ Forget
  <2>1. run'.at \in {"parse", "tombstone"} /\ run'.diffs = run.diffs
    BY <1>0, <1>7 DEF Hash, Forget, RunType
  <2>2. \A f \in File : ~Parsing(f)'
    BY <1>1, <2>1 DEF Parsing
  <2> QED  BY <1>0, <1>2, <1>4, <2>1, <2>2, GraphKeptEdges DEF ClearedAt
<1> QED  BY <1>5, <1>6, <1>7

\* A run that breaks off counts as half written and leaves the edges as they are.
LEMMA AbortEdges ==
    ASSUME IInv, EdgeInv, Abort
    PROVE  EdgeInv'
<1>0. TypeOK /\ Shape
  BY DEF IInv
<1>1. /\ run.at # "rest" /\ broken' = broken \cup HalfWritten
      /\ run'.at = "rest" /\ run'.diffs = NoDiffs /\ UNCHANGED graphVars
  BY DEF Abort, Idle
<1>2. \A f \in File : ~Parsing(f)'
  BY <1>1 DEF Parsing, NoDiffs
<1>3. \A f \in File \ broken' : Untouched(f)
  BY <1>0, <1>1 DEF HalfWritten, Untouched, Waiting, Diffed, Shape
<1> QED  BY <1>0, <1>1, <1>2, <1>3, GraphKeptEdges DEF ClearedAt

\* A tombstone takes every edge out of the file.
LEMMA TombstoneEdges ==
    ASSUME IInv, EdgeInv, NEW f \in File, Tombstone(f)
    PROVE  EdgeInv'
<1>0. TypeOK /\ Shape /\ run \in RunType
  BY DEF IInv, TypeOK
<1>1. /\ run.at = "tombstone" /\ run'.at = "forget" /\ run'.file = f
      /\ run'.diffs = run.diffs /\ broken' = broken
      /\ edges' = Detached(UidsOf(f, Existing(f))) /\ edges' \subseteq edges
  BY <1>0 DEF Tombstone, RunType, histVars, Detached
<1>2. /\ nodes'[f] = {} /\ hash'[f] = None
      /\ \A g \in File \ {f} : nodes'[g] = nodes[g] /\ hash'[g] = hash[g]
  BY <1>0 DEF Tombstone, TypeOK
<1>3. Diffed = {} /\ Diffed' = {} /\ \A g \in File : ~Parsing(g) /\ ~Parsing(g)'
  BY <1>0, <1>1 DEF Shape, Diffed, Parsing
<1>4. \A k, g : EdgesOut(k, g)' \subseteq EdgesOut(k, g)
  BY <1>1 DEF EdgesOut, OfKind
<1>5. ASSUME NEW k \in Kind PROVE EdgesOut(k, f)' = {}
  <2> SUFFICES ASSUME NEW e \in EdgesOut(k, f)' PROVE FALSE
    OBVIOUS
  <2>1. e \in EdgesOut(k, f) /\ e \in edges'
    BY <1>4 DEF EdgesOut, OfKind
  <2>2. e[2] = <<f, e[2][2]>> /\ e[2][2] \in Existing(f)
    BY <1>0, <2>1, EdgeEnds
  <2> QED  BY <1>1, <2>1, <2>2 DEF Detached, UidsOf
<1>6. NodesDeclared'
  BY <1>2 DEF EdgeInv, NodesDeclared
<1>7. ProxyEdgesKnown'
  BY <1>1 DEF EdgeInv, ProxyEdgesKnown, OfKind
<1>8. Linking' /\ AliasDue' /\ Forgotten'
  BY <1>1, <1>3, <1>5 DEF Linking, AliasDue, Forgotten, ClearedAt
<1>9. OldFacts'
  <2> SUFFICES ASSUME NEW g \in File \ broken, Untouched(g)',
                      NEW k \in Kind \ {"attr"}, NEW e \in EdgesOut(k, g)'
               PROVE  hash'[g] # None /\ IsFact(e, hash'[g])
    BY <1>1 DEF OldFacts
  <2>1. g # f
    BY <1>1 DEF Untouched
  <2>2. Untouched(g)
    BY <1>1, <1>3 DEF Untouched
  <2> QED  BY <1>2, <1>4, <2>1, <2>2 DEF EdgeInv, OldFacts
<1> QED  BY <1>6, <1>7, <1>8, <1>9 DEF EdgeInv

\* Upserting makes the edges of a file those of symbols kept, refreshed or
\* about to be pruned.
LEMMA UpsertEdges ==
    ASSUME IInv, EdgeInv, NEW f \in File, Upsert(f)
    PROVE  EdgeInv'
<1>0. TypeOK /\ Known /\ Shape /\ FilesHold /\ run \in RunType
  BY DEF IInv, TypeOK
<1>1. /\ run.at = "upsert" /\ run'.at = "prune" /\ run'.file = f
      /\ run'.todo = run.todo /\ run'.diffs = run.diffs
      /\ UNCHANGED <<proxies, edges, broken>>
      /\ f \in run.todo /\ Parsing(f) /\ Waiting(f)
  <2>1. run.at = "upsert" /\ f \in run.todo /\ run.todo \subseteq Diffed
    BY <1>0 DEF Shape, Upsert
  <2> QED  BY <1>0, <2>1 DEF Upsert, RunType, histVars, Waiting, Diffed
<1>2. /\ hash'[f] = Now(f) /\ nodes'[f] = Merged(nodes[f], run.diffs[f].changed)
      /\ \A g \in File \ {f} : nodes'[g] = nodes[g] /\ hash'[g] = hash[g]
  BY <1>0 DEF Upsert, TypeOK
<1>3. Now(f) \in Contents[f] /\ run.diffs[f].changed = Now(f).symbols \ nodes[f]
  BY <1>0, <1>1 DEF Known, Shape, Diffed
<1>4. /\ Diffed' = Diffed /\ ~Waiting(f)' /\ ~Untouched(f)'
      /\ \A g \in File : (Parsing(g)' <=> Parsing(g)) /\ Now(g)' = Now(g)
      /\ \A g \in File \ {f} : /\ Waiting(g)' <=> Waiting(g)
                               /\ Untouched(g)' <=> Untouched(g)
  BY <1>1 DEF Diffed, Parsing, Now, Waiting, Untouched
<1>5. \A k, g : EdgesOut(k, g)' = EdgesOut(k, g)
  BY <1>1 DEF EdgesOut, OfKind
<1>6. NodesDeclared'
  BY <1>2, <1>3 DEF EdgeInv, NodesDeclared, Merged
<1>7. ProxyEdgesKnown' /\ Linking' /\ Forgotten'
  BY <1>1 DEF EdgeInv, ProxyEdgesKnown, OfKind, Linking, Forgotten, ClearedAt
<1>8. OldFacts'
  BY <1>1, <1>2, <1>4, <1>5 DEF EdgeInv, OldFacts
<1>9. AliasDue'
  <2> SUFFICES ASSUME NEW g \in Diffed, g \notin broken, ~Waiting(g)',
                      NEW e \in EdgesOut("alias", g)
               PROVE  \/ IsFact(e, Now(g))
                      \/ e[2] \in Refreshed(g, Now(g), run.diffs[g].changed)
                      \/ g = f /\ e[2][2] \notin Names(Now(g).symbols)
    BY <1>1, <1>4, <1>5 DEF AliasDue, Diffed
  <2>1. CASE g # f
    BY <1>1, <1>4, <2>1 DEF EdgeInv, AliasDue, Diffed
  <2>2. CASE g = f
    <3>1. Untouched(f) /\ Settled(f)
      BY <1>0, <1>1, <2>2 DEF Untouched, FilesHold, FileHolds
    <3>2. hash[f] # None /\ IsFact(e, hash[f])
      BY <2>2, <3>1 DEF EdgeInv, OldFacts, Kind
    <3> QED  BY <1>0, <1>3, <2>2, <3>1, <3>2, AliasKept
  <2> QED  BY <2>1, <2>2
<1> QED  BY <1>6, <1>7, <1>8, <1>9 DEF EdgeInv

\* Pruning takes the edges of what the file no longer declares.
LEMMA PruneEdges ==
    ASSUME IInv, EdgeInv, NEW f \in File, f = run.file, Prune
    PROVE  EdgeInv'
<1>0. TypeOK /\ Shape /\ run \in RunType
  BY DEF IInv, TypeOK
<1> DEFINE keep == Names(Now(f).symbols)
<1>1. /\ run.at = "prune" /\ run'.at = "upsert" /\ f \in run.todo
      /\ run'.todo = run.todo \ {f} /\ run'.diffs = run.diffs
      /\ edges' = Detached(UidsOf(f, Existing(f) \ keep))
      /\ edges' \subseteq edges /\ UNCHANGED <<hash, broken>>
  BY <1>0 DEF Prune, PruneTo, RunType, histVars, Detached, Shape
<1>2. \A g \in File : nodes'[g] \subseteq nodes[g]
  BY <1>0 DEF Prune, PruneTo, TypeOK
<1>3. /\ Diffed' = Diffed /\ f \in Diffed
      /\ \A g \in File : /\ (Parsing(g)' <=> Parsing(g)) /\ Now(g)' = Now(g)
                         /\ Waiting(g)' <=> Waiting(g)
                         /\ Untouched(g)' <=> Untouched(g)
  BY <1>0, <1>1 DEF Diffed, Parsing, Now, Waiting, Untouched, Shape
<1>4. \A k, g : EdgesOut(k, g)' \subseteq EdgesOut(k, g)
  BY <1>1 DEF EdgesOut, OfKind
<1>5. NodesDeclared'
  BY <1>2 DEF EdgeInv, NodesDeclared
<1>6. ProxyEdgesKnown' /\ Linking' /\ Forgotten'
  BY <1>1 DEF EdgeInv, ProxyEdgesKnown, OfKind, Linking, Forgotten, ClearedAt
<1>7. OldFacts'
  BY <1>1, <1>3, <1>4 DEF EdgeInv, OldFacts
<1>8. AliasDue'
  <2> SUFFICES ASSUME NEW g \in Diffed, g \notin broken, ~Waiting(g),
                      NEW e \in EdgesOut("alias", g)'
               PROVE  \/ IsFact(e, Now(g))
                      \/ e[2] \in Refreshed(g, Now(g), run.diffs[g].changed)
    BY <1>1, <1>3 DEF AliasDue, Diffed
  <2>1. e \in EdgesOut("alias", g) /\ e \in edges' /\ g \in File
    BY <1>4 DEF EdgesOut, OfKind, Diffed
  <2>2. g = f => e[2][2] \in keep
    <3> SUFFICES ASSUME g = f, e[2][2] \notin keep PROVE FALSE
      OBVIOUS
    <3>1. e[2] = <<f, e[2][2]>> /\ e[2][2] \in Existing(f)
      BY <1>0, <2>1, EdgeEnds DEF Kind
    <3> QED  BY <1>1, <2>1, <3>1 DEF Detached, UidsOf
  <2>3. g = f => e[2][2] \in Names(Now(g).symbols)
    BY <2>2
  <2> HIDE DEF keep
  <2> QED  BY <2>1, <2>3 DEF EdgeInv, AliasDue
<1> QED  BY <1>5, <1>6, <1>7, <1>8 DEF EdgeInv
LateStage == {"edges", "clear", "proxy", "attr", "type", "alias", "embed"}

\* The steps after the nodes: only the stage changes, and the edges of the
\* files that are not parsed stay or go.
LEMMA LateFrame ==
    ASSUME IInv, EdgeInv, run.at \in LateStage \/ (run.at = "upsert" /\ run.todo = {}),
           run' = [run EXCEPT !.at = run'.at],
           run'.at \in LateStage \cup {"unembed"},
           UNCHANGED <<hash, nodes, broken>>,
           \A k \in Kind : \A f \in File \ Diffed :
              EdgesOut(k, f)' \subseteq EdgesOut(k, f)
    PROVE  /\ Diffed' = Diffed /\ run'.diffs = run.diffs
           /\ \A f \in File : /\ Now(f)' = Now(f)
                              /\ ~Waiting(f) /\ ~Waiting(f)'
           /\ NodesDeclared' /\ OldFacts' /\ Forgotten'
<1>0. run \in RunType
  BY DEF IInv, TypeOK
<1>1. run'.diffs = run.diffs /\ run'.todo = run.todo /\ run'.file = run.file
  BY <1>0 DEF RunType
<1>2. /\ Diffed' = Diffed
      /\ \A f \in File : /\ Parsing(f)' <=> Parsing(f)
                         /\ Now(f)' = Now(f)
                         /\ ~Waiting(f) /\ ~Waiting(f)'
                         /\ Untouched(f) <=> f \notin Diffed
                         /\ Untouched(f)' <=> f \notin Diffed
  BY <1>1 DEF Diffed, Parsing, Now, Waiting, Untouched, LateStage
<1>3. NodesDeclared' /\ Forgotten'
  BY DEF EdgeInv, NodesDeclared, Forgotten, LateStage
<1>4. OldFacts'
  BY <1>2 DEF EdgeInv, OldFacts
<1> QED  BY <1>1, <1>2, <1>3, <1>4

\* Clearing what is to be refreshed leaves REFERENCES that are facts.
LEMMA ClearOutgoingEdges ==
    ASSUME IInv, EdgeInv, NodesWritten \/ ClearOutgoing
    PROVE  EdgeInv'
<1>0. TypeOK /\ Shape /\ run \in RunType
  BY DEF IInv, TypeOK
<1>1. /\ \/ run.at = "upsert" /\ run.todo = {} /\ run'.at = "edges"
         \/ run.at = "edges" /\ run'.at = "clear"
      /\ run' = [run EXCEPT !.at = run'.at]
      /\ UNCHANGED <<hash, nodes, broken>> /\ edges' \subseteq edges
  BY <1>0 DEF NodesWritten, ClearOutgoing, After, RunType, graphVars, histVars
<1>2. \A k, f : EdgesOut(k, f)' \subseteq EdgesOut(k, f)
  BY <1>1 DEF EdgesOut, OfKind
<1>3. run.at \in LateStage \/ (run.at = "upsert" /\ run.todo = {})
  BY <1>1 DEF LateStage
<1>4. run'.at \in LateStage \cup {"unembed"}
  BY <1>1 DEF LateStage
<1>5. /\ Diffed' = Diffed /\ run'.diffs = run.diffs
      /\ \A f \in File : Now(f)' = Now(f) /\ ~Waiting(f) /\ ~Waiting(f)'
      /\ NodesDeclared' /\ OldFacts' /\ Forgotten'
  BY <1>1, <1>2, <1>3, <1>4, LateFrame
<1>6. ProxyEdgesKnown' /\ Linking'
  BY <1>1 DEF EdgeInv, ProxyEdgesKnown, OfKind, Linking, ClearedAt
<1>7. AliasDue'
  <2> SUFFICES ASSUME NEW f \in Diffed, f \notin broken,
                      NEW e \in EdgesOut("alias", f)'
               PROVE  \/ IsFact(e, Now(f))
                      \/ /\ run'.at \in {"prune", "upsert", "edges"}
                         /\ e[2] \in Refreshed(f, Now(f), run.diffs[f].changed)
    BY <1>1, <1>5 DEF AliasDue, Diffed
  <2>1. /\ e \in EdgesOut("alias", f) /\ e \in edges'
        /\ e \in OfKind("alias") /\ f \in File
    BY <1>2 DEF EdgesOut, OfKind, Diffed
  <2>2. \/ IsFact(e, Now(f))
        \/ e[2] \in Refreshed(f, Now(f), run.diffs[f].changed)
    BY <1>1, <1>5, <2>1 DEF EdgeInv, AliasDue
  <2>3. CASE NodesWritten
    BY <1>0, <2>2, <2>3 DEF NodesWritten, RunType
  <2>4. CASE ClearOutgoing
    BY <2>1, <2>2, <2>4 DEF ClearOutgoing, From
  <2> QED  BY <2>3, <2>4
<1> QED  BY <1>5, <1>6, <1>7 DEF EdgeInv

\* A parsed file whose nodes are written has no edge out of a proxy left
\* when the derived edges are cleared: its proxies are pruned, and no symbol
\* has a proxy's name.
LEMMA NoProxyEdges ==
    ASSUME IInv, EdgeInv, ProxiesPruned, ProxiesStayProxies, run.at = "clear",
           NEW f \in Diffed
    PROVE  ProxiesOf(f) = {} /\ EdgesOut("proxy", f) = {}
<1>0. TypeOK /\ Shape
  BY DEF IInv
<1>1. f \in File /\ ProxiesOf(f) = {}
  BY DEF ProxiesPruned, Waiting, Diffed
<1>2. ASSUME NEW e \in EdgesOut("proxy", f) PROVE FALSE
  <2>1. e \in OfKind("proxy") /\ e[1] = "proxy" /\ e[2][1] = f
    BY DEF EdgesOut, OfKind
  <2>2. e[2][2] \in Existing(f)
    BY <1>0, <1>1, EdgeEnds DEF Kind
  <2>3. PICK s \in nodes[f] : s[1] = e[2][2]
    BY <1>1, <2>2 DEF Existing, Names
  <2>4. PICK d \in Contents[f] : s \in d.symbols
    BY <1>1 DEF EdgeInv, NodesDeclared
  <2>5. PICK c \in Contents[f] : IsFact(e, c)
    BY <2>1 DEF EdgeInv, ProxyEdgesKnown
  <2>6. <<e[2][2], e[3]>> \in c.facts["proxy"]
    BY <2>1, <2>5 DEF IsFact
  <2>7. e[2][2] \in Names(c.facts["proxy"]) /\ e[2][2] \in Names(d.symbols)
    BY <2>3, <2>4, <2>6 DEF Names
  <2> QED  BY <1>1, <2>7 DEF ProxiesStayProxies
<1> QED  BY <1>1, <1>2

\* The clearing leaves the parsed files without edges of the kinds to link.
LEMMA ClearDerivedEdges ==
    ASSUME IInv, EdgeInv, ProxiesPruned, ProxiesStayProxies, ClearDerived
    PROVE  EdgeInv'
<1>0. TypeOK /\ run \in RunType
  BY DEF IInv, TypeOK
<1>1. /\ run.at = "clear" /\ run'.at = "proxy"
      /\ run' = [run EXCEPT !.at = run'.at]
      /\ UNCHANGED <<hash, nodes, broken>> /\ edges' \subseteq edges
      /\ \A f \in Diffed : \A e \in edges' : e \notin Cleared(f, {"attr", "type"})
  BY <1>0 DEF ClearDerived, After, RunType, histVars, Detached
<1>2. \A k, f : EdgesOut(k, f)' \subseteq EdgesOut(k, f)
  BY <1>1 DEF EdgesOut, OfKind
<1>3. run.at \in LateStage /\ run'.at \in LateStage \cup {"unembed"}
  BY <1>1 DEF LateStage
<1>4. /\ Diffed' = Diffed /\ run'.diffs = run.diffs
      /\ \A f \in File : Now(f)' = Now(f) /\ ~Waiting(f) /\ ~Waiting(f)'
      /\ NodesDeclared' /\ OldFacts' /\ Forgotten'
  BY <1>1, <1>2, <1>3, LateFrame
<1>5. ProxyEdgesKnown'
  BY <1>1 DEF EdgeInv, ProxyEdgesKnown, OfKind
<1>6. AliasDue'
  BY <1>1, <1>2, <1>4 DEF EdgeInv, AliasDue, Diffed
<1>7. Linking'
  <2>1. \A k \in Kind : run'.at \notin LinkedAt(k)
    BY <1>1 DEF LinkedAt
  <2>2. \A k \in Kind \ {"alias"} : \A f \in Diffed : EdgesOut(k, f)' = {}
    <3>1. \A f \in Diffed : EdgesOut("proxy", f)' = {}
      BY <1>1, <1>2, NoProxyEdges
    <3>2. ASSUME NEW k \in {"attr", "type"}, NEW f \in Diffed
          PROVE  EdgesOut(k, f)' = {}
      <4> SUFFICES ASSUME NEW e \in EdgesOut(k, f)' PROVE FALSE
        OBVIOUS
      <4>1. e \in edges' /\ e \in edges /\ e[1] = k /\ e[2][1] = f
        BY <1>1 DEF EdgesOut, OfKind
      <4> QED  BY <1>1, <4>1 DEF Cleared
    <3> QED  BY <3>1, <3>2 DEF Kind
  <2> QED  BY <1>4, <2>1, <2>2 DEF Linking, Kind
<1> QED  BY <1>4, <1>5, <1>6, <1>7 DEF EdgeInv

\* Linking a kind gives the parsed files its edges and touches no others.
LEMMA LinkedEdges ==
    ASSUME IInv, NEW k \in Kind, run.at \notin {"upsert", "prune"},
           edges' = edges \cup UNION {Links(k, f, Now(f)) : f \in Diffed}
    PROVE  /\ \A g \in File : \A j \in Kind :
                j # k \/ g \notin Diffed => EdgesOut(j, g)' = EdgesOut(j, g)
           /\ \A f \in Diffed :
                EdgesOut(k, f)' = EdgesOut(k, f) \cup Links(k, f, Now(f))
<1>1. ASSUME NEW f \in Diffed, NEW e \in Links(k, f, Now(f))
      PROVE  e[1] = k /\ e[2][1] = f
  <2>1. f \in File /\ Now(f) \in Contents[f]
    BY NodesAreThere
  <2> QED  BY <1>1, <2>1, LinksAreFacts DEF Links
<1>2. \A e \in edges' : \/ e \in edges
                        \/ \E f \in Diffed : e \in Links(k, f, Now(f))
  OBVIOUS
<1> QED  BY <1>1, <1>2 DEF EdgesOut, OfKind
\* Proxies are linked: each parsed file has the edges its bindings ask for.
LEMMA LinkProxiesEdges ==
    ASSUME IInv, EdgeInv, LinkProxies
    PROVE  EdgeInv'
<1>0. TypeOK /\ run \in RunType
  BY DEF IInv, TypeOK
<1>1. /\ run.at = "proxy" /\ run'.at = "attr"
      /\ run' = [run EXCEPT !.at = run'.at]
      /\ UNCHANGED <<hash, nodes, broken>>
      /\ edges' = edges \cup UNION {Links("proxy", f, Now(f)) : f \in Diffed}
  BY <1>0 DEF LinkProxies, After, RunType, histVars
<1>2. /\ \A g \in File : \A j \in Kind :
           j # "proxy" \/ g \notin Diffed => EdgesOut(j, g)' = EdgesOut(j, g)
      /\ \A f \in Diffed : EdgesOut("proxy", f)'
                             = EdgesOut("proxy", f) \cup Links("proxy", f, Now(f))
  BY <1>1, LinkedEdges DEF Kind
<1>3. run.at \in LateStage /\ run'.at \in LateStage \cup {"unembed"}
  BY <1>1 DEF LateStage
<1>4. /\ Diffed' = Diffed /\ run'.diffs = run.diffs
      /\ \A f \in File : Now(f)' = Now(f) /\ ~Waiting(f) /\ ~Waiting(f)'
      /\ NodesDeclared' /\ OldFacts' /\ Forgotten'
  BY <1>1, <1>2, <1>3, LateFrame
<1>5. ProxyEdgesKnown'
  <2> SUFFICES ASSUME NEW e \in edges', e[1] = "proxy"
               PROVE  \E c \in Contents[e[2][1]] : IsFact(e, c)
    BY DEF ProxyEdgesKnown, OfKind
  <2>1. CASE e \in edges
    BY <2>1 DEF EdgeInv, ProxyEdgesKnown, OfKind
  <2>2. ASSUME NEW f \in Diffed, e \in Links("proxy", f, Now(f))
        PROVE  \E c \in Contents[e[2][1]] : IsFact(e, c)
    <3>1. f \in File /\ Now(f) \in Contents[f]
      BY <1>1, NodesAreThere
    <3>2. e[2][1] = f /\ IsFact(e, Now(f))
      BY <2>2, <3>1, LinksAreFacts DEF Links, Kind
    <3> QED  BY <3>1, <3>2
  <2> QED  BY <1>1, <2>1, <2>2
<1>6. AliasDue'
  BY <1>1, <1>2, <1>4 DEF EdgeInv, AliasDue, Diffed, Kind
<1>7. Linking'
  <2>1. \A f \in Diffed : \A k \in Kind \ {"alias"} : EdgesOut(k, f) = {}
    BY <1>1 DEF EdgeInv, Linking, LinkedAt, ClearedAt, Kind
  <2>2. Targets("proxy")' = Targets("proxy")
    BY <1>1 DEF Targets, Symbols, Declared
  <2>3. \A f \in Diffed : (Links("proxy", f, Now(f)))' = Links("proxy", f, Now(f))
    BY <1>4, <2>2 DEF Links, LinksAmong, Diffed
  <2>4. \A f \in Diffed : EdgesOut("proxy", f)' = (Links("proxy", f, Now(f)))'
    BY <1>2, <2>1, <2>3 DEF Kind
  <2>5. \A f \in Diffed : EdgesOut("attr", f)' = {} /\ EdgesOut("type", f)' = {}
    BY <1>2, <2>1 DEF Kind, Diffed
  <2> QED  BY <1>1, <1>4, <2>4, <2>5 DEF Linking, LinkedAt, Kind
<1> QED  BY <1>4, <1>5, <1>6, <1>7 DEF EdgeInv

\* Each further kind is linked; for REFERENCES it completes those kept.
LEMMA LinkFactsEdges ==
    ASSUME IInv, EdgeInv, NEW k \in Kind, LinkFacts(k)
    PROVE  EdgeInv'
<1>0. TypeOK /\ run \in RunType
  BY DEF IInv, TypeOK
<1>1. /\ run.at = k /\ k \in {"attr", "type", "alias"} /\ run'.at = After(k)
      /\ run' = [run EXCEPT !.at = run'.at]
      /\ UNCHANGED <<hash, nodes, proxies, broken>>
      /\ edges' = edges \cup UNION {Links(k, f, Now(f)) : f \in Diffed}
  BY <1>0 DEF LinkFacts, RunType, histVars, Kind
<1>2. run.at \notin {"upsert", "prune"} /\ run.at \in ClearedAt
  BY <1>1 DEF ClearedAt
<1>3. /\ \A g \in File : \A j \in Kind :
           j # k \/ g \notin Diffed => EdgesOut(j, g)' = EdgesOut(j, g)
      /\ \A f \in Diffed :
           EdgesOut(k, f)' = EdgesOut(k, f) \cup Links(k, f, Now(f))
  BY <1>1, <1>2, LinkedEdges
<1>4. run.at \in LateStage /\ run'.at \in LateStage \cup {"unembed"}
  BY <1>1 DEF LateStage, After
<1>5. /\ Diffed' = Diffed /\ run'.diffs = run.diffs
      /\ \A f \in File : Now(f)' = Now(f) /\ ~Waiting(f) /\ ~Waiting(f)'
      /\ NodesDeclared' /\ OldFacts' /\ Forgotten'
  BY <1>1, <1>3, <1>4, LateFrame
<1>6. ASSUME NEW f \in Diffed, NEW e \in Links(k, f, Now(f))
      PROVE  e[1] = k /\ IsFact(e, Now(f))
  <2>1. f \in File /\ Now(f) \in Contents[f]
    BY <1>2, NodesAreThere
  <2> QED  BY <1>6, <2>1, LinksAreFacts DEF Links
<1>7. ProxyEdgesKnown'
  <2>1. \A e \in edges' : e[1] = "proxy" => e \in edges
    BY <1>1, <1>6
  <2> QED  BY <2>1 DEF EdgeInv, ProxyEdgesKnown, OfKind
<1>8. \A f \in Diffed : f \notin broken => \A e \in EdgesOut("alias", f) :
        IsFact(e, Now(f))
  BY <1>1, <1>5 DEF EdgeInv, AliasDue, Diffed
<1>9. AliasDue'
  <2> SUFFICES ASSUME NEW f \in Diffed, f \notin broken,
                      NEW e \in EdgesOut("alias", f)'
               PROVE  IsFact(e, Now(f))
    BY <1>1, <1>5 DEF AliasDue, Diffed
  <2>1. e \in EdgesOut("alias", f) \/ e \in Links(k, f, Now(f))
    BY <1>3 DEF Diffed, Kind
  <2> QED  BY <1>6, <1>8, <2>1
<1>10. Linking'
  <2>1. \A j : Targets(j)' = Targets(j)
    BY <1>1 DEF Targets, Symbols, Present, Node, Declared
  <2>2. \A j \in Kind : \A f \in Diffed :
          (Links(j, f, Now(f)))' = Links(j, f, Now(f))
    BY <1>5, <2>1 DEF Links, LinksAmong, Diffed
  <2>3. \A j \in Kind \ {k} : run'.at \in LinkedAt(j) <=> run.at \in LinkedAt(j)
    BY <1>1 DEF LinkedAt, After, Kind
  <2>4. run.at \notin LinkedAt(k) /\ run'.at \in LinkedAt(k)
    BY <1>1 DEF LinkedAt, After
  <2>5. ASSUME NEW f \in Diffed, NEW j \in Kind \ {"alias"}
        PROVE  EdgesOut(j, f)' = IF run'.at \in LinkedAt(j)
                                 THEN Links(j, f, Now(f)) ELSE {}
    <3>1. EdgesOut(j, f) = IF run.at \in LinkedAt(j)
                           THEN Links(j, f, Now(f)) ELSE {}
      BY <1>2 DEF EdgeInv, Linking
    <3>2. CASE j = k
      BY <1>3, <2>4, <3>1, <3>2
    <3>3. CASE j # k
      BY <1>3, <2>3, <3>1, <3>3 DEF Diffed
    <3> QED  BY <3>2, <3>3
  <2>6. ASSUME NEW f \in Diffed, f \notin broken, run'.at \in LinkedAt("alias")
        PROVE  EdgesOut("alias", f)' = Links("alias", f, Now(f))
    <3>1. f \in File /\ Now(f) \in Contents[f] /\ "alias" \in Kind
      BY <1>2, NodesAreThere DEF Kind
    <3>2. k = "alias"
      BY <1>1, <2>6 DEF LinkedAt, After
    <3>3. \A e \in EdgesOut("alias", f) : e \in Links("alias", f, Now(f))
      <4> SUFFICES ASSUME NEW e \in EdgesOut("alias", f)
                   PROVE  e \in Links("alias", f, Now(f))
        OBVIOUS
      <4>1. /\ e = <<"alias", e[2], e[3]>> /\ e[2] = <<f, e[2][2]>>
            /\ e[3] \in Present
        BY <1>0, <3>1, EdgeEnds
      <4>2. e = <<"alias", <<f, e[2][2]>>, e[3]>> /\ e[3] \in Targets("alias")
        BY <4>1 DEF Targets
      <4>3. IsFact(e, Now(f))
        BY <1>8, <2>6
      <4> QED  BY <3>1, <4>2, <4>3, LinksAreFacts DEF Links
    <3> QED  BY <1>3, <3>2, <3>3
  <2>7. "alias" \in Kind
    BY DEF Kind
  <2> QED  BY <1>1, <1>5, <2>2, <2>5, <2>6, <2>7 DEF Linking
<1> QED  BY <1>5, <1>7, <1>9, <1>10 DEF EdgeInv

\* The end of the linking: what was linked stays linked.
LEMMA EmbedEdges ==
    ASSUME IInv, EdgeInv, Embed
    PROVE  EdgeInv'
<1>0. run \in RunType
  BY DEF IInv, TypeOK
<1>1. /\ run.at = "embed" /\ run'.at = "unembed"
      /\ run' = [run EXCEPT !.at = run'.at]
      /\ UNCHANGED <<hash, nodes, proxies, edges, broken>>
  BY <1>0 DEF Embed, RunType, graphVars, histVars
<1>2. \A k, f : EdgesOut(k, f)' = EdgesOut(k, f)
  BY <1>1 DEF EdgesOut, OfKind
<1>3. run.at \in LateStage /\ run'.at \in LateStage \cup {"unembed"}
  BY <1>1 DEF LateStage
<1>4. /\ Diffed' = Diffed /\ run'.diffs = run.diffs
      /\ \A f \in File : Now(f)' = Now(f) /\ ~Waiting(f) /\ ~Waiting(f)'
      /\ NodesDeclared' /\ OldFacts' /\ Forgotten'
  BY <1>1, <1>2, <1>3, LateFrame
<1>5. ProxyEdgesKnown' /\ AliasDue'
  BY <1>1, <1>2, <1>4 DEF EdgeInv, ProxyEdgesKnown, OfKind, AliasDue, Diffed
<1>6. Linking'
  <2>1. \A j : Targets(j)' = Targets(j)
    BY <1>1 DEF Targets, Symbols, Present, Node, Declared
  <2>2. \A j \in Kind : \A f \in Diffed :
          (Links(j, f, Now(f)))' = Links(j, f, Now(f))
    BY <1>4, <2>1 DEF Links, LinksAmong, Diffed
  <2>3. \A j \in Kind : run.at \in LinkedAt(j) /\ run'.at \in LinkedAt(j)
    BY <1>1 DEF LinkedAt, Kind
  <2>4. \A f \in Diffed :
          /\ \A k \in Kind \ {"alias"} : EdgesOut(k, f) = Links(k, f, Now(f))
          /\ f \notin broken => EdgesOut("alias", f) = Links("alias", f, Now(f))
    BY <1>1, <2>3 DEF EdgeInv, Linking, ClearedAt, Kind
  <2>5. "alias" \in Kind
    BY DEF Kind
  <2> QED  BY <1>1, <1>2, <1>4, <2>2, <2>3, <2>4, <2>5 DEF Linking
<1> QED  BY <1>4, <1>5, <1>6 DEF EdgeInv

\* The run is over: what it linked are the facts of what it indexed.
LEMMA UnembedEdges ==
    ASSUME IInv, EdgeInv, Unembed
    PROVE  EdgeInv'
<1>0. TypeOK /\ Shape
  BY DEF IInv
<1>1. /\ run.at = "unembed" /\ run'.at = "rest" /\ run'.diffs = NoDiffs
      /\ UNCHANGED <<hash, nodes, proxies, edges, broken>>
  BY DEF Unembed, Idle, graphVars, histVars
<1>2. \A k, f : EdgesOut(k, f)' = EdgesOut(k, f)
  BY <1>1 DEF EdgesOut, OfKind
<1>3. Diffed' = {}
  BY <1>1 DEF Diffed, Parsing, NoDiffs
<1>4. NodesDeclared' /\ ProxyEdgesKnown' /\ Linking' /\ AliasDue' /\ Forgotten'
  BY <1>1, <1>3 DEF EdgeInv, NodesDeclared, ProxyEdgesKnown, OfKind, Linking,
                    AliasDue, Forgotten, ClearedAt
<1>5. OldFacts'
  <2> SUFFICES ASSUME NEW f \in File \ broken, NEW k \in Kind \ {"attr"},
                      NEW e \in EdgesOut(k, f)
               PROVE  hash[f] # None /\ IsFact(e, hash[f])
    BY <1>1, <1>2 DEF OldFacts
  <2>1. CASE f \notin Diffed
    BY <1>1, <2>1 DEF EdgeInv, OldFacts, Untouched, Diffed
  <2>2. CASE f \in Diffed
    <3>1. Now(f) \in Contents[f] /\ hash[f] = Now(f) /\ hash[f] # None
      BY <1>1, <2>2, NodesAreThere, ContentType
    <3>2. EdgesOut(k, f) = Links(k, f, Now(f))
      BY <1>1, <2>2 DEF EdgeInv, Linking, ClearedAt, LinkedAt, Kind
    <3> QED  BY <3>1, <3>2, LinksAreFacts DEF Links
  <2> QED  BY <2>1, <2>2
<1> QED  BY <1>4, <1>5 DEF EdgeInv

\* A save clears and links proxies and types; the REFERENCES it leaves are
\* those of symbols kept as they were.
LEMMA SaveEdges ==
    ASSUME IInv, EdgeInv, NEW f \in File, SaveFile(f)
    PROVE  EdgeInv'
<1>0. TypeOK /\ Known /\ Shape /\ FilesHold
  BY DEF IInv
<1> DEFINE C == disk[f].symbols
<1> DEFINE keep == Names(C)
<1> DEFINE bound == (proxies \ ProxiesOf(f)) \cup Bound(f, disk[f])
<1> DEFINE symbols == {u \in Symbols : u[1] # f} \cup UidsOf(f, keep)
<1> DEFINE there(k) == IF k = "proxy" THEN symbols ELSE symbols \cup bound
<1> DEFINE links == UNION {LinksAmong(k, f, disk[f], there(k)) : k \in Relinks}
<1>1. /\ run.at = "rest" /\ f \in clean /\ disk[f] # None
      /\ disk[f] \in Contents[f]
      /\ Parsed(f).changed = C \ nodes[f]
      /\ UNCHANGED <<run, broken>> /\ Diffed = {} /\ Diffed' = {}
      /\ \A g \in File : Untouched(g)
  BY <1>0, ParsedType DEF SaveFile, Known, Shape, Diffed, Parsing, histVars,
                          Untouched
<1>2. /\ hash'[f] = disk[f]
      /\ nodes'[f] = {s \in Merged(nodes[f], C \ nodes[f]) : s[1] \in keep}
      /\ \A g \in File \ {f} : /\ hash'[g] = hash[g] /\ nodes'[g] = nodes[g]
  BY <1>0, <1>1 DEF SaveFile, TypeOK
<1>3. edges' = (Detached(UidsOf(f, Existing(f) \ keep))
                \ ((OfKind("alias") \cap
                      From(Refreshed(f, disk[f], C \ nodes[f])))
                   \cup Cleared(f, Relinks)))
               \cup links
  BY <1>1 DEF SaveFile
<1>4. ASSUME NEW e \in links
      PROVE  e[1] \in Relinks /\ e[2][1] = f /\ IsFact(e, disk[f])
  <2>1. PICK k \in Relinks : e \in LinksAmong(k, f, disk[f], there(k))
    OBVIOUS
  <2>2. k \in Kind
    BY DEF Relinks, Kind
  <2> HIDE DEF there
  <2> QED  BY <1>1, <2>1, <2>2, LinksAreFacts
<1>5. ASSUME NEW e \in edges', e \notin links
      PROVE  /\ e \in edges /\ e \notin Cleared(f, Relinks)
             /\ e \notin OfKind("alias") \cap
                           From(Refreshed(f, disk[f], C \ nodes[f]))
             /\ e[2] \notin UidsOf(f, Existing(f) \ keep)
  <2> HIDE DEF links, keep
  <2> QED  BY <1>3, <1>5 DEF Detached
<1> HIDE DEF links
<1>6. NodesDeclared'
  BY <1>1, <1>2 DEF EdgeInv, NodesDeclared, Merged
<1>7. ProxyEdgesKnown'
  <2> SUFFICES ASSUME NEW e \in edges', e[1] = "proxy"
               PROVE  \E c \in Contents[e[2][1]] : IsFact(e, c)
    BY DEF ProxyEdgesKnown, OfKind
  <2> QED  BY <1>1, <1>4, <1>5 DEF EdgeInv, ProxyEdgesKnown, OfKind
<1>8. Linking' /\ AliasDue' /\ Forgotten'
  BY <1>1 DEF Linking, AliasDue, Forgotten, ClearedAt
<1>9. OldFacts'
  <2> SUFFICES ASSUME NEW g \in File \ broken, NEW k \in Kind \ {"attr"},
                      NEW e \in EdgesOut(k, g)'
               PROVE  hash'[g] # None /\ IsFact(e, hash'[g])
    BY <1>1 DEF OldFacts
  <2>1. e \in edges' /\ e[1] = k /\ e[2][1] = g
    BY DEF EdgesOut, OfKind
  <2>2. CASE e \in links
    BY <1>1, <1>2, <1>4, <2>1, <2>2
  <2>3. CASE e \notin links
    <3>1. /\ e \in EdgesOut(k, g) /\ e \notin Cleared(f, Relinks)
          /\ e \notin OfKind("alias") \cap
                        From(Refreshed(f, disk[f], C \ nodes[f]))
          /\ e[2] \notin UidsOf(f, Existing(f) \ keep)
      BY <1>5, <2>1, <2>3 DEF EdgesOut, OfKind
    <3>2. hash[g] # None /\ IsFact(e, hash[g])
      BY <1>1, <3>1 DEF EdgeInv, OldFacts
    <3>3. CASE g # f
      BY <1>2, <3>2, <3>3
    <3>4. CASE g = f
      <4>1. k = "alias"
        BY <2>1, <3>1, <3>4 DEF Cleared, Relinks, EdgesOut, OfKind, Kind
      <4>2. Settled(f)
        BY <1>0, <1>1, <3>4 DEF FilesHold, FileHolds
      <4>3. \/ IsFact(e, disk[f])
            \/ e[2] \in Refreshed(f, disk[f], disk[f].symbols \ nodes[f])
            \/ e[2][2] \notin Names(disk[f].symbols)
        BY <1>0, <1>1, <3>1, <3>2, <3>4, <4>1, <4>2, AliasKept
      <4>4. e[2] \notin Refreshed(f, disk[f], disk[f].symbols \ nodes[f])
        BY <3>1, <4>1 DEF EdgesOut, OfKind, From
      <4>5. e[2][2] \in Names(disk[f].symbols)
        <5>1. e[2] = <<f, e[2][2]>> /\ e[2][2] \in Existing(f)
          BY <1>0, <3>1, <3>4, EdgeEnds
        <5> QED  BY <3>1, <5>1 DEF UidsOf
      <4> QED  BY <1>1, <1>2, <3>4, <4>3, <4>4, <4>5
    <3> QED  BY <3>3, <3>4
  <2> QED  BY <2>2, <2>3
<1> QED  BY <1>6, <1>7, <1>8, <1>9 DEF EdgeInv

\* Every step keeps what is known of the edges.
LEMMA NextEdges ==
    ASSUME IInv, EdgeInv, ProxiesPruned, ProxiesStayProxies, [Next]_vars
    PROVE  EdgeInv'
<1>1. CASE Developer \/ UNCHANGED vars
  <2>1. UNCHANGED <<hash, nodes, proxies, edges, run, broken>>
    BY <1>1 DEF Developer, Edit, Commit, vars, graphVars
  <2>2. /\ Diffed' = Diffed
        /\ \A f : /\ Parsing(f)' = Parsing(f) /\ Now(f)' = Now(f)
                  /\ Waiting(f)' = Waiting(f)
                  /\ Untouched(f)' = Untouched(f)
                  /\ \A k : EdgesOut(k, f)' = EdgesOut(k, f)
    BY <2>1 DEF Diffed, Parsing, Now, Waiting, Untouched, EdgesOut, OfKind
  <2>3. \A k : Targets(k)' = Targets(k)
    BY <2>1 DEF Targets, Symbols, Present, Node, Declared
  <2>4. Linking'
    BY <2>1, <2>2, <2>3 DEF EdgeInv, Linking, Links, LinksAmong
  <2>5. NodesDeclared' /\ ProxyEdgesKnown' /\ AliasDue' /\ OldFacts' /\ Forgotten'
    BY <2>1, <2>2 DEF EdgeInv, NodesDeclared, ProxyEdgesKnown, OfKind,
                      AliasDue, OldFacts, Forgotten
  <2> QED  BY <2>4, <2>5 DEF EdgeInv
<1>2. CASE Abort
  BY <1>2, AbortEdges
<1>3. CASE \E f \in File : SaveFile(f)
  BY <1>3, SaveEdges
<1>4. CASE Run
  <2>1. CASE \E f \in File : Tombstone(f) \/ Upsert(f)
    BY <2>1, TombstoneEdges, UpsertEdges
  <2>2. CASE \/ Collect \/ NothingChanged \/ Hash \/ Forget
             \/ \E failed \in SUBSET run.todo : Parse(failed)
    BY <2>2, QuietStepsEdges
  <2>3. CASE Prune
    <3>1. run.file \in File
      BY <2>3 DEF Prune, IInv, Shape
    <3> QED  BY <2>3, <3>1, PruneEdges
  <2>4. CASE NodesWritten \/ ClearOutgoing
    BY <2>4, ClearOutgoingEdges
  <2>5. CASE ClearDerived
    BY <2>5, ClearDerivedEdges
  <2>6. CASE LinkProxies
    BY <2>6, LinkProxiesEdges
  <2>7. CASE \E k \in Kind : LinkFacts(k)
    BY <2>7, LinkFactsEdges
  <2>8. CASE Embed
    BY <2>8, EmbedEdges
  <2>9. CASE Unembed
    BY <2>9, UnembedEdges
  <2> QED
    BY <1>4, <2>1, <2>2, <2>3, <2>4, <2>5, <2>6, <2>7, <2>8, <2>9 DEF Run
<1> QED  BY <1>1, <1>2, <1>3, <1>4 DEF Next

\* The inductive invariant of the derived edges, as long as no name turns
\* from a proxy into a symbol.
LEMMA PipelineEdgeInvariant ==
    ASSUME ProxiesStayProxies
    PROVE  Spec => []EdgeInv
<1>1. Init => EdgeInv
  <2> SUFFICES ASSUME Init PROVE EdgeInv
    OBVIOUS
  <2>1. \A k, f : EdgesOut(k, f) = {} /\ OfKind(k) = {}
    BY DEF Init, EdgesOut, OfKind
  <2>2. Diffed = {} /\ run.at = "rest"
    BY DEF Init, Idle, Diffed, Parsing, NoDiffs
  <2>3. NodesDeclared
    BY DEF Init, NodesDeclared
  <2> QED  BY <2>1, <2>2, <2>3
           DEF EdgeInv, ProxyEdgesKnown, Linking, AliasDue, OldFacts,
               Forgotten, ClearedAt
<1>2. Init => ProxiesPruned
  BY DEF Init, Idle, ProxiesPruned
<1>3. IInv /\ ProxiesPruned /\ [Next]_vars => ProxiesPruned'
  BY PrunedKeeps
<1>4. IInv /\ EdgeInv /\ ProxiesPruned /\ [Next]_vars => EdgeInv'
  BY NextEdges
<1> QED  BY <1>1, <1>2, <1>3, <1>4, PipelineInvariant, PTL DEF Spec

\* When a run has linked, the derived edges out of each file it parsed are
\* the file's facts with a target in the graph, for any files and contents in
\* which no name turns from a proxy into a symbol.
THEOREM PipelineRunLinksItsFiles ==
    ProxiesStayProxies => (Spec => []RunLinksItsFiles)
<1> SUFFICES ASSUME ProxiesStayProxies PROVE Spec => []RunLinksItsFiles
  OBVIOUS
<1>1. EdgeInv => RunLinksItsFiles
  <2> SUFFICES ASSUME EdgeInv, run.at = "embed", NEW f \in Diffed,
                      NEW k \in Kind, ~(k = "alias" /\ f \in broken)
               PROVE  EdgesOut(k, f) = Links(k, f, Now(f))
    BY DEF RunLinksItsFiles, EdgesOut
  <2> QED  BY DEF EdgeInv, Linking, ClearedAt, LinkedAt, Kind
<1> QED  BY <1>1, PipelineEdgeInvariant, PTL

\* Between runs, no edge of a kind that runs and saves both link says what
\* its file no longer says.
THEOREM PipelineSharedEdgesAreFacts ==
    ProxiesStayProxies => (Spec => []SharedEdgesAreFacts)
<1> SUFFICES ASSUME ProxiesStayProxies PROVE Spec => []SharedEdgesAreFacts
  OBVIOUS
<1>1. IInv /\ EdgeInv => SharedEdgesAreFacts
  <2> SUFFICES ASSUME IInv, EdgeInv, run.at = "rest", NEW e \in edges,
                      e[1] \in Relinks, e[2][1] \notin broken
               PROVE  /\ e[2][1] \in Indexed
                      /\ <<e[2][2], e[3]>> \in hash[e[2][1]].facts[e[1]]
    BY DEF SharedEdgesAreFacts
  <2>1. e[2][1] \in File /\ e[1] \in Kind \ {"attr"}
    BY DEF IInv, TypeOK, Present, Uid, Relinks, Kind
  <2>2. Untouched(e[2][1])
    BY <2>1 DEF IInv, Shape, Untouched, Diffed
  <2>3. e \in EdgesOut(e[1], e[2][1])
    BY DEF EdgesOut, OfKind
  <2> QED  BY <2>1, <2>2, <2>3 DEF EdgeInv, OldFacts, IsFact, Indexed
<1> QED  BY <1>1, PipelineEdgeInvariant, PipelineInvariant, PTL
=============================================================================
