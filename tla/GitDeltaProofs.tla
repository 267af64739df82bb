--------------------------- MODULE GitDeltaProofs ---------------------------
(***************************************************************************)
(* Theorems about GitDelta without failures and checkouts: types for any   *)
(* constants, and that no commit is lost when one runner at a time syncs   *)
(* one workspace with a queue that holds all its files.                    *)
(***************************************************************************)
EXTENDS GitDelta, FiniteSetTheorems, TLAPS

-----------------------------------------------------------------------------
(* Types *)

\* A sync's record is well formed; the commits it holds exist.
Formed(s) ==
    /\ s \in Sync
    /\ s.at = "idle" <=> s.ws = None
    /\ s.at = "rows" <=> s.gone # None
    /\ s.previous \in 1 .. Len(log) \cup {None}
    /\ s.current \in 1 .. Len(log) \cup {None}

\* TypeOK bounds the queue by a cardinality, so the queue must be finite, and
\* WriteState stores the commit a sync holds, so that commit must exist.
TypeInv ==
    /\ TypeOK
    /\ IsFiniteSet(pending)
    /\ had \in [Path -> SUBSET Content]
    /\ \A r \in Runner : Formed(sync[r])

\* The first commit is a commit, and nobody syncs.
LEMMA TypeInvInit == Init => TypeInv
<1> SUFFICES ASSUME Init PROVE TypeInv
    OBVIOUS
<1> USE GitDeltaConstants
<1>1. log = <<disk>> /\ Len(log) = 1 /\ disk \in [Path -> Content]
    BY DEF Init
<1>2. log \in Seq([Path -> Content]) /\ 1 \in Commits /\ 1 .. Len(log) = {1}
    BY <1>1 DEF Commits
<1>3. Formed(Rest)
    BY <1>2 DEF Rest, Formed, Sync
<1>4. sync = [r \in Runner |-> Rest]
    BY DEF Init
<1>5. pending = {} /\ IsFiniteSet(pending) /\ Cardinality(pending) = 0
    BY FS_EmptySet DEF Init
<1>6. disk \in [Path -> Content] /\ had \in [Path -> SUBSET Content]
    BY <1>1 DEF Init
<1>7. stored \in [Namespace -> [Path -> Content]]
    BY <1>1 DEF Init, Content
<1>8. rows \in [Namespace -> SUBSET Path]
    BY DEF Init
<1>9. state \in 1 .. Len(log) \cup {None} /\ targets = {} /\ round = {}
      /\ returned = {}
    BY <1>1 DEF Init
<1>10. TypeOK
    BY <1>1, <1>2, <1>3, <1>4, <1>5, <1>6, <1>7, <1>8, <1>9
       DEF TypeOK, Formed
<1> QED BY <1>3, <1>4, <1>5, <1>6, <1>10 DEF TypeInv

\* A step that replaces one sync's record by a well-formed one, and keeps the
\* types of what else it changes.
LEMMA SyncStepTypes ==
    ASSUME TypeInv, NEW r \in Runner, NEW s,
           Formed(s), sync' = [sync EXCEPT ![r] = s],
           UNCHANGED treeVars,
           state' \in 1 .. Len(log) \cup {None},
           targets' \subseteq Workspace, round' \subseteq targets',
           pending' \subseteq Workspace \X Path, IsFiniteSet(pending'),
           Cardinality(pending') <= QueueLimit,
           stored' \in [Namespace -> [Path -> Content]],
           rows' \in [Namespace -> SUBSET Path],
           returned' \subseteq Namespace \X Path
    PROVE  TypeInv'
<1>1. \A q \in Runner : Formed(sync[q])' 
    BY DEF TypeInv, TypeOK, treeVars, Formed
<1>2. sync' \in [Runner -> Sync]
    BY DEF TypeInv, TypeOK, Formed
<1> QED BY <1>1, <1>2 DEF TypeInv, TypeOK, treeVars, Formed

\* Everything a step of a sync leaves alone has its type.
LEMMA KeptTypes ==
    ASSUME TypeInv
    PROVE  /\ state \in 1 .. Len(log) \cup {None}
           /\ targets \subseteq Workspace /\ round \subseteq targets
           /\ pending \subseteq Workspace \X Path /\ IsFiniteSet(pending)
           /\ Cardinality(pending) <= QueueLimit
           /\ stored \in [Namespace -> [Path -> Content]]
           /\ rows \in [Namespace -> SUBSET Path]
           /\ returned \subseteq Namespace \X Path
           /\ disk \in [Path -> Content]
           /\ Len(log) \in Commits /\ HEAD \in 1 .. Len(log)
BY GitDeltaConstants DEF TypeInv, TypeOK, HEAD, Commits

\* The record of the runner that moves, where the action names the fields.
LEMMA SyncFields ==
    ASSUME TypeInv, NEW r \in Runner
    PROVE  /\ Formed(sync[r])
           /\ sync[r] = [at |-> sync[r].at, ws |-> sync[r].ws,
                         queue |-> sync[r].queue,
                         previous |-> sync[r].previous,
                         current |-> sync[r].current,
                         todo |-> sync[r].todo, gone |-> sync[r].gone]
BY DEF TypeInv, TypeOK, Formed, Sync

\* A commit lengthens the log; what exists keeps existing.
LEMMA DevelopTypes == TypeInv /\ Develop => TypeInv'
<1> SUFFICES ASSUME TypeInv, Develop PROVE TypeInv'
    OBVIOUS
<1> USE DEF TypeInv, TypeOK
<1>1. ASSUME NEW p \in Path, NEW v \in Content, Edit(p, v)
      PROVE  TypeInv'
    BY <1>1 DEF Edit, Formed
<1>2. ASSUME NEW files \in SUBSET Path, Commit(files)
      PROVE  TypeInv'
    <2>1. Len(log) \in Nat /\ Len(log) + 1 \in Commits
          /\ 1 .. Len(log) \subseteq 1 .. Len(log) + 1
        BY <1>2, GitDeltaConstants DEF Commit, Commits
    <2>2. [p \in Path |-> IF p \in files THEN disk[p] ELSE Tree[p]]
                \in [Path -> Content]
        BY KeptTypes DEF Tree
    <2>3. log' \in Seq([Path -> Content]) /\ Len(log') = Len(log) + 1
        BY <1>2, <2>2 DEF Commit
    <2>4. \A r \in Runner : Formed(sync[r])'
        BY <1>2, <2>1, <2>3 DEF Commit, Formed
    <2> QED BY <1>2, <2>1, <2>3, <2>4 DEF Commit, indexVars
<1> QED BY <1>1, <1>2 DEF Develop

\* A sync starts from a record that is at rest but for its workspace.
LEMMA StartTypes ==
    ASSUME TypeInv, NEW r \in Runner, NEW w \in Workspace,
           \/ Register(w) \/ Tick(r) \/ Poll(r, w)
           \/ \E queue \in BOOLEAN : RequestDelta(r, w, queue)
    PROVE  TypeInv'
<1> USE KeptTypes
<1>1. CASE Register(w)
    BY <1>1 DEF Register, TypeInv, TypeOK, treeVars, indexVars, Formed
<1>2. CASE Tick(r)
    BY <1>2 DEF Tick, TypeInv, TypeOK, treeVars, indexVars, Formed
<1>3. ASSUME NEW queue \in BOOLEAN
      PROVE  Formed([Rest EXCEPT !.at = "load", !.ws = w, !.queue = queue])
    BY GitDeltaConstants DEF Rest, Formed, Sync
<1>4. CASE Poll(r, w)
    <2> DEFINE s == [Rest EXCEPT !.at = "load", !.ws = w, !.queue = TRUE]
    <2>1. sync' = [sync EXCEPT ![r] = s] /\ Formed(s)
        BY <1>3, <1>4 DEF Poll, SyncBegins
    <2> HIDE DEF s
    <2> QED BY <1>4, <2>1, SyncStepTypes DEF Poll, indexVars
<1>5. ASSUME NEW queue \in BOOLEAN, RequestDelta(r, w, queue)
      PROVE  TypeInv'
    <2> DEFINE s == [Rest EXCEPT !.at = "load", !.ws = w, !.queue = queue]
    <2>1. sync' = [sync EXCEPT ![r] = s] /\ Formed(s)
        BY <1>3, <1>5 DEF RequestDelta, SyncBegins
    <2> HIDE DEF s
    <2> QED BY <1>5, <2>1, SyncStepTypes DEF RequestDelta, indexVars
<1> QED BY <1>1, <1>2, <1>4, <1>5

\* detect_changes: what is loaded, read and written is a commit or nothing.
LEMMA DetectTypes ==
    ASSUME TypeInv, NEW r \in Runner,
           LoadState(r) \/ ReadHead(r) \/ TruncateState(r) \/ WriteState(r)
    PROVE  TypeInv'
<1>1. Formed(sync[r])
    BY SyncFields
<1>2. CASE LoadState(r)
    <2> DEFINE s == [sync[r] EXCEPT !.at = "head", !.previous = state]
    <2>1. sync' = [sync EXCEPT ![r] = s]
        BY <1>2 DEF LoadState
    <2>2. state \in Commits \cup {None} /\ state \in 1 .. Len(log) \cup {None}
        BY KeptTypes, GitDeltaConstants DEF Commits
    <2>3. Formed(s)
        BY <1>1, <1>2, <2>2 DEF LoadState, Formed, Sync
    <2> HIDE DEF s
    <2> QED BY <1>2, <2>1, <2>3, SyncStepTypes, KeptTypes DEF LoadState, indexVars
<1>3. CASE ReadHead(r)
    <2> DEFINE s == [sync[r] EXCEPT !.at = "truncate", !.current = HEAD,
                         !.todo = IF sync[r].previous = None THEN {}
                                  ELSE Diff(sync[r].previous, HEAD)]
    <2>1. sync' = [sync EXCEPT ![r] = s]
        BY <1>3 DEF ReadHead
    <2>2. (IF sync[r].previous = None THEN {}
           ELSE Diff(sync[r].previous, HEAD)) \in SUBSET Path
        BY DEF Diff
    <2>3. HEAD \in Commits /\ HEAD \in 1 .. Len(log)
        BY KeptTypes, GitDeltaConstants DEF Commits
    <2>4. Formed(s)
        BY <1>1, <1>3, <2>2, <2>3 DEF ReadHead, Formed, Sync
    <2> HIDE DEF s
    <2> QED BY <1>3, <2>1, <2>4, SyncStepTypes, KeptTypes DEF ReadHead, indexVars
<1>4. CASE TruncateState(r)
    <2> DEFINE s == [sync[r] EXCEPT !.at = "write"]
    <2>1. sync' = [sync EXCEPT ![r] = s]
        BY <1>4 DEF TruncateState
    <2>2. Formed(s)
        BY <1>1, <1>4 DEF TruncateState, Formed, Sync
    <2> HIDE DEF s
    <2> QED BY <1>4, <2>1, <2>2, SyncStepTypes, KeptTypes
            DEF TruncateState, indexVars
<1>5. CASE WriteState(r)
    <2> DEFINE s == [sync[r] EXCEPT !.at = "apply"]
    <2>1. sync' = [sync EXCEPT ![r] = s]
        BY <1>5 DEF WriteState
    <2>2. Formed(s)
        BY <1>1, <1>5 DEF WriteState, Formed, Sync
    <2>3. state' \in 1 .. Len(log) \cup {None}
        BY <1>1, <1>5 DEF WriteState, Formed
    <2> HIDE DEF s
    <2> QED BY <1>5, <2>1, <2>2, <2>3, SyncStepTypes, KeptTypes
            DEF WriteState, indexVars
<1> QED BY <1>2, <1>3, <1>4, <1>5

\* Indexing a file stores a content of the working tree.
LEMMA StoreFileTypes ==
    ASSUME TypeInv, NEW n \in Namespace, NEW p \in Path,
           StoreFile(n, p) \/ UNCHANGED <<stored, rows, returned>>
    PROVE  /\ stored' \in [Namespace -> [Path -> Content]]
           /\ rows' \in [Namespace -> SUBSET Path]
           /\ returned' \subseteq Namespace \X Path
BY KeptTypes DEF StoreFile

\* A queue that grows stays within its limit.
LEMMA EnqueueTypes ==
    ASSUME TypeInv, NEW w \in Workspace, NEW p \in Path,
           pending' = IF Cardinality(pending) < QueueLimit
                      THEN pending \cup {<<w, p>>} ELSE pending
    PROVE  /\ pending' \subseteq Workspace \X Path /\ IsFiniteSet(pending')
           /\ Cardinality(pending') <= QueueLimit
<1>1. /\ Cardinality(pending) \in Nat
      /\ IsFiniteSet(pending \cup {<<w, p>>})
      /\ Cardinality(pending \cup {<<w, p>>})
            = IF <<w, p>> \in pending THEN Cardinality(pending)
              ELSE Cardinality(pending) + 1
    BY KeptTypes, FS_CardinalityType, FS_AddElement
<1> QED BY <1>1, KeptTypes, GitDeltaConstants

\* apply_git_head_delta: a file leaves the list, and may stay behind between
\* the halves of its tombstone.
LEMMA ApplyTypes ==
    ASSUME TypeInv, NEW r \in Runner, NEW p \in Path,
           \/ SkipDirty(r, p) \/ EnqueueChanged(r, p) \/ IndexChanged(r, p)
           \/ SkipUnknown(r, p)
    PROVE  TypeInv'
<1> DEFINE s == [sync[r] EXCEPT !.todo = @ \ {p}]
<1>1. /\ Takes(r, p) /\ Handled(r, p)
      /\ UNCHANGED <<treeVars, state, targets, round>>
    BY DEF SkipDirty, EnqueueChanged, IndexChanged, SkipUnknown
<1>2. sync' = [sync EXCEPT ![r] = s]
    BY <1>1 DEF Handled
<1>3. Formed(s)
    BY SyncFields DEF Formed, Sync
<1>4. sync[r].ws \in Workspace
    BY <1>1, SyncFields DEF Takes, Formed, Sync
<1>5. CASE UNCHANGED indexVars
    <2> HIDE DEF s
    <2> QED BY <1>1, <1>2, <1>3, <1>5, SyncStepTypes, KeptTypes DEF indexVars
<1>6. CASE EnqueueChanged(r, p)
    <2>1. /\ pending' \subseteq Workspace \X Path /\ IsFiniteSet(pending')
          /\ Cardinality(pending') <= QueueLimit
        BY <1>4, <1>6, EnqueueTypes DEF EnqueueChanged
    <2> HIDE DEF s
    <2> QED BY <1>1, <1>2, <1>3, <1>6, <2>1, SyncStepTypes, KeptTypes
            DEF EnqueueChanged
<1>7. CASE IndexChanged(r, p)
    <2>1. /\ stored' \in [Namespace -> [Path -> Content]]
          /\ rows' \in [Namespace -> SUBSET Path]
          /\ returned' \subseteq Namespace \X Path
        BY <1>4, <1>7, StoreFileTypes, GitDeltaConstants DEF IndexChanged
    <2> HIDE DEF s
    <2> QED BY <1>1, <1>2, <1>3, <1>7, <2>1, SyncStepTypes, KeptTypes
            DEF IndexChanged
<1> QED BY <1>5, <1>6, <1>7 DEF SkipDirty, SkipUnknown

\* tombstone_indexed_file and the end of a sync.
LEMMA TombstoneTypes ==
    ASSUME TypeInv, NEW r \in Runner, NEW p \in Path,
           Tombstone(r, p) \/ TombstoneRows(r) \/ SyncEnds(r)
    PROVE  TypeInv'
<1>1. Formed(sync[r])
    BY SyncFields
<1>2. CASE Tombstone(r, p)
    <2> DEFINE s == [sync[r] EXCEPT !.at = "rows", !.gone = p, !.todo = @ \ {p}]
    <2>1. sync' = [sync EXCEPT ![r] = s]
        BY <1>2 DEF Tombstone
    <2>2. Formed(s)
        BY <1>1, <1>2, GitDeltaConstants DEF Tombstone, Takes, Formed, Sync
    <2>3. stored' \in [Namespace -> [Path -> Content]]
        BY <1>2, KeptTypes DEF Tombstone, Content
    <2> HIDE DEF s
    <2> QED BY <1>2, <2>1, <2>2, <2>3, SyncStepTypes, KeptTypes DEF Tombstone
<1>3. CASE TombstoneRows(r)
    <2> DEFINE s == [sync[r] EXCEPT !.at = "apply", !.gone = None]
    <2>1. sync' = [sync EXCEPT ![r] = s]
        BY <1>3 DEF TombstoneRows
    <2>2. Formed(s)
        BY <1>1, <1>3 DEF TombstoneRows, Formed, Sync
    <2>3. rows' \in [Namespace -> SUBSET Path]
        BY <1>3, KeptTypes DEF TombstoneRows
    <2> HIDE DEF s
    <2> QED BY <1>3, <2>1, <2>2, <2>3, SyncStepTypes, KeptTypes DEF TombstoneRows
<1>4. CASE SyncEnds(r)
    <2>1. Formed(Rest)
        BY <1>1 DEF Rest, Formed, Sync
    <2> QED BY <1>4, <2>1, SyncStepTypes, KeptTypes DEF SyncEnds, indexVars
<1> QED BY <1>2, <1>3, <1>4

\* The queue's worker.
LEMMA WorkerTypes == TypeInv /\ Worker => TypeInv'
<1> SUFFICES ASSUME TypeInv, NEW w \in Workspace, NEW p \in Path,
                    IndexQueued(w, p)
             PROVE  TypeInv'
    BY DEF Worker
<1>1. /\ stored' \in [Namespace -> [Path -> Content]]
      /\ rows' \in [Namespace -> SUBSET Path]
      /\ returned' \subseteq Namespace \X Path
    BY StoreFileTypes, GitDeltaConstants DEF IndexQueued
<1>2. /\ pending' \subseteq Workspace \X Path /\ IsFiniteSet(pending')
      /\ Cardinality(pending') <= QueueLimit
    <2>1. pending' \subseteq pending
        BY DEF IndexQueued
    <2>2. IsFiniteSet(pending') /\ Cardinality(pending') <= Cardinality(pending)
          /\ Cardinality(pending') \in Nat /\ Cardinality(pending) \in Nat
        BY <2>1, KeptTypes, FS_Subset, FS_CardinalityType
    <2> QED BY <2>1, <2>2, KeptTypes, GitDeltaConstants
<1> QED BY <1>1, <1>2 DEF IndexQueued, TypeInv, TypeOK, treeVars, Formed

\* Every step of the specification keeps the types.
LEMMA TypeInvNext == TypeInv /\ [Next]_vars => TypeInv'
<1> SUFFICES ASSUME TypeInv, [Next]_vars PROVE TypeInv'
    OBVIOUS
<1>1. CASE UNCHANGED vars
    BY <1>1 DEF vars, treeVars, indexVars, TypeInv, TypeOK, Formed
<1>2. CASE Develop
    BY <1>2, DevelopTypes
<1>3. CASE Worker
    BY <1>3, WorkerTypes
<1>4. ASSUME NEW w \in Workspace, Register(w) PROVE TypeInv'
    <2>1. CASE Runner = {}
        BY <1>4, <2>1 DEF Register, TypeInv, TypeOK, treeVars, indexVars, Formed
    <2>2. CASE Runner # {}
        <3>1. PICK r : r \in Runner
            BY <2>2
        <3> QED BY <1>4, <3>1, StartTypes
    <2> QED BY <2>1, <2>2
<1>5. ASSUME NEW r \in Runner, PollerRuns(r) PROVE TypeInv'
    <2>1. CASE Tick(r)
        <3>1. PICK w : w \in Workspace
            BY <2>1 DEF Tick, TypeInv, TypeOK
        <3> QED BY <2>1, <3>1, StartTypes
    <2>2. ASSUME NEW w \in Workspace, Poll(r, w) PROVE TypeInv'
        BY <2>2, StartTypes
    <2>3. ASSUME NEW p \in Path, \/ SkipDirty(r, p) \/ EnqueueChanged(r, p)
                                  \/ IndexChanged(r, p) \/ SkipUnknown(r, p)
                                  \/ Tombstone(r, p)
          PROVE  TypeInv'
        BY <2>3, ApplyTypes, TombstoneTypes
    <2>4. CASE TombstoneRows(r)
        <3>1. sync[r].gone \in Path
            BY <2>4, SyncFields DEF TombstoneRows, Formed, Sync
        <3> QED BY <2>4, <3>1, TombstoneTypes
    <2>5. CASE LoadState(r) \/ ReadHead(r) \/ TruncateState(r) \/ WriteState(r)
        BY <2>5, DetectTypes
    <2>6. CASE SyncEnds(r)
        <3>1. Formed(Rest)
            BY SyncFields DEF Rest, Formed, Sync
        <3> QED BY <2>6, <3>1, SyncStepTypes, KeptTypes DEF SyncEnds, indexVars
    <2> QED BY <1>5, <2>1, <2>2, <2>3, <2>4, <2>5, <2>6 DEF PollerRuns, SyncSteps
<1>6. ASSUME NEW r \in Request, NEW w \in Workspace, NEW queue \in BOOLEAN,
             RequestDelta(r, w, queue)
      PROVE  TypeInv'
    BY <1>6, StartTypes DEF Runner
<1> QED BY <1>1, <1>2, <1>3, <1>4, <1>5, <1>6 DEF Next

\* Whatever the constants, a sync has a workspace while it
\* runs, and holds the path it is removing exactly between the graph half and
\* the vector half of tombstone_indexed_file.
THEOREM DeltaTypes == Spec => []TypeOK
<1>1. TypeInv => TypeOK
    BY DEF TypeInv
<1> QED BY TypeInvInit, TypeInvNext, <1>1, PTL DEF Spec

-----------------------------------------------------------------------------
(* No commit is lost *)

\* One thread syncs one workspace, whose index is its own, and the queue has
\* room for all its files.
Undisturbed ==
    /\ \E r \in Runner : Runner = {r}
    /\ \E w \in Workspace : Workspace = {w}
    /\ \A w \in Workspace : IndexOf[w] = w
    /\ IsFiniteSet(Workspace \X Path) /\ Cardinality(Workspace \X Path) <= QueueLimit

\* Base, for a runner r that is the only one.
From(r) == IF sync[r].at \in {"truncate", "write"} THEN sync[r].current ELSE state

\* Files are listed only between ReadHead and the end; what was loaded is
\* still in the state file when HEAD is read; the state file is torn only
\* while it is being written.
Steady(r) ==
    /\ sync[r].at \in {"idle", "load", "head"} => sync[r].todo = {}
    /\ sync[r].at = "head" => sync[r].previous = state
    /\ sync[r].at \in {"truncate", "write"} => sync[r].current # None
    /\ state = None => sync[r].at = "write"

\* A file that differs from HEAD, and was not brought back, has a content no
\* commit has, so that the commit that takes it differs from all commits a
\* delta may start from.
NewToTheLog(p) ==
    /\ disk[p] \in had[p]
    /\ \A c \in 1 .. Len(log) :
          /\ log[c][p] \in had[p]
          /\ \A n \in Namespace :
                ~Clean(p) /\ <<n, p>> \notin returned => log[c][p] # disk[p]

\* StaleFileIsScheduled, and a queued file that counts is there: the worker
\* skips one that is not.
Due(r, w, p) ==
    Clean(p) /\ stored[w][p] # Tree[p] /\ <<w, p>> \notin returned =>
        \/ log[From(r)][p] # Tree[p]
        \/ p \in sync[r].todo
        \/ disk[p] # None /\ <<w, p>> \in pending

DeltaInv ==
    /\ TypeInv
    /\ \A r \in Runner : Steady(r)
    /\ \A p \in Path : NewToTheLog(p)
    /\ \A r \in Runner, w \in Workspace, p \in Path : Due(r, w, p)

\* What is indexed at the first commit is due to nobody.
LEMMA DeltaInvInit == Undisturbed /\ Init => DeltaInv
<1> SUFFICES ASSUME Undisturbed, Init PROVE DeltaInv
    OBVIOUS
<1>1. TypeInv
    BY TypeInvInit
<1>2. Len(log) = 1 /\ log[1] = disk /\ HEAD = 1 /\ Tree = disk /\ state = 1
      /\ disk \in [Path -> Content]
    <2>1. log = <<disk>> /\ state = 1 /\ disk \in [Path -> Content]
        BY DEF Init
    <2>2. HEAD = 1
        BY <1>1 DEF Init, TypeInv, TypeOK, HEAD
    <2> QED BY <2>1, <2>2 DEF Tree
<1>3. \A r \in Runner : Steady(r)
    BY <1>2, GitDeltaConstants DEF Init, Rest, Steady
<1>4. \A p \in Path : NewToTheLog(p)
    BY <1>2 DEF Init, NewToTheLog, Clean
<1>5. ASSUME NEW r \in Runner, NEW w \in Workspace, NEW p \in Path
      PROVE  Due(r, w, p)
    <2>1. stored[w] = disk
        BY GitDeltaConstants DEF Init, Undisturbed
    <2> QED BY <1>2, <2>1 DEF Due
<1> QED BY <1>1, <1>3, <1>4, <1>5 DEF DeltaInv

\* Where a delta starts is a commit.
LEMMA FromIsACommit ==
    ASSUME DeltaInv, NEW r \in Runner
    PROVE  From(r) \in 1 .. Len(log)
BY KeptTypes, SyncFields DEF DeltaInv, Steady, From, Formed

\* With one runner, Base picks it.
LEMMA BaseIsFrom ==
    ASSUME Undisturbed, NEW r \in Runner
    PROVE  Base = From(r)
BY DEF Undisturbed, Base, From

\* Edits make a file differ from HEAD; a commit of it differs from where the
\* next delta starts.
LEMMA DevelopSchedules ==
    ASSUME Undisturbed, DeltaInv, Develop
    PROVE  /\ \A r \in Runner : Steady(r)'
           /\ \A p \in Path : NewToTheLog(p)'
           /\ \A r \in Runner, w \in Workspace, p \in Path : Due(r, w, p)'
<1> USE KeptTypes DEF DeltaInv
<1>1. UNCHANGED <<state, sync, pending, stored>>
    BY DEF Develop, Edit, Commit, indexVars
<1>2. \A r \in Runner : Steady(r)' /\ From(r)' = From(r)
    BY <1>1 DEF Steady, From
<1>3. ASSUME NEW q \in Path, NEW v \in Content, Edit(q, v)
      PROVE  /\ \A p \in Path : NewToTheLog(p)'
             /\ \A r \in Runner, w \in Workspace, p \in Path : Due(r, w, p)'
    <2>1. HEAD' = HEAD /\ Tree' = Tree /\ log' = log
        BY <1>3 DEF Edit, HEAD, Tree
    <2>2. /\ disk' = [disk EXCEPT ![q] = v] /\ v # disk[q]
          /\ had' = [had EXCEPT ![q] = @ \cup {v}]
          /\ returned' = IF v \in had[q] THEN returned \cup (Namespace \X {q})
                                        ELSE returned
        BY <1>3 DEF Edit
    <2>3. disk'[q] = v /\ had'[q] = had[q] \cup {v}
          /\ \A p \in Path \ {q} : disk'[p] = disk[p] /\ had'[p] = had[p]
        BY <2>2 DEF TypeInv
    <2>4. \A c \in 1 .. Len(log) : log[c][q] \in had[q]
        BY DEF NewToTheLog
    <2>5. /\ \A n \in Namespace : <<n, q>> \notin returned' => v \notin had[q]
          /\ \A n \in Namespace, p \in Path \ {q} :
                <<n, p>> \in returned' <=> <<n, p>> \in returned
        BY <2>2
    <2>6. NewToTheLog(q)'
        BY <2>1, <2>3, <2>4, <2>5 DEF NewToTheLog
    <2>7. \A p \in Path \ {q} : NewToTheLog(p)'
        BY <2>1, <2>3, <2>5 DEF NewToTheLog, Clean
    <2>8. ASSUME NEW r \in Runner, NEW w \in Workspace, NEW p \in Path
          PROVE  Due(r, w, p)'
        <3>1. w \in Namespace
            BY GitDeltaConstants
        <3>2. CASE p = q
            <4>1. <<w, q>> \notin returned' => ~Clean(q)'
                BY <2>1, <2>3, <2>4, <2>5, <3>1 DEF Clean, Tree
            <4> QED BY <3>2, <4>1 DEF Due
        <3>3. CASE p # q
            <4>1. <<w, p>> \in returned' <=> <<w, p>> \in returned
                BY <2>5, <3>1, <3>3
            <4>2. disk'[p] = disk[p] /\ Clean(p)' = Clean(p)
                BY <2>1, <2>3, <3>3 DEF Clean
            <4> QED BY <1>1, <1>2, <2>1, <4>1, <4>2 DEF Due
        <3> QED BY <3>2, <3>3
    <2> QED BY <2>6, <2>7, <2>8
<1>4. ASSUME NEW files \in SUBSET Path, Commit(files)
      PROVE  /\ \A p \in Path : NewToTheLog(p)'
             /\ \A r \in Runner, w \in Workspace, p \in Path : Due(r, w, p)'
    <2> DEFINE new == [p \in Path |-> IF p \in files THEN disk[p] ELSE Tree[p]]
    <2>1. /\ log' = Append(log, new) /\ UNCHANGED <<disk, had>>
          /\ \A p \in files : ~Clean(p)
        BY <1>4 DEF Commit
    <2>2. /\ Len(log) \in Nat /\ Len(log') = Len(log) + 1
          /\ log'[Len(log) + 1] = new
          /\ \A c \in 1 .. Len(log) : log'[c] = log[c]
        BY <2>1 DEF TypeInv, TypeOK
    <2>3. HEAD' = Len(log) + 1 /\ Tree' = new
        BY <1>4, <2>2 DEF Commit, HEAD, Tree, TypeInv, TypeOK
    <2>4. \A p \in Path : new[p] = IF p \in files THEN disk[p] ELSE Tree[p]
        OBVIOUS
    <2> HIDE DEF new
    <2>5. \A p \in Path : Tree[p] \in had[p] /\ disk[p] \in had[p]
        BY DEF NewToTheLog, Tree
    <2>6. ASSUME NEW p \in Path PROVE NewToTheLog(p)'
        <3>1. ASSUME NEW c \in 1 .. Len(log')
              PROVE  /\ log'[c][p] \in had[p]
                     /\ \A n \in Namespace :
                           disk[p] # new[p] /\ <<n, p>> \notin returned =>
                              log'[c][p] # disk[p]
            <4>1. CASE c \in 1 .. Len(log)
                BY <2>2, <2>4, <4>1 DEF NewToTheLog, Clean
            <4>2. CASE c = Len(log) + 1
                BY <2>2, <2>4, <2>5, <4>2
            <4> QED BY <2>2, <4>1, <4>2
        <3>2. returned' = returned
            BY <1>4 DEF Commit, indexVars
        <3> QED BY <2>1, <2>3, <2>5, <3>1, <3>2 DEF NewToTheLog, Clean
    <2>7. ASSUME NEW r \in Runner, NEW w \in Workspace, NEW p \in Path
          PROVE  Due(r, w, p)'
        <3>0. w \in Namespace /\ returned' = returned
            BY <1>4, GitDeltaConstants DEF Commit, indexVars
        <3>1. From(r)' \in 1 .. Len(log) /\ log'[From(r)'] = log[From(r)]
            BY <1>2, <2>2, FromIsACommit
        <3>2. CASE p \in files
            <4>1. <<w, p>> \notin returned => log[From(r)][p] # disk[p]
                BY <2>1, <3>0, <3>2, FromIsACommit DEF NewToTheLog
            <4> QED BY <2>1, <2>3, <2>4, <3>0, <3>1, <3>2, <4>1 DEF Due
        <3>3. CASE p \notin files
            BY <1>1, <2>1, <2>3, <2>4, <3>0, <3>1, <3>3 DEF Due, Clean
        <3> QED BY <3>2, <3>3
    <2> QED BY <2>6, <2>7
<1> QED BY <1>2, <1>3, <1>4 DEF Develop

\* The steps of a sync: what leaves the state file's delta is in the list,
\* and what leaves the list is stored, queued, gone, or differs from HEAD.
LEMMA SyncSchedules ==
    ASSUME Undisturbed, DeltaInv, NEW r \in Runner, NEW w \in Workspace,
           UNCHANGED treeVars,
           \/ Tick(r) \/ Poll(r, w) \/ SyncSteps(r)
           \/ \E queue \in BOOLEAN : RequestDelta(r, w, queue)
    PROVE  Steady(r)' /\ \A p \in Path : Due(r, w, p)'
<1> DEFINE Goal == Steady(r)' /\ \A p \in Path : Due(r, w, p)'
<1>1. HEAD' = HEAD /\ Tree' = Tree /\ log' = log /\ disk' = disk
      /\ \A p \in Path : Clean(p)' <=> Clean(p)
    BY DEF treeVars, HEAD, Tree, Clean
<1>2. Formed(sync[r]) /\ Steady(r) /\ \A p \in Path : Due(r, w, p)
    BY SyncFields DEF DeltaInv
<1>3. sync \in [Runner -> Sync] /\ stored \in [Namespace -> [Path -> Content]]
      /\ w \in Namespace
    BY GitDeltaConstants DEF DeltaInv, TypeInv, TypeOK
<1>4. \A u \in Workspace : u = w
    BY DEF Undisturbed
<1>5. CASE Tick(r)
    BY <1>1, <1>2, <1>5 DEF Tick, indexVars, Steady, Due, From
<1>6. CASE Poll(r, w) \/ \E queue \in BOOLEAN : RequestDelta(r, w, queue)
    <2>1. /\ sync[r].at = "idle" /\ sync'[r].at = "load" /\ sync'[r].todo = {}
          /\ UNCHANGED <<state, indexVars>>
        BY <1>3, <1>6 DEF Poll, RequestDelta, SyncBegins, Rest
    <2> QED BY <1>1, <1>2, <2>1 DEF indexVars, Steady, Due, From
<1>7. CASE LoadState(r)
    <2>1. /\ sync[r].at = "load" /\ sync'[r].at = "head"
          /\ sync'[r].previous = state /\ sync'[r].todo = sync[r].todo
          /\ UNCHANGED <<state, indexVars>>
        BY <1>3, <1>7 DEF LoadState, Sync
    <2> QED BY <1>1, <1>2, <2>1 DEF indexVars, Steady, Due, From
<1>8. CASE ReadHead(r)
    <2>1. sync[r].at = "head" /\ sync[r].todo = {}
          /\ sync[r].previous = state /\ state # None
        BY <1>2, <1>8 DEF ReadHead, Steady
    <2>2. /\ sync'[r].at = "truncate" /\ sync'[r].current = HEAD
          /\ sync'[r].todo = Diff(state, HEAD)
          /\ UNCHANGED <<state, indexVars>>
        BY <1>3, <1>8, <2>1 DEF ReadHead, Sync
    <2>3. HEAD # None
        BY KeptTypes, GitDeltaConstants DEF DeltaInv
    <2>4. Steady(r)'
        BY <2>1, <2>2, <2>3 DEF Steady
    <2>5. From(r) = state
        BY <2>1 DEF From
    <2>6. ASSUME NEW p \in Path PROVE Due(r, w, p)'
        <3>1. log[state][p] # Tree[p] => p \in sync'[r].todo
            BY <2>2 DEF Diff, Tree
        <3> QED BY <1>1, <1>2, <2>1, <2>2, <2>5, <3>1 DEF indexVars, Due
    <2> QED BY <2>4, <2>6
<1>9. CASE TruncateState(r)
    <2>1. /\ sync[r].at = "truncate" /\ sync'[r].at = "write"
          /\ sync'[r].current = sync[r].current /\ sync'[r].todo = sync[r].todo
          /\ UNCHANGED indexVars
        BY <1>3, <1>9 DEF TruncateState, Sync
    <2> QED BY <1>1, <1>2, <2>1 DEF indexVars, Steady, Due, From
<1>10. CASE WriteState(r)
    <2>1. /\ sync[r].at = "write" /\ sync'[r].at = "apply"
          /\ state' = sync[r].current /\ sync'[r].todo = sync[r].todo
          /\ UNCHANGED indexVars
        BY <1>3, <1>10 DEF WriteState, Sync
    <2> QED BY <1>1, <1>2, <2>1 DEF indexVars, Steady, Due, From
<1>11. ASSUME NEW q \in Path,
              \/ SkipDirty(r, q) \/ EnqueueChanged(r, q) \/ IndexChanged(r, q)
              \/ SkipUnknown(r, q) \/ Tombstone(r, q)
       PROVE  Goal
    <2>1. /\ sync[r].at = "apply" /\ sync'[r].at \in {"apply", "rows"}
          /\ sync'[r].todo = sync[r].todo \ {q} /\ state' = state
        BY <1>3, <1>11
           DEF SkipDirty, EnqueueChanged, IndexChanged, SkipUnknown, Tombstone,
               Takes, Handled, Sync
    <2>2. Steady(r)' /\ From(r)' = From(r)
        BY <1>2, <2>1 DEF Steady, From
    <2>3. sync[r].ws = w
        BY <1>2, <1>4, <2>1 DEF Formed, Sync
    <2>4. \A p \in Path \ {q} : /\ stored'[w][p] = stored[w][p]
                                /\ <<w, p>> \in returned => <<w, p>> \in returned'
                                /\ <<w, p>> \in pending => <<w, p>> \in pending'
        BY <1>3, <1>11, <2>3
           DEF SkipDirty, EnqueueChanged, IndexChanged, SkipUnknown, Tombstone,
               StoreFile, indexVars
    <2>5. \A p \in Path \ {q} : Due(r, w, p)'
        BY <1>1, <1>2, <2>1, <2>2, <2>4 DEF Due
    <2>6. ASSUME SkipDirty(r, q) PROVE Due(r, w, q)'
        BY <1>1, <2>6 DEF SkipDirty, Due
    <2>7. ASSUME EnqueueChanged(r, q) PROVE Due(r, w, q)'
        <3>1. <<w, q>> \in pending'
            <4>1. CASE Cardinality(pending) < QueueLimit
                BY <2>3, <2>7, <4>1 DEF EnqueueChanged
            <4>2. CASE ~(Cardinality(pending) < QueueLimit)
                <5>1. pending \subseteq Workspace \X Path
                      /\ IsFiniteSet(Workspace \X Path)
                    BY KeptTypes DEF DeltaInv, Undisturbed
                <5>2. Cardinality(pending) \in Nat
                      /\ Cardinality(Workspace \X Path) \in Nat
                      /\ (pending # Workspace \X Path =>
                            Cardinality(pending) < Cardinality(Workspace \X Path))
                    BY <5>1, FS_Subset, FS_CardinalityType
                <5>3. pending = Workspace \X Path
                    BY <4>2, <5>2, GitDeltaConstants DEF Undisturbed
                <5> QED BY <2>7, <4>2, <5>3 DEF EnqueueChanged
            <4> QED BY <4>1, <4>2
        <3> QED BY <1>1, <2>7, <3>1 DEF EnqueueChanged, Due
    <2>8. ASSUME IndexChanged(r, q) PROVE Due(r, w, q)'
        <3>1. stored'[w][q] = disk[q]
            BY <1>3, <2>3, <2>8 DEF IndexChanged, StoreFile
        <3> QED BY <1>1, <3>1 DEF Due, Clean
    <2>9. ASSUME SkipUnknown(r, q) PROVE Due(r, w, q)'
        BY <1>1, <2>3, <2>9 DEF SkipUnknown, indexVars, Due, Clean
    <2>10. ASSUME Tombstone(r, q) PROVE Due(r, w, q)'
        <3>1. stored'[w][q] = None /\ disk[q] = None
            BY <1>3, <2>3, <2>10 DEF Tombstone
        <3> QED BY <1>1, <3>1 DEF Due, Clean
    <2>11. Due(r, w, q)'
        BY <1>11, <2>6, <2>7, <2>8, <2>9, <2>10
    <2> QED BY <2>2, <2>5, <2>11
<1>12. CASE TombstoneRows(r)
    <2>1. /\ sync[r].at = "rows" /\ sync'[r].at = "apply"
          /\ sync'[r].todo = sync[r].todo
          /\ UNCHANGED <<state, pending, stored, returned>>
        BY <1>3, <1>12 DEF TombstoneRows, Sync
    <2> QED BY <1>1, <1>2, <2>1 DEF Steady, Due, From
<1>13. CASE SyncEnds(r)
    <2>1. /\ sync[r].at = "apply" /\ sync[r].todo = {}
          /\ sync'[r].at = "idle" /\ sync'[r].todo = {}
          /\ UNCHANGED <<state, indexVars>>
        BY <1>3, <1>13 DEF SyncEnds, Rest
    <2> QED BY <1>1, <1>2, <2>1 DEF indexVars, Steady, Due, From
<1> QED BY <1>5, <1>6, <1>7, <1>8, <1>9, <1>10, <1>11, <1>12, <1>13
       DEF SyncSteps

\* The worker takes a file that is there from the queue only to store it.
LEMMA WorkerSchedules ==
    ASSUME Undisturbed, DeltaInv, NEW u \in Workspace, NEW q \in Path,
           IndexQueued(u, q)
    PROVE  /\ \A r \in Runner : Steady(r)'
           /\ \A r \in Runner, w \in Workspace, p \in Path : Due(r, w, p)'
<1>1. UNCHANGED <<treeVars, state, sync>> /\ pending' = pending \ {<<u, q>>}
    BY DEF IndexQueued
<1>2. Tree' = Tree /\ \A p \in Path : Clean(p)' <=> Clean(p)
    BY <1>1 DEF treeVars, HEAD, Tree, Clean
<1>3. \A r \in Runner : Steady(r)' /\ From(r)' = From(r)
    BY <1>1 DEF DeltaInv, Steady, From
<1>4. IndexOf[u] = u /\ u \in Namespace
      /\ stored \in [Namespace -> [Path -> Content]]
    BY KeptTypes, GitDeltaConstants DEF DeltaInv, Undisturbed
<1>5. ASSUME NEW r \in Runner, NEW w \in Workspace, NEW p \in Path
      PROVE  Due(r, w, p)'
    <2>1. Due(r, w, p) /\ w = u /\ log' = log /\ disk' = disk /\ sync' = sync
        BY <1>1 DEF DeltaInv, Undisturbed, treeVars
    <2>2. CASE p = q
        <3>1. disk[q] # None /\ Clean(q) => stored'[u][q] = disk[q]
            BY <1>4 DEF IndexQueued, StoreFile
        <3>2. ~(disk[q] # None /\ Clean(q)) => UNCHANGED <<stored, returned>>
            BY DEF IndexQueued
        <3> QED BY <1>2, <1>3, <2>1, <2>2, <3>1, <3>2 DEF Due, Clean
    <2>3. CASE p # q
        <3>1. /\ stored'[w][p] = stored[w][p]
              /\ <<w, p>> \in returned => <<w, p>> \in returned'
            BY <1>4, <2>1, <2>3 DEF IndexQueued, StoreFile
        <3> QED BY <1>1, <1>2, <1>3, <2>1, <2>3, <3>1 DEF Due
    <2> QED BY <2>2, <2>3
<1> QED BY <1>3, <1>5

\* No step of the specification loses a file.
LEMMA DeltaInvNext == Undisturbed /\ DeltaInv /\ [Next]_vars => DeltaInv'
<1> SUFFICES ASSUME Undisturbed, DeltaInv, [Next]_vars PROVE DeltaInv'
    OBVIOUS
<1>1. TypeInv'
    BY TypeInvNext DEF DeltaInv
<1> DEFINE Fresh == \A p \in Path : NewToTheLog(p)'
           Goal  == /\ \A r \in Runner : Steady(r)'
                    /\ \A r \in Runner, w \in Workspace, p \in Path : Due(r, w, p)'
<1>2. ASSUME UNCHANGED treeVars,
             \A n \in Namespace, p \in Path :
                <<n, p>> \in returned => <<n, p>> \in returned' \/ Clean(p)
      PROVE  Fresh
    <2>1. \A p \in Path : Clean(p)' = Clean(p)
        BY <1>2 DEF treeVars, Clean, Tree, HEAD
    <2> QED BY <1>2, <2>1 DEF DeltaInv, NewToTheLog, treeVars
<1>3. CASE UNCHANGED vars \/ \E w \in Workspace : Register(w)
    <2>1. UNCHANGED <<treeVars, state, sync, indexVars>>
        BY <1>3 DEF Register, vars
    <2>2. Fresh
        BY <1>2, <2>1 DEF indexVars
    <2> QED BY <1>1, <2>1, <2>2
            DEF DeltaInv, treeVars, indexVars, Steady, Due, From, Clean, Tree, HEAD
<1>4. CASE Develop
    BY <1>1, <1>4, DevelopSchedules DEF DeltaInv
<1>5. ASSUME NEW r \in Runner,
             \/ PollerRuns(r)
             \/ r \in Request /\ \E w \in Workspace, queue \in BOOLEAN :
                                    RequestDelta(r, w, queue)
      PROVE  DeltaInv'
    <2>1. UNCHANGED treeVars
        BY <1>5 DEF PollerRuns, SyncSteps, Tick, Poll, RequestDelta, LoadState,
                    ReadHead, TruncateState, WriteState, SkipDirty,
                    EnqueueChanged, IndexChanged, SkipUnknown, Tombstone,
                    TombstoneRows, SyncEnds
    <2>2. PICK u \in Workspace : \A w \in Workspace : w = u
        BY DEF Undisturbed
    <2>3. \A q \in Runner : q = r
        BY DEF Undisturbed
    <2>4. \/ Tick(r) \/ Poll(r, u) \/ SyncSteps(r)
          \/ \E queue \in BOOLEAN : RequestDelta(r, u, queue)
        BY <1>5, <2>2 DEF PollerRuns
    <2>5. Steady(r)' /\ \A p \in Path : Due(r, u, p)'
        BY <2>1, <2>4, SyncSchedules
    <2>6. Goal
        BY <2>2, <2>3, <2>5
    <2>7. \A n \in Namespace, p \in Path :
             <<n, p>> \in returned => <<n, p>> \in returned' \/ Clean(p)
        BY <1>5 DEF PollerRuns, SyncSteps, Tick, Poll, RequestDelta, LoadState,
                    ReadHead, TruncateState, WriteState, SkipDirty,
                    EnqueueChanged, IndexChanged, SkipUnknown, Tombstone,
                    TombstoneRows, SyncEnds, StoreFile, indexVars
    <2>8. Fresh
        BY <1>2, <2>1, <2>7
    <2> QED BY <1>1, <2>6, <2>8 DEF DeltaInv
<1>6. CASE Worker
    <2>1. UNCHANGED treeVars
        BY <1>6 DEF Worker, IndexQueued
    <2>2. \A n \in Namespace, p \in Path :
             <<n, p>> \in returned => <<n, p>> \in returned' \/ Clean(p)
        BY <1>6 DEF Worker, IndexQueued, StoreFile
    <2>3. Fresh
        BY <1>2, <2>1, <2>2
    <2> QED BY <1>1, <1>6, <2>3, WorkerSchedules DEF Worker, DeltaInv
<1> QED BY <1>3, <1>4, <1>5, <1>6 DEF Next, Runner

\* With one thread that syncs, one workspace and room in the queue, whatever
\* is edited and committed while a delta is worked off: a clean file whose
\* stored content is not HEAD's is in the delta between the state file and
\* HEAD, in the list of the sync, or in the queue, unless it was brought back
\* to a content it had.
THEOREM DeltaLosesNoCommit == Undisturbed => (Spec => []StaleFileIsScheduled)
<1> SUFFICES ASSUME Undisturbed PROVE Spec => []StaleFileIsScheduled
    OBVIOUS
<1>1. Init => DeltaInv
    BY DeltaInvInit
<1>2. DeltaInv /\ [Next]_vars => DeltaInv'
    BY DeltaInvNext
<1>3. DeltaInv => StaleFileIsScheduled
    <2> SUFFICES ASSUME DeltaInv, NEW w \in targets, NEW p \in Path,
                        Clean(p), stored[IndexOf[w]][p] # Tree[p],
                        <<IndexOf[w], p>> \notin returned
                 PROVE  \/ Base # None /\ p \in Diff(Base, HEAD)
                        \/ \E r \in Runner : p \in sync[r].todo
                        \/ <<w, p>> \in pending
        BY DEF StaleFileIsScheduled
    <2>1. PICK r : r \in Runner
        BY DEF Undisturbed
    <2>2. w \in Workspace /\ IndexOf[w] = w
        BY KeptTypes DEF DeltaInv, Undisturbed
    <2>3. From(r) # None /\ Base = From(r)
        BY <2>1, FromIsACommit, BaseIsFrom, GitDeltaConstants
    <2>4. Due(r, w, p)
        BY <2>1, <2>2 DEF DeltaInv
    <2> QED BY <2>1, <2>2, <2>3, <2>4 DEF Due, Diff, Tree
<1> QED BY <1>1, <1>2, <1>3, PTL DEF Spec
=============================================================================
