------------------------------ MODULE GitDelta ------------------------------
(***************************************************************************)
(* Incremental sync after the git HEAD of a project moves:                 *)
(* src/context_engine/indexer/git_sync.py and git_delta.py, called by the  *)
(* poller thread (git_delta_poller.py) and by POST /index/git-delta.       *)
(*                                                                         *)
(* A sync compares HEAD with the commit recorded in a state file of the    *)
(* project, records HEAD there, and only then goes through the files that  *)
(* differ: present files are handed to the index queue (or indexed here),  *)
(* absent ones are removed from the graph and then from the vector table.  *)
(* The state file belongs to the project, the index to a workspace.        *)
(*                                                                         *)
(* The queue's worker and the indexing of one file are one step here; they *)
(* have modules of their own (IndexQueue, FileIndexing).                   *)
(***************************************************************************)
EXTENDS Naturals, Sequences, FiniteSets

CONSTANTS
    Path,
    Version,       \* contents of a file; None when there is no file
    None,
    Workspace,
    Namespace,     \* where indexes are stored
    IndexOf,       \* effective_index_workspace_id
    Poller, Request,   \* threads that may sync; a thread may do both
    Contents,      \* contents each file may get (bound)
    Reverting,     \* files that may get a content they had before (bound)
    QueueLimit,    \* INDEX_QUEUE_MAX_SIZE
    MaxCommits     \* commits made (bound)

ASSUME GitDeltaConstants ==
    /\ None \notin Version \cup Path \cup Workspace /\ None \notin Nat
    /\ Workspace \subseteq Namespace
    /\ IndexOf \in [Workspace -> Namespace]
    /\ Contents \in [Path -> SUBSET (Version \cup {None})]
    /\ Reverting \subseteq Path
    /\ QueueLimit \in Nat /\ MaxCommits \in Nat \ {0}

Runner == Poller \cup Request
Content == Version \cup {None}

VARIABLES
    disk,     \* the working tree
    log,      \* the trees of all commits
    had,      \* history: contents each file has had
    state,    \* git_state.json: a commit, or None (missing or torn)
    targets,  \* GitDeltaRegistry
    round,    \* targets the poller has yet to visit in this tick
    sync,     \* what each runner is doing
    pending,  \* files in the index queue, with their workspace
    stored,   \* File nodes, by namespace
    rows,     \* files with rows in the vector table, by namespace
    returned  \* history: files brought back to a content they had before, and
              \* not indexed since, by namespace

treeVars  == <<disk, log, had>>
indexVars == <<pending, stored, rows, returned>>
vars == <<treeVars, state, targets, round, sync, indexVars>>

Commits == 1 .. MaxCommits
HEAD == Len(log)
Tree == log[HEAD]
Clean(p) == disk[p] = Tree[p]     \* should_index_file

\* git diff --name-only
Diff(c, d) == {p \in Path : log[c][p] # log[d][p]}

Sync == [at: {"idle", "load", "head", "truncate", "write", "apply", "rows"},
         ws: Workspace \cup {None}, queue: BOOLEAN,
         previous: Commits \cup {None}, current: Commits \cup {None},
         todo: SUBSET Path, gone: Path \cup {None}]

Rest == [at |-> "idle", ws |-> None, queue |-> TRUE, previous |-> None,
         current |-> None, todo |-> {}, gone |-> None]

\* The project is indexed at its first commit, which the state file records.
Init ==
    /\ disk \in [Path -> Content] /\ \A p \in Path : disk[p] \in Contents[p]
    /\ log = <<disk>>
    /\ had = [p \in Path |-> {disk[p]}]
    /\ state = 1
    /\ targets = {} /\ round = {}
    /\ sync = [r \in Runner |-> Rest]
    /\ pending = {}
    /\ stored = [n \in Namespace |->
                    IF \E w \in Workspace : IndexOf[w] = n
                    THEN disk ELSE [p \in Path |-> None]]
    /\ rows = [n \in Namespace |-> {p \in Path : stored[n][p] # None}]
    /\ returned = {}

-----------------------------------------------------------------------------
(* The developer *)

Edit(p, v) ==
    /\ v # disk[p] /\ v \in Contents[p]
    /\ v \in had[p] => p \in Reverting
    /\ disk' = [disk EXCEPT ![p] = v]
    /\ had' = [had EXCEPT ![p] = @ \cup {v}]
    /\ returned' = IF v \in had[p] THEN returned \cup (Namespace \X {p})
                                  ELSE returned
    /\ UNCHANGED <<log, state, targets, round, sync, pending, stored, rows>>

\* Some of the edited files are committed.
Commit(files) ==
    /\ Len(log) < MaxCommits
    /\ files # {} /\ \A p \in files : ~Clean(p)
    /\ log' = Append(log, [p \in Path |-> IF p \in files THEN disk[p] ELSE Tree[p]])
    /\ UNCHANGED <<disk, had, state, targets, round, sync, indexVars>>

-----------------------------------------------------------------------------
(* Who syncs: the poller's ticks and the requests *)

\* POST /index registers its workspace for the poller.
Register(w) ==
    /\ w \notin targets
    /\ targets' = targets \cup {w}
    /\ UNCHANGED <<treeVars, state, round, sync, indexVars>>

\* _tick goes through a snapshot of the registry.
Tick(r) ==
    /\ r \in Poller /\ sync[r].at = "idle"
    /\ round = {} /\ targets # {}
    /\ round' = targets
    /\ UNCHANGED <<treeVars, state, targets, sync, indexVars>>

SyncBegins(r, w, queue) ==
    sync' = [sync EXCEPT ![r] = [Rest EXCEPT !.at = "load", !.ws = w, !.queue = queue]]

Poll(r, w) ==
    /\ r \in Poller /\ sync[r].at = "idle"
    /\ w \in round
    /\ round' = round \ {w}
    /\ SyncBegins(r, w, TRUE)
    /\ UNCHANGED <<treeVars, state, targets, indexVars>>

RequestDelta(r, w, queue) ==
    /\ r \in Request /\ sync[r].at = "idle"
    /\ targets' = targets \cup {w}
    /\ SyncBegins(r, w, queue)
    /\ UNCHANGED <<treeVars, state, round, indexVars>>

-----------------------------------------------------------------------------
(* detect_changes *)

LoadState(r) ==
    /\ sync[r].at = "load"
    /\ sync' = [sync EXCEPT ![r].at = "head", ![r].previous = state]
    /\ UNCHANGED <<treeVars, state, targets, round, indexVars>>

\* Fault: the new HEAD is compared with itself.
DiffAfterSave(r) ==
    /\ sync[r].at = "head"
    /\ sync' = [sync EXCEPT ![r] =
           [@ EXCEPT !.at = "truncate", !.current = HEAD, !.todo = {}]]
    /\ UNCHANGED <<treeVars, state, targets, round, indexVars>>

\* HEAD, and the files that differ since the previous one.
ReadHead(r) ==
    /\ sync[r].at = "head"
    /\ sync' = [sync EXCEPT ![r] =
           [@ EXCEPT !.at = "truncate", !.current = HEAD,
                     !.todo = IF sync[r].previous = None THEN {}
                              ELSE Diff(sync[r].previous, HEAD)]]
    /\ UNCHANGED <<treeVars, state, targets, round, indexVars>>

\* write_text truncates the file and writes it.
TruncateState(r) ==
    /\ sync[r].at = "truncate"
    /\ state' = None
    /\ sync' = [sync EXCEPT ![r].at = "write"]
    /\ UNCHANGED <<treeVars, targets, round, indexVars>>

WriteState(r) ==
    /\ sync[r].at = "write"
    /\ state' = sync[r].current
    /\ sync' = [sync EXCEPT ![r].at = "apply"]
    /\ UNCHANGED <<treeVars, targets, round, indexVars>>

-----------------------------------------------------------------------------
(* apply_git_head_delta, one changed file at a time *)

Takes(r, p) == sync[r].at = "apply" /\ p \in sync[r].todo
Handled(r, p) == sync' = [sync EXCEPT ![r].todo = @ \ {p}]

\* What indexing a clean file stores; nothing when it is stored already.
StoreFile(n, p) ==
    /\ stored' = [stored EXCEPT ![n][p] = disk[p]]
    /\ rows' = IF stored[n][p] = disk[p] THEN rows
               ELSE [rows EXCEPT ![n] = @ \cup {p}]
    /\ returned' = returned \ {<<n, p>>}

SkipDirty(r, p) ==
    /\ Takes(r, p)
    /\ disk[p] # None /\ ~Clean(p)
    /\ Handled(r, p)
    /\ UNCHANGED <<treeVars, state, targets, round, indexVars>>

\* The queue takes the file, has it already, or is full; the sync does not
\* look at which.
EnqueueChanged(r, p) ==
    /\ Takes(r, p)
    /\ disk[p] # None /\ Clean(p) /\ sync[r].queue
    /\ Handled(r, p)
    /\ pending' = IF Cardinality(pending) < QueueLimit
                  THEN pending \cup {<<sync[r].ws, p>>} ELSE pending
    /\ UNCHANGED <<treeVars, state, targets, round, stored, rows, returned>>

\* The sync stores under the workspace it is given.
IndexChanged(r, p) ==
    /\ Takes(r, p)
    /\ disk[p] # None /\ Clean(p) /\ ~sync[r].queue
    /\ Handled(r, p)
    /\ StoreFile(sync[r].ws, p)
    /\ UNCHANGED <<treeVars, state, targets, round, pending>>

SkipUnknown(r, p) ==
    /\ Takes(r, p)
    /\ disk[p] = None /\ stored[sync[r].ws][p] = None
    /\ Handled(r, p)
    /\ UNCHANGED <<treeVars, state, targets, round, indexVars>>

\* tombstone_indexed_file: the graph, then the rows.
Tombstone(r, p) ==
    /\ Takes(r, p)
    /\ disk[p] = None /\ stored[sync[r].ws][p] # None
    /\ stored' = [stored EXCEPT ![sync[r].ws][p] = None]
    /\ sync' = [sync EXCEPT ![r].at = "rows", ![r].gone = p,
                            ![r].todo = @ \ {p}]
    /\ UNCHANGED <<treeVars, state, targets, round, pending, rows, returned>>

TombstoneRows(r) ==
    /\ sync[r].at = "rows"
    /\ rows' = [rows EXCEPT ![sync[r].ws] = @ \ {sync[r].gone}]
    /\ sync' = [sync EXCEPT ![r].at = "apply", ![r].gone = None]
    /\ UNCHANGED <<treeVars, state, targets, round, pending, stored, returned>>

SyncEnds(r) ==
    /\ sync[r].at = "apply" /\ sync[r].todo = {}
    /\ sync' = [sync EXCEPT ![r] = Rest]
    /\ UNCHANGED <<treeVars, state, targets, round, indexVars>>

-----------------------------------------------------------------------------
(* The queue's worker *)

\* Fault: the worker indexes only files it has indexed before.
IndexKnown(w, p) ==
    /\ <<w, p>> \in pending
    /\ pending' = pending \ {<<w, p>>}
    /\ IF stored[IndexOf[w]][p] # None /\ disk[p] # None /\ Clean(p)
       THEN StoreFile(IndexOf[w], p) ELSE UNCHANGED <<stored, rows, returned>>
    /\ UNCHANGED <<treeVars, state, targets, round, sync>>

\* A queued file that is missing or dirty by now is skipped.
IndexQueued(w, p) ==
    /\ <<w, p>> \in pending
    /\ pending' = pending \ {<<w, p>>}
    /\ IF disk[p] # None /\ Clean(p)
       THEN StoreFile(IndexOf[w], p) ELSE UNCHANGED <<stored, rows, returned>>
    /\ UNCHANGED <<treeVars, state, targets, round, sync>>

-----------------------------------------------------------------------------
(* Failures *)

\* A git command fails: its output is taken as empty.
GitFails(r) ==
    /\ sync[r].at = "head"
    /\ sync' = [sync EXCEPT ![r].at = "truncate", ![r].current = None]
    /\ UNCHANGED <<treeVars, state, targets, round, indexVars>>

\* A store call raises: the poller counts an error, a request fails.
SyncRaises(r) ==
    /\ sync[r].at \in {"apply", "rows"}
    /\ sync' = [sync EXCEPT ![r] = Rest]
    /\ UNCHANGED <<treeVars, state, targets, round, indexVars>>

\* The sidecar is restarted: registry, queue and syncs are in memory.
Restart ==
    /\ targets' = {} /\ round' = {} /\ pending' = {}
    /\ sync' = [r \in Runner |-> Rest]
    /\ UNCHANGED <<treeVars, state, stored, rows, returned>>

Develop ==
    \/ \E p \in Path, v \in Content : Edit(p, v)
    \/ \E files \in SUBSET Path : Commit(files)

SyncSteps(r) ==
    \/ LoadState(r) \/ ReadHead(r) \/ TruncateState(r) \/ WriteState(r)
    \/ \E p \in Path :
          \/ SkipDirty(r, p) \/ EnqueueChanged(r, p) \/ IndexChanged(r, p)
          \/ SkipUnknown(r, p) \/ Tombstone(r, p)
    \/ TombstoneRows(r) \/ SyncEnds(r)

PollerRuns(r) == Tick(r) \/ (\E w \in Workspace : Poll(r, w)) \/ SyncSteps(r)

Worker == \E w \in Workspace, p \in Path : IndexQueued(w, p)

Next ==
    \/ Develop
    \/ \E w \in Workspace : Register(w)
    \/ \E r \in Runner : PollerRuns(r)
    \/ \E r \in Request, w \in Workspace, queue \in BOOLEAN : RequestDelta(r, w, queue)
    \/ Worker

\* The poller's timer and the queue's worker run on.
Fairness == (\A r \in Poller : WF_vars(PollerRuns(r))) /\ WF_vars(Worker)

Spec == Init /\ [][Next]_vars
FairSpec == Spec /\ Fairness

\* The same with failures.
FaultySpec ==
    Init /\ [][Next \/ (\E r \in Runner : GitFails(r) \/ SyncRaises(r)) \/ Restart]_vars

-----------------------------------------------------------------------------
(* Properties *)

\* Types; a sync has a workspace while it runs, and a file whose graph part
\* is gone exactly between the two halves of a tombstone.
TypeOK ==
    /\ disk \in [Path -> Content]
    /\ log \in Seq([Path -> Content]) /\ Len(log) \in Commits
    /\ state \in 1 .. Len(log) \cup {None}
    /\ targets \subseteq Workspace /\ round \subseteq targets
    /\ sync \in [Runner -> Sync]
    /\ \A r \in Runner : /\ sync[r].at = "idle" <=> sync[r].ws = None
                         /\ sync[r].at = "rows" <=> sync[r].gone # None
    /\ pending \subseteq Workspace \X Path
    /\ Cardinality(pending) <= QueueLimit
    /\ stored \in [Namespace -> [Path -> Content]]
    /\ rows \in [Namespace -> SUBSET Path]
    /\ returned \subseteq Namespace \X Path

Resting == \A r \in Runner : sync[r].at = "idle"

\* The commit the next sync starts from: the one about to be written, the
\* one it has loaded, or the one in the state file.
Base ==
    IF \E r \in Runner : sync[r].at \in {"truncate", "write"}
    THEN LET r == CHOOSE r \in Runner : sync[r].at \in {"truncate", "write"}
         IN sync[r].current
    ELSE state

\* A clean file whose stored content is not HEAD's is going to be looked at:
\* it is in the delta yet to be read, in the list of a running sync, or in
\* the queue.  No commit is lost between a state file that already says
\* HEAD, the list of a sync and the queue, whatever is edited and committed
\* while they are worked off, unless the file is brought back to a content it
\* had: an edit undone, or a commit reverted, between two syncs leaves nothing
\* to compare.
StaleFileIsScheduled ==
    \A w \in targets, p \in Path :
        /\ Clean(p) /\ stored[IndexOf[w]][p] # Tree[p]
        /\ <<IndexOf[w], p>> \notin returned
        =>  \/ Base # None /\ p \in Diff(Base, HEAD)
            \/ \E r \in Runner : p \in sync[r].todo
            \/ <<w, p>> \in pending

\* Once there are no fresh contents and no more commits, every clean file of a
\* polled workspace is stored as HEAD has it, for good, without anybody
\* asking, with the same exception.
CommitsReachTheIndex ==
    <>[](\A w \in targets, p \in Path :
            Clean(p) /\ <<IndexOf[w], p>> \notin returned =>
               stored[IndexOf[w]][p] = Tree[p])

\* docs/spec_sidecar_api.md:199-201: changed files are queued or indexed and
\* the new HEAD is persisted for the next delta, so a persisted HEAD with
\* nothing left to do means an index of that HEAD.
PersistedHeadIsIndexed ==
    Resting /\ pending = {} /\ state = HEAD =>
        \A w \in targets, p \in Path :
            Clean(p) => stored[IndexOf[w]][p] = Tree[p]
=============================================================================
