# Indexing core of the Surgical Context engine: specifications and proofs

The engine keeps several derived stores (a graph in Neo4j, vectors in LanceDB,
AFFECTS edges, cached answers) in step with source files that a developer edits,
commits and deletes meanwhile. This directory models the part of it where steps
of several actors interleave and where a failure between two steps matters: the
way of a saved or committed file from the editor or from git into the stores,
what is derived from the stores there, the caches and walks that read them, and
the packing of what was found into a prompt.

Paths are relative to the repository, `context_engine/` unless said otherwise.

- [1. The system](#1-the-system)
- [2. The modules](#2-the-modules)
- [3. What the runs show](#3-what-the-runs-show)
- [4. What is proved](#4-what-is-proved)
- [5. Where code and documentation
  disagree](#5-where-code-and-documentation-disagree)
- [6. Abstractions](#6-abstractions)
- [7. What is not modelled, and the plan](#7-what-is-not-modelled-and-the-plan)

Run a configuration with `tlc -config <name>.cfg MC<module>.tla` (`IndexQueue.tla` for the queue), the proofs with
`tlapm <module of proofs>.tla` (section 4).

## 1. The system

| Component | State it keeps | Operations | Hard part |
|---|---|---|---|
| Index queue `indexer/queue.py` | pending items by key, counters, thread, closed flag | enqueue file or project, pop a batch, process, start, close | handlers and worker interleave; backpressure; close while a batch runs |
| Job log `indexer/job_log.py` | SQLite rows: target, status, attempts | start, complete, fail a job | SELECT and UPDATE are separate; a lock per instance only; crash inside a job |
| Per-file indexing `indexer/code.py` | none of its own; writes graph, edges, vectors, AFFECTS | `index_file`, `run_indexing` | four stores, no transaction; the hash that marks a file done is written first |
| Indexing service `indexer/service.py` | none; batch accumulators | `process_index_batch`, `index_file_now`, git delta entry points | the queue's batches and synchronous requests at once; finalization after jobs are completed |
| Git delta `indexer/git_sync.py`, `git_delta.py` | `git_state.json` per project | compare HEAD, walk the changed files, tombstone | HEAD is persisted before the delta is worked off; commits go on |
| Poller `indexer/git_delta_poller.py` | registry of targets, thread | tick over a snapshot of the targets | races the HTTP endpoint for the state file |
| Fast pipeline `indexer/fast/` | none; the same stores | a project's index in phases | nothing is undone when a phase raises; files change between phases; `index_file` links fewer kinds of edges |
| Derived graph data `indexer/affects.py`, `database/neo4j/workspace.py`, `indexer/fast/adjacency_materialization.py` | AFFECTS edges, degrees, adjacency rows in LanceDB | rebuild for the symbols a batch changed, and for their neighbours | which symbols of other files a change reaches |
| Graph walks `axis/graph_walk.py`, `graph_walk_inproc.py` | a cached adjacency per workspace | load, search, rank, invalidate; or a Cypher query | two implementations of one walk; a load that meets a batch |
| Overlay `overlay.py` | buffers by workspace, user and file; LRU and TTL | update, clear, has, read | check-then-act over several locked calls; index jobs clear it |
| Response cache `cache/layered.py` | LRU of answers, two indexes from files to entries | get, put, invalidate files | three structures must agree; a request waits for the model between get and put |
| Credit packer `axis/context_builder.py` | per prompt: selected renders, tokens used, a heap of upgrades, a render cache | cover, upgrade in waves, by rank credit or by symbol | bundles share symbols that are printed once, so every purchase changes the price of the others |
| Scan cache `axis/role_retrieval.py` | scans of the vector table | read, invalidate | put after invalidate |
| Stores' clients `database/` | driver, tables, embedding cache | queries | driver handle against close |
| Ask, search, axis retrieval, MCP server | none | read | read while stores change |
| History, feedback | SQLite, JSONL | append, prune, rotate | several transactions per request; unlocked rotation |
| Workspaces, profiles `workspace_paths.py`, `index_profile.py` | registration in the graph | map a workspace to a namespace | callers map for themselves |
| VS Code extension `extension/src/overlayManager.ts` | timers, set of saved files | post buffers, post saves | unordered asynchronous posts |

How they interact. The extension posts buffers to the overlay and saves to
`POST /index/file(s)`; the handler enqueues or calls `index_file_now`. The
queue's one thread pops a batch and calls `process_index_batch`, which skips
files whose stored hash equals the one on disk, wraps each other file in a job
and calls `index_file`, clears its buffer inside the job, and after the last file
rebuilds AFFECTS and drops cached answers. The poller (or `POST
/index/git-delta`) notices that HEAD moved, records it, and enqueues the files
that changed. A file is indexed only while it equals HEAD (`should_index_file`).

What makes the parts correct:

- queue: every accepted save is taken by exactly one later batch; the counters
  agree; one worker at a time; a started queue is served; jobs are not starved;
- job log: the retry budget and the terminal states mean what they say;
- indexing: between runs the stores agree on one version of each file; whatever
  fails, the stored hash never claims more than the graph has;
- project run: whatever a run that stopped left behind, a stored hash is backed
  by the graph; a run that completes has caught up with the commits and has
  linked exactly the facts of the files it parsed, at no other file's cost;
- derived data: degrees and rows never claim an edge that is gone, no symbol is
  without a row, AFFECTS of the changed symbols is exact;
- walks: an answer from the cached adjacency is what the graph query would give
  on it, nothing is reported empty unconfirmed, and the cache is not stale;
- response cache: its structures agree, an invalidation drops exactly the
  entries of the files, an answer fits its question;
- credit packer: what is spent is what is printed, within every ceiling a pass
  sets; the packing ends by itself, and no render is remembered for another limit;
- git delta: no commit falls between the state file, a sync's list and the
  queue; every clean file ends up as HEAD has it;
- editor: answers show what is typed, and forget what is closed; a saved file is
  submitted in the end.

## 2. The modules

### IndexQueue, SaveService

`IndexQueue` is the queue as it is; `SaveService` is what it promises: jobs are
owed once accepted, taken in batches that are either one project or several
files, and finished. `Service == INSTANCE SaveService WITH owed <- Queued,
serving <- batch` is the refinement, checked and proved.

| Model | Code |
|---|---|
| `pending`, `processing`, `stats`, `closed`, `thread` | `_pending`, `_processing`, `_stats`, `_closed`, `_thread` |
| `call[c]` | an `_enqueue` between `time.monotonic()` and the lock |
| `Coalesce`, `Insert`, `Reject` | the branches of `_enqueue` under the Condition |
| `PopBatch`, `Ready`, `ProjectBatch`, `FileBatch` | `_pop_ready_batch_locked`: a ready project alone, or the oldest ready files |
| `RunPop`, `RunRaises`, `RunDone`, `RunExit` | the loop of `_run` around `_process_batch`, with its `except` and `finally` |
| `SyncPop`, `SyncDone` | `process_ready_once` |
| `StartThread`, `StartIgnored`, `Close` | `start` (creating, or returning early), `close` with its bounded join |
| `accepted`, `taken`, `lifecycle` | history, for the properties only |

### JobLog

Each `IndexJobLog` method is one step per SQL statement: `SelectFailed` then
`Retry` or `Insert` (`start_file_job`), `MarkCompleted`, `ReadFailed` then
`MarkFailed` (`mark_failed`). `Abandon` is a process that stops, or a call that
raises, inside the tracked block, and `SecondPasses` the clock of `updated_at`.
Any number of runners may work on one file: the queue's thread, a synchronous
request, a second process on the same SQLite file. Two histories tell what a race
spoils: a runner is `overtaken` once another one writes the row it selected or
wrote, and a row is `clobbered` once an overtaken runner writes it.

### FileIndexing (extends JobLog)

One action per store call of `index_file`, in the order of the code: `Gate`,
`Extract`, `Delta`, `Upsert`, `Prune`, `Clear`, `Link`, `Embed`, `Add`, `Drop`,
then `RequestAffects` (a request) or `GroupIndexed` (the queue). Around it,
`GroupBegins`, `SkipUnchanged`, `GroupTakes`, `GroupFinalizes`, `GroupEnds` are a
group of `process_index_batch`, and `RequestBegins`, `RequestEnds` are
`index_file_now`. `Edit`, `Commit` and `Type` are the developer. `Raise`,
`JobFails`, `JobLogRaises`, `GroupRaises` and `Restart` are failures at every
place one can happen; `failed` is history, whether one did.

The stores are sets of symbols (uid and body) per file: `graph` for the Symbol
nodes, `edges` for the bodies whose calls were linked, `vectors` for the rows of
the table, `file` for the hash on the File node. `affectsDue` and `cacheDue` are
the debts a run takes on at the upsert and pays at its end. `Tick` is the job log's
clock. `Exclusive` says that the runs of one file exclude each other (`Free` guards
their beginnings). It holds while the queue is the only caller, since one thread
works on one file after the other; it does not when a request meets the queue.

### GitDelta

`detect_changes` is `LoadState`, `ReadHead`, `TruncateState`, `WriteState` (the
state file is rewritten in place, so a reader may find it torn), then
`apply_git_head_delta` handles one file per step: `SkipDirty`, `EnqueueChanged`,
`IndexChanged`, `SkipUnknown`, `Tombstone` with `TombstoneRows`, and `SyncEnds`.
`Tick` and `Poll` are the poller, `RequestDelta` the endpoint, `IndexQueued` the
queue's worker with the indexing of one file. `disk` and `log` are the repository
(one branch), `had` and `returned` are history: the contents each file has had,
and the files brought back to one of them (an edit undone, a commit reverted) and
not indexed since. `Contents` bounds the contents of each file, `Reverting` which
files may come back. `FaultySpec` adds failing git commands, raising stores and
restarts.

### EditorSync

The way of a text from the editor into an answer: the extension's debounced posts
and batches of saved files, the overlay, and the index jobs that clear it.

| Model | Code |
|---|---|
| `timers`, `savedFiles`, `saveTimer` | `timers`, `savedFiles`, `saveBatchTimer` of `overlayManager.ts` |
| `Type`, `TimerFires`, `Save`, `Close` | `onDocumentChanged` and its timer, `onDocumentSaved`, `onDocumentClosed` |
| `Flush`, `FlushReturns` | `flushSavedFiles` before and after its `await` |
| `posts` | requests on their way; any of them may arrive next |
| `overlay` | `InMemoryOverlay._files`, as a sequence by `updated_at` |
| `Update`, `Clear`, `Touch`, `Expire` | `update` with its eviction, `clear`, `_touch`, `_evict_expired` |
| `IndexFiles`, `IndexFilesFails` | `POST /index/files` answered, or not |
| `TakeQueued`, `SkipQueued`, `Indexed`, `IndexFails` | the worker's job on one file, with its `overlay.clear` |
| `owed` | history: the files whose text an answer should show |
| `overtaken` | history: the files of which the last post was handled before an earlier one |
| `cleared` | history: the files whose text an index job of another text cleared |

### FastPipeline

A run of `run_fast_indexing` over all files of a project, a phase or a write per
step, and the saves between runs.

| Model | Code |
|---|---|
| `hash`, `nodes`, `proxies`, `edges`, `vectors` | File nodes, Symbol nodes, nodes of lazy proxies, derived edges by kind, rows of the vector table |
| `Collect`, `Tombstone`, `Forget` | the committed files; the graph, then the vectors of a file that is not one of them |
| `Hash`, `NothingChanged`, `Parse` | the hash phase, and the parse phase, which reads the file again |
| `Upsert`, `Prune`, `NodesWritten` | `_apply_graph`, first part: file after file |
| `ClearOutgoing`, `ClearDerived` | `clear_outgoing_symbol_edges`, `_clear_derived_edges_for_diffs` |
| `LinkProxies`, `LinkFacts` | the phases that only create |
| `Embed`, `Unembed` | `_embed_phase` and the deletion of what was removed |
| `SaveFile` | `index_file`, as a step between two runs |
| `Abort` | a store that raises, or the end of the process |
| `broken`, `touched` | history: files an aborted run left half written, files edited since the run began |

The kinds of facts stand for the groups that the code treats alike: `proxy`;
`type`, which a run and a save both clear and link; `attr`, which only a run
knows; `alias`, which a save clears and only a run links.

### DerivedGraph

What a batch, of saved files or of a project, derives from the symbols: calls
resolved by qualified name and, failing that, by a name that is unique (`Callees`,
`Resolve`, `Relink`), the seeds and neighbours whose degrees are recomputed
(`Seeds`, `Closure`, `RecomputeDegree`), `Dependents` with `RebuildAffects` at the
end of the batch (a search that keeps `MaxFanout` symbols of each level, in the
order it finds them), and the adjacency rows, as a subset (`SubsetRows`) or the
whole snapshot (`AllRows`). `IndexFile` relinks one file of a batch, `ApplyGraph`
all files of a project run, `Tombstone` removes a file. `bereaved` is history: the
symbols that lost an edge to a tombstone, which refreshes nothing.

### GraphWalk

Both implementations of the neighbour walk. `Matched` and `CypherRows` are the
query, by the trails it enumerates. `StartSeed`, `Hop`, `MergeSeed` and `Rank` are
`_bfs_distances_from_starts` and what is done with its distances; `LoadCached`,
`LoadSymbols`, `LoadExternal`, `LoadFails` and `StoreAdjacency` are
`load_adjacency`, whose two halves are read outside the lock; `AskGraph` is the
query as fallback, and `GraphFails` its driver error, answered with an empty list
and a warning (`"failed"`). `Relink`, `ReplaceRows`, `ReplaceExternal` and
`InvalidateAdjacency` are a batch, with `BatchFails` and `Restart`.

### ResponseCache

`InMemoryResponseCache` with its LRU order (`items`), the entries and both indexes
(`fileIndex`, `keyPaths`). `LookUp`, `ModelAnswers`, `ModelFails` and `Finish` are
an ask around its call to the model, `InvalidateFiles` what a batch or a saved
file does in one workspace (dropping a file's entries of all workspaces,
`cache/layered.py:195`, has no caller). `due` and `listed` are history: the
entries that batches invalidated, and the files a held entry was put with.

### CreditBudget

`_apply_token_credit_budget`: which bundles of symbols a prompt prints, and how
richly. A render is what it shows, tokens per symbol; `Printed` is the prompt,
which has a symbol once, as the first selected bundle shows it.

| Model | Code |
|---|---|
| `Pool`, `bundles` | `_dedupe_bundles_by_seed_uid`, `_freeze_cross_file_member_bodies` |
| `Limited`, `Climbs`, `Offer`, `cache` | `_render_with_transaction_limit`, `_next_upgrade_render`, `_enqueue_credit_upgrade`, `render_cache` |
| `Requeue`, `Thin`, `TooDear`, `Buy` | a pop of the coverage heap in `_select_bundles_under_credit_budget` |
| `EndCoverage` | the choice of the ceiling and of the way to upgrade |
| `StartCapped`, `PopRefused`, `PopUpgrade`, `EndWave` | the three waves of `_apply_credit_upgrades` |
| `StartTurn`, `EndTurn` | an entry's turn in `_apply_rank_decay_credit_upgrades`, by the same walk |
| `ReserveSpan`, `EndReserve` | `_apply_decoupled_seed_span_reserve` |
| `StartLanes`, `SkipLane`, `NoSpan`, `LaneBuys`, `LaneRefused`, `LeaveLanes` | the lanes of an entry in `_apply_decoupled_rank_decay_credit_upgrades` |
| `covered` | history: the tokens coverage spent |

Modules whose names begin with `MC` only give model values, instances and symmetry
sets. `JobLog` is checked by itself and inside `FileIndexing`, which extends
it. Definitions whose comment begins with "Fault:" are plausible bugs of
the operation they precede; each property is known to fail when one of them
replaces that operation.

## 3. What the runs show

| Configuration | Instance | Result |
|---|---|---|
| `IndexQueueServes` | 2 handlers, 2 files and a project, 4 saves, room for 2, batches of 2, debounce 1, two threads, `process_ready_once` beside them, processors that raise | `AcceptedSavesAreOwed`, `WorkIsConserved`, `OneWorker`, `StartedQueueIsServed`, the steps of `SaveService` (`KeepsServicePromise`), and under fairness `QueuedJobIsTaken` |
| `JobLogOverlaps` | 3 runners of 1 file at once, 2 rows, 3 attempts, 2 seconds | `RetryBudget`, `TerminalRowsStay` |
| `FileIndexingRuns` | queue and request in turns on 1 file of 3 contents, 1 edit, every failure and restart, 2 attempts, 2 job rows, 2 seconds | `StoresAgreeAtRest`, `StoredHashIsBacked`, `VectorsFollowGraph`, `RetryBudget` |
| `FileIndexingDiverges` | requests, 1 file that nobody edits, raising stores | `DivergenceIsVisible` fails |
| `GitDeltaPoll` | one thread that polls and answers requests, 2 files, one of 3 contents (absence among them) and one there or not, all of which come back, 3 commits, under fairness | `StaleFileIsScheduled`, `CommitsReachTheIndex` |
| `GitDeltaFaulty` | restarts and failures | `PersistedHeadIsIndexed` fails |
| `EditorSyncPosts` | 2 files of 2 texts, 4 events, an overlay with room for 1, batches of 1, posts in any order | `TypedTextIsShown`, `EntriesAreCurrent`, `SavedFilesAreScheduled` |
| `FastPipelineRuns` | 2 files, of 3 and of 2 contents, whose facts name each other's symbols and a proxy; 3 edits, 1 abort | `HashIsBacked`, `StoresAgree`, `RunCatchesUp`, `RunLinksItsFiles`, `SharedEdgesAreFacts`, `IncomingEdgesSurvive` |
| `DerivedGraphBatches` | 4 symbols in 3 files, two under one name, calls with and without a qualified name, 2 edits, depth 2, 1 dependent kept per level, subset refreshes up to 75% | `DegreesNeverOvercount`, `RowsListRealCalls`, `EverySymbolHasARow`, `ChangedAffectsAreExact`, `ProjectCallsAreLinked` |
| `GraphWalkRaces` | 24 graphs over 4 symbols and an external node, 7 requests, 1 walker, 1 batch, failures and restarts | `VisitsInLayers`, `AnswersLikeTheQuery`, `OnlySpoiltGoesStale`, `EmptyIsConfirmed` |
| `ResponseCacheRequests` | 2 workspaces, 2 prompts, 2 files, 2 requests at a time, room for 2 | `IndexesAgree`, `InvalidatedAnswersGo`, `OthersStay`, `ServedAnswersFit` |
| `CreditBudgetPacks` | 5 bundles, two of one seed, one that folds, one larger than the budget of 11, three that share symbols; every request over 3 render modes, 3 ways of upgrading and 3 cutoffs | `UsedIsPrinted`, `PrintsWithinCredit`, `StepBoundIsSlack`, `RemembersForThisLimit` |

The type invariants are proved too (section 4). `EntriesAreCurrent` and
`IndexesAgree` also say what bounds the overlay and the cache, and that their
structures have the same entries.

**Bounds.** Every bound is a constant named in its module.

- Queue: with two keys pending out of three a full queue meets new and known keys;
  four saves let a key be queued, popped, saved again while its batch runs, and
  coalesced; two threads allow start, close
  with an expired join, start. `Horizon` stops saves, not the clock, so every save
  becomes ready.
- Job log: three attempts reach the dead letter; two rows let one file be
  completed and opened again; two seconds order rows by time and by id. Three
  runners are the fewest of which two race after a third. `FileIndexingRuns` adds
  the rows that restarts leave running, with a dead letter at the second attempt.
  The theorems have any number of files, runners and rows.
- Indexing: the three contents change a body, remove a symbol and bring it
  back, the cases of the delta. A file starts with any of them, and one edit,
  between any two steps, takes it to any other. One file is enough since files
  share no store but the vector table, and that only in its bulk replacement
  (512 changed symbols), which is not reached; the theorems have any number of
  files, edits and runners.
- Git: three commits put one before, one during and one after a sync, and let a
  file come back twice; two files allow partial commits, and each is created and
  deleted; the first is changed as well.
- Editor: two files with room for one make a buffer leave for another, and
  batches of one leave a rest behind; four events let a file be typed into, saved
  and typed into again with its index job between, or closed, beside the second
  file.
- Project run: two files are enough for a fact to point into another file that
  is parsed by the same run, is not parsed again, or goes away; three edits change
  a file during a run, after it, and back. The contents remove a symbol, change a
  body with its facts, and keep a symbol while its proxy goes. One abort leaves
  whatever the next run finds; the theorems have any number.
- Derived data: four symbols make chains of two calls over three files, a name
  that becomes ambiguous and one that resolves again; 75% of four rows separates
  subset from whole refreshes. With room for one symbol per level, the second
  caller of a symbol is cut, and whoever depends on it alone. Two edits change the
  two ends of a chain in one batch or in two.
- Walks: with four nodes and three hops there are cycles, nodes reached by two
  ways of different length, and ties in the ranking at the limit. One batch can
  meet any step of a load; several walkers share only the cache, which the
  theorem has for any number.
- Response cache: three or more questions for two places evict; a time to live of
  0 lets the one tick of the clock expire an entry; two requests can wait with one
  prompt.
- Packing: a budget of 11 tokens lets coverage fill it, leave room for some
  upgrades, or leave so much that rank credits apply; the shares (in percent) make
  a credit that buys nothing, something, or all of a rung. A fold drops a symbol
  that another bundle shows, and a limit makes rich rungs collapse to cheap ones.
  `MinSteps` is the 64 of the code, and one rank is protected (`ProtectedHead`).

Deadlock is checked everywhere but in `CreditBudgetPacks`, where packing ends.

**Fairness.** The queue's liveness needs the clock to advance and the thread to
take its steps: `Condition.wait` always has a timeout, and the processor returns
because its database, model and git calls have timeouts and its exceptions are
caught (`queue.py:298`). `GitDelta` needs the poller's timer and the queue's
worker. Nobody is assumed to save, start, close, edit, commit or ask.
The other modules have no fairness and no liveness.

**What the passing runs assume**, each because the code fails without it:

- `JobLogOverlaps`: nothing. What the code does not keep is excepted row by
  row: `clobbered` ones, which only a race makes.
- The runs of `FileIndexing`, and the theorems about its stores: runs of one file
  exclude each other. The queue has one thread, but a synchronous request
  (`index_file_now`), or a second process on the same stores, is not kept
  out; section 5 says what then goes wrong. The theorem about the job log needs no
  such assumption.
- `StoresAgreeAtRest`, one of the properties of `FileIndexingRuns`, is silent
  from the first failure on (`failed`; `FileIndexingDiverges` shows what does not
  recover), and rests on no file having so many symbols that its upsert clears
  the whole vector table (`SmallFiles`, `lancedb_client.py:1336`, a hazard without
  a property). The other properties there hold over every failure.
- `GitDeltaPoll`: no failure (`GitDeltaFaulty`), one branch, the default index
  profile (the sync does not map the workspace id to the profile's namespace,
  `service.py:427`), a queue that holds all files (the result of the enqueue is
  dropped, `git_delta.py:54`, so a file that a full queue refuses is forgotten),
  one sync at a time (two would read each other's torn state file), one workspace
  per project (they share the state file), and a first sync that has happened. A
  file edited while its delta is handled is skipped as dirty, and if that edit is
  then undone, nothing names it again (section 5); the properties except
  files that came back so (`returned`), until they are indexed.
- `EditorSyncPosts`: a post of a text or a delete is not lost (the client ignores a
  failure and does not repeat it), and the sidecar does not restart, which empties
  the overlay. `TypedTextIsShown` excepts the two losses of section 5, a
  file whose last post was handled before an earlier one (`overtaken`) or whose
  text an index job of another text dropped (`cleared`), and what left the overlay
  for room or age; `EntriesAreCurrent` excepts `overtaken`;
  `SavedFilesAreScheduled` needs none of this.
- `FastPipelineRuns`: files are saved between runs, not during one, since the
  queue's one worker takes project and file jobs in turn (`service.py:369`). The
  direct path of the API starts a run beside the worker
  (`api/routes/indexing.py:123`) and is not modelled. Properties of a file except
  it once an aborted run left it half written (`broken`), and `RunCatchesUp`
  excepts what was edited during the run. A name that is a proxy in one content of
  a file is a symbol in none (`ProxiesStayProxies`). The code does not see to it:
  a proxy's uid is `compute_uid(name, "name()->_")`, that of a function of the name
  without arguments. Where a variable turns into such a function, the node stays
  and keeps the PROXY_OF edge it had.
- `DerivedGraphBatches`: batches run to their end and the files of a batch do not
  change between the calls that relink one file. Degrees and rows of symbols that
  lost an edge to a tombstone are excepted (`bereaved`).
- `GraphWalkRaces`: `EmptyIsConfirmed` excepts answers that carry the warning of a
  driver error; staleness is excepted when a load failed or met an
  invalidation, or a batch could not write a table (`spoilt`).

## 4. What is proved

The theorems hold for every value of the constants that satisfies the modules'
assumptions; a theorem with further hypotheses names them. The proofs of a module
`M` are in `MProofs`; those of `JobLog`, which `FileIndexing` extends, are in
`FileIndexingProofs`, those of `ResponseCache` and `CreditBudget` in
`AnswerProofs`. Every property was checked by TLC on the run of its module before
it was proved.

**IndexQueue** (`QueueTypes`, `QueueOwesAcceptedSaves`, `QueueConservesWork`,
`QueueHasOneWorker`, `StartRevivesQueue`, `QueueImplementsService`). The inductive
invariant `QueueInv` joins the five stated invariants with what they need from
one another: `WorkIsConserved` counts `InFlight`, a set of pairs, so popping needs
that the keys popped are not in flight at the same processor, which `OneWorker`
gives for threads and the guard of `process_ready_once` for its callers. The
counting rests on two lemmas about cardinalities of finite sets. Assumed:
finitely many keys and processors.

**JobLog** (`JobLogTypes`, `JobLogKeepsBudget`, `JobLogTerminalRowsStay`), with any
number of runners of one file at once. `RetryBudget` alone is not inductive:
the verdict of `mark_failed` is written from attempts read a step earlier, and
the retry from a row selected a step earlier. `JobInv` adds `Knows`: what a runner
remembers of its row is still so, unless it was overtaken or the row is
clobbered. Whoever writes a row overtakes all others that hold it
(`OthersOvertaken`), so nobody else has anything to remember of it.

**FileIndexing** (`IndexingTypes`, `IndexingBacksHashes`,
`IndexingVectorsFollow`), under `Exclusive`, with every failure and restart;
`IndexingKeepsBudget`, with the same failures and any runs of one file at once;
and `IndexingStoresAgree`, under `Exclusive` and `SmallFiles`, until the first failure. A
stored hash is backed only because the delta upserted with it was computed from
the graph it is applied to. `IndexInv` says so for every stage (`Carries`): from
the delta to the upsert, the version's symbols that are not in the delta are in
the graph; from the upsert to the last vector, the stored hash is the version's.
The invariant of the job log is reused: each step of the indexer is a step of
`JobLog`, leaves it alone, or is the restart.

That the stores agree at rest is about every store at once. `QuietInv`, which the
first failure ends, says, for
each stage of a run, which stores hold the old version already replaced by the new
(`StoresInOrder`), and keeps an account of what is owed at the end of a batch:
whatever is still due to AFFECTS or to the response cache is owed by some runner
(`Ledger`), who has it among what it collected (`Books`). At rest nobody owes
anything. `SmallFiles` is needed: when a delta is large the upsert clears the
table of the workspace, and the other files' vectors are gone.

**GitDelta** (`DeltaTypes`, `DeltaLosesNoCommit`), without failures. The first
holds for any runners and workspaces. The second assumes `Undisturbed`: one
thread, one workspace that is its own namespace, and a queue with room for every
file; for any number of files, contents and commits, which may come back.
`DeltaInv` makes `StaleFileIsScheduled` inductive with two facts: what a sync
loaded is still in the state file when it reads HEAD (`Steady`), and a file that
differs from HEAD and did not come back has a content no commit has
(`NewToTheLog`), so that a commit of it differs from whatever commit the next
delta starts from. That a full queue refuses nothing here follows from its limit:
it then holds every file.

**EditorSync** (`SavedFilesStayScheduled`, `EditorEntriesAreCurrent`,
`EditorShowsTypedText`), with posts in any order, for any number of files and
texts. `SavedFilesAreScheduled` alone is not inductive, since an
answer lowers a counter: `ClientInv` adds the types of the client's state, and the
lemma `RemoveAtKeeps` says that taking one request from a sequence leaves the
others, so that a request for a batch on its way can only become an answer.
An entry is current because the last word about its file is: of what the overlay
holds and the posts on their way, whatever no later post follows has the text
of the buffer, unless a timer is running or the file was overtaken
(`LastWordIsFresh`), and an overlay has one entry per file. The typed text is
shown because it is somewhere (`TextIsSomewhere`): with its timer, in the last post
about the file, in the overlay or in the index. A post handled before an
earlier one of its file marks the file until something newer is sent, and so
does an index job that clears the overlay although it read another text.

**FastPipeline** (`PipelineInvariant`, `PipelineTypes`, `PipelineHashIsBacked`,
`PipelineStoresAgree`, `PipelineRunCatchesUp`, `PipelineIncomingEdgesSurvive`, and
under `ProxiesStayProxies` `PipelineRunLinksItsFiles` and
`PipelineSharedEdgesAreFacts`), for any files, contents and number of edits and
aborts. The inductive invariant joins the types, `HashIsBacked` and `FilesHold`,
which says for each stage what the stores hold of a file: what they held before
the run, or the nodes of the diff with the vectors still to follow (`Waiting`,
`VectorsDue`), or what is being forgotten; only files that are half written at an
abort leave it, and those are `broken`. The diff is right when it is applied,
although it was computed phases earlier, because nobody else writes the nodes of a
file during a run. That an edge never outlives a node (`PipelineTypes`) is the
other half: every step that removes nodes detaches their edges.

A run catches up because each file it collected and nobody touched is clean and
either still due or indexed as it is on disk (`CatchingUp`). The edges a file holds
are followed in the same way (`EdgeInv`): as long as it is untouched they are facts
of the stored content (`OldFacts`); what is no fact any more leaves a symbol that
will be refreshed or pruned (`AliasDue`); once cleared, the file has the edges of
the kinds linked so far and no others (`Linking`). What the statements except was
found in these proofs: a run that stops between the nodes and the edges leaves
REFERENCES of symbols the next diff does not list as changed; an edge into a proxy
is lost when the proxy's file is indexed, because the proxy's node is deleted and
created again (`database/neo4j/edges_dynamic.py:224`).

**DerivedGraph** (`DerivedTypes`, `DerivedDegreesNeverOvercount`,
`DerivedRowsListRealCalls`, `DerivedSymbolsHaveRows`,
`DerivedProjectCallsAreLinked`, `DerivedAffectsAreExact`), for any symbols, files,
bodies and batches. `Pending` adds to the stated invariants what a batch owes: a
live symbol without a row is among the seeds until the rows are written. The lemma
`OthersKeepTheirEdges` is the argument of the code's closure: a symbol outside the
seeds loses no edge by relinking, since every edge removed left a refreshed symbol
or touched a removed one, and both its ends were neighbours before. The calls of a
project run are linked because its one linking step sees the nodes of all its
files, when the old edges of what changed are gone (`ProjectLinks`). That AFFECTS
has the dependents, down to the first level the fan-out limit cuts, compares a
recursion with chains of calls. The recursion has a solution (`LevelsExist`); a
level that is within the limit loses nothing (`LevelKeeps`); and by induction on
the distance (`InductiveSet`) what the search visits is reached by a chain, and as
long as nothing was cut, each chain's end was visited (`DependentsAreWithin`). The
calls do not change between the search and the write (`SameCallsSameDependents`).

**GraphWalk** (`WalkTypesHold`, `WalkVisitsInLayers`, `WalkCacheIsFresh`,
`WalkEmptyIsConfirmed`, `WalkAnswersLikeTheQuery`), for any graphs, requests and
number of walkers. Layers are inductive with the types, as one expansion step only
adds the next layer. Freshness needs what a walker in the middle of a load holds
(`LoadsAreFresh`): each half it has read is the rows' or the graph's, unless the
load was spoilt. That a walk in process answers like the query compares a
breadth-first search, seed by seed, with the set of all trails (walks that use no
relationship twice). The end of a trail is seen no farther out than the trail is
long; and what is seen ends a trail whose relationships all lie within its
distance, so that the relationship to a symbol of the next layer is one it has not
used. Hence both find the same symbols at the same least depth, and the cut to the
limit keeps the same ones. `AllFaithful` says it of every walker at any moment: of
the seeds it is done with, and of the one under way.

**ResponseCache** (`CacheIndexesAgree`, `CacheDropsInvalidated`,
`CacheKeepsOthers`, `CacheServesFittingAnswers`), for any workspaces, prompts,
files, capacity and lifetime. `CacheInv` joins the types, `SameKeys` (the LRU
order, the entries and both path indexes are about one set of keys), `OwnAnswers`
and `InvalidatedAnswersGo`. An invalidation removes keys from the order one after
the other, a recursion; `WithoutExists` shows that it has a solution, and
induction that it leaves exactly the other keys in their order.

**CreditBudget** (`TokensUsedArePrinted`, `PromptsFitTheirCredit`,
`WalksEndByThemselves`, `RendersRememberedFitTheLimit`), for any pool, numbers of
tokens, profile, budget and shares; `CreditConstants` says only that they are of
the right kind. Costs are sums over the symbols shown: the lemmas from `SumsAgree`
to `SumUnion` say what the fold of the library returns, whatever the order it
takes the symbols in. `PackTypes` joins the types with `UsedIsPrinted`, which
rests on `PrintedMore` (a bundle put last adds the symbols no other shows, and
their price is what the prompt grows by) and on `SwapKeeps` (an upgrade pays the
prompt after it less the tokens spent, which are the prompt before it). Each of
the others has an invariant of its own beside the types. `WithinCredit` follows
the credits turn by turn: while an entry spends, its ceiling is within what
coverage, the reserve and the entries up to it may spend; between turns, the
tokens spent are within what the entries before it may. `StepsBounded` counts the
pairs of an entry and a rung it may still climb, at most seven per entry: a pop of
an offer takes one of them away, since what the entry offers next is a higher
rung; four times as many are allowed. `CacheRight` says that the limit remembered
is the walk's, because the waves that share a cache have the ceiling as their
limit.

Only model-checked: the two liveness properties, `QueuedJobIsTaken` and
`CommitsReachTheIndex`, as the prover has no rule for fairness. Induction over
data is used where it can be stated of a set: the library's induction theorems
take an operator as parameter, which no backend can instantiate, but that a set of
natural numbers with 0 and the successor of each of its members is all of them
(`InductiveSet`) follows from the well-foundedness of the naturals. The
disagreements below are counterexamples TLC finds.

## 5. Where code and documentation disagree

1. *A run that was cut after the upsert is neither repaired nor visible*
   (`FileIndexingDiverges`). The hash and the symbols are stored first. A request
   that raises after that, at the pruning in the trace, at the embedding
   alike, is failed; the retry of its row computes an empty delta, writes no vector
   and completes. `docs/architectura.md:249` promises partial failures that are
   "visible and retryable".
2. *A persisted HEAD may stand for files that are never indexed*, after a failure
   or a restart (`GitDeltaFaulty`). `docs/spec_sidecar_api.md:198` has
   the two the other way round: files are handled, then the HEAD is persisted.

Seen in the code, without a run:

- *Queue.* A `start` while the thread of a closed queue works off its last batch
  does nothing (`indexer/queue.py:99`), and the thread then ends. The model has it
  (`StartIgnored`); `StartedQueueIsServed` is about the other starts, as nothing
  in the code or the docs promises more.
- *Job log.* A row may be tried more than `max_attempts` times
  (`indexer/job_log.py:79`). Two runners that selected one failed row both retry
  it and count one attempt; a verdict decided earlier then fails it at its last,
  and it is taken up again, although `:75` says "dead-lettered after too many
  attempts". `RetryBudget` excepts such rows (`clobbered`).
- *Indexing.* Two runs of one file, a request's and the worker's, mix their
  vectors (`indexer/service.py:243`; `docs/road_map.md:306` ticks off stale job
  cancellation).
- *Git.* A file that is dirty while its delta is handled is skipped
  (`git_delta.py:50`); when the edit is undone, no later delta names it, with
  nothing failing (`returned`). The sync stores and removes under the plain workspace id, so under a
  profile that suffixes it deleted paths stay indexed (`service.py:427`); a
  checkout is a HEAD move like any other and goes into the workspace of the other
  branch against `docs/spec_branch_isolation.md:153` (`git_delta.py:54`).
- *Editor.* Posts are begun without waiting for the one before
  (`overlayManager.ts:41`) and carry no order, so of two saves the first may be the
  one the overlay keeps and answers show (`overtaken`). The worker clears the buffer
  of the file it indexed, whatever was typed and posted since (`service.py:184`;
  `cleared`). `docs/architectura.md:200` promises for both that "the answer includes
  in-memory changes".
- *A save beside a project run.* `index_file` (`indexer/code.py:255`) neither
  clears nor links the kinds of edges only a run knows, and clears REFERENCES
  without linking them; its hash keeps the next run away.
  `indexer/fast/phases.py:50` and `pipeline.py:528` call the run's clearing
  "parity with index_file". `SaveFile` does what the code does, and the properties
  of `FastPipelineRuns` are about runs.
- *Project run.* A run that stops after a file's hash leaves the file "current"
  for every later run (`fast/phases.py:341`), with a job completed when it was
  parsed (`:223`). A file with uncommitted edits is tombstoned, as git does not
  report it clean. A symbol that is removed and comes back does not get back the
  edges of files that were not parsed again. A tombstone whose vectors were not
  deleted leaves them for ever (`workspace_paths.py:240`). Proxies that are
  recreated count as removed and drop out of the degree seeds
  (`fast/phases.py:496`). A METADATA_BRIDGE goes when either of its ends is
  cleared, and is paired again only among the facts of the run
  (`database/neo4j/edges_dynamic.py:643`, `:563`). `docs/spec_indexer.md:284` says
  that symbols of changed files are deleted, where the code upserts a diff.
- *Derived data.* The closure of `recompute_degree_for_closure`
  (`database/neo4j/workspace.py:427`) follows the refreshed symbols, while calls
  are linked for all symbols of a file, so a degree can be too small. The AFFECTS
  edges of a symbol that did not change are stale when a caller's calls did
  (`affects.py:91`). A subset refresh writes the rows of neighbours with their
  edges to the seeds only, so such a row loses the others, and leaves the external
  maps alone (`adjacency_materialization.py:147`). A tombstone refreshes none of
  the three.
- *Walks.* A grouped walk has no fallback when it finds nothing
  (`graph_walk.py:673`), and leaves out the seed itself, which its docstring
  (`:652`) says it does not. A walk over the snapshot bridges external nodes
  forward, which the query cannot. A load that failed is cached as an empty
  snapshot (`graph_walk_inproc.py:258`), and a load that meets an invalidation is
  cached as it was (`:149`), until the next batch.
- *Response cache.* An answer put after an invalidation of its files does no harm,
  since the key covers the context; it only takes room. `run_fast_indexing` does
  not invalidate. A look at an expired entry moves it to the fresh end.
- *Packing.* The cheap render of the impact profile is not `impact_tiered`, as the
  docstring of `_initial_credit_render` has it (`axis/context_builder.py:2237`):
  the caller maps every mode outside the ladder to signatures (`:4140`).

## 6. Abstractions

- A file's content is a version; a symbol its uid and body. Extraction is the
  constant `Body`. A file that does not parse, and a missing or unsupported one,
  are left out: they return before any store is written.
- The links that are redone wholesale for a file (imports, endpoints, proxies,
  decorators, types, injections), degree counts and axis adjacency follow the
  calls and are not told apart from them; several extractors read the file again
  there, which the model does not. Edges between files are left to `FastPipeline`
  and `DerivedGraph`.
- `should_index_file` (a git query per file) and the hash of the file are one step
  at the start of a group.
- In `GitDelta`, the queue is a set of files and its worker indexes one in a step;
  the files of a delta are walked in any order (git's order is one of them).
- In `EditorSync` the queue is a set of files, the poller a step that queues a
  committed file, indexing a file is two steps and stores all of it or nothing,
  expiry may come at any time (oldest entry first), and there is one user.
- In `JobLog` a statement is a step, and `updated_at` counts seconds up to
  `LastSecond`.
- In `FastPipeline` a file's content is its symbols and its facts; calls, degrees,
  AFFECTS and adjacency are `DerivedGraph`'s; saving a file is one step, as
  `FileIndexing` has it in detail; `prune_graph_paths_outside_root` and facts that
  are paired with facts of other files are left out.
- In `DerivedGraph` one kind of edge stands for the seven that count, relinking a
  file is one step, and nothing fails. The dependents of one symbol are found in
  the order of `Rank`, which stands for the qualified name, hash and uid the code
  sorts by. A qualified name stands for one symbol: twins that share one, and the
  prefixes that reach an `object_api` surface, are left out.
- In `GraphWalk` rows and graph are sets of edges, uids are ordered numbers, and a
  walk of the query is one step.
- In `ResponseCache` every method is a step (each holds the lock throughout), a
  prompt is its hash, and the paths of a prompt's context are any set.
- In `CreditBudget` what a mode prints of a symbol is a number of tokens, given for
  each bundle, as is what it folds to; the utilities, which order the heaps and
  decide what falls below a density cutoff, are left open, so every order and every
  verdict is explored; which symbols have a lane is given. The ownership claims of
  folded symbols and the audit trace are left out; the inputs have no body that is
  itself a window over a folded class, which the code refuses to show there.
- Timing statistics, metrics, error texts and logging are left out.

## 7. What is not modelled, and the plan

The order is that of how much the rest of the engine rests on a part.

| Next | Module | Question |
|---|---|---|
| 1 | `ScanCache` | no scan older than the last mutation of the table is served (`axis/role_retrieval.py:537`) |
| 2 | `FastPipeline`, wider | two runs at once, or a run beside the worker; facts paired across files |
| 3 | `GitDelta`, wider | two workspaces of a project, checkouts, a suffixed profile, two syncs at once, the tombstone against the queue's worker |
| 4 | `EditorSync`, wider | two users of one workspace, and the readers that make several locked calls |
| 5 | `DatabaseProvider` | the double-checked handle against close (`database/provider.py:34`) |
| 6 | `QueueCycle` | the queue with a cyclic clock: starvation by saves that never pause, or by project jobs |

Abstract specifications worth stating: a store contract that `FileIndexing` and
`FastPipeline` both implement (a file's stores go from one version to another),
and a cache contract (an answer returned was put after the last invalidation of
its files). Theorems worth proving: that `FileIndexing` implements the store
contract while runs exclude each other.

Not planned: parsers and adapters, axis ranking and clustering (large
deterministic or numerical functions, without steps to interleave), Cypher text,
authentication, observability, rendering in the extension, benchmarks and
scripts. The inventory of `PROJECT.json` names each with its reason, and its
hazards name the line where each of the hard behaviours bites, also those that no
property covers yet. Smaller ones to take along with their modules: a coalesced
save replaces the user whose buffer will be cleared (`indexer/queue.py:163`); the
unsaved buffer that a full overlay evicts is not posted again
(`overlay.py:258`); the clock read before the queue's lock is held
(`indexer/queue.py:149`), and saves accepted after close (`:158`); the gate and the
extraction that each look at the working tree (`indexer/code.py:496`); the scan
cache that a delete does not invalidate (`database/lancedb_client.py:2009`); a
shutdown that closes the driver under a running batch
(`api/app.py:56`); two writers that rotate the feedback log at once
(`feedback/store.py:194`); a dialog recorded in several transactions
(`api/routes/history.py:82` and `:168`); the poller's start and close, which are
the queue's (`indexer/git_delta_poller.py:101`).
