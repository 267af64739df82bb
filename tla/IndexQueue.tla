----------------------------- MODULE IndexQueue -----------------------------
(***************************************************************************)
(* The bounded, coalescing index queue of the sidecar                      *)
(* (src/context_engine/indexer/queue.py, class IndexBatchQueue).           *)
(*                                                                         *)
(* HTTP handlers of a thread pool enqueue saved files and project jobs;    *)
(* one daemon thread waits until saves have been quiet for the debounce    *)
(* window, pops a bounded batch under the queue's Condition and runs the   *)
(* processor outside it.  start() and close() may be called at any time,   *)
(* and close() gives up joining the thread after a timeout.                *)
(*                                                                         *)
(* A handler reads the monotonic clock BEFORE it takes the lock, so its    *)
(* call is two steps.  Everything done under the lock is one step.         *)
(* Condition.wait always has a timeout, so a waiting thread is simply one  *)
(* that may run its loop again.                                            *)
(***************************************************************************)
EXTENDS Naturals, FiniteSets

CONSTANTS
    FileKey,     \* keys (workspace, "file", path) of single-file jobs
    ProjectKey,  \* keys (workspace, "project", "") of project jobs
    Payload,     \* what a coalesced save overwrites: <<file_path, user_id>>
    Caller,      \* handler threads that enqueue
    Thread,      \* worker threads start() may create (bound)
    SyncCaller,  \* callers of process_ready_once
    MaxPending,  \* max_pending
    BatchSize,   \* batch_size
    Debounce,    \* debounce window, in clock ticks
    Horizon,     \* last tick at which a save is made (bound)
    MaxSaves,    \* number of saves made (bound)
    None         \* no item, no call, no thread

Key       == FileKey \cup ProjectKey
Processor == Thread \cup SyncCaller

ASSUME QueueBounds ==
    /\ MaxPending \in Nat \ {0}
    /\ BatchSize \in Nat \ {0}
    /\ Debounce \in Nat /\ Horizon \in Nat /\ MaxSaves \in Nat

ASSUME QueueNames ==
    /\ IsFiniteSet(Key) /\ IsFiniteSet(Processor)
    /\ FileKey \cap ProjectKey = {}
    /\ Thread \cap SyncCaller = {}
    /\ None \notin Thread

Item == [payload: Payload, stamp: Nat, generation: Nat]
Call == [key: Key, payload: Payload, stamp: Nat]

ASSUME NoneIsNeither == None \notin Item /\ None \notin Call

VARIABLES
    now,         \* time.monotonic()
    pending,     \* _pending: the queued item of each key, or None
    batch,       \* keys each processor is working on, popped together
    processing,  \* _processing
    stats,       \* the counters of _stats that the properties use
    closed,      \* _closed
    thread,      \* _thread: the thread start() created last, or None
    worker,      \* what each thread is doing
    call,        \* each handler's call between its clock read and the lock
    saves,       \* saves made so far (bounds the model)
    accepted,    \* history: accepted saves of each key
    taken,       \* history: accepted[k] when k was last popped
    lifecycle    \* history: what the last start() or close() did

vars == <<now, pending, batch, processing, stats, closed, thread, worker,
          call, saves, accepted, taken, lifecycle>>

\* What every enqueue leaves alone.
runVars == <<now, batch, processing, closed, thread, worker, saves, taken,
             lifecycle>>

\* What every pop and every finished batch leaves alone.
saveVars == <<now, closed, thread, call, saves, accepted, lifecycle>>

-----------------------------------------------------------------------------
Queued == {k \in Key : pending[k] # None}

Init ==
    /\ now = 0
    /\ pending = [k \in Key |-> None]
    /\ batch = [p \in Processor |-> {}]
    /\ processing = 0
    /\ stats = [enqueued |-> 0, coalesced |-> 0, processed |-> 0]
    /\ closed = FALSE
    /\ thread = None
    /\ worker = [t \in Thread |-> "unborn"]
    /\ call = [c \in Caller |-> None]
    /\ saves = 0
    /\ accepted = [k \in Key |-> 0]
    /\ taken = [k \in Key |-> 0]
    /\ lifecycle = "new"

\* Time passes.  The clock stops once every save has become ready.
Tick ==
    /\ now < Horizon + Debounce
    /\ now' = now + 1
    /\ UNCHANGED <<pending, batch, processing, stats, closed, thread, worker,
                   call, saves, accepted, taken, lifecycle>>

-----------------------------------------------------------------------------
(* Enqueueing: _enqueue *)

\* A handler reads the clock for its item, before it asks for the lock.
ReadClock(c, k, p) ==
    /\ call[c] = None
    /\ saves < MaxSaves /\ now <= Horizon
    /\ call' = [call EXCEPT ![c] = [key |-> k, payload |-> p, stamp |-> now]]
    /\ saves' = saves + 1
    /\ UNCHANGED <<now, pending, batch, processing, stats, closed, thread,
                   worker, accepted, taken, lifecycle>>

\* Fault: coalescing forgets to bump the generation.
CoalesceWithoutBump(c) ==
    /\ call[c] # None
    /\ LET k == call[c].key IN
         /\ pending[k] # None
         /\ pending' = [pending EXCEPT ![k].stamp = call[c].stamp]
         /\ accepted' = [accepted EXCEPT ![k] = @ + 1]
    /\ stats' = [stats EXCEPT !.coalesced = @ + 1]
    /\ call' = [call EXCEPT ![c] = None]
    /\ UNCHANGED runVars

\* The key is queued already: the item takes the stamp and the payload of
\* this call, whichever call read the clock first.
Coalesce(c) ==
    /\ call[c] # None
    /\ LET k == call[c].key IN
         /\ pending[k] # None
         /\ pending' = [pending EXCEPT
                ![k] = [payload    |-> call[c].payload,
                        stamp      |-> call[c].stamp,
                        generation |-> @.generation + 1]]
         /\ accepted' = [accepted EXCEPT ![k] = @ + 1]
    /\ stats' = [stats EXCEPT !.coalesced = @ + 1]
    /\ call' = [call EXCEPT ![c] = None]
    /\ UNCHANGED runVars

\* Backpressure: a new key is refused while max_pending keys are queued.
Reject(c) ==
    /\ call[c] # None
    /\ pending[call[c].key] = None
    /\ Cardinality(Queued) >= MaxPending
    /\ call' = [call EXCEPT ![c] = None]
    /\ UNCHANGED runVars
    /\ UNCHANGED <<pending, stats, accepted>>

\* Fault: the bound is tested with <= (one job too many).
InsertOverBound(c) ==
    /\ call[c] # None
    /\ LET k == call[c].key IN
         /\ pending[k] = None
         /\ Cardinality(Queued) <= MaxPending
         /\ pending' = [pending EXCEPT
                ![k] = [payload    |-> call[c].payload,
                        stamp      |-> call[c].stamp,
                        generation |-> 1]]
         /\ accepted' = [accepted EXCEPT ![k] = @ + 1]
    /\ stats' = [stats EXCEPT !.enqueued = @ + 1]
    /\ call' = [call EXCEPT ![c] = None]
    /\ UNCHANGED runVars

Insert(c) ==
    /\ call[c] # None
    /\ LET k == call[c].key IN
         /\ pending[k] = None
         /\ Cardinality(Queued) < MaxPending
         /\ pending' = [pending EXCEPT
                ![k] = [payload    |-> call[c].payload,
                        stamp      |-> call[c].stamp,
                        generation |-> 1]]
         /\ accepted' = [accepted EXCEPT ![k] = @ + 1]
    /\ stats' = [stats EXCEPT !.enqueued = @ + 1]
    /\ call' = [call EXCEPT ![c] = None]
    /\ UNCHANGED runVars

-----------------------------------------------------------------------------
(* Popping: _pop_ready_batch_locked *)

Ready(force) ==
    {k \in Queued : force \/ pending[k].stamp + Debounce <= now}

\* The items of S come first in the sort by updated_at.  (Equal stamps are
\* ordered by path in the code; here either order may be chosen.)
OldestFirst(S, ready) ==
    \A k \in S, j \in ready \ S : pending[k].stamp <= pending[j].stamp

\* A ready project job runs alone and before every file.
ProjectBatch(S, ready) ==
    \E k \in ready \cap ProjectKey :
        S = {k} /\ OldestFirst(S, ready \cap ProjectKey)

\* Fault: files are popped although a project job is ready.
MixedBatch(S, ready) ==
    /\ S # {} /\ S \subseteq ready
    /\ S = ready \/ Cardinality(S) = BatchSize

FileBatch(S, ready) ==
    /\ ready \cap ProjectKey = {}
    /\ S # {} /\ S \subseteq ready
    /\ \/ S = ready /\ Cardinality(S) <= BatchSize
       \/ Cardinality(S) = BatchSize
    /\ OldestFirst(S, ready)

\* Processor p pops the batch S.
PopBatch(p, S, force) ==
    /\ \/ ProjectBatch(S, Ready(force))
       \/ FileBatch(S, Ready(force))
    /\ pending' = [k \in Key |-> IF k \in S THEN None ELSE pending[k]]
    /\ batch' = [batch EXCEPT ![p] = S]
    /\ processing' = processing + Cardinality(S)
    /\ taken' = [k \in Key |-> IF k \in S THEN accepted[k] ELSE taken[k]]
    /\ UNCHANGED saveVars
    /\ UNCHANGED stats

\* The bookkeeping of _process_batch, whether the processor returned or
\* raised: its finally block.
BatchDone(p) ==
    /\ batch[p] # {}
    /\ batch' = [batch EXCEPT ![p] = {}]
    /\ processing' = processing - Cardinality(batch[p])
    /\ stats' = [stats EXCEPT !.processed = @ + Cardinality(batch[p])]
    /\ UNCHANGED saveVars
    /\ UNCHANGED <<pending, taken>>

-----------------------------------------------------------------------------
(* The worker thread: _run *)

RunPop(t) ==
    /\ worker[t] = "idle" /\ ~closed
    /\ \E S \in SUBSET Queued : PopBatch(t, S, FALSE)
    /\ worker' = [worker EXCEPT ![t] = "busy"]

\* Fault: an exception ends the thread, its batch put in order.
RunRaisesOut(t) ==
    /\ worker[t] = "busy"
    /\ BatchDone(t)
    /\ worker' = [worker EXCEPT ![t] = "dead"]

\* The processor raises: the except block, which takes the lock before the
\* finally block does.
RunRaises(t) ==
    /\ worker[t] = "busy"
    /\ worker' = [worker EXCEPT ![t] = "raised"]
    /\ UNCHANGED <<now, pending, batch, processing, stats, closed, thread,
                   call, saves, accepted, taken, lifecycle>>

RunDone(t) ==
    /\ worker[t] \in {"busy", "raised"}
    /\ BatchDone(t)
    /\ worker' = [worker EXCEPT ![t] = "idle"]

RunExit(t) ==
    /\ worker[t] = "idle" /\ closed
    /\ worker' = [worker EXCEPT ![t] = "dead"]
    /\ UNCHANGED <<now, pending, batch, processing, stats, closed, thread,
                   call, saves, accepted, taken, lifecycle>>

(* process_ready_once *)

SyncPop(s, force) ==
    /\ batch[s] = {}
    /\ \E S \in SUBSET Queued : PopBatch(s, S, force)
    /\ UNCHANGED worker

SyncDone(s) ==
    /\ BatchDone(s)
    /\ UNCHANGED worker

-----------------------------------------------------------------------------
(* start and close *)

Alive(t) == t # None /\ worker[t] \in {"idle", "busy", "raised"}

\* Fault: start() does not ask whether the last thread still lives.
StartAnyway(t) ==
    /\ worker[t] = "unborn"
    /\ closed' = FALSE
    /\ thread' = t
    /\ worker' = [worker EXCEPT ![t] = "idle"]
    /\ lifecycle' = "started"
    /\ UNCHANGED <<now, pending, batch, processing, stats, call, saves,
                   accepted, taken>>

\* Fault: start() after close() forgets to lower the _closed flag.
StartStillClosed(t) ==
    /\ ~Alive(thread)
    /\ worker[t] = "unborn"
    /\ thread' = t
    /\ worker' = [worker EXCEPT ![t] = "idle"]
    /\ lifecycle' = "started"
    /\ UNCHANGED <<now, pending, batch, processing, stats, closed, call, saves,
                   accepted, taken>>

\* start() creates a thread only when the last one is dead.
StartThread(t) ==
    /\ ~Alive(thread)
    /\ worker[t] = "unborn"
    /\ closed' = FALSE
    /\ thread' = t
    /\ worker' = [worker EXCEPT ![t] = "idle"]
    /\ lifecycle' = "started"
    /\ UNCHANGED <<now, pending, batch, processing, stats, call, saves,
                   accepted, taken>>

\* start() while the thread is still alive returns at once: a _closed flag
\* left by a close() whose join timed out stays up.
StartIgnored ==
    /\ Alive(thread)
    /\ lifecycle' = IF closed THEN "ignored" ELSE "started"
    /\ UNCHANGED <<now, pending, batch, processing, stats, closed, thread,
                   worker, call, saves, accepted, taken>>

\* close() raises the flag; its join may end before the thread does.
Close ==
    /\ closed' = TRUE
    /\ lifecycle' = "closed"
    /\ UNCHANGED <<now, pending, batch, processing, stats, thread, worker,
                   call, saves, accepted, taken>>

-----------------------------------------------------------------------------
CallerStep(c) ==
    \/ \E k \in Key, p \in Payload : ReadClock(c, k, p)
    \/ Coalesce(c)
    \/ Reject(c)
    \/ Insert(c)

ThreadStep(t) ==
    RunPop(t) \/ RunRaises(t) \/ RunDone(t) \/ RunExit(t) \/ StartThread(t)

SyncStep(s) == SyncDone(s) \/ \E force \in BOOLEAN : SyncPop(s, force)

Next ==
    \/ Tick
    \/ \E c \in Caller : CallerStep(c)
    \/ \E t \in Thread : ThreadStep(t)
    \/ \E s \in SyncCaller : SyncStep(s)
    \/ StartIgnored
    \/ Close

Spec == Init /\ [][Next]_vars

\* Time and the worker go on; nobody has to save, start or close.  The
\* processor returns or raises: every call it makes has its own timeout.
Fairness ==
    /\ WF_vars(Tick)
    /\ \A t \in Thread : WF_vars(RunPop(t)) /\ WF_vars(RunDone(t))

FairSpec == Spec /\ Fairness

-----------------------------------------------------------------------------
(* Properties *)

\* Every variable has its type.
TypeOK ==
    /\ now \in Nat /\ saves \in Nat /\ processing \in Nat
    /\ pending \in [Key -> Item \cup {None}]
    /\ batch \in [Processor -> SUBSET Key]
    /\ stats \in [enqueued: Nat, coalesced: Nat, processed: Nat]
    /\ closed \in BOOLEAN
    /\ thread \in Thread \cup {None}
    /\ worker \in [Thread -> {"unborn", "idle", "busy", "raised", "dead"}]
    /\ call \in [Caller -> Call \cup {None}]
    /\ accepted \in [Key -> Nat] /\ taken \in [Key -> Nat]
    /\ lifecycle \in {"new", "started", "ignored", "closed"}

\* No accepted save is lost or served twice: a key is queued exactly while
\* saves of it were accepted that no batch has taken, and the generation of
\* its item is the number of those saves, however enqueueing, coalescing,
\* popping and a batch in progress interleave.
AcceptedSavesAreOwed ==
    \A k \in Key :
        /\ pending[k] = None => accepted[k] = taken[k]
        /\ pending[k] # None =>
               accepted[k] = taken[k] + pending[k].generation
                 /\ pending[k].generation > 0

\* Jobs in progress, one pair for each processor and key.
InFlight == {w \in Processor \X Key : w[2] \in batch[w[1]]}

\* The counters agree with the queue: every job that entered it is pending,
\* in progress or processed, and never more than max_pending are pending.
WorkIsConserved ==
    /\ processing = Cardinality(InFlight)
    /\ stats.enqueued = stats.processed + processing + Cardinality(Queued)
    /\ Cardinality(Queued) <= MaxPending

\* However start() and close() interleave with a slow batch, at most one
\* worker thread lives, it is the one _thread names, and only it holds a
\* batch: the processor is never run by two threads of the queue at once.
OneWorker ==
    \A t \in Thread :
        /\ Alive(t) => t = thread
        /\ worker[t] \in {"busy", "raised"} <=> batch[t] # {}

\* After a start() that was not swallowed, and until the next close(), the
\* queue has a live thread and accepts work for it.
StartedQueueIsServed ==
    lifecycle = "started" => Alive(thread) /\ ~closed

\* A queued job is taken by a batch, unless the queue is closed.
QueuedJobIsTaken ==
    \A k \in Key :
        (lifecycle = "started" /\ pending[k] # None)
            ~> (pending[k] = None \/ closed)

\* The queue keeps the promise of SaveService: clocks, stamps, the debounce,
\* threads, start() and close() never take a job nobody is owed, put a file
\* beside a project job, or forget a job that was accepted.
Service == INSTANCE SaveService WITH owed <- Queued, serving <- batch
KeepsServicePromise == Service!Spec

=============================================================================
