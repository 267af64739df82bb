-------------------------- MODULE IndexQueueProofs --------------------------
(***************************************************************************)
(* Theorems about the index queue, for every value of its constants: its   *)
(* types and accounting, the single worker, the restart after close(), and *)
(* that it implements SaveService.                                         *)
(*                                                                         *)
(* The invariant of the induction is QueueInv: the counters are natural    *)
(* numbers only because they count jobs in flight and pending, a popped    *)
(* batch adds its cardinality to them only because its processor had       *)
(* none, and that holds of a worker because of OneWorker.                  *)
(***************************************************************************)
EXTENDS IndexQueue, FiniteSetTheorems, TLAPS

QueueInv ==
    /\ TypeOK
    /\ AcceptedSavesAreOwed
    /\ WorkIsConserved
    /\ OneWorker

-----------------------------------------------------------------------------
(* Finite sets of the queue *)

\* Jobs pending and in flight are finite sets, so they can be counted.
LEMMA CountedSets ==
    ASSUME TypeOK
    PROVE  /\ IsFiniteSet(Queued) /\ Cardinality(Queued) \in Nat
           /\ IsFiniteSet(InFlight) /\ Cardinality(InFlight) \in Nat
           /\ \A p \in Processor : /\ IsFiniteSet(batch[p])
                                   /\ Cardinality(batch[p]) \in Nat
<1>1. IsFiniteSet(Key) /\ IsFiniteSet(Processor)
    BY QueueNames
<1>2. Queued \in SUBSET Key
    BY DEF Queued
<1>3. IsFiniteSet(Processor \X Key)
    BY <1>1, FS_Product
<1>4. InFlight \in SUBSET (Processor \X Key)
    BY DEF InFlight
<1>5. \A p \in Processor : batch[p] \in SUBSET Key
    BY DEF TypeOK
<1>6. QED
    BY <1>1, <1>2, <1>3, <1>4, <1>5, FS_Subset, FS_CardinalityType

\* A processor without a batch that takes S adds the jobs of S to those in
\* flight.
LEMMA TakenJobsAreInFlight ==
    ASSUME TypeOK, NEW p \in Processor, NEW S \in SUBSET Key, batch[p] = {},
           batch' = [batch EXCEPT ![p] = S]
    PROVE  Cardinality(InFlight') = Cardinality(InFlight) + Cardinality(S)
<1>1. InFlight' = InFlight \cup ({p} \X S)
    BY DEF InFlight, TypeOK
<1>2. InFlight \cap ({p} \X S) = {}
    BY DEF InFlight
<1>3. IsFiniteSet(S)
    BY QueueNames, FS_Subset
<1>4. /\ IsFiniteSet({p} \X S)
      /\ Cardinality({p} \X S) = Cardinality(S)
    <2>1. IsFiniteSet({p}) /\ Cardinality({p}) = 1
        BY FS_Singleton
    <2>2. Cardinality(S) \in Nat
        BY <1>3, FS_CardinalityType
    <2>3. /\ IsFiniteSet({p} \X S)
          /\ Cardinality({p} \X S) = Cardinality({p}) * Cardinality(S)
        BY <2>1, <1>3, FS_Product, Zenon
    <2>4. QED
        BY <2>1, <2>2, <2>3
<1>5. Cardinality(InFlight) \in Nat /\ Cardinality(S) \in Nat
    BY <1>3, CountedSets, FS_CardinalityType
<1>6. IsFiniteSet(InFlight)
    BY CountedSets
<1>7. Cardinality(InFlight \cup ({p} \X S))
        = Cardinality(InFlight) + Cardinality({p} \X S) - Cardinality({})
    BY <1>2, <1>4, <1>6, FS_Union
<1>8. QED
    BY <1>1, <1>4, <1>5, <1>7, FS_EmptySet

\* A processor that finishes takes its batch out of the jobs in flight.
LEMMA DoneJobsLeaveFlight ==
    ASSUME TypeOK, NEW p \in Processor,
           batch' = [batch EXCEPT ![p] = {}]
    PROVE  Cardinality(InFlight) = Cardinality(InFlight') + Cardinality(batch[p])
<1>1. InFlight = InFlight' \cup ({p} \X batch[p])
    BY DEF InFlight, TypeOK
<1>2. InFlight' \cap ({p} \X batch[p]) = {}
    BY DEF InFlight, TypeOK
<1>3. IsFiniteSet(InFlight')
    BY <1>1, CountedSets, FS_Subset
<1>4. /\ IsFiniteSet({p} \X batch[p])
      /\ Cardinality({p} \X batch[p]) = Cardinality(batch[p])
    <2>1. IsFiniteSet({p}) /\ Cardinality({p}) = 1
        BY FS_Singleton
    <2>2. IsFiniteSet(batch[p]) /\ Cardinality(batch[p]) \in Nat
        BY CountedSets
    <2>3. /\ IsFiniteSet({p} \X batch[p])
          /\ Cardinality({p} \X batch[p])
                = Cardinality({p}) * Cardinality(batch[p])
        BY <2>1, <2>2, FS_Product, Zenon
    <2>4. QED
        BY <2>1, <2>2, <2>3
<1>5. Cardinality(InFlight') \in Nat
    BY <1>3, FS_CardinalityType
<1>6. Cardinality(InFlight' \cup ({p} \X batch[p]))
        = Cardinality(InFlight') + Cardinality({p} \X batch[p])
            - Cardinality({})
    BY <1>2, <1>3, <1>4, FS_Union
<1>7. QED
    BY <1>1, <1>4, <1>5, <1>6, CountedSets, FS_EmptySet

-----------------------------------------------------------------------------
(* The inductive invariant *)

\* The queue starts empty and without a thread.
LEMMA InitQueueInv == Init => QueueInv
<1> SUFFICES ASSUME Init PROVE QueueInv
    OBVIOUS
<1>1. TypeOK
    BY QueueBounds DEF Init, TypeOK
<1>2. AcceptedSavesAreOwed
    BY DEF Init, AcceptedSavesAreOwed
<1>3. Queued = {} /\ InFlight = {}
    BY DEF Init, Queued, InFlight
<1>4. WorkIsConserved
    BY <1>3, FS_EmptySet, QueueBounds DEF Init, WorkIsConserved
<1>5. OneWorker
    BY DEF Init, OneWorker, Alive, Processor
<1>6. QED
    BY <1>1, <1>2, <1>4, <1>5 DEF QueueInv

\* Enqueueing keeps the accounting: one save more is accepted, and a key is
\* added to the pending ones only below max_pending.
LEMMA EnqueueKeepsInv ==
    ASSUME QueueInv, NEW c \in Caller, Coalesce(c) \/ Reject(c) \/ Insert(c)
    PROVE  QueueInv'
<1> DEFINE k == call[c].key
<1> USE DEF QueueInv
<1>1. call[c] \in Call /\ k \in Key
    BY DEF TypeOK, Coalesce, Reject, Insert, Call
<1>2. UNCHANGED runVars
    BY DEF Coalesce, Reject, Insert
<1>3. InFlight' = InFlight
    BY <1>2 DEF InFlight, runVars
<1>4. OneWorker'
    BY <1>2 DEF OneWorker, Alive, runVars
<1>5. CASE Coalesce(c)
  <2> DEFINE it == [payload |-> call[c].payload, stamp |-> call[c].stamp,
                    generation |-> pending[k].generation + 1]
  <2>1. /\ pending[k] \in Item /\ pending' = [pending EXCEPT ![k] = it]
        /\ accepted' = [accepted EXCEPT ![k] = @ + 1]
    BY <1>1, <1>5 DEF Coalesce, TypeOK
  <2>2. it \in Item
    BY <1>1, <2>1 DEF Item, Call
  <2>3. TypeOK'
    BY <1>1, <1>2, <1>5, <2>1, <2>2 DEF TypeOK, Coalesce, runVars
  <2>4. AcceptedSavesAreOwed'
    BY <1>1, <1>2, <2>1, <2>2, NoneIsNeither
    DEF TypeOK, AcceptedSavesAreOwed, runVars, Item
  <2>5. Queued' = Queued
    BY <1>1, <1>5, <2>1, <2>2, NoneIsNeither DEF Queued, TypeOK, Coalesce
  <2>6. WorkIsConserved'
    BY <1>2, <1>3, <1>5, <2>5 DEF WorkIsConserved, Coalesce, runVars, TypeOK
  <2>7. QED
    BY <1>4, <2>3, <2>4, <2>6
<1>6. CASE Reject(c)
  <2>1. TypeOK'
    BY <1>2, <1>6 DEF TypeOK, Reject, runVars
  <2>2. AcceptedSavesAreOwed'
    BY <1>2, <1>6 DEF AcceptedSavesAreOwed, Reject, runVars
  <2>3. Queued' = Queued
    BY <1>6 DEF Queued, Reject
  <2>4. WorkIsConserved'
    BY <1>2, <1>3, <1>6, <2>3 DEF WorkIsConserved, Reject, runVars
  <2>5. QED
    BY <1>4, <2>1, <2>2, <2>4
<1>7. CASE Insert(c)
  <2> DEFINE it == [payload |-> call[c].payload, stamp |-> call[c].stamp,
                    generation |-> 1]
  <2>1. /\ pending[k] = None /\ pending' = [pending EXCEPT ![k] = it]
        /\ accepted' = [accepted EXCEPT ![k] = @ + 1]
        /\ stats' = [stats EXCEPT !.enqueued = @ + 1]
        /\ Cardinality(Queued) < MaxPending
    BY <1>1, <1>7 DEF Insert
  <2>2. it \in Item
    BY <1>1 DEF Item, Call
  <2>3. TypeOK'
    BY <1>1, <1>2, <1>7, <2>1, <2>2 DEF TypeOK, Insert, runVars
  <2>4. AcceptedSavesAreOwed'
    BY <1>1, <1>2, <2>1, <2>2, NoneIsNeither
    DEF TypeOK, AcceptedSavesAreOwed, runVars, Item
  <2>5. Queued' = Queued \cup {k} /\ k \notin Queued
    BY <1>1, <2>1, <2>2, NoneIsNeither DEF Queued, TypeOK
  <2>6. Cardinality(Queued') = Cardinality(Queued) + 1
    BY <2>5, CountedSets, FS_AddElement
  <2>7. WorkIsConserved'
    BY <1>2, <1>3, <2>1, <2>6, CountedSets, QueueBounds
    DEF WorkIsConserved, runVars, TypeOK
  <2>8. QED
    BY <1>4, <2>3, <2>4, <2>7
<1>8. QED
    BY <1>5, <1>6, <1>7

\* What popping a batch does to the queue, whoever pops it.
LEMMA PopKeepsAccounting ==
    ASSUME QueueInv, NEW p \in Processor, NEW S \in SUBSET Queued,
           NEW force \in BOOLEAN, batch[p] = {}, PopBatch(p, S, force)
    PROVE  /\ AcceptedSavesAreOwed' /\ WorkIsConserved'
           /\ S # {} /\ S \subseteq Queued /\ Queued' = Queued \ S
           /\ pending' \in [Key -> Item \cup {None}]
           /\ batch' \in [Processor -> SUBSET Key]
           /\ processing' \in Nat
           /\ taken' \in [Key -> Nat]
<1> USE DEF QueueInv
<1>1. S \subseteq Key /\ S # {}
    BY DEF PopBatch, ProjectBatch, FileBatch, Queued
<1>2. Queued' = Queued \ S
    BY <1>1 DEF PopBatch, Queued
<1>3. /\ IsFiniteSet(Queued) /\ Cardinality(Queued) \in Nat
      /\ Cardinality(S) \in Nat
    BY CountedSets, FS_Subset, FS_CardinalityType
<1>4. Cardinality(Queued') = Cardinality(Queued) - Cardinality(S)
  <2>1. Queued \cap S = S
    OBVIOUS
  <2>2. QED
    BY <1>2, <1>3, <2>1, FS_Difference
<1>5. Cardinality(InFlight') = Cardinality(InFlight) + Cardinality(S)
    BY <1>1, TakenJobsAreInFlight DEF PopBatch
<1>6. WorkIsConserved'
    BY <1>3, <1>4, <1>5, CountedSets, QueueBounds
    DEF WorkIsConserved, PopBatch, TypeOK, saveVars
<1>7. AcceptedSavesAreOwed'
    BY <1>1 DEF AcceptedSavesAreOwed, PopBatch, TypeOK, Queued, saveVars
<1>8. /\ pending' \in [Key -> Item \cup {None}]
      /\ batch' \in [Processor -> SUBSET Key]
      /\ processing' \in Nat
      /\ taken' \in [Key -> Nat]
    BY <1>1, <1>3 DEF PopBatch, TypeOK
<1>9. QED
    BY <1>1, <1>2, <1>6, <1>7, <1>8

\* What finishing a batch does to the queue, whoever finishes it.
LEMMA DoneKeepsAccounting ==
    ASSUME QueueInv, NEW p \in Processor, BatchDone(p)
    PROVE  /\ AcceptedSavesAreOwed' /\ WorkIsConserved'
           /\ batch' \in [Processor -> SUBSET Key]
           /\ processing' \in Nat
           /\ stats' \in [enqueued: Nat, coalesced: Nat, processed: Nat]
<1> USE DEF QueueInv
<1>1. Cardinality(InFlight) = Cardinality(InFlight') + Cardinality(batch[p])
    BY DoneJobsLeaveFlight DEF BatchDone
<1>2. Cardinality(batch[p]) \in Nat /\ Cardinality(InFlight) \in Nat
    BY CountedSets
<1>3. Cardinality(InFlight') \in Nat
  <2>1. InFlight' \in SUBSET InFlight
    BY DEF BatchDone, InFlight, TypeOK
  <2>2. QED
    BY <2>1, CountedSets, FS_Subset, FS_CardinalityType
<1>4. Queued' = Queued
    BY DEF BatchDone, Queued
<1>5. /\ processing' = Cardinality(InFlight') /\ processing' \in Nat
      /\ stats' \in [enqueued: Nat, coalesced: Nat, processed: Nat]
    BY <1>1, <1>2, <1>3 DEF BatchDone, WorkIsConserved, TypeOK
<1>6. WorkIsConserved'
    BY <1>1, <1>2, <1>3, <1>4, <1>5, CountedSets
    DEF BatchDone, WorkIsConserved, TypeOK
<1>7. AcceptedSavesAreOwed'
    BY DEF BatchDone, AcceptedSavesAreOwed, saveVars
<1>8. batch' \in [Processor -> SUBSET Key]
    BY DEF BatchDone, TypeOK
<1>9. QED
    BY <1>5, <1>6, <1>7, <1>8

\* A thread's own steps.
LEMMA ThreadKeepsInv ==
    ASSUME QueueInv, NEW t \in Thread, ThreadStep(t)
    PROVE  QueueInv'
<1> USE DEF QueueInv
<1>1. t \in Processor
    BY DEF Processor
<1>2. CASE RunPop(t)
  <2>1. PICK S \in SUBSET Queued : PopBatch(t, S, FALSE)
    BY <1>2 DEF RunPop
  <2>2. batch[t] = {}
    BY <1>1, <1>2 DEF OneWorker, Alive, RunPop
  <2>3. /\ AcceptedSavesAreOwed' /\ WorkIsConserved'
        /\ S # {}
        /\ pending' \in [Key -> Item \cup {None}]
        /\ batch' \in [Processor -> SUBSET Key]
        /\ processing' \in Nat
        /\ taken' \in [Key -> Nat]
    BY <1>1, <2>1, <2>2, PopKeepsAccounting
  <2>4. /\ worker' = [worker EXCEPT ![t] = "busy"]
        /\ batch' = [batch EXCEPT ![t] = S]
        /\ UNCHANGED saveVars /\ UNCHANGED stats
    BY <1>2, <2>1 DEF RunPop, PopBatch
  <2>5. TypeOK'
    BY <2>3, <2>4 DEF TypeOK, saveVars
  <2>6. OneWorker'
    BY <1>1, <1>2, <2>3, <2>4 DEF OneWorker, Alive, TypeOK, saveVars, RunPop, Processor
  <2>7. QED
    BY <2>3, <2>5, <2>6
<1>3. CASE RunDone(t)
  <2>1. BatchDone(t) /\ worker' = [worker EXCEPT ![t] = "idle"]
    BY <1>3 DEF RunDone
  <2>2. /\ AcceptedSavesAreOwed' /\ WorkIsConserved'
        /\ batch' \in [Processor -> SUBSET Key]
        /\ processing' \in Nat
        /\ stats' \in [enqueued: Nat, coalesced: Nat, processed: Nat]
    BY <1>1, <2>1, DoneKeepsAccounting
  <2>3. TypeOK'
    BY <2>1, <2>2 DEF TypeOK, BatchDone, saveVars
  <2>4. OneWorker'
    BY <1>1, <1>3, <2>1
    DEF OneWorker, Alive, TypeOK, BatchDone, saveVars, RunDone, Processor
  <2>5. QED
    BY <2>2, <2>3, <2>4
<1>4. CASE RunRaises(t)
  <2>1. TypeOK' /\ OneWorker'
    BY <1>4 DEF TypeOK, OneWorker, Alive, RunRaises
  <2>2. AcceptedSavesAreOwed' /\ WorkIsConserved'
    BY <1>4 DEF AcceptedSavesAreOwed, WorkIsConserved, RunRaises, Queued, InFlight
  <2>3. QED
    BY <2>1, <2>2
<1>5. CASE RunExit(t)
  <2>1. TypeOK' /\ OneWorker'
    BY <1>5 DEF TypeOK, OneWorker, Alive, RunExit
  <2>2. AcceptedSavesAreOwed' /\ WorkIsConserved'
    BY <1>5 DEF AcceptedSavesAreOwed, WorkIsConserved, RunExit, Queued, InFlight
  <2>3. QED
    BY <2>1, <2>2
<1>6. CASE StartThread(t)
  <2>1. TypeOK'
    BY <1>6 DEF TypeOK, StartThread
  <2>2. AcceptedSavesAreOwed' /\ WorkIsConserved'
    BY <1>6
    DEF AcceptedSavesAreOwed, WorkIsConserved, StartThread, Queued, InFlight
  <2>3. OneWorker'
    BY <1>6, QueueNames DEF OneWorker, StartThread, TypeOK, Alive
  <2>4. QED
    BY <2>1, <2>2, <2>3
<1>7. QED
    BY <1>2, <1>3, <1>4, <1>5, <1>6 DEF ThreadStep

\* process_ready_once.
LEMMA SyncKeepsInv ==
    ASSUME QueueInv, NEW s \in SyncCaller, SyncStep(s)
    PROVE  QueueInv'
<1> USE DEF QueueInv
<1>1. s \in Processor /\ s \notin Thread
    BY QueueNames DEF Processor
<1>2. CASE SyncDone(s)
  <2>1. BatchDone(s) /\ UNCHANGED worker
    BY <1>2 DEF SyncDone
  <2>2. /\ AcceptedSavesAreOwed' /\ WorkIsConserved'
        /\ batch' \in [Processor -> SUBSET Key]
        /\ processing' \in Nat
        /\ stats' \in [enqueued: Nat, coalesced: Nat, processed: Nat]
    BY <1>1, <2>1, DoneKeepsAccounting
  <2>3. TypeOK'
    BY <2>1, <2>2 DEF TypeOK, BatchDone, saveVars
  <2>4. OneWorker'
    BY <1>1, <2>1
    DEF OneWorker, Alive, TypeOK, BatchDone, saveVars, Processor
  <2>5. QED
    BY <2>2, <2>3, <2>4
<1>3. ASSUME NEW force \in BOOLEAN, SyncPop(s, force)
      PROVE  QueueInv'
  <2>1. PICK S \in SUBSET Queued : PopBatch(s, S, force)
    BY <1>3 DEF SyncPop
  <2>2. batch[s] = {} /\ UNCHANGED worker
    BY <1>3 DEF SyncPop
  <2>3. /\ AcceptedSavesAreOwed' /\ WorkIsConserved'
        /\ pending' \in [Key -> Item \cup {None}]
        /\ batch' \in [Processor -> SUBSET Key]
        /\ processing' \in Nat
        /\ taken' \in [Key -> Nat]
    BY <1>1, <2>1, <2>2, PopKeepsAccounting
  <2>4. /\ batch' = [batch EXCEPT ![s] = S]
        /\ UNCHANGED saveVars /\ UNCHANGED stats
    BY <2>1 DEF PopBatch
  <2>5. TypeOK'
    BY <2>2, <2>3, <2>4 DEF TypeOK, saveVars
  <2>6. OneWorker'
    BY <1>1, <2>2, <2>4 DEF OneWorker, Alive, TypeOK, saveVars, Processor
  <2>7. QED
    BY <2>3, <2>5, <2>6
<1>4. QED
    BY <1>2, <1>3 DEF SyncStep

\* Every step keeps the invariant.
LEMMA NextKeepsInv == QueueInv /\ [Next]_vars => QueueInv'
<1> SUFFICES ASSUME QueueInv, [Next]_vars
             PROVE  QueueInv'
    OBVIOUS
<1> USE DEF QueueInv
<1>1. CASE Tick
    BY <1>1, QueueBounds
    DEF Tick, TypeOK, AcceptedSavesAreOwed, WorkIsConserved, OneWorker, Alive,
        Queued, InFlight
<1>2. ASSUME NEW c \in Caller, CallerStep(c)
      PROVE  QueueInv'
  <2>1. ASSUME NEW k \in Key, NEW p \in Payload, ReadClock(c, k, p)
        PROVE  QueueInv'
    <3>1. TypeOK'
        BY <2>1 DEF ReadClock, TypeOK, Call
    <3>2. AcceptedSavesAreOwed' /\ WorkIsConserved' /\ OneWorker'
        BY <2>1
        DEF ReadClock, AcceptedSavesAreOwed, WorkIsConserved, OneWorker, Alive,
            Queued, InFlight
    <3>3. QED
        BY <3>1, <3>2
  <2>2. QED
    BY <1>2, <2>1, EnqueueKeepsInv DEF CallerStep
<1>3. ASSUME NEW t \in Thread, ThreadStep(t)
      PROVE  QueueInv'
    BY <1>3, ThreadKeepsInv
<1>4. ASSUME NEW s \in SyncCaller, SyncStep(s)
      PROVE  QueueInv'
    BY <1>4, SyncKeepsInv
<1>5. CASE StartIgnored
  <2>1. TypeOK'
    BY <1>5 DEF StartIgnored, TypeOK
  <2>2. AcceptedSavesAreOwed' /\ WorkIsConserved' /\ OneWorker'
    BY <1>5
    DEF StartIgnored, AcceptedSavesAreOwed, WorkIsConserved, OneWorker, Alive,
        Queued, InFlight
  <2>3. QED
    BY <2>1, <2>2
<1>6. CASE Close
    BY <1>6
    DEF Close, TypeOK, AcceptedSavesAreOwed, WorkIsConserved, OneWorker, Alive,
        Queued, InFlight
<1>7. CASE UNCHANGED vars
    BY <1>7
    DEF vars, TypeOK, AcceptedSavesAreOwed, WorkIsConserved, OneWorker, Alive,
        Queued, InFlight
<1>8. QED
    BY <1>1, <1>2, <1>3, <1>4, <1>5, <1>6, <1>7 DEF Next

-----------------------------------------------------------------------------
(* The theorems *)

\* Types, accounting and the single worker hold in every reachable state.
LEMMA QueueInvHolds == Spec => []QueueInv
<1>1. Init => QueueInv
    BY InitQueueInv
<1>2. QueueInv /\ [Next]_vars => QueueInv'
    BY NextKeepsInv
<1>3. QED
    BY <1>1, <1>2, PTL DEF Spec

\* Every variable of the queue keeps its type; in particular _processing
\* never goes below zero (_pop_ready_batch_locked, _process_batch).
THEOREM QueueTypes == Spec => []TypeOK
    BY QueueInvHolds, PTL DEF QueueInv

\* No accepted save is lost or served twice (_enqueue against
\* _pop_ready_batch_locked), for any number of handlers, keys and threads.
THEOREM QueueOwesAcceptedSaves == Spec => []AcceptedSavesAreOwed
    BY QueueInvHolds, PTL DEF QueueInv

\* The counters of snapshot() agree with the jobs pending and in progress,
\* and max_pending is never exceeded.
THEOREM QueueConservesWork == Spec => []WorkIsConserved
    BY QueueInvHolds, PTL DEF QueueInv

\* start() and close() in any order, with joins that time out, never leave
\* two worker threads alive.
THEOREM QueueHasOneWorker == Spec => []OneWorker
    BY QueueInvHolds, PTL DEF QueueInv

\* After a start() that created a thread, or found one on an open queue, the
\* queue is served until the next close().
THEOREM StartRevivesQueue == Spec => []StartedQueueIsServed
<1>1. Init => StartedQueueIsServed
    BY DEF Init, StartedQueueIsServed
<1>2. QueueInv /\ StartedQueueIsServed /\ [Next]_vars => StartedQueueIsServed'
  <2> SUFFICES ASSUME QueueInv, StartedQueueIsServed, [Next]_vars
               PROVE  StartedQueueIsServed'
    OBVIOUS
  <2> USE DEF StartedQueueIsServed, Alive
  <2>1. CASE Tick
    BY <2>1 DEF Tick
  <2>2. ASSUME NEW c \in Caller, CallerStep(c)
        PROVE  StartedQueueIsServed'
    BY <2>2 DEF CallerStep, ReadClock, Coalesce, Reject, Insert, runVars
  <2>3. ASSUME NEW t \in Thread, ThreadStep(t)
        PROVE  StartedQueueIsServed'
    <3>1. CASE RunPop(t)
      BY <3>1 DEF RunPop, PopBatch, saveVars, QueueInv, TypeOK
    <3>2. CASE RunDone(t)
      BY <3>2 DEF RunDone, BatchDone, saveVars, QueueInv, TypeOK
    <3>3. CASE RunExit(t) \/ RunRaises(t)
      BY <3>3 DEF RunExit, RunRaises, QueueInv, TypeOK
    <3>4. CASE StartThread(t)
      BY <3>4, QueueNames DEF StartThread, QueueInv, TypeOK
    <3>5. QED
      BY <2>3, <3>1, <3>2, <3>3, <3>4 DEF ThreadStep
  <2>4. ASSUME NEW s \in SyncCaller, SyncStep(s)
        PROVE  StartedQueueIsServed'
    BY <2>4 DEF SyncStep, SyncPop, SyncDone, PopBatch, BatchDone, saveVars
  <2>5. CASE StartIgnored
    BY <2>5 DEF StartIgnored
  <2>6. CASE Close
    BY <2>6 DEF Close
  <2>7. CASE UNCHANGED vars
    BY <2>7 DEF vars
  <2>8. QED
    BY <2>1, <2>2, <2>3, <2>4, <2>5, <2>6, <2>7 DEF Next
<1>3. QED
    BY <1>1, <1>2, QueueInvHolds, PTL DEF Spec

-----------------------------------------------------------------------------
(* The queue implements SaveService *)

\* The instance counts as the queue does.
LEMMA SameCardinality == \A S : Service!Cardinality(S) = Cardinality(S)
    BY DEF Service!Cardinality, Cardinality

\* A popped batch is a batch SaveService may take.
LEMMA PopIsTake ==
    ASSUME QueueInv, NEW p \in Processor, NEW S \in SUBSET Queued,
           NEW force \in BOOLEAN, batch[p] = {}, PopBatch(p, S, force)
    PROVE  Service!Take(p, S)
<1>1. S # {} /\ Queued' = Queued \ S
    BY PopKeepsAccounting
<1>2. batch' = [batch EXCEPT ![p] = S]
    BY DEF PopBatch
<1>3. Ready(force) \subseteq Key
    BY DEF Ready, Queued
<1>4. \/ S \subseteq FileKey /\ Cardinality(S) <= BatchSize
      \/ \E k \in ProjectKey : S = {k}
  <2>1. CASE ProjectBatch(S, Ready(force))
    BY <2>1 DEF ProjectBatch
  <2>2. CASE FileBatch(S, Ready(force))
    <3>1. S \subseteq FileKey
      BY <1>3, <2>2 DEF FileBatch, Key
    <3>2. Cardinality(S) <= BatchSize
      BY <2>2, QueueBounds DEF FileBatch
    <3>3. QED
      BY <3>1, <3>2
  <2>3. QED
    BY <2>1, <2>2 DEF PopBatch
<1>5. QED
    BY <1>1, <1>2, <1>4, SameCardinality DEF Service!Take

\* Coalescing is invisible to SaveService; an insertion is an accepted save.
LEMMA EnqueueIsAccept ==
    ASSUME QueueInv, NEW c \in Caller, CallerStep(c)
    PROVE  \/ UNCHANGED <<Queued, batch>>
           \/ \E k \in Key : Service!Accept(k)
<1> USE DEF QueueInv
<1>1. ASSUME NEW k \in Key, NEW p \in Payload, ReadClock(c, k, p)
      PROVE  UNCHANGED <<Queued, batch>>
    BY <1>1 DEF ReadClock, Queued
<1>2. CASE Coalesce(c)
  <2> DEFINE k == call[c].key
             it == [payload |-> call[c].payload, stamp |-> call[c].stamp,
                    generation |-> pending[k].generation + 1]
  <2>1. call[c] \in Call /\ k \in Key
    BY <1>2 DEF Coalesce, TypeOK, Call
  <2>2. /\ pending[k] \in Item /\ pending' = [pending EXCEPT ![k] = it]
        /\ UNCHANGED batch
    BY <1>2, <2>1 DEF Coalesce, TypeOK, runVars
  <2>3. it \in Item
    BY <2>1, <2>2 DEF Item, Call
  <2>4. Queued' = Queued
    BY <2>1, <2>2, <2>3, NoneIsNeither DEF Queued, TypeOK
  <2>5. QED
    BY <2>2, <2>4
<1>3. CASE Reject(c)
    BY <1>3 DEF Reject, Queued, runVars
<1>4. CASE Insert(c)
  <2> DEFINE k == call[c].key
             it == [payload |-> call[c].payload, stamp |-> call[c].stamp,
                    generation |-> 1]
  <2>1. call[c] \in Call /\ k \in Key
    BY <1>4 DEF Insert, TypeOK, Call
  <2>2. /\ pending' = [pending EXCEPT ![k] = it]
        /\ Cardinality(Queued) < MaxPending /\ UNCHANGED batch
    BY <1>4, <2>1 DEF Insert, runVars
  <2>3. it \in Item
    BY <2>1 DEF Item, Call
  <2>4. Queued' = Queued \cup {k}
    BY <2>1, <2>2, <2>3, NoneIsNeither DEF Queued, TypeOK
  <2>5. Service!Accept(k)
    BY <2>2, <2>4, SameCardinality DEF Service!Accept
  <2>6. QED
    BY <2>1, <2>5
<1>5. QED
    BY <1>1, <1>2, <1>3, <1>4 DEF CallerStep

\* Every step of the queue is a step of SaveService or a stutter.
LEMMA StepIsServiceStep ==
    QueueInv /\ [Next]_vars => [Service!Next]_(Service!svars)
<1> SUFFICES ASSUME QueueInv, [Next]_vars
             PROVE  Service!Next \/ UNCHANGED <<Queued, batch>>
    BY DEF Service!svars
<1> USE DEF QueueInv
<1>1. CASE Tick
    BY <1>1 DEF Tick, Queued
<1>2. ASSUME NEW c \in Caller, CallerStep(c)
      PROVE  Service!Next \/ UNCHANGED <<Queued, batch>>
    BY <1>2, EnqueueIsAccept DEF Service!Next, Service!Key, Key
<1>3. ASSUME NEW t \in Thread, ThreadStep(t)
      PROVE  Service!Next \/ UNCHANGED <<Queued, batch>>
  <2>1. t \in Processor
    BY DEF Processor
  <2>2. CASE RunPop(t)
    <3>1. batch[t] = {}
      BY <2>1, <2>2 DEF RunPop, OneWorker
    <3>2. PICK S \in SUBSET Queued : PopBatch(t, S, FALSE)
      BY <2>2 DEF RunPop
    <3>3. Service!Take(t, S)
      BY <2>1, <3>1, <3>2, PopIsTake
    <3>4. QED
      BY <2>1, <3>3 DEF Service!Next
  <2>3. CASE RunDone(t)
    <3>1. Queued' = Queued
      BY <2>3 DEF RunDone, BatchDone, Queued
    <3>2. Service!Finish(t)
      BY <2>3, <3>1 DEF RunDone, BatchDone, Service!Finish
    <3>3. QED
      BY <2>1, <3>2 DEF Service!Next
  <2>4. CASE RunRaises(t) \/ RunExit(t) \/ StartThread(t)
    BY <2>4 DEF RunRaises, RunExit, StartThread, Queued
  <2>5. QED
    BY <1>3, <2>2, <2>3, <2>4 DEF ThreadStep
<1>4. ASSUME NEW s \in SyncCaller, SyncStep(s)
      PROVE  Service!Next \/ UNCHANGED <<Queued, batch>>
  <2>1. s \in Processor
    BY DEF Processor
  <2>2. ASSUME NEW force \in BOOLEAN, SyncPop(s, force)
        PROVE  Service!Next
    <3>1. PICK S \in SUBSET Queued : PopBatch(s, S, force)
      BY <2>2 DEF SyncPop
    <3>2. Service!Take(s, S)
      BY <2>1, <2>2, <3>1, PopIsTake DEF SyncPop
    <3>3. QED
      BY <2>1, <3>2 DEF Service!Next
  <2>3. CASE SyncDone(s)
    <3>1. Queued' = Queued
      BY <2>3 DEF SyncDone, BatchDone, Queued
    <3>2. Service!Finish(s)
      BY <2>3, <3>1 DEF SyncDone, BatchDone, Service!Finish
    <3>3. QED
      BY <2>1, <3>2 DEF Service!Next
  <2>4. QED
    BY <1>4, <2>2, <2>3 DEF SyncStep
<1>5. CASE StartIgnored \/ Close
    BY <1>5 DEF StartIgnored, Close, Queued
<1>6. CASE UNCHANGED vars
    BY <1>6 DEF vars, Queued
<1>7. QED
    BY <1>1, <1>2, <1>3, <1>4, <1>5, <1>6 DEF Next

\* The threads, clocks and counters of IndexBatchQueue implement the promise
\* of SaveService: what is taken is owed, bounded, and project jobs run alone.
THEOREM QueueImplementsService == Spec => KeepsServicePromise
<1>1. Init => Service!Init
    BY DEF Init, Service!Init, Queued
<1>2. QueueInv /\ [Next]_vars => [Service!Next]_(Service!svars)
    BY StepIsServiceStep
<1>3. QED
    BY <1>1, <1>2, QueueInvHolds, PTL DEF Spec, KeepsServicePromise, Service!Spec

=============================================================================
