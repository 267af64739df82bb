------------------------- MODULE FileIndexingProofs -------------------------
(***************************************************************************)
(* Theorems about JobLog and about FileIndexing, which extends it, for any *)
(* number of files, runners, rows, attempts, symbols and versions, with    *)
(* every failure and restart of the model.  Those about the job log hold   *)
(* with runners of one file at once; those about the stores when the runs  *)
(* of one file exclude each other, without which two deltas are mixed.     *)
(* IndexingStoresAgree holds until the first failure, as its property says.*)
(***************************************************************************)
EXTENDS FileIndexing, FiniteSetTheorems, TLAPS

-----------------------------------------------------------------------------
(* The job log by itself: what its steps keep *)

\* What runner r knows of the table, unless it was overtaken or its row
\* clobbered: while it starts, the row it selected is still failed, with the
\* attempts it saw; once it tracks a row, that row is running, and while it
\* fails, with the attempts it read.
Knows(r) ==
    r \notin overtaken /\ runner[r].row \notin clobbered =>
        LET a == runner[r] IN
          /\ a.at = "starting" /\ a.row # 0 =>
                jobs[a.row].status = "failed" /\ jobs[a.row].attempts = a.seen
          /\ a.at \in {"tracked", "failing"} => jobs[a.row].status = "running"
          /\ a.at = "failing" => jobs[a.row].attempts = a.seen

\* RetryBudget alone is not inductive: MarkFailed writes a verdict decided
\* from attempts read earlier, and Retry writes attempts read earlier.
JobInv == JobTypeOK /\ RetryBudget /\ \A r \in Runner : Knows(r)

\* Initially there are no rows and nobody runs.
LEMMA JobInvInit == JobInit => JobInv
<1> SUFFICES ASSUME JobInit PROVE JobInv
    OBVIOUS
<1>1. JobTypeOK
    BY JobLogConstants DEF JobInit, JobTypeOK, Activity, Idle, Rows
<1>2. RetryBudget
    BY DEF JobInit, RetryBudget, Rows
<1>3. \A r \in Runner : Knows(r)
    BY DEF JobInit, Knows, Idle
<1> QED BY <1>1, <1>2, <1>3 DEF JobInv

-----------------------------------------------------------------------------
(* Updating the table and the runners *)

\* Rows are jobs, numbered from one.
LEMMA RowIsJob ==
    ASSUME JobTypeOK, NEW i \in Rows
    PROVE  i \in Nat \ {0} /\ jobs[i] \in Job
BY DEF JobTypeOK, Rows

\* Writing one row leaves the others and the table's size alone.
LEMMA RowWritten ==
    ASSUME JobTypeOK, NEW i \in Rows, NEW job \in Job,
           jobs' = [jobs EXCEPT ![i] = job]
    PROVE  /\ jobs' \in Seq(Job) /\ Rows' = Rows /\ jobs'[i] = job
           /\ \A j \in Rows : j # i => jobs'[j] = jobs[j]
BY DEF JobTypeOK, Rows

\* A runner that writes row i overtakes the others that hold it, and leaves
\* what the rest know alone.
LEMMA OthersOvertaken ==
    ASSUME JobTypeOK, NEW r \in Runner, NEW i \in Rows, Writes(r, i),
           NEW q \in Runner, q # r, Knows(q), runner'[q] = runner[q],
           \A j \in Rows : j # i => jobs'[j] = jobs[j]
    PROVE  Knows(q)'
<1>1. CASE runner[q].row = i
    BY <1>1 DEF Writes, Knows
<1>2. CASE runner[q].row # i
    <2>1. /\ q \notin overtaken' => q \notin overtaken
          /\ clobbered \subseteq clobbered'
        BY DEF Writes
    <2>2. runner[q].row # 0 => jobs'[runner[q].row] = jobs[runner[q].row]
        BY <1>2 DEF JobTypeOK
    <2>3. runner[q].at \in {"tracked", "failing"} => runner[q].row # 0
        BY DEF JobTypeOK
    <2> QED BY <2>1, <2>2, <2>3 DEF Knows
<1> QED BY <1>1, <1>2

\* What is written keeps the histories typed.
LEMMA WritesTyped ==
    ASSUME JobTypeOK, NEW r \in Runner, NEW i \in Rows, Writes(r, i),
           Rows' = Rows
    PROVE  overtaken' \subseteq Runner /\ clobbered' \subseteq Rows'
BY DEF JobTypeOK, Writes

-----------------------------------------------------------------------------
(* One lemma per action *)

\* The SELECT of a failed job of the same target.
LEMMA SelectFailedKeeps ==
    ASSUME JobInv, NEW r \in Runner, NEW p \in Path, SelectFailed(r, p)
    PROVE  JobInv'
<1> USE DEF JobInv
<1>1. /\ runner[r].at = "idle"
      /\ jobs' = jobs /\ second' = second
      /\ overtaken' = overtaken /\ clobbered' = clobbered
    BY DEF SelectFailed, historyVars
<1>2. PICK i \in Nat, n \in Nat :
         /\ runner' = [runner EXCEPT
               ![r] = [at |-> "starting", path |-> p, row |-> i, seen |-> n,
                       now |-> second]]
         /\ i # 0 => i \in FailedRows(p) /\ jobs[i].attempts = n
    <2>1. CASE runner' = [runner EXCEPT
               ![r] = [at |-> "starting", path |-> p, row |-> 0, seen |-> 0,
                       now |-> second]]
        BY <2>1
    <2>2. ASSUME NEW i \in FailedRows(p), runner' = [runner EXCEPT
               ![r] = [at |-> "starting", path |-> p, row |-> i,
                       seen |-> jobs[i].attempts, now |-> second]]
          PROVE  \E k \in Nat, n \in Nat :
                   /\ runner' = [runner EXCEPT
                         ![r] = [at |-> "starting", path |-> p, row |-> k,
                                 seen |-> n, now |-> second]]
                   /\ k # 0 => k \in FailedRows(p) /\ jobs[k].attempts = n
        <3>1. i \in Nat /\ i # 0 /\ jobs[i].attempts \in Nat
            BY RowIsJob DEF FailedRows, Job
        <3> QED BY <2>2, <3>1
    <2> QED BY <2>1, <2>2 DEF SelectFailed
<1>3. JobTypeOK'
    BY <1>1, <1>2 DEF JobTypeOK, Activity, FailedRows, Rows
<1>4. RetryBudget'
    BY <1>1 DEF RetryBudget, Rows
<1>5. ASSUME NEW q \in Runner PROVE Knows(q)'
    BY <1>1, <1>2, Knows(q) DEF Knows, FailedRows, Rows, JobTypeOK
<1> QED BY <1>3, <1>4, <1>5

\* The UPDATE that takes a failed job up again.
LEMMA RetryKeeps ==
    ASSUME JobInv, NEW r \in Runner, Retry(r)
    PROVE  JobInv'
<1> USE DEF JobInv
<1> DEFINE i == runner[r].row
<1>1. /\ runner[r].at = "starting" /\ i # 0 /\ i \in Rows
      /\ runner[r].seen \in Nat /\ runner[r].now \in Nat
      /\ runner[r] \in Activity
    BY DEF Retry, JobTypeOK, Activity
<1>2. /\ Rows' = Rows
      /\ jobs' \in Seq(Job)
      /\ jobs'[i].status = "running"
      /\ jobs'[i].attempts = runner[r].seen + 1
      /\ \A j \in Rows : j # i => jobs'[j] = jobs[j]
    <2> DEFINE job == [jobs[i] EXCEPT !.status = "running",
              !.attempts = runner[r].seen + 1, !.updated_at = runner[r].now]
    <2>1. /\ job \in Job
          /\ job.status = "running" /\ job.attempts = runner[r].seen + 1
        <3>1. /\ jobs[i] \in Job /\ runner[r].now \in Nat
              /\ runner[r].seen + 1 \in Nat /\ "running" \in Status
            BY <1>1, RowIsJob DEF Status
        <3> QED BY <3>1 DEF Job
    <2>2. jobs' = [jobs EXCEPT ![i] = job]
        BY DEF Retry
    <2> HIDE DEF job
    <2> QED BY <1>1, <2>1, <2>2, RowWritten
<1>3. /\ runner' = [runner EXCEPT ![r] =
                       [runner[r] EXCEPT !.at = "tracked", !.now = 0]]
      /\ second' = second /\ Writes(r, i)
    BY DEF Retry, JobTypeOK
<1>4. /\ runner' \in [Runner -> Activity]
      /\ runner'[r].at = "tracked" /\ runner'[r].row = i
      /\ runner'[r].path = runner[r].path
      /\ \A q \in Runner : q # r => runner'[q] = runner[q]
    <2> DEFINE act == [runner[r] EXCEPT !.at = "tracked", !.now = 0]
    <2>1. /\ act \in Activity /\ act.at = "tracked" /\ act.row = i
          /\ act.path = runner[r].path
        BY <1>1 DEF Activity
    <2>2. runner' = [runner EXCEPT ![r] = act]
        BY <1>3
    <2> HIDE DEF act, i
    <2> QED BY <2>1, <2>2 DEF JobTypeOK
<1>5. JobTypeOK'
    <2>1. overtaken' \subseteq Runner /\ clobbered' \subseteq Rows'
        BY <1>1, <1>2, <1>3, WritesTyped
    <2> HIDE DEF i
    <2> QED BY <1>1, <1>2, <1>3, <1>4, <2>1 DEF JobTypeOK
<1>6. RetryBudget'
    <2>1. i \notin clobbered' => jobs'[i].attempts \in 1 .. MaxAttempts
        <3>1. SUFFICES ASSUME i \notin clobbered'
                       PROVE  jobs'[i].attempts \in 1 .. MaxAttempts
            OBVIOUS
        <3>2. r \notin overtaken /\ i \notin clobbered
            BY <1>3, <3>1 DEF Writes
        <3>3. /\ jobs[i].status = "failed"
              /\ jobs[i].attempts = runner[r].seen
            BY <1>1, <3>2 DEF Knows
        <3>4. runner[r].seen < MaxAttempts
            BY <1>1, <3>2, <3>3 DEF RetryBudget
        <3> QED BY <1>1, <1>2, <3>4, JobLogConstants
    <2>2. clobbered \subseteq clobbered'
        BY <1>3 DEF Writes
    <2> HIDE DEF i
    <2> QED BY <1>2, <2>1, <2>2 DEF RetryBudget
<1>7. Knows(r)'
    BY <1>2, <1>4 DEF Knows
<1>8. ASSUME NEW q \in Runner, q # r PROVE Knows(q)'
    BY <1>1, <1>2, <1>3, <1>4, <1>8, OthersOvertaken
<1> QED BY <1>5, <1>6, <1>7, <1>8

\* The INSERT of a new job.
LEMMA InsertKeeps ==
    ASSUME JobInv, NEW r \in Runner, Insert(r)
    PROVE  JobInv'
<1> USE DEF JobInv
<1> DEFINE new == [target |-> runner[r].path, status |-> "running",
                   attempts |-> 1, updated_at |-> runner[r].now]
<1>1. /\ runner[r].at = "starting" /\ runner[r].row = 0
      /\ runner[r].path \in Path /\ runner[r].now \in Nat
    BY DEF Insert, JobTypeOK, Activity
<1>2. /\ jobs' = Append(jobs, new) /\ second' = second
      /\ runner' = [runner EXCEPT ![r] = [@ EXCEPT !.at = "tracked",
                                     !.now = 0, !.row = Len(jobs) + 1]]
      /\ overtaken' = overtaken /\ clobbered' = clobbered
    BY DEF Insert, historyVars
<1>3. /\ Len(jobs) \in Nat /\ Rows = 1 .. Len(jobs)
      /\ Rows' = 1 .. (Len(jobs) + 1)
      /\ \A j \in Rows : j \in Rows' /\ jobs'[j] = jobs[j]
      /\ jobs'[Len(jobs) + 1] = new
      /\ \A j \in Rows' : j \in Rows \/ j = Len(jobs) + 1
    BY <1>2 DEF JobTypeOK, Rows
<1>4. /\ runner' \in [Runner -> Activity]
      /\ runner'[r].at = "tracked" /\ runner'[r].row = Len(jobs) + 1
      /\ runner'[r].path = runner[r].path
      /\ \A q \in Runner : q # r => runner'[q] = runner[q]
    <2> DEFINE act == [runner[r] EXCEPT !.at = "tracked", !.now = 0,
                                        !.row = Len(jobs) + 1]
    <2>1. /\ act \in Activity /\ act.at = "tracked"
          /\ act.row = Len(jobs) + 1 /\ act.path = runner[r].path
        <3>1. runner[r] \in Activity /\ Len(jobs) + 1 \in Nat
            BY <1>3 DEF JobTypeOK
        <3> QED BY <3>1 DEF Activity
    <2>2. runner' = [runner EXCEPT ![r] = act]
        BY <1>2
    <2> HIDE DEF act
    <2> QED BY <2>1, <2>2 DEF JobTypeOK
<1>5. JobTypeOK'
    <2>1. jobs' \in Seq(Job)
        BY <1>1, <1>2 DEF JobTypeOK, Job, Status
    <2>2. \A q \in Runner : runner[q].row # 0 => runner[q].row \in Rows'
        BY <1>3 DEF JobTypeOK
    <2>3. Len(jobs) + 1 # 0 /\ Len(jobs) + 1 \in Rows'
        BY <1>3
    <2>4. clobbered' \subseteq Rows'
        BY <1>2, <1>3 DEF JobTypeOK
    <2> HIDE DEF new
    <2> QED BY <1>1, <1>2, <1>4, <2>1, <2>2, <2>3, <2>4 DEF JobTypeOK
<1>6. RetryBudget'
    BY <1>2, <1>3, JobLogConstants DEF RetryBudget
<1>7. Knows(r)'
    BY <1>3, <1>4 DEF Knows
<1>8. ASSUME NEW q \in Runner, q # r PROVE Knows(q)'
    BY <1>2, <1>3, <1>4, <1>8 DEF Knows, JobTypeOK
<1> QED BY <1>5, <1>6, <1>7, <1>8

\* The row a runner holds gets its verdict: completed, failed with an attempt
\* left, or dead-lettered at the last one.
LEMMA VerdictKeeps ==
    ASSUME JobInv, NEW r \in Runner, NEW verdict \in Status \ {"running"},
           runner[r].at \in {"tracked", "failing"},
           UpdateStatus(r, verdict),
           r \notin overtaken /\ runner[r].row \notin clobbered =>
              /\ verdict = "failed" =>
                    jobs[runner[r].row].attempts < MaxAttempts
              /\ verdict = "dead_letter" =>
                    jobs[runner[r].row].attempts = MaxAttempts
    PROVE  JobInv'
<1> USE DEF JobInv
<1> DEFINE i == runner[r].row
<1>1. i \in Rows
    BY DEF JobTypeOK
<1>2. /\ Rows' = Rows
      /\ jobs' \in Seq(Job)
      /\ jobs'[i].status = verdict /\ jobs'[i].attempts = jobs[i].attempts
      /\ \A j \in Rows : j # i => jobs'[j] = jobs[j]
      /\ runner' = [runner EXCEPT ![r] = Idle] /\ second' = second
      /\ Writes(r, i)
    <2> DEFINE job == [jobs[i] EXCEPT !.status = verdict,
                                      !.updated_at = second]
    <2>1. /\ job \in Job
          /\ job.status = verdict /\ job.attempts = jobs[i].attempts
        BY <1>1, RowIsJob DEF Job, JobTypeOK
    <2>2. jobs' = [jobs EXCEPT ![i] = job]
        BY DEF UpdateStatus
    <2>3. /\ runner' = [runner EXCEPT ![r] = Idle] /\ second' = second
          /\ Writes(r, i)
        BY DEF UpdateStatus
    <2> HIDE DEF job
    <2> QED BY <1>1, <2>1, <2>2, <2>3, RowWritten
<1>3. JobTypeOK'
    <2>1. runner' \in [Runner -> Activity]
        BY <1>2 DEF JobTypeOK, Activity, Idle
    <2>2. overtaken' \subseteq Runner /\ clobbered' \subseteq Rows'
        BY <1>1, <1>2, WritesTyped
    <2> QED BY <1>1, <1>2, <2>1, <2>2 DEF JobTypeOK, Activity, Idle
<1>4. RetryBudget'
    <2>1. i \notin clobbered' => r \notin overtaken /\ i \notin clobbered
        BY <1>2 DEF Writes
    <2>2. clobbered \subseteq clobbered'
        BY <1>2 DEF Writes
    <2> QED BY <1>1, <1>2, <2>1, <2>2 DEF RetryBudget
<1>5. Knows(r)'
    BY <1>2 DEF Knows, JobTypeOK, Idle
<1>6. ASSUME NEW q \in Runner, q # r PROVE Knows(q)'
    <2>1. runner'[q] = runner[q]
        BY <1>2, <1>6 DEF JobTypeOK
    <2> QED BY <1>1, <1>2, <1>6, <2>1, OthersOvertaken
<1> QED BY <1>3, <1>4, <1>5, <1>6

\* fail_job reads the attempts of its row.
LEMMA ReadFailedKeeps ==
    ASSUME JobInv, NEW r \in Runner, ReadFailed(r)
    PROVE  JobInv'
<1> USE DEF JobInv
<1>1. /\ runner[r].at = "tracked" /\ runner[r].row \in Rows
      /\ jobs[runner[r].row].attempts \in Nat
      /\ jobs' = jobs /\ second' = second
      /\ overtaken' = overtaken /\ clobbered' = clobbered
      /\ runner' = [runner EXCEPT ![r] =
             [@ EXCEPT !.at = "failing",
                       !.seen = jobs[runner[r].row].attempts]]
    <2>1. runner[r].at = "tracked" /\ runner[r].row \in Rows
        BY DEF ReadFailed, JobTypeOK
    <2>2. jobs[runner[r].row].attempts \in Nat
        BY <2>1, RowIsJob DEF Job
    <2> QED BY <2>1, <2>2 DEF ReadFailed, historyVars
<1>2. JobTypeOK'
    BY <1>1 DEF JobTypeOK, Activity, Rows
<1>3. RetryBudget'
    BY <1>1 DEF RetryBudget, Rows
<1>4. ASSUME NEW q \in Runner PROVE Knows(q)'
    BY <1>1, Knows(q) DEF Knows, Rows, JobTypeOK, Activity
<1> QED BY <1>2, <1>3, <1>4

\* A runner leaves its job as it is recorded.
LEMMA AbandonKeeps ==
    ASSUME JobInv, NEW r \in Runner, Abandon(r)
    PROVE  JobInv'
<1> USE DEF JobInv
<1>1. /\ jobs' = jobs /\ second' = second
      /\ runner' = [runner EXCEPT ![r] = Idle]
      /\ overtaken' = overtaken \ {r} /\ clobbered' = clobbered
    BY DEF Abandon
<1>2. JobTypeOK'
    BY <1>1 DEF JobTypeOK, Activity, Idle, Rows
<1>3. RetryBudget'
    BY <1>1 DEF RetryBudget, Rows
<1>4. ASSUME NEW q \in Runner PROVE Knows(q)'
    BY <1>1, Knows(q) DEF Knows, Rows, JobTypeOK, Idle
<1> QED BY <1>2, <1>3, <1>4

\* Every step of the job log keeps its invariant.
LEMMA JobInvNext ==
    ASSUME JobInv, [JobNext]_jobVars
    PROVE  JobInv'
<1>1. ASSUME NEW r \in Runner, MarkCompleted(r) PROVE JobInv'
    BY <1>1, VerdictKeeps DEF MarkCompleted, Status
<1>2. ASSUME NEW r \in Runner, MarkFailed(r) PROVE JobInv'
    <2>1. /\ runner[r].at = "failing" /\ runner[r].row \in Rows
          /\ runner[r].seen \in Nat
        BY <1>2 DEF MarkFailed, JobInv, JobTypeOK, Activity
    <2>2. r \notin overtaken /\ runner[r].row \notin clobbered =>
             /\ jobs[runner[r].row].attempts = runner[r].seen
             /\ runner[r].seen \in 1 .. MaxAttempts
        BY <2>1 DEF JobInv, Knows, RetryBudget
    <2>3. CASE runner[r].seen >= MaxAttempts
        <3>1. UpdateStatus(r, "dead_letter")
            BY <1>2, <2>3 DEF MarkFailed
        <3>2. r \notin overtaken /\ runner[r].row \notin clobbered =>
                 jobs[runner[r].row].attempts = MaxAttempts
            BY <2>2, <2>3, JobLogConstants
        <3> QED BY <2>1, <3>1, <3>2, VerdictKeeps DEF Status
    <2>4. CASE ~(runner[r].seen >= MaxAttempts)
        <3>1. UpdateStatus(r, "failed")
            BY <1>2, <2>4 DEF MarkFailed
        <3>2. r \notin overtaken /\ runner[r].row \notin clobbered =>
                 jobs[runner[r].row].attempts < MaxAttempts
            BY <2>2, <2>4, JobLogConstants
        <3> QED BY <2>1, <3>1, <3>2, VerdictKeeps DEF Status
    <2> QED BY <2>3, <2>4
<1>3. CASE SecondPasses \/ UNCHANGED jobVars
    <2>1. /\ jobs' = jobs /\ runner' = runner /\ second' \in Nat
          /\ overtaken' = overtaken /\ clobbered' = clobbered
        BY <1>3 DEF SecondPasses, jobVars, historyVars, JobInv, JobTypeOK
    <2> QED BY <2>1 DEF JobInv, JobTypeOK, RetryBudget, Knows, Rows
<1> QED
    BY <1>1, <1>2, <1>3, SelectFailedKeeps, RetryKeeps, InsertKeeps,
       ReadFailedKeeps, AbandonKeeps DEF JobNext, StartFileJob

\* Hence it always holds.
LEMMA JobInvAlways == JobSpec => []JobInv
<1>1. JobInv /\ [JobNext]_jobVars => JobInv'
    BY JobInvNext
<1> QED BY <1>1, JobInvInit, PTL DEF JobSpec

-----------------------------------------------------------------------------
(* The theorems *)

\* With any number of runners of one file at once, every variable of the log
\* keeps its type, and a runner inside the tracked block has a row.
THEOREM JobLogTypes == JobSpec => []JobTypeOK
<1>1. JobInv => JobTypeOK
    BY DEF JobInv
<1> QED BY <1>1, JobInvAlways, PTL

\* With any number of runners of one file at once, a row that no overtaken
\* runner wrote is tried at most max_attempts times and dead-lettered
\* exactly then: a race of two runners is the only way past the limit.
THEOREM JobLogKeepsBudget == JobSpec => []RetryBudget
<1>1. JobInv => RetryBudget
    BY DEF JobInv
<1> QED BY <1>1, JobInvAlways, PTL

\* With any number of runners of one file at once, a completed or
\* dead-lettered row is written again by an overtaken runner only.
THEOREM JobLogTerminalRowsStay == JobSpec => TerminalRowsStay
<1>1. ASSUME JobInv, [JobNext]_jobVars
      PROVE  [\A i \in Rows : jobs[i].status \in TERMINAL_STATUSES
                 => jobs'[i] = jobs[i] \/ i \in clobbered']_jobVars
    <2>1. SUFFICES ASSUME NEW i \in Rows, JobNext, i \notin clobbered',
                          jobs[i].status \in TERMINAL_STATUSES
                   PROVE  jobs'[i] = jobs[i]
        BY <1>1
    <2>2. jobs \in Seq(Job) /\ jobs[i].status \notin {"running", "failed"}
        BY <1>1, <2>1 DEF JobInv, JobTypeOK, TERMINAL_STATUSES
    <2>3. ASSUME NEW r \in Runner, Retry(r) PROVE jobs'[i] = jobs[i]
        <3>1. CASE i = runner[r].row
            BY <1>1, <2>1, <2>2, <2>3, <3>1
               DEF Retry, Writes, JobInv, Knows
        <3>2. CASE i # runner[r].row
            BY <2>2, <2>3, <3>2 DEF Retry, Rows
        <3> QED BY <3>1, <3>2
    <2>4. ASSUME NEW r \in Runner, Insert(r) PROVE jobs'[i] = jobs[i]
        BY <2>2, <2>4 DEF Insert, Rows
    <2>5. ASSUME NEW r \in Runner, MarkCompleted(r) \/ MarkFailed(r)
          PROVE  jobs'[i] = jobs[i]
        <3>1. i # runner[r].row
            BY <1>1, <2>1, <2>2, <2>5
               DEF MarkCompleted, MarkFailed, UpdateStatus, Writes, JobInv,
               Knows
        <3> QED BY <2>2, <2>5, <3>1
                DEF MarkCompleted, MarkFailed, UpdateStatus, Rows
    <2>6. ASSUME NEW r \in Runner,
                 \/ \E p \in Path : SelectFailed(r, p)
                 \/ ReadFailed(r) \/ Abandon(r)
          PROVE  jobs'[i] = jobs[i]
        BY <2>6 DEF SelectFailed, ReadFailed, Abandon
    <2>7. CASE SecondPasses
        BY <2>7 DEF SecondPasses
    <2> QED BY <2>1, <2>3, <2>4, <2>5, <2>6, <2>7 DEF JobNext, StartFileJob
<1> QED BY <1>1, JobInvAlways, PTL DEF JobSpec, TerminalRowsStay

-----------------------------------------------------------------------------
(* The indexer: its inductive invariant *)

\* Stages at which a run carries a delta to the stores, from its computation
\* to the last store that uses it.
Carrying == {"upsert", "prune", "clear", "link", "embed", "add"}

\* The delta of run r is good: with it the graph has all of the version read,
\* and once it is upserted the stored hash is that version's.
Carries(r) ==
    /\ work[r].at \in Carrying \cup {"delta"} => work[r].version \in Version
    /\ work[r].at \in Carrying => work[r].changed \subseteq New(r)
    /\ work[r].at = "upsert" =>
           New(r) \ work[r].changed \subseteq graph[Of(r)]
    /\ work[r].at \in Carrying \ {"upsert"} => file[Of(r)] = work[r].version

\* Two busy runners work on different paths.
Apart ==
    \A r, q \in Runner :
       r # q /\ runner[r].at # "idle" /\ runner[q].at # "idle"
       => runner[r].path # runner[q].path

\* The job log is in order and the runs of one file take turns.
Turns == JobInv /\ Apart

\* The hash a run stores is backed only because its delta was computed from
\* the graph it is applied to, hence Carries.
IndexInv == /\ Turns /\ TypeOK
            /\ StoredHashIsBacked
            /\ \A r \in Runner : Carries(r)

\* Nothing is indexed and no job is recorded.
LEMMA IndexInvInit == Init => IndexInv
<1> SUFFICES ASSUME Init PROVE IndexInv
    OBVIOUS
<1>1. JobInv
    BY JobInvInit DEF Init
<1>2. TypeOK
    <2>1. Rest \in Work
        BY DEF Rest, Work, Outside
    <2>2. JobTypeOK
        BY <1>1 DEF JobInv
    <2>3. \A r \in Runner : work[r].at \in Stage <=> runner[r].at # "idle"
        BY DEF Init, JobInit, Rest, Idle, Stage
    <2> QED BY <2>1, <2>2, <2>3 DEF Init, TypeOK
<1>3. StoredHashIsBacked
    BY DEF Init, StoredHashIsBacked
<1>4. \A r \in Runner : Carries(r)
    BY DEF Init, Rest, Carries, Carrying
<1>5. Apart
    BY DEF Init, JobInit, Idle, Apart
<1> QED BY <1>1, <1>2, <1>3, <1>4, <1>5 DEF IndexInv, Turns

-----------------------------------------------------------------------------
(* The job log inside the indexer *)

\* Every step is a step of the job log, leaves it alone, or restarts it.
LEMMA JobSteps ==
    ASSUME [Next]_vars
    PROVE  [JobNext]_jobVars \/ Restart
<1>1. CASE UNCHANGED vars
    BY <1>1 DEF vars, jobVars
<1>2. CASE Develop
    BY <1>2 DEF Develop, Edit, Commit, Type
<1>3. ASSUME NEW r \in Runner, Run(r) PROVE [JobNext]_jobVars
    <2>1. \/ \E p \in Path : SelectFailed(r, p)
          \/ StartFileJob(r)
          \/ MarkCompleted(r)
          \/ UNCHANGED jobVars
        BY <1>3
           DEF Run, RequestBegins, GroupTakes, GroupBegins,
           SkipUnchanged, JobStarts, Gate, Extract, Delta, Upsert, Prune,
           Clear, Link, Embed, Add, Drop, RequestAffects, GroupIndexed,
           JobCompletes, RequestEnds, GroupFinalizes, GroupEnds
    <2> QED BY <2>1 DEF JobNext
<1>4. ASSUME NEW r \in Runner, Fail(r) PROVE [JobNext]_jobVars
    <2>1. ReadFailed(r) \/ MarkFailed(r) \/ Abandon(r) \/ UNCHANGED jobVars
        BY <1>4 DEF Fail, Raise, JobFails, JobLogRaises, GroupRaises
    <2> QED BY <2>1 DEF JobNext
<1>5. CASE Tick
    BY <1>5 DEF Tick, JobNext
<1> QED BY <1>1, <1>2, <1>3, <1>4, <1>5 DEF Next

\* Hence the log's own invariant holds inside the indexer.
LEMMA JobSide ==
    ASSUME JobInv, [Next]_vars
    PROVE  JobInv'
<1>1. CASE [JobNext]_jobVars
    BY <1>1, JobInvNext
<1>2. CASE Restart
    <2>1. /\ jobs' = jobs /\ second' = second
          /\ runner' = [r \in Runner |-> Idle]
          /\ overtaken' = {} /\ clobbered' = clobbered
        BY <1>2 DEF Restart
    <2>2. JobTypeOK'
        BY <2>1 DEF JobInv, JobTypeOK, Activity, Idle, Rows
    <2>3. RetryBudget'
        BY <2>1 DEF JobInv, RetryBudget, Rows
    <2>4. \A q \in Runner : Knows(q)'
        BY <2>1 DEF Knows, Idle
    <2> QED BY <2>2, <2>3, <2>4 DEF JobInv
<1> QED BY <1>1, <1>2, JobSteps

\* A run starts on a file that nobody indexes, and its path stays.
LEMMA ApartStays ==
    ASSUME JobInv, Apart, Exclusive, [Next]_vars
    PROVE  Apart'
<1> USE DEF JobInv
<1>1. CASE runner' = runner
    BY <1>1 DEF Apart
<1>2. ASSUME NEW r \in Runner, NEW p \in Path, SelectFailed(r, p), Free(p)
      PROVE  Apart'
    <2>1. \A q \in Runner : runner[q].path # p
        BY <1>2 DEF Free
    <2>2. /\ runner'[r].path = p
          /\ \A q \in Runner : q # r => runner'[q] = runner[q]
        BY <1>2 DEF SelectFailed, JobTypeOK
    <2> QED BY <2>1, <2>2 DEF Apart
<1>3. ASSUME NEW r \in Runner, runner[r].at # "idle",
             runner'[r].path = runner[r].path \/ runner'[r].at = "idle",
             \A q \in Runner : q # r => runner'[q] = runner[q]
      PROVE  Apart'
    BY <1>3 DEF Apart
<1>4. ASSUME NEW r \in Runner, StartFileJob(r) \/ ReadFailed(r)
      PROVE  Apart'
    <2>1. /\ runner[r].at # "idle" /\ runner'[r].path = runner[r].path
          /\ \A q \in Runner : q # r => runner'[q] = runner[q]
        BY <1>4 DEF StartFileJob, Retry, Insert, ReadFailed, JobTypeOK,
           Activity
    <2> QED BY <1>3, <2>1
<1>5. ASSUME NEW r \in Runner,
             MarkCompleted(r) \/ MarkFailed(r) \/ Abandon(r)
      PROVE  Apart'
    <2>1. /\ runner[r].at # "idle" /\ runner' = [runner EXCEPT ![r] = Idle]
        BY <1>5 DEF MarkCompleted, MarkFailed, UpdateStatus, Abandon
    <2>2. /\ runner'[r].at = "idle"
          /\ \A q \in Runner : q # r => runner'[q] = runner[q]
        BY <2>1 DEF Idle, JobTypeOK
    <2> QED BY <1>3, <2>1, <2>2
<1>6. ASSUME NEW r \in Runner, Run(r) PROVE Apart'
    <2>1. \/ \E p \in Path : SelectFailed(r, p) /\ Free(p)
          \/ StartFileJob(r)
          \/ MarkCompleted(r)
          \/ UNCHANGED runner
        BY <1>6
           DEF Run, RequestBegins, GroupTakes, GroupBegins,
           SkipUnchanged, JobStarts, Gate, Extract, Delta, Upsert, Prune,
           Clear, Link, Embed, Add, Drop, RequestAffects, GroupIndexed,
           JobCompletes, RequestEnds, GroupFinalizes, GroupEnds, jobVars
    <2> QED BY <1>1, <1>2, <1>4, <1>5, <2>1
<1>7. ASSUME NEW r \in Runner, Fail(r) PROVE Apart'
    <2>1. ReadFailed(r) \/ MarkFailed(r) \/ Abandon(r) \/ UNCHANGED runner
        BY <1>7 DEF Fail, Raise, JobFails, JobLogRaises, GroupRaises, jobVars
    <2> QED BY <1>1, <1>4, <1>5, <2>1
<1>8. CASE Restart
    BY <1>8 DEF Restart, Apart, Idle
<1>9. CASE UNCHANGED vars \/ Develop \/ Tick
    BY <1>1, <1>9 DEF vars, jobVars, Develop, Edit, Commit, Type, Tick,
       SecondPasses
<1> QED BY <1>6, <1>7, <1>8, <1>9 DEF Next

-----------------------------------------------------------------------------
(* Types *)

\* The type of each variable, without the link between stages and jobs.
Shapes ==
    /\ disk \in [Path -> Version] /\ head \in [Path -> Version]
    /\ edits \in Nat /\ failed \in BOOLEAN
    /\ file \in [Path -> Version \cup {None}]
    /\ graph \in [Path -> SUBSET Symbol] /\ edges \in [Path -> SUBSET Symbol]
    /\ vectors \in [Path -> SUBSET Symbol]
    /\ affectsDue \subseteq Path \X Name
    /\ cacheDue \subseteq Path /\ overlay \subseteq Path
    /\ work \in [Runner -> Work]

\* Symbols have names.
LEMMA NamesOfSymbols == \A S \in SUBSET Symbol : Names(S) \subseteq Name
BY DEF Names, Symbol

\* Symbols chosen by their names are symbols.
LEMMA FilteredSymbols ==
    \A S \in SUBSET Symbol : \A N :
       Without(S, N) \in SUBSET Symbol /\ Only(S, N) \in SUBSET Symbol
BY DEF Without, Only

\* A busy runner works on a path.
LEMMA BusyPath ==
    ASSUME TypeOK, NEW r \in Runner, runner[r].at # "idle"
    PROVE  Of(r) \in Path
BY DEF TypeOK, JobTypeOK, Of

\* Going on to another stage changes nothing else.
LEMMA GoesTyped ==
    ASSUME TypeOK, NEW r \in Runner, NEW stage \in Stage \cup Outside,
           Goes(r, stage)
    PROVE  /\ work' \in [Runner -> Work]
           /\ work'[r].at = stage
           /\ work'[r].version = work[r].version
           /\ work'[r].changed = work[r].changed
           /\ \A q \in Runner : q # r => work'[q] = work[q]
<1>1. work \in [Runner -> Work] /\ work[r] \in Work
    BY DEF TypeOK
<1> DEFINE w == [work[r] EXCEPT !.at = stage]
<1>2. /\ w \in Work /\ w.at = stage
      /\ w.version = work[r].version /\ w.changed = work[r].changed
    BY <1>1 DEF Work
<1>3. work' = [work EXCEPT ![r] = w]
    BY <1>1 DEF Goes
<1> HIDE DEF w
<1> QED BY <1>1, <1>2, <1>3

\* So does replacing what a runner is doing.
LEMMA WorkTyped ==
    ASSUME TypeOK, NEW r \in Runner, NEW w \in Work,
           work' = [work EXCEPT ![r] = w]
    PROVE  /\ work' \in [Runner -> Work] /\ work'[r] = w
           /\ \A q \in Runner : q # r => work'[q] = work[q]
BY DEF TypeOK

\* A runner at rest has the type of one.
LEMMA RestTyped == Rest \in Work /\ Rest.at = "idle"
BY DEF Rest, Work, Outside

\* The file a runner takes next is a file.
LEMMA NextPathTyped ==
    ASSUME TypeOK, NEW r \in Runner
    PROVE  NextPath(r) \in Work /\ NextPath(r).at = "next"
<1>1. work[r] \in Work
    BY DEF TypeOK
<1> QED BY <1>1 DEF NextPath, Work, Outside

-----------------------------------------------------------------------------
(* What a step of one run leaves to the others *)

\* The others keep what they carry when runner r changes only its own file.
LEMMA OthersCarry ==
    ASSUME IndexInv, NEW r \in Runner, NEW q \in Runner, q # r,
           runner'[q] = runner[q], work'[q] = work[q],
           \/ file' = file /\ graph' = graph
           \/ /\ runner[r].at # "idle"
              /\ \A p \in Path : p # Of(r) =>
                    file'[p] = file[p] /\ graph'[p] = graph[p]
    PROVE  Carries(q)'
<1>1. CASE file' = file /\ graph' = graph
    BY <1>1 DEF IndexInv, Carries, New, Of
<1>2. CASE /\ runner[r].at # "idle"
           /\ \A p \in Path : p # Of(r) =>
                 file'[p] = file[p] /\ graph'[p] = graph[p]
    <2>1. CASE work[q].at \in Stage
        <3>1. runner[q].at # "idle"
            BY <2>1 DEF IndexInv, TypeOK
        <3>2. Of(q) \in Path /\ Of(q) # Of(r)
            BY <1>2, <3>1, BusyPath DEF IndexInv, Turns, Apart, Of
        <3>3. file'[Of(q)] = file[Of(q)] /\ graph'[Of(q)] = graph[Of(q)]
            BY <1>2, <3>2
        <3> QED BY <3>3 DEF IndexInv, Carries, New, Of
    <2>2. CASE work[q].at \notin Stage
        BY <2>2 DEF Carries, Carrying, Stage
    <2> QED BY <2>1, <2>2
<1> QED BY <1>1, <1>2

\* A step of runner r that leaves File.hash and the graph alone keeps the
\* invariant when it keeps r's own stage and delta in order.
LEMMA QuietStep ==
    ASSUME IndexInv, Turns', Shapes', NEW r \in Runner,
           file' = file, graph' = graph,
           \A q \in Runner : q # r =>
              runner'[q] = runner[q] /\ work'[q] = work[q],
           work'[r].at \in Stage <=> runner'[r].at # "idle",
           Carries(r)'
    PROVE  IndexInv'
<1>1. JobTypeOK'
    BY DEF Turns, JobInv
<1>2. \A q \in Runner : work'[q].at \in Stage <=> runner'[q].at # "idle"
    BY DEF IndexInv, TypeOK
<1>3. TypeOK'
    BY <1>1, <1>2 DEF TypeOK, Shapes
<1>4. StoredHashIsBacked'
    BY DEF IndexInv, StoredHashIsBacked
<1>5. ASSUME NEW q \in Runner PROVE Carries(q)'
    BY <1>5, OthersCarry
<1> QED BY <1>3, <1>4, <1>5 DEF IndexInv

\* Steps of the developer and steps without a run touch no run.
LEMMA StillRuns ==
    ASSUME IndexInv, Turns', Shapes', file' = file, graph' = graph,
           work' = work, runner' = runner
    PROVE  IndexInv'
<1>1. JobTypeOK'
    BY DEF Turns, JobInv
<1>2. TypeOK'
    BY <1>1 DEF IndexInv, TypeOK, Shapes
<1>3. StoredHashIsBacked' /\ \A q \in Runner : Carries(q)'
    BY DEF IndexInv, StoredHashIsBacked, Carries, New, Of
<1> QED BY <1>2, <1>3 DEF IndexInv

-----------------------------------------------------------------------------
(* One lemma per kind of step *)

\* Edits change the working tree only.
LEMMA DevelopKeeps ==
    ASSUME IndexInv, Turns', Develop
    PROVE  IndexInv'
<1>1. /\ file' = file /\ graph' = graph /\ edges' = edges
      /\ vectors' = vectors /\ work' = work /\ runner' = runner
      /\ affectsDue' = affectsDue /\ cacheDue' = cacheDue
    BY DEF Develop, Edit, Commit, Type, storeVars, dueVars, jobVars
<1>2. /\ disk' \in [Path -> Version] /\ head' \in [Path -> Version]
      /\ edits' \in Nat /\ failed' \in BOOLEAN
      /\ overlay' \subseteq Path
    <2> USE DEF IndexInv, TypeOK, treeVars, dueVars
    <2>1. ASSUME NEW p \in Path, NEW v \in Version, Edit(p, v) PROVE <1>2
        BY <2>1 DEF Edit
    <2>2. ASSUME NEW p \in Path, Commit(p) PROVE <1>2
        BY <2>2 DEF Commit
    <2>3. ASSUME NEW p \in Path, Type(p) PROVE <1>2
        BY <2>3 DEF Type
    <2> QED BY <2>1, <2>2, <2>3 DEF Develop
<1>3. Shapes'
    BY <1>1, <1>2 DEF IndexInv, TypeOK, Shapes
<1> QED BY <1>1, <1>3, StillRuns

\* Starting a run: it knows nothing yet.
LEMMA BeginsKeeps ==
    ASSUME IndexInv, Turns', NEW r \in Runner, NEW p \in Path,
           RequestBegins(r, p) \/ GroupTakes(r, p)
    PROVE  IndexInv'
<1>1. /\ SelectFailed(r, p) /\ UNCHANGED <<treeVars, storeVars, dueVars>>
      /\ \/ work' = [work EXCEPT ![r] = [work[r] EXCEPT !.at = "gate"]]
         \/ work' = [work EXCEPT ![r] = [work[r] EXCEPT !.at = "gate",
                                         !.todo = work[r].todo \ {p}]]
    BY DEF RequestBegins, GroupTakes, IndexInv, TypeOK
<1>2. PICK w \in Work : work' = [work EXCEPT ![r] = w] /\ w.at = "gate"
    <2>1. work[r] \in Work
        BY DEF IndexInv, TypeOK
    <2> DEFINE u == [work[r] EXCEPT !.at = "gate"]
               w == [work[r] EXCEPT !.at = "gate",
                                    !.todo = work[r].todo \ {p}]
    <2>2. u \in Work /\ u.at = "gate" /\ w \in Work /\ w.at = "gate"
        BY <2>1 DEF Work, Stage
    <2>3. work' = [work EXCEPT ![r] = u] \/ work' = [work EXCEPT ![r] = w]
        BY <1>1
    <2> HIDE DEF u, w
    <2> QED BY <2>2, <2>3
<1>3. /\ work' \in [Runner -> Work] /\ work'[r].at = "gate"
      /\ \A q \in Runner : q # r => work'[q] = work[q]
    BY <1>2, WorkTyped DEF IndexInv
<1>4. /\ runner'[r].at = "starting"
      /\ \A q \in Runner : q # r => runner'[q] = runner[q]
    BY <1>1 DEF SelectFailed, IndexInv, TypeOK, JobTypeOK
<1>5. Shapes' /\ file' = file /\ graph' = graph
    BY <1>1, <1>3 DEF IndexInv, TypeOK, Shapes, treeVars, storeVars, dueVars
<1>6. Carries(r)'
    BY <1>3 DEF Carries, Carrying
<1> QED BY <1>3, <1>4, <1>5, <1>6, QuietStep DEF Stage

\* Steps of a group outside its jobs, and the end of a run: the runner is
\* outside before and after.
LEMMA OutsideKeeps ==
    ASSUME IndexInv, Turns', NEW r \in Runner,
           \/ \E group \in SUBSET Path : GroupBegins(r, group)
           \/ SkipUnchanged(r) \/ RequestEnds(r) \/ GroupFinalizes(r)
           \/ GroupEnds(r) \/ GroupRaises(r)
    PROVE  IndexInv'
<1> USE DEF IndexInv
<1>1. /\ work[r].at \in Outside /\ work[r] \in Work
      /\ runner' = runner
      /\ UNCHANGED <<disk, head, edits, storeVars>>
      /\ failed' \in BOOLEAN
      /\ affectsDue' \subseteq affectsDue /\ cacheDue' \subseteq cacheDue
      /\ overlay' \subseteq overlay
    BY DEF GroupBegins, SkipUnchanged, RequestEnds, GroupFinalizes, GroupEnds,
       GroupRaises, Fails, Goes, treeVars, dueVars, jobVars, Outside, TypeOK
<1>2. \E w \in Work : work' = [work EXCEPT ![r] = w] /\ w.at \in Outside
    <2>1. ASSUME NEW group \in SUBSET Path, GroupBegins(r, group)
          PROVE  <1>2
        <3> DEFINE paths == {p \in group : Indexable(p)}
                   w == [Rest EXCEPT !.at = "hashes", !.todo = paths,
                           !.hashes = [p \in Path |-> IF p \in paths
                                           THEN disk[p] ELSE None]]
        <3>1. paths \in SUBSET Path
            OBVIOUS
        <3>2. [p \in Path |-> IF p \in paths THEN disk[p] ELSE None]
                 \in [Path -> Version \cup {None}]
            BY DEF TypeOK
        <3>3. w \in Work /\ w.at = "hashes"
            <4> HIDE DEF paths
            <4> QED BY <3>1, <3>2 DEF Rest, Work, Outside
        <3>4. work' = [work EXCEPT ![r] = w]
            BY <2>1 DEF GroupBegins
        <3> HIDE DEF w
        <3> QED BY <3>3, <3>4 DEF Outside
    <2>2. CASE SkipUnchanged(r)
        <3> DEFINE w == [work[r] EXCEPT !.at = "next",
                          !.todo = {p \in @ : file[p] # work[r].hashes[p]}]
        <3>1. w \in Work /\ w.at = "next"
            BY <1>1 DEF Work, Outside
        <3>2. work' = [work EXCEPT ![r] = w]
            BY <2>2 DEF SkipUnchanged, TypeOK
        <3> HIDE DEF w
        <3> QED BY <3>1, <3>2 DEF Outside
    <2>3. CASE work' = [work EXCEPT ![r] = Rest]
        BY <2>3, RestTyped DEF Outside
    <2>4. CASE Goes(r, "invalidate")
        <3> DEFINE w == [work[r] EXCEPT !.at = "invalidate"]
        <3>1. w \in Work /\ w.at = "invalidate"
            BY <1>1 DEF Work, Outside
        <3>2. work' = [work EXCEPT ![r] = w]
            BY <2>4 DEF Goes, TypeOK
        <3> HIDE DEF w
        <3> QED BY <3>1, <3>2 DEF Outside
    <2> QED BY <2>1, <2>2, <2>3, <2>4
            DEF RequestEnds, GroupFinalizes, GroupEnds, GroupRaises
<1>3. /\ work' \in [Runner -> Work] /\ work'[r].at \in Outside
      /\ \A q \in Runner : q # r => work'[q] = work[q]
    BY <1>2, WorkTyped
<1>4. Shapes' /\ file' = file /\ graph' = graph
    BY <1>1, <1>3 DEF TypeOK, Shapes, storeVars
<1>5. runner[r].at = "idle"
    BY <1>1 DEF TypeOK, Stage, Outside
<1>6. Carries(r)'
    BY <1>3 DEF Carries, Carrying, Outside
<1>7. \A q \in Runner : q # r =>
         runner'[q] = runner[q] /\ work'[q] = work[q]
    BY <1>1, <1>3
<1>8. work'[r].at \in Stage <=> runner'[r].at # "idle"
    BY <1>1, <1>3, <1>5 DEF Stage, Outside
<1> QED BY <1>4, <1>6, <1>7, <1>8, QuietStep

\* The job log's own steps inside a run.
LEMMA JobStepsKeep ==
    ASSUME IndexInv, Turns', NEW r \in Runner, JobStarts(r) \/ Raise(r)
    PROVE  IndexInv'
<1> USE DEF IndexInv
<1>1. /\ runner[r].at # "idle"
      /\ UNCHANGED <<disk, head, edits, storeVars, dueVars, work>>
      /\ failed' \in BOOLEAN
      /\ ReadFailed(r) \/ Retry(r) \/ Insert(r)
    BY DEF JobStarts, StartFileJob, Raise, Fails, Retry, Insert, ReadFailed,
       treeVars, TypeOK
<1>2. /\ runner'[r].at # "idle" /\ runner'[r].path = runner[r].path
      /\ \A q \in Runner : q # r => runner'[q] = runner[q]
    <2>1. runner \in [Runner -> Activity] /\ runner[r] \in Activity
        BY DEF TypeOK, JobTypeOK
    <2>2. CASE ReadFailed(r)
        BY <2>1, <2>2 DEF ReadFailed, Activity
    <2>3. CASE Retry(r)
        BY <2>1, <2>3 DEF Retry, Activity
    <2>4. CASE Insert(r)
        BY <2>1, <2>4 DEF Insert, Activity
    <2> QED BY <1>1, <2>2, <2>3, <2>4
<1>3. Shapes' /\ file' = file /\ graph' = graph /\ work' = work
    BY <1>1 DEF TypeOK, Shapes, storeVars, dueVars
<1>4. work[r].at \in Stage
    BY <1>1 DEF TypeOK
<1>5. Carries(r)'
    BY <1>2, <1>3 DEF Carries, New, Of
<1> QED BY <1>2, <1>3, <1>4, <1>5, QuietStep

\* A run that stays tracked and changes neither File.hash nor the graph.
LEMMA TrackedStep ==
    ASSUME IndexInv, Turns', NEW r \in Runner, runner[r].at = "tracked",
           runner' = runner, file' = file, graph' = graph, Shapes',
           \A q \in Runner : q # r => work'[q] = work[q],
           work'[r].at \in Stage, Carries(r)'
    PROVE  IndexInv'
BY QuietStep

\* The steps that compute the delta.
LEMMA DeltaKeeps ==
    ASSUME IndexInv, Turns', NEW r \in Runner,
           Gate(r) \/ Extract(r) \/ Delta(r)
    PROVE  IndexInv'
<1> USE DEF IndexInv
<1>1. /\ runner[r].at = "tracked" /\ runner' = runner
      /\ UNCHANGED <<treeVars, storeVars, dueVars>>
      /\ work[r] \in Work /\ Of(r) \in Path
    <2>1. runner[r].at = "tracked"
        BY DEF Gate, Extract, Delta, Tracked
    <2> QED BY <2>1, BusyPath DEF Gate, Extract, Delta, jobVars, TypeOK
<1>2. PICK w \in Work :
         /\ work' = [work EXCEPT ![r] = w]
         /\ w.at \in Stage \ (Carrying \ {"upsert"})
         /\ w.at = "delta" => w.version \in Version
         /\ w.at = "upsert" =>
               /\ w.version \in Version /\ w.changed \subseteq Body[w.version]
               /\ Body[w.version] \ w.changed \subseteq graph[Of(r)]
    <2>1. CASE Gate(r)
        <3> DEFINE u(stage) == [work[r] EXCEPT !.at = stage]
        <3>1. PICK stage \in {"extract", "overlay", "complete"} :
                 work' = [work EXCEPT ![r] = u(stage)]
            BY <2>1 DEF Gate, Goes, TypeOK
        <3>2. u(stage) \in Work /\ u(stage).at = stage
            BY <1>1 DEF Work, Stage
        <3> HIDE DEF u
        <3> QED BY <3>1, <3>2 DEF Stage, Carrying
    <2>2. CASE Extract(r)
        <3> DEFINE w == [work[r] EXCEPT !.at = "delta",
                                        !.version = disk[Of(r)]]
        <3>1. disk[Of(r)] \in Version
            BY <1>1 DEF TypeOK
        <3>2. w \in Work /\ w.at = "delta" /\ w.version \in Version
            BY <1>1, <3>1 DEF Work, Stage
        <3>3. work' = [work EXCEPT ![r] = w]
            BY <2>2 DEF Extract, TypeOK
        <3> HIDE DEF w
        <3> QED BY <3>2, <3>3 DEF Stage, Carrying
    <2>3. CASE Delta(r)
        <3> DEFINE w == [work[r] EXCEPT !.at = "upsert",
                     !.changed = New(r) \ graph[Of(r)],
                     !.removed = Names(graph[Of(r)]) \ Names(New(r))]
        <3>1. work[r].version \in Version
            BY <2>3 DEF Delta, Tracked, Carries
        <3>2. New(r) \in SUBSET Symbol /\ graph[Of(r)] \in SUBSET Symbol
            BY <1>1, <3>1, IndexingConstants DEF New, TypeOK
        <3>3. Names(graph[Of(r)]) \ Names(New(r)) \in SUBSET Name
            BY <3>2, NamesOfSymbols
        <3>4. /\ w \in Work /\ w.at = "upsert"
              /\ w.version = work[r].version
              /\ w.changed = New(r) \ graph[Of(r)]
            BY <1>1, <3>2, <3>3 DEF Work, Stage
        <3>5. work' = [work EXCEPT ![r] = w]
            BY <2>3 DEF Delta, TypeOK
        <3> HIDE DEF w
        <3> QED BY <3>1, <3>4, <3>5 DEF Stage, Carrying, New
    <2> QED BY <2>1, <2>2, <2>3
<1>3. /\ work' \in [Runner -> Work] /\ work'[r] = w
      /\ \A q \in Runner : q # r => work'[q] = work[q]
    BY <1>2, WorkTyped
<1>4. Shapes' /\ file' = file /\ graph' = graph
    BY <1>1, <1>3 DEF TypeOK, Shapes, treeVars, storeVars, dueVars
<1>5. Carries(r)'
    BY <1>1, <1>2, <1>3, <1>4 DEF Carries, Carrying, New, Of
<1> QED BY <1>1, <1>2, <1>3, <1>4, <1>5, TrackedStep

\* The steps after the upsert that leave the graph's symbols alone.
LEMMA StoresKeep ==
    ASSUME IndexInv, Turns', NEW r \in Runner,
           \/ Clear(r) \/ Link(r) \/ Embed(r) \/ Add(r) \/ Drop(r)
           \/ RequestAffects(r)
    PROVE  IndexInv'
<1> USE DEF IndexInv
<1>1. runner[r].at = "tracked" /\ work[r].at \in Stage
    BY DEF Clear, Link, Embed, Add, Drop, RequestAffects, Tracked, Stage
<1>2. /\ runner' = runner /\ file' = file /\ graph' = graph
      /\ UNCHANGED treeVars
      /\ affectsDue' \subseteq affectsDue /\ cacheDue' = cacheDue
      /\ overlay' = overlay
    BY DEF Clear, Link, Embed, Add, Drop, RequestAffects, jobVars, storeVars,
       dueVars
<1>3. PICK stage \in {"link", "embed", "add", "drop", "overlay", "affects",
                      "complete"} :
         /\ Goes(r, stage)
         /\ stage \in Carrying => work[r].at \in Carrying \ {"upsert"}
    BY DEF Clear, Link, Embed, Add, Drop, RequestAffects, Tracked, Carrying
<1>4. /\ work' \in [Runner -> Work] /\ work'[r].at = stage
      /\ work'[r].version = work[r].version
      /\ work'[r].changed = work[r].changed
      /\ \A q \in Runner : q # r => work'[q] = work[q]
    BY <1>3, GoesTyped DEF Stage
<1>5. Of(r) \in Path /\ work[r].changed \in SUBSET Symbol
    BY <1>1, BusyPath DEF TypeOK, Work
<1>6. edges' \in [Path -> SUBSET Symbol]
    <2>1. CASE Clear(r)
        BY <2>1, FilteredSymbols DEF Clear, TypeOK
    <2>2. CASE Link(r)
        <3>1. New(r) \in SUBSET Symbol
            BY <2>2, IndexingConstants
               DEF Link, Tracked, Carries, Carrying, New
        <3> QED BY <2>2, <3>1, FilteredSymbols DEF Link, TypeOK
    <2>3. CASE edges' = edges
        BY <2>3 DEF TypeOK
    <2> QED BY <2>1, <2>2, <2>3
            DEF Embed, Add, Drop, RequestAffects, storeVars
<1>7. vectors' \in [Path -> SUBSET Symbol]
    <2>1. CASE vectors' = [p \in Path |-> {}]
        BY <2>1
    <2>2. CASE \E N : vectors' = [vectors EXCEPT ![Of(r)] = Without(@, N)]
        <3>1. PICK N : vectors' = [vectors EXCEPT
                                      ![Of(r)] = Without(vectors[Of(r)], N)]
            BY <2>2
        <3>2. vectors[Of(r)] \in SUBSET Symbol
            BY <1>5 DEF TypeOK
        <3>3. Without(vectors[Of(r)], N) \in SUBSET Symbol
            BY <3>2, FilteredSymbols
        <3> QED BY <3>1, <3>3 DEF TypeOK
    <2>3. CASE Add(r)
        BY <1>5, <2>3 DEF Add, TypeOK
    <2>4. CASE vectors' = vectors
        BY <2>4 DEF TypeOK
    <2>5. CASE Embed(r)
        <3>1. \/ vectors' = vectors
              \/ vectors' = [p \in Path |-> {}]
              \/ vectors' = [vectors EXCEPT
                                ![Of(r)] = Without(@, Names(work[r].changed))]
            BY <2>5 DEF Embed
        <3> QED BY <2>1, <2>2, <2>4, <3>1
    <2>6. CASE Drop(r)
        BY <2>2, <2>6 DEF Drop
    <2> QED BY <2>3, <2>4, <2>5, <2>6
            DEF Clear, Link, RequestAffects, storeVars
<1>8. Shapes'
    BY <1>2, <1>4, <1>6, <1>7 DEF TypeOK, Shapes, treeVars
<1>9. Carries(r)'
    BY <1>2, <1>3, <1>4 DEF Carries, Carrying, New, Of
<1> QED BY <1>1, <1>2, <1>3, <1>4, <1>8, <1>9, TrackedStep DEF Stage

\* The queue's step that clears the overlay.
LEMMA GroupIndexedKeeps ==
    ASSUME IndexInv, Turns', NEW r \in Runner, GroupIndexed(r)
    PROVE  IndexInv'
<1> USE DEF IndexInv
<1>1. /\ runner[r].at = "tracked" /\ runner' = runner
      /\ UNCHANGED <<treeVars, storeVars, affectsDue, cacheDue>>
      /\ overlay' \subseteq overlay
      /\ work[r] \in Work
    BY DEF GroupIndexed, Tracked, jobVars, TypeOK
<1>2. Of(r) \in Path
    BY <1>1, BusyPath
<1> DEFINE w == [work[r] EXCEPT !.at = "complete",
              !.allChanged = work[r].allChanged
                                \cup ({Of(r)} \X Names(work[r].changed)),
              !.indexed = work[r].indexed \cup {Of(r)}]
<1>3. w \in Work /\ w.at = "complete"
    <2>1. {Of(r)} \X Names(work[r].changed) \subseteq Path \X Name
        BY <1>1, <1>2, NamesOfSymbols DEF Work
    <2> HIDE DEF Names
    <2> QED BY <1>1, <1>2, <2>1 DEF Work, Stage
<1>4. work' = [work EXCEPT ![r] = w]
    BY DEF GroupIndexed
<1> HIDE DEF w
<1>5. /\ work' \in [Runner -> Work] /\ work'[r].at = "complete"
      /\ \A q \in Runner : q # r => work'[q] = work[q]
    BY <1>3, <1>4, WorkTyped
<1>6. Shapes' /\ file' = file /\ graph' = graph
    BY <1>1, <1>5 DEF TypeOK, Shapes, treeVars, storeVars
<1>7. Carries(r)'
    BY <1>5 DEF Carries, Carrying
<1> QED BY <1>1, <1>5, <1>6, <1>7, TrackedStep DEF Stage

\* The upsert writes the hash with the symbols that back it.
LEMMA UpsertKeeps ==
    ASSUME IndexInv, Turns', NEW r \in Runner, Upsert(r)
    PROVE  IndexInv'
<1> USE DEF IndexInv
<1> DEFINE p == Of(r)
           v == work[r].version
           new == work[r].changed
<1>1. /\ runner[r].at = "tracked" /\ work[r].at = "upsert"
      /\ p \in Path /\ v \in Version
      /\ new \subseteq Body[v] /\ Body[v] \ new \subseteq graph[p]
      /\ Body[v] \in SUBSET Symbol
    <2>1. runner[r].at = "tracked" /\ work[r].at = "upsert"
        BY DEF Upsert, Tracked
    <2>2. v \in Version /\ new \subseteq Body[v]
             /\ Body[v] \ new \subseteq graph[p]
        BY <2>1 DEF Carries, Carrying, New
    <2> QED BY <2>1, <2>2, BusyPath, IndexingConstants
<1>2. /\ file' = [file EXCEPT ![p] = v]
      /\ graph' = [graph EXCEPT ![p] = Without(graph[p], Names(new)) \cup new]
      /\ affectsDue' = affectsDue \cup ({p} \X Names(new))
      /\ cacheDue' = cacheDue \cup {p} /\ overlay' = overlay
      /\ runner' = runner /\ edges' = edges /\ vectors' = vectors
      /\ UNCHANGED treeVars /\ Goes(r, "prune")
    BY DEF Upsert, jobVars
<1>3. /\ work' \in [Runner -> Work] /\ work'[r].at = "prune"
      /\ work'[r].version = v /\ work'[r].changed = new
      /\ \A q \in Runner : q # r => work'[q] = work[q]
    BY <1>2, GoesTyped DEF Stage
<1>4. Without(graph[p], Names(new)) \cup new \in SUBSET Symbol
    BY <1>1, FilteredSymbols DEF TypeOK
<1>5. {p} \X Names(new) \subseteq Path \X Name
    <2>1. Names(new) \subseteq Name
        BY <1>1, NamesOfSymbols
    <2> QED BY <1>1, <2>1
<1>6. /\ graph' \in [Path -> SUBSET Symbol]
      /\ file' \in [Path -> Version \cup {None}]
      /\ file'[p] = v /\ graph'[p] = Without(graph[p], Names(new)) \cup new
      /\ \A x \in Path : x # p => file'[x] = file[x] /\ graph'[x] = graph[x]
    BY <1>1, <1>2, <1>4 DEF TypeOK
<1>7. TypeOK'
    <2>1. JobTypeOK'
        BY DEF Turns, JobInv
    <2>2. \A q \in Runner : work'[q].at \in Stage <=> runner'[q].at # "idle"
        BY <1>1, <1>2, <1>3 DEF TypeOK, Stage
    <2>3. affectsDue' \subseteq Path \X Name /\ cacheDue' \subseteq Path
        BY <1>1, <1>2, <1>5 DEF TypeOK
    <2> QED BY <1>2, <1>3, <1>6, <2>1, <2>2, <2>3 DEF TypeOK, treeVars
<1>8. Body[v] \subseteq graph'[p]
    <2>1. ASSUME NEW s \in Body[v], s \notin new PROVE s \in graph'[p]
        <3>1. s \in graph[p]
            BY <1>1, <2>1
        <3>2. s[1] \notin Names(new)
            <4>1. \A t \in new : t[1] = s[1] => t = s
                BY <1>1, IndexingConstants
            <4> QED BY <2>1, <4>1 DEF Names
        <3> QED BY <1>6, <3>1, <3>2 DEF Without
    <2> QED BY <1>6, <2>1
<1>9. StoredHashIsBacked'
    BY <1>6, <1>8 DEF StoredHashIsBacked
<1>10. Carries(r)'
    BY <1>1, <1>2, <1>3, <1>6 DEF Carries, Carrying, New, Of
<1>11. ASSUME NEW q \in Runner, q # r PROVE Carries(q)'
    BY <1>1, <1>2, <1>3, <1>6, <1>11, OthersCarry
<1> QED BY <1>7, <1>9, <1>10, <1>11

\* Pruning keeps every symbol of the version whose hash is stored.
LEMMA PruneKeeps ==
    ASSUME IndexInv, Turns', NEW r \in Runner, Prune(r)
    PROVE  IndexInv'
<1> USE DEF IndexInv
<1> DEFINE p == Of(r)
           keep == Names(New(r))
<1>1. /\ runner[r].at = "tracked" /\ work[r].at = "prune"
      /\ p \in Path /\ file[p] = work[r].version
      /\ work[r].version \in Version
    <2>1. runner[r].at = "tracked" /\ work[r].at = "prune"
        BY DEF Prune, Tracked
    <2> QED BY <2>1, BusyPath DEF Carries, Carrying
<1>2. /\ graph' = [graph EXCEPT ![p] = Only(graph[p], keep)]
      /\ edges' = [edges EXCEPT ![p] = Only(edges[p], keep)]
      /\ affectsDue' \subseteq affectsDue
      /\ cacheDue' = cacheDue /\ overlay' = overlay
      /\ file' = file /\ vectors' = vectors /\ runner' = runner
      /\ UNCHANGED treeVars /\ Goes(r, "clear")
    BY DEF Prune, jobVars
<1>3. /\ work' \in [Runner -> Work] /\ work'[r].at = "clear"
      /\ work'[r].version = work[r].version
      /\ work'[r].changed = work[r].changed
      /\ \A q \in Runner : q # r => work'[q] = work[q]
    BY <1>2, GoesTyped DEF Stage
<1>4. /\ Only(graph[p], keep) \in SUBSET Symbol
      /\ Only(edges[p], keep) \in SUBSET Symbol
    <2>1. graph[p] \in SUBSET Symbol /\ edges[p] \in SUBSET Symbol
        BY <1>1 DEF TypeOK
    <2> QED BY <2>1, FilteredSymbols
<1>5. /\ graph' \in [Path -> SUBSET Symbol]
      /\ edges' \in [Path -> SUBSET Symbol]
      /\ graph'[p] = Only(graph[p], keep)
      /\ \A x \in Path : x # p => graph'[x] = graph[x]
    BY <1>1, <1>2, <1>4 DEF TypeOK
<1>6. TypeOK'
    <2>1. JobTypeOK'
        BY DEF Turns, JobInv
    <2>2. \A q \in Runner : work'[q].at \in Stage <=> runner'[q].at # "idle"
        BY <1>1, <1>2, <1>3 DEF TypeOK, Stage
    <2> QED BY <1>2, <1>3, <1>5, <2>1, <2>2 DEF TypeOK, treeVars
<1>7. StoredHashIsBacked'
    <2>1. New(r) \subseteq graph[p]
        <3>1. work[r].version # None
            BY <1>1, IndexingConstants
        <3> QED BY <1>1, <3>1 DEF StoredHashIsBacked, New
    <2>2. New(r) \subseteq graph'[p]
        BY <1>5, <2>1 DEF Only, Names
    <2>3. Body[file'[p]] \subseteq graph'[p]
        BY <1>1, <1>2, <2>2 DEF New
    <2> QED BY <1>2, <1>5, <2>3 DEF StoredHashIsBacked
<1>8. Carries(r)'
    BY <1>1, <1>2, <1>3 DEF Carries, Carrying, New, Of
<1>9. ASSUME NEW q \in Runner, q # r PROVE Carries(q)'
    BY <1>1, <1>2, <1>3, <1>5, <1>9, OthersCarry
<1> QED BY <1>6, <1>7, <1>8, <1>9

\* The end of a job, however it ends: the runner is outside again.
LEMMA JobEndsKeep ==
    ASSUME IndexInv, Turns', NEW r \in Runner,
           JobCompletes(r) \/ JobFails(r) \/ JobLogRaises(r)
    PROVE  IndexInv'
<1> USE DEF IndexInv
<1>1. /\ runner[r].at # "idle"
      /\ runner' = [runner EXCEPT ![r] = Idle]
      /\ UNCHANGED <<disk, head, edits, storeVars, dueVars>>
      /\ failed' \in BOOLEAN
    BY DEF JobCompletes, JobFails, JobLogRaises, MarkCompleted, MarkFailed,
       UpdateStatus, Abandon, Fails, treeVars, TypeOK
<1>2. PICK w \in Work : work' = [work EXCEPT ![r] = w] /\ w.at \in Outside
    <2>1. CASE work' = [work EXCEPT ![r] = NextPath(r)]
        BY <2>1, NextPathTyped DEF Outside
    <2>2. CASE work' = [work EXCEPT ![r] = Rest]
        BY <2>2, RestTyped DEF Outside
    <2>3. CASE work' = [work EXCEPT
                   ![r] = [Rest EXCEPT !.at = "invalidate",
                                       !.indexed = {Of(r)}]]
        <3> DEFINE w == [Rest EXCEPT !.at = "invalidate",
                                     !.indexed = {Of(r)}]
        <3>1. Of(r) \in Path
            BY <1>1, BusyPath
        <3>2. w \in Work /\ w.at = "invalidate"
            BY <3>1 DEF Rest, Work, Outside
        <3> HIDE DEF w
        <3> QED BY <2>3, <3>2 DEF w, Outside
    <2> QED BY <2>1, <2>2, <2>3 DEF JobCompletes, JobFails, JobLogRaises
<1>3. /\ work' \in [Runner -> Work] /\ work'[r].at \in Outside
      /\ \A q \in Runner : q # r => work'[q] = work[q]
    BY <1>2, WorkTyped
<1>4. /\ runner'[r].at = "idle"
      /\ \A q \in Runner : q # r => runner'[q] = runner[q]
    BY <1>1 DEF Idle, TypeOK, JobTypeOK
<1>5. Shapes' /\ file' = file /\ graph' = graph
    BY <1>1, <1>3 DEF TypeOK, Shapes, storeVars, dueVars
<1>6. Carries(r)'
    BY <1>3 DEF Carries, Carrying, Outside
<1>7. work'[r].at \in Stage <=> runner'[r].at # "idle"
    BY <1>3, <1>4 DEF Stage, Outside
<1> QED BY <1>3, <1>4, <1>5, <1>6, <1>7, QuietStep

\* A restart forgets every run, and keeps the stores.
LEMMA RestartKeeps ==
    ASSUME IndexInv, Turns', Restart
    PROVE  IndexInv'
<1> USE DEF IndexInv
<1>1. /\ runner' = [r \in Runner |-> Idle] /\ work' = [r \in Runner |-> Rest]
      /\ UNCHANGED <<disk, head, edits, storeVars, affectsDue>>
      /\ failed' \in BOOLEAN
      /\ cacheDue' = {} /\ overlay' = {}
    BY DEF Restart, Fails
<1>2. TypeOK'
    <2>1. JobTypeOK'
        BY DEF Turns, JobInv
    <2>2. \A r \in Runner : work'[r].at = "idle" /\ runner'[r].at = "idle"
        BY <1>1 DEF Rest, Idle
    <2>3. \A r \in Runner : work'[r].at \in Stage <=> runner'[r].at # "idle"
        BY <2>2 DEF Stage
    <2>4. work' \in [Runner -> Work]
        BY <1>1, RestTyped
    <2> QED BY <1>1, <2>1, <2>3, <2>4 DEF TypeOK, storeVars
<1>3. StoredHashIsBacked'
    BY <1>1 DEF StoredHashIsBacked, storeVars
<1>4. \A r \in Runner : Carries(r)'
    BY <1>1 DEF Carries, Carrying, Rest
<1> QED BY <1>2, <1>3, <1>4

\* Every step keeps the invariant.
LEMMA IndexInvNext ==
    ASSUME IndexInv, Exclusive, [Next]_vars
    PROVE  IndexInv'
<1>1. Turns'
    BY JobSide, ApartStays DEF IndexInv, Turns
<1>2. CASE UNCHANGED vars
    <2>1. Shapes'
        BY <1>2 DEF IndexInv, TypeOK, Shapes, vars, treeVars, storeVars,
           dueVars
    <2> QED BY <1>1, <1>2, <2>1, StillRuns DEF vars, jobVars, storeVars
<1>3. ASSUME NEW r \in Runner, Run(r) PROVE IndexInv'
    BY <1>1, <1>3, BeginsKeeps, OutsideKeeps, JobStepsKeep, DeltaKeeps,
       StoresKeep, GroupIndexedKeeps, UpsertKeeps, PruneKeeps, JobEndsKeep
       DEF Run
<1>4. ASSUME NEW r \in Runner, Fail(r) PROVE IndexInv'
    BY <1>1, <1>4, OutsideKeeps, JobStepsKeep, JobEndsKeep DEF Fail
<1>5. CASE Tick
    <2>1. UNCHANGED <<treeVars, storeVars, dueVars, work, runner>>
        BY <1>5 DEF Tick, SecondPasses
    <2>2. Shapes'
        BY <2>1 DEF IndexInv, TypeOK, Shapes, treeVars, storeVars, dueVars
    <2> QED BY <1>1, <2>1, <2>2, StillRuns DEF storeVars
<1> QED BY <1>1, <1>2, <1>3, <1>4, <1>5, DevelopKeeps, RestartKeeps DEF Next

\* Hence it always holds.
LEMMA IndexInvAlways == Exclusive => (Spec => []IndexInv)
<1> SUFFICES ASSUME Exclusive PROVE Spec => []IndexInv
    OBVIOUS
<1>1. IndexInv /\ [Next]_vars => IndexInv'
    BY IndexInvNext
<1> QED BY <1>1, IndexInvInit, PTL DEF Spec

-----------------------------------------------------------------------------
(* The theorems *)

\* Types, and the link between a run's stage and its job.
THEOREM IndexingTypes == Exclusive => (Spec => []TypeOK)
<1>1. IndexInv => TypeOK
    BY DEF IndexInv
<1> QED BY <1>1, IndexInvAlways, PTL

\* Whatever fails and whenever the process stops, the graph holds every
\* symbol of the version whose hash it stores: a file skipped as unchanged
\* is complete in the graph (not in the vectors, see DivergenceIsVisible).
THEOREM IndexingBacksHashes == Exclusive => (Spec => []StoredHashIsBacked)
<1>1. IndexInv => StoredHashIsBacked
    BY DEF IndexInv
<1> QED BY <1>1, IndexInvAlways, PTL

\* The job log keeps its retry budget inside the indexer, with its failures,
\* abandoned jobs and restarts, and with requests and batches of one file at
\* once: only a row that an overtaken runner wrote can miscount.
THEOREM IndexingKeepsBudget == Spec => []RetryBudget
<1>1. Init => JobInv
    BY JobInvInit DEF Init
<1>2. JobInv /\ [Next]_vars => JobInv'
    BY JobSide
<1>3. JobInv => RetryBudget
    BY DEF JobInv
<1> QED BY <1>1, <1>2, <1>3, PTL DEF Spec

\* A vector is only ever added for a body the graph holds at that moment.
THEOREM IndexingVectorsFollow == Exclusive => (Spec => VectorsFollowGraph)
<1>1. ASSUME IndexInv, [Next]_vars
      PROVE  [\A p \in Path : vectors'[p] \ vectors[p] \subseteq graph[p]]_vars
    <2>1. SUFFICES ASSUME NEW p \in Path, Next
                   PROVE  vectors'[p] \ vectors[p] \subseteq graph[p]
        BY <1>1
    <2>2. ASSUME NEW r \in Runner, Add(r)
          PROVE  vectors'[p] \ vectors[p] \subseteq graph[p]
        <3>1. runner[r].at = "tracked" /\ work[r].at = "add"
            BY <2>2 DEF Add, Tracked
        <3>2. Of(r) \in Path
            BY <1>1, <3>1, BusyPath DEF IndexInv
        <3>3. work[r].changed \subseteq graph[Of(r)]
            <4>1. /\ work[r].version \in Version
                  /\ work[r].changed \subseteq Body[work[r].version]
                  /\ file[Of(r)] = work[r].version
                BY <1>1, <3>1 DEF IndexInv, Carries, Carrying, New
            <4>2. file[Of(r)] # None
                BY <4>1, IndexingConstants
            <4> QED BY <1>1, <3>2, <4>1, <4>2 DEF IndexInv, StoredHashIsBacked
        <3> QED BY <1>1, <2>2, <3>2, <3>3 DEF Add, IndexInv, TypeOK
    <2>3. ASSUME NEW r \in Runner, Embed(r) \/ Drop(r)
          PROVE  vectors'[p] \subseteq vectors[p]
        BY <1>1, <2>3 DEF Embed, Drop, Without, IndexInv, TypeOK
    <2>4. ASSUME NEW r \in Runner, Run(r), ~Add(r), ~Embed(r), ~Drop(r)
          PROVE  vectors' = vectors
        BY <2>4 DEF Run, RequestBegins, GroupTakes, GroupBegins,
           SkipUnchanged, JobStarts, Gate, Extract, Delta, Upsert, Prune,
           Clear, Link, RequestAffects, GroupIndexed, JobCompletes,
           RequestEnds, GroupFinalizes, GroupEnds, storeVars
    <2>5. ASSUME NEW r \in Runner, Fail(r) PROVE vectors' = vectors
        BY <2>5 DEF Fail, Raise, JobFails, JobLogRaises, GroupRaises,
           storeVars
    <2>6. CASE Develop \/ Restart \/ Tick
        BY <2>6 DEF Develop, Edit, Commit, Type, Restart, Tick, storeVars
    <2> QED BY <2>1, <2>2, <2>3, <2>4, <2>5, <2>6 DEF Next
<1> QED BY <1>1, IndexInvAlways, PTL DEF Spec, VectorsFollowGraph
-----------------------------------------------------------------------------
(* When no call fails: what a run in its middle still owes to the stores *)

Content(p) == IF file[p] = None THEN {} ELSE Body[file[p]]

\* The stores hold the version whose hash is stored, and nothing else.
Settled(p) ==
    graph[p] = Content(p) /\ edges[p] = Content(p) /\ vectors[p] = Content(p)

\* Stages between the first and the last write to the four stores.
Writing == {"prune", "clear", "link", "embed", "add", "drop"}
Rewrites(r, p) == work[r].at \in Writing /\ Of(r) = p

\* What the rows V of a file become once the rest of the delta of the run w
\* is applied to them.
RowsDue(w, V) ==
    Without(IF w.at = "drop" THEN V
            ELSE IF w.at = "add" THEN V \cup w.changed
            ELSE Without(V, Names(w.changed)) \cup w.changed, w.removed)

\* Names whose edges are not cleared by a run that changes N among S.
Kept(S, N) == Names(S) \ Names(IF N = {} THEN S ELSE N)

\* The run w has done, of what it does to its file, all that comes before its
\* stage: f, G, E and V are the hash, symbols, edges and rows stored for it.
InOrder(w, f, G, E, V) ==
    LET all == Body[w.version] IN
      /\ w.at \in Writing \cup {"upsert"} => w.version \in Version
      /\ w.at = "upsert" =>
            w.changed = all \ G /\ w.removed = Names(G) \ Names(all)
      /\ w.at \in Writing =>
            f = w.version /\ w.changed \subseteq all /\ RowsDue(w, V) = all
      /\ w.at = "prune" => Only(G, Names(all)) = all
      /\ w.at \in Writing \ {"prune"} => G = all
      /\ w.at \in {"prune", "clear"} => Only(E, Kept(all, w.changed)) \subseteq all
      /\ w.at = "clear" => Names(E) \subseteq Names(all)
      /\ w.at = "link" => E \subseteq all
      /\ w.at \in {"embed", "add", "drop"} => E = all

Progress(r) == LET p == Of(r) IN
    InOrder(work[r], file[p], graph[p], edges[p], vectors[p])

\* A file that no run is writing is settled.
StoresInOrder ==
    /\ \A r \in Runner : Progress(r)
    /\ \A p \in Path : Settled(p) \/ \E r \in Runner : Rewrites(r, p)

-----------------------------------------------------------------------------
(* Applying a delta *)

\* Names are unique in each version of a file.
UniqueNames(S) == \A s, t \in S : s[1] = t[1] => s = t

\* The delta between what is stored and what the file has now: whatever store
\* held the old symbols holds the new ones after it, and a symbol whose edges
\* are not cleared has not changed.
LEMMA DeltaApplies ==
    ASSUME NEW old, NEW all, UniqueNames(old), UniqueNames(all)
    PROVE  LET new == all \ old
               removed == Names(old) \ Names(all)
               then == Without(old, Names(new)) \cup new
           IN  /\ Only(then, Names(all)) = all
               /\ Without(then, removed) = all
               /\ Only(old, Kept(all, new)) \subseteq all
<1> USE DEF Names, UniqueNames
<1> DEFINE new == all \ old
           removed == Names(old) \ Names(all)
<1>1. ASSUME NEW s \in old, s[1] \in Names(all), s[1] \notin Names(new)
      PROVE  s \in all
    <2>1. PICK t \in all : t[1] = s[1]
        BY <1>1
    <2>2. t \in old
        BY <1>1, <2>1
    <2> QED BY <2>1, <2>2
<1>2. ASSUME NEW s \in all PROVE s \in Without(old, Names(new)) \cup new
    <2>1. CASE s \in new
        BY <2>1
    <2>2. CASE s \notin new
        <3>1. s[1] \notin Names(new)
            BY <2>2
        <3> QED BY <2>2, <3>1 DEF Without
    <2> QED BY <2>1, <2>2
<1>3. Only(Without(old, Names(new)) \cup new, Names(all)) = all
    BY <1>1, <1>2 DEF Only, Without
<1>4. Without(Without(old, Names(new)) \cup new, removed) = all
    BY <1>1, <1>2 DEF Without
<1>5. Only(old, Kept(all, new)) \subseteq all
    BY <1>1 DEF Only, Kept
<1> QED BY <1>3, <1>4, <1>5

\* The steps of index_file, on the record of a run and the stores of its file.
LEMMA UpsertInOrder ==
    ASSUME NEW w, NEW f, NEW G, InOrder(w, f, G, G, G), w.at = "upsert",
           UniqueNames(G), UniqueNames(Body[w.version]),
           NEW u, u.at = "prune", u.version = w.version,
           u.changed = w.changed, u.removed = w.removed
    PROVE  InOrder(u, u.version,
                   Without(G, Names(w.changed)) \cup w.changed, G, G)
<1> DEFINE all == Body[w.version]
           new == all \ G
           removed == Names(G) \ Names(all)
<1>1. w.version \in Version /\ w.changed = new /\ w.removed = removed
    BY DEF InOrder
<1>2. /\ Only(Without(G, Names(new)) \cup new, Names(all)) = all
      /\ Without(Without(G, Names(new)) \cup new, removed) = all
      /\ Only(G, Kept(all, new)) \subseteq all
    <2>1. UniqueNames(G) /\ UniqueNames(all)
        OBVIOUS
    <2> HIDE DEF all
    <2> QED BY ONLY <2>1, DeltaApplies
<1>3. RowsDue(u, G) = all
    BY <1>1, <1>2 DEF RowsDue
<1> QED BY <1>1, <1>2, <1>3 DEF InOrder, Writing

\* The prune leaves the symbols of the version that was read.
LEMMA PruneInOrder ==
    ASSUME NEW w, NEW f, NEW G, NEW E, NEW V, InOrder(w, f, G, E, V),
           w.at = "prune",
           NEW u, u.at = "clear", u.version = w.version,
           u.changed = w.changed, u.removed = w.removed,
           NEW keep, keep = Names(Body[w.version])
    PROVE  InOrder(u, f, Only(G, keep), Only(E, keep), V)
<1> DEFINE all == Body[w.version]
<1>1. /\ w.version \in Version /\ f = w.version /\ w.changed \subseteq all
      /\ RowsDue(w, V) = all /\ Only(G, Names(all)) = all
      /\ Only(E, Kept(all, w.changed)) \subseteq all
    BY DEF InOrder, Writing
<1>2. RowsDue(u, V) = RowsDue(w, V)
    BY DEF RowsDue
<1>3. Only(Only(E, keep), Kept(all, w.changed)) \subseteq all
    BY <1>1 DEF Only
<1>4. Names(Only(E, keep)) \subseteq Names(all)
    BY DEF Only, Names
<1> QED BY <1>1, <1>2, <1>3, <1>4 DEF InOrder, Writing

\* The old edges of the file go.
LEMMA ClearInOrder ==
    ASSUME NEW w, NEW f, NEW G, NEW E, NEW V, InOrder(w, f, G, E, V),
           w.at = "clear",
           NEW u, u.at = "link", u.version = w.version,
           u.changed = w.changed, u.removed = w.removed,
           NEW N, N = Names(IF w.changed = {} THEN Body[w.version]
                            ELSE w.changed)
    PROVE  InOrder(u, f, G, Without(E, N), V)
<1> DEFINE all == Body[w.version]
<1>1. /\ w.version \in Version /\ f = w.version /\ w.changed \subseteq all
      /\ RowsDue(w, V) = all /\ G = all
      /\ Only(E, Kept(all, w.changed)) \subseteq all
      /\ Names(E) \subseteq Names(all)
    BY DEF InOrder, Writing
<1>2. RowsDue(u, V) = RowsDue(w, V)
    BY DEF RowsDue
<1>3. ASSUME NEW s \in E, s[1] \notin N PROVE s \in all
    <2>1. s[1] \in Names(all)
        BY <1>1 DEF Names
    <2>2. s[1] \in Kept(all, w.changed)
        BY <1>3, <2>1 DEF Kept
    <2> QED BY <1>1, <2>2 DEF Only
<1>4. Without(E, N) \subseteq all
    BY <1>3 DEF Without
<1> QED BY <1>1, <1>2, <1>4 DEF InOrder, Writing

\* The edges of the version that was read come.
LEMMA LinkInOrder ==
    ASSUME NEW w, NEW f, NEW G, NEW E, NEW V, InOrder(w, f, G, E, V),
           w.at = "link",
           NEW u, u.at = "embed", u.version = w.version,
           u.changed = w.changed, u.removed = w.removed
    PROVE  InOrder(u, f, G, E \cup Only(Body[w.version], Names(G)), V)
<1> DEFINE all == Body[w.version]
<1>1. /\ w.version \in Version /\ f = w.version /\ w.changed \subseteq all
      /\ RowsDue(w, V) = all /\ G = all /\ E \subseteq all
    BY DEF InOrder, Writing
<1>2. RowsDue(u, V) = RowsDue(w, V)
    BY DEF RowsDue
<1>3. E \cup Only(all, Names(G)) = all
    BY <1>1 DEF Only, Names
<1> QED BY <1>1, <1>2, <1>3 DEF InOrder, Writing

\* Nothing changed: no row to write.
LEMMA EmbedNothingInOrder ==
    ASSUME NEW w, NEW f, NEW G, NEW E, NEW V, InOrder(w, f, G, E, V),
           w.at = "embed", w.changed = {},
           NEW u, u.at = "drop", u.version = w.version,
           u.changed = w.changed, u.removed = w.removed
    PROVE  InOrder(u, f, G, E, V)
<1>1. Without(V, Names({})) \cup {} = V
    BY DEF Without, Names
<1>2. RowsDue(w, V) = RowsDue(u, V)
    BY <1>1 DEF RowsDue
<1> QED BY <1>2 DEF InOrder, Writing

\* The vectors of what changed are cleared, to be added next.
LEMMA EmbedInOrder ==
    ASSUME NEW w, NEW f, NEW G, NEW E, NEW V, InOrder(w, f, G, E, V),
           w.at = "embed",
           NEW u, u.at = "add", u.version = w.version,
           u.changed = w.changed, u.removed = w.removed
    PROVE  InOrder(u, f, G, E, Without(V, Names(w.changed)))
<1>1. RowsDue(w, V) = RowsDue(u, Without(V, Names(w.changed)))
    BY DEF RowsDue
<1> QED BY <1>1 DEF InOrder, Writing

\* The vectors of what changed are added.
LEMMA AddInOrder ==
    ASSUME NEW w, NEW f, NEW G, NEW E, NEW V, InOrder(w, f, G, E, V),
           w.at = "add",
           NEW u, u.at = "drop", u.version = w.version,
           u.changed = w.changed, u.removed = w.removed
    PROVE  InOrder(u, f, G, E, V \cup w.changed)
<1>1. RowsDue(w, V) = RowsDue(u, V \cup w.changed)
    BY DEF RowsDue
<1> QED BY <1>1 DEF InOrder, Writing
-----------------------------------------------------------------------------
(* The stores, step by step *)

\* What is stored of a settled file has one body per name.
LEMMA SettledNames ==
    ASSUME TypeOK, NEW p \in Path, Settled(p)
    PROVE  UniqueNames(graph[p]) /\ edges[p] = graph[p] /\ vectors[p] = graph[p]
<1>1. file[p] = None \/ file[p] \in Version
    BY DEF TypeOK
<1>2. UniqueNames(Content(p))
    BY <1>1, IndexingConstants DEF Content, UniqueNames
<1> QED BY <1>2 DEF Settled

\* Only the runner of a file writes it: nobody does while it does not.
LEMMA SoleWriter ==
    ASSUME IndexInv, NEW r \in Runner, runner[r].at # "idle",
           ~Rewrites(r, Of(r)), StoresInOrder
    PROVE  Settled(Of(r))
<1>1. Of(r) \in Path
    BY BusyPath DEF IndexInv
<1>2. ASSUME NEW q \in Runner, Rewrites(q, Of(r)) PROVE q = r
    <2>1. work[q].at \in Stage
        BY <1>2 DEF Rewrites, Writing, Stage
    <2>2. runner[q].at # "idle"
        BY <2>1 DEF IndexInv, TypeOK
    <2> QED BY <1>2, <2>2 DEF IndexInv, Turns, Apart, Rewrites, Of
<1> QED BY <1>1, <1>2 DEF StoresInOrder

\* A step of runner r inside its job writes its own file only: the others
\* keep their place.
LEMMA OthersInOrder ==
    ASSUME IndexInv, NEW r \in Runner, runner[r].at # "idle",
           NEW q \in Runner, q # r, Progress(q),
           runner'[q] = runner[q], work'[q] = work[q],
           \A p \in Path : p # Of(r) =>
              /\ file'[p] = file[p] /\ graph'[p] = graph[p]
              /\ edges'[p] = edges[p] /\ vectors'[p] = vectors[p]
    PROVE  Progress(q)'
<1>1. CASE work[q].at \in Stage
    <2>1. runner[q].at # "idle"
        BY <1>1 DEF IndexInv, TypeOK
    <2>2. Of(q) \in Path /\ Of(q) # Of(r)
        BY <2>1, BusyPath DEF IndexInv, Turns, Apart, Of
    <2> QED BY <2>2 DEF Progress, Of
<1>2. CASE work[q].at \notin Stage
    BY <1>2 DEF Progress, InOrder, Writing, Stage
<1> QED BY <1>1, <1>2

\* A step of a run inside index_file keeps the stores in order when the run
\* is in order after it, and is still writing or leaves its file settled.
LEMMA WriterStep ==
    ASSUME IndexInv, StoresInOrder, NEW r \in Runner, runner[r].at # "idle",
           runner' = runner,
           \A q \in Runner : q # r => work'[q] = work[q],
           \A p \in Path : p # Of(r) =>
              /\ file'[p] = file[p] /\ graph'[p] = graph[p]
              /\ edges'[p] = edges[p] /\ vectors'[p] = vectors[p],
           Progress(r)',
           work'[r].at \in Writing \/ Settled(Of(r))'
    PROVE  StoresInOrder'
<1>1. ASSUME NEW q \in Runner PROVE Progress(q)'
    BY <1>1, OthersInOrder DEF StoresInOrder
<1>2. ASSUME NEW p \in Path
      PROVE  Settled(p)' \/ \E q \in Runner : Rewrites(q, p)'
    <2>1. CASE p = Of(r)
        <3>1. CASE work'[r].at \in Writing
            BY <2>1, <3>1 DEF Rewrites, Of
        <3>2. CASE Settled(Of(r))'
            BY <2>1, <3>2 DEF Settled, Content, Of
        <3> QED BY <3>1, <3>2
    <2>2. CASE p # Of(r)
        <3>1. CASE Settled(p)
            BY <2>2, <3>1 DEF Settled, Content
        <3>2. CASE \E q \in Runner : Rewrites(q, p)
            <4>1. PICK q \in Runner : Rewrites(q, p)
                BY <3>2
            <4>2. q # r
                BY <2>2, <4>1 DEF Rewrites
            <4> QED BY <4>1, <4>2 DEF Rewrites, Of
        <3> QED BY <3>1, <3>2 DEF StoresInOrder
    <2> QED BY <2>1, <2>2
<1> QED BY <1>1, <1>2 DEF StoresInOrder

\* A step that touches no store, of a run that is not writing before or after.
LEMMA CalmStep ==
    ASSUME StoresInOrder, NEW r \in Runner, UNCHANGED storeVars,
           \A q \in Runner : q # r =>
              work'[q] = work[q] /\ runner'[q] = runner[q],
           work[r].at \notin Writing,
           work'[r].at \notin Writing \cup {"upsert"}
    PROVE  StoresInOrder'
<1>1. ASSUME NEW q \in Runner PROVE Progress(q)'
    <2>1. CASE q = r
        BY <2>1 DEF Progress, InOrder, Writing
    <2>2. CASE q # r
        BY <2>2 DEF StoresInOrder, Progress, Of, storeVars
    <2> QED BY <2>1, <2>2
<1>2. ASSUME NEW p \in Path
      PROVE  Settled(p)' \/ \E q \in Runner : Rewrites(q, p)'
    <2>1. CASE Settled(p)
        BY <2>1 DEF Settled, Content, storeVars
    <2>2. CASE \E q \in Runner : Rewrites(q, p)
        <3>1. PICK q \in Runner : Rewrites(q, p)
            BY <2>2
        <3>2. q # r
            BY <3>1 DEF Rewrites
        <3> QED BY <3>1, <3>2 DEF Rewrites, Of
    <2> QED BY <2>1, <2>2 DEF StoresInOrder
<1> QED BY <1>1, <1>2 DEF StoresInOrder

\* A step that touches neither the stores nor what any run is doing.
LEMMA StillStep ==
    ASSUME StoresInOrder, UNCHANGED storeVars, work' = work,
           \A q \in Runner : runner'[q].path = runner[q].path
    PROVE  StoresInOrder'
<1>1. ASSUME NEW q \in Runner PROVE Progress(q)'
    BY DEF StoresInOrder, Progress, Of, storeVars
<1>2. ASSUME NEW p \in Path
      PROVE  Settled(p)' \/ \E q \in Runner : Rewrites(q, p)'
    BY DEF StoresInOrder, Settled, Content, Rewrites, Of, storeVars
<1> QED BY <1>1, <1>2 DEF StoresInOrder
\* Going on to another stage keeps the rest of what a run knows.
LEMMA GoesOn ==
    ASSUME TypeOK, NEW r \in Runner, NEW stage, Goes(r, stage)
    PROVE  /\ work'[r].at = stage /\ work'[r].version = work[r].version
           /\ work'[r].changed = work[r].changed
           /\ work'[r].removed = work[r].removed
           /\ work'[r].allChanged = work[r].allChanged
           /\ work'[r].indexed = work[r].indexed
           /\ \A q \in Runner : q # r => work'[q] = work[q]
<1>1. work[r] \in Work /\ work \in [Runner -> Work]
    BY DEF TypeOK
<1> DEFINE w == [work[r] EXCEPT !.at = stage]
<1>2. /\ w.at = stage /\ w.version = work[r].version
      /\ w.changed = work[r].changed /\ w.removed = work[r].removed
      /\ w.allChanged = work[r].allChanged /\ w.indexed = work[r].indexed
    BY <1>1 DEF Work
<1>3. work'[r] = w /\ \A q \in Runner : q # r => work'[q] = work[q]
    BY <1>1 DEF Goes
<1> HIDE DEF w
<1> QED BY <1>2, <1>3

\* The delta is computed from the graph as it is.
LEMMA DeltaStores ==
    ASSUME IndexInv, StoresInOrder, NEW r \in Runner, Delta(r)
    PROVE  StoresInOrder'
<1>1. /\ runner[r].at = "tracked" /\ work[r].at = "delta"
      /\ runner' = runner /\ UNCHANGED storeVars
      /\ work[r].version \in Version /\ work[r] \in Work
    BY DEF Delta, Tracked, jobVars, IndexInv, Carries, TypeOK
<1>2. /\ work'[r].at = "upsert" /\ work'[r].version = work[r].version
      /\ work'[r].changed = New(r) \ graph[Of(r)]
      /\ work'[r].removed = Names(graph[Of(r)]) \ Names(New(r))
      /\ \A q \in Runner : q # r => work'[q] = work[q]
    <2> DEFINE w == [work[r] EXCEPT !.at = "upsert",
                     !.changed = New(r) \ graph[Of(r)],
                     !.removed = Names(graph[Of(r)]) \ Names(New(r))]
    <2>1. work'[r] = w /\ \A q \in Runner : q # r => work'[q] = work[q]
        BY DEF Delta, IndexInv, TypeOK
    <2>2. /\ w.at = "upsert" /\ w.version = work[r].version
          /\ w.changed = New(r) \ graph[Of(r)]
          /\ w.removed = Names(graph[Of(r)]) \ Names(New(r))
        BY <1>1 DEF Work
    <2> HIDE DEF w
    <2> QED BY <2>1, <2>2
<1>3. Progress(r)'
    BY <1>1, <1>2 DEF Progress, InOrder, Writing, New, Of, storeVars
<1>4. Settled(Of(r))
    BY <1>1, SoleWriter DEF Rewrites, Writing
<1>5. Settled(Of(r))'
    BY <1>1, <1>4 DEF Settled, Content, Of, storeVars
<1> QED BY <1>1, <1>2, <1>3, <1>5, WriterStep DEF storeVars

\* The upsert, with the delta still to be applied.
LEMMA UpsertStores ==
    ASSUME IndexInv, StoresInOrder, NEW r \in Runner, Upsert(r)
    PROVE  StoresInOrder'
<1> DEFINE p == Of(r)
<1>1. /\ runner[r].at = "tracked" /\ work[r].at = "upsert"
      /\ runner' = runner /\ edges' = edges /\ vectors' = vectors
      /\ Goes(r, "prune") /\ p \in Path /\ TypeOK
    BY BusyPath DEF Upsert, Tracked, jobVars, IndexInv
<1>2. Settled(p)
    BY <1>1, SoleWriter DEF Rewrites, Writing
<1>3. UniqueNames(graph[p]) /\ edges[p] = graph[p] /\ vectors[p] = graph[p]
    BY <1>1, <1>2, SettledNames
<1>4. /\ file'[p] = work[r].version
      /\ graph'[p] = Without(graph[p], Names(work[r].changed))
                        \cup work[r].changed
      /\ \A x \in Path : x # p => file'[x] = file[x] /\ graph'[x] = graph[x]
    BY <1>1 DEF Upsert, TypeOK
<1>5. /\ work'[r].at = "prune" /\ work'[r].version = work[r].version
      /\ work'[r].changed = work[r].changed
      /\ work'[r].removed = work[r].removed
      /\ \A q \in Runner : q # r => work'[q] = work[q]
    BY <1>1, GoesOn
<1>6. InOrder(work[r], file[p], graph[p], edges[p], vectors[p])
    BY DEF StoresInOrder, Progress
<1>7. UniqueNames(Body[work[r].version])
    <2>1. work[r].version \in Version
        BY <1>1, <1>6 DEF InOrder
    <2> QED BY <2>1, IndexingConstants DEF UniqueNames
<1>8. InOrder(work'[r], file'[p], graph'[p], edges[p], vectors[p])
    <2>1. InOrder(work[r], file[p], graph[p], graph[p], graph[p])
        BY <1>3, <1>6
    <2>2. InOrder(work'[r], work'[r].version,
                  Without(graph[p], Names(work[r].changed))
                     \cup work[r].changed, graph[p], graph[p])
        BY <1>1, <1>3, <1>5, <1>7, <2>1, UpsertInOrder
    <2> QED BY <1>3, <1>4, <1>5, <2>2
<1>9. Progress(r)'
    BY <1>1, <1>8 DEF Progress, Of
<1> QED BY <1>1, <1>4, <1>5, <1>9, WriterStep DEF Writing

\* The prune.
LEMMA PruneStores ==
    ASSUME IndexInv, StoresInOrder, NEW r \in Runner, Prune(r)
    PROVE  StoresInOrder'
<1> DEFINE p == Of(r)
<1>1. /\ runner[r].at = "tracked" /\ work[r].at = "prune"
      /\ runner' = runner /\ file' = file /\ vectors' = vectors
      /\ Goes(r, "clear") /\ p \in Path /\ TypeOK
    BY BusyPath DEF Prune, Tracked, jobVars, IndexInv
<1>2. /\ graph'[p] = Only(graph[p], Names(New(r)))
      /\ edges'[p] = Only(edges[p], Names(New(r)))
      /\ \A x \in Path : x # p => graph'[x] = graph[x] /\ edges'[x] = edges[x]
    BY <1>1 DEF Prune, TypeOK
<1>3. /\ work'[r].at = "clear" /\ work'[r].version = work[r].version
      /\ work'[r].changed = work[r].changed
      /\ work'[r].removed = work[r].removed
      /\ \A q \in Runner : q # r => work'[q] = work[q]
    BY <1>1, GoesOn
<1>4. InOrder(work[r], file[p], graph[p], edges[p], vectors[p])
    BY DEF StoresInOrder, Progress
<1>5. InOrder(work'[r], file[p], graph'[p], edges'[p], vectors[p])
    BY <1>1, <1>2, <1>3, <1>4, PruneInOrder DEF New
<1>6. Progress(r)'
    BY <1>1, <1>5 DEF Progress, Of
<1> QED BY <1>1, <1>2, <1>3, <1>6, WriterStep DEF Writing

\* The two steps on the edges.
LEMMA EdgeStores ==
    ASSUME IndexInv, StoresInOrder, NEW r \in Runner, Clear(r) \/ Link(r)
    PROVE  StoresInOrder'
<1> DEFINE p == Of(r)
<1>1. /\ runner[r].at = "tracked"
      /\ runner' = runner /\ file' = file /\ vectors' = vectors
      /\ graph' = graph /\ p \in Path /\ TypeOK
    <2>1. runner[r].at = "tracked"
        BY DEF Clear, Link, Tracked
    <2> QED BY <2>1, BusyPath DEF Clear, Link, jobVars, IndexInv
<1>2. \A x \in Path : x # p => edges'[x] = edges[x]
    BY <1>1 DEF Clear, Link, TypeOK
<1>3. InOrder(work[r], file[p], graph[p], edges[p], vectors[p])
    BY DEF StoresInOrder, Progress
<1>4. CASE Clear(r)
    <2>1. work[r].at = "clear" /\ Goes(r, "link")
          /\ edges'[p] = Without(edges[p], Refresh(r))
        BY <1>1, <1>4 DEF Clear, Tracked, TypeOK
    <2>2. /\ work'[r].at = "link" /\ work'[r].version = work[r].version
          /\ work'[r].changed = work[r].changed
          /\ work'[r].removed = work[r].removed
          /\ \A q \in Runner : q # r => work'[q] = work[q]
        BY <1>1, <2>1, GoesOn
    <2>3. InOrder(work'[r], file[p], graph[p], edges'[p], vectors[p])
        BY <1>3, <2>1, <2>2, ClearInOrder DEF Refresh, New
    <2>4. Progress(r)'
        BY <1>1, <2>3 DEF Progress, Of
    <2> QED BY <1>1, <1>2, <2>2, <2>4, WriterStep DEF Writing
<1>5. CASE Link(r)
    <2>1. work[r].at = "link" /\ Goes(r, "embed")
          /\ edges'[p] = edges[p] \cup Only(New(r), Names(graph[p]))
        BY <1>1, <1>5 DEF Link, Tracked, TypeOK
    <2>2. /\ work'[r].at = "embed" /\ work'[r].version = work[r].version
          /\ work'[r].changed = work[r].changed
          /\ work'[r].removed = work[r].removed
          /\ \A q \in Runner : q # r => work'[q] = work[q]
        BY <1>1, <2>1, GoesOn
    <2>3. InOrder(work'[r], file[p], graph[p], edges'[p], vectors[p])
        BY <1>3, <2>1, <2>2, LinkInOrder DEF New
    <2>4. Progress(r)'
        BY <1>1, <2>3 DEF Progress, Of
    <2> QED BY <1>1, <1>2, <2>2, <2>4, WriterStep DEF Writing
<1> QED BY <1>4, <1>5

\* An upsert of a small file never clears the table.
LEMMA NeverBulk ==
    ASSUME SmallFiles, NEW v \in Version, NEW new \in SUBSET Body[v]
    PROVE  ~BulkReplace(Cardinality(new))
<1>1. IsFiniteSet(Body[v]) /\ Cardinality(Body[v]) < BulkMin
    BY DEF SmallFiles
<1>2. Cardinality(new) <= Cardinality(Body[v]) /\ IsFiniteSet(new)
    BY <1>1, FS_Subset
<1>3. /\ Cardinality(new) \in Nat /\ Cardinality(Body[v]) \in Nat
      /\ BulkMin \in Nat
    BY <1>1, <1>2, FS_CardinalityType, IndexingConstants
<1>4. ~(Cardinality(new) >= BulkMin)
    BY <1>1, <1>2, <1>3
<1> QED BY <1>4 DEF BulkReplace

\* The three steps on the vectors.
LEMMA VectorStores ==
    ASSUME IndexInv, StoresInOrder, SmallFiles, NEW r \in Runner,
           Embed(r) \/ Add(r) \/ Drop(r)
    PROVE  StoresInOrder'
<1> DEFINE p == Of(r)
           new == work[r].changed
<1>1. /\ runner[r].at = "tracked" /\ work[r].at \in {"embed", "add", "drop"}
      /\ runner' = runner /\ file' = file /\ edges' = edges
      /\ graph' = graph /\ p \in Path /\ TypeOK
    <2>1. runner[r].at = "tracked" /\ work[r].at \in {"embed", "add", "drop"}
        BY DEF Embed, Add, Drop, Tracked
    <2> QED BY <2>1, BusyPath DEF Embed, Add, Drop, jobVars, IndexInv
<1>2. InOrder(work[r], file[p], graph[p], edges[p], vectors[p])
    BY DEF StoresInOrder, Progress
<1>3. /\ work[r].version \in Version /\ new \subseteq Body[work[r].version]
      /\ file[p] = work[r].version
      /\ graph[p] = Body[work[r].version] /\ edges[p] = Body[work[r].version]
      /\ RowsDue(work[r], vectors[p]) = Body[work[r].version]
    BY <1>1, <1>2 DEF InOrder, Writing
<1>4. CASE Embed(r)
    <2>1. CASE new = {} /\ Goes(r, "drop") /\ vectors' = vectors
        <3>1. /\ work'[r].at = "drop" /\ work'[r].version = work[r].version
              /\ work'[r].changed = work[r].changed
              /\ work'[r].removed = work[r].removed
              /\ \A q \in Runner : q # r => work'[q] = work[q]
            BY <1>1, <2>1, GoesOn
        <3>2. work[r].at = "embed"
            BY <1>4 DEF Embed, Tracked
        <3>3. InOrder(work'[r], file[p], graph[p], edges[p], vectors[p])
            BY <1>2, <2>1, <3>1, <3>2, EmbedNothingInOrder
        <3>4. Progress(r)'
            BY <1>1, <2>1, <3>3 DEF Progress, Of
        <3> QED BY <1>1, <2>1, <3>1, <3>4, WriterStep DEF Writing
    <2>2. CASE new # {} /\ Goes(r, "add")
               /\ vectors' = IF BulkReplace(Cardinality(new))
                             THEN [x \in Path |-> {}]
                             ELSE [vectors EXCEPT
                                      ![Of(r)] = Without(@, Names(new))]
        <3>1. /\ work'[r].at = "add" /\ work'[r].version = work[r].version
              /\ work'[r].changed = work[r].changed
              /\ work'[r].removed = work[r].removed
              /\ \A q \in Runner : q # r => work'[q] = work[q]
            BY <1>1, <2>2, GoesOn
        <3>2. work[r].at = "embed"
            BY <1>4 DEF Embed, Tracked
        <3>3. ~BulkReplace(Cardinality(new))
            BY <1>3, NeverBulk
        <3>4. /\ vectors'[p] = Without(vectors[p], Names(new))
              /\ \A x \in Path : x # p => vectors'[x] = vectors[x]
            BY <1>1, <2>2, <3>3 DEF TypeOK
        <3>5. InOrder(work'[r], file[p], graph[p], edges[p], vectors'[p])
            BY <1>2, <3>1, <3>2, <3>4, EmbedInOrder
        <3>6. Progress(r)'
            BY <1>1, <3>5 DEF Progress, Of
        <3> QED BY <1>1, <3>1, <3>4, <3>6, WriterStep DEF Writing
    <2> QED BY <1>4, <2>1, <2>2 DEF Embed
<1>5. CASE Add(r)
    <2>1. /\ work[r].at = "add" /\ Goes(r, "drop")
          /\ vectors'[p] = vectors[p] \cup new
          /\ \A x \in Path : x # p => vectors'[x] = vectors[x]
        BY <1>1, <1>5 DEF Add, Tracked, TypeOK
    <2>2. /\ work'[r].at = "drop" /\ work'[r].version = work[r].version
          /\ work'[r].changed = work[r].changed
          /\ work'[r].removed = work[r].removed
          /\ \A q \in Runner : q # r => work'[q] = work[q]
        BY <1>1, <2>1, GoesOn
    <2>3. InOrder(work'[r], file[p], graph[p], edges[p], vectors'[p])
        BY <1>2, <2>1, <2>2, AddInOrder
    <2>4. Progress(r)'
        BY <1>1, <2>3 DEF Progress, Of
    <2> QED BY <1>1, <2>1, <2>2, <2>4, WriterStep DEF Writing
<1>6. CASE Drop(r)
    <2>1. PICK stage \in {"overlay", "affects"} : Goes(r, stage)
        BY <1>6 DEF Drop
    <2>2. work'[r].at = stage /\ \A q \in Runner : q # r => work'[q] = work[q]
        BY <1>1, <2>1, GoesOn
    <2>3. /\ vectors'[p] = Without(vectors[p], work[r].removed)
          /\ \A x \in Path : x # p => vectors'[x] = vectors[x]
        BY <1>1, <1>6 DEF Drop, TypeOK
    <2>4. Progress(r)'
        BY <2>2 DEF Progress, InOrder, Writing
    <2>5. vectors'[p] = Body[work[r].version]
        BY <1>3, <1>6, <2>3 DEF Drop, Tracked, RowsDue
    <2>6. work[r].version # None
        BY <1>3, IndexingConstants
    <2>7. Settled(p)'
        BY <1>1, <1>3, <2>5, <2>6 DEF Settled, Content, Of
    <2> QED BY <1>1, <2>2, <2>3, <2>4, <2>7, WriterStep
<1> QED BY <1>4, <1>5, <1>6
-----------------------------------------------------------------------------
(* What a run still owes to the derived edges and to the cache *)

\* Symbols whose AFFECTS edges runner r is to rebuild before it ends.
OwedAffects(r) ==
    (IF work[r].at = "invalidate" THEN {} ELSE work[r].allChanged)
    \cup (IF work[r].at \in Writing \cup {"affects", "overlay"}
          THEN {Of(r)} \X Names(work[r].changed) ELSE {})

\* Files whose cached answers runner r is to drop before it ends.
OwedCache(r) ==
    work[r].indexed
    \cup (IF \/ work[r].at \in Writing \cup {"affects", "overlay"}
             \/ work[r].at = "complete" /\ ~Queued(r)
          THEN {Of(r)} ELSE {})

\* Whatever is due is owed by some runner.
Ledger ==
    /\ \A d \in affectsDue : \E r \in Runner : d \in OwedAffects(r)
    /\ \A p \in cacheDue : \E r \in Runner : p \in OwedCache(r)

\* What runner r has collected for the end of its batch; a request collects
\* nothing before it, and only a request goes through its own AFFECTS step.
Books(r) ==
    /\ runner[r].at # "failing"
    /\ work[r].indexed = {} => work[r].allChanged = {}
    /\ work[r].at = "idle" \/ (~Queued(r) /\ work[r].at # "invalidate") =>
          work[r].indexed = {}
    /\ work[r].at = "affects" => ~Queued(r)
    /\ work[r].at = "overlay" => Queued(r)

\* The invariant of runs of which none fails.
QuietInv == StoresInOrder /\ Ledger /\ \A r \in Runner : Books(r)

\* A step of runner r keeps the ledger when it still owes what stays due of
\* what it owed, and what it makes due.
LEMMA LedgerStep ==
    ASSUME Ledger, NEW r \in Runner,
           \A q \in Runner : q # r =>
              work'[q] = work[q] /\ runner'[q] = runner[q],
           affectsDue' \subseteq affectsDue \cup OwedAffects(r)',
           cacheDue' \subseteq cacheDue \cup OwedCache(r)',
           \A d \in affectsDue' : d \in OwedAffects(r) => d \in OwedAffects(r)',
           \A p \in cacheDue' : p \in OwedCache(r) => p \in OwedCache(r)'
    PROVE  Ledger'
<1>1. ASSUME NEW d \in affectsDue'
      PROVE  \E q \in Runner : d \in OwedAffects(q)'
    <2>1. CASE d \in affectsDue
        <3>1. PICK q \in Runner : d \in OwedAffects(q)
            BY <2>1 DEF Ledger
        <3>2. CASE q = r
            BY <3>1, <3>2
        <3>3. CASE q # r
            BY <3>1, <3>3 DEF OwedAffects, Of
        <3> QED BY <3>2, <3>3
    <2>2. CASE d \in OwedAffects(r)'
        BY <2>2
    <2> QED BY <2>1, <2>2
<1>2. ASSUME NEW p \in cacheDue'
      PROVE  \E q \in Runner : p \in OwedCache(q)'
    <2>1. CASE p \in cacheDue
        <3>1. PICK q \in Runner : p \in OwedCache(q)
            BY <2>1 DEF Ledger
        <3>2. CASE q = r
            BY <3>1, <3>2
        <3>3. CASE q # r
            BY <3>1, <3>3 DEF OwedCache, Of, Queued
        <3> QED BY <3>2, <3>3
    <2>2. CASE p \in OwedCache(r)'
        BY <2>2
    <2> QED BY <2>1, <2>2
<1> QED BY <1>1, <1>2 DEF Ledger

\* A step of one runner touches no other.
LEMMA RunFrame ==
    ASSUME TypeOK, NEW r \in Runner, Run(r)
    PROVE  \A q \in Runner : q # r =>
              work'[q] = work[q] /\ runner'[q] = runner[q]
<1>1. work \in [Runner -> Work] /\ runner \in [Runner -> Activity]
    BY DEF TypeOK, JobTypeOK
<1>2. \/ runner' = runner
      \/ \E a : runner' = [runner EXCEPT ![r] = a]
    <2>1. ASSUME NEW p \in Path, SelectFailed(r, p) PROVE <1>2
        BY <2>1 DEF SelectFailed
    <2>2. CASE JobStarts(r)
        BY <2>2 DEF JobStarts, StartFileJob, Retry, Insert
    <2>3. CASE JobCompletes(r)
        BY <2>3 DEF JobCompletes, MarkCompleted, UpdateStatus
    <2> QED BY <2>1, <2>2, <2>3 DEF Run, RequestBegins, GroupTakes,
            GroupBegins, SkipUnchanged, Gate, Extract, Delta, Upsert, Prune,
            Clear, Link, Embed, Add, Drop, RequestAffects, GroupIndexed,
            RequestEnds, GroupFinalizes, GroupEnds, jobVars
<1>3. work' = work \/ \E w : work' = [work EXCEPT ![r] = w]
    BY DEF Run, RequestBegins, GroupTakes, GroupBegins, SkipUnchanged,
       JobStarts, Gate, Extract, Delta, Upsert, Prune, Clear, Link, Embed,
       Add, Drop, RequestAffects, GroupIndexed, JobCompletes, RequestEnds,
       GroupFinalizes, GroupEnds, Goes
<1> QED BY <1>1, <1>2, <1>3

\* No step of a run makes its job fail.
LEMMA RunGoesOn ==
    ASSUME TypeOK, NEW r \in Runner, Run(r), runner[r].at # "failing"
    PROVE  runner'[r].at # "failing"
<1>1. runner \in [Runner -> Activity] /\ runner[r] \in Activity
    BY DEF TypeOK, JobTypeOK
<1>2. ASSUME NEW p \in Path, SelectFailed(r, p) PROVE runner'[r].at # "failing"
    BY <1>1, <1>2 DEF SelectFailed
<1>3. CASE JobStarts(r)
    BY <1>1, <1>3 DEF JobStarts, StartFileJob, Retry, Insert, Activity
<1>4. CASE JobCompletes(r)
    BY <1>1, <1>4 DEF JobCompletes, MarkCompleted, UpdateStatus, Idle
<1> QED BY <1>2, <1>3, <1>4 DEF Run, RequestBegins, GroupTakes,
        GroupBegins, SkipUnchanged, Gate, Extract, Delta, Upsert, Prune,
        Clear, Link, Embed, Add, Drop, RequestAffects, GroupIndexed,
        RequestEnds, GroupFinalizes, GroupEnds, jobVars
\* Stages in which a run owes what it upserted.
Owing == Writing \cup {"affects", "overlay"}

\* A run that goes on inside index_file, or to it, with nothing new due.
LEMMA StageMoves ==
    ASSUME TypeOK, Ledger, NEW r \in Runner, Books(r), Run(r),
           affectsDue' \subseteq affectsDue, cacheDue' \subseteq cacheDue,
           work'[r].allChanged = work[r].allChanged,
           work'[r].indexed = work[r].indexed,
           work[r].at \in Owing =>
              /\ work'[r].at \in Owing /\ Of(r)' = Of(r)
              /\ work'[r].changed = work[r].changed,
           work[r].at \notin {"complete", "invalidate"},
           work'[r].at \notin {"idle", "invalidate"},
           work'[r].at = "affects" => ~Queued(r),
           work'[r].at = "overlay" => Queued(r)
    PROVE  Ledger' /\ Books(r)'
<1>1. \A q \in Runner : q # r => work'[q] = work[q] /\ runner'[q] = runner[q]
    BY RunFrame
<1>2. OwedAffects(r) \subseteq OwedAffects(r)'
    BY DEF OwedAffects, Owing
<1>3. OwedCache(r) \subseteq OwedCache(r)'
    BY DEF OwedCache, Owing
<1>4. Ledger'
    BY <1>1, <1>2, <1>3, LedgerStep
<1>5. Books(r)'
    BY RunGoesOn DEF Books, Queued
<1> QED BY <1>4, <1>5

\* Every other step of a run.
LEMMA AccountsKept ==
    ASSUME IndexInv, QuietInv, NEW r \in Runner, Run(r)
    PROVE  Ledger' /\ Books(r)'
<1>1. /\ TypeOK /\ Ledger /\ Books(r) /\ work[r] \in Work
      /\ runner \in [Runner -> Activity]
    BY DEF IndexInv, QuietInv, TypeOK, JobTypeOK
<1>2. \A q \in Runner : q # r => work'[q] = work[q] /\ runner'[q] = runner[q]
    BY <1>1, RunFrame
<1>3. runner'[r].at # "failing"
    BY <1>1, RunGoesOn DEF Books
<1>4. ASSUME NEW p \in Path, RequestBegins(r, p) PROVE Ledger' /\ Books(r)'
    <2>1. /\ Goes(r, "gate") /\ work[r].at = "idle"
          /\ affectsDue' = affectsDue /\ cacheDue' = cacheDue
        BY <1>4 DEF RequestBegins, Goes, dueVars
    <2> QED BY <1>1, <2>1, GoesOn, StageMoves DEF Owing, Writing
<1>5. ASSUME NEW p \in Path, GroupTakes(r, p) PROVE Ledger' /\ Books(r)'
    <2> DEFINE w == [work[r] EXCEPT !.at = "gate", !.todo = work[r].todo \ {p}]
    <2>1. /\ work'[r] = w /\ work[r].at = "next"
          /\ affectsDue' = affectsDue /\ cacheDue' = cacheDue
        BY <1>1, <1>5 DEF GroupTakes, dueVars, TypeOK
    <2>2. /\ w.at = "gate" /\ w.allChanged = work[r].allChanged
          /\ w.indexed = work[r].indexed
        BY <1>1 DEF Work
    <2> HIDE DEF w
    <2> QED BY <1>1, <2>1, <2>2, StageMoves DEF Owing, Writing
<1>6. CASE SkipUnchanged(r)
    <2> DEFINE w == [work[r] EXCEPT !.at = "next",
                      !.todo = {p \in @ : file[p] # work[r].hashes[p]}]
    <2>1. /\ work'[r] = w /\ work[r].at = "hashes"
          /\ affectsDue' = affectsDue /\ cacheDue' = cacheDue
        BY <1>1, <1>6 DEF SkipUnchanged, dueVars, TypeOK
    <2>2. /\ w.at = "next" /\ w.allChanged = work[r].allChanged
          /\ w.indexed = work[r].indexed
        BY <1>1 DEF Work
    <2> HIDE DEF w
    <2> QED BY <1>1, <2>1, <2>2, StageMoves DEF Owing, Writing
<1>7. ASSUME NEW group \in SUBSET Path, GroupBegins(r, group)
      PROVE  Ledger' /\ Books(r)'
    <2> DEFINE paths == {p \in group : Indexable(p)}
               w == [Rest EXCEPT !.at = "hashes", !.todo = paths,
                        !.hashes = [p \in Path |-> IF p \in paths
                                        THEN disk[p] ELSE None]]
    <2>1. /\ work'[r] = w /\ work[r].at = "idle" /\ Queued(r)
          /\ affectsDue' = affectsDue /\ cacheDue' = cacheDue
        BY <1>1, <1>7 DEF GroupBegins, dueVars, TypeOK
    <2>2. w.at = "hashes" /\ w.allChanged = {} /\ w.indexed = {}
        BY DEF Rest
    <2> HIDE DEF w
    <2>3. work[r].indexed = {} /\ work[r].allChanged = {}
        BY <1>1, <2>1 DEF Books
    <2> QED BY <1>1, <2>1, <2>2, <2>3, StageMoves DEF Owing, Writing
<1>8. CASE JobStarts(r)
    <2>1. /\ work' = work /\ affectsDue' = affectsDue /\ cacheDue' = cacheDue
          /\ Of(r)' = Of(r)
        BY <1>1, <1>8 DEF JobStarts, StartFileJob, Retry, Insert, Of, dueVars,
           Activity
    <2>2. OwedAffects(r)' = OwedAffects(r) /\ OwedCache(r)' = OwedCache(r)
        BY <2>1 DEF OwedAffects, OwedCache, Queued
    <2> QED BY <1>1, <1>2, <1>3, <2>1, <2>2, LedgerStep DEF Books, Queued
<1>9. CASE Gate(r)
    <2>1. PICK stage : /\ Goes(r, stage)
                       /\ stage \in {"extract", "overlay", "complete"}
                       /\ stage = "overlay" => Queued(r)
        BY <1>9 DEF Gate
    <2>2. /\ work[r].at = "gate" /\ affectsDue' = affectsDue
          /\ cacheDue' = cacheDue
        BY <1>9 DEF Gate, Tracked, dueVars
    <2> QED BY <1>1, <2>1, <2>2, GoesOn, StageMoves DEF Owing, Writing
<1>10. CASE Extract(r) \/ Delta(r)
    <2>1. /\ work[r].at \in {"extract", "delta"}
          /\ affectsDue' = affectsDue /\ cacheDue' = cacheDue
        BY <1>10 DEF Extract, Delta, Tracked, dueVars
    <2>2. /\ work'[r].at \in {"delta", "upsert"}
          /\ work'[r].allChanged = work[r].allChanged
          /\ work'[r].indexed = work[r].indexed
        <3>1. CASE Extract(r)
            <4> DEFINE w == [work[r] EXCEPT !.at = "delta",
                                            !.version = disk[Of(r)]]
            <4>1. work'[r] = w
                BY <1>1, <3>1 DEF Extract, TypeOK
            <4>2. /\ w.at = "delta" /\ w.allChanged = work[r].allChanged
                  /\ w.indexed = work[r].indexed
                BY <1>1 DEF Work
            <4> HIDE DEF w
            <4> QED BY <4>1, <4>2
        <3>2. CASE Delta(r)
            <4> DEFINE w == [work[r] EXCEPT !.at = "upsert",
                     !.changed = New(r) \ graph[Of(r)],
                     !.removed = Names(graph[Of(r)]) \ Names(New(r))]
            <4>1. work'[r] = w
                BY <1>1, <3>2 DEF Delta, TypeOK
            <4>2. /\ w.at = "upsert" /\ w.allChanged = work[r].allChanged
                  /\ w.indexed = work[r].indexed
                BY <1>1 DEF Work
            <4> HIDE DEF w
            <4> QED BY <4>1, <4>2
        <3> QED BY <1>10, <3>1, <3>2
    <2> QED BY <1>1, <2>1, <2>2, StageMoves DEF Owing, Writing
<1>11. CASE Upsert(r)
    <2>1. /\ work[r].at = "upsert" /\ Goes(r, "prune") /\ runner' = runner
          /\ affectsDue' = affectsDue \cup ({Of(r)} \X Names(work[r].changed))
          /\ cacheDue' = cacheDue \cup {Of(r)}
        BY <1>11 DEF Upsert, Tracked, jobVars
    <2>2. /\ work'[r].at = "prune" /\ work'[r].changed = work[r].changed
          /\ work'[r].allChanged = work[r].allChanged
          /\ work'[r].indexed = work[r].indexed
        BY <1>1, <2>1, GoesOn
    <2>3. /\ OwedAffects(r) = work[r].allChanged
          /\ OwedAffects(r)' = work[r].allChanged
                                 \cup ({Of(r)} \X Names(work[r].changed))
        BY <2>1, <2>2 DEF OwedAffects, Writing, Of
    <2>4. /\ OwedCache(r) = work[r].indexed
          /\ OwedCache(r)' = work[r].indexed \cup {Of(r)}
        BY <2>1, <2>2 DEF OwedCache, Writing, Of
    <2>5. Ledger'
        BY <1>1, <1>2, <2>1, <2>3, <2>4, LedgerStep
    <2> QED BY <1>1, <1>3, <2>1, <2>2, <2>5 DEF Books, Queued
<1>12. CASE Prune(r) \/ Clear(r) \/ Link(r) \/ Embed(r) \/ Add(r) \/ Drop(r)
    <2>1. /\ work[r].at \in Writing /\ runner' = runner
          /\ affectsDue' \subseteq affectsDue /\ cacheDue' = cacheDue
        BY <1>12 DEF Prune, Clear, Link, Embed, Add, Drop, Tracked, Writing,
           dueVars, jobVars
    <2>2. PICK stage : /\ Goes(r, stage) /\ stage \in Owing
                       /\ stage = "overlay" => Queued(r)
                       /\ stage = "affects" => ~Queued(r)
        BY <1>12 DEF Prune, Clear, Link, Embed, Add, Drop, Owing, Writing
    <2>3. /\ work'[r].at = stage /\ work'[r].changed = work[r].changed
          /\ work'[r].allChanged = work[r].allChanged
          /\ work'[r].indexed = work[r].indexed
        BY <1>1, <2>2, GoesOn
    <2>4. stage \notin {"idle", "invalidate"}
        BY <2>2 DEF Owing, Writing
    <2>5. work[r].at \notin {"complete", "invalidate"}
        BY <2>1 DEF Writing
    <2> QED BY <1>1, <2>1, <2>2, <2>3, <2>4, <2>5, StageMoves DEF Of
<1>13. CASE RequestAffects(r)
    <2>1. /\ work[r].at = "affects" /\ Goes(r, "complete") /\ runner' = runner
          /\ affectsDue' = affectsDue \ ({Of(r)} \X Names(work[r].changed))
          /\ cacheDue' = cacheDue
        BY <1>13 DEF RequestAffects, Tracked, jobVars
    <2>2. /\ work'[r].at = "complete"
          /\ work'[r].allChanged = work[r].allChanged
          /\ work'[r].indexed = work[r].indexed
        BY <1>1, <2>1, GoesOn
    <2>3. ~Queued(r)
        BY <1>1, <2>1 DEF Books
    <2>4. /\ OwedAffects(r)' = work[r].allChanged
          /\ OwedAffects(r) = work[r].allChanged
                                \cup ({Of(r)} \X Names(work[r].changed))
        BY <2>1, <2>2 DEF OwedAffects, Writing
    <2>5. OwedCache(r)' = OwedCache(r)
        BY <2>1, <2>2, <2>3 DEF OwedCache, Writing, Of, Queued
    <2>6. Ledger'
        BY <1>1, <1>2, <2>1, <2>4, <2>5, LedgerStep
    <2> QED BY <1>1, <1>3, <2>1, <2>2, <2>6 DEF Books, Queued
<1>14. CASE GroupIndexed(r)
    <2> DEFINE w == [work[r] EXCEPT !.at = "complete",
                  !.allChanged = work[r].allChanged
                                    \cup ({Of(r)} \X Names(work[r].changed)),
                  !.indexed = work[r].indexed \cup {Of(r)}]
    <2>1. /\ work[r].at = "overlay" /\ work'[r] = w /\ runner' = runner
          /\ affectsDue' = affectsDue /\ cacheDue' = cacheDue
        BY <1>1, <1>14 DEF GroupIndexed, Tracked, jobVars, TypeOK
    <2>2. /\ w.at = "complete"
          /\ w.allChanged = work[r].allChanged
                              \cup ({Of(r)} \X Names(work[r].changed))
          /\ w.indexed = work[r].indexed \cup {Of(r)}
        BY <1>1 DEF Work
    <2> HIDE DEF w
    <2>3. Queued(r)
        BY <1>1, <2>1 DEF Books
    <2>4. OwedAffects(r)' = OwedAffects(r)
        BY <2>1, <2>2 DEF OwedAffects, Writing, Of
    <2>5. OwedCache(r)' = OwedCache(r)
        BY <2>1, <2>2, <2>3 DEF OwedCache, Writing, Of, Queued
    <2>6. Ledger'
        BY <1>1, <1>2, <2>1, <2>4, <2>5, LedgerStep
    <2> QED BY <1>1, <1>3, <2>1, <2>2, <2>3, <2>6 DEF Books, Queued
<1>15. CASE JobCompletes(r)
    <2>1. /\ work[r].at = "complete"
          /\ affectsDue' = affectsDue /\ cacheDue' = cacheDue
          /\ work'[r] = IF Queued(r) THEN NextPath(r)
                        ELSE [Rest EXCEPT !.at = "invalidate",
                                          !.indexed = {Of(r)}]
        BY <1>1, <1>15 DEF JobCompletes, Tracked, dueVars, TypeOK
    <2>2. CASE Queued(r)
        <3>1. /\ work'[r].at = "next"
              /\ work'[r].allChanged = work[r].allChanged
              /\ work'[r].indexed = work[r].indexed
            BY <1>1, <2>1, <2>2 DEF NextPath, Work
        <3>2. OwedAffects(r)' = OwedAffects(r)
            BY <2>1, <3>1 DEF OwedAffects, Writing
        <3>3. OwedCache(r)' = OwedCache(r)
            BY <2>1, <2>2, <3>1 DEF OwedCache, Writing, Queued
        <3>4. Ledger'
            BY <1>1, <1>2, <2>1, <3>2, <3>3, LedgerStep
        <3> QED BY <1>1, <1>3, <2>1, <2>2, <3>1, <3>4 DEF Books, Queued
    <2>3. CASE ~Queued(r)
        <3>1. /\ work'[r].at = "invalidate" /\ work'[r].allChanged = {}
              /\ work'[r].indexed = {Of(r)}
            BY <2>1, <2>3 DEF Rest
        <3>2. work[r].indexed = {} /\ work[r].allChanged = {}
            BY <1>1, <2>1, <2>3 DEF Books
        <3>3. OwedAffects(r) = {}
            BY <2>1, <3>2 DEF OwedAffects, Writing
        <3>4. OwedCache(r) = {Of(r)} /\ {Of(r)} \subseteq OwedCache(r)'
            BY <2>1, <2>3, <3>1, <3>2 DEF OwedCache, Writing
        <3>5. Ledger'
            BY <1>1, <1>2, <2>1, <3>3, <3>4, LedgerStep
        <3> QED BY <1>1, <1>3, <2>1, <2>3, <3>1, <3>5 DEF Books, Queued
    <2> QED BY <2>2, <2>3
<1>16. CASE GroupFinalizes(r)
    <2>1. work[r].at = "next" /\ cacheDue' = cacheDue
        BY <1>16 DEF GroupFinalizes
    <2>2. CASE work[r].indexed = {}
        <3>1. work'[r] = Rest /\ affectsDue' = affectsDue
            BY <1>1, <1>16, <2>2 DEF GroupFinalizes, TypeOK
        <3>2. OwedAffects(r) = {} /\ OwedCache(r) = {}
            BY <1>1, <2>1, <2>2 DEF OwedAffects, OwedCache, Writing, Books
        <3>3. Ledger'
            BY <1>1, <1>2, <2>1, <3>1, <3>2, LedgerStep
        <3> QED BY <1>1, <1>3, <3>1, <3>3 DEF Books, Queued, Rest
    <2>3. CASE work[r].indexed # {}
        <3>1. /\ Goes(r, "invalidate")
              /\ affectsDue' = affectsDue \ work[r].allChanged
            BY <1>16, <2>3 DEF GroupFinalizes
        <3>2. /\ work'[r].at = "invalidate"
              /\ work'[r].indexed = work[r].indexed
              /\ work'[r].allChanged = work[r].allChanged
            BY <1>1, <3>1, GoesOn
        <3>3. OwedAffects(r) = work[r].allChanged
            BY <2>1 DEF OwedAffects, Writing
        <3>4. OwedCache(r)' = OwedCache(r)
            BY <2>1, <3>2 DEF OwedCache, Writing
        <3>5. Ledger'
            BY <1>1, <1>2, <2>1, <3>1, <3>3, <3>4, LedgerStep
        <3>6. Queued(r)
            BY <1>1, <2>1, <2>3 DEF Books
        <3> QED BY <1>1, <1>3, <2>3, <3>2, <3>5, <3>6 DEF Books, Queued
    <2> QED BY <2>2, <2>3
<1>17. CASE RequestEnds(r) \/ GroupEnds(r)
    <2>1. /\ work[r].at = "invalidate" /\ work'[r] = Rest
          /\ affectsDue' = affectsDue
          /\ cacheDue' = cacheDue \ work[r].indexed
        BY <1>1, <1>17 DEF RequestEnds, GroupEnds, TypeOK
    <2>2. OwedAffects(r) = {} /\ OwedCache(r) = work[r].indexed
        BY <2>1 DEF OwedAffects, OwedCache, Writing
    <2>3. Ledger'
        BY <1>1, <1>2, <2>1, <2>2, LedgerStep
    <2> QED BY <1>3, <2>1, <2>3 DEF Books, Queued, Rest
<1> QED BY <1>4, <1>5, <1>6, <1>7, <1>8, <1>9, <1>10, <1>11, <1>12, <1>13,
           <1>14, <1>15, <1>16, <1>17 DEF Run
-----------------------------------------------------------------------------
(* The stores agree at rest *)

\* Nobody writes and nothing is due.
LEMMA QuietInvInit == Init => QuietInv
<1> SUFFICES ASSUME Init PROVE QuietInv
    OBVIOUS
<1>1. StoresInOrder
    <2>1. \A r \in Runner : work[r].at = "idle"
        BY DEF Init, Rest
    <2>2. \A r \in Runner : Progress(r)
        BY <2>1 DEF Progress, InOrder, Writing
    <2>3. \A p \in Path : Settled(p)
        BY DEF Init, Settled, Content
    <2> QED BY <2>2, <2>3 DEF StoresInOrder
<1>2. Ledger
    BY DEF Init, Ledger
<1>3. \A r \in Runner : Books(r)
    BY DEF Init, JobInit, Books, Rest, Idle
<1> QED BY <1>1, <1>2, <1>3 DEF QuietInv

\* Stages of a run that is neither writing nor about to.
Calm == {"idle", "hashes", "next", "gate", "extract", "delta", "affects",
         "overlay", "complete", "invalidate"}

\* The steps that touch the job log, the tree or the due edges only.
LEMMA CalmStores ==
    ASSUME IndexInv, StoresInOrder, NEW r \in Runner, Run(r),
           ~Delta(r), ~Upsert(r), ~Prune(r), ~Clear(r), ~Link(r), ~Embed(r),
           ~Add(r), ~Drop(r)
    PROVE  StoresInOrder'
<1>1. TypeOK /\ work[r] \in Work
    BY DEF IndexInv, TypeOK
<1>2. \A q \in Runner : q # r => work'[q] = work[q] /\ runner'[q] = runner[q]
    BY <1>1, RunFrame
<1>3. UNCHANGED storeVars
    BY DEF Run, RequestBegins, GroupTakes, GroupBegins, SkipUnchanged,
       JobStarts, Gate, Extract, RequestAffects, GroupIndexed, JobCompletes,
       RequestEnds, GroupFinalizes, GroupEnds
<1>4. CASE JobStarts(r)
    <2>1. runner'[r].path = runner[r].path /\ work' = work
        BY <1>1, <1>4 DEF JobStarts, StartFileJob, Retry, Insert, TypeOK,
           JobTypeOK, Activity
    <2>2. \A q \in Runner : runner'[q].path = runner[q].path
        BY <1>2, <2>1
    <2> QED BY <1>3, <2>1, <2>2, StillStep
<1>5. CASE ~JobStarts(r)
    <2>1. work[r].at \in Calm
        BY <1>5 DEF Run, RequestBegins, GroupTakes, GroupBegins,
           SkipUnchanged, Gate, Extract, RequestAffects, GroupIndexed,
           JobCompletes, RequestEnds, GroupFinalizes, GroupEnds, Tracked, Calm
    <2>2. work'[r].at \in Calm
        <3>1. ASSUME NEW stage \in Calm, Goes(r, stage)
              PROVE  work'[r].at \in Calm
            BY <1>1, <3>1, GoesOn
        <3>2. ASSUME NEW p \in Path, RequestBegins(r, p) \/ GroupTakes(r, p)
              PROVE  work'[r].at \in Calm
            BY <1>1, <3>2 DEF RequestBegins, GroupTakes, TypeOK, Work, Calm
        <3>3. CASE SkipUnchanged(r) \/ Extract(r)
            BY <1>1, <3>3 DEF SkipUnchanged, Extract, TypeOK, Work, Calm
        <3>4. CASE GroupIndexed(r)
            BY <1>1, <3>4 DEF GroupIndexed, TypeOK, Work, Calm
        <3>5. ASSUME NEW group \in SUBSET Path, GroupBegins(r, group)
              PROVE  work'[r].at \in Calm
            BY <1>1, <3>5 DEF GroupBegins, TypeOK, Rest, Calm
        <3>6. CASE Gate(r) \/ RequestAffects(r)
            BY <3>1, <3>6 DEF Gate, RequestAffects, Calm
        <3>7. CASE JobCompletes(r)
            BY <1>1, <3>7, NextPathTyped DEF JobCompletes, TypeOK, Rest, Calm
        <3>8. CASE RequestEnds(r) \/ GroupFinalizes(r) \/ GroupEnds(r)
            <4>1. Goes(r, "invalidate") \/ work' = [work EXCEPT ![r] = Rest]
                BY <3>8 DEF RequestEnds, GroupFinalizes, GroupEnds
            <4> QED BY <1>1, <3>1, <4>1 DEF TypeOK, Rest, Calm
        <3> QED BY <1>5, <3>2, <3>3, <3>4, <3>5, <3>6, <3>7,
               <3>8 DEF Run
    <2> QED BY <1>2, <1>3, <2>1, <2>2, CalmStep DEF Calm, Writing
<1> QED BY <1>4, <1>5

\* A step that is no failure keeps stores and accounts in order.
LEMMA QuietInvNext ==
    ASSUME IndexInv, QuietInv, SmallFiles, ~failed', [Next]_vars
    PROVE  QuietInv'
<1> USE DEF QuietInv
<1>1. CASE UNCHANGED vars \/ Develop \/ Tick
    <2>1. /\ work' = work /\ runner' = runner /\ UNCHANGED storeVars
          /\ affectsDue' = affectsDue /\ cacheDue' = cacheDue
        BY <1>1 DEF vars, dueVars, jobVars, Develop, Edit, Commit, Type, Tick,
           SecondPasses
    <2>2. StoresInOrder'
        BY <2>1, StillStep
    <2>3. Ledger' /\ \A r \in Runner : Books(r)'
        BY <2>1 DEF Ledger, OwedAffects, OwedCache, Of, Queued, Books
    <2> QED BY <2>2, <2>3
<1>2. ASSUME NEW r \in Runner, Run(r) PROVE QuietInv'
    <2>1. StoresInOrder'
        BY <1>2, DeltaStores, UpsertStores, PruneStores, EdgeStores,
           VectorStores, CalmStores
    <2>2. Ledger' /\ Books(r)'
        BY <1>2, AccountsKept
    <2>3. ASSUME NEW q \in Runner, q # r PROVE Books(q)'
        <3>1. work'[q] = work[q] /\ runner'[q] = runner[q]
            BY <1>2, <2>3, RunFrame DEF IndexInv
        <3> QED BY <3>1 DEF Books, Queued
    <2> QED BY <2>1, <2>2, <2>3
<1>3. ASSUME NEW r \in Runner, Fail(r) PROVE FALSE
    BY <1>3 DEF Fail, Raise, JobFails, MarkFailed, JobLogRaises, GroupRaises,
       Fails, Books
<1>4. ~Restart
    BY DEF Restart, Fails
<1> QED BY <1>1, <1>2, <1>3, <1>4 DEF Next

\* At rest nobody writes and nobody owes.
LEMMA QuietAtRest == QuietInv => StoresAgreeAtRest
<1> SUFFICES ASSUME QuietInv, Resting
             PROVE  (\A p \in Path : Agrees(p)) /\ affectsDue = {}
                        /\ cacheDue = {}
    BY DEF StoresAgreeAtRest
<1>1. \A p \in Path : Settled(p)
    BY DEF QuietInv, StoresInOrder, Rewrites, Writing, Resting
<1>2. \A r \in Runner : OwedAffects(r) = {} /\ OwedCache(r) = {}
    BY DEF QuietInv, Resting, Books, OwedAffects, OwedCache, Writing
<1>3. affectsDue = {} /\ cacheDue = {}
    BY <1>2 DEF QuietInv, Ledger
<1> QED BY <1>1, <1>3 DEF Settled, Content, Agrees

\* A failure is never forgotten.
LEMMA FailedStays ==
    ASSUME failed = TRUE, [Next]_vars
    PROVE  failed' = TRUE
<1>1. CASE UNCHANGED vars \/ Develop \/ Restart \/ Tick
    BY <1>1 DEF vars, treeVars, Develop, Edit, Commit, Type, Restart, Tick,
       Fails
<1>2. ASSUME NEW r \in Runner, Run(r) PROVE failed' = TRUE
    BY <1>2 DEF Run, treeVars, RequestBegins, GroupTakes, GroupBegins,
       SkipUnchanged, JobStarts, Gate, Extract, Delta, Upsert, Prune, Clear,
       Link, Embed, Add, Drop, RequestAffects, GroupIndexed, JobCompletes,
       RequestEnds, GroupFinalizes, GroupEnds
<1>3. ASSUME NEW r \in Runner, Fail(r) PROVE failed' = TRUE
    BY <1>3 DEF Fail, Raise, JobFails, JobLogRaises, GroupRaises, Fails,
       treeVars
<1> QED BY <1>1, <1>2, <1>3 DEF Next

\* Until the first failure, and as long as no upsert is large enough to clear
\* the table, the four stores agree on one version of each file whenever nobody
\* runs, and no AFFECTS edge or cached answer is left to rebuild: for any number
\* of queue runners and requests interleaved with edits and commits.
THEOREM IndexingStoresAgree ==
    Exclusive /\ SmallFiles => (Spec => []StoresAgreeAtRest)
<1> SUFFICES ASSUME Exclusive, SmallFiles
             PROVE  Spec => []StoresAgreeAtRest
    OBVIOUS
<1> DEFINE Inv == failed = FALSE => QuietInv
<1>1. Init => Inv
    BY QuietInvInit
<1>2. IndexInv /\ Inv /\ [Next]_vars => Inv'
    <2> SUFFICES ASSUME IndexInv, Inv, [Next]_vars, failed' = FALSE
                 PROVE  QuietInv'
        OBVIOUS
    <2>1. failed = FALSE
        BY FailedStays DEF IndexInv, TypeOK
    <2> QED BY <2>1, QuietInvNext
<1>3. IndexInv /\ Inv => StoresAgreeAtRest
    BY QuietAtRest DEF IndexInv, TypeOK, StoresAgreeAtRest
<1>4. Spec => []IndexInv
    BY IndexInvAlways
<1> QED BY <1>1, <1>2, <1>3, <1>4, PTL DEF Spec
=============================================================================
