------------------------------- MODULE JobLog -------------------------------
(***************************************************************************)
(* The durable indexing job log (src/context_engine/indexer/job_log.py,    *)
(* class IndexJobLog): one SQLite row per tracked attempt at a file, with  *)
(* a retry counter and a dead-letter state.                                *)
(*                                                                         *)
(* Every request and every batch opens an IndexJobLog of its own, so the   *)
(* lock inside one never excludes another runner, and each statement runs  *)
(* in a transaction of its own.  start_file_job is therefore two steps (a  *)
(* SELECT, then an UPDATE or INSERT) and mark_failed is two steps (a       *)
(* SELECT of the attempts, then an unconditional UPDATE).  Runners of one  *)
(* file interleave at each of them.                                        *)
(*                                                                         *)
(* Two history variables tell what such a race spoils: a runner is         *)
(* overtaken when another one writes the row it selected or wrote, and a   *)
(* row is clobbered when an overtaken runner writes it.                    *)
(***************************************************************************)
EXTENDS Naturals, Sequences

CONSTANTS
    Path,         \* targets of the jobs
    Runner,       \* callers of track_file_job, each with its own connection
    MaxAttempts,  \* max_attempts
    MaxJobs,      \* rows written (bound)
    LastSecond,   \* last value of int(time.time()) (bound)
    None          \* no path

ASSUME JobLogConstants ==
    /\ MaxAttempts \in Nat \ {0} /\ MaxJobs \in Nat /\ LastSecond \in Nat
    /\ None \notin Path

VARIABLES
    jobs,    \* the table index_jobs, by row id
    second,  \* int(time.time())
    runner,  \* each runner's place in track_file_job
    overtaken,  \* history: runners whose row another runner wrote since
    clobbered   \* history: rows written by an overtaken runner

historyVars == <<overtaken, clobbered>>
jobVars == <<jobs, second, runner, historyVars>>

Status == {"running", "failed", "completed", "dead_letter"}
Job == [target: Path, status: Status, attempts: Nat, updated_at: Nat]

TERMINAL_STATUSES == {"completed", "dead_letter"}

\* at: before the call, between the SELECT and the write of start_file_job,
\* in the tracked block, between the SELECT and the UPDATE of mark_failed.
\* row is the row selected (0 for none), seen the attempts read from it,
\* now the second at which start_file_job was called, until it returns.
Activity == [at: {"idle", "starting", "tracked", "failing"},
             path: Path \cup {None}, row: Nat, seen: Nat, now: Nat]

Idle == [at |-> "idle", path |-> None, row |-> 0, seen |-> 0, now |-> 0]

Rows == DOMAIN jobs

\* Fault: the SELECT reopens the file's last row, also when it completed.
LastRows(p) ==
    {i \in Rows : jobs[i].target = p
                     /\ jobs[i].status \in {"failed", "completed"}}

\* WHERE target = ? AND status = 'failed'
FailedRows(p) ==
    {i \in Rows : jobs[i].target = p /\ jobs[i].status = "failed"}

\* ORDER BY updated_at DESC, id DESC
Later(i, j) ==
    \/ jobs[i].updated_at > jobs[j].updated_at
    \/ jobs[i].updated_at = jobs[j].updated_at /\ i >= j

JobInit ==
    /\ jobs = <<>>
    /\ second = 0
    /\ runner = [r \in Runner |-> Idle]
    /\ overtaken = {} /\ clobbered = {}

\* Runner r writes row i.
Writes(r, i) ==
    /\ overtaken' = (overtaken \ {r})
                       \cup {q \in Runner \ {r} : runner[q].row = i}
    /\ clobbered' = IF r \in overtaken THEN clobbered \cup {i} ELSE clobbered

-----------------------------------------------------------------------------
\* The first statement of start_file_job: the latest failed row, if any.
SelectFailed(r, p) ==
    /\ runner[r].at = "idle"
    /\ \/ /\ FailedRows(p) = {}
          /\ runner' = [runner EXCEPT
                ![r] = [at |-> "starting", path |-> p, row |-> 0, seen |-> 0,
                        now |-> second]]
       \/ \E i \in FailedRows(p) :
             /\ \A j \in FailedRows(p) : Later(i, j)
             /\ runner' = [runner EXCEPT
                   ![r] = [at |-> "starting", path |-> p, row |-> i,
                           seen |-> jobs[i].attempts, now |-> second]]
    /\ UNCHANGED <<jobs, second, historyVars>>

\* The row is retried: its UPDATE names the id only, whatever the row has
\* become, and the attempts are those the SELECT saw, plus one.
Retry(r) ==
    /\ runner[r].at = "starting" /\ runner[r].row # 0
    /\ jobs' = [jobs EXCEPT ![runner[r].row] =
                   [@ EXCEPT !.status = "running",
                             !.attempts = runner[r].seen + 1,
                             !.updated_at = runner[r].now]]
    /\ runner' = [runner EXCEPT ![r] = [@ EXCEPT !.at = "tracked", !.now = 0]]
    /\ Writes(r, runner[r].row)
    /\ UNCHANGED second

\* No failed row: a new one.
Insert(r) ==
    /\ runner[r].at = "starting" /\ runner[r].row = 0
    /\ Len(jobs) < MaxJobs
    /\ jobs' = Append(jobs, [target |-> runner[r].path, status |-> "running",
                             attempts |-> 1,
                             updated_at |-> runner[r].now])
    /\ runner' = [runner EXCEPT ![r] = [@ EXCEPT !.at = "tracked", !.now = 0,
                                                 !.row = Len(jobs) + 1]]
    /\ UNCHANGED <<second, historyVars>>

StartFileJob(r) == Retry(r) \/ Insert(r)

\* _update_status, and the runner is done with the row.
UpdateStatus(r, status) ==
    /\ jobs' = [jobs EXCEPT ![runner[r].row] =
                   [@ EXCEPT !.status = status, !.updated_at = second]]
    /\ runner' = [runner EXCEPT ![r] = Idle]
    /\ Writes(r, runner[r].row)
    /\ UNCHANGED second

MarkCompleted(r) ==
    /\ runner[r].at = "tracked"
    /\ UpdateStatus(r, "completed")

\* The tracked block raised: mark_failed reads the attempts of the row.
ReadFailed(r) ==
    /\ runner[r].at = "tracked"
    /\ runner' = [runner EXCEPT ![r] =
           [@ EXCEPT !.at = "failing", !.seen = jobs[runner[r].row].attempts]]
    /\ UNCHANGED <<jobs, second, historyVars>>

\* Fault: the last attempt allowed is not the last.
MarkFailedLate(r) ==
    /\ runner[r].at = "failing"
    /\ UpdateStatus(r, IF runner[r].seen > MaxAttempts THEN "dead_letter"
                                                       ELSE "failed")

\* Then it writes the verdict.
MarkFailed(r) ==
    /\ runner[r].at = "failing"
    /\ UpdateStatus(r, IF runner[r].seen >= MaxAttempts THEN "dead_letter"
                                                        ELSE "failed")

\* The process stops inside the call, or SQLite stays locked past its busy
\* timeout and the call raises: the row stays as it is.
Abandon(r) ==
    /\ runner[r].at # "idle"
    /\ runner' = [runner EXCEPT ![r] = Idle]
    /\ overtaken' = overtaken \ {r}
    /\ UNCHANGED <<jobs, second, clobbered>>

SecondPasses ==
    /\ second < LastSecond
    /\ second' = second + 1
    /\ UNCHANGED <<jobs, runner, historyVars>>

JobNext ==
    \/ \E r \in Runner :
          \/ \E p \in Path : SelectFailed(r, p)
          \/ StartFileJob(r)
          \/ MarkCompleted(r)
          \/ ReadFailed(r)
          \/ MarkFailed(r)
          \/ Abandon(r)
    \/ SecondPasses

JobSpec == JobInit /\ [][JobNext]_jobVars

-----------------------------------------------------------------------------
(* Properties *)

\* Rows, clock and runners have their types, and a runner in the tracked
\* block holds a row of the table (start_file_job returns an id).
JobTypeOK ==
    /\ jobs \in Seq(Job)
    /\ second \in Nat
    /\ runner \in [Runner -> Activity]
    /\ \A r \in Runner :
          /\ runner[r].at # "idle" => runner[r].path \in Path
          /\ runner[r].row # 0 => runner[r].row \in Rows
          /\ runner[r].at \in {"tracked", "failing"} => runner[r].row # 0
    /\ overtaken \subseteq Runner /\ clobbered \subseteq Rows

\* mark_failed dead-letters a file "after too many attempts": no row counts
\* more than max_attempts, a row is dead-lettered exactly at the last of
\* them, and a failed row has an attempt left, whatever the runners of a file
\* do at once, but for the rows that an overtaken runner wrote.
RetryBudget ==
    \A i \in Rows \ clobbered :
       /\ jobs[i].attempts \in 1 .. MaxAttempts
       /\ jobs[i].status = "failed" => jobs[i].attempts < MaxAttempts
       /\ jobs[i].status = "dead_letter" => jobs[i].attempts = MaxAttempts

\* TERMINAL_STATUSES (job_log.py:11): a completed or dead-lettered row is
\* written again by an overtaken runner only, which claimed the row before it
\* got that status; no later call takes it up.
TerminalRowsStay ==
    [][\A i \in Rows : jobs[i].status \in TERMINAL_STATUSES
          => jobs'[i] = jobs[i] \/ i \in clobbered']_jobVars
=============================================================================
