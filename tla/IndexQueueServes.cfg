\* Two handlers, two files and a project, start and close at any time over two
\* threads, process_ready_once beside them.  No symmetry, since a liveness
\* property is checked.
SPECIFICATION FairSpec
CONSTANTS
    FileKey = {f1, f2}
    ProjectKey = {proj}
    Payload = {u1}
    Caller = {c1, c2}
    Thread = {t1, t2}
    SyncCaller = {s1}
    MaxPending = 2
    BatchSize = 2
    Debounce = 1
    Horizon = 1
    MaxSaves = 4
    None = None
INVARIANTS
    AcceptedSavesAreOwed
    WorkIsConserved
    OneWorker
    StartedQueueIsServed
PROPERTIES
    KeepsServicePromise
    QueuedJobIsTaken
