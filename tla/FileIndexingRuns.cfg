\* One file, the queue and a request that take turns, every failure and restart,
\* up to two attempts over two job rows, within two seconds.
SPECIFICATION Spec
CONSTANTS
    Path = {p1}
    Runner = {q, s}
    QueueRunner = {q}
    MaxAttempts = 2
    MaxJobs = 2
    LastSecond = 1
    Exclusive = TRUE
    None = None
    Name <- Uids
    Hash <- Bodies
    Version <- Contents
    Body <- Symbols
    BulkMin = 512
    BulkPercent = 85
    MaxEdits = 1
INVARIANTS
    StoresAgreeAtRest
    StoredHashIsBacked
    RetryBudget
PROPERTY
    VectorsFollowGraph
