\* One file that nobody edits, a request and its retry, store calls that raise.
SPECIFICATION Spec
CONSTANTS
    Path = {p1}
    Runner = {s}
    QueueRunner = {}
    MaxAttempts = 3
    MaxJobs = 3
    LastSecond = 0
    Exclusive = TRUE
    None = None
    Name <- Uids
    Hash <- Bodies
    Version <- Contents
    Body <- Symbols
    BulkMin = 512
    BulkPercent = 85
    MaxEdits = 0
INVARIANT
    DivergenceIsVisible
