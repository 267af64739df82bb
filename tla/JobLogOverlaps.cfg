\* Three runners of one file at once, two rows, three attempts, two seconds.
SPECIFICATION JobSpec
CONSTANTS
    Path = {p1}
    Runner = {q, s, t}
    MaxAttempts = 3
    MaxJobs = 2
    LastSecond = 1
    None = None
SYMMETRY Alike
INVARIANT
    RetryBudget
PROPERTY
    TerminalRowsStay
