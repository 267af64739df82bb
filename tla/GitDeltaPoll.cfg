\* One thread that polls and answers requests; a queue that holds every file.
\* One file has every content, the other one or none; contents come back.
SPECIFICATION FairSpec
CONSTANTS
    Path = {"p1", "p2"}
    Version = {"v1", "v2"}
    None = None
    Workspace = {ws}
    Namespace = {ws}
    IndexOf <- SameId
    Poller = {t}
    Request = {t}
    Contents <- Kinds
    Reverting = {"p1", "p2"}
    QueueLimit = 2
    MaxCommits = 3
INVARIANTS
    StaleFileIsScheduled
PROPERTY
    CommitsReachTheIndex
