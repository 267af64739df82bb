\* The sidecar restarts, git or a store fails.
SPECIFICATION FaultySpec
CONSTANTS
    Path = {p1}
    Version = {v1, v2}
    None = None
    Workspace = {ws}
    Namespace = {ws}
    IndexOf <- SameId
    Poller = {poller}
    Request = {}
    Contents <- Every
    Reverting = {}
    QueueLimit = 1
    MaxCommits = 2
INVARIANT PersistedHeadIsIndexed
