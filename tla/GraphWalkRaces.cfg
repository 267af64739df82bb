\* Every walk over every small graph, while batches replace the rows.
SPECIFICATION Spec
CONSTANTS
    Symbol <- Uids
    External = {x1}
    File <- Files
    FileOf <- Places
    Class = {2}
    TestFile = {"t"}
    Graphs <- Calls
    Requests <- Walks
    Walker = {w1}
    None = None
    MaxRelinks = 1
INVARIANTS
    VisitsInLayers
    AnswersLikeTheQuery
    OnlySpoiltGoesStale
PROPERTY
    EmptyIsConfirmed
