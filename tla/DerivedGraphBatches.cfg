\* Three files, of which two share a name; closures of up to three quarters of
\* the snapshot are upserted, larger ones replace it.  A level of AFFECTS
\* keeps one dependent, so the second caller of a symbol is cut.
SPECIFICATION Spec
CONSTANTS
    Symbol <- Uids
    Path = {"p1", "p2", "p3"}
    FileOf <- Files
    Name <- Names
    NameOf <- Naming
    Absent = Absent
    Bodies <- Calling
    Initial <- Project
    SubsetPercent = 75
    MaxDepth = 2
    MaxFanout = 1
    Rank <- Order
    MaxEdits = 2
INVARIANTS
    DegreesNeverOvercount
    RowsListRealCalls
    EverySymbolHasARow
    ChangedAffectsAreExact
    ProjectCallsAreLinked
