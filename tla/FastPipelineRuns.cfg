SPECIFICATION Spec
CONSTANTS
    a = a
    b = b
    m = m
    n = n
    p = p
    body1 = body1
    body2 = body2
    None = None
    File <- MCFile
    Name <- MCName
    Body <- MCBody
    Contents <- MCContents
    Initial <- MCInitial
    MaxEdits = 3
    MaxAborts = 1
INVARIANTS
    HashIsBacked
    StoresAgree
    RunCatchesUp
    RunLinksItsFiles
    SharedEdgesAreFacts
PROPERTY
    IncomingEdgesSurvive
