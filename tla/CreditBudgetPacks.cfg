\* Every profile over three render modes; a class that folds, a bundle that shares
\* a symbol with it and one that is larger than the budget.
SPECIFICATION PackSpec
CONSTANTS
    Rows <- Candidates
    FileOf <- Files
    Spans <- Windows
    Profiles <- Requested
    Budget = 11
    ReserveShare = 20
    SpanShare = 10
    MaxCoverage = 65
    HeadShare = 50
    DecayRate = 50
    ProtectedHead = 1
    MinSteps = 64
INVARIANTS
    UsedIsPrinted
    PrintsWithinCredit
    StepBoundIsSlack
    RemembersForThisLimit
CHECK_DEADLOCK FALSE
