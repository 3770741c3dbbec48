SPECIFICATION FairSpec
CONSTANTS
    Attempts = {a1}
    Approvals = {p1}
    Executors = {e1}
    NoOne = NoOne
    ApprovalTerm = 3
    AuthTerm = 2
    LeaseTerm = 1
    VerifyTerm = 1
    FreshTerm = 1
    MaxTime = 5
    MaxCrashes = 1
    ProvenRejection = FALSE
PROPERTY DoubtIsReported
CHECK_DEADLOCK FALSE
