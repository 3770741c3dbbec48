SPECIFICATION FairSpec
CONSTANTS
    Attempts = {a1}
    Approvals = {p1}
    Executors = {e1, e2}
    NoOne = NoOne
    ApprovalTerm = 3
    AuthTerm = 2
    LeaseTerm = 1
    VerifyTerm = 1
    FreshTerm = 1
    MaxTime = 5
    MaxCrashes = 1
    ProvenRejection = TRUE
INVARIANTS SingleDriver CountIsTrue
PROPERTIES SendIsFenced TerminalIsFinal IntentIsCurrent AttemptsSettle
CHECK_DEADLOCK FALSE
