SPECIFICATION Spec
CONSTANTS
    Attempts = {a1, a2}
    Approvals = {p1, p2}
    Executors = {e1}
    NoOne = NoOne
    ApprovalTerm = 3
    AuthTerm = 2
    LeaseTerm = 1
    VerifyTerm = 1
    FreshTerm = 1
    MaxTime = 4
    MaxCrashes = 0
    ProvenRejection = TRUE
SYMMETRY Symmetric
INVARIANTS TypeOK AuthorityIsUnique AtMostOneWrite WriteIsEarned
PROPERTY KeepsPromise
CHECK_DEADLOCK FALSE
