SPECIFICATION Spec
CONSTANTS
    Incidents = {i1, i2}
    Families = {f1}
    Registrations = {r1}
    Clauses = {k1}
    Workers = {w1}
    Callers = {c1, c2}
    Recurring <- TwoOrMore
    MaxAttempts = 1
    MaxCalls = 5
    None = None
SYMMETRY Symmetric
INVARIANTS TypeOK ActiveIsEarned HistoryIsTrue StatusIsEarned
PROPERTIES KeepsGovernance
CHECK_DEADLOCK FALSE
