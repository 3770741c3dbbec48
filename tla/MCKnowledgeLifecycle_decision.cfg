SPECIFICATION Spec
CONSTANTS
    Incidents = {i1, i2}
    Families = {f1}
    Registrations = {r1}
    Clauses = {k1}
    Workers = {w1}
    Callers = {c1}
    Recurring <- TwoOrMore
    MaxAttempts = 1
    MaxCalls = 1
    None = None
SYMMETRY Symmetric
PROPERTIES DecisionStands
CHECK_DEADLOCK FALSE
