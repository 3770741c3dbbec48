SPECIFICATION Spec
CONSTANTS
    Incidents = {i1, i2}
    Families = {f1, f2}
    Registrations = {r1}
    Clauses = {k1}
    Workers = {w1, w2}
    Callers = {c1}
    Recurring <- TwoOrMore
    MaxAttempts = 2
    MaxCalls = 2
    None = None
SYMMETRY Symmetric
INVARIANTS ShownIsFiled MergedIsCopied
PROPERTIES FiledOnce
CHECK_DEADLOCK FALSE
