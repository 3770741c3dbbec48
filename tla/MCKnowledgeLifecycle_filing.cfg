SPECIFICATION LiveSpec
CONSTANTS
    Incidents = {i1, i2}
    Families = {f1, f2}
    Registrations = {r1}
    Clauses = {k1}
    Workers = {w1}
    Callers = {}
    Recurring <- TwoOrMore
    MaxAttempts = 3
    MaxCalls = 0
    None = None
INVARIANTS SucceededIsShown
PROPERTIES EveryIncidentIsFiled
CHECK_DEADLOCK FALSE
