SPECIFICATION Spec
CONSTANTS
    Jobs = {j1, j2}
    Workers = {w1, w2}
    Kinds = {"DIAGNOSIS", "BASELINE_BUILD", "ENVIRONMENT_VERIFY"}
    Values = {v1, v2}
    NoOne = NoOne
    NoValue = NoValue
SYMMETRY Symmetric
INVARIANTS TypeOK HolderIsFirst JournalIsTrue
PROPERTIES OldAttemptIsSilent KeepsOutcomes
CHECK_DEADLOCK FALSE
