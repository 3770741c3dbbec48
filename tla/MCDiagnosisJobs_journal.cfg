SPECIFICATION Spec
CONSTANTS
    Jobs = {j1}
    Workers = {w1, w2}
    Kinds = {"DIAGNOSIS"}
    Values = {v1, v2}
    NoOne = NoOne
    NoValue = NoValue
INVARIANTS SuccessIsNotFailed
CHECK_DEADLOCK FALSE
