SPECIFICATION FairSpec
CONSTANTS
    Jobs = {j1, j2}
    Workers = {w1, w2}
    Kinds = {"DIAGNOSIS", "ENVIRONMENT_VERIFY"}
    Values = {v1}
    NoOne = NoOne
    NoValue = NoValue
PROPERTIES EveryJobEnds
CHECK_DEADLOCK FALSE
