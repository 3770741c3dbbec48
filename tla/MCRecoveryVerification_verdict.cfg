SPECIFICATION FairSpec
CONSTANTS
    Verifiers = {v1, v2}
    WindowLength = 1
    VerifyTerm = 3
    MaxTime = 6
INVARIANTS TypeOK RecoveredIsEarned
PROPERTIES KeepsVerdict VerdictComes
CHECK_DEADLOCK FALSE
