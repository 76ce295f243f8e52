SPECIFICATION Spec
CONSTANTS
    Ids = {1, 2}
    MaxRetry = 2
    FaultSets = {{"refused", "other"}}
INVARIANT
    RetryArmed
