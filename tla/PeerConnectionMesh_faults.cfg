SPECIFICATION FairSpec
CONSTANTS
    Ids = {1, 2}
    MaxRetry = 2
    FaultSets = {{"refused"}, {"refused", "sync"}, {"refused", "sync", "short"}, {"refused", "other", "sync", "short"}}
INVARIANTS
    TypeOK
    Assertions
    Listening
    LoggedOutStaysOut
    RefusedRetried
PROPERTIES
    ImplementsLink
    SignInEnds
