SPECIFICATION FairSpec
CHECK_DEADLOCK FALSE
CONSTANTS
    w1 = w1
    w2 = w2
    Worker = {w1, w2}
    Concurrent = FALSE
    Versioned = TRUE
    HasGate = FALSE
    HasFindExisting = TRUE
    Prefunded = FALSE
    Rollback = "hold"
    MaxRetries = 1
    ManifestMayChange = FALSE
INVARIANTS
    FailedMeansNotSent
PROPERTIES
    EveryCallReturns
