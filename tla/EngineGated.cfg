SPECIFICATION Spec
SYMMETRY Symmetry
CHECK_DEADLOCK FALSE
CONSTANTS
    w1 = w1
    w2 = w2
    w3 = w3
    Worker = {w1, w2, w3}
    Concurrent = FALSE
    Versioned = TRUE
    HasGate = TRUE
    HasFindExisting = TRUE
    Prefunded = FALSE
    Rollback = "refund_sender"
    MaxRetries = 1
    ManifestMayChange = FALSE
INVARIANTS
    Synced
    NoDoublePayment
    RefundAtMostOnce
    CountedOnce
    CompletedMeansPaidOut
PROPERTIES
    Lifecycle
    NothingLandsAfterExpiry
