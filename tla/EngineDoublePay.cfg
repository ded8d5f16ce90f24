SPECIFICATION Spec
SYMMETRY Symmetry
CHECK_DEADLOCK FALSE
CONSTANTS
    w1 = w1
    w2 = w2
    Worker = {w1, w2}
    Concurrent = TRUE
    Versioned = TRUE
    HasGate = FALSE
    HasFindExisting = TRUE
    Prefunded = TRUE
    Rollback = "refund_sender"
    MaxRetries = 1
    ManifestMayChange = FALSE
INVARIANTS
    NoDoublePayment
