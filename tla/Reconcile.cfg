SPECIFICATION Spec
CHECK_DEADLOCK FALSE
CONSTANTS
    None = None
    Bad = Bad
    A = A
    memo = memo
    Scale = 1
    QuoteTtl = 1
    Tolerance <- MCZero
    TokenMargin = 1
    TokenLife = 1
    Records <- MCRecords
    FirstRecord <- MCFirst
    PollMs = 1
    LongestDelay = 2
    Timeout = 4
    RefundWait = 2
    StallThreshold = 2
    ExternalStall = 3
    DefaultExternalStall = 4
    AnswerTime = 1
    MaxTime = 10
    MaxMoves = 3
INVARIANTS
    WakeIsSeen
    StalledOnEvidence
    VerdictsStand
    EndsInTime
