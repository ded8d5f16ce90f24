SPECIFICATION RoutingSpec
SYMMETRY Symmetry
CHECK_DEADLOCK FALSE
CONSTANTS
    a = a
    b = b
    x = x
    X = X
    y = y
    q = q
    Domain = {x, y, X}
    Canonical = {x, y}
    Signer = {a, b}
    Protocol = {"sep31", "sep6"}
    MaxDomains = 1
    Threshold = 1
    ExtendTo = 2
    RestoredFor = 1
    Intervals = {1, 3}
    MaxLedger = 4
    Reader = {q}
    Lane = {"sep31", "custom"}
    Allowed = {X}
    MaxStaleness = 1
    Submissions <- MCSubmissions
    MaxAttempts = 2
    MaxAdmin = 2
INVARIANTS
    AnswersAreTrue
    RoutedOnEvidence
    DomainsMatchRecords
    BumpKeepsAlive
PROPERTIES
    CooldownHolds
