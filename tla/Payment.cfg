SPECIFICATION Spec
CHECK_DEADLOCK FALSE
CONSTANTS
    None = None
    Bad = Bad
    A = A
    B = B
    m = m
    Scale = 2
    Tolerance <- MCTolerance
    TokenMargin = 1
    TokenLife = 3
    ClaimedLife = 2
    QuoteTtl = 2
    Corridors <- MCCorridors
    Asked <- MCAsked
    QuoteBodies <- MCQuoteBodies
    Prices <- MCPrices
    Records <- MCRecords
    Entries <- MCEntries
    FirstEntry <- MCFirstEntry
    GateTimeout = 1
    MaxAttempts = 2
    MaxTime = 3
    MaxMoves = 1
INVARIANTS
    PaidOnEvidence
    QuoteAddsUp
    SomewhereToPay
PROPERTIES
    GateDecides
