SPECIFICATION Spec
CHECK_DEADLOCK FALSE
CONSTANTS
    None = None
    Bad = Bad
    A = A
    S = S
    us = us
    memo = memo
    Scale = 1
    BaseReserve = 5
    Fee = 1
    BpsUnit = 100
    Upper <- MCUpper
    Corridors <- MCCorridors
    Openings <- MCOpenings
    Amount <- MCAmount
    OurAccounts <- MCOurAccounts
    TheirAccounts <- MCTheirAccounts
    Routes <- MCRoutes
    Us = us
    Flagged = {S}
    MaxAttempts = 2
    MaxMoves = 1
INVARIANTS
    Delivered
    GateForesees
    
    PaidOnce
