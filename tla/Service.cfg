SPECIFICATION FairSpec
CHECK_DEADLOCK FALSE
CONSTANTS
    p = p
    q = q
    d = d
    Request = {p, q, d}
    Capacity = 1
    MaxRefill = 1
INVARIANTS
    StrangersShareABucket
    WaitingClientsAreNotSevered
PROPERTIES
    NothingStartsWhileDraining
    ShutdownEnds
