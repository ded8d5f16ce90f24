SPECIFICATION LaneSpec
SYMMETRY Symmetry
CHECK_DEADLOCK FALSE
CONSTANTS
    a = a
    b = b
    c = c
    d = d
    Run = {a, b, c, d}
    Threshold = 2
    MaxClock = 3
INVARIANTS
    StreakHalts
    HaltsAreKnown
