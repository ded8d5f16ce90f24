SPECIFICATION FairSpec
CONSTANTS
    r1 = r1
    r2 = r2
    Request = {r1, r2}
    Memo <- MCMemo
    MaxAttempts = 2
    PageBudget = 1
    HorizonLags = TRUE
INVARIANTS
    PaidAtMostOnce
    PaidMeansOnLedger
    LockExcludes
PROPERTIES
    EveryRequestResolves
