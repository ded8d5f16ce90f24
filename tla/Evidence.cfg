SPECIFICATION Spec
CHECK_DEADLOCK FALSE
CONSTANTS
    Scale = 1
    None = None
    Bad = Bad
    RecordedCap <- MCRecordedCap
    UnprovenMax <- MCUnprovenMax
    ProofAge = 2
    Saved <- MCSaved
    Toml <- MCToml
    Amount <- MCAmount
    Body <- MCBody
    Empty = Empty
    Long = Long
    MaxFields = 1
    Sold <- MCSold
    Caps <- MCCaps
    MaxDay = 2
    MaxEdits = 1
    MaxCanaries = 2
INVARIANTS
    ProvenByACanary
    AdmittedOnEvidence
