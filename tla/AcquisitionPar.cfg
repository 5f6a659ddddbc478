\* Two acquirers race each other and the ingestion endpoint.
CONSTANTS
    Acquirers = {a1, a2}
    Configs = {c1}
    Values = {v1, v2}
    PageLimit = 2
    MaxTime = 2
    MaxAttempts = 2
    MaxDirect = 1
    MaxCrashes = 0
    LateErrors = TRUE
SYMMETRY Symmetry
SPECIFICATION Spec
INVARIANTS
    TypeOK
    CheckpointsVerify
    ReadBackMatches
    BatchAccounting
PROPERTIES
    AppendOnly
    ImplementsLedger
CHECK_DEADLOCK FALSE
