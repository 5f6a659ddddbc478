\* One acquirer that may crash twice, two code versions.
CONSTANTS
    Acquirers = {a1}
    Configs = {c1, c2}
    Values = {v1, v2}
    PageLimit = 2
    MaxTime = 3
    MaxAttempts = 3
    MaxDirect = 0
    MaxCrashes = 2
    LateErrors = FALSE
SYMMETRY Symmetry
SPECIFICATION Spec
INVARIANTS
    OrphansAreClosed
    StrandedEvidenceIsDetectable
    InterruptedMeansNotPersisted
    CheckpointsFormAChain
    ConflictStopsAcquisition
CHECK_DEADLOCK FALSE
