\* The acknowledgement of a committed write may be lost.
CONSTANTS
    Acquirers = {a1}
    Configs = {c1, c2}
    Values = {v1, v2}
    PageLimit = 2
    MaxTime = 2
    MaxAttempts = 2
    MaxDirect = 0
    MaxCrashes = 2
    LateErrors = TRUE
SYMMETRY Symmetry
SPECIFICATION Spec
INVARIANT StrandedEvidenceIsDetectable
CHECK_DEADLOCK FALSE
