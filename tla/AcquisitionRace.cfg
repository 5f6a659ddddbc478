\* Two acquirers: one resumes while the other is between attempt and commit.
CONSTANTS
    Acquirers = {a1, a2}
    Configs = {c1}
    Values = {v1, v2}
    PageLimit = 2
    MaxTime = 2
    MaxAttempts = 2
    MaxDirect = 0
    MaxCrashes = 0
    LateErrors = FALSE
SYMMETRY Symmetry
SPECIFICATION Spec
INVARIANT InterruptedMeansNotPersisted
CHECK_DEADLOCK FALSE
