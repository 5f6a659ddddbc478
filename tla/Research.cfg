CONSTANTS
    Procs = {p1, p2}
    Families = {ridge, forest}
    Trees = {forest}
    Ridge = ridge
    Configs = {official, other}
    Registered = official
    Kinds <- MCKinds
    MaxRuns = 2
    MaxCopies = 1
    MaxReports <- MCMaxReports
    ReportBound = 1
    SelectionBound = 1
    MaxDrafts = 1
SYMMETRY Symmetry
SPECIFICATION Spec
INVARIANTS
    TypeOK
    OneActiveRun
    HoldoutOpenedOnce
    SelectionIsCoherent
PROPERTIES
    ConsumedRunIsCurrent
CHECK_DEADLOCK FALSE
