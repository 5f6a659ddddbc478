CONSTANTS
    Ingesters = {i1, i2}
    Syncers = {s1}
    Values <- MCValues
    Readings <- MCReadings
    Aggregate <- MCAggregate
    v1 = v1
    v2 = v2
    w1 = w1
    v11 = v11
    v12 = v12
    v21 = v21
    v22 = v22
    Cutoffs = {4}
    PageLimit = 4
    MaxTime = 5
    MaxIngests = 2
    MaxSnapshots = 4
SYMMETRY Symmetry
SPECIFICATION Spec
INVARIANTS
    TypeOK
    SynchronizationsReload
    TenMinuteMatchesUnlessConflict
    FinishedIngestLeavesNoPair
PROPERTIES
    PastCutoffsAreSettled
    ImplementsLedger
CHECK_DEADLOCK FALSE
