SPECIFICATION Spec
CONSTANTS
    Analysts = {a1, a2}
    Legacy <- MCLegacy
    LastDay = 8
    Starts = {1, 3}
    Window = 2
    Horizon = 2
    Plans <- MCPlans
    MaxRuns = 2
    MaxBatches = 3
    Today = 5
    Evidence = {"seen", "other", "bad"}
    Malformed = "bad"
    PageRows <- MCPageRows
    MaxPages = 4
    Writers = {p1, p2}
    LastCandle = 7
    FeedWindows <- MCFeedWindows
    MaxFeeds = 2
    MaxResults = 3
    Period = 2
    Fast = 2
    Slow = 3
    Signal = 2
    Statistical = 2
    Clients = {c1, c2}
    Packagers = {k1, k2}
    Requests <- MCRequests
    MaxRequests = 2
    MaxRestarts = 1
    Timeframes = {"5m", "10m"}
    Natives = {"5m"}
    Pages <- MCIngestPages
    MinimumElapsed = 1
    MinimumCoverage = 90
    Lag = 1
    Cutoffs = {1}
    MaxNow = 3
    Acquisitions <- MCAcquisitions
    MaxOutcomes = 1
    MaxDisputes = 1
    MaxQuality = 1
    MaxSyncs = 1
    MaxReports = 1
INVARIANTS
    TypeOK
    ActiveRunsAreComplete
    DatasetMatchesBatch
    NoLookAhead
    PassedBackfillIsFaithful
    MembersMatchTheirSources
    EachValueInsertedOnce
    LineageExplainsValues
    AnswersAreAudited
    OneArtifactServes
    SettledReportsStand
PROPERTIES
    BackfillEnds
CHECK_DEADLOCK FALSE
