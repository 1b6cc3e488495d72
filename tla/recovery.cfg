SPECIFICATION FairSpec
CONSTANTS
    NoTask = NoTask
    SessionHolder = SessionHolder
    w1 = w1
    NumSubs = 2
    MaxAttempts = 1
    LeaseTicks = 1
    Workers = {w1}
    Offered = {"profile"}
    SlowWorkers = FALSE
    EarlyFailures = FALSE
    RequestsOverlap = TRUE
    MaxCrashes = 1
    MaxDuplicates = 0
    MaxRegens = 0
    MaxCancels = 0
INVARIANTS
    TypeOK
    FailedIsQuiet
PROPERTIES
    Settles
    LocksEnd
    FailedMeansAllFailed
