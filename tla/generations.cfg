SPECIFICATION FairSpec
CONSTANTS
    NoTask = NoTask
    SessionHolder = SessionHolder
    w1 = w1
    NumSubs = 1
    MaxAttempts = 2
    LeaseTicks = 1
    Workers = {w1}
    Offered = {"scenario", "threat"}
    SlowWorkers = FALSE
    EarlyFailures = TRUE
    RequestsOverlap = FALSE
    MaxCrashes = 1
    MaxDuplicates = 0
    MaxRegens = 2
    MaxCancels = 0
INVARIANTS
    GenerationsMatch
    EpochOrder
    OneTaskPerGeneration
PROPERTIES
    FinishedIsFinal
    ImplementsFairLifecycle
