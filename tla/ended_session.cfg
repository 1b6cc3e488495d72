SPECIFICATION Spec
CONSTANTS
    NoTask = NoTask
    SessionHolder = SessionHolder
    w1 = w1
    NumSubs = 1
    MaxAttempts = 2
    LeaseTicks = 1
    Workers = {w1}
    Offered = {"profile"}
    SlowWorkers = FALSE
    EarlyFailures = FALSE
    RequestsOverlap = TRUE
    MaxCrashes = 0
    MaxDuplicates = 0
    MaxRegens = 0
    MaxCancels = 1
PROPERTIES
    EndedIsFinal
