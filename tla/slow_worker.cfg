SPECIFICATION Spec
CONSTANTS
    NoTask = NoTask
    SessionHolder = SessionHolder
    w1 = w1
    w2 = w2
    NumSubs = 1
    MaxAttempts = 2
    LeaseTicks = 1
    Workers = {w1, w2}
    Offered = {"profile"}
    SlowWorkers = TRUE
    EarlyFailures = FALSE
    RequestsOverlap = TRUE
    MaxCrashes = 0
    MaxDuplicates = 1
    MaxRegens = 0
    MaxCancels = 0
SYMMETRY WorkerSymmetry
INVARIANTS
    OneWorkerPerSubsystem
