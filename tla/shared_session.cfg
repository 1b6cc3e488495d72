SPECIFICATION Spec
CONSTANTS
    NoTask = NoTask
    SessionHolder = SessionHolder
    w1 = w1
    w2 = w2
    NumSubs = 2
    MaxAttempts = 2
    LeaseTicks = 1
    Workers = {w1, w2}
    Offered = {"profile"}
    SlowWorkers = FALSE
    EarlyFailures = FALSE
    RequestsOverlap = FALSE
    MaxCrashes = 0
    MaxDuplicates = 1
    MaxRegens = 0
    MaxCancels = 1
SYMMETRY WorkerSymmetry
INVARIANTS
    OneWorkerPerSubsystem
    LockBacksWork
    RunOwnsStage
    OnlyWaitersAreLate
    AcceptedUntouched
    ReviewHasResults
    AcceptedAtBarrier
PROPERTIES
    ImplementsLifecycle
