SPECIFICATION Spec
CONSTANTS
    s1 = s1
    s2 = s2
    None = None
    Committed = Committed
    Sessions <- MCSessions
    Proposals <- MCProposals
    SectorIds <- MCSectorIds
    CategoryIdOf <- MCCategoryIdOf
    SeedRows <- MCSeedRows
    Verdicts = {"confirm", "flagged"}
    MaxFailures = 1
    MaxCurations = 1
CHECK_DEADLOCK FALSE
INVARIANTS
    TypeOK
    PointersHold
    LoserGetsWinner
    OnlyAcceptedGrow
    ActorsNeverInvented
PROPERTIES
    ParentWasActive
    AcceptEnds
