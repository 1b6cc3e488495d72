SPECIFICATION Spec
CONSTANTS
    NoTask = NoTask
    SessionHolder = SessionHolder
    Unset = Unset
    Malformed = Malformed
    NoType = NoType
    NumSubs = 1
    MaxAttempts = 2
    LeaseTicks = 1
    Types = {"A", "B"}
    CategoryOf <- MCCategoryOf
    Groundings <- MCGroundings
    Rules <- MCRules
    Context <- MCContext
    Cutoffs <- MCCutoffs
    IdBefore <- MCIdBefore
    Offered = {"scenario", "threat", "threat_type", "profile"}
    MaxProposals = 2
    MaxTargets = 2
    MaxRegens = 2
    MaxMishaps = 1
CHECK_DEADLOCK FALSE
INVARIANTS
    TypeOK
    ScenariosMatchScorings
    OrphansComeFromBroad
    UnscoredNeedsMishap
    WorkHasTask
    FirstRunSelectsBest
PROPERTIES
    SiblingsUntouched
