SPECIFICATION Spec
CONSTANTS
    NumSubs = 2
    MaxMishaps = 1
    MaxRegens = 1
    MaxInFlight = 2
CHECK_DEADLOCK FALSE
INVARIANTS
    ViewIsCurrent
    ReviewIsShown
