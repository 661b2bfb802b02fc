SPECIFICATION Spec
CONSTANTS
    Rows = 2
    MaxJobs = 6
    MaxActive = 2
    MaxEvents = 2
INVARIANTS
    FreshChainIsTrue
CHECK_DEADLOCK FALSE
