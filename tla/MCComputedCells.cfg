SPECIFICATION FairSpec
CONSTANTS
    Rows = 2
    MaxJobs = 6
    MaxActive = 2
    MaxEvents = 2
INVARIANTS
    FreshIsTrue
    StaleIsPursued
PROPERTIES
    JobsEnd
CHECK_DEADLOCK FALSE
