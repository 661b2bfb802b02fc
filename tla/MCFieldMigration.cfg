SPECIFICATION FairSpec
CONSTANTS
    Jobs = 1
    Rows = 2
    BatchSize = 1
    MaxWrites = 1
    MaxCancels = 1
    MaxReplays = 1
    MaxFaults = 2
INVARIANTS
    WritesStand
    OutcomeIsTrue
PROPERTIES
    TableReopens
CHECK_DEADLOCK FALSE
