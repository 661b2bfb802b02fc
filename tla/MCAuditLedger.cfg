SPECIFICATION FairSpec
CONSTANTS
    Limit = 1
    MaxWrites = 2
    MaxConflicts = 1
    MaxEpoch = 2
    MaxFaults = 2
INVARIANTS
    SnapshotIsAudited
    OutboxIsDrainable
PROPERTIES
    LaunchServes
