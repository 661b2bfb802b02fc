SPECIFICATION FairSpec
CONSTANTS
    MaxWrites = 2
    MaxSnapshots = 2
    MaxFaults = 1
INVARIANTS
    Inductive
PROPERTIES
    EverySnapshotReplicated
    HonestInTheEnd
