SPECIFICATION FairSpec
CONSTANTS
    d1 = d1
    d2 = d2
    Device <- MCDevice
    MaxSnapshots <- MCSnapshots
    MaxFence = 2
    MaxFaults <- MCFaults
INVARIANTS
    Inductive
    AcceptedAreOneLine
PROPERTIES
    SnapshotsArePublished
    ForksSurface
CHECK_DEADLOCK FALSE
