SPECIFICATION FairSpec
CONSTANTS
    Diffs <- AnyDiff
    FaultPoints <- Anywhere
    MaxFaults = 4
    MaxWrites = 2
INVARIANTS
    WorkspaceIsWhole
PROPERTIES
    NeitherStateIsLost
    RestoreConverges
