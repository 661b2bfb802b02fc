SPECIFICATION FairSpec
CONSTANTS
    Document <- MCDocument
    Path <- MCPath
    MaxContents = 3
    MaxMutations = 4
    MaxFaults = 1
INVARIANTS
    FilesFollowHead
    HistoryIsTrue
PROPERTIES
    EditsSurface
    WorkspaceOpens
CHECK_DEADLOCK FALSE
