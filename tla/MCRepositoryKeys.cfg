SPECIFICATION FairSpec
CONSTANTS
    MaxRequests = 2
    MaxFaults = 3
INVARIANTS
    NeverLockedOut
PROPERTIES
    RequestIsAnswered
    RotationSettles
