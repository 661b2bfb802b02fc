SPECIFICATION FairSpec
CONSTANTS
    a = a
    b = b
    Object <- MCObject
    Published <- MCPublished
    MaxSnapshots = 3
    Policy <- MCPolicy
    MaxUses = 1
    MaxFaults = 1
INVARIANTS
    JournalIsResumable
    NamedIsReadable
PROPERTIES
    
    TombstonesAreSwept
CHECK_DEADLOCK FALSE
