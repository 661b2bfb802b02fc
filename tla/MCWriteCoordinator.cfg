SPECIFICATION FairSpec
CONSTANTS
    w1 = w1
    r1 = r1
    Writer = {w1}
    Resolver = {r1}
    NoClient = NoClient
    Domain <- MCDomain
    MaxRevision = 1
    MaxSequence = 2
    MaxSession = 2
    MaxFence = 2
INVARIANTS
    NoCommitLost
    CapturesAreExact
PROPERTIES
    NoCommitUnderStaleToken
    ImplementsMutationLog
    NoStarvation
    LaunchReachesServing
