SPECIFICATION FairSpec
CONSTANTS
    k1 = k1
    c1 = c1
    s1 = s1
    s2 = s2
    Uuids = {k1}
    Clients = {c1}
    Secrets = {s1, s2}
    NoClient = NoClient
    EndpointInputs <- MCInputs
    Threshold = 3
    Cooldown = 1
    Limit = 2
    Window = 2
    MaxAttempts = 3
    RetryDelay = 1
    MaxEndpoints = 2
INVARIANTS
    TypeOK
    BreakerFollowsResults
    ReceivedOnceWhileKept
PROPERTIES
    SettledStays
    EveryRetryEnds
    OnlyRetriesEvadeControls
