SPECIFICATION FairSpec
CONSTANTS
    None = None
    Ids = {n1}
    Policies <- MCPolicies
    DefaultPolicy <- MCDefault
    RetryLimit = 1
    MaxAttempts = 2
    MaxRevision = 2
    MaxFaults = 1
INVARIANTS
    WorkerOwnsClaim
PROPERTIES
    NoSendUnderHold
    RevokedNeverSent
    PolicyIsApplied
CHECK_DEADLOCK FALSE
