CONSTANTS
    None = None
    Runs = {r1}
    Policies <- MCPolicies
    Quiet = 1
    Cooldown = 2
    MaxTime = 3
    MaxEvents = 3
SPECIFICATION Spec
INVARIANTS
    NoticesFollowRun
    EndIsReported
PROPERTIES
    VerdictStands
    SettlingEnds
CHECK_DEADLOCK FALSE
