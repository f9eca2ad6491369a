CONSTANTS
    ScopeSets <- MCScopeSets
    MaxChanges = 2
    Sessions = {s1, s2}
    Requests = {q1, q2}
    QueueCapacity = 1
    MaxPending = 1
    NoSession = NoSession
SYMMETRY Alike
SPECIFICATION Spec
INVARIANTS LiveIsRegistered RegisteredIsAuthorised
PROPERTIES NoStaleAnswer
CHECK_DEADLOCK FALSE
