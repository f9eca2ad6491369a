CONSTANTS
    None = None
    Identities = {i1, i2, i3}
    MaxRecords = 4
    Capacity = 3
    MaxFaults = 3
SPECIFICATION Spec
INVARIANTS
    ActivatedCaughtUp
PROPERTIES
    ImplementsLog
    SegmentsErased
CHECK_DEADLOCK FALSE
