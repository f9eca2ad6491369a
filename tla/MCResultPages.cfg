SPECIFICATION Spec
CONSTANTS
    None = None
    Notices = {1, 2}
    Requests = {1}
    PageTTL = 2
    Retention = 0
    WriteLag = 1
    MaxTime = 4
    MaxVersion = 7
INVARIANTS ProjectionExact LivePageKept RevokedLinkStays
PROPERTIES VersionAdvances
CHECK_DEADLOCK FALSE
