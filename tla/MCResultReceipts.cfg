SPECIFICATION ReceiptsFairSpec
CONSTANTS
    None = None
    Notices = {1, 2, 3}
    Requests = {1, 2}
    PageTTL = 1
    Retention = 1
    WriteLag = 0
    MaxTime = 1
    MaxVersion = 3
INVARIANTS NewerNeverRefused ResendReplacesSeen
PROPERTIES DesktopCatchesUp
CHECK_DEADLOCK FALSE
