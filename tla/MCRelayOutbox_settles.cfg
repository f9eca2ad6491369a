SPECIFICATION FairSpec
CONSTANTS
    None = None
    RowIds = {1, 2}
    Workers = {w1}
    Tokens = {1, 2}
    Notifications <- SettleNotifications
    NetworkRetry <- OneRetry
    RateLimitRetry <- OneRetry
    ContextRetry = 1
    StaleClaim = 1
    MaxTTL = 1
    AdminTestTTL = 1
    AcceptedRetention = 1
    DeadLetterRetention = 1
    RetentionBatch = 1
    MaxTime = 3
    MaxAttempts = 1
INVARIANTS StoredOnce AckedIsStored
PROPERTIES SettlesUnlessOrphaned
CHECK_DEADLOCK FALSE
