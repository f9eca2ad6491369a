SPECIFICATION Spec
CONSTANTS
    None = None
    RowIds = {1}
    Workers = {w1, w2}
    Tokens = {1, 2, 3}
    Notifications <- ClaimNotifications
    NetworkRetry <- OneRetry
    RateLimitRetry <- OneRetry
    ContextRetry = 1
    StaleClaim = 1
    MaxTTL = 3
    AdminTestTTL = 2
    AcceptedRetention = 4
    DeadLetterRetention = 4
    RetentionBatch = 1
    MaxTime = 4
    MaxAttempts = 3
INVARIANTS ClaimConsistent ExclusiveWithinLease RedactedWhenSettled
PROPERTIES ImplementsLifecycle
CHECK_DEADLOCK FALSE
SYMMETRY Symmetry
