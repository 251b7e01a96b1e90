SPECIFICATION MCSpec
CONSTANTS
    None = None
    q1 = q1
    q2 = q2
    Calls = {c1, c2}
    Queries = {q1, q2}
    KeyOf <- OwnKeys
    Failures <- GoogleFailures
    MaxAttempts = 2
    CacheEnabled = TRUE
    CacheTtl = 1
    FailureThreshold = 2
    SuccessThreshold = 2
    ResetTimeout = 2
    MonitoringPeriod = 3
    MaxFailures = 4
INVARIANT RetryableIsRetried
