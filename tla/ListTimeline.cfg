SPECIFICATION Spec
CONSTANTS
    StartTime = 6
    EndTime = 12
    Tweets <- Tweets3
    K = 2
    Period = 1
    Delay = 5
    Lag = 0
    Latency = 1
    PollCount = 3
    PageSize = 1
    Limits <- Limits8And9
    MaxFailures = 2
    MaxStarts = 2
    MaxCrashes = 1
INVARIANTS
    TypeOK
    BackfillComplete
    CaughtInTime
PROPERTIES
    RateLimitObeyed
CHECK_DEADLOCK FALSE
