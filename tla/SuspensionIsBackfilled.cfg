SPECIFICATION Spec
CONSTANTS
    StartTime = 6
    EndTime = 12
    Tweets <- Tweets3
    K = 2
    Period = 1
    Delay = 5
    Lag = 0
    Latency = 1
    PollCount = 3
    PageSize = 1
    Limits <- NoLimits
    MaxFailures = 0
    MaxStarts = 3
    MaxCrashes = 1
INVARIANT SuspensionIsBackfilled
CHECK_DEADLOCK FALSE
