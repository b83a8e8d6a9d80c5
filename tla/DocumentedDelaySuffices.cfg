SPECIFICATION Spec
CONSTANTS
    StartTime = 3
    EndTime = 9
    Tweets <- Tweets345
    K = 2
    Period = 2
    Delay = 2
    Lag = 0
    Latency = 0
    PollCount = 3
    PageSize = 1
    Limits <- NoLimits
    MaxFailures = 0
    MaxStarts = 1
    MaxCrashes = 0
INVARIANT DocumentedDelaySuffices
CHECK_DEADLOCK FALSE
