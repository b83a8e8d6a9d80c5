SPECIFICATION FairSpec
CONSTANTS
    Ids = {i1, i2, i3, i4}
    NoId = NoId
    Hubs = {h1, h2}
    Topics = {t1}
    NoFeed = NoFeed
    Times <- Times5
    Handlers = {w1}
    StartTime = 1
    Margin = 1
    Leases <- Leases23
    Never = 99
    MaxCrashes = 0
    MaxCli = 0
    MaxReloads = 0
PROPERTIES
    ArmedIsRenewed
CHECK_DEADLOCK FALSE
