SPECIFICATION Spec
CONSTANTS
    Ids = {i1, i2, i3}
    NoId = NoId
    Hubs = {h1}
    Topics = {t1}
    NoFeed = NoFeed
    Times <- Times5
    Handlers = {w1}
    StartTime = 1
    Margin = 1
    Leases <- Lease3
    Never = 99
    MaxCrashes = 0
    MaxCli = 0
    MaxReloads = 1
PROPERTIES
    ReloadDropsRemovedTopics
CHECK_DEADLOCK FALSE
