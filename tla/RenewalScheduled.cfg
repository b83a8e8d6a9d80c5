SPECIFICATION Spec
CONSTANTS
    Ids = {i1, i2, i3}
    NoId = NoId
    Hubs = {h1, h2}
    Topics = {t1}
    NoFeed = NoFeed
    Times <- Times6
    Handlers = {w1}
    StartTime = 1
    Margin = 1
    Leases <- Lease3
    Never = 99
    MaxCrashes = 0
    MaxCli = 0
    MaxReloads = 0
INVARIANTS
    RenewalScheduled
CHECK_DEADLOCK FALSE
