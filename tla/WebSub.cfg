SPECIFICATION Spec
CONSTANTS
    Ids = {i1, i2, i3}
    NoId = NoId
    Hubs = {h1}
    Topics = {t1}
    NoFeed = NoFeed
    Times <- Times4
    Handlers = {w1, w2}
    StartTime = 1
    Margin = 1
    Leases <- Lease2
    Never = 99
    MaxCrashes = 1
    MaxCli = 1
    MaxReloads = 1
SYMMETRY Symmetry
INVARIANTS
    TypeOK
    StoreConsistent
    SchedulerDiesOnlyByCli
    UnsubscribeConfirmed
    NoDuplicateSubscription
    NoLostWakeup
    OldIsReplaced
PROPERTIES
    ReplacedWithoutGap
CHECK_DEADLOCK FALSE
