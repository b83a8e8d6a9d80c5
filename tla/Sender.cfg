SPECIFICATION FairSpec
CONSTANTS
    SubIds = {}
    Urls = {"feed"}
    NoId = 0
    Published <- OnePublished
    Requests = {}
    Conns = {c1, c2}
    Manifests <- OneManifests
    AllTweets <- OneTweets
    Batches <- OneBatches
    AllUsers = {"a", "b"}
    MaxDeliveries = 2
    MaxReloads = 1
    MaxFaults = 1
    MaxUpdates = 0
INVARIANTS
    TypeOK
    UnaskedIsOngoing
    PostsTheAlternateLink
PROPERTIES
    WorkDrains
    BroadcastSpec
    RecordsAreKept
    RoutedByEveryRule
    ExcludedIsNotPosted
    TokensAtHand
CHECK_DEADLOCK FALSE
