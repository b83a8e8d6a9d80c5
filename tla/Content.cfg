SPECIFICATION ContentSpec
CONSTANTS
    SubIds = {1, 2}
    Urls = {"f", "g"}
    NoId = 0
    Published <- ThePublished
    Requests <- TheRequests
    MaxUpdates = 3
INVARIANTS
    ContentTypeOK
    UpdatesAreSigned
CHECK_DEADLOCK FALSE
