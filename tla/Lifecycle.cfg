SPECIFICATION LifecycleSpec
CONSTANTS
    Tasks = {t1, t2}
    Processes = {me, other}
    Me = me
    MaxReplacements = 1
    NoInode = nofile
    NoSocket = nothing
    Stale = stale
    Documents <- OneDocuments
    ManifestPath <- OnePath
    Databases <- OneDatabases
    DefaultUrl <- OneDefault
    Tables <- OneTables
    MaxRequests = 1
    MaxChanges = 2
INVARIANTS
    LifecycleTypeOK
    WaitsForAll
    ServerIsReachable
    TokensCoverRouter
    Consistent
    AnsweredMeansDone
SYMMETRY Symmetry
CHECK_DEADLOCK FALSE
