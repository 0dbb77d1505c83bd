CONSTANTS
    Nodes = {n1, n2}
    Files = {f1}
    NoRecord = NoRecord
    RetryCount = 1
    MaxLog = 1
    MaxPostFaults = 1
    MaxDownloadFaults = 1
    MaxCrashes = 1
    MaxRepairs = 0
    MaxPosts = 3
    MaxWaiting = 2
    CrashNodes = {n1, n2}
    StartedToday = {n1}
SPECIFICATION FairSpec
INVARIANTS TypeOK RecordHasFile PeersTruthful
PROPERTIES EventuallyRepaired ReachesAll ImplementsCopies
CHECK_DEADLOCK FALSE
