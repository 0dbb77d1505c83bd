CONSTANTS
    Nodes = {n1, n2, n3}
    Files = {f1}
    NoRecord = NoRecord
    RetryCount = 1
    MaxLog = 1
    MaxPostFaults = 1
    MaxDownloadFaults = 0
    MaxCrashes = 0
    MaxRepairs = 1
    MaxPosts = 2
    MaxWaiting = 1
    CrashNodes = {}
    StartedToday = {n1, n2, n3}
SPECIFICATION Spec
CONSTRAINT FewPosts OneTrouble
INVARIANTS NoPeerForgotten SourceHasFile
SYMMETRY NodesAlike
CHECK_DEADLOCK FALSE
