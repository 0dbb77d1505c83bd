CONSTANTS
    Procs = {p1, p2}
    Keys = {k1}
    Mutexes = {m1, m2}
    NoMutex = NoMutex
    NoKey = NoKey
    d = d
    Folders = {d}
    Folder <- MCFolder
    Plain = {k1}
    NoFile = NoFile
    NoFolder = NoFolder
    Size = 2
    RetryCount = 2
    MaxPosts = 2
    MaxFaults = 2
    MaxCrashes = 1
SPECIFICATION FetchSpec
INVARIANTS FetchTypeOK WholeUntilHandoff LoggedStays
SYMMETRY Symmetry
CHECK_DEADLOCK FALSE
