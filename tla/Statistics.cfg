CONSTANTS
    Workers = {w1}
    Log = log
    Repairers = {r1}
    Files = {f1, f2}
    PathOf <- OwnPath
    NoDay = NoDay
    Empty = Empty
    Torn = Torn
    Window = 3
    MaxDay = 2
    MaxOps = 4
    MaxCrashes = 1
SPECIFICATION StatSpec
CONSTRAINT FewTroubles
SYMMETRY FilesAlike
INVARIANTS CountExact SavedExact
CHECK_DEADLOCK FALSE
