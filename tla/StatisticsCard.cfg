CONSTANTS
    Workers = {w1}
    Log = log
    Repairers = {r1}
    Files = {f1}
    PathOf <- OwnPath
    NoDay = NoDay
    Empty = Empty
    Torn = Torn
    Window = 3
    MaxDay = 2
    MaxOps = 2
    MaxCrashes = 0
SPECIFICATION StatSpec
INVARIANT CardOfWindow
CHECK_DEADLOCK FALSE
