CONSTANTS
    Procs = {p1, p2}
    Keys = {k1}
    Mutexes = {m1, m2, m3}
    NoMutex = NoMutex
    NoKey = NoKey
    a = a
    Contents = {a, b}
    SizeOf <- MCSizeOf
    MaxSize = 2
    MaxCells = 9
SPECIFICATION SmallSpec
CONSTRAINT Bound
INVARIANTS SmallTypeOK ReadsBackUntilHandoff DisjointUntilHandoff CopyNeverWrong
CHECK_DEADLOCK FALSE
