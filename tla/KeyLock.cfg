CONSTANTS
    Procs = {p1, p2, p3}
    Keys = {k1, k2}
    Mutexes = {m1, m2, m3, m4, m5}
    NoMutex = NoMutex
    NoKey = NoKey
SPECIFICATION FairSpec
INVARIANTS NoFatalUnlock ExclusiveUntilHandoff
PROPERTIES StrandedForever EveryCallReturns
CHECK_DEADLOCK FALSE
