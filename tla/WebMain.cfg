CONSTANTS
    Clusters = {c1, c2}
    None = None
    Ops = {repair_stat, backup}
    ReloadOps = {repair_stat}
    MaxAsking = 1
    MaxSwitches = 2
    MaxBroken = 1
SPECIFICATION Spec
INVARIANTS TypeOK LoaderTellsRunning ShowsCluster
CHECK_DEADLOCK FALSE
