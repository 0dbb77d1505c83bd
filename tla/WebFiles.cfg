CONSTANTS
    Clusters = {c1, c2}
    Root = root
    Sub = sub
    Dirs = {root, sub}
    Files = {f1, f2}
    AtTop = {f1}
    DirOf <- MCDirOf
    NoFile = NoFile
    NoDir = NoDir
    MaxSwitches = 1
    MaxDeletes = 2
    MaxBroken = 1
SPECIFICATION FairSpec
INVARIANTS LastAskedShown ShownIsCurrent DeletedAsConfirmed
PROPERTY LoaderEnds
CHECK_DEADLOCK FALSE
