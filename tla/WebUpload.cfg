CONSTANTS
    Indexes = {i1, i2}
    Names = {a, b}
    NoName = NoName
    MaxTries = 2
    MaxFaults = 1
SPECIFICATION FairSpec
INVARIANTS NothingForgotten StoredAsTold
PROPERTIES SendsOnlyOpen UploadMarked
CHECK_DEADLOCK FALSE
