CONSTANTS
    Contents = {a, b}
    EmptyFile = EmptyFile
    Names = {n1}
    ReNames = {NoName}
    NoName = NoName
    MaxDup = 1
    Workers = {w1, w2}
    Removers = {r1}
    Checkers = {c1}
    MaxLog = 1
    EnableDistinctFile = TRUE
    NoContent = NoContent
    Partial = Partial
    NoPath = NoPath
SPECIFICATION Spec
CONSTRAINT NoClash
INVARIANTS TypeOK UndeletedReadable UndeletedIndexed
CHECK_DEADLOCK FALSE
