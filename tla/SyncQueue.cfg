CONSTANTS
    Workers = {w1, w2}
    Feeders = {s1}
    Watch = watch
    Size = 5
    Reserve = 4
    Tries = 1
    Posts = 2
    WatchSize = 2
    MaxFeed = 3
    MaxEvents = 3
SPECIFICATION FairSpec
INVARIANTS TypeOK SendFindsRoom
PROPERTIES JamForever AllDrained
CHECK_DEADLOCK FALSE
