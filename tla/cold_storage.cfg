SPECIFICATION Spec
CONSTANTS
    Keys <- MCKeys
    Children <- MCChildren
    Threads = {t1, t2}
    BaseSize = 1
    LevelFactor = 3
    Batch = 1
    MaxLevel = 3
    MaxPuts = 3
    MaxFaults = 1
INVARIANTS
    NothingLost
    FoundOnceStored
    BatchAgrees
    ScanComplete
CHECK_DEADLOCK FALSE
