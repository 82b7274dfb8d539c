SPECIFICATION Spec
CONSTANTS
    ka = ka
    kb = kb
    kc = kc
    Keys <- MCKeys
    Values = {v1, v2}
    Here = Here
    Nil = Nil
    MaxBlocks = 2
    MaxOps = 4
    MaxForgets = 1
    MaxLosses = 1
    Budget = 2
SYMMETRY Symmetry
INVARIANTS
    ReadsAgree
    RecordsExact
    ReaderGetsTrie
CHECK_DEADLOCK FALSE
