SPECIFICATION IndexFairSpec
CONSTANTS
    na = na
    nb = nb
    nc = nc
    rec = rec
    Nodes <- MCNodes
    RecordIds = {rec}
    Distance <- MCDistance
    Providers = {na, nc}
    Makers <- MCMakers
    Height <- MCHeight
    Top = 2
    Branch = 2
    PerRecord = 2
    Starts <- MCStarts
INVARIANTS
    OnlyKeepersNamed
PROPERTIES
    BranchCatchesUp
    
