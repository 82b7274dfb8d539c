SPECIFICATION FairSpec
CONSTANTS
    genesis = genesis
    a1 = a1
    b1 = b1
    a2 = a2
    x2 = x2
    none = none
    Blocks <- MCBlocks
    Own <- MCOwn
    Genesis = genesis
    NoBlock = none
    Parent <- MCParent
    Height <- MCHeight
    Hash <- MCHash
    Unloadable <- MCUnloadable
    MaxHolders = 2
INVARIANTS
    LatestIsHead
    OnlyHeadsAnnounced
PROPERTIES
    NeverLower
    LeavesUnloadable
