SPECIFICATION MCSpec
CONSTANTS
    seed = seed
    a = a
    b = b
    NoNode = NoNode
    Nodes <- MCNodes
    Distance <- MCDistances
    Bucket <- MCBucket
    Seeds <- MCSeeds
    FixedKey = {seed}
    BucketSize = 1
    WalkRounds = 2
    Window = 1
    MaxClock = 2
    MaxTroubles = 2
PROPERTIES
    EventuallyConnected
    EventuallyQuiet
    KeysOnlyNewer
