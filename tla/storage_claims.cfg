SPECIFICATION FairSpec
CONSTANTS
    other = other
    Me = Me
    NoOne = NoOne
    Unlisted = Unlisted
    Records = {1, 2}
    Rivals = {other}
    Near <- MCNear
    Size <- MCSize
    Affordable <- MCAffordable
    Overhead = 2
    PerClaim = 1
    MinProfit = 1
    TxLimit = 1
    Cases <- MCCases
    MaxAge = 3
    MaxBand = 2
INVARIANTS
    InOnePlace
PROPERTIES
    KeepsClaiming
