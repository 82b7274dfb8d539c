SPECIFICATION Spec
CONSTANTS
    ana = ana
    bob = bob
    cat = cat
    treasury = treasury
    storage = storage
    Addresses <- MCAddresses
    Treasury = treasury
    Storage = storage
    Place <- MCPlace
    Roll <- MCRoll
    Genesis <- MCGenesis
    Transactions <- MCTransactions
    Size <- MCSize
    Copies = 1
    Slot = 2
    EraSize = 8
    MaxHeight = 8
    MaxSlots = 2
    MaxQueue = 2
    MaxEvents = 3
INVARIANTS
    CleanBlocksVerify
    
    StatisticsExact
    SearchFinds
CHECK_DEADLOCK FALSE
