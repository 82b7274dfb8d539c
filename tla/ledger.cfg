SPECIFICATION Spec
CONSTANTS
    ana = ana
    bob = bob
    eve = eve
    storage = storage
    Users <- MCUsers
    Storage = storage
    Channels <- MCChannels
    Transactions <- MCTransactions
    Signed <- MCSigned
    StorageFees <- MCStorageFees
    InitialLive <- MCInitialLive
    InitialBalance <- MCInitialBalance
    InitialChannel <- MCInitialChannel
    MaxTime = 2
INVARIANTS
    
    Conservation
    NoReplay
    VoucherOnce
PROPERTIES
    ImplementsEscrow
    OnlySuccessActs
    CounterMovesInOrder
CHECK_DEADLOCK FALSE
