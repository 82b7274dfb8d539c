SPECIFICATION Spec
CONSTANTS
    ana = ana
    gus = gus
    treasury = treasury
    nobody = nobody
    Users <- MCUsers
    Treasury = treasury
    Nobody = nobody
    Guarantees <- MCGuarantees
    Loans <- MCLoans
    Amounts <- MCAmounts
    Deposits <- MCDeposits
    Refunds <- MCRefunds
    InitialBalance <- MCBalance
    InitialRecord <- MCRecord
    InitialKnown <- MCKnown
    MaxHeight = 5
    MaxSales = 1
INVARIANTS
    ScheduleOK
    BooksAgree
    
PROPERTIES
    ConservedExceptSales
    LoansOnlyAdvance
CHECK_DEADLOCK FALSE
