SPECIFICATION Spec
CONSTANTS
    ana = ana
    gus = gus
    treasury = treasury
    nobody = nobody
    Users <- MCUsers
    Treasury = treasury
    Nobody = nobody
    Guarantees <- MCSelfGuarantees
    Loans <- MCSelfLoans
    Amounts <- MCAmounts
    Deposits <- MCNoDeposits
    Refunds <- MCRefunds
    InitialBalance <- MCBalance
    InitialRecord <- MCSelfRecord
    InitialKnown <- MCUsers
    MaxHeight = 4
    MaxSales = 1
INVARIANT
    GuaranteeBacksOneLoan
CHECK_DEADLOCK FALSE
