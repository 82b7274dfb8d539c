------------------------------ MODULE Treasury ------------------------------
(***************************************************************************)
(* The treasury of the chain (consensus/transaction/treasury/): stakes,    *)
(* secured loans against them, unsecured loans backed by guarantees, the   *)
(* sale of loans, claims on overdue installments, and the stake halving    *)
(* of the validator draw (validation/validator.py).                        *)
(*                                                                         *)
(* A step is a transaction whose handler returns STATUS_SUCCESS: a failed  *)
(* handler's writes are rolled back and only fees move, which module       *)
(* Ledger models; fees are left out here.  A transaction is its own hash,  *)
(* so a guarantee and a loan are identified by the transaction that        *)
(* carries their terms.  The present value of a schedule depends on the    *)
(* chain's fee statistics; here it is any positive amount up to the sum of *)
(* the payments.                                                           *)
(***************************************************************************)
EXTENDS Integers, FiniteSets, Functions

CONSTANTS Users,            \* addresses
          Treasury,         \* TREASURY_ADDRESS
          Nobody,           \* claimed_by of a guarantee still available
          Guarantees,       \* the TREASURY_GUARANTEE transactions
          Loans,            \* the TREASURY_BORROW transactions
          Amounts,          \* amounts repayments and closes carry
          Deposits,         \* amounts deposited as stake
          Refunds,          \* what buyers offer beyond the price
          InitialBalance,
          InitialRecord,
          InitialKnown,     \* users that have a treasury record
          MaxHeight,        \* bound: the highest block explored
          MaxSales          \* bound: how often loans are sold

VARIABLES height,           \* height of the block being built
          phase,            \* "open", "drawing" or "failed" (no block can follow)
          balance,          \* address -> coins
          known,            \* users with a record in the treasury's data trie
          record,           \* user -> TreasuryUserRecord
          posted,           \* guarantees in their guarantors' tries
          claimedBy,        \* guarantee -> the loan that claimed it, or Nobody
          taken,            \* loans in their borrowers' tries
          loan,             \* loan -> TreasuryLoanRecord
          global,           \* the block's running loan totals
          claims,           \* history: loan -> installments its owner claimed
          released,         \* history: loans whose guarantees were released
          sales             \* history: loans sold so far

guaranteeVars == <<posted, claimedBy>>
loanVars      == <<taken, loan>>
history       == <<claims, released, sales>>
vars == <<height, phase, balance, known, record, guaranteeVars, loanVars, global, history>>

Accounts == Users \cup {Treasury}

Least(a, b)    == IF a < b THEN a ELSE b
Greatest(a, b) == IF a > b THEN a ELSE b

UserRecord == [stake: Nat, interest: Nat, loaned: Nat, defaulted: Nat, guaranteed: Nat]

Guarantee == [guarantor: Users, amount: Nat \ {0}, duration: Nat \ {0},
              price: Nat, expiry: Nat]

LoanTerms == [borrower: Users, secured: BOOLEAN, payment: Nat \ {0},
              interval: Nat \ {0}, count: Nat \ {0}, refs: SUBSET Guarantees]

ASSUME TreasuryAssumption ==
    /\ Treasury \notin Users
    /\ Nobody \notin Loans
    /\ IsFiniteSet(Users)                \* addresses and transaction hashes
    /\ IsFiniteSet(Guarantees)           \* have 32 bytes
    /\ IsFiniteSet(Loans)
    /\ Guarantees \subseteq Guarantee
    /\ Loans \subseteq LoanTerms
    /\ \A l \in Loans : l.secured => l.refs = {}   \* a secured borrow reads none
    /\ Amounts \subseteq Nat \ {0}
    /\ Deposits \subseteq Nat
    /\ Refunds \subseteq Nat
    /\ InitialBalance \in [Accounts -> Nat]
    /\ InitialRecord \in [Users -> UserRecord]
    /\ \A u \in Users : InitialRecord[u].guaranteed = 0
    /\ InitialKnown \subseteq Users
    /\ MaxHeight \in Nat
    /\ MaxSales \in Nat

LoanRecord == [created: Nat, discounted: Nat, next: Nat, missed: Nat, owner: Accounts]

NoLoan == [created |-> 0, discounted |-> 0, next |-> 0, missed |-> 0, owner |-> Treasury]

Init == /\ height = 1
        /\ phase = "open"
        /\ balance = InitialBalance
        /\ known = InitialKnown
        /\ record = InitialRecord
        /\ posted = {}
        /\ claimedBy = [g \in Guarantees |-> Nobody]
        /\ taken = {}
        /\ loan = [l \in Loans |-> NoLoan]
        /\ global = [loaned |-> 0, defaulted |-> 0, count |-> 0]
        /\ claims = [l \in Loans |-> 0]
        /\ released = {}
        /\ sales = 0

-----------------------------------------------------------------------------
(* Schedules.  A loan is paid at created + k * interval, k in 1 .. count;  *)
(* next is the block of the first unpaid installment, 0 when none is left. *)

Open(l) == l \in taken /\ loan[l].next # 0

Scheduled(l) == l.payment * l.count

Final(l) == loan[l].created + l.interval * l.count

(* _paid_payment_count *)
Paid(l) == IF loan[l].next = 0
           THEN l.count
           ELSE (loan[l].next - loan[l].created) \div l.interval - 1

(* _remaining_payment_count *)
Remaining(l) == l.count - Paid(l)

(* Faulty: counts from the first installment, not from the next. *)
AdvanceFromStart(l, n) == LET to == loan[l].created + n * l.interval
                          IN  IF to > Final(l) THEN 0 ELSE to

(* The schedule pointer after n more installments. *)
Advance(l, n) == LET to == loan[l].next + n * l.interval
                 IN  IF to > Final(l) THEN 0 ELSE to

(* Faulty: counts installments past the last one. *)
DueByUnbounded(l, b) == IF b < loan[l].next
                        THEN 0
                        ELSE (b - loan[l].next) \div l.interval + 1

(* How many of the remaining installments fall due at block b or before. *)
DueBy(l, b) == IF b < loan[l].next
               THEN 0
               ELSE Least((b - loan[l].next) \div l.interval + 1, Remaining(l))

Overdue(l) == DueBy(l, height - 1)     \* repay and close write these off
DueNow(l)  == DueBy(l, height)         \* claims and secured closes count these

(* _interest_paid_delta, of the installments after `before` up to `after`. *)
InterestDelta(l, before, after) ==
    LET total == Scheduled(l) - loan[l].discounted
    IN  (total * after) \div l.count - (total * before) \div l.count

(* calculate_discounted_amount of n installments, at an arbitrary rate. *)
PresentValues(l, n) == 1 .. l.payment * n

-----------------------------------------------------------------------------
(* Money and records.                                                      *)

Move(from, to, n) ==
    [a \in Accounts |-> balance[a] - (IF a = from THEN n ELSE 0)
                                   + (IF a = to THEN n ELSE 0)]

(* The guard at the head of _apply_tx_effects, for what the code debits. *)
Affords(u, n) == balance[u] >= n

SumOver(S, f(_)) == SumFunctionOnSet([x \in S |-> f(x)], S)

SecuredRemaining(u) ==
    LET due(l) == Remaining(l) * l.payment
    IN  SumOver({l \in taken : l.borrower = u /\ l.secured /\ Open(l)}, due)

(* What a guarantor gets back of the guarantees that back l. *)
(* Faulty: written-off installments cost the guarantor nothing. *)
ReturnedWithoutMisses(l, missed, u) ==
    LET share(g) == g.amount
    IN  SumOver({g \in l.refs : g.guarantor = u}, share)

Returned(l, missed, u) ==
    LET share(g) == (g.amount * Greatest(0, l.count - missed)) \div l.count
    IN  SumOver({g \in l.refs : g.guarantor = u}, share)

(* _release_guarantees, on the records r, for a loan that ended with       *)
(* `missed` installments written off.                                      *)
Release(r, l, missed) ==
    [u \in Users |-> [r[u] EXCEPT !.guaranteed = Greatest(0, @ - Returned(l, missed, u))]]

-----------------------------------------------------------------------------
(* TREASURY_DEPOSIT                                                        *)
Deposit(u, n) ==
    /\ phase = "open"
    /\ u \in known
    /\ Affords(u, n)
    /\ balance' = Move(u, Treasury, n)
    /\ record' = [record EXCEPT ![u].stake = @ + n]
    /\ UNCHANGED <<height, phase, known, guaranteeVars, loanVars, global, history>>

(* TREASURY_GUARANTEE: handle_treasury_guarantee. *)
PostGuarantee(g) ==
    /\ phase = "open"
    /\ g \notin posted
    /\ g.expiry > height
    /\ posted' = posted \cup {g}
    /\ known' = known \cup {g.guarantor}
    /\ UNCHANGED <<height, phase, balance, record, claimedBy, loanVars, global, history>>

Originate(l, discounted) ==
    /\ taken' = taken \cup {l}
    /\ loan' = [loan EXCEPT ![l] =
                   [created    |-> height,
                    discounted |-> discounted,
                    next       |-> height + l.interval,
                    missed     |-> 0,
                    owner      |-> Treasury]]

StakeCovers(l) ==
    record[l.borrower].stake - SecuredRemaining(l.borrower) >= Scheduled(l)

(* TREASURY_BORROW, SECURED: _handle_secured_borrow. *)
BorrowSecured(l, discounted) ==
    /\ phase = "open"
    /\ l.secured
    /\ l \notin taken
    /\ l.borrower \in known
    /\ StakeCovers(l)
    /\ balance[Treasury] >= discounted
    /\ Originate(l, discounted)
    /\ balance' = Move(Treasury, l.borrower, discounted)
    /\ UNCHANGED <<height, phase, known, record, guaranteeVars, global, history>>

GuaranteedBy(l, u) == {g \in l.refs : g.guarantor = u}

AmountOf(S) == LET amount(g) == g.amount IN SumOver(S, amount)
PriceOf(S)  == LET price(g) == g.price IN SumOver(S, price)

(* claim_guarantee accepts every reference, for the loan's duration. *)
Claimable(l) ==
    /\ l.refs # {}
    /\ \A g \in l.refs : /\ g \in posted
                         /\ claimedBy[g] = Nobody
                         /\ height < g.expiry
                         /\ g.duration = l.interval * l.count

(* No guarantor guarantees more than the interest it has paid. *)
Capacity(l) ==
    \A u \in {g.guarantor : g \in l.refs} :
        record[u].guaranteed + AmountOf(GuaranteedBy(l, u)) <= record[u].interest

(* The insurance fee: -1 when the loan must be refused. *)
InsuranceFee(l, discounted) ==
    LET r == record[l.borrower]
        denominator == r.loaned * global.count + global.loaned
    IN  IF global.count <= 0 THEN 0
        ELSE IF denominator <= 0 THEN -1
        ELSE (discounted * (r.defaulted * global.count + global.defaulted)) \div denominator

(***************************************************************************)
(* TREASURY_BORROW, UNSECURED: _handle_unsecured_borrow.  The borrower's   *)
(* record was loaded before the guarantors' records were written and is    *)
(* written back last: when the borrower is one of the guarantors, its      *)
(* stale copy undoes its own claim and its own added exposure.             *)
(***************************************************************************)
RecordsAfterBorrow(l, discounted) ==
    [u \in Users |->
        IF u = l.borrower
        THEN [record[u] EXCEPT !.loaned = @ + discounted]
        ELSE [record[u] EXCEPT !.guaranteed = @ + AmountOf(GuaranteedBy(l, u))]]

ClaimsAfterBorrow(l) ==
    [g \in Guarantees |->
        IF g \in l.refs /\ g.guarantor # l.borrower THEN l ELSE claimedBy[g]]

(* Faulty: the guarantors' price is paid by nobody. *)
BalanceAfterBorrowUnpriced(l, discounted, fee) ==
    [a \in Accounts |-> balance[a]
        - (IF a = Treasury THEN discounted - fee ELSE 0)
        + (IF a = l.borrower THEN discounted - fee ELSE 0)
        + (IF a \in Users THEN PriceOf(GuaranteedBy(l, a)) ELSE 0)]

BalanceAfterBorrow(l, discounted, fee) ==
    [a \in Accounts |-> balance[a]
        - (IF a = Treasury THEN discounted - fee ELSE 0)
        + (IF a = l.borrower THEN discounted - fee - PriceOf(l.refs) ELSE 0)
        + (IF a \in Users THEN PriceOf(GuaranteedBy(l, a)) ELSE 0)]

CountLoan(d) == [global EXCEPT !.loaned = @ + d, !.count = @ + 1]

BorrowUnsecured(l, discounted) ==
    LET fee == InsuranceFee(l, discounted)
    IN  /\ phase = "open"
        /\ ~l.secured
        /\ l \notin taken
        /\ Claimable(l)
        /\ AmountOf(l.refs) >= discounted
        /\ Capacity(l)
        /\ fee >= 0
        /\ discounted - fee - PriceOf(l.refs) > 0
        /\ balance[Treasury] >= discounted - fee
        /\ Originate(l, discounted)
        /\ balance' = BalanceAfterBorrow(l, discounted, fee)
        /\ record' = RecordsAfterBorrow(l, discounted)
        /\ known' = known \cup {l.borrower}
        /\ claimedBy' = ClaimsAfterBorrow(l)
        /\ global' = CountLoan(discounted)
        /\ UNCHANGED <<height, phase, posted, history>>

-----------------------------------------------------------------------------
(* The ways a loan moves on.                                               *)

(* The borrower's record after `missed` installments were written off and  *)
(* those after `before` up to `after` were paid.                           *)
RecordsAfterPayment(l, missed, before, after) ==
    [record EXCEPT ![l.borrower].interest  = @ + InterestDelta(l, before, after),
                   ![l.borrower].defaulted = @ + missed * l.payment]

WriteOff(missed, l) == [global EXCEPT !.defaulted = @ + missed * l.payment]

(* The loan and the records once the pointer is at `next`; a loan that     *)
(* ends gives its guarantors their share back.                             *)
Settle(l, next, missed, records) ==
    LET m == loan[l].missed + missed
    IN  /\ loan' = [loan EXCEPT ![l] = [@ EXCEPT !.next = next, !.missed = m]]
        /\ record' = IF next = 0 THEN Release(records, l, m) ELSE records
        /\ released' = IF next = 0 THEN released \cup {l} ELSE released

(***************************************************************************)
(* TREASURY_REPAY: handle_treasury_repay.  An unsecured loan first writes  *)
(* off what is overdue; if that is everything the payment is refunded.     *)
(***************************************************************************)
WrittenOff(l) == IF l.secured THEN 0 ELSE Overdue(l)

Repay(l, n) ==
    LET missed == WrittenOff(l)
        before == Paid(l) + missed
        pays   == n \div l.payment
    IN  /\ phase = "open"
        /\ Open(l)
        /\ n % l.payment = 0
        /\ Affords(l.borrower, n)
        /\ \/ /\ before = l.count
              /\ Settle(l, 0, missed, RecordsAfterPayment(l, missed, before, before))
              /\ UNCHANGED balance
           \/ /\ before < l.count
              /\ before + pays <= l.count
              /\ Settle(l, Advance(l, missed + pays), missed,
                        RecordsAfterPayment(l, missed, before, before + pays))
              /\ balance' = Move(l.borrower, loan[l].owner, n)
        /\ global' = WriteOff(missed, l)
        /\ UNCHANGED <<height, phase, known, guaranteeVars, taken, claims, sales>>

(* TREASURY_CLOSE of an unsecured loan: the overdue part is written off,   *)
(* the rest is bought out at the principal it stands for.                  *)
CloseUnsecured(l, n) ==
    LET missed    == Overdue(l)
        left      == Remaining(l) - missed
        principal == (loan[l].discounted * left) \div l.count
    IN  /\ phase = "open"
        /\ Open(l) /\ ~l.secured
        /\ Affords(l.borrower, n)
        /\ \/ left = 0 /\ UNCHANGED balance
           \/ /\ left > 0
              /\ principal > 0 /\ n >= principal
              /\ balance' = Move(l.borrower, loan[l].owner, principal)
        /\ Settle(l, 0, missed, RecordsAfterPayment(l, missed, 0, 0))
        /\ global' = WriteOff(missed, l)
        /\ UNCHANGED <<height, phase, known, guaranteeVars, taken, claims, sales>>

(* TREASURY_CLOSE of a secured loan: what is due is paid in full, the rest *)
(* bought out, and what was sent beyond that is added to the stake.        *)
CloseSecured(l, n) ==
    LET due       == DueNow(l)
        left      == Remaining(l) - due
        principal == (loan[l].discounted * left) \div l.count
        cost      == due * l.payment + principal
    IN  /\ phase = "open"
        /\ Open(l) /\ l.secured
        /\ Affords(l.borrower, n)
        /\ cost > 0 /\ n >= cost
        /\ balance' = Move(l.borrower, loan[l].owner, n)
        /\ Settle(l, 0, 0, [record EXCEPT ![l.borrower].stake = @ + (n - cost)])
        /\ UNCHANGED <<height, phase, known, guaranteeVars, taken, global, claims, sales>>

(* TREASURY_BUY: handle_treasury_buy.  The price leaves the current owner  *)
(* and the buyer is handed what it offered beyond the price.               *)
Buy(l, buyer, price, refund) ==
    /\ phase = "open"
    /\ sales < MaxSales
    /\ Open(l)
    /\ loan[l].owner # buyer
    /\ price \in PresentValues(l, Remaining(l))
    /\ balance[loan[l].owner] >= price
    /\ sales' = sales + 1
    /\ loan' = [loan EXCEPT ![l].owner = buyer]
    /\ balance' = [a \in Accounts |-> balance[a]
                      - (IF a = loan[l].owner THEN price ELSE 0)
                      + (IF a = buyer THEN refund ELSE 0)]
    /\ UNCHANGED <<height, phase, known, record, guaranteeVars, taken, global, claims, released>>

(* TREASURY_CLAIM: handle_treasury_claim.  The treasury pays the owner of  *)
(* a sold loan for what is due; the borrower is in default for it.         *)
Claim(l) ==
    LET due    == DueNow(l)
        payout == due * l.payment
    IN  /\ phase = "open"
        /\ Open(l)
        /\ loan[l].owner # Treasury
        /\ due > 0
        /\ balance[Treasury] >= payout
        /\ balance' = Move(Treasury, loan[l].owner, payout)
        /\ loan' = [loan EXCEPT ![l].next = Advance(l, due)]
        /\ claims' = [claims EXCEPT ![l] = @ + due]
        /\ record' = IF l.secured THEN record
                     ELSE [record EXCEPT ![l.borrower].defaulted = @ + payout]
        /\ global' = IF l.secured THEN global ELSE WriteOff(due, l)
        /\ UNCHANGED <<height, phase, known, guaranteeVars, taken, released, sales>>

-----------------------------------------------------------------------------
(* The validator draw before each block (current_validator): every slot    *)
(* draws a staker and halves its stake.                                    *)

StakeReturn(u) == record[u].stake - Greatest(1, record[u].stake \div 2)

HasLoans(u) == \E l \in taken : l.borrower = u

(* Active secured loans that a stake return of u could pay. *)
Payable(u) == {l \in taken : /\ l.borrower = u /\ l.secured /\ Open(l)
                             /\ l.payment <= StakeReturn(u)}

DrawnStaker(u) == u \in known /\ record[u].stake > 0

(* Faulty: the stake of a borrower is halved too. *)
HalvesEvenBorrowers(u) == StakeReturn(u) > 0

(* A staker that never borrowed gets the other half of its stake back. *)
Halves(u) == StakeReturn(u) > 0 /\ ~HasLoans(u)

Halve(u) ==
    /\ balance' = Move(Treasury, u, StakeReturn(u))
    /\ record' = [record EXCEPT ![u].stake = @ - StakeReturn(u)]

(***************************************************************************)
(* A staker with loans keeps its stake when no active secured loan can     *)
(* take a payment; when one can, the call that would apply the payment     *)
(* raises, the draw fails and no block can be built on this chain.         *)
(***************************************************************************)
Draw(u) ==
    /\ phase \in {"open", "drawing"}
    /\ height < MaxHeight
    /\ DrawnStaker(u)
    /\ \/ /\ Halves(u)
          /\ Halve(u)
          /\ phase' = "drawing"
       \/ /\ ~Halves(u)
          /\ Payable(u) = {}
          /\ phase' = "drawing"
          /\ UNCHANGED <<balance, record>>
       \/ /\ ~Halves(u)
          /\ Payable(u) # {}
          /\ phase' = "failed"
          /\ UNCHANGED <<balance, record>>
    /\ UNCHANGED <<height, known, guaranteeVars, loanVars, global, history>>

(* The draw is done: the block that follows is built on its accounts. *)
StartBlock ==
    /\ phase = "drawing"
    /\ phase' = "open"
    /\ height' = height + 1
    /\ UNCHANGED <<balance, known, record, guaranteeVars, loanVars, global, history>>

-----------------------------------------------------------------------------
Transact ==
    \/ \E u \in Users, n \in Deposits : Deposit(u, n)
    \/ \E g \in Guarantees : PostGuarantee(g)
    \/ \E l \in Loans :
          \/ \E d \in PresentValues(l, l.count) : BorrowSecured(l, d) \/ BorrowUnsecured(l, d)
          \/ \E n \in Amounts : Repay(l, n) \/ CloseUnsecured(l, n) \/ CloseSecured(l, n)
          \/ \E u \in Users, price \in PresentValues(l, l.count), refund \in Refunds :
                Buy(l, u, price, refund)
          \/ Claim(l)

Next == \/ Transact
        \/ \E u \in Users : Draw(u)
        \/ StartBlock

Spec == Init /\ [][Next]_vars
-----------------------------------------------------------------------------
(* Properties.                                                             *)

(* Records and users' accounts hold natural numbers.  The treasury's       *)
(* account is not bounded from below: the draw hands stakes back without a *)
(* look at it, and it also lends.                                          *)
TypeOK ==
    /\ height \in Nat \ {0}
    /\ phase \in {"open", "drawing", "failed"}
    /\ balance \in [Accounts -> Int]
    /\ \A u \in Users : balance[u] >= 0
    /\ known \subseteq Users
    /\ record \in [Users -> UserRecord]
    /\ posted \subseteq Guarantees
    /\ claimedBy \in [Guarantees -> Loans \cup {Nobody}]
    /\ taken \subseteq Loans
    /\ loan \in [Loans -> LoanRecord]
    /\ global \in [loaned: Nat, defaulted: Nat, count: Nat]
    /\ claims \in [Loans -> Nat]
    /\ released \subseteq Loans
    /\ sales \in Nat

(* No sequence of repayments, write-offs, claims and closes takes the      *)
(* schedule pointer off the installments' blocks or past the last one, on  *)
(* which _paid_payment_count and the loops over installments rely, and no  *)
(* installment is counted twice among those written off and claimed.       *)
ScheduleOK ==
    \A l \in taken :
        /\ loan[l].discounted \in 1 .. Scheduled(l)
        /\ Open(l) => /\ (loan[l].next - loan[l].created) % l.interval = 0
                      /\ Remaining(l) \in 1 .. l.count
        /\ loan[l].missed + claims[l] <= Paid(l)

(* A guarantor never has more guaranteed than it paid in interest          *)
(* (README.md:225), over all borrows, releases and repayments.             *)
CapacityRespected == \A u \in Users : record[u].guaranteed <= record[u].interest

(* A stake covers what is left to pay of its owner's secured loans,        *)
(* through deposits, draws, repayments and closes.                         *)
SecuredCover == \A u \in Users : SecuredRemaining(u) <= record[u].stake

SelfBacked(l) == \E g \in l.refs : g.guarantor = l.borrower

(* What g takes of its guarantor's capacity.                               *)
Held(g) ==
    LET l == claimedBy[g]
    IN  IF l = Nobody THEN 0
        ELSE IF l \in released
        THEN g.amount - (g.amount * (l.count - loan[l].missed)) \div l.count
        ELSE g.amount

(* A guarantor's exposure is exactly what its record says (record.py:79):  *)
(* the whole amount of a guarantee that backs a loan whose guarantees were *)
(* not released, and afterwards the share lost to written-off installments.*)
(* Excepted are the guarantors of their own loans.                         *)
ExposureAccounted ==
    \A u \in Users :
        (\A l \in taken : l.borrower = u => ~SelfBacked(l))
            => record[u].guaranteed = SumOver({g \in posted : g.guarantor = u}, Held)

(* What l's borrower is in default for.                                    *)
Lost(l) == l.payment * (loan[l].missed + claims[l])

(* A borrower is in default for exactly the installments of its unsecured  *)
(* loans that were written off or claimed, and the running totals every    *)
(* block carries are the sums over all borrowers; a total that drifts      *)
(* fails the verification of the block.                                    *)
DefaultsAccounted ==
    LET loanedBy(u)  == record[u].loaned - InitialRecord[u].loaned
        defaulted(u) == record[u].defaulted - InitialRecord[u].defaulted
        unsecured    == {l \in taken : ~l.secured}
    IN  /\ \A u \in Users : defaulted(u) = SumOver({l \in unsecured : l.borrower = u}, Lost)
        /\ global.defaulted = SumOver(Users, defaulted)
        /\ global.loaned = SumOver(Users, loanedBy)
        /\ global.count = Cardinality(unsecured)

(* The books agree: what guarantors are exposed to, what borrowers lost    *)
(* and the totals of the block are what the loans and guarantees say, and  *)
(* nobody guarantees more than it may.  borrow.py, repay.py, close.py and  *)
(* buy.py each keep their part of these sums.                              *)
BooksAgree == CapacityRespected /\ ExposureAccounted /\ DefaultsAccounted

Coins == SumFunctionOnSet(balance, Accounts)

(* Only the sale of a loan changes the sum of all balances: borrows with   *)
(* prices and insurance fees, refunds of overpayments, payments to the     *)
(* owners of sold loans and stake returns only move coins.                 *)
ConservedExceptSales == [][Coins' # Coins => sales' # sales]_vars

(* A loan that has ended never moves again, and an open one moves only     *)
(* forward: no payment, claim or close reopens an installment.             *)
LoansOnlyAdvance ==
    [][ \A l \in taken :
          \/ loan'[l].next = loan[l].next
          \/ loan'[l].next = 0
          \/ loan[l].next # 0 /\ loan'[l].next > loan[l].next ]_vars

-----------------------------------------------------------------------------
(* What the documentation says of this code.                               *)

(* "A claim is permanent - once claimed_by is set it never resets"         *)
(* (README.md:203): a guarantee backs one loan at most.                    *)
GuaranteeBacksOneLoan ==
    \A l1, l2 \in taken : l1 # l2 => l1.refs \cap l2.refs = {}
=============================================================================
