--------------------------- MODULE TreasuryProofs ---------------------------
(***************************************************************************)
(* Proofs about Treasury, for every finite set of users, guarantees and    *)
(* loans, all terms, amounts and bounds.                                   *)
(*                                                                         *)
(* Inv, the types and the place of every schedule pointer, is inductive    *)
(* and supports the rest.  Repayments and closes are brought to one form,  *)
(* Payment, and steps that touch no book to another, Quiet, so that each   *)
(* invariant has four kinds of steps to survive (StepKinds).  Books adds   *)
(* the link between guarantees and the loans that claimed them, and the    *)
(* sums over guarantees, loans and users.  Sums over a part of a set are   *)
(* taken over the whole set with zeros outside the part, where a step      *)
(* changes one term of them (SumGain) or one part (SumPlus, SumRestrict).  *)
(***************************************************************************)
EXTENDS Treasury, SumTheorems

-----------------------------------------------------------------------------
(* Arithmetic, and the constants.                                          *)

(* Integer division rounds down.                                           *)
LEMMA QuotientBounds ==
    ASSUME NEW a \in Int, NEW c \in Nat \ {0}
    PROVE  /\ a \div c \in Int
           /\ (a \div c) * c <= a
           /\ a < (a \div c + 1) * c
           /\ a >= 0 => a \div c >= 0
  OBVIOUS

(* Dividing a multiple gives the factor.                                   *)
LEMMA QuotientExact ==
    ASSUME NEW k \in Int, NEW c \in Nat \ {0}
    PROVE  (k * c) \div c = k /\ (k * c) % c = 0
  OBVIOUS

(* Division keeps the order.                                               *)
LEMMA QuotientMonotone ==
    ASSUME NEW c \in Nat \ {0}, NEW a \in Int, NEW b \in Int, a <= b
    PROVE  a \div c <= b \div c
  OBVIOUS

(* So does multiplication.                                                 *)
LEMMA ProductMonotone ==
    ASSUME NEW c \in Nat, NEW a \in Int, NEW b \in Int, a <= b
    PROVE  c * a <= c * b /\ a * c <= b * c
  OBVIOUS

(* What the terms of a loan are.                                           *)
LEMMA LoanFields ==
    ASSUME NEW l \in Loans
    PROVE  /\ l.borrower \in Users
           /\ l.secured \in BOOLEAN
           /\ l.payment \in Nat \ {0} /\ l.interval \in Nat \ {0} /\ l.count \in Nat \ {0}
           /\ l.refs \in SUBSET Guarantees
           /\ l.secured => l.refs = {}
           /\ IsFiniteSet(l.refs)
           /\ l # Nobody
           /\ l.payment * l.count \in Nat \ {0}
           /\ Scheduled(l) = l.payment * l.count
<1>1. l \in LoanTerms /\ Loans \subseteq LoanTerms /\ Nobody \notin Loans /\ IsFiniteSet(Guarantees)
  BY TreasuryAssumption DEF TreasuryAssumption
<1>2. l.secured => l.refs = {}
  BY TreasuryAssumption DEF TreasuryAssumption
<1>3. /\ l.borrower \in Users /\ l.secured \in BOOLEAN
      /\ l.payment \in Nat \ {0} /\ l.interval \in Nat \ {0} /\ l.count \in Nat \ {0}
      /\ l.refs \in SUBSET Guarantees
  BY <1>1 DEF LoanTerms
<1>4. IsFiniteSet(l.refs)
  BY <1>1, <1>3, FS_Subset
<1> QED
  BY <1>1, <1>2, <1>3, <1>4 DEF Scheduled

(* What the terms of a guarantee are.                                      *)
LEMMA GuaranteeFields ==
    ASSUME NEW g \in Guarantees
    PROVE  /\ g.guarantor \in Users
           /\ g.amount \in Nat \ {0} /\ g.duration \in Nat \ {0}
           /\ g.price \in Nat /\ g.expiry \in Nat
  BY TreasuryAssumption DEF TreasuryAssumption, Guarantee

(* What is stored of a loan.                                               *)
LEMMA LoanTypes ==
    ASSUME TypeOK, NEW l \in Loans
    PROVE  /\ loan[l] \in LoanRecord
           /\ loan[l].created \in Nat /\ loan[l].discounted \in Nat
           /\ loan[l].next \in Nat /\ loan[l].missed \in Nat
           /\ loan[l].owner \in Accounts
           /\ claims[l] \in Nat
  BY DEF TypeOK, LoanRecord

-----------------------------------------------------------------------------
(* Schedules.                                                              *)

(* An open loan's pointer is at one of its installments.                   *)
Placed(l) ==
    loan[l].next # 0 => \E k \in 1 .. l.count : loan[l].next = loan[l].created + k * l.interval

(* ScheduleOK, and what keeps it: nothing was claimed of loans not taken,  *)
(* and guarantees are released of ended loans only.                        *)
Schedules ==
    /\ \A l \in taken : /\ loan[l].discounted \in 1 .. Scheduled(l)
                        /\ Placed(l)
                        /\ loan[l].missed + claims[l] <= Paid(l)
    /\ \A l \in Loans \ taken : claims[l] = 0
    /\ \A l \in released : l \in taken /\ loan[l].next = 0

(* With the pointer at installment k, k - 1 installments are paid.         *)
LEMMA InstallmentPaid ==
    ASSUME TypeOK, NEW l \in Loans, NEW k \in 1 .. l.count,
           loan[l].next = loan[l].created + k * l.interval
    PROVE  /\ loan[l].next > 0
           /\ Paid(l) = k - 1
           /\ Remaining(l) = l.count - k + 1
           /\ (loan[l].next - loan[l].created) % l.interval = 0
<1>1. /\ loan[l].created \in Nat /\ l.interval \in Nat \ {0}
      /\ l.count \in Nat \ {0} /\ k \in Nat \ {0}
  BY LoanTypes, LoanFields
<1>2. k * l.interval \in Nat \ {0}
  BY <1>1
<1>3. loan[l].next - loan[l].created = k * l.interval /\ loan[l].next > 0
  BY <1>1, <1>2
<1>4. (k * l.interval) \div l.interval = k /\ (k * l.interval) % l.interval = 0
  <2> DEFINE i == l.interval
  <2>1. i \in Nat \ {0} /\ k \in Int
    BY <1>1
  <2> HIDE DEF i
  <2>2. (k * i) \div i = k /\ (k * i) % i = 0
    BY <2>1, QuotientExact
  <2> QED
    BY <2>2 DEF i
<1>5. Paid(l) = k - 1
  BY <1>3, <1>4 DEF Paid
<1> QED
  BY <1>1, <1>3, <1>4, <1>5 DEF Remaining

(* The pointer moves from installment to installment, and off at the end.  *)
LEMMA AdvanceBy ==
    ASSUME TypeOK, NEW l \in Loans, NEW k \in 1 .. l.count,
           loan[l].next = loan[l].created + k * l.interval, NEW n \in Nat
    PROVE  Advance(l, n) = IF k + n > l.count THEN 0 ELSE loan[l].created + (k + n) * l.interval
<1>1. /\ loan[l].created \in Nat /\ l.interval \in Nat \ {0}
      /\ l.count \in Nat \ {0} /\ k \in Nat \ {0}
  BY LoanTypes, LoanFields
<1> DEFINE c == loan[l].created
           i == l.interval
           m == l.count
<1>2. loan[l].next + n * i = c + (k + n) * i
  BY <1>1
<1>3. Final(l) = c + m * i
  BY <1>1 DEF Final
<1>4. c + (k + n) * i > c + m * i <=> k + n > m
  <2> HIDE DEF c, i, m
  <2>1. c \in Nat /\ i \in Nat \ {0} /\ m \in Nat
    BY <1>1 DEF c, i, m
  <2>2. (k + n) * i > m * i <=> k + n > m
    BY <2>1, <1>1
  <2> QED
    BY <2>1, <2>2, <1>1
<1> QED
  BY <1>2, <1>3, <1>4 DEF Advance

(* No more falls due than is left.                                         *)
LEMMA DueWithinRemaining ==
    ASSUME TypeOK, NEW l \in Loans, NEW k \in 1 .. l.count,
           loan[l].next = loan[l].created + k * l.interval, NEW b \in Int
    PROVE  DueBy(l, b) \in 0 .. Remaining(l)
<1>1. /\ loan[l].next \in Nat /\ l.interval \in Nat \ {0} /\ l.count \in Nat \ {0}
  BY LoanTypes, LoanFields
<1>2. Remaining(l) = l.count - k + 1
  BY InstallmentPaid
<1>3. CASE b < loan[l].next
  BY <1>1, <1>2, <1>3 DEF DueBy
<1>4. CASE ~(b < loan[l].next)
  <2>1. (b - loan[l].next) \div l.interval >= 0 /\ (b - loan[l].next) \div l.interval \in Int
    BY <1>1, <1>4, QuotientBounds
  <2> QED
    BY <1>1, <1>2, <1>4, <2>1 DEF DueBy, Least
<1> QED
  BY <1>3, <1>4

(* An open loan of a schedule that is kept. *)
LEMMA OpenLoan ==
    ASSUME TypeOK, Schedules, NEW l \in Loans, Open(l)
    PROVE  /\ Paid(l) \in 0 .. l.count - 1
           /\ Remaining(l) = l.count - Paid(l)
           /\ Remaining(l) \in 1 .. l.count
           /\ (loan[l].next - loan[l].created) % l.interval = 0
           /\ loan[l].next = loan[l].created + (Paid(l) + 1) * l.interval
           /\ \A b \in Int : DueBy(l, b) \in 0 .. Remaining(l)
           /\ \A n \in Nat : Advance(l, n) =
                 IF n >= Remaining(l) THEN 0 ELSE loan[l].created + (Paid(l) + 1 + n) * l.interval
<1>1. PICK k \in 1 .. l.count : loan[l].next = loan[l].created + k * l.interval
  BY DEF Schedules, Open, Placed
<1>2. /\ Paid(l) = k - 1
      /\ Remaining(l) = l.count - k + 1
      /\ (loan[l].next - loan[l].created) % l.interval = 0
  BY <1>1, InstallmentPaid
<1>3. l.count \in Nat \ {0}
  BY LoanFields
<1>4. Paid(l) + 1 = k
  BY <1>2
<1>5. \A b \in Int : DueBy(l, b) \in 0 .. Remaining(l)
  BY <1>1, DueWithinRemaining
<1>6. ASSUME NEW n \in Nat
      PROVE  Advance(l, n) =
                 IF n >= Remaining(l) THEN 0 ELSE loan[l].created + (Paid(l) + 1 + n) * l.interval
  <2>1. Advance(l, n) = IF k + n > l.count THEN 0 ELSE loan[l].created + (k + n) * l.interval
    BY <1>1, AdvanceBy
  <2>2. k + n > l.count <=> n >= Remaining(l)
    BY <1>2, <1>3
  <2> QED
    BY <2>1, <2>2, <1>4
<1> QED
  BY <1>1, <1>2, <1>3, <1>4, <1>5, <1>6

(* The schedule of one loan moves on; that of the others does not.         *)
LEMMA ScheduleMoves ==
    ASSUME TypeOK, Schedules,
           taken' = taken, NEW l \in Loans, l \in taken,
           \A x \in Loans \ {l} : loan'[x] = loan[x] /\ claims'[x] = claims[x],
           loan'[l].created = loan[l].created,
           loan'[l].discounted = loan[l].discounted,
           Placed(l)',
           loan'[l].missed + claims'[l] <= Paid(l)',
           released' \subseteq released \cup {l},
           l \in released' => loan'[l].next = 0
    PROVE  Schedules'
<1>1. taken \subseteq Loans /\ released \subseteq Loans
  BY DEF TypeOK
<1>2. ASSUME NEW x \in taken
      PROVE  /\ loan'[x].discounted \in 1 .. Scheduled(x)
             /\ Placed(x)'
             /\ loan'[x].missed + claims'[x] <= Paid(x)'
  <2>1. CASE x = l
    BY <2>1 DEF Schedules
  <2>2. CASE x # l
    <3>1. loan'[x] = loan[x] /\ claims'[x] = claims[x]
      BY <2>2, <1>1
    <3>2. Paid(x)' = Paid(x) /\ Placed(x)' = Placed(x)
      BY <3>1 DEF Paid, Placed
    <3> QED
      BY <3>1, <3>2 DEF Schedules
  <2> QED
    BY <2>1, <2>2
<1>3. \A x \in Loans \ taken : claims'[x] = 0
  BY DEF Schedules
<1>4. ASSUME NEW x \in released' PROVE x \in taken /\ loan'[x].next = 0
  BY <1>1 DEF Schedules
<1> QED
  BY <1>2, <1>3, <1>4 DEF Schedules, Scheduled

(* Moving the pointer by n of the remaining installments pays n of them.   *)
LEMMA PointerMoves ==
    ASSUME TypeOK, Schedules, NEW l \in Loans, Open(l), NEW n \in Nat, n <= Remaining(l),
           loan'[l].created = loan[l].created,
           loan'[l].next = Advance(l, n)
    PROVE  /\ Placed(l)'
           /\ Paid(l)' = Paid(l) + n
           /\ n > 0 => loan'[l].next = 0 \/ loan'[l].next > loan[l].next
<1> DEFINE p == Paid(l)
           c == loan[l].created
           i == l.interval
           m == l.count
<1>1. /\ p \in 0 .. m - 1 /\ m \in Nat \ {0} /\ i \in Nat \ {0} /\ c \in Nat
      /\ Remaining(l) = m - p
      /\ loan[l].next = c + (p + 1) * i
      /\ Advance(l, n) = IF n >= m - p THEN 0 ELSE c + (p + 1 + n) * i
  BY OpenLoan, LoanFields, LoanTypes
<1>2. CASE n >= m - p
  <2>1. loan'[l].next = 0 /\ n = m - p
    BY <1>1, <1>2
  <2>2. Paid(l)' = m
    BY <2>1 DEF Paid
  <2>3. Placed(l)'
    BY <2>1 DEF Placed
  <2> QED
    BY <1>1, <2>1, <2>2, <2>3
<1>3. CASE ~(n >= m - p)
  <2> DEFINE k == p + 1 + n
  <2>1. k \in 1 .. m /\ loan'[l].next = c + k * i
    BY <1>1, <1>3
  <2>2. Placed(l)'
    BY <2>1 DEF Placed
  <2>3. k * i \in Nat \ {0} /\ (k * i) \div i = k
    <3>1. k \in Nat \ {0} /\ i \in Nat \ {0}
      BY <1>1, <2>1
    <3> HIDE DEF k, i
    <3> QED
      BY <3>1, QuotientExact
  <2>4. loan'[l].next # 0 /\ loan'[l].next - loan'[l].created = k * i
    BY <1>1, <2>1, <2>3
  <2>5. Paid(l)' = k - 1
    BY <2>3, <2>4 DEF Paid
  <2>6. n > 0 => loan'[l].next > loan[l].next
    <3> HIDE DEF p, c, i, m
    <3>1. n > 0 => (p + 1 + n) * i > (p + 1) * i
      BY <1>1
    <3> QED
      BY <1>1, <2>1, <3>1
  <2> QED
    BY <1>1, <2>2, <2>5, <2>6
<1> QED
  BY <1>2, <1>3

(* Paying later installments never lowers the interest paid.               *)
LEMMA InterestGrows ==
    ASSUME TypeOK, NEW l \in Loans, loan[l].discounted \in 1 .. Scheduled(l),
           NEW a \in Nat, NEW b \in Nat, a <= b
    PROVE  InterestDelta(l, a, b) \in Nat
<1> DEFINE total == Scheduled(l) - loan[l].discounted
           m     == l.count
<1>1. total \in Nat /\ m \in Nat \ {0}
  BY LoanFields
<1>2. InterestDelta(l, a, b) = (total * b) \div m - (total * a) \div m
  BY DEF InterestDelta
<1> HIDE DEF total, m
<1>3. total * a <= total * b /\ total * a \in Int /\ total * b \in Int
  BY <1>1, ProductMonotone
<1>4. (total * a) \div m <= (total * b) \div m
  BY <1>1, <1>3, QuotientMonotone
<1>5. (total * a) \div m \in Int /\ (total * b) \div m \in Int
  BY <1>1, <1>3, QuotientBounds
<1> QED
  BY <1>2, <1>4, <1>5
-----------------------------------------------------------------------------
(* Money and records.                                                      *)

(* Sums of what guarantees carry are natural numbers.                      *)
LEMMA GuaranteeSums ==
    ASSUME NEW S \in SUBSET Guarantees
    PROVE  IsFiniteSet(S) /\ AmountOf(S) \in Nat /\ PriceOf(S) \in Nat
<1>1. IsFiniteSet(S)
  BY TreasuryAssumption, FS_Subset DEF TreasuryAssumption
<1> DEFINE amount == [g \in S |-> g.amount]
           price  == [g \in S |-> g.price]
<1>2. \A g \in S : amount[g] \in Nat /\ price[g] \in Nat
  BY GuaranteeFields
<1>3. SumFunctionOnSet(amount, S) \in Nat /\ SumFunctionOnSet(price, S) \in Nat
  <2> HIDE DEF amount, price
  <2> QED
    BY <1>1, <1>2, SumNat
<1> QED
  BY <1>1, <1>3 DEF AmountOf, PriceOf, SumOver

(* The share of a guarantee that comes back is between nothing and all.    *)
LEMMA ShareBounds ==
    ASSUME NEW g \in Guarantees, NEW l \in Loans, NEW m \in Nat
    PROVE  (g.amount * Greatest(0, l.count - m)) \div l.count \in 0 .. g.amount
<1> DEFINE a == g.amount
           c == l.count
           k == Greatest(0, c - m)
<1>1. a \in Nat /\ c \in Nat \ {0} /\ k \in Nat /\ k <= c
  BY GuaranteeFields, LoanFields DEF Greatest
<1> HIDE DEF a, c, k
<1>2. a * k <= a * c /\ a * k \in Nat /\ a * c \in Nat
  BY <1>1, ProductMonotone
<1>3. (a * c) \div c = a
  BY <1>1, QuotientExact
<1>4. (a * k) \div c <= a /\ (a * k) \div c >= 0 /\ (a * k) \div c \in Int
  BY <1>1, <1>2, <1>3, QuotientMonotone, QuotientBounds
<1>5. (a * k) \div c \in 0 .. a
  BY <1>1, <1>4
<1> QED
  BY <1>5 DEF a, c, k

(* What a guarantor gets back is a natural number.                         *)
LEMMA ReturnedNat ==
    ASSUME NEW l \in Loans, NEW m \in Nat, NEW u
    PROVE  Returned(l, m, u) \in Nat
<1> DEFINE S == {g \in l.refs : g.guarantor = u}
           share == [g \in S |-> (g.amount * Greatest(0, l.count - m)) \div l.count]
<1>1. S \in SUBSET Guarantees /\ IsFiniteSet(S)
  BY LoanFields, FS_Subset
<1>2. \A g \in S : share[g] \in Nat
  BY <1>1, ShareBounds
<1>3. SumFunctionOnSet(share, S) \in Nat
  <2> HIDE DEF S, share
  <2> QED
    BY <1>1, <1>2, SumNat
<1> QED
  BY <1>3 DEF Returned, SumOver

(* A release changes nothing but how much is guaranteed, which it lowers.  *)
LEMMA ReleaseRecords ==
    ASSUME NEW r \in [Users -> UserRecord], NEW l \in Loans, NEW m \in Nat
    PROVE  /\ Release(r, l, m) \in [Users -> UserRecord]
           /\ \A u \in Users :
                 /\ Release(r, l, m)[u].stake = r[u].stake
                 /\ Release(r, l, m)[u].interest = r[u].interest
                 /\ Release(r, l, m)[u].loaned = r[u].loaned
                 /\ Release(r, l, m)[u].defaulted = r[u].defaulted
                 /\ Release(r, l, m)[u].guaranteed
                        = Greatest(0, r[u].guaranteed - Returned(l, m, u))
                 /\ Release(r, l, m)[u].guaranteed <= r[u].guaranteed
<1>1. ASSUME NEW u \in Users
      PROVE  LET x == Release(r, l, m)[u]
             IN  /\ x \in UserRecord
                 /\ x.stake = r[u].stake
                 /\ x.interest = r[u].interest
                 /\ x.loaned = r[u].loaned
                 /\ x.defaulted = r[u].defaulted
                 /\ x.guaranteed = Greatest(0, r[u].guaranteed - Returned(l, m, u))
                 /\ x.guaranteed <= r[u].guaranteed
  <2> DEFINE n == Greatest(0, r[u].guaranteed - Returned(l, m, u))
  <2>1. r[u] \in UserRecord /\ Returned(l, m, u) \in Nat
    BY ReturnedNat
  <2>2. n \in Nat /\ n <= r[u].guaranteed
    BY <2>1 DEF Greatest, UserRecord
  <2>3. Release(r, l, m)[u] = [r[u] EXCEPT !.guaranteed = n]
    BY DEF Release
  <2> HIDE DEF n
  <2>4. Release(r, l, m)[u].guaranteed = n
    BY <2>1, <2>3 DEF UserRecord
  <2> QED
    BY <2>1, <2>2, <2>3, <2>4 DEF UserRecord, n
<1>2. DOMAIN Release(r, l, m) = Users /\ Release(r, l, m) = [u \in Users |-> Release(r, l, m)[u]]
  BY DEF Release
<1> QED
  BY <1>1, <1>2

(* A payment raises the interest and the defaults of its borrower.         *)
LEMMA PaymentRecords ==
    ASSUME TypeOK, NEW l \in Loans, loan[l].discounted \in 1 .. Scheduled(l),
           NEW missed \in Nat, NEW a \in Nat, NEW b \in Nat, a <= b
    PROVE  LET r == RecordsAfterPayment(l, missed, a, b)
               u == l.borrower
           IN  /\ r \in [Users -> UserRecord]
               /\ \A v \in Users \ {u} : r[v] = record[v]
               /\ r[u].stake >= record[u].stake
               /\ r[u].loaned = record[u].loaned
               /\ r[u].guaranteed = record[u].guaranteed
               /\ r[u].interest >= record[u].interest
               /\ r[u].defaulted = record[u].defaulted + missed * l.payment
<1> DEFINE u == l.borrower
           d == InterestDelta(l, a, b)
           w == missed * l.payment
<1>1. u \in Users /\ d \in Nat /\ w \in Nat /\ record[u] \in UserRecord
  BY LoanFields, InterestGrows DEF TypeOK
<1> DEFINE paid == [record EXCEPT ![u].interest = @ + d]
           r    == [paid EXCEPT ![u].defaulted = @ + w]
<1>2. record \in [Users -> UserRecord]
  BY DEF TypeOK
<1>3. RecordsAfterPayment(l, missed, a, b) = r
  BY <1>1, <1>2 DEF RecordsAfterPayment
<1> HIDE DEF d, w, u
<1>4. /\ paid \in [Users -> UserRecord]
      /\ \A v \in Users \ {u} : paid[v] = record[v]
      /\ paid[u].stake = record[u].stake
      /\ paid[u].loaned = record[u].loaned
      /\ paid[u].guaranteed = record[u].guaranteed
      /\ paid[u].interest = record[u].interest + d
      /\ paid[u].defaulted = record[u].defaulted
  BY <1>1, <1>2 DEF UserRecord
<1> HIDE DEF paid
<1>5. /\ r \in [Users -> UserRecord]
      /\ \A v \in Users \ {u} : r[v] = record[v]
      /\ r[u].stake = record[u].stake
      /\ r[u].loaned = record[u].loaned
      /\ r[u].guaranteed = record[u].guaranteed
      /\ r[u].interest = record[u].interest + d
      /\ r[u].defaulted = record[u].defaulted + w
  BY <1>1, <1>4 DEF UserRecord
<1>6. r[u].interest >= record[u].interest /\ r[u].stake >= record[u].stake
  BY <1>1, <1>5 DEF UserRecord
<1> HIDE DEF r
<1> QED
  BY <1>3, <1>5, <1>6 DEF u, w

(* Moving coins that the payer has.                                        *)
LEMMA MoveTypes ==
    ASSUME TypeOK, NEW from \in Accounts, NEW to \in Accounts, NEW n \in Nat,
           from \in Users => balance[from] >= n
    PROVE  /\ Move(from, to, n) \in [Accounts -> Int]
           /\ \A u \in Users : Move(from, to, n)[u] >= 0
<1>1. \A a \in Accounts : balance[a] \in Int
  BY DEF TypeOK
<1>2. \A u \in Users : u \in Accounts /\ balance[u] >= 0
  BY DEF TypeOK, Accounts
<1> QED
  BY <1>1, <1>2 DEF Move
-----------------------------------------------------------------------------
(* The steps keep the types and the schedules.                             *)

Inv == TypeOK /\ Schedules

(* A step that leaves the loans and their history alone.                   *)
LEMMA SchedulesStay ==
    ASSUME Schedules, UNCHANGED <<loanVars, claims, released>>
    PROVE  Schedules'
  BY DEF Schedules, loanVars, Placed, Paid, Scheduled

(* A deposit moves coins its sender has.                                   *)
LEMMA DepositInv ==
    ASSUME Inv, NEW u \in Users, NEW n \in Deposits, Deposit(u, n)
    PROVE  Inv'
<1>1. /\ n \in Nat /\ u \in Accounts /\ Treasury \in Accounts
      /\ record \in [Users -> UserRecord]
  BY TreasuryAssumption DEF TreasuryAssumption, Accounts, Inv, TypeOK
<1>2. balance' \in [Accounts -> Int] /\ \A v \in Users : balance'[v] >= 0
  BY <1>1, MoveTypes DEF Deposit, Affords, Inv
<1>3. record' \in [Users -> UserRecord]
  BY <1>1 DEF Deposit, UserRecord
<1>4. TypeOK'
  BY <1>2, <1>3 DEF Deposit, guaranteeVars, loanVars, history, Inv, TypeOK
<1>5. Schedules'
  BY SchedulesStay DEF Deposit, history, Inv
<1> QED
  BY <1>4, <1>5 DEF Inv

(* A guarantee is posted for a user.                                       *)
LEMMA PostInv ==
    ASSUME Inv, NEW g \in Guarantees, PostGuarantee(g)
    PROVE  Inv'
<1>1. g.guarantor \in Users
  BY GuaranteeFields
<1>2. TypeOK'
  BY <1>1 DEF PostGuarantee, loanVars, history, Inv, TypeOK
<1>3. Schedules'
  BY SchedulesStay DEF PostGuarantee, history, Inv
<1> QED
  BY <1>2, <1>3 DEF Inv

(* A new loan starts at the first installment.                             *)
LEMMA OriginateInv ==
    ASSUME Inv, NEW l \in Loans, l \notin taken, NEW d \in PresentValues(l, l.count),
           Originate(l, d), claims' = claims, released' = released
    PROVE  /\ taken' \subseteq Loans
           /\ loan' \in [Loans -> LoanRecord]
           /\ Schedules'
<1> DEFINE new == [created |-> height, discounted |-> d, next |-> height + l.interval,
                   missed |-> 0, owner |-> Treasury]
<1>1. /\ d \in 1 .. Scheduled(l) /\ d \in Nat /\ height \in Nat \ {0}
      /\ l.interval \in Nat \ {0} /\ l.count \in Nat \ {0} /\ taken \subseteq Loans
      /\ loan \in [Loans -> LoanRecord] /\ Treasury \in Accounts
  BY LoanFields DEF PresentValues, Scheduled, Inv, TypeOK, Accounts
<1>2. new \in LoanRecord
  BY <1>1 DEF LoanRecord
<1>3. taken' = taken \cup {l} /\ loan' = [loan EXCEPT ![l] = new]
  BY DEF Originate
<1>4. loan'[l] = new /\ \A x \in taken : loan'[x] = loan[x]
  BY <1>1, <1>3
<1>5. loan' \in [Loans -> LoanRecord]
  BY <1>1, <1>2, <1>3
<1>6. ASSUME NEW x \in taken
      PROVE  /\ loan'[x].discounted \in 1 .. Scheduled(x)
             /\ Placed(x)'
             /\ loan'[x].missed + claims'[x] <= Paid(x)'
  <2>1. loan'[x] = loan[x]
    BY <1>4
  <2> QED
    BY <2>1 DEF Inv, Schedules, Placed, Paid
<1>7. /\ loan'[l].discounted \in 1 .. Scheduled(l)
      /\ Placed(l)'
      /\ loan'[l].missed + claims'[l] <= Paid(l)'
  <2>1. claims[l] = 0
    BY DEF Inv, Schedules
  <2> DEFINE i == l.interval
  <2>2. i \in Nat \ {0}
    BY <1>1
  <2>3. Paid(l)' = (height + i - height) \div i - 1
    BY <1>1, <1>4 DEF Paid
  <2>4. height + i - height = 1 * i
    BY <1>1, <2>2
  <2> HIDE DEF i
  <2>5. (1 * i) \div i = 1
    BY <2>2, QuotientExact
  <2>6. Paid(l)' = 0
    BY <2>3, <2>4, <2>5
  <2>7. loan'[l].next = loan'[l].created + 1 * l.interval
    BY <1>1, <1>4
  <2>8. Placed(l)'
    <3>1. 1 \in 1 .. l.count
      BY <1>1
    <3> QED
      BY <2>7, <3>1 DEF Placed
  <2> QED
    BY <1>1, <1>4, <2>1, <2>6, <2>8
<1>8. ASSUME NEW x \in released' PROVE x \in taken' /\ loan'[x].next = 0
  BY <1>3, <1>4 DEF Inv, Schedules
<1>9. Schedules'
  BY <1>3, <1>6, <1>7, <1>8 DEF Schedules, Inv, Scheduled
<1> QED
  BY <1>1, <1>3, <1>5, <1>9

(* A secured borrow pays the borrower and starts its schedule.             *)
LEMMA BorrowSecuredInv ==
    ASSUME Inv, NEW l \in Loans, NEW d \in PresentValues(l, l.count), BorrowSecured(l, d)
    PROVE  Inv'
<1>1. taken' \subseteq Loans /\ loan' \in [Loans -> LoanRecord] /\ Schedules'
  BY OriginateInv DEF BorrowSecured, history
<1>2. d \in Nat /\ l.borrower \in Accounts /\ Treasury \in Accounts /\ Treasury \notin Users
  BY LoanFields, TreasuryAssumption DEF TreasuryAssumption, PresentValues, Accounts
<1>3. balance' \in [Accounts -> Int] /\ \A v \in Users : balance'[v] >= 0
  BY <1>2, MoveTypes DEF BorrowSecured, Inv
<1>4. TypeOK'
  BY <1>1, <1>3 DEF BorrowSecured, guaranteeVars, history, Inv, TypeOK
<1> QED
  BY <1>1, <1>4 DEF Inv

(* The insurance fee is a number, and the accounts a borrow leaves too.    *)
LEMMA FeeInt ==
    ASSUME TypeOK, NEW l \in Loans, NEW d \in Nat
    PROVE  InsuranceFee(l, d) \in Int
<1> DEFINE r == record[l.borrower]
           n == d * (r.defaulted * global.count + global.defaulted)
           m == r.loaned * global.count + global.loaned
<1>1. r \in UserRecord /\ global \in [loaned: Nat, defaulted: Nat, count: Nat]
  BY LoanFields DEF TypeOK
<1>2. /\ r.defaulted \in Nat /\ r.loaned \in Nat
      /\ global.count \in Nat /\ global.loaned \in Nat /\ global.defaulted \in Nat
  BY <1>1 DEF UserRecord
<1> HIDE DEF r
<1>3. n \in Int /\ m \in Int
  BY <1>2
<1>4. InsuranceFee(l, d) = IF global.count <= 0 THEN 0 ELSE IF m <= 0 THEN -1 ELSE n \div m
  BY DEF InsuranceFee, r
<1> HIDE DEF n, m
<1>5. m > 0 => n \div m \in Int
  BY <1>3, QuotientBounds
<1> QED
  BY <1>3, <1>4, <1>5

(* So does an unsecured one, which pays its guarantors too.                *)
LEMMA BorrowUnsecuredInv ==
    ASSUME Inv, NEW l \in Loans, NEW d \in PresentValues(l, l.count), BorrowUnsecured(l, d)
    PROVE  Inv'
<1> DEFINE fee == InsuranceFee(l, d)
<1>1. taken' \subseteq Loans /\ loan' \in [Loans -> LoanRecord] /\ Schedules'
  BY OriginateInv DEF BorrowUnsecured, history
<1>2. /\ d \in Nat /\ d > 0 /\ l.borrower \in Users /\ Treasury \notin Users
      /\ l.refs \in SUBSET Guarantees
  BY LoanFields, TreasuryAssumption DEF TreasuryAssumption, PresentValues
<1>3. fee \in Int /\ PriceOf(l.refs) \in Nat
  BY <1>2, FeeInt, GuaranteeSums DEF Inv
<1>4. \A u : GuaranteedBy(l, u) \in SUBSET Guarantees
  BY <1>2 DEF GuaranteedBy
<1>5. \A u : PriceOf(GuaranteedBy(l, u)) \in Nat /\ AmountOf(GuaranteedBy(l, u)) \in Nat
  BY <1>4, GuaranteeSums
<1>6. d - fee - PriceOf(l.refs) > 0
  BY DEF BorrowUnsecured
<1> HIDE DEF fee
<1>7. balance' \in [Accounts -> Int] /\ \A v \in Users : balance'[v] >= 0
  <2>1. balance' = BalanceAfterBorrow(l, d, fee)
    BY DEF BorrowUnsecured, fee
  <2>2. \A a \in Accounts : balance[a] \in Int /\ (a \in Users => balance[a] >= 0)
    BY DEF Inv, TypeOK
  <2>3. ASSUME NEW a \in Accounts
        PROVE  balance'[a] \in Int /\ (a \in Users => balance'[a] >= 0)
    BY <1>2, <1>3, <1>5, <1>6, <2>1, <2>2 DEF BalanceAfterBorrow
  <2>4. balance' = [a \in Accounts |-> balance'[a]]
    BY <2>1 DEF BalanceAfterBorrow
  <2> QED
    BY <2>3, <2>4 DEF Accounts
<1>8. record' \in [Users -> UserRecord]
  <2>1. record' = RecordsAfterBorrow(l, d)
    BY DEF BorrowUnsecured
  <2>2. ASSUME NEW u \in Users PROVE RecordsAfterBorrow(l, d)[u] \in UserRecord
    <3>1. record[u] \in UserRecord
      BY DEF Inv, TypeOK
    <3> QED
      BY <1>2, <1>5, <3>1 DEF RecordsAfterBorrow, UserRecord
  <2> QED
    BY <2>1, <2>2 DEF RecordsAfterBorrow
<1>9. claimedBy' \in [Guarantees -> Loans \cup {Nobody}]
  BY DEF BorrowUnsecured, ClaimsAfterBorrow, Inv, TypeOK
<1>10. global' \in [loaned: Nat, defaulted: Nat, count: Nat]
  <2> DEFINE once == [global EXCEPT !.loaned = @ + d]
  <2>1. once \in [loaned: Nat, defaulted: Nat, count: Nat]
    BY <1>2 DEF Inv, TypeOK
  <2>2. global' = [once EXCEPT !.count = @ + 1]
    BY DEF BorrowUnsecured, CountLoan, Inv, TypeOK
  <2> HIDE DEF once
  <2> QED
    BY <2>1, <2>2
<1>11. TypeOK'
  BY <1>1, <1>2, <1>7, <1>8, <1>9, <1>10 DEF BorrowUnsecured, history, Inv, TypeOK
<1> QED
  BY <1>1, <1>11 DEF Inv
(* What a settled loan's variables hold, and that the schedule is kept.    *)
LEMMA SettleInv ==
    ASSUME Inv, NEW l \in Loans, Open(l), NEW next \in Nat, NEW missed \in Nat,
           NEW records \in [Users -> UserRecord], Settle(l, next, missed, records),
           taken' = taken, claims' = claims,
           Placed(l)', Paid(l) + missed <= Paid(l)', Paid(l)' \in Int
    PROVE  /\ record' \in [Users -> UserRecord]
           /\ loan' \in [Loans -> LoanRecord]
           /\ released' \subseteq Loans
           /\ Schedules'
<1> DEFINE m   == loan[l].missed + missed
           new == loan'[l]
<1>1. /\ loan[l] \in LoanRecord /\ loan[l].missed \in Nat /\ claims[l] \in Nat
      /\ loan \in [Loans -> LoanRecord] /\ l \in taken /\ released \subseteq Loans
      /\ Paid(l) \in Int
  BY LoanTypes, OpenLoan DEF Inv, TypeOK, Open
<1>2. m \in Nat
  BY <1>1
<1>3. loan' = [loan EXCEPT ![l] = [loan[l] EXCEPT !.next = next, !.missed = m]]
  BY DEF Settle
<1>4. new = [[loan[l] EXCEPT !.next = next] EXCEPT !.missed = m]
  BY <1>1, <1>3
<1>5. /\ new \in LoanRecord /\ new.next = next /\ new.missed = m
      /\ new.created = loan[l].created /\ new.discounted = loan[l].discounted
      /\ new.owner = loan[l].owner
  <2> DEFINE step == [loan[l] EXCEPT !.next = next]
  <2>1. /\ step \in LoanRecord /\ step.next = next
        /\ step.created = loan[l].created /\ step.discounted = loan[l].discounted
        /\ step.owner = loan[l].owner
    BY <1>1 DEF LoanRecord
  <2>2. new = [step EXCEPT !.missed = m]
    BY <1>4
  <2> HIDE DEF step, m, new
  <2> QED
    BY <1>2, <2>1, <2>2 DEF LoanRecord
<1>6. \A x \in Loans \ {l} : loan'[x] = loan[x]
  BY <1>1, <1>3
<1>7. loan' \in [Loans -> LoanRecord]
  BY <1>1, <1>3, <1>5, <1>6
<1>8. record' \in [Users -> UserRecord]
  BY <1>2, ReleaseRecords DEF Settle
<1>9. released' \subseteq released \cup {l} /\ (l \in released' => new.next = 0)
  <2>1. l \notin released
    BY DEF Inv, Schedules, Open
  <2> QED
    BY <1>5, <2>1 DEF Settle
<1>10. loan[l].missed + claims[l] <= Paid(l)
  BY <1>1 DEF Inv, Schedules
<1>11. new.missed + claims'[l] <= Paid(l)'
  BY <1>1, <1>5, <1>10
<1>12. Schedules'
  BY <1>1, <1>5, <1>6, <1>9, <1>11, ScheduleMoves DEF Inv
<1> QED
  BY <1>1, <1>7, <1>8, <1>9, <1>12

(* The loan ends: everything is paid.                                      *)
LEMMA EndPays ==
    ASSUME NEW l \in Loans, loan'[l].next = 0
    PROVE  Placed(l)' /\ Paid(l)' = l.count
  BY DEF Placed, Paid

(* What settling does to the loan.                                         *)
LEMMA SettledLoan ==
    ASSUME TypeOK, NEW l \in Loans, NEW next, NEW missed, NEW records,
           Settle(l, next, missed, records)
    PROVE  /\ loan'[l].next = next
           /\ loan'[l].missed = loan[l].missed + missed
           /\ loan'[l].created = loan[l].created
           /\ loan'[l].discounted = loan[l].discounted
           /\ loan'[l].owner = loan[l].owner
           /\ \A x \in Loans \ {l} : loan'[x] = loan[x]
<1> DEFINE m == loan[l].missed + missed
<1>1. loan' = [loan EXCEPT ![l] = [loan[l] EXCEPT !.next = next, !.missed = m]]
  BY DEF Settle
<1>2. loan[l] \in LoanRecord /\ loan \in [Loans -> LoanRecord]
  BY DEF TypeOK
<1>3. loan'[l] = [loan[l] EXCEPT !.next = next, !.missed = m]
  BY <1>1, <1>2
<1> HIDE DEF m
<1>4. /\ loan'[l].next = next /\ loan'[l].missed = m
      /\ loan'[l].created = loan[l].created
      /\ loan'[l].discounted = loan[l].discounted
      /\ loan'[l].owner = loan[l].owner
  BY <1>2, <1>3 DEF LoanRecord
<1> QED
  BY <1>1, <1>2, <1>4 DEF m

(* What is written off before a payment.                                   *)
LEMMA WriteOffBounds ==
    ASSUME Inv, NEW l \in Loans, Open(l)
    PROVE  /\ Overdue(l) \in 0 .. Remaining(l)
           /\ DueNow(l) \in 0 .. Remaining(l)
           /\ WrittenOff(l) \in 0 .. Remaining(l)
           /\ Remaining(l) \in 1 .. l.count /\ l.count \in Nat
           /\ Paid(l) \in Nat
           /\ Remaining(l) = l.count - Paid(l)
<1>1. /\ \A b \in Int : DueBy(l, b) \in 0 .. Remaining(l)
      /\ Remaining(l) \in 1 .. l.count /\ l.count \in Nat
      /\ Paid(l) \in Nat /\ Remaining(l) = l.count - Paid(l)
  BY OpenLoan, LoanFields DEF Inv
<1>2. height \in Int /\ height - 1 \in Int
  BY DEF Inv, TypeOK
<1>3. Overdue(l) \in 0 .. Remaining(l) /\ DueNow(l) \in 0 .. Remaining(l)
  BY <1>1, <1>2 DEF Overdue, DueNow
<1> QED
  BY <1>1, <1>3 DEF WrittenOff

(* The totals of the block after a write-off.                              *)
LEMMA WriteOffTypes ==
    ASSUME TypeOK, NEW l \in Loans, NEW missed \in Nat
    PROVE  /\ WriteOff(missed, l) \in [loaned: Nat, defaulted: Nat, count: Nat]
           /\ WriteOff(missed, l).loaned = global.loaned
           /\ WriteOff(missed, l).count = global.count
           /\ WriteOff(missed, l).defaulted = global.defaulted + missed * l.payment
<1> DEFINE w == missed * l.payment
<1>1. w \in Nat
  BY LoanFields
<1>2. WriteOff(missed, l) = [global EXCEPT !.defaulted = @ + w]
  BY DEF WriteOff
<1> HIDE DEF w
<1>3. /\ WriteOff(missed, l) \in [loaned: Nat, defaulted: Nat, count: Nat]
      /\ WriteOff(missed, l).loaned = global.loaned
      /\ WriteOff(missed, l).count = global.count
      /\ WriteOff(missed, l).defaulted = global.defaulted + w
  BY <1>1, <1>2 DEF TypeOK
<1> QED
  BY <1>3 DEF w

(* A repayment covers whole installments, at least one of them.            *)
LEMMA RepayCounts ==
    ASSUME NEW l \in Loans, NEW n \in Amounts, n % l.payment = 0
    PROVE  /\ n \in Nat \ {0}
           /\ n \div l.payment \in Nat \ {0}
           /\ n = (n \div l.payment) * l.payment
<1> DEFINE p == l.payment
<1>1. n \in Nat \ {0} /\ p \in Nat \ {0}
  BY LoanFields, TreasuryAssumption DEF TreasuryAssumption
<1>2. n % p = 0
  OBVIOUS
<1> HIDE DEF p
<1>3. n = (n \div p) * p /\ n \div p \in Int
  BY <1>1, <1>2
<1>4. n \div p > 0
  BY <1>1, <1>3
<1> QED
  BY <1>1, <1>3, <1>4 DEF p

(* The two ways a repayment ends, in terms of installments.                *)
LEMMA RepayCases ==
    ASSUME Inv, NEW l \in Loans, NEW n \in Amounts, Repay(l, n)
    PROVE  LET missed == WrittenOff(l)
               pays   == n \div l.payment
           IN  \/ /\ missed = Remaining(l)
                  /\ Settle(l, 0, missed,
                            RecordsAfterPayment(l, missed, Paid(l) + missed, Paid(l) + missed))
                  /\ balance' = balance
               \/ /\ pays \in Nat \ {0} /\ missed + pays <= Remaining(l)
                  /\ Settle(l, Advance(l, missed + pays), missed,
                            RecordsAfterPayment(l, missed, Paid(l) + missed,
                                                Paid(l) + missed + pays))
                  /\ balance' = Move(l.borrower, loan[l].owner, n)
<1>1. Open(l) /\ n % l.payment = 0
  BY DEF Repay
<1>2. /\ WrittenOff(l) \in 0 .. Remaining(l) /\ Remaining(l) \in 1 .. l.count
      /\ l.count \in Nat /\ Paid(l) \in Nat /\ Remaining(l) = l.count - Paid(l)
      /\ n \div l.payment \in Nat \ {0}
  BY <1>1, WriteOffBounds, RepayCounts
<1> QED
  BY <1>2 DEF Repay

-----------------------------------------------------------------------------
(* Repayments and closes, in the terms the invariants need.                *)

(***************************************************************************)
(* n coins go from the borrower to the owner of the loan, `missed` of the  *)
(* remaining installments are written off and the pointer moves to next;   *)
(* the borrower's record only gains.                                       *)
(***************************************************************************)
Payment(l, next, missed, records, n) ==
    /\ Open(l)
    /\ next \in Nat /\ missed \in Nat /\ n \in Nat
    /\ records \in [Users -> UserRecord]
    /\ Settle(l, next, missed, records)
    /\ Placed(l)'
    /\ Paid(l)' \in Int /\ Paid(l) + missed <= Paid(l)' /\ Paid(l)' <= l.count
    /\ next = 0 \/ next > loan[l].next
    /\ \A v \in Users \ {l.borrower} : records[v] = record[v]
    /\ records[l.borrower].stake >= record[l.borrower].stake
    /\ records[l.borrower].interest >= record[l.borrower].interest
    /\ records[l.borrower].loaned = record[l.borrower].loaned
    /\ records[l.borrower].guaranteed = record[l.borrower].guaranteed
    /\ records[l.borrower].defaulted = record[l.borrower].defaulted + missed * l.payment
    /\ l.secured => missed = 0
    /\ balance[l.borrower] >= n
    /\ balance' = Move(l.borrower, loan[l].owner, n)
    /\ global' \in [loaned: Nat, defaulted: Nat, count: Nat]
    /\ global'.loaned = global.loaned /\ global'.count = global.count
    /\ global'.defaulted = global.defaulted + missed * l.payment
    /\ taken' = taken /\ claims' = claims /\ sales' = sales
    /\ height' = height /\ phase' = phase /\ known' = known
    /\ posted' = posted /\ claimedBy' = claimedBy

(* Moving no coins changes nothing.                                        *)
LEMMA MoveNothing ==
    ASSUME TypeOK, NEW from, NEW to
    PROVE  Move(from, to, 0) = balance
<1>1. balance \in [Accounts -> Int]
  BY DEF TypeOK
<1>2. \A a \in Accounts : balance[a] - 0 + 0 = balance[a]
  BY <1>1
<1> QED
  BY <1>1, <1>2 DEF Move

(* A repayment is a payment.                                               *)
LEMMA RepayPays ==
    ASSUME Inv, NEW l \in Loans, NEW n \in Amounts, Repay(l, n)
    PROVE  \E next, missed, records, k : Payment(l, next, missed, records, k)
<1> DEFINE missed == WrittenOff(l)
           pays   == n \div l.payment
           p      == Paid(l)
           left   == Remaining(l)
<1>1. /\ Open(l) /\ taken' = taken /\ claims' = claims /\ sales' = sales
      /\ height' = height /\ phase' = phase /\ known' = known
      /\ posted' = posted /\ claimedBy' = claimedBy
      /\ balance[l.borrower] >= n
      /\ global' = WriteOff(missed, l)
  BY DEF Repay, guaranteeVars, Affords
<1>2. /\ missed \in 0 .. left /\ left \in 1 .. l.count /\ l.count \in Nat
      /\ p \in Nat /\ left = l.count - p /\ missed \in Nat
      /\ l.secured => missed = 0
  BY <1>1, WriteOffBounds DEF WrittenOff
<1>3. /\ n \in Nat /\ l.borrower \in Users /\ balance[l.borrower] >= 0
  BY RepayCounts, LoanFields DEF Inv, Repay, TypeOK
<1>4. loan[l].discounted \in 1 .. Scheduled(l)
  BY <1>1 DEF Inv, Schedules, Open
<1>5. /\ global' \in [loaned: Nat, defaulted: Nat, count: Nat]
      /\ global'.loaned = global.loaned /\ global'.count = global.count
      /\ global'.defaulted = global.defaulted + missed * l.payment
  <2> HIDE DEF missed
  <2> QED
    BY <1>1, <1>2, WriteOffTypes DEF Inv
<1>6. ASSUME NEW a \in Nat, NEW b \in Nat, a <= b
      PROVE  LET r == RecordsAfterPayment(l, missed, a, b)
                 u == l.borrower
             IN  /\ r \in [Users -> UserRecord]
                 /\ \A v \in Users \ {u} : r[v] = record[v]
                 /\ r[u].stake >= record[u].stake
                 /\ r[u].interest >= record[u].interest
                 /\ r[u].loaned = record[u].loaned
                 /\ r[u].guaranteed = record[u].guaranteed
                 /\ r[u].defaulted = record[u].defaulted + missed * l.payment
  <2> HIDE DEF missed
  <2>1. missed \in Nat /\ TypeOK
    BY <1>2 DEF Inv
  <2> QED
    BY <1>4, <1>6, <2>1, PaymentRecords
<1>7. CASE /\ missed = left
           /\ Settle(l, 0, missed, RecordsAfterPayment(l, missed, p + missed, p + missed))
           /\ balance' = balance
  <2> DEFINE records == RecordsAfterPayment(l, missed, p + missed, p + missed)
  <2>1. /\ loan'[l].next = 0
    BY <1>7, SettledLoan DEF Inv
  <2>2. Placed(l)' /\ Paid(l)' = l.count
    BY <2>1, EndPays
  <2>3. p + missed <= l.count
    BY <1>2, <1>7
  <2>4. balance' = Move(l.borrower, loan[l].owner, 0)
    BY <1>7, MoveNothing DEF Inv
  <2>5. p + missed \in Nat /\ p + missed <= p + missed
    BY <1>2
  <2> HIDE DEF missed, p, left
  <2>6. Payment(l, 0, missed, records, 0)
    BY <1>1, <1>2, <1>3, <1>5, <1>6, <1>7, <2>2, <2>3, <2>4, <2>5 DEF Payment, p
  <2> QED
    BY <2>6
<1>8. CASE /\ pays \in Nat \ {0} /\ missed + pays <= left
           /\ Settle(l, Advance(l, missed + pays), missed,
                     RecordsAfterPayment(l, missed, p + missed, p + missed + pays))
           /\ balance' = Move(l.borrower, loan[l].owner, n)
  <2> DEFINE next    == Advance(l, missed + pays)
             records == RecordsAfterPayment(l, missed, p + missed, p + missed + pays)
  <2>1. loan'[l].next = next /\ loan'[l].created = loan[l].created
    BY <1>8, SettledLoan DEF Inv
  <2>2. /\ missed + pays \in Nat /\ missed + pays <= left /\ missed + pays > 0
    BY <1>2, <1>8
  <2>3. /\ Placed(l)' /\ Paid(l)' = p + (missed + pays)
        /\ next = 0 \/ next > loan[l].next
    <3> HIDE DEF missed, pays
    <3> QED
      BY <1>1, <2>1, <2>2, PointerMoves DEF Inv
  <2>4. next \in Nat
    <3>1. loan[l].next \in Nat /\ loan'[l].next = next
      BY <2>1, LoanTypes DEF Inv
    <3> HIDE DEF missed, pays
    <3>2. next \in Int
      <4>1. /\ \A k \in Nat : Advance(l, k) =
                   IF k >= left THEN 0 ELSE loan[l].created + (p + 1 + k) * l.interval
            /\ loan[l].created \in Nat /\ l.interval \in Nat
        BY <1>1, OpenLoan, LoanFields, LoanTypes DEF Inv
      <4> DEFINE q == p + 1 + (missed + pays)
      <4>2. q \in Nat
        BY <1>2, <2>2
      <4>3. next = IF missed + pays >= left THEN 0 ELSE loan[l].created + q * l.interval
        BY <2>2, <4>1
      <4> HIDE DEF q, next
      <4>4. q * l.interval \in Nat
        BY <4>1, <4>2
      <4> QED
        BY <4>1, <4>3, <4>4
    <3> HIDE DEF next
    <3> QED
      BY <2>3, <3>1, <3>2
  <2>5. /\ p + missed <= p + (missed + pays) /\ p + (missed + pays) \in Int
        /\ p + (missed + pays) <= l.count
        /\ p + missed \in Nat /\ p + missed + pays \in Nat /\ p + missed <= p + missed + pays
    BY <1>2, <1>8
  <2> HIDE DEF missed, pays, p, left, next
  <2>6. Settle(l, next, missed, records)
    BY <1>8 DEF next
  <2>7. Payment(l, next, missed, records, n)
    BY <1>1, <1>2, <1>3, <1>5, <1>6, <1>8, <2>3, <2>4, <2>5, <2>6 DEF Payment, p
  <2> QED
    BY <2>7
<1> QED
  BY <1>7, <1>8, RepayCases

(* A close of an unsecured loan is a payment that ends it.                 *)
LEMMA CloseUnsecuredPays ==
    ASSUME Inv, NEW l \in Loans, NEW n \in Amounts, CloseUnsecured(l, n)
    PROVE  \E next, missed, records, k : Payment(l, next, missed, records, k)
<1> DEFINE missed    == Overdue(l)
           left      == Remaining(l) - missed
           principal == (loan[l].discounted * left) \div l.count
           records   == RecordsAfterPayment(l, missed, 0, 0)
           u         == l.borrower
<1>1. /\ Open(l) /\ taken' = taken /\ claims' = claims /\ sales' = sales
      /\ height' = height /\ phase' = phase /\ known' = known
      /\ posted' = posted /\ claimedBy' = claimedBy
      /\ balance[u] >= n /\ ~l.secured
      /\ Settle(l, 0, missed, records)
      /\ balance' = balance \/ (/\ principal > 0 /\ n >= principal
                                /\ balance' = Move(u, loan[l].owner, principal))
      /\ global' = WriteOff(missed, l)
  BY DEF CloseUnsecured, guaranteeVars, Affords
<1>2. /\ missed \in 0 .. Remaining(l) /\ Remaining(l) \in 1 .. l.count /\ l.count \in Nat \ {0}
      /\ Paid(l) \in Nat /\ Remaining(l) = l.count - Paid(l)
      /\ u \in Users /\ balance[u] >= 0 /\ balance[u] \in Int
      /\ loan[l].discounted \in Nat /\ record[u].stake \in Nat
      /\ n \in Nat
  BY <1>1, WriteOffBounds, LoanFields, LoanTypes, TreasuryAssumption
     DEF Inv, Accounts, TreasuryAssumption, TypeOK, UserRecord
<1>3. missed \in Nat /\ Paid(l) + missed <= l.count
  BY <1>2
<1>4. principal \in Int
  <2> DEFINE a == loan[l].discounted * left
             c == l.count
  <2>1. a \in Int /\ c \in Nat \ {0}
    BY <1>2
  <2> HIDE DEF a, c
  <2>2. a \div c \in Int
    BY <2>1, QuotientBounds
  <2> QED
    BY <2>2 DEF a, c
<1> HIDE DEF missed, principal
<1>5. loan[l].discounted \in 1 .. Scheduled(l)
  BY <1>1 DEF Inv, Schedules, Open
<1>6. /\ records \in [Users -> UserRecord]
      /\ \A v \in Users \ {u} : records[v] = record[v]
      /\ records[u].stake >= record[u].stake
      /\ records[u].interest >= record[u].interest
      /\ records[u].loaned = record[u].loaned
      /\ records[u].guaranteed = record[u].guaranteed
      /\ records[u].defaulted = record[u].defaulted + missed * l.payment
  <2>1. 0 \in Nat /\ 0 <= 0 /\ TypeOK
    BY DEF Inv
  <2> QED
    BY <1>3, <1>5, <2>1, PaymentRecords
<1>7. loan'[l].next = 0
  BY <1>1, SettledLoan DEF Inv
<1>8. Placed(l)' /\ Paid(l)' = l.count
  BY <1>7, EndPays
<1>9. /\ global' \in [loaned: Nat, defaulted: Nat, count: Nat]
      /\ global'.loaned = global.loaned /\ global'.count = global.count
      /\ global'.defaulted = global.defaulted + missed * l.payment
  BY <1>1, <1>3, WriteOffTypes DEF Inv
<1>10. \E k \in Nat : balance[u] >= k /\ balance' = Move(u, loan[l].owner, k)
  <2>1. CASE balance' = balance
    BY <1>2, <2>1, MoveNothing DEF Inv
  <2>2. CASE principal > 0 /\ n >= principal /\ balance' = Move(u, loan[l].owner, principal)
    BY <1>1, <1>2, <1>4, <2>2
  <2> QED
    BY <1>1, <2>1, <2>2
<1> HIDE DEF records
<1>11. \E k : Payment(l, 0, missed, records, k)
  BY <1>1, <1>2, <1>3, <1>6, <1>8, <1>9, <1>10 DEF Payment
<1> QED
  BY <1>11

(* A close of a secured loan is a payment that ends it.                    *)
LEMMA CloseSecuredPays ==
    ASSUME Inv, NEW l \in Loans, NEW n \in Amounts, CloseSecured(l, n)
    PROVE  \E next, missed, records, k : Payment(l, next, missed, records, k)
<1> DEFINE cost == DueNow(l) * l.payment
                     + (loan[l].discounted * (Remaining(l) - DueNow(l))) \div l.count
           records == [record EXCEPT ![l.borrower].stake = @ + (n - cost)]
           u == l.borrower
<1>1. /\ Open(l) /\ taken' = taken /\ claims' = claims /\ sales' = sales
      /\ height' = height /\ phase' = phase /\ known' = known
      /\ posted' = posted /\ claimedBy' = claimedBy /\ global' = global
      /\ balance[u] >= n /\ cost > 0 /\ n >= cost
      /\ balance' = Move(u, loan[l].owner, n)
      /\ Settle(l, 0, 0, records)
  BY DEF CloseSecured, guaranteeVars, Affords
<1>2. /\ DueNow(l) \in Int /\ Remaining(l) \in Int /\ l.count \in Nat \ {0}
      /\ Paid(l) \in Nat /\ Paid(l) <= l.count
      /\ u \in Users /\ loan[l].discounted \in Nat
      /\ l.payment \in Nat /\ n \in Nat
      /\ record[u].stake \in Nat /\ record[u].interest \in Nat /\ record[u].defaulted \in Nat
  BY <1>1, WriteOffBounds, LoanFields, LoanTypes, TreasuryAssumption
     DEF Inv, TypeOK, UserRecord, TreasuryAssumption
<1>3. cost \in Int
  <2> DEFINE a == loan[l].discounted * (Remaining(l) - DueNow(l))
             c == l.count
  <2>1. a \in Int /\ c \in Nat \ {0} /\ DueNow(l) * l.payment \in Int
    BY <1>2
  <2>2. a \div c \in Int
    <3> HIDE DEF a, c
    <3> QED
      BY <2>1, QuotientBounds
  <2> QED
    BY <2>1, <2>2
<1> HIDE DEF cost
<1>4. /\ records \in [Users -> UserRecord]
      /\ \A v \in Users \ {u} : records[v] = record[v]
      /\ records[u].stake >= record[u].stake
      /\ records[u].interest = record[u].interest
      /\ records[u].loaned = record[u].loaned
      /\ records[u].guaranteed = record[u].guaranteed
      /\ records[u].defaulted = record[u].defaulted
  <2> DEFINE k == n - cost
  <2>1. k \in Nat
    BY <1>1, <1>2, <1>3
  <2> HIDE DEF k, u
  <2>2. record \in [Users -> UserRecord]
    BY DEF Inv, TypeOK
  <2>3. records = [record EXCEPT ![u].stake = @ + k]
    BY DEF k, u
  <2> HIDE DEF records
  <2> QED
    BY <1>2, <2>1, <2>2, <2>3 DEF UserRecord
<1>5. loan'[l].next = 0
  BY <1>1, SettledLoan DEF Inv
<1>6. Placed(l)' /\ Paid(l)' = l.count
  BY <1>5, EndPays
<1>7. /\ global' \in [loaned: Nat, defaulted: Nat, count: Nat]
      /\ global'.defaulted = global.defaulted + 0 * l.payment
      /\ record[u].defaulted = record[u].defaulted + 0 * l.payment
  BY <1>1, <1>2 DEF Inv, TypeOK
<1>8. Paid(l) + 0 <= l.count
  BY <1>2
<1> HIDE DEF records
<1>9. Payment(l, 0, 0, records, n)
  BY <1>1, <1>2, <1>4, <1>6, <1>7, <1>8 DEF Payment
<1> QED
  BY <1>9

(* All three are payments.                                                 *)
LEMMA Payments ==
    ASSUME Inv, NEW l \in Loans, NEW n \in Amounts,
           Repay(l, n) \/ CloseUnsecured(l, n) \/ CloseSecured(l, n)
    PROVE  \E next, missed, records, k : Payment(l, next, missed, records, k)
  BY RepayPays, CloseUnsecuredPays, CloseSecuredPays

(* A payment keeps the types and the schedules.                            *)
LEMMA PaymentInv ==
    ASSUME Inv, NEW l \in Loans, NEW next, NEW missed, NEW records, NEW n,
           Payment(l, next, missed, records, n)
    PROVE  Inv'
<1>1. /\ record' \in [Users -> UserRecord] /\ loan' \in [Loans -> LoanRecord]
      /\ released' \subseteq Loans /\ Schedules'
  BY SettleInv DEF Payment
<1>2. /\ l.borrower \in Users /\ l.borrower \in Accounts /\ loan[l].owner \in Accounts
  BY LoanFields, LoanTypes DEF Inv, Accounts
<1>3. balance' \in [Accounts -> Int] /\ \A v \in Users : balance'[v] >= 0
  BY <1>2, MoveTypes DEF Payment, Inv
<1>4. TypeOK'
  BY <1>1, <1>3 DEF Payment, Inv, TypeOK
<1> QED
  BY <1>1, <1>4 DEF Inv

(* A sale moves the loan to its buyer and leaves its schedule.             *)
LEMMA BuyInv ==
    ASSUME Inv, NEW l \in Loans, NEW buyer \in Users, NEW price \in PresentValues(l, l.count),
           NEW refund \in Refunds, Buy(l, buyer, price, refund)
    PROVE  Inv'
<1>1. /\ loan \in [Loans -> LoanRecord] /\ l \in taken /\ taken \subseteq Loans
      /\ buyer \in Accounts /\ price \in Nat /\ refund \in Nat
      /\ Treasury \notin Users /\ sales \in Nat
  BY LoanFields, TreasuryAssumption
     DEF TreasuryAssumption, Inv, TypeOK, Accounts, Buy, Open, PresentValues
<1>2. loan' = [loan EXCEPT ![l].owner = buyer]
  BY DEF Buy
<1>3. loan' \in [Loans -> LoanRecord]
  BY <1>1, <1>2 DEF LoanRecord
<1>4. \A x \in Loans : /\ loan'[x].created = loan[x].created
                       /\ loan'[x].discounted = loan[x].discounted
                       /\ loan'[x].next = loan[x].next
                       /\ loan'[x].missed = loan[x].missed
  BY <1>1, <1>2 DEF LoanRecord
<1>5. Schedules'
  <2>1. taken' = taken /\ claims' = claims /\ released' = released
    BY DEF Buy
  <2>2. \A x \in Loans : Paid(x)' = Paid(x) /\ Placed(x)' = Placed(x)
    BY <1>4 DEF Paid, Placed
  <2>3. /\ \A x \in taken : /\ loan[x].discounted \in 1 .. Scheduled(x)
                            /\ Placed(x)
                            /\ loan[x].missed + claims[x] <= Paid(x)
        /\ \A x \in Loans \ taken : claims[x] = 0
        /\ \A x \in released : x \in taken /\ loan[x].next = 0
    BY DEF Inv, Schedules
  <2>4. \A x \in taken : x \in Loans
    BY <1>1
  <2>5. ASSUME NEW x \in taken
        PROVE  /\ loan'[x].discounted \in 1 .. Scheduled(x)
               /\ Placed(x)'
               /\ loan'[x].missed + claims'[x] <= Paid(x)'
    BY <1>4, <2>1, <2>2, <2>3, <2>4
  <2>6. \A x \in released' : x \in taken' /\ loan'[x].next = 0
    BY <1>4, <2>1, <2>3, <2>4
  <2> QED
    BY <2>1, <2>3, <2>5, <2>6 DEF Schedules, Scheduled
<1>6. balance' \in [Accounts -> Int] /\ \A v \in Users : balance'[v] >= 0
  <2>1. \A a \in Accounts : balance[a] \in Int /\ (a \in Users => balance[a] >= 0)
    BY DEF Inv, TypeOK
  <2>2. /\ balance[loan[l].owner] >= price
        /\ balance' = [a \in Accounts |-> balance[a]
                          - (IF a = loan[l].owner THEN price ELSE 0)
                          + (IF a = buyer THEN refund ELSE 0)]
    BY DEF Buy
  <2>3. Users \subseteq Accounts
    BY DEF Accounts
  <2> QED
    BY <1>1, <2>1, <2>2, <2>3
<1>7. TypeOK'
  <2>1. sales' = sales + 1
    BY DEF Buy
  <2> QED
    BY <1>1, <1>3, <1>6, <2>1 DEF Buy, guaranteeVars, Inv, TypeOK
<1> QED
  BY <1>5, <1>7 DEF Inv

(* A claim moves the pointer by the installments it pays.                  *)
LEMMA ClaimInv ==
    ASSUME Inv, NEW l \in Loans, Claim(l)
    PROVE  Inv'
<1> DEFINE due  == DueNow(l)
           w    == due * l.payment
           next == Advance(l, due)
<1>1. /\ Open(l) /\ due > 0 /\ loan[l].owner # Treasury
      /\ balance' = Move(Treasury, loan[l].owner, w)
      /\ loan' = [loan EXCEPT ![l].next = next]
      /\ claims' = [claims EXCEPT ![l] = @ + due]
      /\ record' = IF l.secured THEN record
                   ELSE [record EXCEPT ![l.borrower].defaulted = @ + w]
      /\ global' = IF l.secured THEN global ELSE WriteOff(due, l)
      /\ taken' = taken /\ released' = released /\ sales' = sales
      /\ height' = height /\ phase' = phase /\ known' = known
      /\ posted' = posted /\ claimedBy' = claimedBy
  BY DEF Claim, guaranteeVars
<1>2. /\ due \in 0 .. Remaining(l) /\ Remaining(l) \in 1 .. l.count /\ l.count \in Nat \ {0}
      /\ Paid(l) \in Nat /\ Remaining(l) = l.count - Paid(l)
      /\ l.borrower \in Users /\ l.payment \in Nat
      /\ loan[l].owner \in Accounts /\ Treasury \in Accounts /\ Treasury \notin Users
      /\ l \in taken
  BY <1>1, WriteOffBounds, LoanFields, LoanTypes, TreasuryAssumption
     DEF Inv, Accounts, TreasuryAssumption, Open
<1>3. due \in Nat /\ due <= Remaining(l)
  BY <1>2
<1>4. w \in Nat
  <2> HIDE DEF due
  <2> QED
    BY <1>2, <1>3
<1>5. next \in Nat
  <2> HIDE DEF due
  <2>1. /\ \A k \in Nat : Advance(l, k) =
               IF k >= Remaining(l) THEN 0 ELSE loan[l].created + (Paid(l) + 1 + k) * l.interval
        /\ loan[l].created \in Nat /\ l.interval \in Nat
    BY <1>1, OpenLoan, LoanFields, LoanTypes DEF Inv
  <2>2. (Paid(l) + 1 + due) * l.interval \in Nat
    <3>1. Paid(l) + 1 + due \in Nat
      BY <1>2, <1>3
    <3> DEFINE q == Paid(l) + 1 + due
    <3> HIDE DEF q
    <3>2. q * l.interval \in Nat
      BY <2>1, <3>1 DEF q
    <3> QED
      BY <3>2 DEF q
  <2> QED
    BY <1>3, <2>1, <2>2
<1>6. /\ loan' \in [Loans -> LoanRecord]
      /\ loan'[l].next = next /\ loan'[l].created = loan[l].created
      /\ loan'[l].discounted = loan[l].discounted /\ loan'[l].missed = loan[l].missed
      /\ \A x \in Loans \ {l} : loan'[x] = loan[x]
  <2> HIDE DEF next
  <2> QED
    BY <1>1, <1>5 DEF Inv, TypeOK, LoanRecord
<1>7. Placed(l)' /\ Paid(l)' = Paid(l) + due
  <2> HIDE DEF due
  <2> QED
    BY <1>1, <1>3, <1>6, PointerMoves DEF Inv
<1>8. claims' \in [Loans -> Nat] /\ claims'[l] = claims[l] + due
      /\ \A x \in Loans \ {l} : claims'[x] = claims[x]
  <2> HIDE DEF due
  <2> QED
    BY <1>1, <1>3 DEF Inv, TypeOK
<1>9. l \notin released /\ loan[l].missed + claims[l] <= Paid(l)
      /\ loan[l].missed \in Nat /\ claims[l] \in Nat
  BY <1>1, <1>2, LoanTypes DEF Inv, Schedules, Open
<1>10. Schedules'
  <2> HIDE DEF due, next
  <2>1. loan'[l].missed + claims'[l] <= Paid(l)'
    BY <1>2, <1>3, <1>6, <1>7, <1>8, <1>9
  <2> QED
    BY <1>1, <1>2, <1>6, <1>7, <1>8, <1>9, <2>1, ScheduleMoves DEF Inv
<1> HIDE DEF w
<1>11. record' \in [Users -> UserRecord]
  BY <1>1, <1>2, <1>4 DEF Inv, TypeOK, UserRecord
<1>12. balance' \in [Accounts -> Int] /\ \A v \in Users : balance'[v] >= 0
  BY <1>1, <1>2, <1>4, MoveTypes DEF Inv
<1>13. global' \in [loaned: Nat, defaulted: Nat, count: Nat]
  <2> HIDE DEF due
  <2> QED
    BY <1>1, <1>3, WriteOffTypes DEF Inv, TypeOK
<1>14. TypeOK'
  BY <1>1, <1>6, <1>8, <1>11, <1>12, <1>13 DEF Inv, TypeOK
<1> QED
  BY <1>10, <1>14 DEF Inv

(* What the draw hands back is part of the stake.                          *)
LEMMA StakeReturnBounds ==
    ASSUME TypeOK, NEW u \in Users, record[u].stake > 0
    PROVE  StakeReturn(u) \in 0 .. record[u].stake
<1> DEFINE s == record[u].stake
<1>1. s \in Nat /\ s > 0
  BY DEF TypeOK, UserRecord
<1> HIDE DEF s
<1>2. s \div 2 \in Nat /\ s \div 2 <= s
  BY <1>1
<1>3. s - Greatest(1, s \div 2) \in 0 .. s
  BY <1>1, <1>2 DEF Greatest
<1> QED
  BY <1>3 DEF StakeReturn, s

(* A draw hands back part of a stake.                                      *)
LEMMA DrawInv ==
    ASSUME Inv, NEW u \in Users, Draw(u)
    PROVE  Inv'
<1>1. /\ record[u].stake > 0 /\ phase' \in {"drawing", "failed"}
      /\ height' = height /\ known' = known /\ sales' = sales
      /\ UNCHANGED <<guaranteeVars, loanVars, claims, released>>
      /\ global' = global
      /\ Halve(u) \/ UNCHANGED <<balance, record>>
  BY DEF Draw, DrawnStaker, history
<1> DEFINE n == StakeReturn(u)
<1>2. n \in 0 .. record[u].stake /\ record[u].stake \in Nat /\ n \in Nat
  BY <1>1, StakeReturnBounds DEF Inv, TypeOK, UserRecord
<1>3. u \in Accounts /\ Treasury \in Accounts /\ Treasury \notin Users
  BY TreasuryAssumption DEF TreasuryAssumption, Accounts
<1>4. /\ record' \in [Users -> UserRecord]
      /\ balance' \in [Accounts -> Int] /\ \A v \in Users : balance'[v] >= 0
  <2>1. CASE Halve(u)
    <3>1. balance' = Move(Treasury, u, n) /\ record' = [record EXCEPT ![u].stake = @ - n]
      BY <2>1 DEF Halve
    <3> HIDE DEF n
    <3>2. record' \in [Users -> UserRecord]
      BY <1>2, <3>1 DEF Inv, TypeOK, UserRecord
    <3> QED
      BY <1>2, <1>3, <3>1, <3>2, MoveTypes DEF Inv
  <2>2. CASE UNCHANGED <<balance, record>>
    BY <2>2 DEF Inv, TypeOK
  <2> QED
    BY <1>1, <2>1, <2>2
<1>5. TypeOK'
  BY <1>1, <1>4 DEF guaranteeVars, loanVars, Inv, TypeOK
<1>6. Schedules'
  BY <1>1, SchedulesStay DEF Inv
<1> QED
  BY <1>5, <1>6 DEF Inv

(* A block starts.                                                         *)
LEMMA StartBlockInv == ASSUME Inv, StartBlock PROVE Inv'
<1>1. TypeOK'
  BY DEF StartBlock, guaranteeVars, loanVars, history, Inv, TypeOK
<1>2. Schedules'
  BY SchedulesStay DEF StartBlock, history, Inv
<1> QED
  BY <1>1, <1>2 DEF Inv

(* A chain starts without loans.                                           *)
LEMMA InitInv == ASSUME Init PROVE Inv
<1>1. /\ InitialBalance \in [Accounts -> Nat] /\ InitialRecord \in [Users -> UserRecord]
      /\ InitialKnown \subseteq Users /\ Treasury \in Accounts /\ Users \subseteq Accounts
  BY TreasuryAssumption DEF TreasuryAssumption, Accounts
<1>2. NoLoan \in LoanRecord
  BY <1>1 DEF NoLoan, LoanRecord
<1>3. TypeOK
  BY <1>1, <1>2 DEF Init, TypeOK
<1>4. Schedules
  BY DEF Init, Schedules
<1> QED
  BY <1>3, <1>4 DEF Inv

(* Every step keeps the types and the schedules.                           *)
LEMMA StepInv == ASSUME Inv, [Next]_vars PROVE Inv'
<1>1. CASE Transact
  <2>1. ASSUME NEW u \in Users, NEW n \in Deposits, Deposit(u, n) PROVE Inv'
    BY <2>1, DepositInv
  <2>2. ASSUME NEW g \in Guarantees, PostGuarantee(g) PROVE Inv'
    BY <2>2, PostInv
  <2>3. ASSUME NEW l \in Loans, NEW d \in PresentValues(l, l.count),
               BorrowSecured(l, d) \/ BorrowUnsecured(l, d)
        PROVE  Inv'
    BY <2>3, BorrowSecuredInv, BorrowUnsecuredInv
  <2>4. ASSUME NEW l \in Loans, NEW n \in Amounts,
               Repay(l, n) \/ CloseUnsecured(l, n) \/ CloseSecured(l, n)
        PROVE  Inv'
    BY <2>4, Payments, PaymentInv
  <2>5. ASSUME NEW l \in Loans, NEW u \in Users, NEW price \in PresentValues(l, l.count),
               NEW refund \in Refunds, Buy(l, u, price, refund)
        PROVE  Inv'
    BY <2>5, BuyInv
  <2>6. ASSUME NEW l \in Loans, Claim(l) PROVE Inv'
    BY <2>6, ClaimInv
  <2> QED
    BY <1>1, <2>1, <2>2, <2>3, <2>4, <2>5, <2>6 DEF Transact
<1>2. ASSUME NEW u \in Users, Draw(u) PROVE Inv'
  BY <1>2, DrawInv
<1>3. CASE StartBlock
  BY <1>3, StartBlockInv
<1>4. CASE UNCHANGED vars
  <2>1. TypeOK'
    BY <1>4 DEF vars, guaranteeVars, loanVars, history, Inv, TypeOK
  <2>2. Schedules'
    BY <1>4, SchedulesStay DEF vars, history, Inv
  <2> QED
    BY <2>1, <2>2 DEF Inv
<1> QED
  BY <1>1, <1>2, <1>3, <1>4 DEF Next

(* They hold in every state.                                               *)
LEMMA SpecInv == Spec => []Inv
  BY InitInv, StepInv, PTL DEF Spec

(* No handler makes a record or a user's account negative, whatever the    *)
(* order of deposits, borrows, payments, sales, claims and draws: the      *)
(* guards of _apply_tx_effects and of the handlers suffice.  The account   *)
(* of the treasury is only shown to be an integer.                         *)
THEOREM TypeCorrect == Spec => []TypeOK
<1>1. Inv => TypeOK
  BY DEF Inv
<1> QED
  BY <1>1, SpecInv, PTL

(* The schedule pointer of an open loan stays on one of its installments   *)
(* (_paid_payment_count), and written-off and claimed installments are     *)
(* among the paid ones, each counted once.                                 *)
THEOREM ScheduleKept == Spec => []ScheduleOK
<1>1. ASSUME Inv PROVE ScheduleOK
  <2>1. ASSUME NEW l \in taken
        PROVE  /\ loan[l].discounted \in 1 .. Scheduled(l)
               /\ Open(l) => /\ (loan[l].next - loan[l].created) % l.interval = 0
                             /\ Remaining(l) \in 1 .. l.count
               /\ loan[l].missed + claims[l] <= Paid(l)
    <3>1. l \in Loans
      BY <1>1 DEF Inv, TypeOK
    <3> QED
      BY <1>1, <3>1, OpenLoan DEF Inv, Schedules
  <2> QED
    BY <2>1 DEF ScheduleOK
<1> QED
  BY <1>1, SpecInv, PTL

-----------------------------------------------------------------------------
(* Which steps touch the books at all.                                     *)

(* A step that moves stakes, takes a secured loan, posts a guarantee or    *)
(* sells a loan.                                                           *)
Quiet ==
    /\ \A u \in Users : /\ record'[u].interest = record[u].interest
                        /\ record'[u].loaned = record[u].loaned
                        /\ record'[u].defaulted = record[u].defaulted
                        /\ record'[u].guaranteed = record[u].guaranteed
    /\ global' = global /\ claimedBy' = claimedBy
    /\ claims' = claims /\ released' = released
    /\ posted' = posted \/ \E g \in Guarantees \ posted : posted' = posted \cup {g}
    /\ taken' = taken \/ \E l \in Loans \ taken : l.secured /\ taken' = taken \cup {l}
    /\ \A l \in taken : loan'[l].next = loan[l].next /\ loan'[l].missed = loan[l].missed

(* A change of a user's stake changes nothing else of the records.         *)
LEMMA StakeChanges ==
    ASSUME TypeOK, NEW u \in Users, NEW n, record' = [record EXCEPT ![u].stake = n]
    PROVE  \A v \in Users : /\ record'[v].interest = record[v].interest
                            /\ record'[v].loaned = record[v].loaned
                            /\ record'[v].defaulted = record[v].defaulted
                            /\ record'[v].guaranteed = record[v].guaranteed
<1>1. record \in [Users -> UserRecord]
  BY DEF TypeOK
<1> QED
  BY <1>1 DEF UserRecord

(* A new loan leaves the others alone.                                     *)
LEMMA OriginateOthers ==
    ASSUME TypeOK, NEW l \in Loans, l \notin taken, NEW d, Originate(l, d)
    PROVE  /\ \A x \in taken : loan'[x] = loan[x]
           /\ taken' = taken \cup {l}
           /\ loan'[l].missed = 0
           /\ loan'[l].next = height + l.interval
           /\ loan'[l].created = height
           /\ \A x \in Loans \ {l} : loan'[x] = loan[x]
<1>1. loan \in [Loans -> LoanRecord] /\ taken \subseteq Loans
  BY DEF TypeOK
<1> QED
  BY <1>1 DEF Originate

(* A deposit only raises a stake.                                          *)
LEMMA DepositQuiet ==
    ASSUME Inv, NEW u \in Users, NEW n \in Deposits, Deposit(u, n) PROVE Quiet
<1>1. record' = [record EXCEPT ![u].stake = record[u].stake + n]
  BY DEF Deposit, Inv, TypeOK
<1> QED
  BY <1>1, StakeChanges DEF Deposit, guaranteeVars, loanVars, history, Inv, Quiet

(* A new guarantee backs nothing yet.                                      *)
LEMMA PostQuiet ==
    ASSUME NEW g \in Guarantees, PostGuarantee(g) PROVE Quiet
  BY DEF PostGuarantee, loanVars, history, Quiet

(* A secured borrow touches no record.                                     *)
LEMMA BorrowSecuredQuiet ==
    ASSUME Inv, NEW l \in Loans, NEW d, BorrowSecured(l, d) PROVE Quiet
<1>1. l \notin taken /\ l.secured /\ Originate(l, d)
  BY DEF BorrowSecured
<1>2. taken' = taken \cup {l} /\ \A x \in taken : loan'[x] = loan[x]
  BY <1>1, OriginateOthers DEF Inv
<1> QED
  BY <1>1, <1>2 DEF BorrowSecured, guaranteeVars, history, Quiet

(* A sale changes the owner only.                                          *)
LEMMA BuyQuiet ==
    ASSUME Inv, NEW l, NEW u, NEW price, NEW refund, Buy(l, u, price, refund) PROVE Quiet
<1>1. /\ loan' = [loan EXCEPT ![l].owner = u]
      /\ loan \in [Loans -> LoanRecord] /\ taken \subseteq Loans
  BY DEF Buy, Inv, TypeOK
<1>2. \A x \in taken : loan'[x].next = loan[x].next /\ loan'[x].missed = loan[x].missed
  BY <1>1 DEF LoanRecord
<1> QED
  BY <1>2 DEF Buy, guaranteeVars, Quiet

(* A draw lowers a stake at most.                                          *)
LEMMA DrawQuiet ==
    ASSUME Inv, NEW u \in Users, Draw(u) PROVE Quiet
<1>1. CASE Halve(u)
  <2>1. record' = [record EXCEPT ![u].stake = record[u].stake - StakeReturn(u)]
    BY <1>1 DEF Halve, Inv, TypeOK
  <2> QED
    BY <2>1, StakeChanges DEF Draw, guaranteeVars, loanVars, history, Inv, Quiet
<1>2. CASE UNCHANGED <<balance, record>>
  BY <1>2 DEF Draw, guaranteeVars, loanVars, history, Quiet
<1> QED
  BY <1>1, <1>2 DEF Draw

(* A new block changes the height only.                                    *)
LEMMA IdleQuiet ==
    ASSUME StartBlock \/ UNCHANGED vars PROVE Quiet
  BY DEF StartBlock, vars, guaranteeVars, loanVars, history, Quiet

(* Only unsecured borrows, payments and claims touch the books.            *)
LEMMA StepKinds ==
    ASSUME Inv, [Next]_vars
    PROVE  \/ Quiet
           \/ \E l \in Loans : \E d \in PresentValues(l, l.count) : BorrowUnsecured(l, d)
           \/ \E l \in Loans : \E next, missed, records, n : Payment(l, next, missed, records, n)
           \/ \E l \in Loans : Claim(l)
<1> DEFINE Kinds ==
           \/ Quiet
           \/ \E l \in Loans : \E d \in PresentValues(l, l.count) : BorrowUnsecured(l, d)
           \/ \E l \in Loans : \E next, missed, records, n : Payment(l, next, missed, records, n)
           \/ \E l \in Loans : Claim(l)
<1> HIDE DEF Kinds
<1>1. ASSUME Transact PROVE Kinds
  <2>1. ASSUME NEW u \in Users, NEW n \in Deposits, Deposit(u, n) PROVE Kinds
    BY <2>1, DepositQuiet DEF Kinds
  <2>2. ASSUME NEW g \in Guarantees, PostGuarantee(g) PROVE Kinds
    BY <2>2, PostQuiet DEF Kinds
  <2>3. ASSUME NEW l \in Loans, NEW d \in PresentValues(l, l.count),
               BorrowSecured(l, d) \/ BorrowUnsecured(l, d)
        PROVE  Kinds
    BY <2>3, BorrowSecuredQuiet DEF Kinds
  <2>4. ASSUME NEW l \in Loans, NEW n \in Amounts,
               Repay(l, n) \/ CloseUnsecured(l, n) \/ CloseSecured(l, n)
        PROVE  Kinds
    BY <2>4, Payments DEF Kinds
  <2>5. ASSUME NEW l \in Loans, NEW u \in Users, NEW price \in PresentValues(l, l.count),
               NEW refund \in Refunds, Buy(l, u, price, refund)
        PROVE  Kinds
    BY <2>5, BuyQuiet DEF Kinds
  <2>6. ASSUME NEW l \in Loans, Claim(l) PROVE Kinds
    BY <2>6 DEF Kinds
  <2> QED
    BY <1>1, <2>1, <2>2, <2>3, <2>4, <2>5, <2>6 DEF Transact
<1>2. ASSUME NEW u \in Users, Draw(u) PROVE Kinds
  BY <1>2, DrawQuiet DEF Kinds
<1>3. ASSUME StartBlock \/ UNCHANGED vars PROVE Kinds
  BY <1>3, IdleQuiet DEF Kinds
<1>4. Kinds
  BY <1>1, <1>2, <1>3 DEF Next
<1> QED
  BY <1>4 DEF Kinds

(* A claim in terms of the variables it changes.                           *)
LEMMA ClaimMoves ==
    ASSUME Inv, NEW l \in Loans, Claim(l)
    PROVE  LET due == DueNow(l)
           IN  /\ Open(l) /\ l \in taken /\ due \in Nat \ {0} /\ due <= Remaining(l)
               /\ loan'[l].next = Advance(l, due)
               /\ loan'[l].next = 0 \/ loan'[l].next > loan[l].next
               /\ loan'[l].created = loan[l].created
               /\ loan'[l].missed = loan[l].missed
               /\ Paid(l)' = Paid(l) + due
               /\ \A x \in Loans \ {l} : loan'[x] = loan[x] /\ claims'[x] = claims[x]
               /\ claims'[l] = claims[l] + due
<1> DEFINE due  == DueNow(l)
           next == Advance(l, due)
<1>1. /\ Open(l) /\ due > 0
      /\ loan' = [loan EXCEPT ![l].next = next]
      /\ claims' = [claims EXCEPT ![l] = @ + due]
      /\ l \in taken /\ due \in 0 .. Remaining(l)
      /\ Remaining(l) \in 1 .. l.count /\ l.count \in Nat
  BY WriteOffBounds DEF Claim, Open
<1>2. due \in Nat \ {0} /\ due <= Remaining(l)
  BY <1>1
<1>3. loan \in [Loans -> LoanRecord] /\ claims \in [Loans -> Nat]
  BY DEF Inv, TypeOK
<1> HIDE DEF due, next
<1>4. /\ loan'[l].next = next
      /\ loan'[l].created = loan[l].created
      /\ loan'[l].missed = loan[l].missed
      /\ \A x \in Loans \ {l} : loan'[x] = loan[x] /\ claims'[x] = claims[x]
      /\ claims'[l] = claims[l] + due
  BY <1>1, <1>3 DEF LoanRecord
<1>5. loan'[l].next = Advance(l, due)
  BY <1>4 DEF next
<1>6. /\ Paid(l)' = Paid(l) + due
      /\ loan'[l].next = 0 \/ loan'[l].next > loan[l].next
  <2>1. due \in Nat /\ due > 0
    BY <1>2
  <2> QED
    BY <1>1, <1>2, <1>4, <1>5, <2>1, PointerMoves DEF Inv
<1> QED
  BY <1>1, <1>2, <1>4, <1>5, <1>6 DEF due

(* A loan's pointer only moves forward, to its end.                        *)
LEMMA PointerStep ==
    ASSUME Inv, [Next]_vars
    PROVE  \A l \in taken : \/ loan'[l].next = loan[l].next
                            \/ loan'[l].next = 0
                            \/ loan[l].next # 0 /\ loan'[l].next > loan[l].next
<1> DEFINE A(l) == \/ loan'[l].next = loan[l].next
                   \/ loan'[l].next = 0
                   \/ loan[l].next # 0 /\ loan'[l].next > loan[l].next
<1>1. taken \subseteq Loans
  BY DEF Inv, TypeOK
<1>2. ASSUME Quiet PROVE \A l \in taken : A(l)
  BY <1>2 DEF Quiet
<1>3. ASSUME NEW l \in Loans, NEW d \in PresentValues(l, l.count), BorrowUnsecured(l, d)
      PROVE  \A x \in taken : A(x)
  <2>1. l \notin taken /\ Originate(l, d)
    BY <1>3 DEF BorrowUnsecured
  <2> QED
    BY <2>1, OriginateOthers DEF Inv
<1>4. ASSUME NEW l \in Loans, NEW next, NEW missed, NEW records, NEW n,
             Payment(l, next, missed, records, n)
      PROVE  \A x \in taken : A(x)
  <2>1. /\ Settle(l, next, missed, records) /\ Open(l)
        /\ next = 0 \/ next > loan[l].next
    BY <1>4 DEF Payment
  <2>2. loan'[l].next = next /\ \A x \in Loans \ {l} : loan'[x] = loan[x]
    BY <2>1, SettledLoan DEF Inv
  <2> QED
    BY <1>1, <2>1, <2>2 DEF Open
<1>5. ASSUME NEW l \in Loans, Claim(l) PROVE \A x \in taken : A(x)
  <2>1. /\ Open(l) /\ (loan'[l].next = 0 \/ loan'[l].next > loan[l].next)
        /\ \A x \in Loans \ {l} : loan'[x] = loan[x]
    BY <1>5, ClaimMoves
  <2> QED
    BY <1>1, <1>5, <2>1 DEF Open, Claim
<1> HIDE DEF A
<1>6. \A l \in taken : A(l)
  BY <1>2, <1>3, <1>4, <1>5, StepKinds
<1> QED
  BY <1>6 DEF A

(* No handler moves the next payment block of a loan back, or an ended     *)
(* loan at all.                                                            *)
THEOREM LoansAdvance == Spec => LoansOnlyAdvance
<1>1. Inv /\ [Next]_vars
      => [ \A l \in taken : \/ loan'[l].next = loan[l].next
                            \/ loan'[l].next = 0
                            \/ loan[l].next # 0 /\ loan'[l].next > loan[l].next ]_vars
  BY PointerStep
<1> QED
  BY <1>1, SpecInv, PTL DEF Spec, LoansOnlyAdvance

-----------------------------------------------------------------------------
(* What the steps do to the records.                                       *)

(* A borrow adds to what its other guarantors guarantee.                   *)
LEMMA BorrowRecords ==
    ASSUME Inv, NEW l \in Loans, NEW d \in PresentValues(l, l.count), BorrowUnsecured(l, d),
           NEW u \in Users
    PROVE  /\ record'[u].interest = record[u].interest
           /\ record'[u].defaulted = record[u].defaulted
           /\ record'[u].loaned = record[u].loaned + (IF u = l.borrower THEN d ELSE 0)
           /\ record'[u].guaranteed = record[u].guaranteed
                 + (IF u = l.borrower THEN 0 ELSE AmountOf(GuaranteedBy(l, u)))
           /\ GuaranteedBy(l, u) \in SUBSET Guarantees
           /\ AmountOf(GuaranteedBy(l, u)) \in Nat
           /\ d \in Nat
<1> DEFINE n == AmountOf(GuaranteedBy(l, u))
<1>1. GuaranteedBy(l, u) \in SUBSET Guarantees
  BY LoanFields DEF GuaranteedBy
<1>2. n \in Nat /\ d \in Nat /\ record[u] \in UserRecord
  BY <1>1, GuaranteeSums, LoanFields DEF PresentValues, Inv, TypeOK
<1>3. record'[u] = IF u = l.borrower
                   THEN [record[u] EXCEPT !.loaned = @ + d]
                   ELSE [record[u] EXCEPT !.guaranteed = @ + n]
  BY DEF BorrowUnsecured, RecordsAfterBorrow
<1> HIDE DEF n
<1>4. /\ record'[u].interest = record[u].interest
      /\ record'[u].defaulted = record[u].defaulted
      /\ record'[u].loaned = record[u].loaned + (IF u = l.borrower THEN d ELSE 0)
      /\ record'[u].guaranteed = record[u].guaranteed + (IF u = l.borrower THEN 0 ELSE n)
  BY <1>2, <1>3 DEF UserRecord
<1> QED
  BY <1>1, <1>2, <1>4 DEF n

(* A payment raises interest and defaults, and one that ends the loan      *)
(* lowers what its guarantors guarantee.                                   *)
LEMMA PaymentKeeps ==
    ASSUME Inv, NEW l \in Loans, NEW next, NEW missed, NEW records, NEW n,
           Payment(l, next, missed, records, n), NEW u \in Users
    PROVE  LET back == Returned(l, loan[l].missed + missed, u)
           IN  /\ record'[u].stake >= record[u].stake
               /\ record'[u].interest >= record[u].interest
               /\ record'[u].loaned = record[u].loaned
               /\ record'[u].defaulted = record[u].defaulted
                     + (IF u = l.borrower THEN missed * l.payment ELSE 0)
               /\ record'[u].guaranteed =
                      IF next = 0 THEN Greatest(0, record[u].guaranteed - back)
                      ELSE record[u].guaranteed
               /\ record'[u].guaranteed <= record[u].guaranteed
               /\ back \in Nat
<1> DEFINE m == loan[l].missed + missed
           w == missed * l.payment
<1>1. /\ records \in [Users -> UserRecord] /\ record \in [Users -> UserRecord]
      /\ missed \in Nat /\ loan[l].missed \in Nat
      /\ Settle(l, next, missed, records)
  BY LoanTypes DEF Payment, Inv, TypeOK
<1>2. m \in Nat
  BY <1>1
<1>3. /\ records[u].stake >= record[u].stake
      /\ records[u].interest >= record[u].interest
      /\ records[u].loaned = record[u].loaned
      /\ records[u].guaranteed = record[u].guaranteed
      /\ records[u].defaulted = record[u].defaulted + (IF u = l.borrower THEN w ELSE 0)
  <2>1. CASE u = l.borrower
    BY <2>1 DEF Payment
  <2>2. CASE u # l.borrower
    <3>1. records[u] = record[u]
      BY <2>2 DEF Payment
    <3>2. record[u] \in UserRecord
      BY <1>1
    <3> QED
      BY <2>2, <3>1, <3>2 DEF UserRecord
  <2> QED
    BY <2>1, <2>2
<1>4. record' = IF next = 0 THEN Release(records, l, m) ELSE records
  BY <1>1 DEF Settle
<1>5. Returned(l, m, u) \in Nat
  BY <1>2, ReturnedNat
<1>6. record[u].guaranteed \in Nat
  BY <1>1 DEF UserRecord
<1> HIDE DEF m, w
<1>7. CASE next = 0
  <2>1. /\ Release(records, l, m)[u].stake = records[u].stake
        /\ Release(records, l, m)[u].interest = records[u].interest
        /\ Release(records, l, m)[u].loaned = records[u].loaned
        /\ Release(records, l, m)[u].defaulted = records[u].defaulted
        /\ Release(records, l, m)[u].guaranteed
               = Greatest(0, records[u].guaranteed - Returned(l, m, u))
        /\ Release(records, l, m)[u].guaranteed <= records[u].guaranteed
    BY <1>1, <1>2, ReleaseRecords
  <2> QED
    BY <1>3, <1>4, <1>5, <1>7, <2>1 DEF m, w
<1>8. CASE next # 0
  BY <1>3, <1>4, <1>5, <1>6, <1>8 DEF m, w
<1> QED
  BY <1>7, <1>8

(* A claim changes nothing of a record but the defaults.                   *)
LEMMA ClaimRecords ==
    ASSUME Inv, NEW l \in Loans, Claim(l), NEW u \in Users
    PROVE  /\ record'[u].stake = record[u].stake
           /\ record'[u].interest = record[u].interest
           /\ record'[u].loaned = record[u].loaned
           /\ record'[u].guaranteed = record[u].guaranteed
           /\ record'[u].defaulted = record[u].defaulted
                 + (IF u = l.borrower /\ ~l.secured THEN DueNow(l) * l.payment ELSE 0)
<1> DEFINE w == DueNow(l) * l.payment
<1>1. record' = IF l.secured THEN record ELSE [record EXCEPT ![l.borrower].defaulted = @ + w]
  BY DEF Claim
<1>2. record \in [Users -> UserRecord] /\ l.borrower \in Users
  BY LoanFields DEF Inv, TypeOK
<1>3. record[u].defaulted \in Nat
  BY <1>2 DEF UserRecord
<1> HIDE DEF w
<1>4. /\ record'[u].stake = record[u].stake
      /\ record'[u].interest = record[u].interest
      /\ record'[u].loaned = record[u].loaned
      /\ record'[u].guaranteed = record[u].guaranteed
      /\ record'[u].defaulted = record[u].defaulted
                                    + (IF u = l.borrower /\ ~l.secured THEN w ELSE 0)
  <2>1. CASE l.secured
    BY <1>1, <1>3, <2>1
  <2>2. CASE ~l.secured
    BY <1>1, <1>2, <1>3, <2>2 DEF UserRecord
  <2> QED
    BY <2>1, <2>2
<1> QED
  BY <1>4 DEF w

(* Nobody guarantees more than it has paid in interest: a borrow checks    *)
(* it, and everything else lowers the one or raises the other.             *)
LEMMA CapacityStep ==
    ASSUME Inv, CapacityRespected, [Next]_vars
    PROVE  CapacityRespected'
<1> SUFFICES ASSUME NEW u \in Users
             PROVE  record'[u].guaranteed <= record'[u].interest
  BY DEF CapacityRespected
<1>1. /\ record[u].guaranteed <= record[u].interest
      /\ record[u].guaranteed \in Nat /\ record[u].interest \in Nat
  BY DEF CapacityRespected, Inv, TypeOK, UserRecord
<1>2. record'[u].guaranteed \in Nat /\ record'[u].interest \in Nat
  BY StepInv DEF Inv, TypeOK, UserRecord
<1>3. CASE Quiet
  BY <1>1, <1>3 DEF Quiet
<1>4. ASSUME NEW l \in Loans, NEW d \in PresentValues(l, l.count), BorrowUnsecured(l, d)
      PROVE  record'[u].guaranteed <= record'[u].interest
  <2> DEFINE n == AmountOf(GuaranteedBy(l, u))
  <2>1. /\ record'[u].interest = record[u].interest
        /\ record'[u].guaranteed = record[u].guaranteed + (IF u = l.borrower THEN 0 ELSE n)
        /\ n \in Nat
    BY <1>4, BorrowRecords
  <2>2. record[u].guaranteed + n <= record[u].interest
    <3>1. CASE GuaranteedBy(l, u) = {}
      <4>1. n = 0
        BY <3>1, SumEmpty DEF AmountOf, SumOver
      <4> QED
        BY <1>1, <4>1
    <3>2. CASE GuaranteedBy(l, u) # {}
      <4>1. u \in {g.guarantor : g \in l.refs}
        BY <3>2 DEF GuaranteedBy
      <4> QED
        BY <1>4, <4>1 DEF BorrowUnsecured, Capacity
    <3> QED
      BY <3>1, <3>2
  <2> HIDE DEF n
  <2> QED
    BY <1>1, <2>1, <2>2
<1>5. ASSUME NEW l \in Loans, NEW next, NEW missed, NEW records, NEW n,
             Payment(l, next, missed, records, n)
      PROVE  record'[u].guaranteed <= record'[u].interest
  BY <1>1, <1>2, <1>5, PaymentKeeps
<1>6. ASSUME NEW l \in Loans, Claim(l)
      PROVE  record'[u].guaranteed <= record'[u].interest
  BY <1>1, <1>6, ClaimRecords
<1> QED
  BY <1>3, <1>4, <1>5, <1>6, StepKinds

-----------------------------------------------------------------------------
(* Exposure.  A guarantee is claimed by exactly the loan it backs, except  *)
(* when the borrower guarantees its own loan.                              *)
Backing ==
    /\ \A g \in Guarantees : claimedBy[g] # Nobody =>
          /\ claimedBy[g] \in taken /\ g \in claimedBy[g].refs
          /\ g \in posted /\ g.guarantor # claimedBy[g].borrower
    /\ \A l \in taken : \A g \in l.refs : g.guarantor # l.borrower => claimedBy[g] = l

(* A borrow claims every guarantee it refers to, but the borrower's own.   *)
LEMMA BorrowBacking ==
    ASSUME Inv, Backing, NEW l \in Loans, NEW d, BorrowUnsecured(l, d)
    PROVE  Backing'
<1>1. /\ l \notin taken /\ taken' = taken \cup {l} /\ posted' = posted
      /\ \A g \in l.refs : g \in posted /\ claimedBy[g] = Nobody
      /\ \A g \in Guarantees : claimedBy'[g] =
            IF g \in l.refs /\ g.guarantor # l.borrower THEN l ELSE claimedBy[g]
  BY DEF BorrowUnsecured, Originate, Claimable, ClaimsAfterBorrow
<1>2. /\ l # Nobody /\ l.refs \subseteq Guarantees /\ taken \subseteq Loans
      /\ \A x \in Loans : x.refs \subseteq Guarantees /\ x # Nobody
  BY LoanFields DEF Inv, TypeOK
<1>3. ASSUME NEW g \in Guarantees, claimedBy'[g] # Nobody
      PROVE  /\ claimedBy'[g] \in taken' /\ g \in claimedBy'[g].refs
             /\ g \in posted' /\ g.guarantor # claimedBy'[g].borrower
  BY <1>1, <1>3 DEF Backing
<1>4. ASSUME NEW x \in taken', NEW g \in x.refs, g.guarantor # x.borrower
      PROVE  claimedBy'[g] = x
  <2>1. CASE x = l
    BY <1>1, <1>2, <1>4, <2>1
  <2>2. CASE x # l
    <3>1. x \in taken /\ g \in Guarantees
      BY <1>1, <1>2, <2>2
    <3>2. claimedBy[g] = x /\ x # Nobody
      BY <1>2, <1>4, <3>1 DEF Backing
    <3> QED
      BY <1>1, <3>1, <3>2
  <2> QED
    BY <2>1, <2>2
<1> QED
  BY <1>3, <1>4 DEF Backing

(* No step breaks the link between a loan and its guarantees.              *)
LEMMA BackingStep ==
    ASSUME Inv, Backing, [Next]_vars
    PROVE  Backing'
<1>1. CASE Quiet
  <2>1. \A l \in Loans : l.secured => l.refs = {}
    BY LoanFields
  <2> QED
    BY <1>1, <2>1 DEF Quiet, Backing
<1>2. ASSUME NEW l \in Loans, NEW d \in PresentValues(l, l.count), BorrowUnsecured(l, d)
      PROVE  Backing'
  BY <1>2, BorrowBacking
<1>3. ASSUME NEW l \in Loans, NEW next, NEW missed, NEW records, NEW n,
             Payment(l, next, missed, records, n)
      PROVE  Backing'
  BY <1>3 DEF Payment, Backing
<1>4. ASSUME NEW l \in Loans, Claim(l) PROVE Backing'
  BY <1>4 DEF Claim, guaranteeVars, Backing
<1> QED
  BY <1>1, <1>2, <1>3, <1>4, StepKinds

(* What u's posted guarantees take of its capacity, and their sum.         *)
Hold(u) == [g \in Guarantees |-> IF g \in posted /\ g.guarantor = u THEN Held(g) ELSE 0]

Exposure(u) == SumFunctionOnSet(Hold(u), Guarantees)

(* A guarantee takes no negative amount.                                   *)
LEMMA HeldNat ==
    ASSUME TypeOK, NEW g \in Guarantees
    PROVE  Held(g) \in Nat
<1> DEFINE l == claimedBy[g]
<1>1. g.amount \in Nat
  BY GuaranteeFields
<1>2. ASSUME l # Nobody
      PROVE  g.amount - (g.amount * (l.count - loan[l].missed)) \div l.count \in Nat
  <2>1. l \in Loans
    BY <1>2 DEF TypeOK
  <2> DEFINE a == g.amount
             c == l.count
             k == l.count - loan[l].missed
  <2>2. a \in Nat /\ c \in Nat \ {0} /\ k \in Int /\ k <= c
    BY <1>1, <2>1, LoanFields, LoanTypes
  <2> HIDE DEF a, c, k
  <2>3. a * k <= a * c /\ a * k \in Int /\ a * c \in Int
    BY <2>2, ProductMonotone
  <2>4. (a * c) \div c = a
    BY <2>2, QuotientExact
  <2>5. (a * k) \div c <= a /\ (a * k) \div c \in Int
    BY <2>2, <2>3, <2>4, QuotientMonotone, QuotientBounds
  <2>6. a - (a * k) \div c \in Nat
    BY <2>2, <2>5
  <2> QED
    BY <2>6 DEF a, c, k
<1> QED
  BY <1>1, <1>2 DEF Held

(* The sum of the property is the sum over all guarantees.                 *)
LEMMA ExposureIs ==
    TypeOK => \A u \in Users :
        /\ SumOver({g \in posted : g.guarantor = u}, Held) = Exposure(u)
        /\ \A g \in Guarantees : Hold(u)[g] \in Nat
<1> SUFFICES ASSUME TypeOK, NEW u \in Users
             PROVE  /\ SumOver({g \in posted : g.guarantor = u}, Held) = Exposure(u)
                    /\ \A g \in Guarantees : Hold(u)[g] \in Nat
  OBVIOUS
<1> DEFINE T == {g \in posted : g.guarantor = u}
           f == [g \in T |-> Held(g)]
           h == Hold(u)
<1>1. T \in SUBSET Guarantees /\ IsFiniteSet(Guarantees)
  BY TreasuryAssumption DEF TreasuryAssumption, TypeOK
<1>2. \A g \in T : f[g] \in Int
  BY <1>1, HeldNat
<1>3. \A g \in Guarantees : h[g] = IF g \in T THEN f[g] ELSE 0
  BY DEF Hold
<1>4. SumFunctionOnSet(h, Guarantees) = SumFunctionOnSet(f, T)
  <2> HIDE DEF T, f, h
  <2> QED
    BY <1>1, <1>2, <1>3, SumRestrict
<1>5. \A g \in Guarantees : h[g] \in Nat
  BY HeldNat DEF Hold
<1> QED
  BY <1>4, <1>5 DEF SumOver, Exposure

(* The same in the state after a step.                                     *)
LEMMA ExposureIsNext ==
    TypeOK' => (\A u \in Users :
        /\ SumOver({g \in posted : g.guarantor = u}, Held) = Exposure(u)
        /\ \A g \in Guarantees : Hold(u)[g] \in Nat)'
  BY ExposureIs, PTL

(* A guarantor that never backed its own loan is exposed to what its       *)
(* record says.                                                            *)
Unselfish(u) == \A l \in taken : l.borrower = u => ~SelfBacked(l)

Exposed == \A u \in Users : Unselfish(u) => record[u].guaranteed = Exposure(u)

(* Exposure only changes where a guarantee is claimed or its loan ends.    *)
LEMMA HoldStays ==
    ASSUME Inv, Backing, NEW u \in Users,
           claimedBy' = claimedBy, released' = released, posted \subseteq posted',
           \A g \in Guarantees : g \in posted' \ posted => claimedBy[g] = Nobody,
           \A l \in released : loan'[l].missed = loan[l].missed
    PROVE  Exposure(u)' = Exposure(u)
<1>1. ASSUME NEW g \in Guarantees PROVE Held(g)' = Held(g)
  BY DEF Held
<1>2. ASSUME NEW g \in Guarantees PROVE Hold(u)'[g] = Hold(u)[g]
  <2>1. claimedBy[g] = Nobody => Held(g)' = 0
    BY <1>1 DEF Held
  <2> QED
    BY <1>1, <2>1 DEF Hold
<1>3. Hold(u)' = Hold(u)
  BY <1>2 DEF Hold
<1> QED
  BY <1>3 DEF Exposure

(* A borrow exposes its guarantors to the amounts it refers to.            *)
LEMMA BorrowExposes ==
    ASSUME Inv, Backing, NEW l \in Loans, NEW d \in PresentValues(l, l.count),
           BorrowUnsecured(l, d), NEW u \in Users, u # l.borrower
    PROVE  Exposure(u)' = Exposure(u) + AmountOf(GuaranteedBy(l, u))
<1> DEFINE T == GuaranteedBy(l, u)
           a == [g \in T |-> g.amount]
           x == [g \in Guarantees |-> IF g \in T THEN a[g] ELSE 0]
           f == Hold(u)
           h == Hold(u)'
<1>1. /\ T \in SUBSET Guarantees /\ IsFiniteSet(Guarantees)
      /\ \A g \in T : g \in l.refs /\ g.guarantor = u
  BY BorrowRecords, TreasuryAssumption DEF TreasuryAssumption, GuaranteedBy
<1>2. \A g \in T : a[g] \in Int
  BY <1>1, GuaranteeFields
<1>3. /\ l \notin taken /\ released' = released /\ posted' = posted
      /\ \A g \in l.refs : g \in posted /\ claimedBy[g] = Nobody
      /\ \A g \in Guarantees : claimedBy'[g] =
            IF g \in l.refs /\ g.guarantor # l.borrower THEN l ELSE claimedBy[g]
      /\ Originate(l, d)
  BY DEF BorrowUnsecured, history, Claimable, ClaimsAfterBorrow
<1>4. /\ l # Nobody /\ l \notin released
      /\ \A y \in Loans \ {l} : loan'[y] = loan[y]
  BY <1>3, LoanFields, OriginateOthers DEF Inv, Schedules
<1>5. ASSUME NEW g \in Guarantees PROVE h[g] = f[g] + x[g]
  <2>1. f[g] \in Nat
    BY ExposureIs DEF Inv
  <2>2. CASE g \in T
    <3>1. f[g] = 0
      BY <1>1, <1>3, <2>2 DEF Hold, Held
    <3>2. g.amount \in Nat
      BY GuaranteeFields
    <3>3. claimedBy'[g] = l /\ l \notin released'
      BY <1>1, <1>3, <1>4, <2>2
    <3>4. Held(g)' = g.amount
      BY <1>4, <3>3 DEF Held
    <3>5. h[g] = g.amount
      BY <1>1, <1>3, <2>2, <3>4 DEF Hold
    <3> QED
      BY <2>2, <3>1, <3>2, <3>5
  <2>3. CASE g \notin T
    <3>1. g.guarantor = u => claimedBy'[g] = claimedBy[g]
      BY <1>3, <2>3 DEF GuaranteedBy
    <3>2. claimedBy[g] # Nobody => claimedBy[g] \in Loans \ {l}
      BY <1>3 DEF Inv, TypeOK, Backing
    <3>3. g.guarantor = u => Held(g)' = Held(g)
      BY <1>3, <1>4, <3>1, <3>2 DEF Held
    <3>4. h[g] = f[g]
      BY <1>3, <3>3 DEF Hold
    <3> QED
      BY <2>1, <2>3, <3>4
  <2> QED
    BY <2>2, <2>3
<1>6. \A g \in Guarantees : f[g] \in Int /\ x[g] \in Int
  <2>1. \A g \in Guarantees : f[g] \in Nat
    BY ExposureIs DEF Inv
  <2>2. \A g \in Guarantees : x[g] = IF g \in T THEN a[g] ELSE 0
    OBVIOUS
  <2> HIDE DEF f, x, a, T
  <2> QED
    BY <1>2, <2>1, <2>2
<1>7. SumFunctionOnSet(x, Guarantees) = SumFunctionOnSet(a, T)
  <2>1. \A g \in Guarantees : x[g] = IF g \in T THEN a[g] ELSE 0
    OBVIOUS
  <2> HIDE DEF T, a, x
  <2> QED
    BY <1>1, <1>2, <2>1, SumRestrict
<1>8. SumFunctionOnSet(h, Guarantees)
         = SumFunctionOnSet(f, Guarantees) + SumFunctionOnSet(x, Guarantees)
  <2> HIDE DEF f, x, h
  <2> QED
    BY <1>1, <1>5, <1>6, SumPlus
<1> QED
  BY <1>7, <1>8 DEF Exposure, AmountOf, SumOver

(* A loan that ends frees the share of its guarantors.                     *)
LEMMA EndFrees ==
    ASSUME Inv, Backing, NEW l \in Loans, NEW missed, NEW records, NEW n,
           Payment(l, 0, missed, records, n), NEW u \in Users, Unselfish(u)
    PROVE  Exposure(u) = Exposure(u)' + Returned(l, loan[l].missed + missed, u)
<1> DEFINE m == loan[l].missed + missed
           T == {g \in l.refs : g.guarantor = u}
           s == [g \in T |-> (g.amount * Greatest(0, l.count - m)) \div l.count]
           x == [g \in Guarantees |-> IF g \in T THEN s[g] ELSE 0]
           f == Hold(u)
           h == Hold(u)'
<1>1. /\ l \in taken /\ loan[l].next # 0 /\ missed \in Nat
      /\ posted' = posted /\ claimedBy' = claimedBy
      /\ Settle(l, 0, missed, records)
      /\ Paid(l) + missed <= l.count
  BY OpenLoan, LoanFields DEF Payment, Open, Inv, Schedules
<1>2. /\ released' = released \cup {l} /\ l \notin released
      /\ loan'[l].missed = m /\ \A y \in Loans \ {l} : loan'[y] = loan[y]
  <2>1. released' = released \cup {l} /\ l \notin released
    BY <1>1 DEF Settle, Inv, Schedules
  <2>2. loan'[l].missed = m /\ \A y \in Loans \ {l} : loan'[y] = loan[y]
    BY <1>1, SettledLoan DEF Inv
  <2> QED
    BY <2>1, <2>2
<1>3. m \in Nat /\ m <= l.count /\ l.count \in Nat
  <2>1. /\ loan[l].missed \in Nat /\ claims[l] \in Nat /\ l.count \in Nat
        /\ loan[l].missed + claims[l] <= Paid(l) /\ Paid(l) \in Int
    BY <1>1, LoanTypes, LoanFields, WriteOffBounds DEF Inv, Schedules, Payment
  <2> QED
    BY <1>1, <2>1
<1>4. T \in SUBSET Guarantees /\ IsFiniteSet(Guarantees) /\ l # Nobody
  BY LoanFields, TreasuryAssumption DEF TreasuryAssumption
<1>5. u = l.borrower => T = {}
  BY <1>1 DEF Unselfish, SelfBacked
<1>6. \A g \in T : claimedBy[g] = l /\ g \in posted /\ g.guarantor = u
  BY <1>1, <1>4, <1>5 DEF Backing
<1>7. \A g \in Guarantees : claimedBy[g] = l /\ g.guarantor = u => g \in T
  BY <1>4 DEF Backing
<1>8. \A g \in T : s[g] \in 0 .. g.amount /\ s[g] = (g.amount * (l.count - m)) \div l.count
  <2>1. Greatest(0, l.count - m) = l.count - m
    BY <1>3 DEF Greatest
  <2> QED
    BY <1>3, <1>4, <2>1, ShareBounds
<1> HIDE DEF s, m
<1>9. ASSUME NEW g \in Guarantees PROVE f[g] = h[g] + x[g]
  <2>1. f[g] \in Nat
    BY ExposureIs DEF Inv
  <2>2. CASE g \in T
    <3>1. f[g] = g.amount
      BY <1>2, <1>4, <1>6, <2>2 DEF Hold, Held
    <3>2. Held(g)' = g.amount - (g.amount * (l.count - m)) \div l.count
      BY <1>1, <1>2, <1>4, <1>6, <2>2 DEF Held
    <3>3. h[g] = g.amount - s[g]
      BY <1>1, <1>6, <1>8, <2>2, <3>2 DEF Hold
    <3>4. s[g] \in Nat
      BY <1>8, <2>2
    <3>5. x[g] = s[g]
      BY <2>2
    <3> HIDE DEF f, h, x
    <3> QED
      BY <2>1, <3>1, <3>3, <3>4, <3>5
  <2>3. CASE g \notin T
    <3>1. g.guarantor = u => claimedBy[g] # l
      BY <1>7, <2>3
    <3>2. claimedBy[g] # Nobody => claimedBy[g] \in Loans
      BY DEF Inv, TypeOK
    <3>3. g.guarantor = u => Held(g)' = Held(g)
      BY <1>1, <1>2, <3>1, <3>2 DEF Held
    <3>4. h[g] = f[g]
      BY <1>1, <3>3 DEF Hold
    <3>5. x[g] = 0
      BY <2>3
    <3> HIDE DEF f, h, x
    <3> QED
      BY <2>1, <3>4, <3>5
  <2> QED
    BY <2>2, <2>3
<1>10. \A g \in Guarantees : f[g] \in Int /\ x[g] \in Int
  <2>1. \A g \in Guarantees : f[g] \in Nat
    BY ExposureIs DEF Inv
  <2>2. \A g \in Guarantees : x[g] = IF g \in T THEN s[g] ELSE 0
    OBVIOUS
  <2>3. \A g \in T : s[g] \in Int
    BY <1>4, <1>8, GuaranteeFields
  <2> HIDE DEF f, x, T
  <2> QED
    BY <2>1, <2>2, <2>3
<1>11. \A g \in Guarantees : h[g] \in Int
  <2>1. TypeOK'
    BY PaymentInv DEF Inv
  <2>2. \A g \in Guarantees : h[g] \in Nat
    BY <2>1, ExposureIsNext
  <2> HIDE DEF h
  <2> QED
    BY <2>2
<1>12. SumFunctionOnSet(x, Guarantees) = SumFunctionOnSet(s, T)
  <2>1. \A g \in Guarantees : x[g] = IF g \in T THEN s[g] ELSE 0
    OBVIOUS
  <2>2. \A g \in T : s[g] \in Int
    BY <1>4, <1>8, GuaranteeFields
  <2> HIDE DEF T, x
  <2> QED
    BY <1>4, <2>1, <2>2, SumRestrict
<1>13. SumFunctionOnSet(f, Guarantees)
          = SumFunctionOnSet(h, Guarantees) + SumFunctionOnSet(x, Guarantees)
  <2> HIDE DEF f, x, h
  <2> QED
    BY <1>4, <1>9, <1>10, <1>11, SumPlus
<1>14. Returned(l, m, u) = SumFunctionOnSet(s, T)
  BY DEF Returned, SumOver, s
<1> QED
  BY <1>12, <1>13, <1>14 DEF Exposure, m

(* Exposure follows the records through every step.                        *)
LEMMA ExposedStep ==
    ASSUME Inv, Backing, Exposed, [Next]_vars
    PROVE  Exposed'
<1> SUFFICES ASSUME NEW u \in Users, Unselfish(u)'
             PROVE  record'[u].guaranteed = Exposure(u)'
  BY DEF Exposed
<1>1. record[u].guaranteed \in Nat /\ TypeOK'
  BY StepInv DEF Inv, TypeOK, UserRecord
<1>2. ASSUME taken \subseteq taken' PROVE Unselfish(u) /\ record[u].guaranteed = Exposure(u)
  BY <1>2 DEF Unselfish, SelfBacked, Exposed
<1>3. CASE Quiet
  <2>1. /\ taken \subseteq taken' /\ record'[u].guaranteed = record[u].guaranteed
        /\ claimedBy' = claimedBy /\ released' = released /\ posted \subseteq posted'
        /\ \A l \in taken : loan'[l].missed = loan[l].missed
    BY <1>3 DEF Quiet
  <2>2. \A g \in Guarantees : g \in posted' \ posted => claimedBy[g] = Nobody
    BY DEF Backing
  <2>3. \A l \in released : loan'[l].missed = loan[l].missed
    BY <2>1 DEF Inv, Schedules
  <2>4. Exposure(u)' = Exposure(u)
    BY <2>1, <2>2, <2>3, HoldStays
  <2> QED
    BY <1>2, <2>1, <2>4
<1>4. ASSUME NEW l \in Loans, NEW d \in PresentValues(l, l.count), BorrowUnsecured(l, d)
      PROVE  record'[u].guaranteed = Exposure(u)'
  <2>1. taken' = taken \cup {l}
    BY <1>4 DEF BorrowUnsecured, Originate
  <2>2. record'[u].guaranteed = record[u].guaranteed
                + (IF u = l.borrower THEN 0 ELSE AmountOf(GuaranteedBy(l, u)))
    BY <1>4, BorrowRecords
  <2>3. CASE u # l.borrower
    BY <1>2, <1>4, <2>1, <2>2, <2>3, BorrowExposes
  <2>4. CASE u = l.borrower
    <3>1. \A g \in l.refs : g.guarantor # u
      BY <2>1, <2>4 DEF Unselfish, SelfBacked
    <3>2. /\ l \notin taken /\ released' = released /\ posted' = posted /\ Originate(l, d)
          /\ \A g \in Guarantees : g.guarantor = u => claimedBy'[g] = claimedBy[g]
      BY <1>4, <2>4, <3>1 DEF BorrowUnsecured, history, ClaimsAfterBorrow
    <3>3. \A x \in taken : loan'[x] = loan[x]
      BY <3>2, OriginateOthers DEF Inv
    <3>4. ASSUME NEW g \in Guarantees, g.guarantor = u PROVE Held(g)' = Held(g)
      <4>1. claimedBy'[g] = claimedBy[g] /\ (claimedBy[g] # Nobody => claimedBy[g] \in taken)
        BY <3>2, <3>4 DEF Backing
      <4> QED
        BY <3>2, <3>3, <4>1 DEF Held
    <3>5. Hold(u)' = Hold(u)
      BY <3>2, <3>4 DEF Hold
    <3> QED
      BY <1>1, <1>2, <2>1, <2>2, <2>4, <3>5 DEF Exposure
  <2> QED
    BY <2>3, <2>4
<1>5. ASSUME NEW l \in Loans, NEW next, NEW missed, NEW records, NEW n,
             Payment(l, next, missed, records, n)
      PROVE  record'[u].guaranteed = Exposure(u)'
  <2>1. taken' = taken /\ posted' = posted /\ claimedBy' = claimedBy
    BY <1>5 DEF Payment
  <2>2. record[u].guaranteed = Exposure(u) /\ Unselfish(u)
    BY <1>2, <2>1
  <2> DEFINE back == Returned(l, loan[l].missed + missed, u)
  <2>3. /\ back \in Nat
        /\ record'[u].guaranteed = IF next = 0 THEN Greatest(0, record[u].guaranteed - back)
                                   ELSE record[u].guaranteed
    BY <1>5, PaymentKeeps
  <2>4. CASE next = 0
    <3>1. Exposure(u) = Exposure(u)' + back
      BY <1>5, <2>2, <2>4, EndFrees
    <3>2. Exposure(u)' \in Nat
      <4> DEFINE h == Hold(u)'
      <4>1. (\A g \in Guarantees : h[g] \in Nat) /\ IsFiniteSet(Guarantees)
        BY <1>1, ExposureIsNext, TreasuryAssumption DEF TreasuryAssumption
      <4>2. SumFunctionOnSet(h, Guarantees) \in Nat
        <5> HIDE DEF h
        <5> QED
          BY <4>1, SumNat
      <4> QED
        BY <4>2 DEF Exposure
    <3> HIDE DEF back
    <3> QED
      BY <1>1, <2>2, <2>3, <2>4, <3>1, <3>2 DEF Greatest
  <2>5. CASE next # 0
    <3>1. Settle(l, next, missed, records) /\ loan[l].next # 0
      BY <1>5 DEF Payment, Open
    <3>2. released' = released /\ \A y \in Loans \ {l} : loan'[y] = loan[y]
      BY <2>5, <3>1, SettledLoan DEF Settle, Inv
    <3>3. \A y \in released : loan'[y].missed = loan[y].missed
      BY <3>1, <3>2 DEF Inv, Schedules, TypeOK
    <3>4. Exposure(u)' = Exposure(u)
      BY <2>1, <3>2, <3>3, HoldStays
    <3> QED
      BY <2>2, <2>3, <2>5, <3>4
  <2> QED
    BY <2>4, <2>5
<1>6. ASSUME NEW l \in Loans, Claim(l)
      PROVE  record'[u].guaranteed = Exposure(u)'
  <2>1. /\ taken' = taken /\ posted' = posted /\ claimedBy' = claimedBy /\ released' = released
    BY <1>6 DEF Claim, guaranteeVars
  <2>2. \A y \in Loans : loan'[y].missed = loan[y].missed
    BY <1>6, ClaimMoves
  <2>3. Exposure(u)' = Exposure(u)
    BY <2>1, <2>2, HoldStays DEF Inv, TypeOK
  <2> QED
    BY <1>2, <1>6, <2>1, <2>3, ClaimRecords
<1> QED
  BY <1>3, <1>4, <1>5, <1>6, StepKinds

-----------------------------------------------------------------------------
(* Defaults and the totals of the block.                                   *)

Unsecured == {l \in taken : ~l.secured}

Loss(u) == [l \in Loans |-> IF l \in Unsecured /\ l.borrower = u THEN Lost(l) ELSE 0]

DefaultedBy == [u \in Users |-> record[u].defaulted - InitialRecord[u].defaulted]

LoanedBy == [u \in Users |-> record[u].loaned - InitialRecord[u].loaned]

Defaults ==
    /\ \A u \in Users : DefaultedBy[u] = SumFunctionOnSet(Loss(u), Loans)
    /\ global.defaulted = SumFunctionOnSet(DefaultedBy, Users)

Totals ==
    /\ global.loaned = SumFunctionOnSet(LoanedBy, Users)
    /\ global.count = Cardinality(Unsecured)

(* The terms of these sums are numbers, and what u's loans lost is the     *)
(* sum over all loans.                                                     *)
LEMMA DefaultTerms ==
    TypeOK => /\ \A l \in Loans : Lost(l) \in Nat
              /\ \A u \in Users : \A l \in Loans : Loss(u)[l] \in Int
              /\ \A u \in Users : DefaultedBy[u] \in Int /\ LoanedBy[u] \in Int
              /\ \A u \in Users : SumOver({l \in Unsecured : l.borrower = u}, Lost)
                                      = SumFunctionOnSet(Loss(u), Loans)
<1> SUFFICES ASSUME TypeOK
             PROVE  /\ \A l \in Loans : Lost(l) \in Nat
                    /\ \A u \in Users : \A l \in Loans : Loss(u)[l] \in Int
                    /\ \A u \in Users : DefaultedBy[u] \in Int /\ LoanedBy[u] \in Int
                    /\ \A u \in Users : SumOver({l \in Unsecured : l.borrower = u}, Lost)
                                            = SumFunctionOnSet(Loss(u), Loans)
  OBVIOUS
<1>1. ASSUME NEW l \in Loans PROVE Lost(l) \in Nat
  BY LoanFields, LoanTypes DEF Lost
<1>2. ASSUME NEW u \in Users, NEW l \in Loans PROVE Loss(u)[l] \in Int
  BY <1>1 DEF Loss
<1>3. ASSUME NEW u \in Users PROVE DefaultedBy[u] \in Int /\ LoanedBy[u] \in Int
  <2>1. record[u] \in UserRecord /\ InitialRecord[u] \in UserRecord
    BY TreasuryAssumption DEF TreasuryAssumption, TypeOK
  <2> QED
    BY <2>1 DEF UserRecord, DefaultedBy, LoanedBy
<1>4. ASSUME NEW u \in Users
      PROVE  SumOver({l \in Unsecured : l.borrower = u}, Lost) = SumFunctionOnSet(Loss(u), Loans)
  <2> DEFINE T == {l \in Unsecured : l.borrower = u}
             f == [l \in T |-> Lost(l)]
             h == Loss(u)
  <2>1. T \in SUBSET Loans /\ IsFiniteSet(Loans)
    BY TreasuryAssumption DEF TreasuryAssumption, TypeOK, Unsecured
  <2>2. \A l \in T : f[l] \in Int
    BY <1>1, <2>1
  <2>3. \A l \in Loans : h[l] = IF l \in T THEN f[l] ELSE 0
    BY DEF Loss
  <2>4. SumFunctionOnSet(h, Loans) = SumFunctionOnSet(f, T)
    <3> HIDE DEF T, f, h
    <3> QED
      BY <2>1, <2>2, <2>3, SumRestrict
  <2> QED
    BY <2>4 DEF SumOver
<1> QED
  BY <1>1, <1>2, <1>3, <1>4

(* When b loses w on the loan l and the total grows by w, the sums agree.  *)
LEMMA LossAdds ==
    ASSUME TypeOK, Defaults, NEW l \in Loans, NEW w \in Nat,
           \A u \in Users : record'[u].defaulted
                = record[u].defaulted + (IF u = l.borrower THEN w ELSE 0),
           \A u \in Users : \A x \in Loans : Loss(u)'[x]
                = Loss(u)[x] + (IF x = l THEN IF u = l.borrower THEN w ELSE 0 ELSE 0),
           global'.defaulted = global.defaulted + w
    PROVE  Defaults'
<1>1. /\ l.borrower \in Users /\ IsFiniteSet(Loans) /\ IsFiniteSet(Users)
      /\ \A u \in Users : DefaultedBy[u] \in Int
      /\ \A u \in Users : \A x \in Loans : Loss(u)[x] \in Int
  BY LoanFields, TreasuryAssumption, DefaultTerms DEF TreasuryAssumption
<1>2. ASSUME NEW u \in Users
      PROVE  DefaultedBy'[u] = DefaultedBy[u] + (IF u = l.borrower THEN w ELSE 0)
  <2>1. record[u].defaulted \in Int /\ InitialRecord[u].defaulted \in Int
    BY TreasuryAssumption DEF TreasuryAssumption, TypeOK, UserRecord
  <2> QED
    BY <2>1 DEF DefaultedBy
<1>3. ASSUME NEW u \in Users
      PROVE  DefaultedBy'[u] = SumFunctionOnSet(Loss(u)', Loans)
  <2> DEFINE n == IF u = l.borrower THEN w ELSE 0
             f == Loss(u)
             h == Loss(u)'
  <2>1. /\ n \in Int /\ \A x \in Loans : f[x] \in Int
        /\ \A x \in Loans : h[x] = f[x] + (IF x = l THEN n ELSE 0)
    BY <1>1
  <2>2. DefaultedBy'[u] = DefaultedBy[u] + n /\ DefaultedBy[u] = SumFunctionOnSet(f, Loans)
    BY <1>2 DEF Defaults
  <2> HIDE DEF n, f, h
  <2>3. SumFunctionOnSet(h, Loans) = SumFunctionOnSet(f, Loans) + n
    BY <1>1, <2>1, SumGain
  <2>4. DefaultedBy'[u] = SumFunctionOnSet(h, Loans)
    BY <2>2, <2>3
  <2> QED
    BY <2>4 DEF h
<1>4. global'.defaulted = SumFunctionOnSet(DefaultedBy', Users)
  <2> DEFINE b == l.borrower
             f == DefaultedBy
             h == DefaultedBy'
  <2>1. /\ b \in Users /\ w \in Int /\ \A u \in Users : f[u] \in Int
        /\ \A u \in Users : h[u] = f[u] + (IF u = b THEN w ELSE 0)
    BY <1>1, <1>2
  <2>2. global.defaulted = SumFunctionOnSet(f, Users)
    BY DEF Defaults
  <2> HIDE DEF b, f, h
  <2>3. SumFunctionOnSet(h, Users) = SumFunctionOnSet(f, Users) + w
    BY <1>1, <2>1, SumGain
  <2>4. global'.defaulted = SumFunctionOnSet(h, Users)
    BY <2>2, <2>3
  <2> QED
    BY <2>4 DEF h
<1> QED
  BY <1>3, <1>4 DEF Defaults

(* A step that leaves the losses alone.                                    *)
LEMMA LossStays ==
    ASSUME Defaults,
           \A u \in Users : record'[u].defaulted = record[u].defaulted,
           \A u \in Users : \A x \in Loans : Loss(u)'[x] = Loss(u)[x],
           global'.defaulted = global.defaulted
    PROVE  Defaults'
<1>1. DefaultedBy' = DefaultedBy
  BY DEF DefaultedBy
<1>2. \A u \in Users : Loss(u)' = Loss(u)
  BY DEF Loss
<1> QED
  BY <1>1, <1>2 DEF Defaults

(* Defaults follow the loans through every step.                           *)
LEMMA DefaultsStep ==
    ASSUME Inv, Defaults, [Next]_vars
    PROVE  Defaults'
<1>1. CASE Quiet
  <2>1. ASSUME NEW x \in Loans, x \in Unsecured PROVE Lost(x)' = Lost(x)
    BY <1>1, <2>1 DEF Quiet, Unsecured, Lost
  <2>2. Unsecured' = Unsecured
    BY <1>1 DEF Quiet, Unsecured
  <2>3. \A u \in Users : \A x \in Loans : Loss(u)'[x] = Loss(u)[x]
    BY <2>1, <2>2 DEF Loss
  <2> QED
    BY <1>1, <2>3, LossStays DEF Quiet
<1>2. ASSUME NEW l \in Loans, NEW d \in PresentValues(l, l.count), BorrowUnsecured(l, d)
      PROVE  Defaults'
  <2>1. /\ l \notin taken /\ taken' = taken \cup {l} /\ claims' = claims
        /\ Originate(l, d) /\ ~l.secured
        /\ global' = CountLoan(d)
    BY <1>2 DEF BorrowUnsecured, Originate, history
  <2>2. loan'[l].missed = 0 /\ \A x \in taken : loan'[x] = loan[x]
    BY <2>1, OriginateOthers DEF Inv
  <2>3. Lost(l)' = 0
    <3>1. claims[l] = 0 /\ l.payment \in Nat
      BY <2>1, LoanFields DEF Inv, Schedules
    <3> QED
      BY <2>1, <2>2, <3>1 DEF Lost
  <2>4. ASSUME NEW x \in Unsecured PROVE Lost(x)' = Lost(x)
    BY <2>1, <2>2 DEF Lost, Unsecured
  <2>5. Unsecured' = Unsecured \cup {l} /\ l \notin Unsecured
    BY <2>1 DEF Unsecured
  <2>6. \A u \in Users : \A x \in Loans : Loss(u)'[x] = Loss(u)[x]
    BY <2>3, <2>4, <2>5 DEF Loss
  <2>7. global'.defaulted = global.defaulted
    BY <2>1 DEF CountLoan, Inv, TypeOK
  <2> QED
    BY <1>2, <2>6, <2>7, LossStays, BorrowRecords
<1>3. ASSUME NEW l \in Loans, NEW next, NEW missed, NEW records, NEW n,
             Payment(l, next, missed, records, n)
      PROVE  Defaults'
  <2> DEFINE w == missed * l.payment
  <2>1. /\ l \in taken /\ taken' = taken /\ claims' = claims /\ missed \in Nat
        /\ Settle(l, next, missed, records) /\ (l.secured => missed = 0)
        /\ global'.defaulted = global.defaulted + w
    BY <1>3 DEF Payment, Open
  <2>2. w \in Nat /\ (l.secured => w = 0) /\ l.payment \in Nat
    BY <2>1, LoanFields
  <2>3. Unsecured' = Unsecured
    BY <2>1 DEF Unsecured
  <2>4. \A x \in Loans \ {l} : Lost(x)' = Lost(x)
    BY <2>1, SettledLoan DEF Lost, Inv
  <2>5. Lost(l)' = Lost(l) + w /\ Lost(l) \in Nat
    <3>1. /\ loan'[l].missed = loan[l].missed + missed
          /\ loan[l].missed \in Nat /\ claims[l] \in Nat
      BY <2>1, SettledLoan, LoanTypes DEF Inv
    <3> DEFINE p == l.payment
               a == loan[l].missed
               c == claims[l]
    <3> HIDE DEF p, a, c
    <3>2. p * (a + missed + c) = p * (a + c) + missed * p
      BY <2>1, <2>2, <3>1 DEF p, a, c
    <3> QED
      BY <2>1, <3>1, <3>2, DefaultTerms DEF Lost, Inv, p, a, c
  <2> HIDE DEF w
  <2>6. ASSUME NEW u \in Users, NEW x \in Loans
        PROVE  Loss(u)'[x] = Loss(u)[x] + (IF x = l THEN IF u = l.borrower THEN w ELSE 0 ELSE 0)
    <3>1. Loss(u)[x] \in Int
      BY DefaultTerms DEF Inv
    <3>2. CASE x = l /\ l \in Unsecured /\ u = l.borrower
      BY <2>2, <2>3, <2>5, <3>2 DEF Loss
    <3>3. CASE x = l /\ ~(l \in Unsecured /\ u = l.borrower)
      <4>1. l \notin Unsecured => w = 0
        BY <2>1, <2>2 DEF Unsecured
      <4> QED
        BY <2>3, <3>3, <4>1 DEF Loss
    <3>4. CASE x # l
      BY <2>3, <2>4, <3>1, <3>4 DEF Loss
    <3> QED
      BY <3>2, <3>3, <3>4
  <2>7. \A u \in Users : record'[u].defaulted
                = record[u].defaulted + (IF u = l.borrower THEN w ELSE 0)
    BY <1>3, PaymentKeeps DEF w
  <2> QED
    BY <2>1, <2>2, <2>6, <2>7, LossAdds DEF Inv
<1>4. ASSUME NEW l \in Loans, Claim(l) PROVE Defaults'
  <2> DEFINE due == DueNow(l)
             w == IF l.secured THEN 0 ELSE due * l.payment
  <2>1. /\ l \in taken /\ taken' = taken
        /\ global' = IF l.secured THEN global ELSE WriteOff(due, l)
    BY <1>4 DEF Claim, Open
  <2>2. /\ due \in Nat /\ loan'[l].missed = loan[l].missed
        /\ \A x \in Loans \ {l} : loan'[x] = loan[x] /\ claims'[x] = claims[x]
        /\ claims'[l] = claims[l] + due
    BY <1>4, ClaimMoves
  <2>3. w \in Nat /\ l.payment \in Nat
    <3>1. l.payment \in Nat
      BY LoanFields
    <3> HIDE DEF due
    <3> QED
      BY <2>2, <3>1
  <2>4. Unsecured' = Unsecured
    BY <2>1 DEF Unsecured
  <2>5. \A x \in Loans \ {l} : Lost(x)' = Lost(x)
    BY <2>2 DEF Lost
  <2>6. ~l.secured => Lost(l)' = Lost(l) + w
    <3>1. loan[l].missed \in Nat /\ claims[l] \in Nat
      BY LoanTypes DEF Inv
    <3> DEFINE p == l.payment
               a == loan[l].missed
               c == claims[l]
    <3> HIDE DEF p, a, c, due
    <3>2. p * (a + (c + due)) = p * (a + c) + due * p
      BY <2>2, <2>3, <3>1 DEF p, a, c
    <3> QED
      BY <2>2, <3>2 DEF Lost, p, a, c
  <2>7. global'.defaulted = global.defaulted + w
    <3>1. global.defaulted \in Nat
      BY DEF Inv, TypeOK
    <3>2. CASE l.secured
      BY <2>1, <3>1, <3>2
    <3>3. CASE ~l.secured
      <4> HIDE DEF due
      <4> QED
        BY <2>1, <2>2, <3>3, WriteOffTypes DEF Inv
    <3> QED
      BY <3>2, <3>3
  <2>8. \A u \in Users : record'[u].defaulted
                = record[u].defaulted + (IF u = l.borrower THEN w ELSE 0)
    <3>1. ASSUME NEW u \in Users
          PROVE  record'[u].defaulted = record[u].defaulted
                     + (IF u = l.borrower /\ ~l.secured THEN due * l.payment ELSE 0)
      BY <1>4, ClaimRecords
    <3> QED
      BY <3>1
  <2> HIDE DEF w
  <2>9. ASSUME NEW u \in Users, NEW x \in Loans
        PROVE  Loss(u)'[x] = Loss(u)[x] + (IF x = l THEN IF u = l.borrower THEN w ELSE 0 ELSE 0)
    <3>1. Loss(u)[x] \in Int
      BY DefaultTerms DEF Inv
    <3>2. CASE x = l /\ l \in Unsecured /\ u = l.borrower
      <4>1. ~l.secured
        BY <3>2 DEF Unsecured
      <4> QED
        BY <2>4, <2>6, <3>2, <4>1 DEF Loss
    <3>3. CASE x = l /\ ~(l \in Unsecured /\ u = l.borrower)
      <4>1. l \notin Unsecured => w = 0
        BY <2>1 DEF Unsecured, w
      <4> QED
        BY <2>4, <3>3, <4>1 DEF Loss
    <3>4. CASE x # l
      BY <2>4, <2>5, <3>1, <3>4 DEF Loss
    <3> QED
      BY <3>2, <3>3, <3>4
  <2> QED
    BY <2>3, <2>7, <2>8, <2>9, LossAdds DEF Inv
<1> QED
  BY <1>1, <1>2, <1>3, <1>4, StepKinds

(* Only a borrow changes what is loaned and how many loans there are.      *)
LEMMA TotalsStay ==
    ASSUME Totals, \A u \in Users : record'[u].loaned = record[u].loaned,
           global'.loaned = global.loaned, global'.count = global.count,
           Unsecured' = Unsecured
    PROVE  Totals'
<1>1. LoanedBy' = LoanedBy
  BY DEF LoanedBy
<1> QED
  BY <1>1 DEF Totals

(* So do the totals of what was loaned.                                    *)
LEMMA TotalsStep ==
    ASSUME Inv, Totals, [Next]_vars
    PROVE  Totals'
<1>1. CASE Quiet
  BY <1>1, TotalsStay DEF Quiet, Unsecured
<1>2. ASSUME NEW l \in Loans, NEW d \in PresentValues(l, l.count), BorrowUnsecured(l, d)
      PROVE  Totals'
  <2>1. /\ l \notin taken /\ taken' = taken \cup {l} /\ ~l.secured
        /\ global' = CountLoan(d) /\ l.borrower \in Users /\ IsFiniteSet(Users)
        /\ \A u \in Users : LoanedBy[u] \in Int
    BY <1>2, LoanFields, TreasuryAssumption, DefaultTerms
       DEF BorrowUnsecured, Originate, TreasuryAssumption, Inv
  <2>2. d \in Nat /\ \A u \in Users : record'[u].loaned
                          = record[u].loaned + (IF u = l.borrower THEN d ELSE 0)
    BY <1>2, <2>1, BorrowRecords
  <2>3. global'.loaned = global.loaned + d /\ global'.count = global.count + 1
    BY <2>1 DEF CountLoan, Inv, TypeOK
  <2>4. global'.loaned = SumFunctionOnSet(LoanedBy', Users)
    <3> DEFINE b == l.borrower
               f == LoanedBy
               h == LoanedBy'
    <3>1. ASSUME NEW u \in Users PROVE h[u] = f[u] + (IF u = b THEN d ELSE 0)
      <4>1. record[u].loaned \in Int /\ InitialRecord[u].loaned \in Int
        BY TreasuryAssumption DEF TreasuryAssumption, Inv, TypeOK, UserRecord
      <4> QED
        BY <2>2, <4>1 DEF LoanedBy
    <3>2. /\ b \in Users /\ d \in Int /\ \A u \in Users : f[u] \in Int
          /\ IsFiniteSet(Users)
          /\ global.loaned = SumFunctionOnSet(f, Users)
      BY <2>1, <2>2 DEF Totals
    <3> HIDE DEF b, f, h
    <3>3. SumFunctionOnSet(h, Users) = SumFunctionOnSet(f, Users) + d
      BY <3>1, <3>2, SumGain
    <3>4. global'.loaned = SumFunctionOnSet(h, Users)
      BY <2>3, <3>2, <3>3
    <3> QED
      BY <3>4 DEF h
  <2>5. global'.count = Cardinality(Unsecured')
    <3>1. Unsecured' = Unsecured \cup {l} /\ l \notin Unsecured
      BY <2>1 DEF Unsecured
    <3>2. IsFiniteSet(Unsecured)
      <4>1. Unsecured \subseteq Loans /\ IsFiniteSet(Loans)
        BY TreasuryAssumption DEF TreasuryAssumption, Inv, TypeOK, Unsecured
      <4> QED
        BY <4>1, FS_Subset
    <3>3. Cardinality(Unsecured \cup {l}) = Cardinality(Unsecured) + 1
      BY <3>1, <3>2, FS_AddElement
    <3> QED
      BY <2>3, <3>1, <3>3 DEF Totals
  <2> QED
    BY <2>4, <2>5 DEF Totals
<1>3. ASSUME NEW l \in Loans, NEW next, NEW missed, NEW records, NEW n,
             Payment(l, next, missed, records, n)
      PROVE  Totals'
  <2>1. /\ \A u \in Users : record'[u].loaned = record[u].loaned
        /\ taken' = taken /\ global'.loaned = global.loaned /\ global'.count = global.count
    BY <1>3, PaymentKeeps DEF Payment
  <2> QED
    BY <2>1, TotalsStay DEF Unsecured
<1>4. ASSUME NEW l \in Loans, Claim(l) PROVE Totals'
  <2>1. /\ \A u \in Users : record'[u].loaned = record[u].loaned
        /\ taken' = taken
    BY <1>4, ClaimRecords DEF Claim
  <2>2. global'.loaned = global.loaned /\ global'.count = global.count
    <3>1. DueNow(l) \in Nat
      BY <1>4, ClaimMoves
    <3>2. global' = IF l.secured THEN global ELSE WriteOff(DueNow(l), l)
      BY <1>4 DEF Claim
    <3> QED
      BY <3>1, <3>2, WriteOffTypes DEF Inv
  <2> QED
    BY <2>1, <2>2, TotalsStay DEF Unsecured
<1> QED
  BY <1>1, <1>2, <1>3, <1>4, StepKinds

(* Books: what makes BooksAgree inductive.                                 *)
Books == Inv /\ CapacityRespected /\ Backing /\ Exposed /\ Defaults /\ Totals

(* The books agree before the first block.                                 *)
LEMMA InitBooks == ASSUME Init PROVE Books
<1>1. Inv
  BY InitInv
<1>2. /\ \A u \in Users : InitialRecord[u] \in UserRecord /\ InitialRecord[u].guaranteed = 0
      /\ IsFiniteSet(Users) /\ IsFiniteSet(Guarantees) /\ IsFiniteSet(Loans)
  BY TreasuryAssumption DEF TreasuryAssumption
<1>3. /\ record = InitialRecord /\ posted = {} /\ taken = {}
      /\ claimedBy = [g \in Guarantees |-> Nobody]
      /\ global = [loaned |-> 0, defaulted |-> 0, count |-> 0]
  BY DEF Init
<1>4. CapacityRespected
  BY <1>2, <1>3 DEF CapacityRespected, UserRecord
<1>5. Backing
  BY <1>3 DEF Backing
<1>6. Exposed
  <2>1. ASSUME NEW u \in Users PROVE Exposure(u) = 0
    <3> DEFINE f == Hold(u)
    <3>1. \A g \in Guarantees : f[g] = 0
      BY <1>3 DEF Hold
    <3> HIDE DEF f
    <3>2. SumFunctionOnSet(f, Guarantees) = 0
      BY <1>2, <3>1, SumZero
    <3> QED
      BY <3>2 DEF Exposure, f
  <2> QED
    BY <1>2, <1>3, <2>1 DEF Exposed
<1>7. \A u \in Users : DefaultedBy[u] = 0 /\ LoanedBy[u] = 0
  BY <1>2, <1>3 DEF DefaultedBy, LoanedBy, UserRecord
<1>8. ASSUME NEW u \in Users PROVE SumFunctionOnSet(Loss(u), Loans) = 0
  <2> DEFINE f == Loss(u)
  <2>1. \A l \in Loans : f[l] = 0
    BY <1>3 DEF Loss, Unsecured
  <2> HIDE DEF f
  <2>2. SumFunctionOnSet(f, Loans) = 0
    BY <1>2, <2>1, SumZero
  <2> QED
    BY <2>2 DEF f
<1>9. SumFunctionOnSet(DefaultedBy, Users) = 0 /\ SumFunctionOnSet(LoanedBy, Users) = 0
  <2> DEFINE f == DefaultedBy
             h == LoanedBy
  <2>1. \A u \in Users : f[u] = 0 /\ h[u] = 0
    BY <1>7
  <2> HIDE DEF f, h
  <2>2. SumFunctionOnSet(f, Users) = 0 /\ SumFunctionOnSet(h, Users) = 0
    BY <1>2, <2>1, SumZero
  <2> QED
    BY <2>2 DEF f, h
<1>10. Defaults
  BY <1>3, <1>7, <1>8, <1>9 DEF Defaults
<1>11. Totals
  <2>1. Unsecured = {}
    BY <1>3 DEF Unsecured
  <2> QED
    BY <1>3, <1>9, <2>1, FS_EmptySet DEF Totals
<1> QED
  BY <1>1, <1>4, <1>5, <1>6, <1>10, <1>11 DEF Books

(* They agree in every state.                                              *)
LEMMA SpecBooks == Spec => []Books
<1>1. Init => Books
  BY InitBooks
<1>2. Books /\ [Next]_vars => Books'
  BY StepInv, CapacityStep, BackingStep, ExposedStep, DefaultsStep, TotalsStep DEF Books
<1> QED
  BY <1>1, <1>2, PTL DEF Spec

(* What borrow.py, repay.py, close.py and buy.py keep in user records and  *)
(* in the totals of the block is what the loans and guarantees say, and no *)
(* guarantor exceeds the interest it paid.                                 *)
THEOREM BooksKept == Spec => []BooksAgree
<1>1. ASSUME Books PROVE BooksAgree
  <2>1. ExposureAccounted
    BY <1>1, ExposureIs DEF Books, Inv, ExposureAccounted, Exposed, Unselfish
  <2>2. DefaultsAccounted
    <3>1. TypeOK /\ Defaults /\ Totals
      BY <1>1 DEF Books, Inv
    <3>2. \A u \in Users : record[u].defaulted - InitialRecord[u].defaulted
                = SumOver({l \in Unsecured : l.borrower = u}, Lost)
      BY <3>1, DefaultTerms DEF Defaults, DefaultedBy
    <3>3. /\ global.defaulted
                = SumOver(Users, LAMBDA u : record[u].defaulted - InitialRecord[u].defaulted)
          /\ global.loaned
                = SumOver(Users, LAMBDA u : record[u].loaned - InitialRecord[u].loaned)
      BY <3>1 DEF Defaults, Totals, DefaultedBy, LoanedBy, SumOver
    <3> QED
      BY <3>1, <3>2, <3>3 DEF DefaultsAccounted, Totals, Unsecured, SumOver
  <2> QED
    BY <1>1, <2>1, <2>2 DEF BooksAgree, Books
<1> QED
  BY <1>1, SpecBooks, PTL

-----------------------------------------------------------------------------
(* Cover of the secured loans.                                             *)

(* What is left to pay of u's open secured loans, loan by loan.            *)
Owed(u) == [l \in Loans |-> IF l \in taken /\ l.borrower = u /\ l.secured /\ Open(l)
                            THEN Remaining(l) * l.payment ELSE 0]

Covered(u) == SumFunctionOnSet(Owed(u), Loans) <= record[u].stake

(* What SecuredRemaining adds up, over all loans.                          *)
LEMMA OwedIs ==
    Inv => \A u \in Users :
        /\ SecuredRemaining(u) = SumFunctionOnSet(Owed(u), Loans)
        /\ \A l \in Loans : Owed(u)[l] \in Nat
        /\ SumFunctionOnSet(Owed(u), Loans) \in Nat
<1> SUFFICES ASSUME Inv, NEW u \in Users
             PROVE  /\ SecuredRemaining(u) = SumFunctionOnSet(Owed(u), Loans)
                    /\ \A l \in Loans : Owed(u)[l] \in Nat
                    /\ SumFunctionOnSet(Owed(u), Loans) \in Nat
  OBVIOUS
<1> DEFINE T == {l \in taken : l.borrower = u /\ l.secured /\ Open(l)}
           f == [l \in T |-> Remaining(l) * l.payment]
           h == Owed(u)
<1>1. T \in SUBSET Loans /\ IsFiniteSet(Loans)
  BY TreasuryAssumption DEF TreasuryAssumption, Inv, TypeOK
<1>2. ASSUME NEW l \in Loans, Open(l) PROVE Remaining(l) * l.payment \in Nat
  <2>1. Remaining(l) \in Nat /\ l.payment \in Nat
    BY <1>2, WriteOffBounds, LoanFields
  <2> QED
    BY <2>1
<1>3. \A l \in T : f[l] \in Int
  BY <1>1, <1>2
<1>4. \A l \in Loans : h[l] = IF l \in T THEN f[l] ELSE 0
  BY DEF Owed
<1>5. \A l \in Loans : h[l] \in Nat
  BY <1>2 DEF Owed
<1>6. SumFunctionOnSet(h, Loans) = SumFunctionOnSet(f, T) /\ SumFunctionOnSet(h, Loans) \in Nat
  <2> HIDE DEF T, f, h
  <2> QED
    BY <1>1, <1>3, <1>4, <1>5, SumRestrict, SumNat
<1> QED
  BY <1>5, <1>6 DEF SecuredRemaining, SumOver

(* The same in the state after a step.                                     *)
LEMMA OwedIsNext ==
    Inv' => (\A u \in Users :
        /\ SecuredRemaining(u) = SumFunctionOnSet(Owed(u), Loans)
        /\ \A l \in Loans : Owed(u)[l] \in Nat
        /\ SumFunctionOnSet(Owed(u), Loans) \in Nat)'
  BY OwedIs, PTL

(* Owing less on every loan with no smaller a stake keeps the cover.       *)
LEMMA CoverStays ==
    ASSUME Inv, Inv', NEW u \in Users, Covered(u),
           \A l \in Loans : Owed(u)'[l] <= Owed(u)[l],
           record'[u].stake >= record[u].stake
    PROVE  Covered(u)'
<1> DEFINE f == Owed(u)
           h == Owed(u)'
<1>1. /\ IsFiniteSet(Loans)
      /\ \A l \in Loans : f[l] \in Nat /\ h[l] \in Nat /\ h[l] <= f[l]
  BY OwedIs, OwedIsNext, TreasuryAssumption DEF TreasuryAssumption
<1>2. SumFunctionOnSet(f, Loans) \in Nat /\ SumFunctionOnSet(h, Loans) \in Nat
  BY OwedIs, OwedIsNext
<1>3. record[u].stake \in Nat /\ record'[u].stake \in Nat
  BY DEF Inv, TypeOK, UserRecord
<1>4. SumFunctionOnSet(h, Loans) <= SumFunctionOnSet(f, Loans)
  <2> HIDE DEF f, h
  <2> QED
    BY <1>1, SumMonotone
<1> QED
  BY <1>2, <1>3, <1>4 DEF Covered

(* Without a change of the loans the same is owed.                         *)
LEMMA OwedStays ==
    ASSUME Inv, Inv', NEW u \in Users, taken' = taken,
           \A l \in Loans : loan'[l].next = loan[l].next /\ loan'[l].created = loan[l].created
    PROVE  \A l \in Loans : Owed(u)'[l] <= Owed(u)[l]
<1> SUFFICES ASSUME NEW l \in Loans PROVE Owed(u)'[l] <= Owed(u)[l]
  OBVIOUS
<1>1. Remaining(l)' = Remaining(l) /\ Open(l)' = Open(l)
  BY DEF Remaining, Paid, Open
<1>2. Owed(u)'[l] = Owed(u)[l]
  BY <1>1 DEF Owed
<1>3. Owed(u)[l] \in Nat
  BY OwedIs
<1> QED
  BY <1>2, <1>3

(* One loan is paid down.                                                  *)
LEMMA OwedShrinks ==
    ASSUME Inv, Inv', NEW u \in Users, taken' = taken, NEW l \in Loans, Open(l),
           \A x \in Loans \ {l} : loan'[x] = loan[x],
           Paid(l) <= Paid(l)', Paid(l)' \in Int
    PROVE  \A x \in Loans : Owed(u)'[x] <= Owed(u)[x]
<1> SUFFICES ASSUME NEW x \in Loans PROVE Owed(u)'[x] <= Owed(u)[x]
  OBVIOUS
<1>1. Owed(u)[x] \in Nat
  BY OwedIs
<1>2. CASE x # l
  <2>1. Remaining(x)' = Remaining(x) /\ Open(x)' = Open(x)
    BY <1>2 DEF Remaining, Paid, Open
  <2>2. Owed(u)'[x] = Owed(u)[x]
    BY <2>1 DEF Owed
  <2> QED
    BY <1>1, <2>2
<1>3. CASE x = l
  <2>1. CASE Owed(u)'[x] = 0
    BY <1>1, <2>1
  <2>2. CASE Owed(u)'[x] # 0
    <3>1. /\ l \in taken /\ l.borrower = u /\ l.secured
          /\ Owed(u)'[x] = Remaining(l)' * l.payment
      BY <1>3, <2>2 DEF Owed
    <3>2. Owed(u)[x] = Remaining(l) * l.payment
      BY <1>3, <3>1 DEF Owed
    <3>3. /\ Remaining(l) = l.count - Paid(l) /\ Paid(l) \in Int
          /\ l.count \in Int /\ l.payment \in Nat
      BY WriteOffBounds, LoanFields
    <3>4. Remaining(l)' = l.count - Paid(l)'
      BY DEF Remaining
    <3> DEFINE a == Remaining(l)
               b == Remaining(l)'
               p == l.payment
    <3>5. b <= a /\ a \in Int /\ b \in Int /\ p \in Nat
      BY <3>3, <3>4
    <3> HIDE DEF a, b, p
    <3>6. b * p <= a * p
      BY <3>5, ProductMonotone
    <3> QED
      BY <3>1, <3>2, <3>6 DEF a, b, p
  <2> QED
    BY <2>1, <2>2
<1> QED
  BY <1>2, <1>3

(* The guard of a secured borrow is what keeps the cover.                  *)
LEMMA BorrowCovered ==
    ASSUME Inv, Inv', NEW u \in Users, Covered(u), NEW l \in Loans,
           NEW d \in PresentValues(l, l.count), BorrowSecured(l, d)
    PROVE  Covered(u)'
<1> DEFINE n == IF u = l.borrower THEN Scheduled(l) ELSE 0
           f == Owed(u)
           h == Owed(u)'
<1>1. /\ l \notin taken /\ taken' = taken \cup {l} /\ l.secured
      /\ record' = record /\ StakeCovers(l) /\ Originate(l, d)
  BY DEF BorrowSecured, Originate
<1>2. /\ loan'[l].next = height + l.interval /\ loan'[l].created = height
      /\ \A x \in Loans \ {l} : loan'[x] = loan[x]
  BY <1>1, OriginateOthers DEF Inv
<1>3. /\ l.interval \in Nat \ {0} /\ l.count \in Nat \ {0} /\ l.payment \in Nat \ {0}
      /\ height \in Nat \ {0} /\ Scheduled(l) = l.payment * l.count
      /\ IsFiniteSet(Loans) /\ record[u].stake \in Nat
  BY LoanFields, TreasuryAssumption DEF TreasuryAssumption, Inv, TypeOK, UserRecord
<1>4. Remaining(l)' * l.payment = Scheduled(l) /\ Scheduled(l) \in Nat
  <2> DEFINE i == l.interval
  <2>1. i \in Nat \ {0} /\ loan'[l].next - loan'[l].created = 1 * i /\ loan'[l].next # 0
    BY <1>2, <1>3
  <2>2. Paid(l)' = (1 * i) \div i - 1
    BY <2>1 DEF Paid
  <2> HIDE DEF i
  <2>3. (1 * i) \div i = 1
    BY <2>1, QuotientExact
  <2>4. Paid(l)' = 0
    BY <2>1, <2>2, <2>3
  <2>5. Remaining(l)' = l.count
    BY <1>3, <2>4 DEF Remaining
  <2> DEFINE c == l.count
             p == l.payment
  <2> HIDE DEF c, p
  <2>6. c * p = p * c /\ p * c \in Nat
    BY <1>3 DEF c, p
  <2> QED
    BY <1>3, <2>5, <2>6 DEF c, p
<1>5. \A x \in Loans : f[x] \in Int
  BY OwedIs
<1>6. ASSUME NEW x \in Loans PROVE h[x] = f[x] + (IF x = l THEN n ELSE 0)
  <2>1. CASE x # l
    <3>1. Remaining(x)' = Remaining(x) /\ Open(x)' = Open(x) /\ (x \in taken' <=> x \in taken)
      BY <1>1, <1>2, <2>1 DEF Remaining, Paid, Open
    <3>2. h[x] = f[x]
      BY <3>1 DEF Owed
    <3> QED
      BY <1>5, <2>1, <3>2
  <2>2. CASE x = l
    <3>1. f[x] = 0
      BY <1>1, <2>2 DEF Owed
    <3>2. Open(l)'
      BY <1>1, <1>2, <1>3 DEF Open
    <3>3. h[x] = n
      BY <1>1, <1>4, <2>2, <3>2 DEF Owed
    <3>4. n \in Int
      BY <1>4
    <3> QED
      BY <2>2, <3>1, <3>3, <3>4
  <2> QED
    BY <2>1, <2>2
<1>7. SumFunctionOnSet(h, Loans) = SumFunctionOnSet(f, Loans) + n
  <2>1. n \in Int
    BY <1>4
  <2> HIDE DEF f, h, n
  <2> QED
    BY <1>3, <1>5, <1>6, <2>1, SumGain
<1>8. SumFunctionOnSet(f, Loans) + n <= record[u].stake
  <2>1. SumFunctionOnSet(f, Loans) \in Nat /\ SecuredRemaining(u) = SumFunctionOnSet(f, Loans)
    BY OwedIs
  <2>2. CASE u = l.borrower
    BY <1>1, <1>3, <1>4, <2>1, <2>2 DEF StakeCovers
  <2>3. CASE u # l.borrower
    BY <1>3, <2>1, <2>3 DEF Covered
  <2> QED
    BY <2>2, <2>3
<1> QED
  BY <1>1, <1>7, <1>8 DEF Covered

(* The draw halves only the stakes of those who never borrowed.            *)
LEMMA DrawCovered ==
    ASSUME Inv, Inv', NEW u \in Users, Covered(u), NEW v \in Users, Draw(v)
    PROVE  Covered(u)'
<1>1. taken' = taken /\ loan' = loan
  BY DEF Draw, loanVars
<1>2. record'[u].stake \in Nat /\ record[u].stake \in Nat
  BY DEF Inv, TypeOK, UserRecord
<1>3. \A l \in Loans : Owed(u)'[l] <= Owed(u)[l]
  BY <1>1, OwedStays
<1>4. CASE record'[u].stake = record[u].stake
  BY <1>2, <1>3, <1>4, CoverStays
<1>5. CASE record'[u].stake # record[u].stake
  <2>1. ~HasLoans(u)
    <3>1. Halves(v) /\ Halve(v)
      BY <1>5 DEF Draw
    <3>2. u = v
      BY <1>5, <3>1 DEF Halve, Inv, TypeOK
    <3> QED
      BY <3>1, <3>2 DEF Halves
  <2> DEFINE h == Owed(u)'
  <2>2. \A l \in Loans : h[l] = 0
    BY <1>1, <2>1 DEF Owed, HasLoans
  <2>3. SumFunctionOnSet(h, Loans) = 0
    <3>1. IsFiniteSet(Loans)
      BY TreasuryAssumption DEF TreasuryAssumption
    <3> HIDE DEF h
    <3> QED
      BY <2>2, <3>1, SumZero
  <2> QED
    BY <1>2, <2>3 DEF Covered
<1> QED
  BY <1>4, <1>5

(* No step leaves a secured loan without its cover.                        *)
LEMMA CoverStep ==
    ASSUME Inv, [Next]_vars, NEW u \in Users, Covered(u)
    PROVE  Covered(u)'
<1>1. Inv' /\ record[u].stake \in Nat /\ record \in [Users -> UserRecord]
  BY StepInv DEF Inv, TypeOK, UserRecord
<1>2. ASSUME taken' = taken, loan' = loan, record'[u].stake >= record[u].stake
      PROVE  Covered(u)'
  BY <1>1, <1>2, OwedStays, CoverStays
<1>3. ASSUME NEW v \in Users, NEW n \in Deposits, Deposit(v, n) PROVE Covered(u)'
  <2>1. n \in Nat /\ record' = [record EXCEPT ![v].stake = @ + n]
    BY <1>3, TreasuryAssumption DEF TreasuryAssumption, Deposit
  <2>2. record'[u].stake >= record[u].stake
    BY <1>1, <2>1 DEF UserRecord
  <2> QED
    BY <1>2, <1>3, <2>2 DEF Deposit, loanVars
<1>4. ASSUME NEW g \in Guarantees, PostGuarantee(g) PROVE Covered(u)'
  BY <1>1, <1>2, <1>4 DEF PostGuarantee, loanVars
<1>5. ASSUME NEW l \in Loans, NEW d \in PresentValues(l, l.count), BorrowSecured(l, d)
      PROVE  Covered(u)'
  BY <1>1, <1>5, BorrowCovered
<1>6. ASSUME NEW l \in Loans, NEW d \in PresentValues(l, l.count), BorrowUnsecured(l, d)
      PROVE  Covered(u)'
  <2>1. /\ l \notin taken /\ taken' = taken \cup {l} /\ ~l.secured /\ Originate(l, d)
    BY <1>6 DEF BorrowUnsecured, Originate
  <2>2. \A x \in Loans \ {l} : loan'[x] = loan[x]
    BY <2>1, OriginateOthers DEF Inv
  <2>3. ASSUME NEW x \in Loans PROVE Owed(u)'[x] <= Owed(u)[x]
    <3>1. Owed(u)[x] \in Nat
      BY OwedIs
    <3>2. CASE x = l
      BY <2>1, <3>1, <3>2 DEF Owed
    <3>3. CASE x # l
      <4>1. Remaining(x)' = Remaining(x) /\ Open(x)' = Open(x) /\ (x \in taken' <=> x \in taken)
        BY <2>1, <2>2, <3>3 DEF Remaining, Paid, Open
      <4>2. Owed(u)'[x] = Owed(u)[x]
        BY <4>1 DEF Owed
      <4> QED
        BY <3>1, <4>2
    <3> QED
      BY <3>2, <3>3
  <2>4. record'[u].stake = record[u].stake
    <3>1. record'[u] = IF u = l.borrower
                       THEN [record[u] EXCEPT !.loaned = @ + d]
                       ELSE [record[u] EXCEPT !.guaranteed = @ + AmountOf(GuaranteedBy(l, u))]
      BY <1>6 DEF BorrowUnsecured, RecordsAfterBorrow
    <3>2. record[u] \in UserRecord
      BY <1>1
    <3> QED
      BY <3>1, <3>2 DEF UserRecord
  <2> QED
    BY <1>1, <2>3, <2>4, CoverStays
<1>7. ASSUME NEW l \in Loans, NEW next, NEW missed, NEW records, NEW n,
             Payment(l, next, missed, records, n)
      PROVE  Covered(u)'
  <2>1. /\ Open(l) /\ taken' = taken /\ Settle(l, next, missed, records)
        /\ missed \in Nat /\ Paid(l)' \in Int /\ Paid(l) + missed <= Paid(l)'
    BY <1>7 DEF Payment
  <2>2. Paid(l) <= Paid(l)' /\ \A x \in Loans \ {l} : loan'[x] = loan[x]
    BY <2>1, WriteOffBounds, SettledLoan DEF Inv
  <2>3. record'[u].stake >= record[u].stake
    BY <1>7, PaymentKeeps
  <2> QED
    BY <1>1, <2>1, <2>2, <2>3, OwedShrinks, CoverStays
<1>8. ASSUME NEW l \in Loans, NEW v \in Users, NEW price \in PresentValues(l, l.count),
             NEW refund \in Refunds, Buy(l, v, price, refund)
      PROVE  Covered(u)'
  <2>1. taken' = taken /\ record' = record /\ loan' = [loan EXCEPT ![l].owner = v]
    BY <1>8 DEF Buy
  <2>2. \A x \in Loans : loan'[x].next = loan[x].next /\ loan'[x].created = loan[x].created
    BY <2>1 DEF Inv, TypeOK, LoanRecord
  <2> QED
    BY <1>1, <2>1, <2>2, OwedStays, CoverStays
<1>9. ASSUME NEW l \in Loans, Claim(l) PROVE Covered(u)'
  <2>1. /\ Open(l) /\ DueNow(l) \in Nat /\ Paid(l)' = Paid(l) + DueNow(l)
        /\ \A x \in Loans \ {l} : loan'[x] = loan[x]
        /\ taken' = taken
    BY <1>9, ClaimMoves DEF Claim
  <2>2. Paid(l) <= Paid(l)' /\ Paid(l)' \in Int
    BY <2>1, WriteOffBounds
  <2>3. record'[u].stake >= record[u].stake
    BY <1>1, <1>9, ClaimRecords
  <2> QED
    BY <1>1, <2>1, <2>2, <2>3, OwedShrinks, CoverStays
<1>10. ASSUME NEW v \in Users, Draw(v) PROVE Covered(u)'
  BY <1>1, <1>10, DrawCovered
<1>11. CASE StartBlock \/ UNCHANGED vars
  BY <1>1, <1>2, <1>11 DEF StartBlock, vars, loanVars
<1>12. ASSUME NEW l \in Loans, NEW n \in Amounts,
              Repay(l, n) \/ CloseUnsecured(l, n) \/ CloseSecured(l, n)
       PROVE  Covered(u)'
  BY <1>7, <1>12, Payments
<1> QED
  BY <1>3, <1>4, <1>5, <1>6, <1>8, <1>9, <1>10, <1>11, <1>12 DEF Next, Transact

(* The stake a secured borrow was granted against stays until the loan is  *)
(* paid: no payment or close lowers it, and the draw passes over everyone  *)
(* who ever borrowed.                                                      *)
THEOREM SecuredLoansCovered == Spec => []SecuredCover
<1> DEFINE Cover == \A u \in Users : Covered(u)
<1>1. Init => Inv /\ Cover
  <2> SUFFICES ASSUME Init PROVE Inv /\ Cover
    OBVIOUS
  <2>1. Inv
    BY InitInv
  <2>2. ASSUME NEW u \in Users PROVE Covered(u)
    <3> DEFINE f == Owed(u)
    <3>1. \A l \in Loans : f[l] = 0
      BY DEF Init, Owed
    <3>2. SumFunctionOnSet(f, Loans) = 0
      <4>1. IsFiniteSet(Loans)
        BY TreasuryAssumption DEF TreasuryAssumption
      <4> HIDE DEF f
      <4> QED
        BY <3>1, <4>1, SumZero
    <3>3. record[u].stake \in Nat
      BY <2>1 DEF Inv, TypeOK, UserRecord
    <3> QED
      BY <3>2, <3>3 DEF Covered
  <2> QED
    BY <2>1, <2>2
<1>2. Inv /\ Cover /\ [Next]_vars => Inv' /\ Cover'
  BY StepInv, CoverStep
<1>3. Inv /\ Cover => SecuredCover
  BY OwedIs DEF SecuredCover, Covered
<1> QED
  BY <1>1, <1>2, <1>3, PTL DEF Spec

-----------------------------------------------------------------------------
(* Conservation of coins.                                                  *)

(* There are finitely many accounts, and the treasury's is no user's.      *)
LEMMA AccountTypes ==
    ASSUME TypeOK
    PROVE  /\ IsFiniteSet(Accounts) /\ IsFiniteSet(Users) /\ Users \subseteq Accounts
           /\ Treasury \in Accounts /\ Treasury \notin Users
           /\ \A a \in Accounts : balance[a] \in Int
<1>1. IsFiniteSet(Users) /\ Treasury \notin Users
  BY TreasuryAssumption DEF TreasuryAssumption
<1>2. IsFiniteSet(Users \cup {Treasury})
  BY <1>1, FS_AddElement
<1> QED
  BY <1>1, <1>2 DEF Accounts, TypeOK

(* Moving coins keeps their sum.                                           *)
LEMMA MoveConserves ==
    ASSUME TypeOK, NEW from \in Accounts, NEW to \in Accounts, NEW n \in Int,
           balance' = Move(from, to, n)
    PROVE  Coins' = Coins
<1> DEFINE f == balance
           h == [a \in Accounts |-> f[a] - (IF a = from THEN n ELSE 0)]
           k == balance'
<1>1. IsFiniteSet(Accounts) /\ -n \in Int /\ \A a \in Accounts : f[a] \in Int
  BY AccountTypes
<1>2. /\ \A a \in Accounts : h[a] = f[a] + (IF a = from THEN -n ELSE 0)
      /\ \A a \in Accounts : h[a] \in Int
      /\ \A a \in Accounts : k[a] = h[a] + (IF a = to THEN n ELSE 0)
  BY <1>1 DEF Move
<1>3. SumFunctionOnSet(f, Accounts) \in Int
  <2> HIDE DEF f
  <2> QED
    BY <1>1, SumInt
<1>4. SumFunctionOnSet(k, Accounts) = SumFunctionOnSet(f, Accounts)
  <2> DEFINE q == -n
  <2>0. q \in Int /\ \A a \in Accounts : h[a] = f[a] + (IF a = from THEN q ELSE 0)
    BY <1>1, <1>2
  <2> HIDE DEF f, h, k, q
  <2>1. SumFunctionOnSet(h, Accounts) = SumFunctionOnSet(f, Accounts) + q
    BY <1>1, <2>0, SumGain
  <2>2. SumFunctionOnSet(k, Accounts) = SumFunctionOnSet(h, Accounts) + n
    BY <1>1, <1>2, SumGain
  <2> QED
    BY <1>3, <2>1, <2>2 DEF q
<1> QED
  BY <1>4 DEF Coins

(* The guarantors of a loan together get the price of its guarantees.      *)
LEMMA PricesPaid ==
    ASSUME TypeOK, NEW l \in Loans, NEW h,
           \A a \in Accounts : h[a] = IF a \in Users THEN PriceOf(GuaranteedBy(l, a)) ELSE 0
    PROVE  /\ SumFunctionOnSet(h, Accounts) = PriceOf(l.refs)
           /\ \A a \in Accounts : h[a] \in Int
           /\ PriceOf(l.refs) \in Nat
<1> DEFINE S == l.refs
           f == [g \in S |-> g.price]
           k == [g \in S |-> g.guarantor]
           p == [u \in Users |-> PriceOf(GuaranteedBy(l, u))]
<1>1. S \in SUBSET Guarantees /\ IsFiniteSet(S) /\ PriceOf(S) \in Nat
  BY LoanFields, GuaranteeSums
<1>2. \A g \in S : f[g] \in Int /\ k[g] \in Users
  BY <1>1, GuaranteeFields
<1>3. ASSUME NEW u \in Users
      PROVE  p[u] = SumFunctionOnSet(f, {g \in S : k[g] = u}) /\ p[u] \in Nat
  <2> DEFINE T == GuaranteedBy(l, u)
             fT == [g \in T |-> g.price]
  <2>1. T = {g \in S : k[g] = u} /\ T \subseteq S
    BY DEF GuaranteedBy
  <2>2. IsFiniteSet(T) /\ \A g \in T : fT[g] = f[g]
    BY <1>1, <2>1, FS_Subset
  <2>3. SumFunctionOnSet(fT, T) = SumFunctionOnSet(f, T)
    <3> HIDE DEF T, fT, f
    <3> QED
      BY <2>2, SumAgree
  <2>4. p[u] = SumFunctionOnSet(fT, T)
    BY DEF PriceOf, SumOver
  <2>5. p[u] \in Nat
    BY <1>1, <2>1, GuaranteeSums
  <2> HIDE DEF T, fT, f, k, p, S
  <2> QED
    BY <2>1, <2>3, <2>4, <2>5
<1>4. \A u \in Users : p[u] \in Int
  <2> SUFFICES ASSUME NEW u \in Users PROVE p[u] \in Int
    OBVIOUS
  <2>1. p[u] \in Nat
    BY <1>3
  <2> HIDE DEF p
  <2> QED
    BY <2>1
<1>5. SumFunctionOnSet(p, Users) = SumFunctionOnSet(f, S)
  <2>1. IsFiniteSet(Users)
    BY AccountTypes
  <2> HIDE DEF f, k, p, S
  <2> QED
    BY <1>1, <1>2, <1>3, <2>1, SumParts
<1>6. PriceOf(S) = SumFunctionOnSet(f, S)
  BY DEF PriceOf, SumOver
<1>7. \A a \in Accounts : h[a] = IF a \in Users THEN p[a] ELSE 0
  OBVIOUS
<1>8. SumFunctionOnSet(h, Accounts) = SumFunctionOnSet(p, Users)
  <2>1. IsFiniteSet(Accounts) /\ Users \in SUBSET Accounts
    BY AccountTypes
  <2> HIDE DEF p
  <2> QED
    BY <1>7, <1>4, <2>1, SumRestrict
<1>9. \A a \in Accounts : h[a] \in Int
  <2> HIDE DEF p
  <2> QED
    BY <1>7, <1>4
<1> QED
  BY <1>1, <1>5, <1>6, <1>8, <1>9

(* A borrow splits the principal among borrower, guarantors and treasury.  *)
LEMMA BorrowConserves ==
    ASSUME TypeOK, NEW l \in Loans, NEW d \in Int, NEW fee \in Int,
           balance' = BalanceAfterBorrow(l, d, fee)
    PROVE  Coins' = Coins
<1> DEFINE n == d - fee
           p == PriceOf(l.refs)
           b == l.borrower
           f == balance
           q == -n
           r == n - p
           f1 == [a \in Accounts |-> f[a] + (IF a = Treasury THEN q ELSE 0)]
           f2 == [a \in Accounts |-> f1[a] + (IF a = b THEN r ELSE 0)]
           h == [a \in Accounts |-> IF a \in Users THEN PriceOf(GuaranteedBy(l, a)) ELSE 0]
           k == balance'
<1>1. /\ IsFiniteSet(Accounts) /\ b \in Accounts /\ Treasury \in Accounts
      /\ \A a \in Accounts : f[a] \in Int
  BY AccountTypes, LoanFields
<1>2. /\ SumFunctionOnSet(h, Accounts) = p
      /\ \A a \in Accounts : h[a] \in Int
      /\ p \in Nat
  <2>1. \A a \in Accounts : h[a] = IF a \in Users THEN PriceOf(GuaranteedBy(l, a)) ELSE 0
    OBVIOUS
  <2> HIDE DEF h
  <2> QED
    BY <2>1, PricesPaid
<1>3. \A a \in Accounts : k[a] = f[a] - (IF a = Treasury THEN n ELSE 0)
                                      + (IF a = b THEN n - p ELSE 0)
                                      + h[a]
  BY DEF BalanceAfterBorrow
<1>4. n \in Int /\ q \in Int /\ r \in Int
  BY <1>2
<1>5. \A a \in Accounts : /\ f1[a] = f[a] + (IF a = Treasury THEN q ELSE 0)
                          /\ f2[a] = f1[a] + (IF a = b THEN r ELSE 0)
  OBVIOUS
<1> HIDE DEF f, f1, f2, h, k, p, b
<1>6. \A a \in Accounts : f1[a] \in Int /\ f2[a] \in Int
  BY <1>1, <1>2, <1>4, <1>5
<1>7. \A a \in Accounts : k[a] = f2[a] + h[a]
  <2> SUFFICES ASSUME NEW a \in Accounts PROVE k[a] = f2[a] + h[a]
    OBVIOUS
  <2>1. f[a] \in Int /\ h[a] \in Int /\ f1[a] \in Int /\ f2[a] \in Int
    BY <1>1, <1>2, <1>6
  <2> QED
    BY <1>2, <1>3, <1>4, <1>5, <2>1
<1>8. SumFunctionOnSet(f, Accounts) \in Int
  BY <1>1, SumInt
<1>9. SumFunctionOnSet(k, Accounts) = SumFunctionOnSet(f, Accounts)
  <2> HIDE DEF q, r
  <2>1. SumFunctionOnSet(f1, Accounts) = SumFunctionOnSet(f, Accounts) + q
    BY <1>1, <1>4, <1>5, SumGain
  <2>2. SumFunctionOnSet(f2, Accounts) = SumFunctionOnSet(f1, Accounts) + r
    BY <1>1, <1>4, <1>5, <1>6, SumGain
  <2>3. SumFunctionOnSet(k, Accounts)
           = SumFunctionOnSet(f2, Accounts) + SumFunctionOnSet(h, Accounts)
    BY <1>1, <1>2, <1>6, <1>7, SumPlus
  <2> QED
    BY <1>2, <1>4, <1>8, <2>1, <2>2, <2>3 DEF q, r
<1> QED
  BY <1>9 DEF Coins, f, k

(* Only a sale makes or burns coins.                                       *)
LEMMA CoinsStep ==
    ASSUME Inv, [Next]_vars
    PROVE  Coins' # Coins => sales' # sales
<1>1. /\ TypeOK /\ Treasury \in Accounts /\ \A u \in Users : u \in Accounts
      /\ \A l \in Loans : l.borrower \in Accounts /\ loan[l].owner \in Accounts
  BY AccountTypes, LoanFields, LoanTypes DEF Inv
<1>2. ASSUME balance' = balance PROVE Coins' = Coins
  BY <1>2 DEF Coins
<1>3. ASSUME NEW u \in Users, NEW n \in Deposits, Deposit(u, n) PROVE Coins' = Coins
  <2>1. n \in Int /\ balance' = Move(u, Treasury, n)
    BY <1>3, TreasuryAssumption DEF TreasuryAssumption, Deposit
  <2> QED
    BY <1>1, <2>1, MoveConserves
<1>4. ASSUME NEW g \in Guarantees, PostGuarantee(g) PROVE Coins' = Coins
  BY <1>2, <1>4 DEF PostGuarantee
<1>5. ASSUME NEW l \in Loans, NEW d \in PresentValues(l, l.count),
             BorrowSecured(l, d) \/ BorrowUnsecured(l, d)
      PROVE  Coins' = Coins
  <2>1. d \in Int /\ d \in Nat
    BY LoanFields DEF PresentValues
  <2>2. CASE BorrowSecured(l, d)
    <3>1. balance' = Move(Treasury, l.borrower, d)
      BY <2>2 DEF BorrowSecured
    <3> QED
      BY <1>1, <2>1, <3>1, MoveConserves
  <2>3. CASE BorrowUnsecured(l, d)
    <3> DEFINE fee == InsuranceFee(l, d)
    <3>1. fee \in Int /\ balance' = BalanceAfterBorrow(l, d, fee)
      BY <1>1, <2>1, <2>3, FeeInt DEF BorrowUnsecured
    <3> HIDE DEF fee
    <3> QED
      BY <1>1, <2>1, <3>1, BorrowConserves
  <2> QED
    BY <1>5, <2>2, <2>3
<1>6. ASSUME NEW l \in Loans, NEW n \in Amounts,
             Repay(l, n) \/ CloseUnsecured(l, n) \/ CloseSecured(l, n)
      PROVE  Coins' = Coins
  <2>1. PICK next, missed, records, k : Payment(l, next, missed, records, k)
    BY <1>6, Payments
  <2> DEFINE b == l.borrower
             o == loan[l].owner
  <2>2. k \in Int /\ balance' = Move(b, o, k) /\ b \in Accounts /\ o \in Accounts
    BY <1>1, <2>1 DEF Payment
  <2> HIDE DEF b, o
  <2> QED
    BY <1>1, <2>2, MoveConserves
<1>7. ASSUME NEW l \in Loans, NEW u \in Users, NEW price \in PresentValues(l, l.count),
             NEW refund \in Refunds, Buy(l, u, price, refund)
      PROVE  sales' # sales
  BY <1>7 DEF Buy, Inv, TypeOK
<1>8. ASSUME NEW l \in Loans, Claim(l) PROVE Coins' = Coins
  <2> DEFINE n == DueNow(l) * l.payment
             o == loan[l].owner
  <2>1. n \in Int /\ balance' = Move(Treasury, o, n) /\ o \in Accounts
    <3>1. DueNow(l) \in Nat /\ l.payment \in Nat
      BY <1>8, ClaimMoves, LoanFields
    <3> QED
      BY <1>1, <1>8, <3>1 DEF Claim
  <2> HIDE DEF n, o
  <2> QED
    BY <1>1, <2>1, MoveConserves
<1>9. ASSUME NEW u \in Users, Draw(u) PROVE Coins' = Coins
  <2>1. CASE Halve(u)
    <3> DEFINE n == StakeReturn(u)
    <3>1. n \in Int /\ balance' = Move(Treasury, u, n)
      BY <1>1, <1>9, <2>1, StakeReturnBounds DEF Halve, Draw, DrawnStaker
    <3> HIDE DEF n
    <3> QED
      BY <1>1, <3>1, MoveConserves
  <2>2. CASE balance' = balance
    BY <1>2, <2>2
  <2> QED
    BY <1>9, <2>1, <2>2 DEF Draw
<1>10. ASSUME StartBlock \/ UNCHANGED vars PROVE Coins' = Coins
  BY <1>2, <1>10 DEF StartBlock, vars
<1> QED
  BY <1>3, <1>4, <1>5, <1>6, <1>7, <1>8, <1>9, <1>10 DEF Next, Transact

(* The handlers and the draw only move coins, with one exception:          *)
(* handle_treasury_buy takes the price from the owner and pays it to       *)
(* nobody, and nobody pays the refund.                                     *)
THEOREM CoinsConserved == Spec => ConservedExceptSales
<1>1. Inv /\ [Next]_vars => [Coins' # Coins => sales' # sales]_vars
  BY CoinsStep
<1> QED
  BY <1>1, SpecInv, PTL DEF Spec, ConservedExceptSales
=============================================================================
