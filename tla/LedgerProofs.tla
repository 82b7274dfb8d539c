---------------------------- MODULE LedgerProofs ----------------------------
(***************************************************************************)
(* Proofs about Ledger, for every set of users, channels, transactions and *)
(* signed vouchers and every storage fee.  The inductive invariant is      *)
(* TypeOK /\ NoReplay /\ VoucherOnce; the action properties and the        *)
(* implementation of Escrow follow from it one step at a time.             *)
(***************************************************************************)
EXTENDS Ledger, SumTheorems

-----------------------------------------------------------------------------
(* Facts about settle_fees and about transactions.                         *)

(* Nobody is charged more than it has, and every part is charged.          *)
LEMMA SettleWithinBalance ==
    ASSUME NEW b \in Nat, NEW t \in Nat, NEW d \in Nat, NEW s \in Nat, NEW x \in Nat
    PROVE  /\ Settle(b, t, d, s, x).transaction \in Nat
           /\ Settle(b, t, d, s, x).data \in Nat
           /\ Settle(b, t, d, s, x).storage \in Nat
           /\ Settle(b, t, d, s, x).transfer \in Nat
           /\ Total(Settle(b, t, d, s, x)) \in 0 .. b
<1>1. CASE b >= t + d + s + x
  BY <1>1 DEF Settle, Total
<1>2. CASE ~(b >= t + d + s + x)
  BY <1>2 DEF Settle, Total, PaidPart
<1> QED
  BY <1>1, <1>2

(* What a failed transaction pays: the base fee in full, since its sender  *)
(* has it, and as much of the storage fee as the rest reaches.             *)
LEMMA FailedFeesPaid ==
    ASSUME NEW b \in Nat, NEW s \in Nat, b >= TxFee
    PROVE  LET paid == Settle(b, TxFee, 0, s, 0)
           IN  /\ paid.transaction = TxFee
               /\ paid.storage \in 0 .. s
               /\ Total(paid) = TxFee + paid.storage
               /\ Total(paid) <= b
<1>1. CASE b >= TxFee + 0 + s + 0
  BY <1>1 DEF Settle, Total, TxFee
<1>2. CASE ~(b >= TxFee + 0 + s + 0)
  BY <1>2 DEF Settle, Total, PaidPart, TxFee
<1> QED
  BY <1>1, <1>2

(* The fields of a transaction by its code. *)
LEMMA TxFields ==
    ASSUME NEW tx \in Transactions
    PROVE  /\ tx.sender \in Users
           /\ tx.recipient \in Accounts
           /\ tx.counter \in Nat
           /\ tx.amount \in Nat
           /\ tx.code = "CHANNEL_UPDATE" =>
                 tx.counterparty \in Users /\ tx.window \in Nat \cup {KeepWindow}
           /\ tx.code = "CHANNEL_WITHDRAW" =>
                 tx.recipient \in Users /\ tx.voucher \in Voucher
           /\ tx.code = "CHANNEL_CLOSE" => tx.counterparty \in Users
<1>1. tx \in Tx
  BY LedgerAssumption DEF LedgerAssumption
<1>2. Users \subseteq Accounts
  BY DEF Accounts
<1>3. CASE tx \in TransferTx
  BY <1>2, <1>3 DEF TransferTx
<1>4. CASE tx \in UpdateTx
  BY <1>2, <1>4 DEF UpdateTx
<1>5. CASE tx \in WithdrawTx
  BY <1>2, <1>5 DEF WithdrawTx
<1>6. CASE tx \in CloseTx
  BY <1>2, <1>6 DEF CloseTx
<1>7. CASE tx \in RemoveTx
  BY <1>2, <1>7 DEF RemoveTx
<1> QED
  BY <1>1, <1>3, <1>4, <1>5, <1>6, <1>7 DEF Tx

(* The parts of a successful transaction's balances are natural numbers. *)
LEMMA EffectTypes ==
    ASSUME TypeOK, NEW tx \in Transactions, HandlerAccepts(tx)
    PROVE  /\ Credit(tx) \in Nat
           /\ Debit(tx) \in Nat
           /\ SelfCredit(tx) \in Nat
<1>1. /\ tx.amount \in Nat
      /\ tx.code = "CHANNEL_WITHDRAW" => tx.voucher.amount \in Nat
  BY TxFields DEF Voucher
<1>2. tx.code = "CHANNEL_CLOSE" => channel[<<tx.sender, tx.counterparty>>].balance \in Nat
  BY DEF HandlerAccepts, CloseAccepts, TypeOK, ChannelState
<1>3. Credit(tx) \in Nat
  BY <1>1, <1>2 DEF Credit
<1> QED
  BY <1>1, <1>3 DEF Debit, SelfCredit

-----------------------------------------------------------------------------
(* The inductive invariant.                                                *)

Inv == TypeOK /\ NoReplay /\ VoucherOnce

(* The invariant holds of the genesis accounts. *)
LEMMA InitInv == Init => Inv
<1> SUFFICES ASSUME Init PROVE Inv
  OBVIOUS
<1>1. TypeOK
  BY LedgerAssumption DEF LedgerAssumption, Init, TypeOK
<1>2. NoReplay /\ VoucherOnce
  BY DEF Init, NoReplay, VoucherOnce
<1> QED
  BY <1>1, <1>2 DEF Inv

(* The deductions of a success carry no guard of their own: the late       *)
(* affordability check is what keeps every balance a natural number.       *)
LEMMA BalanceAfterType ==
    ASSUME TypeOK, NEW tx \in Transactions, NEW fee \in StorageFees, Succeeds(tx, fee)
    PROVE  BalanceAfter(tx, fee) \in [Accounts -> Nat]
<1> DEFINE taken == TxFee + fee + Debit(tx)
<1>1. /\ fee \in Nat
      /\ Credit(tx) \in Nat /\ Debit(tx) \in Nat /\ SelfCredit(tx) \in Nat
      /\ balance[tx.sender] + Credit(tx) + SelfCredit(tx) >= taken
  BY EffectTypes, LedgerAssumption DEF LedgerAssumption, Succeeds
<1>2. /\ tx.sender \in Users /\ tx.amount \in Nat /\ tx.sender # Storage
      /\ TxFee \in Nat
  BY TxFields, LedgerAssumption DEF LedgerAssumption, TxFee
<1> SUFFICES ASSUME NEW a \in Accounts
             PROVE  BalanceAfter(tx, fee)[a] \in Nat
  BY DEF BalanceAfter
<1>3. balance[a] \in Nat
  BY DEF TypeOK
<1>4. CASE a # tx.sender
  BY <1>1, <1>2, <1>3, <1>4 DEF BalanceAfter
<1>5. CASE a = tx.sender /\ tx.recipient = tx.sender /\ tx.code = "TRANSFER"
  <2>1. SelfCredit(tx) = tx.amount
    BY <1>5 DEF SelfCredit
  <2> QED
    BY <2>1, <1>1, <1>2, <1>3, <1>5 DEF BalanceAfter
<1>6. CASE a = tx.sender /\ ~(tx.recipient = tx.sender /\ tx.code = "TRANSFER")
  <2>1. SelfCredit(tx) = 0
    BY <1>6 DEF SelfCredit
  <2> QED
    BY <2>1, <1>1, <1>2, <1>3, <1>6 DEF BalanceAfter
<1> QED
  BY <1>4, <1>5, <1>6

(* A success spends the sender's next counter: what succeeded before it    *)
(* has a smaller one.                                                      *)
LEMMA CommitInv ==
    ASSUME TypeOK, NoReplay,
           NEW tx \in Transactions, NEW fee \in StorageFees, Commit(tx, fee)
    PROVE  /\ balance' \in [Accounts -> Nat]
           /\ counter' \in [Accounts -> Nat]
           /\ feesPaid' \in Nat /\ time' \in Nat /\ minted' \in Nat
           /\ succeeded' \subseteq Transactions
           /\ NoReplay'
<1>1. tx.sender \in Accounts /\ tx.counter \in Nat
  BY TxFields DEF Accounts
<1>2. balance' \in [Accounts -> Nat]
  BY BalanceAfterType DEF Commit
<1>3. /\ counter' = [counter EXCEPT ![tx.sender] = @ + 1]
      /\ tx.counter = counter[tx.sender]
      /\ succeeded' = succeeded \cup {tx}
  BY DEF Commit, Succeeds, Matched
<1>4. /\ counter' \in [Accounts -> Nat]
      /\ feesPaid' \in Nat /\ time' \in Nat /\ minted' \in Nat
      /\ succeeded' \subseteq Transactions
  BY <1>1, <1>3 DEF TypeOK, Commit, TxFee
<1>5. \A t \in succeeded : /\ t.sender \in Accounts
                           /\ t.counter \in Nat
                           /\ t.counter < counter[t.sender]
  BY TxFields DEF TypeOK, NoReplay, Accounts
<1>6. \A t \in succeeded : t.counter < counter'[t.sender]
  BY <1>1, <1>3, <1>5 DEF TypeOK
<1>7. tx.counter < counter'[tx.sender]
  BY <1>1, <1>3 DEF TypeOK
<1>8. \A t \in succeeded : ~(t.sender = tx.sender /\ t.counter = tx.counter)
  BY <1>1, <1>3, <1>5 DEF TypeOK
<1>9. NoReplay'
  BY <1>3, <1>6, <1>7, <1>8 DEF NoReplay
<1> QED
  BY <1>2, <1>4, <1>9

(* A handler that accepts names a channel of the transaction. *)
LEMMA ChannelAccepted ==
    ASSUME TypeOK, NEW tx \in Transactions, HandlerAccepts(tx)
    PROVE  /\ tx.code = "CHANNEL_UPDATE" => UpdateAccepts(tx)
           /\ tx.code = "CHANNEL_WITHDRAW" => WithdrawAccepts(tx)
           /\ tx.code = "CHANNEL_CLOSE" => CloseAccepts(tx)
  BY DEF HandlerAccepts

(* The window a CHANNEL_UPDATE leaves is the old one or a later one. *)
LEMMA UpdatedChannel ==
    ASSUME TypeOK, NEW tx \in Transactions, NEW fee \in StorageFees, ChannelUpdate(tx, fee)
    PROVE  LET pair == <<tx.sender, tx.counterparty>>
           IN  /\ pair \in Channels
               /\ channel' = [channel EXCEPT ![pair] = channel'[pair]]
               /\ channel'[pair] \in ChannelState
               /\ channel'[pair].balance = channel[pair].balance + tx.amount
               /\ channel'[pair].counter = channel[pair].counter + 1
               /\ channel'[pair].window >= channel[pair].window
<1> DEFINE pair == <<tx.sender, tx.counterparty>>
           w    == NewWindow(tx, channel[pair])
<1>1. tx.code = "CHANNEL_UPDATE" /\ HandlerAccepts(tx)
  BY DEF ChannelUpdate, Commit, Succeeds
<1>2. pair \in Channels /\ w >= channel[pair].window
  BY <1>1, ChannelAccepted DEF UpdateAccepts
<1>3. tx.amount \in Nat /\ tx.window \in Nat \cup {KeepWindow}
  BY <1>1, TxFields
<1>4. channel[pair] \in ChannelState
  BY <1>2 DEF TypeOK
<1>5. w \in Nat
  BY <1>2, <1>3, <1>4 DEF NewWindow, ChannelState, KeepWindow
<1>6. channel' = [channel EXCEPT ![pair] = [balance |-> channel[pair].balance + tx.amount,
                                            counter |-> channel[pair].counter + 1,
                                            window  |-> w]]
  BY DEF ChannelUpdate
<1>7. channel'[pair] = [balance |-> channel[pair].balance + tx.amount,
                        counter |-> channel[pair].counter + 1,
                        window  |-> w]
  BY <1>2, <1>6 DEF TypeOK
<1>8. channel' = [channel EXCEPT ![pair] = channel'[pair]]
  BY <1>6, <1>7
<1>9. channel'[pair] \in ChannelState
  BY <1>3, <1>4, <1>5, <1>7 DEF ChannelState
<1> QED
  BY <1>2, <1>7, <1>8, <1>9

(* A withdrawal leaves a channel state: the voucher asked for no more than *)
(* the channel held.                                                       *)
LEMMA WithdrawnChannel ==
    ASSUME TypeOK, NEW tx \in Transactions, NEW fee \in StorageFees, ChannelWithdraw(tx, fee)
    PROVE  LET pair == <<tx.recipient, tx.sender>>
           IN  /\ pair \in Channels
               /\ <<pair, tx.voucher>> \in Signed
               /\ tx.voucher \in Voucher
               /\ time < channel[pair].window
               /\ tx.voucher.counter > channel[pair].counter
               /\ tx.voucher.amount <= channel[pair].balance
               /\ channel' = [channel EXCEPT ![pair] = channel'[pair]]
               /\ channel'[pair] \in ChannelState
               /\ channel'[pair].balance = channel[pair].balance - tx.voucher.amount
               /\ channel'[pair].counter = tx.voucher.counter
               /\ channel'[pair].window = channel[pair].window
               /\ redeemed' = redeemed \cup {<<pair, tx.voucher>>}
<1> DEFINE pair == <<tx.recipient, tx.sender>>
<1>1. tx.code = "CHANNEL_WITHDRAW" /\ HandlerAccepts(tx)
  BY DEF ChannelWithdraw, Commit, Succeeds
<1>2. /\ pair \in Channels
      /\ <<pair, tx.voucher>> \in Signed
      /\ time < channel[pair].window
      /\ tx.voucher.counter > channel[pair].counter
      /\ tx.voucher.amount <= channel[pair].balance
  BY <1>1, ChannelAccepted DEF WithdrawAccepts
<1>3. tx.voucher \in Voucher
  BY <1>1, TxFields
<1>4. channel[pair] \in ChannelState
  BY <1>2 DEF TypeOK
<1>5. /\ channel' = [channel EXCEPT ![pair] =
                        [balance |-> channel[pair].balance - tx.voucher.amount,
                         counter |-> tx.voucher.counter,
                         window  |-> channel[pair].window]]
      /\ redeemed' = redeemed \cup {<<pair, tx.voucher>>}
  BY DEF ChannelWithdraw
<1>6. channel'[pair] = [balance |-> channel[pair].balance - tx.voucher.amount,
                        counter |-> tx.voucher.counter,
                        window  |-> channel[pair].window]
  BY <1>2, <1>5 DEF TypeOK
<1>7. channel'[pair] \in ChannelState
  BY <1>2, <1>3, <1>4, <1>6 DEF ChannelState, Voucher
<1>8. channel' = [channel EXCEPT ![pair] = channel'[pair]]
  BY <1>5, <1>6
<1> QED
  BY <1>2, <1>3, <1>5, <1>6, <1>7, <1>8

(* A close leaves a channel state, and moves the counter. *)
LEMMA ClosedChannel ==
    ASSUME TypeOK, NEW tx \in Transactions, NEW fee \in StorageFees, ChannelClose(tx, fee)
    PROVE  LET pair == <<tx.sender, tx.counterparty>>
           IN  /\ pair \in Channels
               /\ channel[pair].window < time
               /\ channel' = [channel EXCEPT ![pair] = channel'[pair]]
               /\ channel'[pair] \in ChannelState
               /\ channel'[pair].balance = 0
               /\ channel'[pair].counter = channel[pair].counter + 1
               /\ channel'[pair].window = channel[pair].window
<1> DEFINE pair == <<tx.sender, tx.counterparty>>
<1>1. tx.code = "CHANNEL_CLOSE" /\ HandlerAccepts(tx)
  BY DEF ChannelClose, Commit, Succeeds
<1>2. pair \in Channels /\ channel[pair].window < time
  BY <1>1, ChannelAccepted DEF CloseAccepts
<1>3. channel[pair] \in ChannelState
  BY <1>2 DEF TypeOK
<1>4. channel' = [channel EXCEPT ![pair] = [balance |-> 0,
                                            counter |-> channel[pair].counter + 1,
                                            window  |-> channel[pair].window]]
  BY DEF ChannelClose
<1>5. channel'[pair] = [balance |-> 0,
                        counter |-> channel[pair].counter + 1,
                        window  |-> channel[pair].window]
  BY <1>2, <1>4 DEF TypeOK
<1>6. channel'[pair] \in ChannelState
  BY <1>3, <1>5 DEF ChannelState
<1>7. channel' = [channel EXCEPT ![pair] = channel'[pair]]
  BY <1>4, <1>5
<1> QED
  BY <1>2, <1>5, <1>6, <1>7

(* A redeemed voucher is one of a channel, signed by its payer. *)
LEMMA RedeemedTypes ==
    ASSUME TypeOK, NEW r \in redeemed
    PROVE  /\ r \in Signed /\ r = <<r[1], r[2]>>
           /\ r[1] \in Channels /\ r[2] \in Voucher
           /\ r[2].counter \in Nat /\ channel[r[1]].counter \in Nat
<1>1. r \in Channels \X Voucher
  BY LedgerAssumption DEF LedgerAssumption, TypeOK
<1>2. r = <<r[1], r[2]>> /\ r[1] \in Channels /\ r[2] \in Voucher
  BY <1>1
<1> QED
  BY <1>2 DEF TypeOK, Voucher, ChannelState

(* Top-ups and closes only move a channel's counter up. *)
LEMMA CounterUpKeepsVouchers ==
    ASSUME TypeOK, VoucherOnce, redeemed' = redeemed, NEW pair \in Channels,
           channel' = [channel EXCEPT ![pair] = channel'[pair]],
           channel'[pair].counter = channel[pair].counter + 1
    PROVE  VoucherOnce'
<1>1. ASSUME NEW r \in redeemed PROVE r[2].counter <= channel'[r[1]].counter
  <2>1. r[1] \in Channels /\ r[2].counter \in Nat /\ channel[r[1]].counter \in Nat
    BY RedeemedTypes
  <2>2. r[2].counter <= channel[r[1]].counter
    BY DEF VoucherOnce
  <2>3. CASE r[1] = pair
    BY <2>1, <2>2, <2>3
  <2>4. CASE r[1] # pair
    BY <2>1, <2>2, <2>4 DEF TypeOK
  <2> QED
    BY <2>3, <2>4
<1> QED
  BY <1>1 DEF VoucherOnce

(* A withdrawal pays a voucher newer than every one paid before it. *)
LEMMA WithdrawKeepsVouchers ==
    ASSUME TypeOK, VoucherOnce,
           NEW tx \in Transactions, NEW fee \in StorageFees, ChannelWithdraw(tx, fee)
    PROVE  /\ VoucherOnce'
           /\ redeemed' \subseteq Signed
           /\ \A r \in redeemed : r[1] = <<tx.recipient, tx.sender>> =>
                                     r[2].counter < tx.voucher.counter
<1> DEFINE pair == <<tx.recipient, tx.sender>>
           new  == <<pair, tx.voucher>>
<1>1. /\ pair \in Channels
      /\ new \in Signed
      /\ tx.voucher \in Voucher
      /\ tx.voucher.counter > channel[pair].counter
      /\ channel' = [channel EXCEPT ![pair] = channel'[pair]]
      /\ channel'[pair].counter = tx.voucher.counter
      /\ redeemed' = redeemed \cup {new}
  BY WithdrawnChannel
<1>2. channel[pair].counter \in Nat /\ tx.voucher.counter \in Nat
  BY <1>1 DEF TypeOK, ChannelState, Voucher
<1>3. ASSUME NEW r \in redeemed, r[1] = pair
      PROVE  r[2].counter < tx.voucher.counter
  BY <1>1, <1>2, <1>3, RedeemedTypes DEF VoucherOnce
<1>4. ASSUME NEW r \in redeemed PROVE r[2].counter <= channel'[r[1]].counter
  <2>1. r[1] \in Channels /\ r[2].counter \in Nat
    BY RedeemedTypes
  <2>2. CASE r[1] = pair
    BY <1>1, <1>2, <1>3, <2>1, <2>2
  <2>3. CASE r[1] # pair
    BY <1>1, <2>1, <2>3 DEF TypeOK, VoucherOnce
  <2> QED
    BY <2>2, <2>3
<1>5. new[2].counter <= channel'[new[1]].counter
  BY <1>1, <1>2
<1>6. ASSUME NEW r1 \in redeemed', NEW r2 \in redeemed',
             r1[1] = r2[1], r1[2].counter = r2[2].counter
      PROVE  r1 = r2
  <2>1. CASE r1 \in redeemed /\ r2 \in redeemed
    BY <1>6, <2>1 DEF VoucherOnce
  <2>2. CASE r1 = new /\ r2 = new
    BY <2>2
  <2>3. CASE r1 = new /\ r2 \in redeemed
    <3>1. r2[1] = pair /\ r2[2].counter = tx.voucher.counter
      BY <1>6, <2>3
    <3> QED
      BY <1>2, <1>3, <2>3, <3>1
  <2>4. CASE r1 \in redeemed /\ r2 = new
    <3>1. r1[1] = pair /\ r1[2].counter = tx.voucher.counter
      BY <1>6, <2>4
    <3> QED
      BY <1>2, <1>3, <2>4, <3>1
  <2> QED
    BY <1>1, <2>1, <2>2, <2>3, <2>4
<1>7. VoucherOnce'
  BY <1>1, <1>4, <1>5, <1>6 DEF VoucherOnce
<1> QED
  BY <1>1, <1>3, <1>7 DEF TypeOK

-----------------------------------------------------------------------------
(* The steps.                                                              *)

(* A failed transaction keeps the invariant: its fees stop at the balance. *)
LEMMA FailInv ==
    ASSUME Inv, NEW tx \in Transactions, NEW fee \in StorageFees, NEW resolved \in BOOLEAN,
           Fail(tx, fee, resolved)
    PROVE  Inv'
<1> DEFINE b    == balance[tx.sender]
           paid == FailedFees(tx, fee)
<1>1. /\ tx.sender \in Users /\ tx.sender \in Accounts /\ tx.counter \in Nat
      /\ Storage \in Accounts /\ tx.sender # Storage
      /\ fee \in Nat /\ b \in Nat
      /\ balance[Storage] \in Nat
  BY TxFields, LedgerAssumption DEF LedgerAssumption, Accounts, Inv, TypeOK
<1>2. b >= TxFee
  BY <1>1 DEF Fail, Raises, TxFee
<1>3. /\ paid.transaction = TxFee
      /\ paid.storage \in 0 .. fee
      /\ Total(paid) = TxFee + paid.storage
      /\ Total(paid) <= b
  BY <1>1, <1>2, FailedFeesPaid DEF FailedFees
<1>4. balance' = [balance EXCEPT ![tx.sender] = @ - Total(paid), ![Storage] = @ + paid.storage]
  BY DEF Fail
<1>5. balance' \in [Accounts -> Nat]
  BY <1>1, <1>3, <1>4 DEF Inv, TypeOK, TxFee
<1>6. counter' \in [Accounts -> Nat] /\ \A u \in Accounts : counter'[u] >= counter[u]
  BY <1>1 DEF Fail, FailedCounter, Inv, TypeOK
<1>7. feesPaid' \in Nat
  BY <1>3 DEF Fail, Inv, TypeOK, TxFee
<1>8. TypeOK'
  BY <1>5, <1>6, <1>7 DEF Fail, history, Inv, TypeOK
<1>9. ASSUME NEW t \in succeeded PROVE t.counter < counter'[t.sender]
  <2>1. t.sender \in Accounts /\ t.counter \in Nat
    BY TxFields DEF Inv, TypeOK, Accounts
  <2>2. t.counter < counter[t.sender]
    BY DEF Inv, NoReplay
  <2>3. counter[t.sender] \in Nat /\ counter'[t.sender] \in Nat
    BY <1>6, <2>1 DEF Inv, TypeOK
  <2> QED
    BY <1>6, <2>1, <2>2, <2>3
<1>10. NoReplay'
  <2>1. succeeded' = succeeded
    BY DEF Fail, history
  <2> QED
    BY <1>9, <2>1 DEF Inv, NoReplay
<1>11. VoucherOnce'
  BY DEF Fail, history, Inv, VoucherOnce
<1> QED
  BY <1>8, <1>10, <1>11 DEF Inv

(* Sealing a block keeps the invariant. *)
LEMMA SealInv ==
    ASSUME Inv, NEW validator \in Users, SealBlock(validator)
    PROVE  Inv'
<1>1. Reward \in Nat /\ Reward - feesPaid \in Nat /\ validator \in Accounts
  BY DEF Reward, Inv, TypeOK, Accounts
<1>2. time' \in Nat
  BY LedgerAssumption DEF LedgerAssumption, SealBlock, Inv, TypeOK
<1>3. TypeOK'
  BY <1>1, <1>2 DEF SealBlock, history, Inv, TypeOK
<1>4. NoReplay' /\ VoucherOnce'
  BY DEF SealBlock, history, Inv, NoReplay, VoucherOnce
<1> QED
  BY <1>3, <1>4 DEF Inv

(* Every step but the four that touch channels or the history leaves both  *)
(* alone; the lemmas above cover those.                                    *)
LEMMA SuccessInv ==
    ASSUME Inv, NEW tx \in Transactions, NEW fee \in StorageFees, Commit(tx, fee),
           live' \subseteq Accounts,
           channel' \in [Channels -> ChannelState],
           redeemed' \subseteq Signed,
           VoucherOnce'
    PROVE  Inv'
  BY CommitInv DEF Inv, TypeOK

(* Applying a transaction, whatever its code and outcome, keeps the        *)
(* invariant.                                                              *)
LEMMA ApplyInv ==
    ASSUME Inv, NEW tx \in Transactions, NEW fee \in StorageFees, Apply(tx, fee)
    PROVE  Inv'
<1>1. tx.sender \in Accounts /\ tx.recipient \in Accounts
  BY TxFields DEF Accounts
<1>2. CASE Transfer(tx, fee) \/ Touch(tx, fee)
  <2>1. /\ Commit(tx, fee)
        /\ live' = live \cup {tx.recipient}
        /\ channel' = channel /\ redeemed' = redeemed
    BY <1>2 DEF Transfer, Touch
  <2>2. VoucherOnce'
    BY <2>1 DEF Inv, VoucherOnce
  <2> QED
    BY <1>1, <2>1, <2>2, SuccessInv DEF Inv, TypeOK
<1>3. CASE ChannelUpdate(tx, fee)
  <2> DEFINE pair == <<tx.sender, tx.counterparty>>
  <2>1. Commit(tx, fee) /\ live' = live /\ redeemed' = redeemed
    BY <1>3 DEF ChannelUpdate
  <2>2. /\ pair \in Channels
        /\ channel' = [channel EXCEPT ![pair] = channel'[pair]]
        /\ channel'[pair] \in ChannelState
        /\ channel'[pair].counter = channel[pair].counter + 1
    BY <1>3, UpdatedChannel DEF Inv
  <2>3. VoucherOnce'
    BY <2>1, <2>2, CounterUpKeepsVouchers DEF Inv
  <2>4. channel' \in [Channels -> ChannelState]
    BY <2>2 DEF Inv, TypeOK
  <2> QED
    BY <2>1, <2>3, <2>4, SuccessInv DEF Inv, TypeOK
<1>4. CASE ChannelWithdraw(tx, fee)
  <2> DEFINE pair == <<tx.recipient, tx.sender>>
  <2>1. Commit(tx, fee) /\ live' = live
    BY <1>4 DEF ChannelWithdraw
  <2>2. /\ pair \in Channels
        /\ channel' = [channel EXCEPT ![pair] = channel'[pair]]
        /\ channel'[pair] \in ChannelState
    BY <1>4, WithdrawnChannel DEF Inv
  <2>3. VoucherOnce' /\ redeemed' \subseteq Signed
    BY <1>4, WithdrawKeepsVouchers DEF Inv
  <2>4. channel' \in [Channels -> ChannelState]
    BY <2>2 DEF Inv, TypeOK
  <2> QED
    BY <2>1, <2>3, <2>4, SuccessInv DEF Inv, TypeOK
<1>5. CASE ChannelClose(tx, fee)
  <2> DEFINE pair == <<tx.sender, tx.counterparty>>
  <2>1. Commit(tx, fee) /\ live' = live /\ redeemed' = redeemed
    BY <1>5 DEF ChannelClose
  <2>2. /\ pair \in Channels
        /\ channel' = [channel EXCEPT ![pair] = channel'[pair]]
        /\ channel'[pair] \in ChannelState
        /\ channel'[pair].counter = channel[pair].counter + 1
    BY <1>5, ClosedChannel DEF Inv
  <2>3. VoucherOnce'
    BY <2>1, <2>2, CounterUpKeepsVouchers DEF Inv
  <2>4. channel' \in [Channels -> ChannelState]
    BY <2>2 DEF Inv, TypeOK
  <2> QED
    BY <2>1, <2>3, <2>4, SuccessInv DEF Inv, TypeOK
<1>6. CASE \E resolved \in BOOLEAN : Fail(tx, fee, resolved)
  BY <1>6, FailInv
<1> QED
  BY <1>2, <1>3, <1>4, <1>5, <1>6 DEF Apply

(* Every step keeps the invariant. *)
LEMMA StepInv == Inv /\ [Next]_vars => Inv'
<1> SUFFICES ASSUME Inv, [Next]_vars PROVE Inv'
  OBVIOUS
<1>1. CASE Next
  BY <1>1, ApplyInv, SealInv DEF Next
<1>2. CASE UNCHANGED vars
  <2>1. TypeOK'
    BY <1>2 DEF vars, accounts, history, Inv, TypeOK
  <2>2. NoReplay' /\ VoucherOnce'
    BY <1>2 DEF vars, accounts, history, Inv, NoReplay, VoucherOnce
  <2> QED
    BY <2>1, <2>2 DEF Inv
<1> QED
  BY <1>1, <1>2

(* The inductive invariant holds in every reachable state. *)
LEMMA SpecInv == Spec => []Inv
  BY InitInv, StepInv, PTL DEF Spec

-----------------------------------------------------------------------------
(* The theorems.                                                           *)

(* No account and no channel is ever overdrawn, by any sequence of         *)
(* successes, failures, partial fees and rewards.                          *)
THEOREM TypeCorrect == Spec => []TypeOK
<1>1. Inv => TypeOK
  BY DEF Inv
<1> QED
  BY <1>1, SpecInv, PTL

(* The counters of apply.py:126-134 stop every replay: at most one         *)
(* transaction per sender and counter succeeds.                            *)
THEOREM ReplaySafe == Spec => []NoReplay
<1>1. Inv => NoReplay
  BY DEF Inv
<1> QED
  BY <1>1, SpecInv, PTL

(* The counters of channel/withdraw.py:109 and channel/update.py:49 let at *)
(* most one voucher per channel counter be paid.                           *)
THEOREM VoucherSafe == Spec => []VoucherOnce
<1>1. Inv => VoucherOnce
  BY DEF Inv
<1> QED
  BY <1>1, SpecInv, PTL

(* A success moves its sender's counter by one, and no other. *)
LEMMA SenderMoves ==
    ASSUME Inv, NEW tx \in Transactions, Matched(tx),
           counter' = [counter EXCEPT ![tx.sender] = @ + 1]
    PROVE  SendersNext
<1>1. tx.sender \in Accounts /\ Users \subseteq Accounts
  BY TxFields DEF Accounts
<1>2. tx.counter = counter[tx.sender]
  BY DEF Matched
<1> SUFFICES ASSUME NEW u \in Users, counter'[u] # counter[u]
             PROVE  /\ counter'[u] = counter[u] + 1
                    /\ \E t \in Transactions : t.sender = u /\ t.counter = counter[u]
  BY DEF SendersNext
<1>3. u = tx.sender
  BY <1>1 DEF Inv, TypeOK
<1> QED
  BY <1>1, <1>2, <1>3 DEF Inv, TypeOK

(* Nobody can spend the counters of an account but by a transaction of its *)
(* own that carries the next one.                                          *)
THEOREM CountersInOrder == Spec => CounterMovesInOrder
<1>1. ASSUME Inv, [Next]_vars PROVE [SendersNext]_vars
  <2>1. ASSUME NEW tx \in Transactions, NEW fee \in StorageFees, Commit(tx, fee)
        PROVE  SendersNext
    BY <1>1, <2>1, SenderMoves DEF Commit, Succeeds
  <2>2. ASSUME NEW tx \in Transactions, NEW fee \in StorageFees, NEW resolved \in BOOLEAN,
               Fail(tx, fee, resolved)
        PROVE  SendersNext
    <3>1. CASE Matched(tx)
      BY <1>1, <2>2, <3>1, SenderMoves DEF Fail, FailedCounter
    <3>2. CASE ~Matched(tx)
      BY <2>2, <3>2 DEF Fail, FailedCounter, SendersNext
    <3> QED
      BY <3>1, <3>2
  <2>3. ASSUME NEW tx \in Transactions, NEW fee \in StorageFees, Apply(tx, fee)
        PROVE  SendersNext
    <3>1. Commit(tx, fee) \/ \E resolved \in BOOLEAN : Fail(tx, fee, resolved)
      BY <2>3 DEF Apply, Transfer, ChannelUpdate, ChannelWithdraw, ChannelClose, Touch
    <3> QED
      BY <3>1, <2>1, <2>2
  <2>4. ASSUME NEW validator \in Users, SealBlock(validator)
        PROVE  SendersNext
    BY <2>4 DEF SealBlock, SendersNext
  <2> QED
    BY <1>1, <2>3, <2>4 DEF Next
<1> QED
  BY <1>1, SpecInv, PTL DEF Spec, CounterMovesInOrder

(* A step with no new success is a failure: a transaction that succeeded   *)
(* before no longer carries its sender's counter.                          *)
LEMMA NoNewSuccessFails ==
    ASSUME Inv, Next, succeeded' = succeeded, time' = time
    PROVE  \E tx \in Transactions, fee \in StorageFees, resolved \in BOOLEAN :
              Fail(tx, fee, resolved)
<1>1. ASSUME NEW tx \in Transactions, NEW fee \in StorageFees, Commit(tx, fee)
      PROVE  FALSE
  <2>1. tx \in succeeded /\ tx.counter = counter[tx.sender]
    BY <1>1 DEF Commit, Succeeds, Matched
  <2>2. tx.counter < counter[tx.sender] /\ tx.counter \in Nat
    BY <2>1, TxFields DEF Inv, NoReplay
  <2> QED
    BY <2>1, <2>2
<1>2. ASSUME NEW validator \in Users, SealBlock(validator)
      PROVE  FALSE
  <2>1. time' \in (time + 1) .. MaxTime /\ time \in Nat /\ MaxTime \in Nat
    BY <1>2, LedgerAssumption DEF LedgerAssumption, SealBlock, Inv, TypeOK
  <2> QED
    BY <2>1
<1>3. PICK tx \in Transactions, fee \in StorageFees : Apply(tx, fee)
  BY <1>2 DEF Next
<1>4. Commit(tx, fee) \/ \E resolved \in BOOLEAN : Fail(tx, fee, resolved)
  BY <1>3 DEF Apply, Transfer, ChannelUpdate, ChannelWithdraw, ChannelClose, Touch
<1> QED
  BY <1>1, <1>4

(* What a failure takes from its sender is what the storage account and    *)
(* the block's fees gain.                                                  *)
LEMMA FailureTakesFees ==
    ASSUME Inv, NEW tx \in Transactions, NEW fee \in StorageFees, NEW resolved \in BOOLEAN,
           Fail(tx, fee, resolved)
    PROVE  OnlyPayerLoses
<1> DEFINE b    == balance[tx.sender]
           paid == FailedFees(tx, fee)
<1>1. /\ tx.sender \in Users /\ tx.sender \in Accounts /\ Users \subseteq Accounts
      /\ Storage \in Accounts /\ Storage \notin Users
      /\ fee \in Nat /\ b \in Nat /\ balance[Storage] \in Nat /\ feesPaid \in Nat
  BY TxFields, LedgerAssumption DEF LedgerAssumption, Accounts, Inv, TypeOK
<1>2. b >= TxFee
  BY <1>1 DEF Fail, Raises, TxFee
<1>3. /\ paid.transaction = TxFee
      /\ paid.storage \in 0 .. fee
      /\ Total(paid) = TxFee + paid.storage
      /\ Total(paid) <= b
  BY <1>1, <1>2, FailedFeesPaid DEF FailedFees
<1>4. /\ balance' = [balance EXCEPT ![tx.sender] = @ - Total(paid),
                                    ![Storage] = @ + paid.storage]
      /\ feesPaid' = feesPaid + TxFee
      /\ channel' = channel /\ live' = live
  BY <1>3 DEF Fail
<1>5. /\ balance'[tx.sender] = b - (TxFee + paid.storage)
      /\ balance'[Storage] = balance[Storage] + paid.storage
      /\ \A a \in Users \ {tx.sender} : balance'[a] = balance[a]
  BY <1>1, <1>3, <1>4 DEF Inv, TypeOK
<1>6. TxFee = 1
  BY DEF TxFee
<1> HIDE DEF paid
<1>7. /\ balance'[tx.sender] < b
      /\ balance'[Storage] >= balance[Storage]
      /\ b - balance'[tx.sender] = (balance'[Storage] - balance[Storage]) + (feesPaid' - feesPaid)
  BY <1>1, <1>3, <1>4, <1>5, <1>6
<1> QED
  BY <1>1, <1>4, <1>5, <1>7 DEF OnlyPayerLoses

(* Failures and replays touch nobody but the one who sent them: the        *)
(* rollback of apply.py:192-208, whatever the handler did before it.       *)
THEOREM FailuresContained == Spec => OnlySuccessActs
<1>1. ASSUME Inv, [Next]_vars PROVE [OnlyPayerLoses]_vars
  <2>1. CASE Next /\ succeeded' = succeeded /\ time' = time
    BY <1>1, <2>1, NoNewSuccessFails, FailureTakesFees
  <2>2. CASE ~(succeeded' = succeeded /\ time' = time)
    BY <2>2 DEF OnlyPayerLoses
  <2> QED
    BY <1>1, <2>1, <2>2
<1> QED
  BY <1>1, SpecInv, PTL DEF Spec, OnlySuccessActs

-----------------------------------------------------------------------------
(* Conservation.                                                           *)

(* What the operations must leave alone. *)
Books(bal, chan, fees, mint) == Wealth(bal, chan) + fees - mint

(* The accounts and the channels can be added up. *)
LEMMA Countable ==
    ASSUME TypeOK
    PROVE  /\ IsFiniteSet(Accounts) /\ IsFiniteSet(Channels)
           /\ \A a \in Accounts : balance[a] \in Int
           /\ \A p \in Channels : Escrowed(channel)[p] \in Int
           /\ SumFunctionOnSet(balance, Accounts) \in Int
           /\ SumFunctionOnSet(Escrowed(channel), Channels) \in Int
           /\ Wealth(balance, channel) \in Int
<1>1. IsFiniteSet(Users \cup {Storage}) /\ IsFiniteSet(Users \X Users)
  BY LedgerAssumption, FS_AddElement, FS_Product DEF LedgerAssumption
<1>2. IsFiniteSet(Accounts) /\ IsFiniteSet(Channels)
  BY <1>1, LedgerAssumption, FS_Subset DEF LedgerAssumption, Accounts
<1>3. \A a \in Accounts : balance[a] \in Int
  BY DEF TypeOK
<1>4. \A p \in Channels : Escrowed(channel)[p] \in Int
  BY DEF TypeOK, ChannelState, Escrowed
<1>5. /\ SumFunctionOnSet(balance, Accounts) \in Int
      /\ SumFunctionOnSet(Escrowed(channel), Channels) \in Int
  BY <1>2, <1>3, <1>4, SumInt
<1> QED
  BY <1>2, <1>3, <1>4, <1>5 DEF Wealth

(* What a success does to the sum of the accounts: the storage fee only    *)
(* moves, the transaction fee waits for the validator, the rest goes to    *)
(* and comes from the channels.                                            *)
LEMMA SuccessMoves ==
    ASSUME TypeOK, NEW tx \in Transactions, NEW fee \in StorageFees, Commit(tx, fee)
    PROVE  SumFunctionOnSet(balance', Accounts)
             = SumFunctionOnSet(balance, Accounts) - TxFee + Credit(tx)
                 - (IF tx.code = "CHANNEL_UPDATE" THEN tx.amount ELSE 0)
<1> DEFINE from  == tx.sender
           to    == tx.recipient
           own   == Credit(tx) - TxFee - fee - Debit(tx)
           given == IF tx.code = "TRANSFER" THEN tx.amount ELSE 0
           b1 == [a \in Accounts |-> balance[a] + (IF a = from THEN own ELSE 0)]
           b2 == [a \in Accounts |-> b1[a] + (IF a = to THEN given ELSE 0)]
           total == SumFunctionOnSet(balance, Accounts)
<1>1. /\ HandlerAccepts(tx)
      /\ balance' = BalanceAfter(tx, fee)
  BY DEF Commit, Succeeds
<1>2. /\ from \in Accounts /\ to \in Accounts /\ Storage \in Accounts
      /\ fee \in Int /\ TxFee \in Int /\ tx.amount \in Int
      /\ Credit(tx) \in Int /\ Debit(tx) \in Int
  BY <1>1, TxFields, EffectTypes, LedgerAssumption DEF LedgerAssumption, Accounts, TxFee
<1>3. own \in Int /\ given \in Int
  BY <1>2
<1>4. /\ \A a \in Accounts : b1[a] = balance[a] + (IF a = from THEN own ELSE 0)
      /\ \A a \in Accounts : b2[a] = b1[a] + (IF a = to THEN given ELSE 0)
      /\ \A a \in Accounts : balance'[a] = b2[a] + (IF a = Storage THEN fee ELSE 0)
  BY <1>1 DEF BalanceAfter
<1>5. given - Debit(tx) = - (IF tx.code = "CHANNEL_UPDATE" THEN tx.amount ELSE 0)
  BY <1>2 DEF Debit
<1> HIDE DEF b1, b2
<1>6. /\ \A a \in Accounts : balance[a] \in Int
      /\ \A a \in Accounts : b1[a] \in Int
      /\ \A a \in Accounts : b2[a] \in Int
      /\ IsFiniteSet(Accounts) /\ total \in Int
  <2>1. IsFiniteSet(Accounts) /\ total \in Int /\ \A a \in Accounts : balance[a] \in Int
    BY Countable
  <2>2. \A a \in Accounts : b1[a] \in Int
    BY <2>1, <1>3, <1>4
  <2>3. \A a \in Accounts : b2[a] \in Int
    BY <2>2, <1>3, <1>4
  <2> QED
    BY <2>1, <2>2, <2>3
<1> HIDE DEF own, given, from, to
<1>7. SumFunctionOnSet(b1, Accounts) = total + own
  BY <1>2, <1>3, <1>4, <1>6, SumGain
<1>8. SumFunctionOnSet(b2, Accounts) = SumFunctionOnSet(b1, Accounts) + given
  BY <1>2, <1>3, <1>4, <1>6, SumGain
<1>9. SumFunctionOnSet(balance', Accounts) = SumFunctionOnSet(b2, Accounts) + fee
  BY <1>2, <1>3, <1>4, <1>6, SumGain
<1>10. SumFunctionOnSet(balance', Accounts) = total + own + given + fee
  BY <1>7, <1>8, <1>9
<1>11. own = Credit(tx) - TxFee - fee - Debit(tx)
  BY DEF own
<1> HIDE DEF total
<1>12. SumFunctionOnSet(balance', Accounts) = total - TxFee + Credit(tx) + (given - Debit(tx))
  BY <1>2, <1>3, <1>6, <1>10, <1>11
<1> QED
  BY <1>2, <1>5, <1>6, <1>12 DEF total, given

(* What an operation on one channel does to the sum of the channels. *)
LEMMA ChannelMoves ==
    ASSUME TypeOK, NEW pair \in Channels,
           channel' = [channel EXCEPT ![pair] = channel'[pair]],
           channel'[pair] \in ChannelState
    PROVE  SumFunctionOnSet(Escrowed(channel'), Channels)
             = SumFunctionOnSet(Escrowed(channel), Channels)
                 + (channel'[pair].balance - channel[pair].balance)
<1> DEFINE f == Escrowed(channel)
           g == Escrowed(channel')
<1>1. /\ \A p \in Channels : f[p] \in Int
      /\ IsFiniteSet(Channels)
  BY Countable
<1>2. /\ f[pair] = channel[pair].balance
      /\ g[pair] = channel'[pair].balance
      /\ g[pair] \in Int
      /\ \A p \in Channels \ {pair} : g[p] = f[p]
  BY DEF Escrowed, ChannelState, TypeOK
<1> HIDE DEF f, g
<1>3. SumFunctionOnSet(g, Channels) = SumFunctionOnSet(f, Channels) + (g[pair] - f[pair])
  BY <1>1, <1>2, SumChange
<1> QED
  BY <1>2, <1>3 DEF f, g
(* A success creates and destroys nothing: what the sender of a TRANSFER   *)
(* loses its recipient gains, and a channel operation moves coins between  *)
(* the channel and its party.                                              *)
LEMMA SuccessConserves ==
    ASSUME TypeOK, NEW tx \in Transactions, NEW fee \in StorageFees,
           Commit(tx, fee),
           \/ Transfer(tx, fee) \/ Touch(tx, fee) \/ ChannelUpdate(tx, fee)
           \/ ChannelWithdraw(tx, fee) \/ ChannelClose(tx, fee)
    PROVE  Books(balance', channel', feesPaid', minted') = Books(balance, channel, feesPaid, minted)
<1> DEFINE accs == SumFunctionOnSet(balance, Accounts)
           chans == SumFunctionOnSet(Escrowed(channel), Channels)
           accs2 == SumFunctionOnSet(balance', Accounts)
           chans2 == SumFunctionOnSet(Escrowed(channel'), Channels)
           topUp == IF tx.code = "CHANNEL_UPDATE" THEN tx.amount ELSE 0
<1>1. /\ accs \in Int /\ chans \in Int /\ feesPaid \in Int /\ minted \in Int
      /\ tx.amount \in Int /\ Credit(tx) \in Int
  BY Countable, TxFields, EffectTypes DEF Commit, Succeeds, TypeOK
<1>2. accs2 = accs - TxFee + Credit(tx) - topUp
  BY SuccessMoves
<1>3. feesPaid' = feesPaid + TxFee /\ minted' = minted
  BY DEF Commit
<1>4. chans2 = chans + topUp - Credit(tx)
  <2>1. CASE Transfer(tx, fee) \/ Touch(tx, fee)
    <3>1. channel' = channel /\ topUp = 0 /\ Credit(tx) = 0
      BY <2>1 DEF Transfer, Touch, Credit
    <3>2. chans2 = chans
      BY <3>1
    <3> HIDE DEF chans, chans2, topUp
    <3> QED
      BY <3>1, <3>2, <1>1
  <2>2. CASE ChannelUpdate(tx, fee)
    <3> DEFINE pair == <<tx.sender, tx.counterparty>>
    <3>1. /\ pair \in Channels
          /\ channel' = [channel EXCEPT ![pair] = channel'[pair]]
          /\ channel'[pair] \in ChannelState
          /\ channel'[pair].balance = channel[pair].balance + tx.amount
      BY <2>2, UpdatedChannel
    <3>2. topUp = tx.amount /\ Credit(tx) = 0
      BY <2>2 DEF ChannelUpdate, Credit
    <3>3. channel[pair].balance \in Int
      BY <3>1 DEF TypeOK, ChannelState
    <3>4. chans2 = chans + (channel'[pair].balance - channel[pair].balance)
      BY <3>1, ChannelMoves
    <3> HIDE DEF chans, chans2, topUp, pair
    <3> QED
      BY <3>1, <3>2, <3>3, <3>4, <1>1
  <2>3. CASE ChannelWithdraw(tx, fee)
    <3> DEFINE pair == <<tx.recipient, tx.sender>>
    <3>1. /\ pair \in Channels
          /\ channel' = [channel EXCEPT ![pair] = channel'[pair]]
          /\ channel'[pair] \in ChannelState
          /\ channel'[pair].balance = channel[pair].balance - tx.voucher.amount
      BY <2>3, WithdrawnChannel
    <3>2. topUp = 0 /\ Credit(tx) = tx.voucher.amount
      BY <2>3 DEF ChannelWithdraw, Credit
    <3>3. channel[pair].balance \in Int
      BY <3>1 DEF TypeOK, ChannelState
    <3>4. chans2 = chans + (channel'[pair].balance - channel[pair].balance)
      BY <3>1, ChannelMoves
    <3> HIDE DEF chans, chans2, topUp, pair
    <3> QED
      BY <3>1, <3>2, <3>3, <3>4, <1>1
  <2>4. CASE ChannelClose(tx, fee)
    <3> DEFINE pair == <<tx.sender, tx.counterparty>>
    <3>1. /\ pair \in Channels
          /\ channel' = [channel EXCEPT ![pair] = channel'[pair]]
          /\ channel'[pair] \in ChannelState
          /\ channel'[pair].balance = 0
      BY <2>4, ClosedChannel
    <3>2. topUp = 0 /\ Credit(tx) = channel[pair].balance
      BY <2>4 DEF ChannelClose, Credit
    <3>3. channel[pair].balance \in Int
      BY <3>1 DEF TypeOK, ChannelState
    <3>4. chans2 = chans + (channel'[pair].balance - channel[pair].balance)
      BY <3>1, ChannelMoves
    <3> HIDE DEF chans, chans2, topUp, pair
    <3> QED
      BY <3>1, <3>2, <3>3, <3>4, <1>1
  <2> QED
    BY <2>1, <2>2, <2>3, <2>4
<1>5. topUp \in Int
  BY <1>1
<1> HIDE DEF accs, chans, accs2, chans2, topUp
<1>6. (accs2 + chans2) + feesPaid' - minted' = (accs + chans) + feesPaid - minted
  BY <1>1, <1>2, <1>3, <1>4, <1>5 DEF TxFee
<1> QED
  BY <1>6 DEF Books, Wealth, accs, chans, accs2, chans2

(* A failure moves part of its sender's coins to the storage account and   *)
(* to the fees that wait for the validator.                                *)
LEMMA FailureConserves ==
    ASSUME Inv, NEW tx \in Transactions, NEW fee \in StorageFees, NEW resolved \in BOOLEAN,
           Fail(tx, fee, resolved)
    PROVE  Books(balance', channel', feesPaid', minted') = Books(balance, channel, feesPaid, minted)
<1> DEFINE payer == tx.sender
           paid  == FailedFees(tx, fee)
           lost  == 0 - Total(paid)
           kept  == paid.storage
           b1    == [a \in Accounts |-> balance[a] + (IF a = payer THEN lost ELSE 0)]
<1>1. /\ payer \in Accounts /\ Storage \in Accounts /\ payer # Storage
      /\ fee \in Nat /\ balance[payer] \in Nat /\ balance \in [Accounts -> Nat]
  BY TxFields, LedgerAssumption DEF LedgerAssumption, Accounts, Inv, TypeOK
<1>2. balance[payer] >= TxFee
  BY <1>1 DEF Fail, Raises, TxFee
<1>3. /\ paid.transaction = TxFee
      /\ kept \in 0 .. fee
      /\ Total(paid) = TxFee + kept
  BY <1>1, <1>2, FailedFeesPaid DEF FailedFees
<1>4. /\ balance' = [balance EXCEPT ![payer] = @ - Total(paid), ![Storage] = @ + kept]
      /\ feesPaid' = feesPaid + TxFee
      /\ channel' = channel /\ minted' = minted
  BY <1>3 DEF Fail
<1>5. TxFee = 1 /\ kept \in Int /\ lost \in Int /\ lost = 0 - (TxFee + kept)
  BY <1>1, <1>3 DEF TxFee
<1> HIDE DEF payer, paid, lost, kept
<1>6. /\ \A a \in Accounts : balance'[a] = b1[a] + (IF a = Storage THEN kept ELSE 0)
      /\ \A a \in Accounts : b1[a] = balance[a] + (IF a = payer THEN lost ELSE 0)
  <2> SUFFICES ASSUME NEW a \in Accounts
               PROVE  balance'[a] = b1[a] + (IF a = Storage THEN kept ELSE 0)
    OBVIOUS
  <2>1. balance[a] \in Int
    BY <1>1
  <2>2. CASE a = payer
    BY <1>1, <1>3, <1>4, <1>5, <2>1, <2>2
  <2>3. CASE a = Storage
    BY <1>1, <1>4, <1>5, <2>1, <2>3
  <2>4. CASE a # payer /\ a # Storage
    BY <1>4, <1>1, <2>1, <2>4
  <2> QED
    BY <2>2, <2>3, <2>4
<1>7. \A a \in Accounts : b1[a] \in Int
  BY <1>1, <1>5
<1> HIDE DEF b1
<1>8. /\ IsFiniteSet(Accounts)
      /\ \A a \in Accounts : balance[a] \in Int
      /\ SumFunctionOnSet(balance, Accounts) \in Int
      /\ SumFunctionOnSet(Escrowed(channel), Channels) \in Int
  BY Countable DEF Inv
<1>9. SumFunctionOnSet(b1, Accounts) = SumFunctionOnSet(balance, Accounts) + lost
  BY <1>1, <1>5, <1>6, <1>8, SumGain
<1>10. SumFunctionOnSet(balance', Accounts) = SumFunctionOnSet(b1, Accounts) + kept
  BY <1>1, <1>5, <1>6, <1>7, <1>8, SumGain
<1> DEFINE accs == SumFunctionOnSet(balance, Accounts)
           accs2 == SumFunctionOnSet(balance', Accounts)
           chans == SumFunctionOnSet(Escrowed(channel), Channels)
<1>11. feesPaid \in Int /\ minted \in Int /\ accs \in Int /\ chans \in Int
  BY <1>8 DEF Inv, TypeOK
<1>12. accs2 = (accs + lost) + kept
  BY <1>9, <1>10
<1> HIDE DEF accs, accs2, chans
<1>13. (accs2 + chans) + feesPaid' - minted' = (accs + chans) + feesPaid - minted
  BY <1>4, <1>5, <1>11, <1>12
<1> QED
  BY <1>4, <1>13 DEF Books, Wealth, accs, accs2, chans

(* The validator gets the fees that waited and the base reward, if any.    *)
LEMMA SealConserves ==
    ASSUME Inv, NEW validator \in Users, SealBlock(validator)
    PROVE  Books(balance', channel', feesPaid', minted') = Books(balance, channel, feesPaid, minted)
<1> DEFINE accs == SumFunctionOnSet(balance, Accounts)
           accs2 == SumFunctionOnSet(balance', Accounts)
           chans == SumFunctionOnSet(Escrowed(channel), Channels)
<1>1. /\ IsFiniteSet(Accounts)
      /\ \A a \in Accounts : balance[a] \in Int
      /\ accs \in Int /\ chans \in Int
  BY Countable DEF Inv
<1>2. /\ validator \in Accounts /\ feesPaid \in Int /\ minted \in Int
      /\ Reward \in Int /\ balance \in [Accounts -> Nat]
  BY DEF Reward, Inv, TypeOK, Accounts
<1>3. \A a \in Accounts : balance'[a] = balance[a] + (IF a = validator THEN Reward ELSE 0)
  BY <1>2 DEF SealBlock
<1> DEFINE reward == Reward
<1> HIDE DEF reward
<1>4. accs2 = accs + Reward
  <2>1. reward \in Int /\ \A a \in Accounts : balance'[a] = balance[a] + (IF a = validator THEN reward ELSE 0)
    BY <1>2, <1>3 DEF reward
  <2>2. accs2 = accs + reward
    BY <1>1, <1>2, <2>1, SumGain
  <2> QED
    BY <2>2 DEF reward
<1>5. feesPaid' = 0 /\ minted' = minted + (Reward - feesPaid) /\ channel' = channel
  BY DEF SealBlock
<1> HIDE DEF accs, accs2, chans
<1>6. (accs2 + chans) + feesPaid' - minted' = (accs + chans) + feesPaid - minted
  BY <1>1, <1>2, <1>4, <1>5
<1> QED
  BY <1>5, <1>6 DEF Books, Wealth, accs, accs2, chans

(* No step changes the books. *)
LEMMA StepConserves ==
    ASSUME Inv, [Next]_vars
    PROVE  Books(balance', channel', feesPaid', minted') = Books(balance, channel, feesPaid, minted)
<1>1. ASSUME NEW tx \in Transactions, NEW fee \in StorageFees, Apply(tx, fee)
      PROVE  Books(balance', channel', feesPaid', minted') = Books(balance, channel, feesPaid, minted)
  <2>1. CASE \E resolved \in BOOLEAN : Fail(tx, fee, resolved)
    BY <2>1, FailureConserves
  <2>2. CASE ~ \E resolved \in BOOLEAN : Fail(tx, fee, resolved)
    <3>1. \/ Transfer(tx, fee) \/ Touch(tx, fee) \/ ChannelUpdate(tx, fee)
          \/ ChannelWithdraw(tx, fee) \/ ChannelClose(tx, fee)
      BY <1>1, <2>2 DEF Apply
    <3>2. Commit(tx, fee)
      BY <3>1 DEF Transfer, ChannelUpdate, ChannelWithdraw, ChannelClose, Touch
    <3> QED
      BY <3>1, <3>2, SuccessConserves DEF Inv
  <2> QED
    BY <2>1, <2>2
<1>2. CASE UNCHANGED vars
  BY <1>2 DEF vars, accounts, Books
<1> QED
  BY <1>1, <1>2, SealConserves DEF Next

(* The books of the genesis accounts never change: no sequence of          *)
(* successes, failures, partial fees, channel operations and rewards       *)
(* creates or destroys a coin but the base rewards.                        *)
THEOREM WealthConserved == Spec => []Conservation
<1> DEFINE start    == Wealth(InitialBalance, InitialChannel)
           Balanced == Books(balance, channel, feesPaid, minted) = start
<1>1. Init => Balanced
  <2> SUFFICES ASSUME Init PROVE Balanced
    OBVIOUS
  <2>1. Inv
    BY InitInv
  <2>2. start \in Int
    BY <2>1, Countable DEF Inv, Init
  <2> QED
    BY <2>2 DEF Init, Books
<1>2. Inv /\ Balanced /\ [Next]_vars => Balanced'
  BY StepConserves
<1>3. Inv /\ Balanced => Conservation
  <2> SUFFICES ASSUME Inv, Balanced PROVE Conservation
    OBVIOUS
  <2>1. Wealth(balance, channel) \in Int /\ feesPaid \in Int /\ minted \in Int
    BY Countable DEF Inv, TypeOK
  <2> QED
    BY <2>1 DEF Books, Conservation
<1> QED
  BY <1>1, <1>2, <1>3, SpecInv, PTL DEF Spec

-----------------------------------------------------------------------------
(* The channels implement the escrow.                                      *)

Held     == [p \in Channels |-> channel[p].balance]
Deadline == [p \in Channels |-> channel[p].window]

(* The ledger starts where the escrow starts. *)
LEMMA EscrowInit == Init => E!Init
  BY DEF Init, E!Init

(* A CHANNEL_UPDATE is a Fund step of the escrow. *)
LEMMA FundStep ==
    ASSUME Inv, NEW tx \in Transactions, NEW fee \in StorageFees, ChannelUpdate(tx, fee)
    PROVE  E!Next
<1> DEFINE pair == <<tx.sender, tx.counterparty>>
<1>1. /\ pair \in Channels
      /\ channel' = [channel EXCEPT ![pair] = channel'[pair]]
      /\ channel'[pair] \in ChannelState
      /\ channel'[pair].balance = channel[pair].balance + tx.amount
      /\ channel'[pair].window >= channel[pair].window
  BY UpdatedChannel DEF Inv
<1>2. tx.amount \in Nat /\ channel[pair] \in ChannelState
  BY <1>1, TxFields DEF Inv, TypeOK
<1>3. \A p \in Channels : p # pair => channel'[p] = channel[p]
  BY <1>1 DEF Inv, TypeOK
<1>4. /\ Held'[pair] = channel'[pair].balance /\ Held[pair] = channel[pair].balance
      /\ Deadline'[pair] = channel'[pair].window /\ Deadline[pair] = channel[pair].window
  BY <1>1 DEF Held, Deadline
<1>5. /\ Held' = [Held EXCEPT ![pair] = Held'[pair]]
      /\ Deadline' = [Deadline EXCEPT ![pair] = Deadline'[pair]]
  BY <1>1, <1>3 DEF Held, Deadline
<1>6. /\ Held'[pair] \in Nat /\ Held'[pair] >= Held[pair]
      /\ Deadline'[pair] \in Nat /\ Deadline'[pair] >= Deadline[pair]
  BY <1>1, <1>2, <1>4 DEF ChannelState
<1>7. time' = time /\ redeemed' = redeemed
  BY DEF ChannelUpdate, Commit
<1>8. E!Fund(pair)
  BY <1>5, <1>6, <1>7 DEF E!Fund, E!Raises, Held, Deadline
<1> QED
  BY <1>1, <1>8 DEF E!Next

(* A CHANNEL_WITHDRAW is a Redeem step of the escrow. *)
LEMMA RedeemStep ==
    ASSUME Inv, NEW tx \in Transactions, NEW fee \in StorageFees, ChannelWithdraw(tx, fee)
    PROVE  E!Next
<1> DEFINE pair == <<tx.recipient, tx.sender>>
           new  == <<pair, tx.voucher>>
<1>1. /\ pair \in Channels
      /\ new \in Signed
      /\ time < channel[pair].window
      /\ tx.voucher.amount <= channel[pair].balance
      /\ channel' = [channel EXCEPT ![pair] = channel'[pair]]
      /\ channel'[pair].balance = channel[pair].balance - tx.voucher.amount
      /\ channel'[pair].window = channel[pair].window
      /\ redeemed' = redeemed \cup {new}
  BY WithdrawnChannel DEF Inv
<1>2. \A r \in redeemed : r[1] = pair => r[2].counter < tx.voucher.counter
  BY WithdrawKeepsVouchers DEF Inv
<1>3. \A p \in Channels : p # pair => channel'[p] = channel[p]
  BY <1>1 DEF Inv, TypeOK
<1>4. Held' = [Held EXCEPT ![pair] = @ - tx.voucher.amount]
  BY <1>1, <1>3 DEF Held
<1>5. Deadline' = Deadline
  BY <1>1, <1>3 DEF Deadline
<1>6. Held[pair] = channel[pair].balance /\ Deadline[pair] = channel[pair].window
  BY <1>1 DEF Held, Deadline
<1>7. time' = time
  BY DEF ChannelWithdraw, Commit
<1>8. E!Redeem(new)
  BY <1>1, <1>2, <1>4, <1>5, <1>6, <1>7 DEF E!Redeem, Held, Deadline
<1> QED
  BY <1>1, <1>8 DEF E!Next

(* A CHANNEL_CLOSE is a Refund step of the escrow. *)
LEMMA RefundStep ==
    ASSUME Inv, NEW tx \in Transactions, NEW fee \in StorageFees, ChannelClose(tx, fee)
    PROVE  E!Next
<1> DEFINE pair == <<tx.sender, tx.counterparty>>
<1>1. /\ pair \in Channels
      /\ channel[pair].window < time
      /\ channel' = [channel EXCEPT ![pair] = channel'[pair]]
      /\ channel'[pair].balance = 0
      /\ channel'[pair].window = channel[pair].window
  BY ClosedChannel DEF Inv
<1>2. \A p \in Channels : p # pair => channel'[p] = channel[p]
  BY <1>1 DEF Inv, TypeOK
<1>3. Held' = [Held EXCEPT ![pair] = 0]
  BY <1>1, <1>2 DEF Held
<1>4. Deadline' = Deadline
  BY <1>1, <1>2 DEF Deadline
<1>5. Deadline[pair] = channel[pair].window
  BY <1>1 DEF Deadline
<1>6. time' = time /\ redeemed' = redeemed
  BY DEF ChannelClose, Commit
<1>7. E!Refund(pair)
  BY <1>1, <1>3, <1>4, <1>5, <1>6 DEF E!Refund, Held, Deadline
<1> QED
  BY <1>1, <1>7 DEF E!Next

(* The block that seals moves the time both parties see. *)
LEMMA TickStep ==
    ASSUME Inv, NEW validator \in Users, SealBlock(validator)
    PROVE  E!Next
<1>1. time' \in Nat /\ time' > time
  BY LedgerAssumption DEF LedgerAssumption, SealBlock, Inv, TypeOK
<1>2. channel' = channel /\ redeemed' = redeemed
  BY DEF SealBlock, history
<1>3. E!Tick
  BY <1>1, <1>2 DEF E!Tick
<1> QED
  BY <1>3 DEF E!Next

(* Every step of the ledger is a step of the escrow or leaves it alone. *)
LEMMA EscrowStep == Inv /\ [Next]_vars => [E!Next]_(E!vars)
<1> SUFFICES ASSUME Inv, [Next]_vars PROVE [E!Next]_(E!vars)
  OBVIOUS
<1>1. ASSUME channel' = channel, time' = time, redeemed' = redeemed
      PROVE  UNCHANGED E!vars
  BY <1>1 DEF E!vars
<1>2. ASSUME NEW tx \in Transactions, NEW fee \in StorageFees, Apply(tx, fee)
      PROVE  [E!Next]_(E!vars)
  <2>1. CASE Transfer(tx, fee) \/ Touch(tx, fee)
    BY <1>1, <2>1 DEF Transfer, Touch, Commit
  <2>2. CASE \E resolved \in BOOLEAN : Fail(tx, fee, resolved)
    BY <1>1, <2>2 DEF Fail, history
  <2>3. CASE ChannelUpdate(tx, fee)
    BY <2>3, FundStep
  <2>4. CASE ChannelWithdraw(tx, fee)
    BY <2>4, RedeemStep
  <2>5. CASE ChannelClose(tx, fee)
    BY <2>5, RefundStep
  <2> QED
    BY <1>2, <2>1, <2>2, <2>3, <2>4, <2>5 DEF Apply
<1>3. CASE UNCHANGED vars
  BY <1>1, <1>3 DEF vars, accounts, history
<1> QED
  BY <1>2, <1>3, TickStep DEF Next

(* Every behaviour of the ledger, seen through its channels, is one of the *)
(* escrow of module Escrow.                                                *)
THEOREM ChannelsImplementEscrow == Spec => ImplementsEscrow
  BY EscrowInit, EscrowStep, SpecInv, PTL DEF Spec, ImplementsEscrow, E!Spec
=============================================================================
