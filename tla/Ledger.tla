------------------------------- MODULE Ledger -------------------------------
(***************************************************************************)
(* The account ledger of one chain: top-level transactions applied to the  *)
(* accounts of the block being built (transaction/apply.py), with the      *)
(* value-moving codes TRANSFER, CHANNEL_UPDATE, CHANNEL_WITHDRAW and       *)
(* CHANNEL_CLOSE, the codes that only touch an account, fee settlement,    *)
(* rollback of failed transactions, and the sealing of a block that pays   *)
(* its validator.  The treasury codes have a module of their own.          *)
(*                                                                         *)
(* Anyone may submit any transaction of Transactions at any time and as    *)
(* often as it likes: a mempool does not remember what was applied, so the *)
(* counters are the only protection against a replay.                      *)
(***************************************************************************)
EXTENDS Fees, FiniteSets, Functions

CONSTANTS Users,          \* addresses of the users
          Storage,        \* the address of the storage account
          Channels,       \* the <<payer, payee>> pairs that have a channel
          Transactions,   \* what users may submit
          Signed,         \* the vouchers the payers have signed
          StorageFees,    \* what the storage of a transaction may cost
          InitialLive,    \* the accounts the first block finds
          InitialBalance, \* their balances
          InitialChannel, \* the channels' first state
          MaxTime         \* bound: the last block timestamp explored

VARIABLES balance,        \* address -> coins
          live,           \* the addresses that have an account
          counter,        \* address -> the counter its next transaction needs
          channel,        \* <<payer, payee>> -> [balance, counter, window]
          time,           \* previous_block.timestamp
          feesPaid,       \* transaction fees in the receipts of this block
          minted,         \* history: base rewards created so far
          succeeded,      \* history: transactions with a STATUS_SUCCESS receipt
          redeemed        \* history: vouchers withdrawn, as <<pair, voucher>>

accounts == <<balance, live, counter, channel>>
history  == <<succeeded, redeemed>>
vars     == <<accounts, time, feesPaid, minted, history>>

Accounts == Users \cup {Storage}

KeepWindow   == -1                     \* CHANNEL_UPDATE without a window
ChannelState == [balance: Nat, counter: Nat, window: Nat]
Voucher      == [counter: Nat, amount: Nat]

TransferTx == [code: {"TRANSFER"}, sender: Users, recipient: Accounts,
               counter: Nat, amount: Nat]
UpdateTx   == [code: {"CHANNEL_UPDATE"}, sender: Users, recipient: Users,
               counter: Nat, amount: Nat, counterparty: Users,
               window: Nat \cup {KeepWindow}, wellFormed: BOOLEAN]
WithdrawTx == [code: {"CHANNEL_WITHDRAW"}, sender: Users, recipient: Users,
               counter: Nat, amount: Nat, voucher: Voucher]
CloseTx    == [code: {"CHANNEL_CLOSE"}, sender: Users, recipient: Users,
               counter: Nat, amount: Nat, counterparty: Users]
RemoveTx   == [code: {"STORAGE_REMOVE"}, sender: Users, recipient: Accounts,
               counter: Nat, amount: Nat]
Tx == TransferTx \cup UpdateTx \cup WithdrawTx \cup CloseTx \cup RemoveTx

ASSUME LedgerAssumption ==
    /\ Storage \notin Users
    /\ IsFiniteSet(Users)
    /\ Channels \subseteq Users \X Users
    /\ Transactions \subseteq Tx
    /\ Signed \subseteq Channels \X Voucher
    /\ StorageFees \subseteq Nat
    /\ InitialLive \subseteq Accounts
    /\ Storage \in InitialLive
    /\ InitialBalance \in [Accounts -> Nat]
    /\ \A a \in Accounts \ InitialLive : InitialBalance[a] = 0
    /\ InitialChannel \in [Channels -> ChannelState]
    /\ MaxTime \in Nat

Init == /\ balance = InitialBalance
        /\ live = InitialLive
        /\ counter = [a \in Accounts |-> 0]
        /\ channel = InitialChannel
        /\ time = 0
        /\ feesPaid = 0
        /\ minted = 0
        /\ succeeded = {}
        /\ redeemed = {}

-----------------------------------------------------------------------------
(* The two guards at the head of _apply_tx_effects that fail a transaction *)
(* before its handler runs.                                                *)

(* Faulty: an old counter passes as well. *)
MatchedOrPast(tx) == tx.counter <= counter[tx.sender]

(* counter_matched: the transaction is the sender's next one. *)
Matched(tx) == tx.counter = counter[tx.sender]

(* transfer_amount as the head of the function computes it. *)
PreTransfer(tx) == IF tx.code = "CHANNEL_WITHDRAW" THEN 0 ELSE tx.amount

(* The pre-match affordability guard. *)
Covered(tx) == balance[tx.sender] >= TxFee + PreTransfer(tx)

-----------------------------------------------------------------------------
(* The handlers: when each accepts a transaction.                          *)

NewWindow(tx, ch) == IF tx.window = KeepWindow THEN ch.window ELSE tx.window

UpdateAccepts(tx) ==
    LET pair == <<tx.sender, tx.counterparty>>
    IN  /\ tx.recipient = tx.sender
        /\ pair \in Channels
        /\ NewWindow(tx, channel[pair]) >= channel[pair].window

(* Faulty: a voucher of the channel's own counter is accepted. *)
WithdrawAcceptsOldCounter(tx) ==
    LET pair == <<tx.recipient, tx.sender>>
    IN  /\ tx.recipient \in live
        /\ pair \in Channels
        /\ <<pair, tx.voucher>> \in Signed
        /\ time < channel[pair].window
        /\ tx.voucher.counter >= channel[pair].counter
        /\ tx.voucher.amount <= channel[pair].balance

WithdrawAccepts(tx) ==
    LET pair == <<tx.recipient, tx.sender>>
    IN  /\ tx.recipient \in live
        /\ pair \in Channels
        /\ <<pair, tx.voucher>> \in Signed
        /\ time < channel[pair].window
        /\ tx.voucher.counter > channel[pair].counter
        /\ tx.voucher.amount <= channel[pair].balance

(* Faulty: the payer need not wait for the window to end. *)
CloseAcceptsInWindow(tx) ==
    LET pair == <<tx.sender, tx.counterparty>>
    IN  /\ tx.recipient = tx.sender
        /\ pair \in Channels

CloseAccepts(tx) ==
    LET pair == <<tx.sender, tx.counterparty>>
    IN  /\ tx.recipient = tx.sender
        /\ pair \in Channels
        /\ channel[pair].window < time

HandlerAccepts(tx) ==
    CASE tx.code = "CHANNEL_UPDATE"   -> UpdateAccepts(tx)
      [] tx.code = "CHANNEL_WITHDRAW" -> WithdrawAccepts(tx)
      [] tx.code = "CHANNEL_CLOSE"    -> CloseAccepts(tx)
      [] OTHER                        -> TRUE

(* What the handler adds to the sender's balance. *)
Credit(tx) ==
    CASE tx.code = "CHANNEL_WITHDRAW" -> tx.voucher.amount
      [] tx.code = "CHANNEL_CLOSE"    -> channel[<<tx.sender, tx.counterparty>>].balance
      [] OTHER                        -> 0

(* What the settlement of a success takes from the sender besides fees. *)
Debit(tx) == IF tx.code \in {"TRANSFER", "CHANNEL_UPDATE"} THEN tx.amount ELSE 0

(* A TRANSFER credits its recipient before the last affordability check. *)
SelfCredit(tx) == IF tx.code = "TRANSFER" /\ tx.recipient = tx.sender THEN tx.amount ELSE 0

-----------------------------------------------------------------------------
(* Applying a transaction.                                                 *)

(***************************************************************************)
(* _apply_tx_effects raises, and leaves no trace in the block, when the    *)
(* sender has no account or not even the base fee, and when a              *)
(* CHANNEL_UPDATE reaches its handler with malformed data (the flag the    *)
(* result is read from was never assigned).                                *)
(***************************************************************************)
Raises(tx) ==
    \/ tx.sender \notin live
    \/ balance[tx.sender] < TxFee
    \/ /\ tx.code = "CHANNEL_UPDATE"
       /\ tx.recipient = tx.sender
       /\ Matched(tx) /\ Covered(tx)
       /\ ~tx.wellFormed

(* The final status is STATUS_SUCCESS: every guard, early and late, holds. *)
Succeeds(tx, storageFee) ==
    /\ Matched(tx)
    /\ Covered(tx)
    /\ HandlerAccepts(tx)
    /\ balance[tx.sender] + Credit(tx) + SelfCredit(tx)
         >= TxFee + storageFee + Debit(tx)

(* Faulty: the transfer is credited and never debited. *)
BalanceAfterNoDebit(tx, storageFee) ==
    [a \in Accounts |-> balance[a]
        + (IF a = tx.sender THEN Credit(tx) - TxFee - storageFee ELSE 0)
        + (IF a = tx.recipient /\ tx.code = "TRANSFER" THEN tx.amount ELSE 0)
        + (IF a = Storage THEN storageFee ELSE 0)]

(* The balances a successful transaction leaves. *)
BalanceAfter(tx, storageFee) ==
    [a \in Accounts |-> balance[a]
        + (IF a = tx.sender THEN Credit(tx) - TxFee - storageFee - Debit(tx) ELSE 0)
        + (IF a = tx.recipient /\ tx.code = "TRANSFER" THEN tx.amount ELSE 0)
        + (IF a = Storage THEN storageFee ELSE 0)]

(* The writes every successful transaction ends with. *)
Commit(tx, storageFee) ==
    /\ ~Raises(tx)
    /\ Succeeds(tx, storageFee)
    /\ balance' = BalanceAfter(tx, storageFee)
    /\ counter' = [counter EXCEPT ![tx.sender] = @ + 1]
    /\ feesPaid' = feesPaid + TxFee
    /\ succeeded' = succeeded \cup {tx}
    /\ UNCHANGED <<time, minted>>

Transfer(tx, storageFee) ==
    /\ tx.code = "TRANSFER"
    /\ Commit(tx, storageFee)
    /\ live' = live \cup {tx.recipient}
    /\ UNCHANGED <<channel, redeemed>>

(* handle_channel_update: the payer tops its channel up or moves its       *)
(* window.  The channel's counter moves, so older vouchers die.            *)
ChannelUpdate(tx, storageFee) ==
    LET pair == <<tx.sender, tx.counterparty>>
    IN  /\ tx.code = "CHANNEL_UPDATE"
        /\ Commit(tx, storageFee)
        /\ channel' = [channel EXCEPT ![pair] =
                          [balance |-> @.balance + tx.amount,
                           counter |-> @.counter + 1,
                           window  |-> NewWindow(tx, @)]]
        /\ UNCHANGED <<live, redeemed>>

(* handle_channel_withdraw: the payee redeems a voucher. *)
ChannelWithdraw(tx, storageFee) ==
    LET pair == <<tx.recipient, tx.sender>>
    IN  /\ tx.code = "CHANNEL_WITHDRAW"
        /\ Commit(tx, storageFee)
        /\ channel' = [channel EXCEPT ![pair] =
                          [balance |-> @.balance - tx.voucher.amount,
                           counter |-> tx.voucher.counter,
                           window  |-> @.window]]
        /\ redeemed' = redeemed \cup {<<pair, tx.voucher>>}
        /\ UNCHANGED live

(* handle_channel_close: the payer takes back what is left. *)
ChannelClose(tx, storageFee) ==
    LET pair == <<tx.sender, tx.counterparty>>
    IN  /\ tx.code = "CHANNEL_CLOSE"
        /\ Commit(tx, storageFee)
        /\ channel' = [channel EXCEPT ![pair] =
                          [balance |-> 0,
                           counter |-> @.counter + 1,
                           window  |-> @.window]]
        /\ UNCHANGED <<live, redeemed>>

(* The codes that move nothing but create the recipient's account. *)
Touch(tx, storageFee) ==
    /\ tx.code = "STORAGE_REMOVE"
    /\ Commit(tx, storageFee)
    /\ live' = live \cup {tx.recipient}
    /\ UNCHANGED <<channel, redeemed>>

(* Faulty: the fees of a failure are not clamped to the balance. *)
FailedFeesInFull(tx, storageFee) ==
    [transaction |-> TxFee, data |-> 0, storage |-> storageFee, transfer |-> 0]

(* The fees a failed transaction still pays. *)
FailedFees(tx, storageFee) == Settle(balance[tx.sender], TxFee, 0, storageFee, 0)

(* Faulty: a transaction with another counter spends the next one. *)
FailedCounterAlways(tx) == [counter EXCEPT ![tx.sender] = @ + 1]

(* The counter moves only if it matched, so nobody can spend a counter of  *)
(* somebody else's with junk.                                              *)
FailedCounter(tx) ==
    IF Matched(tx) THEN [counter EXCEPT ![tx.sender] = @ + 1] ELSE counter

(***************************************************************************)
(* A failed transaction: every handler write is rolled back; fees and      *)
(* counter stay.  `resolved` is FALSE when storage_walk_fee cannot resolve *)
(* an expression of the transaction, which fails it whatever it does.      *)
(***************************************************************************)
Fail(tx, storageFee, resolved) ==
    LET paid == FailedFees(tx, storageFee)
    IN  /\ ~Raises(tx)
        /\ ~(resolved /\ Succeeds(tx, storageFee))
        /\ balance' = [balance EXCEPT ![tx.sender] = @ - Total(paid),
                                      ![Storage] = @ + paid.storage]
        /\ counter' = FailedCounter(tx)
        /\ feesPaid' = feesPaid + paid.transaction
        /\ UNCHANGED <<live, channel, time, minted, history>>

(* validator_reward: the block's transaction fees, at least 1. *)
Reward == IF feesPaid < 1 THEN 1 ELSE feesPaid

(* The block is sealed and becomes previous_block of the next one, which   *)
(* is at least one slot later.                                             *)
SealBlock(validator) ==
    /\ balance' = [balance EXCEPT ![validator] = @ + Reward]
    /\ live' = live \cup {validator}
    /\ minted' = minted + (Reward - feesPaid)
    /\ feesPaid' = 0
    /\ time' \in (time + 1) .. MaxTime
    /\ UNCHANGED <<counter, channel, history>>

Apply(tx, storageFee) ==
    \/ Transfer(tx, storageFee)
    \/ ChannelUpdate(tx, storageFee)
    \/ ChannelWithdraw(tx, storageFee)
    \/ ChannelClose(tx, storageFee)
    \/ Touch(tx, storageFee)
    \/ \E resolved \in BOOLEAN : Fail(tx, storageFee, resolved)

Next == \/ \E tx \in Transactions, storageFee \in StorageFees : Apply(tx, storageFee)
        \/ \E validator \in Users : SealBlock(validator)

Spec == Init /\ [][Next]_vars
-----------------------------------------------------------------------------
(* Properties.                                                             *)

(* Every balance, account or escrowed, stays a natural number: the         *)
(* deductions at the end of _apply_tx_effects and the handlers' debits     *)
(* carry no guard of their own.                                            *)
TypeOK == /\ balance \in [Accounts -> Nat]
          /\ live \subseteq Accounts
          /\ counter \in [Accounts -> Nat]
          /\ channel \in [Channels -> ChannelState]
          /\ time \in Nat
          /\ feesPaid \in Nat
          /\ minted \in Nat
          /\ succeeded \subseteq Transactions
          /\ redeemed \subseteq Signed

Escrowed(chan) == [p \in Channels |-> chan[p].balance]

Wealth(bal, chan) == SumFunctionOnSet(bal, Accounts) + SumFunctionOnSet(Escrowed(chan), Channels)

(* No operation creates or destroys coins: accounts, channels and the fees *)
(* waiting for the validator add up to the initial wealth and the base     *)
(* rewards, whatever failed, was rolled back or was paid in part.          *)
Conservation ==
    Wealth(balance, channel) + feesPaid
      = Wealth(InitialBalance, InitialChannel) + minted

(* At most one transaction per sender and counter ever succeeds, and it is *)
(* behind the sender's counter: test_counter_enforcement over every order  *)
(* and repetition of submissions.                                          *)
NoReplay ==
    /\ \A tx \in succeeded : tx.counter < counter[tx.sender]
    /\ \A t1, t2 \in succeeded :
          t1.sender = t2.sender /\ t1.counter = t2.counter => t1 = t2

(* A step inside a block that gives no transaction its first success       *)
(* (a failure, or a transaction that succeeded before and is submitted     *)
(* again) changes no channel and no account but its payer's, which loses,  *)
(* and the storage account, which gains no more than that.                 *)
OnlyPayerLoses ==
    succeeded' = succeeded /\ time' = time =>
        /\ channel' = channel
        /\ live' = live
        /\ \E payer \in Users :
              /\ balance'[payer] < balance[payer]
              /\ balance'[Storage] >= balance[Storage]
              /\ balance[payer] - balance'[payer]
                   = (balance'[Storage] - balance[Storage]) + (feesPaid' - feesPaid)
              /\ \A a \in Users \ {payer} : balance'[a] = balance[a]

OnlySuccessActs == [][OnlyPayerLoses]_vars

(* Only the sender's own next transaction moves its counter: junk that     *)
(* carries another counter pays fees and leaves the transactions the       *)
(* sender signed valid (comment at apply.py:126-130).                      *)
SendersNext ==
    \A u \in Users : counter'[u] # counter[u] =>
        /\ counter'[u] = counter[u] + 1
        /\ \E tx \in Transactions : tx.sender = u /\ tx.counter = counter[u]

CounterMovesInOrder == [][SendersNext]_vars

(* Of all the vouchers a payer signs under one channel counter at most one *)
(* is ever paid, and none once the channel has moved past its counter.     *)
VoucherOnce ==
    /\ \A r \in redeemed : r[2].counter <= channel[r[1]].counter
    /\ \A r1, r2 \in redeemed :
          r1[1] = r2[1] /\ r1[2].counter = r2[2].counter => r1 = r2

(* The channels implement the escrow: coins leave a channel to the payee   *)
(* before the window, against a signed voucher newer than every one paid,  *)
(* or, all of them, to the payer after it; no sequence of top-ups, closes, *)
(* failures and replays does anything else.                                *)
E == INSTANCE Escrow WITH
        held            <- [p \in Channels |-> channel[p].balance],
        deadline        <- [p \in Channels |-> channel[p].window],
        now             <- time,
        paid            <- redeemed,
        InitialHeld     <- [p \in Channels |-> InitialChannel[p].balance],
        InitialDeadline <- [p \in Channels |-> InitialChannel[p].window]

ImplementsEscrow == E!Spec
=============================================================================
