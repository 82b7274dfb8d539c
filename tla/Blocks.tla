-------------------------------- MODULE Blocks --------------------------------
(***************************************************************************)
(* How a block is built and how it is verified.  The validation worker     *)
(* (validation/worker.py) draws the validator, puts the parent's record in *)
(* the storage trie, opens the era's bloom tree, applies the transactions  *)
(* of its queue, and writes totals, statistics, reward and roots into the  *)
(* header; block/verify/transactions.py replays the block from its parent  *)
(* and compares.  The two are separate code and must agree on everything a *)
(* header commits to, whatever the queue held.                             *)
(*                                                                         *)
(* Both read tries that may be on other nodes.  A cell that does not       *)
(* arrive reads as an account, a record or a tree node that does not       *)
(* exist.  Here the builder may lack something, and the verifier reads     *)
(* everything.                                                             *)
(*                                                                         *)
(* A hash is the value it commits to.  Of the transaction codes TRANSFER   *)
(* and TREASURY_DEPOSIT stand for those that move coins and those that     *)
(* change what the next draw reads; nobody has a loan.                     *)
(***************************************************************************)
EXTENDS Fees, BloomTree, Sequences, SequencesExt, FiniteSets, FiniteSetsExt, Functions

CONSTANTS Addresses,    \* the accounts there may be, Treasury and Storage included
          Treasury, Storage,
          Place,         \* address -> its place in the order of the keys
          Roll(_, _),   \* the numbers the generator seeded by a block gives
          Genesis,      \* the accounts, stakes and records of block 0
          Transactions, \* what may be submitted
          Size,         \* bytes of "transaction" (with receipt) and "account"
          Copies,       \* PROVIDERS_PER_RECORD
          Slot,         \* SLOT_DURATION_SECONDS
          MaxHeight,    \* bound: the last height explored
          MaxSlots,     \* bound: the slots between two blocks
          MaxQueue,     \* bound: the transactions waiting
          MaxEvents     \* bound: submissions, skipped slots and failed reads

VARIABLES chain,        \* the blocks, block h at chain[h + 1]
          queue,        \* _validation_transaction_queue
          build,        \* the block being built, or Idle
          events        \* how much of MaxEvents is spent

vars == <<chain, queue, build, events>>

Account == [balance: Nat, counter: Nat]
NewAccount == [balance |-> 0, counter |-> 0]

(* The state a header names by accounts_hash: the accounts, the stake trie *)
(* of the treasury and the blocks that have a record in the storage trie.  *)
IsWorld(w) ==
    /\ w = [account |-> w.account, stake |-> w.stake, record |-> w.record]
    /\ DOMAIN w.account \cup DOMAIN w.stake \subseteq Addresses
    /\ w.account \in [DOMAIN w.account -> Account]
    /\ w.stake \in [DOMAIN w.stake -> Nat \ {0}]
    /\ w.record \subseteq Nat

Tx == [code: {"TRANSFER"}, sender: Addresses, recipient: Addresses,
       counter: Nat, amount: Nat]
      \cup [code: {"TREASURY_DEPOSIT"}, sender: Addresses, recipient: {Treasury},
            counter: Nat, amount: Nat]

(* What the stakes add up to. *)
Staked(world) == SumFunction(world.stake)

(* Genesis is as create_genesis_block makes it, with more accounts; nobody *)
(* has the keys of the treasury.                                           *)
ASSUME BlocksAssumption ==
    /\ IsFiniteSet(Addresses)
    /\ {Treasury, Storage} \subseteq Addresses
    /\ Treasury # Storage
    /\ Place \in [Addresses -> Nat]
    /\ \A a, b \in Addresses : Place[a] = Place[b] => a = b
    /\ \A h \in 0..MaxHeight, i \in 1..MaxSlots : Roll(h, i) \in Nat
    /\ IsWorld(Genesis)
    /\ {Treasury, Storage} \subseteq DOMAIN Genesis.account
    /\ DOMAIN Genesis.stake # {}
    /\ Treasury \notin DOMAIN Genesis.stake
    /\ Genesis.account[Treasury].balance >= Staked(Genesis)
    /\ Genesis.record = {}
    /\ Transactions \subseteq Tx
    /\ \A tx \in Transactions : /\ tx.sender # tx.recipient /\ tx.recipient # Storage
                                 /\ tx.sender # Treasury
    /\ Size \in [{"transaction", "account"} -> Nat]
    /\ {Copies, Slot, MaxSlots} \subseteq Nat \ {0}
    /\ {MaxHeight, MaxQueue, MaxEvents} \subseteq Nat

-----------------------------------------------------------------------------
(* Statistics (block/rate_window.py): entry 1 is the total since genesis,  *)
(* entry i + 2 the window of 2^i blocks, with the one completed before it. *)

Window(prevFee, prevStake, fee, stake) ==
    [prevFee |-> prevFee, prevStake |-> prevStake, fee |-> fee, stake |-> stake]

WindowSize[i \in Nat] == IF i = 0 THEN 1 ELSE 2 * WindowSize[i - 1]

(* bit_length *)
WindowsAt(h) == CHOOSE n \in 0..h : /\ h < WindowSize[n]
                                    /\ n > 0 => WindowSize[n - 1] <= h

(* Faulty: a window that is born starts without the blocks before it. *)
BornEmpty(prev, fee, stake) == Window(0, 0, fee, stake)

(* A window is born at the height of its size: the blocks so far are one   *)
(* completed window.                                                       *)
Born(prev, fee, stake) == Window(prev[1].fee, prev[1].stake, fee, stake)

Rotated(w, fee, stake) == Window(w.fee, w.stake, fee, stake)
Grown(w, fee, stake)   == Window(w.prevFee, w.prevStake, w.fee + fee, w.stake + stake)

UpdateStatistics(h, prev, fee, stake) ==
    [p \in 1..(WindowsAt(h) + 1) |->
        CASE p = 1               -> Grown(prev[1], fee, stake)
          [] p > Len(prev)       -> Born(prev, fee, stake)
          [] p \in 2..Len(prev)  -> IF h % WindowSize[p - 2] = 0
                                    THEN Rotated(prev[p], fee, stake)
                                    ELSE Grown(prev[p], fee, stake)]

(* calculate_storage_fee: at the rate of the parent, for every copy. *)
StorageFee(parent, bytes) ==
    LET total == parent.statistics[1]
    IN  ((bytes * total.stake + total.fee - 1) \div total.fee) * Copies

-----------------------------------------------------------------------------
(* The draw (validation/validator.py).                                     *)

(* pick_validator: the first key, in order, whose cumulated stake exceeds  *)
(* the number drawn.                                                       *)
Pick(stake, number) ==
    LET below(v) == SumFunctionOnSet(stake, {u \in DOMAIN stake : Place[u] < Place[v]})
        choice == number % SumFunction(stake)
    IN  CHOOSE v \in DOMAIN stake : below(v) <= choice /\ choice < below(v) + stake[v]

(* halve_stake, for a validator without loans. *)
Halved(world, v) ==
    LET kept     == IF world.stake[v] < 2 THEN 1 ELSE world.stake[v] \div 2
        returned == world.stake[v] - kept
        account  == IF v \in DOMAIN world.account THEN world.account[v] ELSE NewAccount
        paid     == [account EXCEPT !.balance = @ + returned]
        taken    == [world.account[Treasury] EXCEPT !.balance = @ - returned]
    IN  IF returned = 0
        THEN world
        ELSE [account |-> [a \in DOMAIN world.account \cup {v} |->
                              CASE a = v        -> paid
                                [] a = Treasury -> taken
                                [] OTHER        -> world.account[a]],
              stake   |-> [world.stake EXCEPT ![v] = kept],
              record  |-> world.record]

(***************************************************************************)
(* current_validator: one pick and one halving per slot.  A stake record   *)
(* that cannot be read takes no part.  The result names the validator of   *)
(* the last slot, the state left, and the accounts that are in the cache.  *)
(***************************************************************************)
Drawn(d, number, unread) ==
    LET stake == [v \in DOMAIN d.world.stake \ unread |-> d.world.stake[v]]
        v     == Pick(stake, number)
        next  == Halved(d.world, v)
    IN  [validator |-> v,
         world     |-> next,
         cached    |-> d.cached \cup (IF next = d.world THEN {} ELSE {v})]

NoDraw(world) == [validator |-> Treasury, world |-> world, cached |-> {Treasury}]

Draw(world, h, slots, unread) ==
    LET draw[i \in 0..slots] ==
            IF i = 0 THEN NoDraw(world) ELSE Drawn(draw[i - 1], Roll(h, i), unread)
    IN  draw[slots]

(* Faulty: the verifier leaves out the slot the block was built in. *)
SlotsBeforeLast(from, to) == IF to - from <= Slot THEN 1 ELSE (to - from - 1) \div Slot

(* slots_to_process *)
SlotsBetween(from, to) == IF to - from <= Slot THEN 1 ELSE (to - from + Slot - 1) \div Slot

-----------------------------------------------------------------------------
(* Applying a transaction (transaction/apply.py).  `work` is a block under *)
(* work, of the builder or of the verifier: its world, tree, transactions, *)
(* receipts and receipts trie, and the accounts that are in the cache.     *)

Raises(world, tx) ==
    \/ tx.sender \notin DOMAIN world.account
    \/ world.account[tx.sender].balance < TxFee

(* Guards before the handler, and the handler's own. *)
Passes(world, tx) ==
    /\ tx.counter = world.account[tx.sender].counter
    /\ world.account[tx.sender].balance >= TxFee + tx.amount
    /\ tx.code = "TREASURY_DEPOSIT" => tx.sender \in DOMAIN world.stake

(* The recipient has no account, or none that could be read. *)
IsNew(world, tx, unread) == unread \/ tx.recipient \notin DOMAIN world.account

(* A transaction that fails before the end does not create its recipient. *)
FeeOf(parent, world, tx, unread) ==
    StorageFee(parent, Size["transaction"])
        + (IF Passes(world, tx) /\ IsNew(world, tx, unread)
           THEN StorageFee(parent, Size["account"])
           ELSE 0)

Succeeds(parent, world, tx, unread) ==
    /\ Passes(world, tx)
    /\ world.account[tx.sender].balance
         >= TxFee + tx.amount + FeeOf(parent, world, tx, unread)

Settlement(parent, world, tx, unread) ==
    Settle(world.account[tx.sender].balance, TxFee, 0, FeeOf(parent, world, tx, unread),
           IF Succeeds(parent, world, tx, unread) THEN tx.amount ELSE 0)

ReceiptOf(parent, world, tx, unread) ==
    LET paid == Settlement(parent, world, tx, unread)
    IN  [success |-> Succeeds(parent, world, tx, unread),
         fee     |-> paid.transaction,
         storage |-> paid.storage]

(* The handler's writes: the recipient is credited, a deposit adds to the  *)
(* sender's stake.                                                         *)
Credited(world, tx, unread) ==
    LET old == IF IsNew(world, tx, unread) THEN NewAccount ELSE world.account[tx.recipient]
    IN  [account |-> [a \in DOMAIN world.account \cup {tx.recipient} |->
                         IF a = tx.recipient
                         THEN [old EXCEPT !.balance = @ + tx.amount]
                         ELSE world.account[a]],
         stake   |-> [v \in DOMAIN world.stake |->
                         IF tx.code = "TREASURY_DEPOSIT" /\ v = tx.sender
                         THEN world.stake[v] + tx.amount ELSE world.stake[v]],
         record  |-> world.record]

(* The sender pays, the storage account gets its share, and a transaction  *)
(* that is counted uses up the sender's counter.                           *)
Charged(world, sender, total, share, counted) ==
    [account |-> [a \in DOMAIN world.account |->
                     [balance |-> world.account[a].balance
                                     - (IF a = sender THEN total ELSE 0)
                                     + (IF a = Storage THEN share ELSE 0),
                      counter |-> world.account[a].counter
                                     + (IF a = sender /\ counted THEN 1 ELSE 0)]],
     stake   |-> world.stake,
     record  |-> world.record]

(* What a transaction that was taken leaves of the state. *)
Applied(parent, world, tx, unread) ==
    LET paid == Settlement(parent, world, tx, unread)
        rest == IF Succeeds(parent, world, tx, unread)
                THEN Credited(world, tx, unread) ELSE world
    IN  Charged(rest, tx.sender, Total(paid), paid.storage,
                tx.counter = world.account[tx.sender].counter)

(* The transaction is taken into the block: search elements, receipt and   *)
(* the receipts trie, whose key is the transaction, whatever its status.   *)
Taken(work, parent, h, tx, unread) ==
    LET receipt == ReceiptOf(parent, work.world, tx, unread)
    IN  [world    |-> Applied(parent, work.world, tx, unread),
         tree     |-> Inserted(work.tree, h % EraSize, tx),
         txs      |-> Append(work.txs, tx),
         receipts |-> Append(work.receipts, receipt),
         trie     |-> [t \in DOMAIN work.trie \cup {tx} |->
                          IF t = tx THEN receipt ELSE work.trie[t]],
         cached   |-> work.cached \cup {tx.sender, Storage}
                         \cup (IF receipt.success THEN {tx.recipient} ELSE {})]

(***************************************************************************)
(* The storage account reads as absent: the attribute error comes when its *)
(* share is added, after the recipient was credited, the search elements   *)
(* inserted and the sender debited in the cached accounts.  A new          *)
(* recipient is not in the cache yet.                                      *)
(***************************************************************************)
BrokenOff(work, parent, h, tx) ==
    LET world == work.world
        keeps == Succeeds(parent, world, tx, FALSE) /\ ~IsNew(world, tx, FALSE)
        rest  == IF keeps THEN Credited(world, tx, FALSE) ELSE world
        debit == Total(Settlement(parent, world, tx, FALSE))
    IN  [work EXCEPT
            !.world  = Charged(rest, tx.sender, debit, 0, FALSE),
            !.tree   = Inserted(@, h % EraSize, tx),
            !.cached = @ \cup {tx.sender} \cup (IF keeps THEN {tx.recipient} ELSE {})]

-----------------------------------------------------------------------------
(* Totals of the receipts (block/reward.py).                               *)

TransactionFees(receipts) == SumFunction([i \in DOMAIN receipts |-> receipts[i].fee])
StorageFees(receipts)     == SumFunction([i \in DOMAIN receipts |-> receipts[i].storage])

(* validator_reward *)
Reward(receipts) == Max({TransactionFees(receipts), 1})

(* fee_income *)
FeeIncome(receipts) == Reward(receipts) + StorageFees(receipts)

(* The validator is paid; an account that does not load is a new one. *)
Rewarded(world, v, amount, unread) ==
    LET old == IF unread \/ v \notin DOMAIN world.account
               THEN NewAccount ELSE world.account[v]
    IN  [world EXCEPT !.account =
            [a \in DOMAIN @ \cup {v} |->
                IF a = v THEN [old EXCEPT !.balance = @ + amount] ELSE @[a]]]

-----------------------------------------------------------------------------
(* The builder.                                                            *)

Idle == [building |-> FALSE]

(* The last block is chain[Height + 1]. *)
Height == Len(chain) - 1
Parent == Last(chain)

(* generate_initial_storage_record: the parent's record. *)
Recorded(world, h) == [world EXCEPT !.record = @ \cup {h - 1}]

(* Block h starts a new tree at the first block of an era. *)
EraTree(parent, h, unread) ==
    IF h % EraSize = 0
    THEN EmptyTree
    ELSE Opened(parent.tree, (h - 1) % EraSize, h - 1, unread)

NoWork(world, tree, cached) ==
    [world |-> world, tree |-> tree, cached |-> cached,
     txs |-> <<>>, receipts |-> <<>>, trie |-> <<>>]

GenesisStake == Genesis.account[Treasury].balance
GenesisBlock ==
    [time       |-> 0,
     validator  |-> CHOOSE v \in DOMAIN Genesis.stake : TRUE,
     txs        |-> <<>>,
     receipts   |-> <<>>,
     trie       |-> <<>>,
     fees       |-> <<0, 0>>,
     world      |-> Genesis,
     tree       |-> EmptyTree,
     statistics |-> <<Window(0, 0, 1, GenesisStake)>>,
     income     |-> [fee |-> 1, stake |-> GenesisStake],
     lost       |-> {}]

Init == /\ chain = <<GenesisBlock>>
        /\ queue = <<>>
        /\ build = Idle
        /\ events = 0

Spend(n) == /\ events + n <= MaxEvents
            /\ events' = events + n

(* Anyone may send any transaction, also one that is already in the queue. *)
Submit(tx) == /\ Len(queue) < MaxQueue
              /\ Spend(1)
              /\ queue' = Append(queue, tx)
              /\ UNCHANGED <<chain, build>>

(* _next_signed_transaction: what the builder applies next, or nothing. *)
NextTx == IF queue = <<>> THEN <<>> ELSE <<Head(queue)>>
Pop    == queue' = IF queue = <<>> THEN <<>> ELSE Tail(queue)

(***************************************************************************)
(* A block `slots` slots after the parent is begun, by the validator drawn *)
(* for it.  stakes, storage and nodes are what cannot be read: records in  *)
(* the draw, the storage account, nodes of the bloom tree.  Without the    *)
(* storage account the parent's record is silently left out.  A parent     *)
(* whose tree names a node nobody has cannot be recorded, and nothing is   *)
(* built on it.                                                            *)
(***************************************************************************)
Start(slots, stakes, storage, nodes, lost) ==
    LET draw == Draw(Parent.world, Height, slots, stakes)
        h    == Height + 1
    IN  /\ build = Idle
        /\ h <= MaxHeight
        /\ Parent.tree.hollow = {}
        /\ DOMAIN Parent.world.stake \ stakes # {}
        /\ Spend((slots - 1) + Cardinality(lost))
        /\ build' = [building  |-> TRUE,
                     time      |-> Parent.time + slots * Slot,
                     validator |-> draw.validator,
                     work      |-> NoWork(IF storage THEN draw.world ELSE Recorded(draw.world, h),
                                          EraTree(Parent, h, nodes),
                                          draw.cached \cup (IF storage THEN {} ELSE {Storage})),
                     current   |-> NextTx,
                     lost      |-> lost]
        /\ Pop
        /\ UNCHANGED chain

StartBlock(slots) == Start(slots, {}, FALSE, {}, {})

StartWithoutStake(slots, v) ==
    /\ v \in DOMAIN Parent.world.stake
    /\ Start(slots, {v}, FALSE, {}, {"stake"})

StartWithoutStorage(slots) == Start(slots, {}, TRUE, {}, {"storage"})

StartWithoutNode(slots, n) ==
    /\ (Height + 1) % EraSize # 0
    /\ n \in Nodes(Parent.tree) \cap Path(Height % EraSize)
    /\ Start(slots, {}, FALSE, {n}, {"node"})

(* One turn of the loop over the queue ends with this work. *)
Continue(work, lost) ==
    /\ build' = [build EXCEPT !.work = work, !.current = NextTx, !.lost = @ \cup lost]
    /\ Pop
    /\ UNCHANGED chain

Applying == build.building /\ build.current # <<>>
Current  == Head(build.current)

ApplyNext ==
    /\ Applying
    /\ ~Raises(build.work.world, Current)
    /\ UNCHANGED events
    /\ Continue(Taken(build.work, Parent, Height + 1, Current, FALSE), {})

(* The exception is logged and the transaction is gone. *)
SkipNext ==
    /\ Applying
    /\ Raises(build.work.world, Current)
    /\ UNCHANGED events
    /\ Continue(build.work, {})

(* The sender's account cannot be read. *)
SkipUnread ==
    /\ Applying
    /\ ~Raises(build.work.world, Current)
    /\ Current.sender \notin build.work.cached
    /\ Spend(1)
    /\ Continue(build.work, {"sender"})

(* The recipient's account cannot be read and is created again. *)
ApplyToUnread ==
    /\ Applying
    /\ ~Raises(build.work.world, Current)
    /\ Current.recipient \in DOMAIN build.work.world.account \ build.work.cached
    /\ Spend(1)
    /\ Continue(Taken(build.work, Parent, Height + 1, Current, TRUE), {"recipient"})

(* The storage account still cannot be read. *)
BreakOff ==
    /\ Applying
    /\ ~Raises(build.work.world, Current)
    /\ Storage \notin build.work.cached
    /\ UNCHANGED events
    /\ Continue(BrokenOff(build.work, Parent, Height + 1, Current), {})

(***************************************************************************)
(* The queue is empty: totals, statistics and roots are written and the    *)
(* block is published.  The statistics take the treasury's balance before  *)
(* the reward; world is the state whose hash the header carries.           *)
(***************************************************************************)
Seal(world, lost) ==
    LET work  == build.work
        fee   == FeeIncome(work.receipts)
        stake == work.world.account[Treasury].balance
    IN  /\ build.building /\ build.current = <<>>
        /\ Spend(Cardinality(lost))
        /\ chain' = Append(chain,
              [time       |-> build.time,
               validator  |-> build.validator,
               txs        |-> work.txs,
               receipts   |-> work.receipts,
               trie       |-> work.trie,
               fees       |-> <<TransactionFees(work.receipts), StorageFees(work.receipts)>>,
               world      |-> world,
               tree       |-> Stored(work.tree),
               statistics |-> UpdateStatistics(Height + 1, Parent.statistics, fee, stake),
               income     |-> [fee |-> fee, stake |-> stake],
               lost       |-> build.lost \cup lost])
        /\ build' = Idle
        /\ UNCHANGED queue

Paid(unread) ==
    Rewarded(build.work.world, build.validator, Reward(build.work.receipts), unread)

Publish == Seal(Paid(FALSE), {})

(* Reading the validator's account raises, and the reward is left out. *)
PublishUnpaid ==
    /\ build.building /\ build.validator \notin build.work.cached
    /\ Seal(build.work.world, {"reward"})

(* The validator's account reads as absent, and is created again. *)
PublishAnew ==
    /\ build.building
    /\ build.validator \in DOMAIN build.work.world.account \ build.work.cached
    /\ Seal(Paid(TRUE), {"reward"})

(* update_trie raises: the header keeps the parent's accounts_hash. *)
PublishOldAccounts == Seal(Parent.world, {"update"})

(* No nonce, too late, or the head has moved: the block is dropped, and    *)
(* with it the transactions taken from the queue.                          *)
Drop == /\ build.building /\ build.current = <<>>
        /\ build' = Idle
        /\ UNCHANGED <<chain, queue, events>>

Next == \/ \E tx \in Transactions : Submit(tx)
        \/ \E slots \in 1..MaxSlots :
              \/ StartBlock(slots)
              \/ \E v \in Addresses : StartWithoutStake(slots, v)
              \/ StartWithoutStorage(slots)
              \/ \E n \in TreeNodes : StartWithoutNode(slots, n)
        \/ ApplyNext \/ SkipNext \/ SkipUnread \/ ApplyToUnread \/ BreakOff
        \/ Publish \/ PublishUnpaid \/ PublishAnew \/ PublishOldAccounts
        \/ Drop

Spec == Init /\ [][Next]_vars

-----------------------------------------------------------------------------
(* The verifier (block/verify/transactions.py), which reads everything.    *)
(* Block h is replayed from its parent.                                    *)

Redraw(parent, block, h) == Draw(parent.world, h - 1, SlotsBetween(parent.time, block.time), {})

(* A transaction that raises ends the verification without a verdict. *)
Reapply(parent, h, run, tx) ==
    IF run.raised \/ Raises(run.work.world, tx)
    THEN [raised |-> TRUE, work |-> run.work]
    ELSE [raised |-> FALSE, work |-> Taken(run.work, parent, h, tx, FALSE)]

Replayed(parent, h, work, txs) ==
    LET run[i \in 0..Len(txs)] ==
            IF i = 0 THEN [raised |-> FALSE, work |-> work]
            ELSE Reapply(parent, h, run[i - 1], txs[i])
    IN  run[Len(txs)]

Replay(parent, block, h) ==
    LET world == Recorded(Redraw(parent, block, h).world, h)
    IN  Replayed(parent, h, NoWork(world, EraTree(parent, h, {}), {}), block.txs)

(* Faulty: accounts_hash is taken as the header gives it. *)
AccountsUnchecked(world, block) == TRUE

AccountsMatch(world, block) == world = block.world

(***************************************************************************)
(* verify_block_transactions for block h: the replay gives what the header *)
(* commits to, and each receipt is the one that the receipts trie holds    *)
(* for its transaction.  The statistics take the treasury's balance after  *)
(* the reward.                                                             *)
(***************************************************************************)
Accepts(parent, block, h) ==
    LET run   == Replay(parent, block, h)
        work  == run.work
        world == Rewarded(work.world, block.validator, Reward(work.receipts), FALSE)
    IN  /\ Redraw(parent, block, h).validator = block.validator
        /\ ~run.raised
        /\ BloomHash(Stored(work.tree)) = BloomHash(block.tree)
        /\ <<TransactionFees(work.receipts), StorageFees(work.receipts)>> = block.fees
        /\ work.trie = block.trie
        /\ \A i \in DOMAIN work.txs : block.trie[work.txs[i]] = work.receipts[i]
        /\ AccountsMatch(world, block)
        /\ UpdateStatistics(h, parent.statistics, FeeIncome(work.receipts),
                            world.account[Treasury].balance) = block.statistics

-----------------------------------------------------------------------------
(* The searches along a chain (crypto/bloom_search/).                      *)

Era(h) == h \div EraSize

(* The first block of an era met on the way back from block `from`. *)
TopOf(era, from) == Max({g \in 0..from : Era(g) = era})

(***************************************************************************)
(* bloom_search_tx without a limit: each era is searched in the tree of    *)
(* its first block met, and skipped if that block has none.  A leaf        *)
(* without a start belongs to the block that owns the tree.  What a block  *)
(* found contains is compared with the transaction.                        *)
(***************************************************************************)
BlocksFound(tx, from) ==
    LET hits(era) == LET top  == TopOf(era, from)
                         tree == chain[top + 1].tree
                     IN  {IF tree.start[o] = NoStart THEN top ELSE tree.start[o] :
                             o \in Hits(tree, tx)}
    IN  {b \in UNION {hits(era) : era \in 0..Era(from)} : Contains(chain[b + 1].txs, tx)}

NotFound == -1

(* find_block_by_height; the walk back ends at the block itself. *)
BlockAt(h, from) ==
    LET top   == TopOf(Era(h), from)
        start == StartOf(chain[top + 1].tree, h % EraSize)
    IN  CASE h > from -> NotFound
          [] h = top  -> h
          [] h < top  -> IF start = NoStart THEN h ELSE start

-----------------------------------------------------------------------------
(* Properties.                                                             *)

(* What a missing cell cannot change in a block: a sender that could not   *)
(* be read only leaves its transaction out.                                *)
Harmless == {"sender"}

(***************************************************************************)
(* A block whose builder could read what it needed is accepted by every    *)
(* verifier that can, exactly if each transaction's receipt is the one its *)
(* receipts trie holds: worker.py and verify/transactions.py agree on      *)
(* draw, record, tree, fees, reward and statistics.  The trie is keyed by  *)
(* the transaction, so of one that was queued twice only the last receipt  *)
(* is left, and the honest block is refused.                               *)
(***************************************************************************)
CleanBlocksVerify ==
    LET b == Parent
    IN  (Height > 0 /\ b.lost \subseteq Harmless) =>
            (Accepts(chain[Height], b, Height) <=>
                \A i \in DOMAIN b.txs : b.trie[b.txs[i]] = b.receipts[i])

Coins(world) == SumFunction([a \in DOMAIN world.account |-> world.account[a].balance])
Surplus(world) == world.account[Treasury].balance - Staked(world)

(***************************************************************************)
(* Whatever the builder could not read, a block that is accepted adds up:  *)
(* no coins appear but the base reward of a block without transactions, no *)
(* account is lost or set back, the treasury still holds what the stakes   *)
(* add up to, and the parent is on record.  The comparisons of             *)
(* verify/transactions.py are all that stands between an account that was  *)
(* created again because it did not arrive (models/accounts.py) and its    *)
(* owner's loss.                                                           *)
(***************************************************************************)
AcceptedBlocksAddUp ==
    LET p == chain[Height].world
        b == Parent.world
    IN  (Height > 0 /\ Accepts(chain[Height], Parent, Height)) =>
            /\ Coins(b) = Coins(p) + (IF Parent.txs = <<>> THEN 1 ELSE 0)
            /\ DOMAIN p.account \subseteq DOMAIN b.account
            /\ \A a \in DOMAIN p.account : b.account[a].counter >= p.account[a].counter
            /\ Surplus(b) >= Surplus(p)
            /\ b.record = p.record \cup {Height - 1}

FeesOf(S)   == SumFunction([g \in S |-> chain[g + 1].income.fee])
StakesOf(S) == SumFunction([g \in S |-> chain[g + 1].income.stake])

(***************************************************************************)
(* The rates that price storage come from windows that are only ever       *)
(* updated (rate_window.py): every entry is the exact sum over the blocks  *)
(* of its window, the one in progress and the one completed before it,     *)
(* through birth, rotation and growth.                                     *)
(***************************************************************************)
StatisticsExact ==
    LET stats == Parent.statistics
    IN  /\ stats[1].fee = FeesOf(0..Height)
        /\ stats[1].stake = StakesOf(0..Height)
        /\ \A p \in 2..Len(stats) :
              LET size  == WindowSize[p - 2]
                  first == Height - (Height % size)
              IN  /\ stats[p].fee = FeesOf(first..Height)
                  /\ stats[p].stake = StakesOf(first..Height)
                  /\ stats[p].prevFee = FeesOf((first - size)..(first - 1))
                  /\ stats[p].prevStake = StakesOf((first - size)..(first - 1))

(***************************************************************************)
(* Every transaction of the chain is found by search and every block by    *)
(* its height, across eras, empty blocks and leaves named one block late:  *)
(* insert takes what is not in memory for missing, and relies on the walk  *)
(* to the previous leaf having loaded it (bloom_tree/tree.py).  Only an    *)
(* era in which a builder lacked a node of the tree may lose transactions. *)
(***************************************************************************)
SearchFinds ==
    \A h \in 0..Height :
        /\ BlockAt(h, Height) = h
        /\ (\A g \in 0..Height : Era(g) = Era(h) => "node" \notin chain[g + 1].lost)
              => \A i \in DOMAIN chain[h + 1].txs :
                    h \in BlocksFound(chain[h + 1].txs[i], Height)
=============================================================================
