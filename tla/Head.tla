-------------------------------- MODULE Head --------------------------------
(***************************************************************************)
(* The chain head of one validating node, node.latest_block_hash and       *)
(* node.latest_block, and the threads that move it: the validation worker  *)
(* (validation/worker.py), the thread that handles incoming BLOCK and PING *)
(* messages (communication/handlers/), and the fork verification worker    *)
(* (verification/worker.py).  Each thread reads the head, works for a long *)
(* time without the lock, and writes it only if it has not moved.          *)
(*                                                                         *)
(* Blocks form a fixed tree.  A block is its hash, so the blocks this node *)
(* builds are the members of Own, each built at most once.                 *)
(***************************************************************************)
EXTENDS BlockTree, Integers, FiniteSets, Sequences

CONSTANTS Own,           \* those of the blocks this node may build
          Parent,        \* block -> block or NoBlock
          Height,        \* block -> Nat
          Hash,          \* block -> Nat, the order of the hashes
          Unloadable,    \* blocks whose state cannot be loaded
          MaxHolders     \* MAX_BLOCK_HOLDERS

ASSUME HeadAssumption ==
    /\ IsFiniteSet(Blocks)
    /\ Own \subseteq Blocks
    /\ Genesis \in Blocks \ Own
    /\ NoBlock \notin Blocks
    /\ Parent \in [Blocks -> Blocks \cup {NoBlock}]
    /\ Height \in [Blocks -> Nat]
    /\ \A b \in Blocks : IF b = Genesis
                         THEN Parent[b] = NoBlock
                         ELSE Parent[b] # NoBlock /\ Height[b] = Height[Parent[b]] + 1
    /\ Hash \in [Blocks -> Nat]
    /\ \A b, c \in Blocks : Hash[b] = Hash[c] => b = c
    /\ Unloadable \subseteq Blocks \ {Genesis}
    /\ MaxHolders \in Nat \ {0}

VARIABLES defaultSeed,   \* config.default_seed: follow a seed's pings
          head,          \* node.latest_block_hash
          latest,        \* node.latest_block
          builder,       \* validation worker: [pc, on: its parent, made]
          lastGood,      \* its last_good_head
          built,         \* own blocks it finished
          announced,     \* own blocks it sent to the network
          handler,       \* message thread: [block, hash, latest], its snapshot
          holders,       \* node.block_holders, oldest first
          selector,      \* verification worker: [pc, current, height]
          ownHeads       \* history: own blocks that were the head

nodeHead == <<head, latest>>
vars == <<defaultSeed, nodeHead, builder, lastGood, built, announced, handler, holders,
          selector, ownHeads>>

Unknown == -1
Maybe   == Blocks \cup {NoBlock}

Idle    == [pc |-> "idle", on |-> NoBlock, made |-> NoBlock]
Waiting == [block |-> NoBlock, hash |-> NoBlock, latest |-> NoBlock]
Resting == [pc |-> "idle", current |-> NoBlock, height |-> Unknown]

(* What peers can know of: everything but own blocks never announced, and  *)
(* what others built on those.                                             *)
Circulates[b \in Blocks] ==
    /\ b \in Own => b \in announced
    /\ b # Genesis => Circulates[Parent[b]]

(* validate_blockchain is done: it created genesis, or took the head that  *)
(* the configuration names, whether or not its state can be loaded; a ping *)
(* of the default seed may have unset the block.                           *)
Init == /\ defaultSeed \in BOOLEAN
        /\ built = {}
        /\ announced = {}
        /\ head \in {b \in Blocks : Circulates[b]}
        /\ latest \in {NoBlock, head}
        /\ builder = Idle
        /\ lastGood = head
        /\ handler = Waiting
        /\ holders = << >>
        /\ selector = Resting
        /\ ownHeads = {}

SetHead(hash, block) == /\ head' = hash
                        /\ latest' = block
                        /\ ownHeads' = ownHeads \cup ({hash} \cap Own)

KeepHead == UNCHANGED <<nodeHead, ownHeads>>

(* Faulty: writes whatever the head is by now. *)
SetHeadAnyway(expected, hash, block) == SetHead(hash, block)

(* "if node.latest_block_hash == expected" under latest_block_lock. *)
SetHeadIf(expected, hash, block) ==
    IF head = expected THEN SetHead(hash, block) ELSE KeepHead

-----------------------------------------------------------------------------
(* The validation worker.                                                  *)

(* Faulty: takes the head for good before its state was loaded. *)
StartRoundTrusting ==
    /\ builder.pc = "idle"
    /\ builder' = [pc |-> "drawing", on |-> head, made |-> NoBlock]
    /\ lastGood' = head
    /\ KeepHead
    /\ UNCHANGED <<built, announced, handler, holders, selector>>

StartRound ==
    /\ builder.pc = "idle"
    /\ builder' = [pc |-> "drawing", on |-> head, made |-> NoBlock]
    /\ KeepHead
    /\ UNCHANGED <<lastGood, built, announced, handler, holders, selector>>

(* The candidates of _walk_back: the parent if the header is in local      *)
(* storage, which evicts, else the last head that loaded.                  *)
StepTargets(failed) == {Parent[failed], lastGood}

(* Faulty: the object of the failed head stays. *)
StepBackKeepingBlock(failed, target) ==
    IF target \in {NoBlock, failed} THEN KeepHead ELSE SetHeadIf(failed, target, latest)

StepBack(failed, target) ==
    IF target \in {NoBlock, failed} THEN KeepHead ELSE SetHeadIf(failed, target, NoBlock)

(***************************************************************************)
(* The draw, or the record of the parent, cannot be read: step_back.       *)
(***************************************************************************)
FailRound ==
    /\ builder.pc = "drawing"
    /\ builder' = Idle
    /\ \E target \in StepTargets(builder.on) : StepBack(builder.on, target)
    /\ UNCHANGED <<lastGood, built, announced, handler, holders, selector>>

(* The storage account of the new block is read outside of any handler: a  *)
(* trie node that cannot be read there ends the thread.                    *)
WorkerDies ==
    /\ builder.pc = "drawing"
    /\ builder' = [pc |-> "dead", on |-> builder.on, made |-> NoBlock]
    /\ KeepHead
    /\ UNCHANGED <<lastGood, built, announced, handler, holders, selector>>

(* Another validator is drawn. *)
SkipRound ==
    /\ builder.pc = "drawing"
    /\ builder.on \notin Unloadable
    /\ builder' = Idle
    /\ KeepHead
    /\ UNCHANGED <<lastGood, built, announced, handler, holders, selector>>

(* This validator is drawn and the state of its parent loaded. *)
StartBuilding ==
    /\ builder.pc = "drawing"
    /\ builder.on \notin Unloadable
    /\ builder' = [pc |-> "building", on |-> builder.on, made |-> NoBlock]
    /\ lastGood' = builder.on
    /\ KeepHead
    /\ UNCHANGED <<built, announced, handler, holders, selector>>

(* No nonce, or the block is late. *)
DropBlock ==
    /\ builder.pc = "building"
    /\ builder' = Idle
    /\ KeepHead
    /\ UNCHANGED <<lastGood, built, announced, handler, holders, selector>>

(* Faulty: announces a block that lost the race. *)
AnnounceAnyway(b) ==
    /\ SetHeadIf(builder.on, b, b)
    /\ builder' = [pc |-> "announcing", on |-> builder.on, made |-> b]
    /\ lastGood' = b

(* still_parent: the block becomes the head, or is dropped because the     *)
(* head moved while it was built.                                          *)
PublishOrDrop(b) ==
    /\ SetHeadIf(builder.on, b, b)
    /\ IF head = builder.on
       THEN /\ builder' = [pc |-> "announcing", on |-> builder.on, made |-> b]
            /\ lastGood' = b
       ELSE /\ builder' = Idle
            /\ UNCHANGED lastGood

FinishBlock(b) ==
    /\ builder.pc = "building"
    /\ b \in Own \ built
    /\ Parent[b] = builder.on
    /\ built' = built \cup {b}
    /\ PublishOrDrop(b)
    /\ UNCHANGED <<announced, handler, holders, selector>>

(* _announce_block, queue_ads and the pings to the peers. *)
AnnounceBlock ==
    /\ builder.pc = "announcing"
    /\ announced' = announced \cup {builder.made}
    /\ builder' = Idle
    /\ KeepHead
    /\ UNCHANGED <<lastGood, built, handler, holders, selector>>

BuilderStep ==
    /\ \/ StartRound \/ FailRound \/ WorkerDies \/ SkipRound \/ StartBuilding \/ DropBlock
       \/ \E b \in Own : FinishBlock(b)
       \/ AnnounceBlock
    /\ UNCHANGED defaultSeed

-----------------------------------------------------------------------------
(* The message thread: handle_block and handle_ping.                       *)

RangeOf(s) == {s[i] : i \in 1 .. Len(s)}

(* An announcement of a block with no holder yet; the head is snapshot. *)
ReceiveBlock(b) ==
    /\ handler = Waiting
    /\ Circulates[b]
    /\ b \notin RangeOf(holders)
    /\ handler' = [block |-> b, hash |-> head, latest |-> latest]
    /\ KeepHead
    /\ UNCHANGED <<builder, lastGood, built, announced, holders, selector>>

(* The block extends the snapshot, whose block this node holds. *)
ExtendsSnapshot ==
    /\ handler.latest # NoBlock
    /\ Parent[handler.block] = handler.hash

DropNotOurs ==
    /\ handler # Waiting
    /\ ~ExtendsSnapshot
    /\ handler' = Waiting
    /\ KeepHead
    /\ UNCHANGED <<builder, lastGood, built, announced, holders, selector>>

(* verify_block_head rejects the header. *)
DropInvalid ==
    /\ handler # Waiting
    /\ ExtendsSnapshot
    /\ handler' = Waiting
    /\ KeepHead
    /\ UNCHANGED <<builder, lastGood, built, announced, holders, selector>>

(* record_block_holder: the oldest holder goes when there are too many. *)
WithHolder(b) ==
    Append(IF Len(holders) < MaxHolders THEN holders ELSE Tail(holders), b)

AdoptBlock ==
    /\ handler # Waiting
    /\ ExtendsSnapshot
    /\ holders' = WithHolder(handler.block)
    /\ SetHeadIf(handler.hash, handler.block, handler.block)
    /\ handler' = Waiting
    /\ UNCHANGED <<builder, lastGood, built, announced, selector>>

(* Faulty: the object of the old head stays. *)
PingKeepsLatest(b) == SetHead(b, latest)

(* "if node.latest_block_hash != ping.latest_block" *)
FollowPing(b) == IF head # b THEN SetHead(b, NoBlock) ELSE KeepHead

(* The default seed pings with its head. *)
SeedPing(b) ==
    /\ defaultSeed
    /\ handler = Waiting
    /\ Circulates[b]
    /\ FollowPing(b)
    /\ UNCHANGED <<builder, lastGood, built, announced, handler, holders, selector>>

MessageStep ==
    /\ \/ \E b \in Blocks : ReceiveBlock(b) \/ SeedPing(b)
       \/ DropNotOurs \/ DropInvalid \/ AdoptBlock
    /\ UNCHANGED defaultSeed

-----------------------------------------------------------------------------
(* The verification worker: _select_latest_block.                          *)

StartSelect ==
    /\ ~defaultSeed
    /\ selector.pc = "idle"
    /\ selector' = [pc |-> "measuring", current |-> head, height |-> Unknown]
    /\ KeepHead
    /\ UNCHANGED <<builder, lastGood, built, announced, handler, holders>>

(* _current_head_height: of the block held for the head, else from storage *)
(* or the network, which may fail.                                         *)
Heights(current) ==
    IF latest = current THEN {Height[current]} ELSE {Height[current], Unknown}

MeasureHead ==
    /\ selector.pc = "measuring"
    /\ \E h \in Heights(selector.current) :
          selector' = [pc |-> "selecting", current |-> selector.current, height |-> h]
    /\ KeepHead
    /\ UNCHANGED <<builder, lastGood, built, announced, handler, holders>>

Eligible(tips) == {b \in tips : selector.height = Unknown \/ Height[b] >= selector.height}

(* The higher block; of equals the current head, else the lower hash. *)
Beats(b, c) == \/ Height[b] > Height[c]
               \/ /\ Height[b] = Height[c]
                  /\ \/ b = selector.current
                     \/ c # selector.current /\ Hash[b] < Hash[c]

(* Heads of fully verified forks that peers report now. *)
Verifiable == {b \in Blocks \ Unloadable : Circulates[b]}

Select ==
    /\ selector.pc = "selecting"
    /\ selector' = Resting
    /\ \E tips \in SUBSET Verifiable :
          \/ /\ Eligible(tips) = {}
             /\ KeepHead
          \/ \E b \in Eligible(tips) :
                /\ \A c \in Eligible(tips) \ {b} : Beats(b, c)
                /\ IF head # b
                   THEN SetHeadIf(selector.current, b, b)
                   ELSE KeepHead
    /\ UNCHANGED <<builder, lastGood, built, announced, handler, holders>>

SelectStep == (StartSelect \/ MeasureHead \/ Select) /\ UNCHANGED defaultSeed

Next == BuilderStep \/ MessageStep \/ SelectStep

Spec == Init /\ [][Next]_vars

(* The validation worker is a loop that nothing blocks while it lives. *)
FairSpec == Spec /\ WF_vars(BuilderStep)
-----------------------------------------------------------------------------
(* Properties.                                                             *)

(* Snapshots are blocks, holders stay within MAX_BLOCK_HOLDERS.            *)
TypeOK ==
    /\ head \in Blocks /\ latest \in Maybe /\ lastGood \in Blocks
    /\ builder \in [pc: {"idle", "drawing", "building", "announcing", "dead"},
                    on: Maybe, made: Maybe]
    /\ builder.pc # "idle" => builder.on # NoBlock
    /\ announced \subseteq built /\ built \subseteq Own
    /\ handler \in [block: Maybe, hash: Maybe, latest: Maybe]
    /\ holders \in Seq(Blocks) /\ Len(holders) <= MaxHolders
    /\ selector \in [pc: {"idle", "measuring", "selecting"}, current: Maybe,
                     height: Nat \cup {Unknown}]
    /\ ownHeads \subseteq Own

(* The block object and the hash of the head agree whenever there is an    *)
(* object, whichever of the three threads wrote last: header checks use    *)
(* the object as the parent of blocks that name the hash.                  *)
LatestIsHead == latest \in {NoBlock, head}

(* "The head never moves to a lower one" (verification/worker.py:154), in  *)
(* every interleaving: only a step back from a head that does not load, a  *)
(* ping of the default seed, or a selection that could not read the height *)
(* of the current head may lower it.                                       *)
MovesUp ==
    head' # head /\ latest' # NoBlock =>
        \/ Height[head'] > Height[head]
        \/ selector.pc = "selecting" /\ Height[head'] = Height[head]
        \/ selector.pc = "selecting" /\ selector.height = Unknown

NeverLower == [][MovesUp]_vars

(* A block that lost the race for the head is dropped and not announced    *)
(* (validation/worker.py:663): the network only sees own blocks that were  *)
(* this node's head, and of two own blocks on one parent only those with a *)
(* move of the head back to the parent between them.                       *)
OnlyHeadsAnnounced == announced \subseteq ownHeads

(* Once the validation worker has had a head that loads, one that does     *)
(* not load is left in the end, even when announcements and selections     *)
(* race with the walk back and the header is no longer stored - as long as *)
(* the worker itself survives.                                             *)
LeavesUnloadable ==
    (head \in Unloadable /\ lastGood \notin Unloadable)
        ~> (head \notin Unloadable \/ builder.pc = "dead")
=============================================================================
