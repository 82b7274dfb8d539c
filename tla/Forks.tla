------------------------------- MODULE Forks --------------------------------
(***************************************************************************)
(* The forks a node keeps of the chain heads its peers report, and the     *)
(* rounds of the verification worker (consensus/verification/worker.py):   *)
(* scan the peers, verify each fork down to its root                       *)
(* (consensus/fork/verify.py), merge forks end to end, select a head.      *)
(* Only this worker touches the forks.  Loading a block goes to the        *)
(* network and may fail at every step; what was verified before stays.     *)
(*                                                                         *)
(* Blocks form a fixed tree in which Chain[b] is b with its ancestors.     *)
(***************************************************************************)
EXTENDS BlockTree, Naturals, FiniteSets

CONSTANTS Chain,         \* block -> set of blocks
          Order,         \* block -> Nat, the order in which forks are verified
          BadHeader,     \* blocks that verify_block_head rejects
          BadBody,       \* blocks of others that verify_block_transactions rejects
          Peers,
          MaxForks,      \* bound on the table, which the code never prunes
          Zero           \* ZERO32

ASSUME ForksAssumption ==
    /\ Genesis \in Blocks \ (BadHeader \cup BadBody)
    /\ Chain \in [Blocks -> SUBSET Blocks]
    /\ \A b \in Blocks :
         /\ {b, Genesis} \subseteq Chain[b]
         /\ \A a \in Chain[b] : Chain[a] \subseteq Chain[b]
         /\ \A a, c \in Chain[b] : a \in Chain[c] \/ c \in Chain[a]
    /\ \A a, b \in Blocks : a \in Chain[b] /\ b \in Chain[a] => a = b
    /\ Order \in [Blocks -> Nat]
    /\ BadHeader \subseteq Blocks
    /\ BadBody \subseteq Blocks
    /\ MaxForks \in Nat
    /\ Zero \notin Blocks
    /\ NoBlock \notin Blocks
    /\ Zero # NoBlock

VARIABLES reported,      \* peer.latest_block of each peer at the last scan
          heads,         \* the keys of node.forks
          forks,         \* node.forks; NewFork where there is none
          pc, todo,      \* the worker: its phase and the forks left in it
          selected       \* what this round made node.latest_block_hash

forksVars == <<reported, heads, forks, pc, todo, selected>>

(* header and txs are header_verified_up_to and transactions_verified_up_to; *)
(* of malicious_block_hash only whether it is set is ever read.              *)
Fork == [root : Blocks \cup {Zero}, header : Blocks \cup {Zero, NoBlock},
         txs : Blocks \cup {NoBlock}, malicious : BOOLEAN, peers : SUBSET Peers]

NewFork == [root |-> Zero, header |-> NoBlock, txs |-> NoBlock,
            malicious |-> FALSE, peers |-> {}]

(* The blocks from b down to and including root. *)
Segment(b, root) == {c \in Chain[b] : root \in Chain[c]}

FullyVerified(b) == /\ forks[b].header = forks[b].root
                    /\ forks[b].txs = forks[b].root

ForksInit ==
    /\ reported = [p \in Peers |-> NoBlock]
    /\ heads = {}
    /\ forks = [b \in Blocks |-> NewFork]
    /\ pc = "scan"
    /\ todo = {}
    /\ selected = NoBlock

-----------------------------------------------------------------------------
ReportedHeads(heard) == {heard[p] : p \in Peers} \ {NoBlock}

(* Peers report any block, and may report none again. *)
Scan ==
    /\ pc = "scan"
    /\ \E heard \in [Peers -> Blocks \cup {NoBlock}] :
         /\ reported' = heard
         /\ heads' = heads \cup ReportedHeads(heard)
         /\ forks' = [b \in Blocks |->
                        [forks[b] EXCEPT !.peers = {p \in Peers : heard[p] = b}]]
    /\ Cardinality(heads') <= MaxForks
    /\ todo' = heads'
    /\ pc' = IF heads' = {} THEN "scan" ELSE "verify"
    /\ selected' = NoBlock

(* Forks are verified one after the other.  What this does to one depends  *)
(* on no field of the others, so their order is taken to be a fixed one.   *)
VerifyNext(b) == /\ pc = "verify"
                 /\ b \in todo
                 /\ \A c \in todo : Order[b] <= Order[c]
                 /\ todo' = todo \ {b}
                 /\ pc' = IF todo = {b} THEN "merge" ELSE "verify"
                 /\ UNCHANGED <<reported, heads, selected>>

(* verify_fork raises before the headers down to the root are verified. *)
VerifyRaises(b) == VerifyNext(b) /\ UNCHANGED forks

(* The header pass goes down from b to the first block that it rejects, is *)
(* the head of another fork, is the root, or is genesis.                   *)
HeaderPassEnds(b, stop) ==
    LET ends == Chain[b] \cap (BadHeader \cup (heads \ {b}) \cup {forks[b].root, Genesis})
    IN  stop \in ends /\ ends \subseteq Chain[stop]

RejectHeader(b) ==
    /\ VerifyNext(b)
    /\ \E stop \in BadHeader : HeaderPassEnds(b, stop)
    /\ forks' = [forks EXCEPT ![b].malicious = TRUE]

(* The fork's root and its verified headers move together; a fork that goes *)
(* down to genesis, unless genesis is a fork's head, gets ZERO32 for both.  *)
HeadersVerified(b, stop) ==
    LET root == IF stop \in (heads \ {b}) \cup {forks[b].root} THEN stop ELSE Zero
    IN  [forks[b] EXCEPT !.root = root, !.header = root]

(* Faulty: notes a block as verified before it is. *)
BodiesNotedEarly(b, f, base) ==
    {f} \cup
    {[f EXCEPT !.txs = c] : c \in {c \in Segment(b, base) :
                                     Segment(b, c) \cap BadBody \subseteq {c}}}

(* What the second pass can leave of fork f, from b down to base: it notes *)
(* every block it verified, and ends when a load fails, at the base, or at *)
(* a block whose transactions it rejects.  An own block is not replayed.   *)
BodiesVerified(b, f, base) ==
    LET below == Segment(b, base)
        rejected == {c \in below : Segment(b, c) \cap BadBody = {c}}
        last == {c \in below : \E r \in rejected : Segment(b, c) = Segment(b, r) \ {r}}
    IN  {f} \cup {[f EXCEPT !.txs = c] : c \in {c \in below : Segment(b, c) \cap BadBody = {}}}
            \cup {[f EXCEPT !.malicious = TRUE] : c \in rejected \cap {b}}
            \cup {[f EXCEPT !.malicious = TRUE, !.txs = c] : c \in last}

VerifyFork(b) ==
    /\ VerifyNext(b)
    /\ \E stop \in Blocks \ BadHeader :
         /\ HeaderPassEnds(b, stop)
         /\ \E f \in BodiesVerified(b, HeadersVerified(b, stop), stop) :
              forks' = [forks EXCEPT ![b] = f]

-----------------------------------------------------------------------------
(* Fully verified forks that are the only such child of another one. *)
MergeHeads ==
    LET rooted == {b \in heads : forks[b].root \in heads /\ FullyVerified(b)}
    IN  {b \in rooted : /\ FullyVerified(forks[b].root)
                        /\ \A c \in rooted : forks[c].root = forks[b].root => c = b}

StartMerge ==
    /\ pc = "merge"
    /\ todo' = MergeHeads
    /\ pc' = IF MergeHeads = {} THEN "select" ELSE "merging"
    /\ UNCHANGED <<reported, heads, forks, selected>>

(* Faulty: the peers of the fork below are lost. *)
MergedForkAlone(b) ==
    LET base == forks[forks[b].root]
    IN  [root |-> base.root, header |-> base.root, txs |-> base.root,
         malicious |-> FALSE, peers |-> forks[b].peers]

MergedFork(b) ==
    LET base == forks[forks[b].root]
    IN  [root |-> base.root, header |-> base.root, txs |-> base.root,
         malicious |-> FALSE, peers |-> base.peers \cup forks[b].peers]

(* One of the list: an earlier merge may have taken the fork or its root. *)
MergeFork(b) ==
    /\ pc = "merging"
    /\ b \in todo
    /\ todo' = todo \ {b}
    /\ pc' = IF todo = {b} THEN "merge" ELSE "merging"
    /\ IF b \in heads /\ forks[b].root \in heads
       THEN /\ heads' = heads \ {forks[b].root}
            /\ forks' = [forks EXCEPT ![b] = MergedFork(b), ![forks[b].root] = NewFork]
       ELSE UNCHANGED <<heads, forks>>
    /\ UNCHANGED <<reported, selected>>

-----------------------------------------------------------------------------
Selectable == {b \in heads : /\ ~forks[b].malicious
                             /\ FullyVerified(b)
                             /\ forks[b].peers # {}}

(* Timestamps, heights and loads narrow the choice further, and the head   *)
(* may have moved meanwhile: Select of module Head.                        *)
SelectFork ==
    /\ pc = "select"
    /\ selected' \in Selectable \cup {NoBlock}
    /\ pc' = "scan"
    /\ UNCHANGED <<reported, heads, forks, todo>>

ForksNext ==
    \/ Scan
    \/ \E b \in Blocks : \/ VerifyRaises(b)
                         \/ RejectHeader(b)
                         \/ VerifyFork(b)
    \/ StartMerge
    \/ \E b \in Blocks : MergeFork(b)
    \/ SelectFork

ForksSpec == ForksInit /\ [][ForksNext]_forksVars

-----------------------------------------------------------------------------
ForksTypeOK ==
    /\ reported \in [Peers -> Blocks \cup {NoBlock}]
    /\ heads \subseteq Blocks
    /\ forks \in [Blocks -> Fork]
    /\ pc \in {"scan", "verify", "merge", "merging", "select"}
    /\ todo \subseteq Blocks
    /\ selected \in Blocks \cup {NoBlock}

(* _is_fully_verified means what it says: every block from the fork's head *)
(* to its root, the root included, passed both checks, however many loads  *)
(* failed in between, wherever the root moved and whatever was merged.     *)
SegmentsVerified ==
    \A b \in heads : FullyVerified(b) =>
        /\ forks[b].root \in Chain[b]
        /\ Segment(b, forks[b].root) \cap (BadHeader \cup BadBody) = {}

(* Merging keeps the support of the forks it removes (worker.py:74): each  *)
(* peer with a head counts for exactly one fork, of the block it reported  *)
(* or of a descendant.                                                     *)
SupportKept ==
    \A p \in Peers :
        LET followed == {b \in heads : p \in forks[b].peers}
        IN  IF reported[p] = NoBlock THEN followed = {}
            ELSE \E b \in followed : followed = {b} /\ reported[p] \in Chain[b]
=============================================================================
