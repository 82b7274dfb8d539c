----------------------------- MODULE ChainProofs -----------------------------
(***************************************************************************)
(* Proofs about the choice among chains, for every tree of blocks.         *)
(*                                                                         *)
(* Head: what each thread wrote down before it lost the lock is related to *)
(* what it may find when it takes the lock again: that is the              *)
(* strengthening ThreadsOK.                                                *)
(*                                                                         *)
(* Forks: a fork's marks are sound on their own: its verified headers      *)
(* always end at its root, and its verified transactions at a block above  *)
(* which nothing was skipped (ForkOK).  Merging joins two segments at a    *)
(* shared block, which needs that both were fully verified when the list   *)
(* was made and still are when an earlier merge changed one of them        *)
(* (MergeOK).                                                              *)
(***************************************************************************)
EXTENDS Head, Forks, TLAPS

-----------------------------------------------------------------------------
(* The head.                                                               *)

ThreadsOK ==
    /\ handler # Waiting => handler.block \in Blocks /\ handler.hash \in Blocks
    /\ selector.pc # "idle" => selector.current \in Blocks
    /\ selector.pc # "idle" /\ selector.height # Unknown =>
          selector.height = Height[selector.current]
    /\ builder.pc = "announcing" => builder.made \in built \cap ownHeads

Inv == TypeOK /\ LatestIsHead /\ OnlyHeadsAnnounced /\ ThreadsOK

(* A block that names another as its parent is one higher. *)
LEMMA ChildHigher ==
    ASSUME NEW b \in Blocks, NEW p \in Blocks, Parent[b] = p
    PROVE  Height[b] > Height[p] /\ Height[b] \in Nat /\ Height[p] \in Nat
  BY HeadAssumption DEF HeadAssumption

(* The invariant holds once validate_blockchain is done. *)
LEMMA InitInv == Init => Inv
<1> SUFFICES ASSUME Init PROVE Inv
  OBVIOUS
<1>1. head \in Blocks /\ MaxHolders \in Nat /\ NoBlock \notin Blocks
  BY HeadAssumption DEF HeadAssumption, Init
<1>2. TypeOK
  BY <1>1 DEF Init, TypeOK, Maybe, Idle, Waiting, Resting, Unknown
<1>3. LatestIsHead /\ OnlyHeadsAnnounced
  BY DEF Init, LatestIsHead, OnlyHeadsAnnounced
<1>4. ThreadsOK
  BY DEF Init, ThreadsOK, Idle, Resting
<1> QED
  BY <1>2, <1>3, <1>4 DEF Inv

(* What a move of the head under the lock preserves, whoever makes it. *)
LEMMA HeadMoves ==
    ASSUME Inv, NEW h \in Blocks, NEW b \in {NoBlock, h}, NEW e, SetHeadIf(e, h, b)
    PROVE  /\ head' \in Blocks /\ latest' \in Maybe
           /\ LatestIsHead'
           /\ ownHeads \subseteq ownHeads' /\ ownHeads' \subseteq Own
  BY DEF SetHeadIf, SetHead, KeepHead, nodeHead, Inv, TypeOK, LatestIsHead, Maybe

(* What leaves the head alone keeps what the invariant says of it. *)
LEMMA HeadStays ==
    ASSUME Inv, KeepHead
    PROVE  /\ head' \in Blocks /\ latest' \in Maybe
           /\ LatestIsHead'
           /\ ownHeads' = ownHeads /\ ownHeads' \subseteq Own
  BY DEF KeepHead, nodeHead, Inv, TypeOK, LatestIsHead

(* The validation worker keeps the invariant. *)
LEMMA BuilderInv == Inv /\ BuilderStep => Inv'
<1> SUFFICES ASSUME Inv, BuilderStep PROVE Inv'
  OBVIOUS
<1> USE DEF Idle
<1>1. CASE StartRound \/ WorkerDies \/ SkipRound \/ StartBuilding \/ DropBlock
  <2>0. head \in Blocks /\ NoBlock \notin Blocks /\ builder.on \in Maybe /\ lastGood \in Blocks
        /\ (builder.pc # "idle" => builder.on \in Blocks)
    BY HeadAssumption DEF HeadAssumption, Inv, TypeOK, Maybe
  <2>1. /\ KeepHead
        /\ UNCHANGED <<built, announced, handler, holders, selector>>
        /\ lastGood' \in Blocks
    BY <1>1, <2>0 DEF StartRound, WorkerDies, SkipRound, StartBuilding, DropBlock
  <2>2. /\ builder' \in [pc: {"idle", "drawing", "building", "announcing", "dead"},
                         on: Maybe, made: Maybe]
        /\ builder'.pc # "idle" => builder'.on # NoBlock
        /\ builder'.pc # "announcing"
    <3>1. CASE StartRound
      BY <2>0, <3>1 DEF StartRound, Maybe
    <3>2. CASE StartBuilding
      BY <2>0, <3>2 DEF StartBuilding, Maybe
    <3>3. CASE SkipRound \/ DropBlock
      BY <3>3 DEF SkipRound, DropBlock, Maybe
    <3>4. CASE WorkerDies
      BY <2>0, <3>4 DEF WorkerDies, Maybe
    <3> QED
      BY <1>1, <3>1, <3>2, <3>3, <3>4
  <2>3. TypeOK' /\ LatestIsHead'
    BY <2>1, <2>2, HeadStays DEF Inv, TypeOK
  <2>4. OnlyHeadsAnnounced' /\ ThreadsOK'
    BY <2>1, <2>2, HeadStays DEF Inv, OnlyHeadsAnnounced, ThreadsOK
  <2> QED
    BY <2>3, <2>4 DEF Inv
<1>2. CASE FailRound
  <2>1. /\ builder' = Idle
        /\ UNCHANGED <<lastGood, built, announced, handler, holders, selector>>
    BY <1>2 DEF FailRound
  <2>2. PICK target \in StepTargets(builder.on) : StepBack(builder.on, target)
    BY <1>2 DEF FailRound
  <2>3. target \in Maybe
    BY <1>2, <2>2, HeadAssumption
       DEF HeadAssumption, FailRound, StepTargets, Inv, TypeOK, Maybe
  <2>4. /\ head' \in Blocks /\ latest' \in Maybe /\ LatestIsHead'
        /\ ownHeads \subseteq ownHeads' /\ ownHeads' \subseteq Own
    <3>1. CASE target \in {NoBlock, builder.on}
      BY <2>2, <3>1, HeadStays DEF StepBack
    <3>2. CASE target \notin {NoBlock, builder.on}
      <4>1. target \in Blocks /\ SetHeadIf(builder.on, target, NoBlock)
        BY <2>2, <2>3, <3>2 DEF StepBack, Maybe
      <4> QED
        BY <4>1, HeadMoves
    <3> QED
      BY <3>1, <3>2
  <2>5. TypeOK'
    BY <2>1, <2>4 DEF Inv, TypeOK, Maybe
  <2>6. OnlyHeadsAnnounced' /\ ThreadsOK'
    BY <2>1, <2>4 DEF Inv, OnlyHeadsAnnounced, ThreadsOK
  <2> QED
    BY <2>4, <2>5, <2>6 DEF Inv
<1>3. ASSUME NEW b \in Own, FinishBlock(b) PROVE Inv'
  <2>1. /\ built' = built \cup {b}
        /\ SetHeadIf(builder.on, b, b)
        /\ UNCHANGED <<announced, handler, holders, selector>>
        /\ b \in Blocks
    BY <1>3, HeadAssumption DEF HeadAssumption, FinishBlock, PublishOrDrop
  <2>2. /\ head' \in Blocks /\ latest' \in Maybe /\ LatestIsHead'
        /\ ownHeads \subseteq ownHeads' /\ ownHeads' \subseteq Own
    BY <2>1, HeadMoves
  <2>3. /\ lastGood' \in Blocks
        /\ builder' \in [pc: {"idle", "drawing", "building", "announcing", "dead"},
                         on: Maybe, made: Maybe]
        /\ builder'.pc # "idle" => builder'.on # NoBlock
        /\ builder'.pc = "announcing" => builder'.made = b /\ b \in ownHeads'
    <3>1. CASE head = builder.on
      <4>1. b \in ownHeads'
        BY <2>1, <3>1 DEF SetHeadIf, SetHead
      <4>2. /\ builder' = [pc |-> "announcing", on |-> builder.on, made |-> b]
            /\ lastGood' = b
        BY <1>3, <3>1 DEF FinishBlock, PublishOrDrop
      <4> QED
        BY <1>3, <2>1, <4>1, <4>2 DEF FinishBlock, Inv, TypeOK, Maybe
    <3>2. CASE head # builder.on
      BY <1>3, <3>2 DEF FinishBlock, PublishOrDrop, Inv, TypeOK, Maybe
    <3> QED
      BY <3>1, <3>2
  <2>4. TypeOK'
    BY <2>1, <2>2, <2>3 DEF Inv, TypeOK
  <2>5. OnlyHeadsAnnounced' /\ ThreadsOK'
    BY <2>1, <2>2, <2>3 DEF Inv, OnlyHeadsAnnounced, ThreadsOK
  <2> QED
    BY <2>2, <2>4, <2>5 DEF Inv
<1>4. CASE AnnounceBlock
  <2>1. /\ builder.made \in built \cap ownHeads
        /\ announced' = announced \cup {builder.made}
        /\ builder' = Idle
        /\ KeepHead
        /\ UNCHANGED <<lastGood, built, handler, holders, selector>>
    BY <1>4 DEF AnnounceBlock, Inv, ThreadsOK
  <2>2. TypeOK' /\ LatestIsHead'
    BY <2>1, HeadStays DEF Inv, TypeOK, Maybe
  <2>3. OnlyHeadsAnnounced' /\ ThreadsOK'
    BY <2>1, HeadStays DEF Inv, OnlyHeadsAnnounced, ThreadsOK
  <2> QED
    BY <2>2, <2>3 DEF Inv
<1> QED
  BY <1>1, <1>2, <1>3, <1>4 DEF BuilderStep

(* record_block_holder keeps the holders within their bound. *)
LEMMA HolderBound ==
    ASSUME TypeOK, NEW b \in Blocks
    PROVE  WithHolder(b) \in Seq(Blocks) /\ Len(WithHolder(b)) <= MaxHolders
<1>1. MaxHolders \in Nat /\ MaxHolders >= 1 /\ holders \in Seq(Blocks) /\ Len(holders) <= MaxHolders
  BY HeadAssumption DEF HeadAssumption, TypeOK
<1>2. CASE Len(holders) < MaxHolders
  BY <1>1, <1>2 DEF WithHolder
<1>3. CASE ~(Len(holders) < MaxHolders)
  <2>1. holders # << >>
    BY <1>1, <1>3
  <2>2. Tail(holders) \in Seq(Blocks) /\ Len(Tail(holders)) = Len(holders) - 1
    BY <1>1, <2>1
  <2> QED
    BY <1>1, <1>3, <2>2 DEF WithHolder
<1> QED
  BY <1>2, <1>3

(* The message thread keeps the invariant. *)
LEMMA MessageInv == Inv /\ MessageStep => Inv'
<1> SUFFICES ASSUME Inv, MessageStep PROVE Inv'
  OBVIOUS
<1>1. /\ NoBlock \notin Blocks /\ NoBlock \in Maybe /\ Blocks \subseteq Maybe
      /\ head \in Blocks /\ latest \in Maybe
  BY HeadAssumption DEF HeadAssumption, Inv, TypeOK, Maybe
<1>2. ASSUME NEW b \in Blocks, ReceiveBlock(b) PROVE Inv'
  <2>1. /\ handler' = [block |-> b, hash |-> head, latest |-> latest]
        /\ KeepHead
        /\ UNCHANGED <<builder, lastGood, built, announced, holders, selector>>
    BY <1>2 DEF ReceiveBlock
  <2>2. handler'.block \in Blocks /\ handler'.hash \in Blocks
    BY <1>1, <2>1
  <2>3. TypeOK'
    BY <1>1, <2>1, HeadStays DEF Inv, TypeOK
  <2>4. OnlyHeadsAnnounced' /\ ThreadsOK'
    BY <2>1, <2>2, HeadStays DEF Inv, OnlyHeadsAnnounced, ThreadsOK
  <2> QED
    BY <2>1, <2>3, <2>4, HeadStays DEF Inv
<1>3. ASSUME NEW b \in Blocks, SeedPing(b) PROVE Inv'
  <2>1. /\ FollowPing(b)
        /\ UNCHANGED <<builder, lastGood, built, announced, handler, holders, selector>>
    BY <1>3 DEF SeedPing
  <2>2. /\ head' \in Blocks /\ latest' \in Maybe /\ LatestIsHead'
        /\ ownHeads \subseteq ownHeads' /\ ownHeads' \subseteq Own
    <3>1. CASE head # b
      BY <1>1, <2>1, <3>1 DEF FollowPing, SetHead, LatestIsHead, Inv, TypeOK
    <3>2. CASE head = b
      BY <2>1, <3>2, HeadStays DEF FollowPing
    <3> QED
      BY <3>1, <3>2
  <2>3. TypeOK'
    BY <2>1, <2>2 DEF Inv, TypeOK
  <2>4. OnlyHeadsAnnounced' /\ ThreadsOK'
    BY <2>1, <2>2 DEF Inv, OnlyHeadsAnnounced, ThreadsOK
  <2> QED
    BY <2>2, <2>3, <2>4 DEF Inv
<1>4. CASE DropNotOurs \/ DropInvalid
  <2>1. /\ handler' = Waiting
        /\ KeepHead
        /\ UNCHANGED <<builder, lastGood, built, announced, holders, selector>>
    BY <1>4 DEF DropNotOurs, DropInvalid
  <2>2. handler' \in [block: Maybe, hash: Maybe, latest: Maybe]
    BY <1>1, <2>1 DEF Waiting
  <2>3. TypeOK'
    BY <2>1, <2>2, HeadStays DEF Inv, TypeOK
  <2>4. OnlyHeadsAnnounced' /\ ThreadsOK'
    BY <2>1, HeadStays DEF Inv, OnlyHeadsAnnounced, ThreadsOK, Waiting
  <2> QED
    BY <2>1, <2>3, <2>4, HeadStays DEF Inv
<1>5. CASE AdoptBlock
  <2>1. /\ handler.block \in Blocks
        /\ holders' = WithHolder(handler.block)
        /\ SetHeadIf(handler.hash, handler.block, handler.block)
        /\ handler' = Waiting
        /\ UNCHANGED <<builder, lastGood, built, announced, selector>>
    BY <1>5 DEF AdoptBlock, Inv, ThreadsOK
  <2>2. /\ head' \in Blocks /\ latest' \in Maybe /\ LatestIsHead'
        /\ ownHeads \subseteq ownHeads' /\ ownHeads' \subseteq Own
    BY <2>1, HeadMoves
  <2>3. holders' \in Seq(Blocks) /\ Len(holders') <= MaxHolders
    BY <2>1, HolderBound DEF Inv
  <2>4. handler' \in [block: Maybe, hash: Maybe, latest: Maybe]
    BY <1>1, <2>1 DEF Waiting
  <2>5. TypeOK'
    BY <2>1, <2>2, <2>3, <2>4 DEF Inv, TypeOK
  <2>6. OnlyHeadsAnnounced' /\ ThreadsOK'
    BY <2>1, <2>2 DEF Inv, OnlyHeadsAnnounced, ThreadsOK, Waiting
  <2> QED
    BY <2>2, <2>5, <2>6 DEF Inv
<1> QED
  BY <1>2, <1>3, <1>4, <1>5 DEF MessageStep

(* The verification worker keeps the invariant. *)
LEMMA SelectInv == Inv /\ SelectStep => Inv'
<1> SUFFICES ASSUME Inv, SelectStep PROVE Inv'
  OBVIOUS
<1>1. /\ NoBlock \in Maybe /\ Blocks \subseteq Maybe /\ Unknown \notin Nat
      /\ head \in Blocks /\ Height \in [Blocks -> Nat]
  BY HeadAssumption DEF HeadAssumption, Inv, TypeOK, Maybe, Unknown
<1>2. CASE StartSelect \/ MeasureHead
  <2>1. /\ KeepHead
        /\ UNCHANGED <<builder, lastGood, built, announced, handler, holders>>
    BY <1>2 DEF StartSelect, MeasureHead
  <2>2. /\ selector' \in [pc: {"idle", "measuring", "selecting"}, current: Maybe,
                          height: Nat \cup {Unknown}]
        /\ selector'.current \in Blocks
        /\ selector'.height # Unknown => selector'.height = Height[selector'.current]
    <3>1. CASE StartSelect
      BY <1>1, <3>1 DEF StartSelect
    <3>2. CASE MeasureHead
      <4>1. selector.current \in Blocks
        BY <3>2 DEF MeasureHead, Inv, ThreadsOK
      <4>2. PICK h \in Heights(selector.current) :
              selector' = [pc |-> "selecting", current |-> selector.current, height |-> h]
        BY <3>2 DEF MeasureHead
      <4>3. h = Unknown \/ h = Height[selector.current]
        BY <4>2 DEF Heights
      <4> QED
        BY <1>1, <4>1, <4>2, <4>3
    <3> QED
      BY <1>2, <3>1, <3>2
  <2>3. TypeOK'
    BY <2>1, <2>2, HeadStays DEF Inv, TypeOK
  <2>4. OnlyHeadsAnnounced' /\ ThreadsOK'
    BY <2>1, <2>2, HeadStays DEF Inv, OnlyHeadsAnnounced, ThreadsOK
  <2> QED
    BY <2>1, <2>3, <2>4, HeadStays DEF Inv
<1>3. CASE Select
  <2>1. /\ selector' = Resting
        /\ UNCHANGED <<builder, lastGood, built, announced, handler, holders>>
    BY <1>3 DEF Select
  <2>2. KeepHead \/ \E b \in Blocks : SetHeadIf(selector.current, b, b)
    BY <1>3 DEF Select, Eligible, Verifiable
  <2>3. /\ head' \in Blocks /\ latest' \in Maybe /\ LatestIsHead'
        /\ ownHeads \subseteq ownHeads' /\ ownHeads' \subseteq Own
    BY <2>2, HeadMoves, HeadStays
  <2>4. TypeOK'
    BY <1>1, <2>1, <2>3 DEF Inv, TypeOK, Resting
  <2>5. OnlyHeadsAnnounced' /\ ThreadsOK'
    BY <2>1, <2>3 DEF Inv, OnlyHeadsAnnounced, ThreadsOK, Resting
  <2> QED
    BY <2>3, <2>4, <2>5 DEF Inv
<1> QED
  BY <1>2, <1>3 DEF SelectStep

(* The inductive invariant holds in every reachable state. *)
LEMMA SpecInv == Spec => []Inv
<1>1. Inv /\ [Next]_vars => Inv'
  <2> SUFFICES ASSUME Inv, [Next]_vars PROVE Inv'
    OBVIOUS
  <2>1. CASE Next
    BY <2>1, BuilderInv, MessageInv, SelectInv DEF Next
  <2>2. CASE UNCHANGED vars
    BY <2>2 DEF vars, nodeHead, Inv, TypeOK, LatestIsHead, OnlyHeadsAnnounced, ThreadsOK
  <2> QED
    BY <2>1, <2>2
<1> QED
  BY <1>1, InitInv, PTL DEF Spec

-----------------------------------------------------------------------------
(* The theorems.                                                           *)

(* Types, and the bound of the holders of a node that runs for ever.       *)
THEOREM TypeCorrect == Spec => []TypeOK
<1>1. Inv => TypeOK
  BY DEF Inv
<1> QED
  BY <1>1, SpecInv, PTL

(* The three threads never leave the hash of one block with the object of  *)
(* another.                                                                *)
THEOREM LatestAgrees == Spec => []LatestIsHead
<1>1. Inv => LatestIsHead
  BY DEF Inv
<1> QED
  BY <1>1, SpecInv, PTL

(* A block that lost the race for the head is never announced.             *)
THEOREM LosersNotAnnounced == Spec => []OnlyHeadsAnnounced
<1>1. Inv => OnlyHeadsAnnounced
  BY DEF Inv
<1> QED
  BY <1>1, SpecInv, PTL

(* A selection compared heights with the head it read first; it only takes *)
(* effect if that is still the head.                                       *)
LEMMA SelectUp == Inv /\ Select => MovesUp
<1> SUFFICES ASSUME Inv, Select, head' # head, selector.height # Unknown
             PROVE  Height[head'] > Height[head] \/ Height[head'] = Height[head]
  BY DEF MovesUp, Select
<1>1. selector.current \in Blocks /\ selector.height = Height[selector.current]
  BY DEF Select, Inv, ThreadsOK
<1>2. PICK tips \in SUBSET Verifiable : \E b \in Eligible(tips) : SetHeadIf(selector.current, b, b)
  BY DEF Select, KeepHead, nodeHead
<1> PICK b \in Eligible(tips) : SetHeadIf(selector.current, b, b)
  BY <1>2
<1>3. b \in Blocks /\ Height[b] >= selector.height
  BY DEF Eligible, Verifiable
<1>4. head = selector.current /\ head' = b
  BY DEF SetHeadIf, SetHead, KeepHead, nodeHead
<1>5. Height[b] \in Nat /\ Height[head] \in Nat
  BY <1>1, <1>3, <1>4, HeadAssumption DEF HeadAssumption
<1> QED
  BY <1>1, <1>3, <1>4, <1>5

(* The head of a node falls only by a walk back, by the default seed, or   *)
(* by a selection that could not read the head it replaces.                *)
THEOREM HeadNeverFalls == Spec => NeverLower
<1>1. ASSUME Inv, [Next]_vars PROVE [MovesUp]_vars
  <2>0. /\ head \in Blocks /\ NoBlock \notin Blocks
        /\ UNCHANGED <<head, latest>> => MovesUp
    BY <1>1, HeadAssumption DEF HeadAssumption, Inv, TypeOK, MovesUp
  <2>1. KeepHead => MovesUp
    BY <2>0 DEF KeepHead, nodeHead
  <2>2. ASSUME NEW e, NEW b \in Blocks, SetHeadIf(e, b, b), Parent[b] = e, e \in Blocks
        PROVE  MovesUp
    BY <2>1, <2>2, ChildHigher DEF SetHeadIf, SetHead, MovesUp
  <2>3. ASSUME BuilderStep PROVE MovesUp
    <3>1. CASE FailRound
      <4>1. PICK target \in StepTargets(builder.on) : StepBack(builder.on, target)
        BY <3>1 DEF FailRound
      <4> QED
        BY <4>1, <2>1 DEF StepBack, SetHeadIf, SetHead, MovesUp
    <3>2. ASSUME NEW b \in Own, FinishBlock(b) PROVE MovesUp
      <4>1. b \in Blocks /\ Parent[b] = builder.on /\ SetHeadIf(builder.on, b, b)
        BY <3>2, HeadAssumption DEF HeadAssumption, FinishBlock, PublishOrDrop
      <4>2. builder.on \in Blocks
        BY <1>1, <3>2 DEF FinishBlock, Inv, TypeOK, Maybe
      <4> QED
        BY <4>1, <4>2, <2>2
    <3> QED
      BY <2>1, <2>3, <3>1, <3>2
         DEF BuilderStep, StartRound, WorkerDies, SkipRound, StartBuilding, DropBlock, AnnounceBlock
  <2>4. ASSUME MessageStep PROVE MovesUp
    <3>1. CASE AdoptBlock
      <4>1. /\ handler.block \in Blocks /\ handler.hash \in Blocks
            /\ Parent[handler.block] = handler.hash
            /\ SetHeadIf(handler.hash, handler.block, handler.block)
        BY <1>1, <3>1 DEF AdoptBlock, ExtendsSnapshot, Inv, ThreadsOK
      <4> QED
        BY <4>1, <2>2
    <3>2. ASSUME NEW b \in Blocks, SeedPing(b) PROVE MovesUp
      BY <2>1, <3>2 DEF SeedPing, FollowPing, SetHead, MovesUp
    <3> QED
      BY <2>1, <2>4, <3>1, <3>2 DEF MessageStep, ReceiveBlock, DropNotOurs, DropInvalid
  <2>5. ASSUME SelectStep PROVE MovesUp
    BY <1>1, <2>1, <2>5, SelectUp DEF SelectStep, StartSelect, MeasureHead
  <2> QED
    BY <1>1, <2>3, <2>4, <2>5 DEF Next
<1> QED
  BY <1>1, SpecInv, PTL DEF Spec, NeverLower

-----------------------------------------------------------------------------
(* The forks.                                                              *)

ForkOK(b, f) ==
    /\ f.root # Zero => f.root \in Chain[b] \ {b}
    /\ f.header # NoBlock =>
         /\ f.header = f.root
         /\ f.root # Zero => Segment(b, f.root) \cap BadHeader = {}
    /\ f.txs # NoBlock =>
         /\ f.txs \in Chain[b]
         /\ Segment(b, f.txs) \cap BadBody = {}

MergeOK ==
    pc = "merging" =>
        \A b \in todo : b \in heads /\ forks[b].root \in heads =>
            FullyVerified(b) /\ FullyVerified(forks[b].root)

ForksOK == \A b \in Blocks : ForkOK(b, forks[b])

ForksInv == ForksTypeOK /\ ForksOK /\ MergeOK /\ SupportKept

-----------------------------------------------------------------------------
(* Lemmas about segments. *)

LEMMA SegmentInChain ==
    ASSUME NEW b \in Blocks, NEW r
    PROVE  Segment(b, r) \subseteq Chain[b] /\ Chain[b] \subseteq Blocks
BY ForksAssumption DEF ForksAssumption, Segment

(* A path through a block splits there. *)
LEMMA SegmentSplits ==
    ASSUME NEW b \in Blocks, NEW m \in Chain[b], NEW r \in Chain[m]
    PROVE  /\ r \in Chain[b]
           /\ Segment(b, r) \subseteq Segment(b, m) \cup Segment(m, r)
BY ForksAssumption DEF ForksAssumption, Segment

(* Nothing rejected lies above the first block where the pass ends, and    *)
(* that block is not rejected itself.                                      *)
LEMMA HeadersSound ==
    ASSUME NEW b \in Blocks, NEW stop \in Blocks \ BadHeader, HeaderPassEnds(b, stop)
    PROVE  stop \in Chain[b] /\ Segment(b, stop) \cap BadHeader = {}
<1>1. stop \in Chain[b] /\ Chain[b] \cap BadHeader \subseteq Chain[stop]
  BY DEF HeaderPassEnds
<1>2. ASSUME NEW c \in Segment(b, stop), c \in BadHeader PROVE FALSE
  <2>1. c \in Chain[b] /\ stop \in Chain[c]
    BY DEF Segment
  <2>2. c \in Chain[stop] /\ c \in Blocks
    BY <1>1, <1>2, <2>1, SegmentInChain
  <2>3. c = stop
    BY <2>1, <2>2, ForksAssumption DEF ForksAssumption
  <2> QED BY <2>3, <1>2
<1> QED BY <1>1, <1>2

(* What the two passes make of a fork is a fork, with sound marks and the  *)
(* peers it had.                                                           *)
LEMMA PassesSound ==
    ASSUME ForksTypeOK, NEW b \in Blocks, ForkOK(b, forks[b]),
           NEW stop \in Blocks \ BadHeader, HeaderPassEnds(b, stop),
           NEW f \in BodiesVerified(b, HeadersVerified(b, stop), stop)
    PROVE  f \in Fork /\ ForkOK(b, f) /\ f.peers = forks[b].peers
<1> DEFINE g == HeadersVerified(b, stop)
           root == IF stop \in (heads \ {b}) \cup {forks[b].root} THEN stop ELSE Zero
<1>1. forks[b] \in Fork /\ Zero \notin Blocks /\ NoBlock \notin Blocks /\ Zero # NoBlock
  BY ForksAssumption DEF ForksAssumption, ForksTypeOK
<1>2. stop \in Chain[b] /\ Segment(b, stop) \cap BadHeader = {}
  BY HeadersSound
<1>3. /\ g = [forks[b] EXCEPT !.root = root, !.header = root]
      /\ root \in {stop, Zero}
      /\ root # Zero => root # b
  BY <1>1 DEF HeadersVerified, ForkOK
<1>4. /\ g \in Fork /\ g.peers = forks[b].peers
      /\ g.root = root /\ g.header = root /\ g.txs = forks[b].txs
  BY <1>1, <1>3 DEF Fork
<1>5. ForkOK(b, g)
  BY <1>2, <1>3, <1>4 DEF ForkOK
<1>6. ASSUME NEW c \in Segment(b, stop), Segment(b, c) \cap BadBody = {}, NEW m \in BOOLEAN
      PROVE  LET h == [g EXCEPT !.malicious = m, !.txs = c]
             IN  h \in Fork /\ ForkOK(b, h) /\ h.peers = forks[b].peers
  <2>1. c \in Chain[b] /\ c \in Blocks
    BY SegmentInChain
  <2> QED BY <1>4, <1>5, <1>6, <2>1 DEF Fork, ForkOK
<1>7. CASE f = g
  BY <1>4, <1>5, <1>7
<1>8. CASE f = [g EXCEPT !.malicious = TRUE]
  BY <1>4, <1>5, <1>8 DEF Fork, ForkOK
<1>9. CASE \E c \in Segment(b, stop) : Segment(b, c) \cap BadBody = {} /\ f = [g EXCEPT !.txs = c]
  <2>1. PICK c \in Segment(b, stop) : Segment(b, c) \cap BadBody = {} /\ f = [g EXCEPT !.txs = c]
    BY <1>9
  <2>2. f = [g EXCEPT !.malicious = g.malicious, !.txs = c] /\ g.malicious \in BOOLEAN
    BY <1>4, <2>1 DEF Fork
  <2> QED BY <1>6, <2>1, <2>2
<1>10. CASE \E c \in Segment(b, stop), r \in Segment(b, stop) :
              /\ Segment(b, r) \cap BadBody = {r}
              /\ Segment(b, c) = Segment(b, r) \ {r}
              /\ f = [g EXCEPT !.malicious = TRUE, !.txs = c]
  BY <1>6, <1>10
<1> QED BY <1>7, <1>8, <1>9, <1>10 DEF BodiesVerified

(* Two fully verified forks, end to end, are one. *)
LEMMA MergeSound ==
    ASSUME ForksTypeOK, NEW b \in Blocks, ForkOK(b, forks[b]), FullyVerified(b),
           forks[b].root \in Blocks, ForkOK(forks[b].root, forks[forks[b].root]),
           FullyVerified(forks[b].root)
    PROVE  /\ MergedFork(b) \in Fork
           /\ ForkOK(b, MergedFork(b))
           /\ MergedFork(b).header = MergedFork(b).root
           /\ MergedFork(b).txs = MergedFork(b).root
<1> DEFINE m == forks[b].root
           r == forks[m].root
<1>1. /\ forks[b] \in Fork /\ forks[m] \in Fork
      /\ Zero \notin Blocks /\ NoBlock \notin Blocks /\ Zero # NoBlock
  BY ForksAssumption DEF ForksAssumption, ForksTypeOK
<1>2. forks[b].header = m /\ forks[b].txs = m /\ forks[m].header = r /\ forks[m].txs = r
  BY DEF FullyVerified
<1>3. r \in Blocks
  BY <1>1, <1>2 DEF Fork
<1>4. m \in Chain[b] \ {b} /\ r \in Chain[m] \ {m}
  BY <1>1, <1>3 DEF ForkOK
<1>5. Segment(b, m) \cap (BadHeader \cup BadBody) = {}
  BY <1>1, <1>2 DEF ForkOK
<1>6. Segment(m, r) \cap (BadHeader \cup BadBody) = {}
  BY <1>1, <1>2, <1>3 DEF ForkOK
<1>7. r \in Chain[b] /\ Segment(b, r) \cap (BadHeader \cup BadBody) = {}
  BY <1>4, <1>5, <1>6, SegmentSplits
<1>8. r # b
  BY <1>4, <1>3, ForksAssumption DEF ForksAssumption
<1>9. MergedFork(b) = [root |-> r, header |-> r, txs |-> r, malicious |-> FALSE,
                       peers |-> forks[m].peers \cup forks[b].peers]
  BY DEF MergedFork
<1>10. MergedFork(b) \in Fork
  BY <1>1, <1>3, <1>9 DEF Fork
<1> QED BY <1>7, <1>8, <1>9, <1>10 DEF ForkOK

LEMMA NewForkOK ==
    /\ NewFork \in Fork
    /\ \A b, peers : ForkOK(b, NewFork) /\ ForkOK(b, [NewFork EXCEPT !.peers = peers])
BY ForksAssumption DEF ForksAssumption, NewFork, Fork, ForkOK

-----------------------------------------------------------------------------
(* The invariant. *)

(* A node starts without forks. *)
LEMMA ForksInitInv == ForksInit => ForksInv
<1> SUFFICES ASSUME ForksInit PROVE ForksInv
  OBVIOUS
<1>1. ForksTypeOK
  BY NewForkOK DEF ForksInit, ForksTypeOK
<1>2. ForksOK
  BY NewForkOK DEF ForksInit, ForksOK
<1>3. MergeOK /\ SupportKept
  BY DEF ForksInit, MergeOK, SupportKept
<1> QED BY <1>1, <1>2, <1>3 DEF ForksInv

(* A scan gives every fork the peers that report its head, and no others. *)
LEMMA ScanInv == ForksInv /\ Scan => ForksInv'
<1> SUFFICES ASSUME ForksInv, Scan PROVE ForksInv'
  OBVIOUS
<1>1. PICK heard \in [Peers -> Blocks \cup {NoBlock}] :
        /\ reported' = heard
        /\ heads' = heads \cup ReportedHeads(heard)
        /\ forks' = [b \in Blocks |->
                       [forks[b] EXCEPT !.peers = {p \in Peers : heard[p] = b}]]
  BY DEF Scan
<1>2. heads' \subseteq Blocks /\ todo' = heads' /\ pc' \in {"scan", "verify"} /\ selected' = NoBlock
  BY <1>1 DEF Scan, ReportedHeads, ForksInv, ForksTypeOK
<1>3. ASSUME NEW b \in Blocks
      PROVE  /\ forks'[b] \in Fork
             /\ ForkOK(b, forks'[b])
             /\ forks'[b].peers = {p \in Peers : reported'[p] = b}
  <2>1. forks[b] \in Fork /\ ForkOK(b, forks[b])
    BY DEF ForksInv, ForksTypeOK, ForksOK
  <2>2. forks'[b] = [forks[b] EXCEPT !.peers = {p \in Peers : heard[p] = b}]
    BY <1>1
  <2> QED BY <1>1, <2>1, <2>2 DEF Fork, ForkOK
<1>4. ForksTypeOK'
  BY <1>1, <1>2, <1>3 DEF ForksTypeOK
<1>5. ForksOK' /\ MergeOK'
  BY <1>2, <1>3 DEF ForksOK, MergeOK
<1>6. ASSUME NEW p \in Peers, reported'[p] = NoBlock
      PROVE  {b \in heads' : p \in forks'[b].peers} = {}
  BY <1>2, <1>3, <1>6, ForksAssumption DEF ForksAssumption
<1>7. ASSUME NEW p \in Peers, reported'[p] # NoBlock
      PROVE  {b \in heads' : p \in forks'[b].peers} = {reported'[p]} /\ reported'[p] \in Blocks
  <2>1. reported'[p] \in heads' /\ reported'[p] \in Blocks
    BY <1>1, <1>7 DEF ReportedHeads
  <2> QED BY <1>2, <1>3, <2>1
<1>8. SupportKept'
  BY <1>6, <1>7, ForksAssumption DEF ForksAssumption, SupportKept
<1> QED BY <1>4, <1>5, <1>8 DEF ForksInv

(* Verifying a fork changes its marks only. *)
LEMMA VerifyInv ==
    ASSUME ForksInv, NEW b \in Blocks, VerifyNext(b),
           NEW f \in Fork, ForkOK(b, f), f.peers = forks[b].peers,
           forks' = [forks EXCEPT ![b] = f]
    PROVE  ForksInv'
<1>1. /\ todo' \subseteq Blocks /\ pc' \in {"verify", "merge"}
      /\ UNCHANGED <<reported, heads, selected>>
  BY DEF VerifyNext, ForksInv, ForksTypeOK
<1>2. ForksTypeOK'
  BY <1>1 DEF ForksInv, ForksTypeOK
<1>3. ForksOK' /\ MergeOK'
  BY <1>1 DEF ForksInv, ForksTypeOK, ForksOK, MergeOK
<1>4. \A c \in Blocks : forks'[c].peers = forks[c].peers
  BY DEF ForksInv, ForksTypeOK
<1>5. heads \subseteq Blocks
  BY DEF ForksInv, ForksTypeOK
<1>6. \A p : {c \in heads' : p \in forks'[c].peers} = {c \in heads : p \in forks[c].peers}
  BY <1>1, <1>4, <1>5
<1>7. SupportKept'
  BY <1>1, <1>6 DEF ForksInv, SupportKept
<1> QED BY <1>2, <1>3, <1>7 DEF ForksInv

(* Every fork on the list, and the one it is rooted at, is verified. *)
LEMMA StartMergeInv == ForksInv /\ StartMerge => ForksInv'
<1> SUFFICES ASSUME ForksInv, StartMerge PROVE ForksInv'
  OBVIOUS
<1>1. /\ todo' = MergeHeads /\ MergeHeads \subseteq heads
      /\ pc' \in {"select", "merging"}
      /\ UNCHANGED <<reported, heads, forks, selected>>
  BY DEF StartMerge, MergeHeads
<1>2. ForksTypeOK' /\ ForksOK' /\ SupportKept'
  BY <1>1 DEF ForksInv, ForksTypeOK, ForksOK, SupportKept
<1>3. MergeOK'
  BY <1>1 DEF MergeOK, MergeHeads, FullyVerified
<1> QED BY <1>2, <1>3 DEF ForksInv

(* Joining b to the fork at its root. *)
LEMMA JoinInv ==
    ASSUME ForksInv, NEW b \in Blocks, MergeFork(b), b \in heads, forks[b].root \in heads
    PROVE  ForksInv'
<1> DEFINE m == forks[b].root
<1>1. /\ pc = "merging" /\ b \in todo /\ todo' = todo \ {b} /\ pc' \in {"merge", "merging"}
      /\ heads' = heads \ {m}
      /\ forks' = [forks EXCEPT ![b] = MergedFork(b), ![m] = NewFork]
      /\ UNCHANGED <<reported, selected>>
  BY DEF MergeFork
<1>2. heads \subseteq Blocks /\ m \in Blocks /\ forks \in [Blocks -> Fork] /\ todo \subseteq Blocks
  BY DEF ForksInv, ForksTypeOK
<1>3. ForkOK(b, forks[b]) /\ ForkOK(m, forks[m]) /\ FullyVerified(b) /\ FullyVerified(m)
  BY <1>1, <1>2 DEF ForksInv, ForksOK, MergeOK
<1>4. m \in Chain[b] /\ m # b
  BY <1>2, <1>3, ForksAssumption DEF ForkOK, ForksAssumption
<1>5. /\ MergedFork(b) \in Fork /\ ForkOK(b, MergedFork(b))
      /\ MergedFork(b).header = MergedFork(b).root
      /\ MergedFork(b).txs = MergedFork(b).root
  BY <1>2, <1>3, MergeSound DEF ForksInv
<1>6. /\ forks'[b] = MergedFork(b) /\ forks'[m] = NewFork
      /\ \A c \in Blocks \ {b, m} : forks'[c] = forks[c]
      /\ forks' \in [Blocks -> Fork]
  BY <1>1, <1>2, <1>4, <1>5, NewForkOK
<1>7. ForksTypeOK'
  BY <1>1, <1>2, <1>6 DEF ForksInv, ForksTypeOK
<1>8. ForksOK'
  BY <1>5, <1>6, NewForkOK DEF ForksInv, ForksOK
<1>9. ASSUME NEW c \in todo', c \in heads', forks'[c].root \in heads'
      PROVE  FullyVerified(c)' /\ FullyVerified(forks[c].root)'
  <2>1. c \in Blocks \ {b, m} /\ c \in todo /\ c \in heads /\ forks'[c] = forks[c]
    BY <1>1, <1>2, <1>6, <1>9
  <2>2. forks[c].root \in heads /\ forks[c].root # m
    BY <1>1, <1>9, <2>1
  <2>3. FullyVerified(c) /\ FullyVerified(forks[c].root)
    BY <1>1, <2>1, <2>2 DEF ForksInv, MergeOK
  <2>4. FullyVerified(c)'
    BY <2>1, <2>3 DEF FullyVerified
  <2>5. CASE forks[c].root = b
    <3>1. /\ forks'[forks'[c].root] = MergedFork(b)
          /\ MergedFork(b).header = MergedFork(b).root
          /\ MergedFork(b).txs = MergedFork(b).root
      BY <1>5, <1>6, <2>1, <2>5
    <3>2. FullyVerified(forks[c].root)'
      BY <3>1 DEF FullyVerified
    <3> QED BY <2>4, <3>2
  <2>6. CASE forks[c].root # b
    <3>1. forks'[forks[c].root] = forks[forks[c].root]
      BY <1>2, <1>6, <2>2, <2>6
    <3> QED BY <2>1, <2>3, <3>1 DEF FullyVerified
  <2> QED BY <2>4, <2>5, <2>6
<1>10. MergeOK'
  BY <1>9 DEF MergeOK
<1>11. MergedFork(b).peers = forks[m].peers \cup forks[b].peers
  BY DEF MergedFork
<1>12. ASSUME NEW p \in Peers
       PROVE  LET before == {c \in heads : p \in forks[c].peers}
                  after == {c \in heads' : p \in forks'[c].peers}
              IN  after = IF m \in before THEN (before \ {m}) \cup {b} ELSE before
  <2>1. \A c \in heads' : p \in forks'[c].peers <=>
              p \in forks[c].peers \/ (c = b /\ p \in forks[m].peers)
    BY <1>1, <1>2, <1>6, <1>11
  <2> QED BY <1>1, <1>4, <2>1
<1>13. ASSUME NEW p \in Peers, reported[p] # NoBlock
       PROVE  \E c \in {c \in heads' : p \in forks'[c].peers} :
                 /\ {x \in heads' : p \in forks'[x].peers} = {c}
                 /\ reported[p] \in Chain[c]
  <2>1. PICK c \in {c \in heads : p \in forks[c].peers} :
           {x \in heads : p \in forks[x].peers} = {c} /\ reported[p] \in Chain[c]
    BY <1>13 DEF ForksInv, SupportKept
  <2>2. CASE c = m
    <3>1. {x \in heads' : p \in forks'[x].peers} = {b}
      BY <1>12, <2>1, <2>2
    <3>2. reported[p] \in Chain[b]
      BY <1>2, <1>4, <2>1, <2>2, ForksAssumption DEF ForksAssumption
    <3> QED BY <3>1, <3>2
  <2>3. CASE c # m
    <3>1. {x \in heads' : p \in forks'[x].peers} = {c}
      BY <1>12, <2>1, <2>3
    <3> QED BY <2>1, <3>1
  <2> QED BY <2>2, <2>3
<1>14. ASSUME NEW p \in Peers, reported[p] = NoBlock
       PROVE  {c \in heads' : p \in forks'[c].peers} = {}
  <2>1. {c \in heads : p \in forks[c].peers} = {}
    BY <1>14 DEF ForksInv, SupportKept
  <2> QED BY <1>12, <2>1
<1>15. SupportKept'
  BY <1>1, <1>13, <1>14 DEF SupportKept
<1> QED BY <1>7, <1>8, <1>10, <1>15 DEF ForksInv

LEMMA MergeInv == ASSUME ForksInv, NEW b \in Blocks, MergeFork(b) PROVE ForksInv'
<1>1. CASE b \in heads /\ forks[b].root \in heads
  BY <1>1, JoinInv
<1>2. CASE ~(b \in heads /\ forks[b].root \in heads)
  <2>1. /\ pc = "merging" /\ todo' \subseteq todo /\ pc' \in {"merge", "merging"}
        /\ UNCHANGED <<reported, heads, forks, selected>>
    BY <1>2 DEF MergeFork
  <2> QED BY <2>1 DEF ForksInv, ForksTypeOK, ForksOK, MergeOK, SupportKept, FullyVerified
<1> QED BY <1>1, <1>2

LEMMA SelectForkInv == ForksInv /\ SelectFork => ForksInv'
<1> SUFFICES ASSUME ForksInv, SelectFork PROVE ForksInv'
  OBVIOUS
<1>1. /\ selected' \in Blocks \cup {NoBlock} /\ pc' = "scan"
      /\ UNCHANGED <<reported, heads, forks, todo>>
  BY DEF SelectFork, Selectable, ForksInv, ForksTypeOK
<1> QED BY <1>1 DEF ForksInv, ForksTypeOK, ForksOK, MergeOK, SupportKept

LEMMA NextInv == ForksInv /\ [ForksNext]_forksVars => ForksInv'
<1> SUFFICES ASSUME ForksInv, [ForksNext]_forksVars PROVE ForksInv'
  OBVIOUS
<1>0. forks \in [Blocks -> Fork] /\ \A b \in Blocks : ForkOK(b, forks[b])
  BY DEF ForksInv, ForksTypeOK, ForksOK
<1>1. CASE Scan
  BY <1>1, ScanInv
<1>2. ASSUME NEW b \in Blocks, VerifyRaises(b) PROVE ForksInv'
  <2>1. forks' = [forks EXCEPT ![b] = forks[b]]
    BY <1>0, <1>2 DEF VerifyRaises
  <2> QED BY <1>0, <1>2, <2>1, VerifyInv DEF VerifyRaises
<1>3. ASSUME NEW b \in Blocks, RejectHeader(b) PROVE ForksInv'
  <2> DEFINE f == [forks[b] EXCEPT !.malicious = TRUE]
  <2>1. forks' = [forks EXCEPT ![b] = f]
    BY <1>3 DEF RejectHeader
  <2>2. forks[b] \in Fork /\ ForkOK(b, forks[b])
    BY <1>0
  <2>3. /\ f \in Fork
        /\ f.root = forks[b].root /\ f.header = forks[b].header
        /\ f.txs = forks[b].txs /\ f.peers = forks[b].peers
    BY <2>2 DEF Fork
  <2>4. ForkOK(b, f)
    BY <2>2, <2>3 DEF ForkOK
  <2> QED BY <1>3, <2>1, <2>3, <2>4, VerifyInv DEF RejectHeader
<1>4. ASSUME NEW b \in Blocks, VerifyFork(b) PROVE ForksInv'
  <2>1. PICK stop \in Blocks \ BadHeader :
          /\ HeaderPassEnds(b, stop)
          /\ \E f \in BodiesVerified(b, HeadersVerified(b, stop), stop) :
               forks' = [forks EXCEPT ![b] = f]
    BY <1>4 DEF VerifyFork
  <2>2. PICK f \in BodiesVerified(b, HeadersVerified(b, stop), stop) :
          forks' = [forks EXCEPT ![b] = f]
    BY <2>1
  <2>3. f \in Fork /\ ForkOK(b, f) /\ f.peers = forks[b].peers
    BY <1>0, <2>1, PassesSound DEF ForksInv
  <2> QED BY <1>4, <2>2, <2>3, VerifyInv DEF VerifyFork
<1>5. CASE StartMerge
  BY <1>5, StartMergeInv
<1>6. ASSUME NEW b \in Blocks, MergeFork(b) PROVE ForksInv'
  BY <1>6, MergeInv
<1>7. CASE SelectFork
  BY <1>7, SelectForkInv
<1>8. CASE UNCHANGED forksVars
  BY <1>8 DEF forksVars, ForksInv, ForksTypeOK, ForksOK, MergeOK, SupportKept, FullyVerified
<1> QED BY <1>1, <1>2, <1>3, <1>4, <1>5, <1>6, <1>7, <1>8 DEF ForksNext

LEMMA ForksSpecInv == ForksSpec => []ForksInv
BY ForksInitInv, NextInv, PTL DEF ForksSpec

-----------------------------------------------------------------------------
(* Every variable keeps its type. *)
THEOREM ForksTypeCorrect == ForksSpec => []ForksTypeOK
<1>1. ForksInv => ForksTypeOK
  BY DEF ForksInv
<1> QED BY <1>1, ForksSpecInv, PTL

(* A fork that counts as fully verified was verified block by block, from  *)
(* its head to its root, whatever failed and merged on the way.            *)
THEOREM VerifiedIsVerified == ForksSpec => []SegmentsVerified
<1>1. ForksInv => SegmentsVerified
  <2> SUFFICES ASSUME ForksInv, NEW b \in heads, FullyVerified(b)
               PROVE  /\ forks[b].root \in Chain[b]
                      /\ Segment(b, forks[b].root) \cap (BadHeader \cup BadBody) = {}
    BY DEF SegmentsVerified
  <2>1. b \in Blocks /\ forks[b] \in Fork /\ ForkOK(b, forks[b])
    BY DEF ForksInv, ForksTypeOK, ForksOK
  <2>2. forks[b].root \in Blocks /\ forks[b].root \notin {Zero, NoBlock}
    BY <2>1, ForksAssumption DEF ForksAssumption, FullyVerified, Fork
  <2> QED BY <2>1, <2>2 DEF FullyVerified, ForkOK
<1> QED BY <1>1, ForksSpecInv, PTL

(* No peer's support is lost or counted twice by the merging of forks. *)
THEOREM SupportNotLost == ForksSpec => []SupportKept
<1>1. ForksInv => SupportKept
  BY DEF ForksInv
<1> QED BY <1>1, ForksSpecInv, PTL
=============================================================================
