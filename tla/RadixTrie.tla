----------------------------- MODULE RadixTrie -----------------------------
(***************************************************************************)
(* The binary tries that hold accounts and records (storage/radix), as a   *)
(* builder writes them block by block and as another node reads them.      *)
(*                                                                         *)
(* A node of a trie is a cell named by its hash: here a cell is its        *)
(* content, a record whose pointers nest the cells they name.  A pointer   *)
(* to a cell that is new in the block is a plain hash (`in` is Here); one  *)
(* to an older cell is a stored ref that names the block whose record      *)
(* holds it.  A node that is loaded from block B reads its plain pointers  *)
(* as pointers into B.                                                     *)
(*                                                                         *)
(* Keys are hashes of one length: sequences of the bits at which keys of   *)
(* the instance part, ended by an element that stands for the rest of the  *)
(* hash and that no two keys share.                                        *)
(***************************************************************************)
EXTENDS Naturals, FiniteSets, SequencesExt

CONSTANTS Keys, Values,
          Here,         \* the block of a cell that no block has recorded
          Nil,          \* no child, no value, no root
          MaxBlocks,    \* bound: blocks the builder commits
          MaxOps,       \* bound: writes and reads by the builder
          MaxForgets,   \* bound: times the builder's storage is evicted
          MaxLosses,    \* bound: replies a reader loses
          Budget        \* cells a provider sends in one reply

ASSUME RadixAssumption ==
    /\ \A k1, k2 \in Keys : Len(k1) = Len(k2) /\ (k1 # k2 => Last(k1) # Last(k2))
    /\ Here \notin 1 .. MaxBlocks /\ Nil \notin Values
    /\ Budget \in Nat \ {0}

VARIABLES root, rootBlock, \* RadixTree.root_hash and .root_block
          nodes,           \* RadixTree.nodes: cell -> the block it was read from
          held,            \* cells and values in the builder's local storage
          record,          \* block -> what its providers hold
          chain,           \* block -> [root, contents] at its end
          contents,        \* history: what was last written, key -> value or Nil
          written,         \* history: keys written since the last block
          cut,             \* history: keys below a child that was overwritten
          ops, forgets,
          reader           \* another node: see Rest

tree == <<root, rootBlock, nodes>>
history == <<contents, written, cut>>
built == <<tree, held, record, chain, history, ops, forgets>>
vars == <<built, reader>>

Bits == {0, 1}
Blocks == DOMAIN chain
Rest == [pc |-> "idle", cell |-> Nil, block |-> Here, key |-> << >>, pos |-> 0, held |-> {},
         asked |-> FALSE, replies |-> {}, last |-> {}, confirmed |-> FALSE,
         result |-> Nil, losses |-> 0]

Init == /\ root = Nil /\ rootBlock = Here /\ nodes = << >>
        /\ held = {} /\ record = << >> /\ chain = << >>
        /\ contents = [k \in Keys |-> Nil] /\ written = {} /\ cut = {}
        /\ ops = 0 /\ forgets = 0
        /\ reader = Rest

-----------------------------------------------------------------------------
(* Cells, and reading them.                                                *)

Leaf(bits, v) == [bits |-> bits, val |-> [v |-> v, in |-> Here], kid |-> [b \in Bits |-> Nil]]

(* A pointer read from a cell of block `home` (read_pointer). *)
Resolved(ptr, home) ==
    IF ptr # Nil /\ ptr.in = Here THEN [ptr EXCEPT !.in = home] ELSE ptr

(* Faulty: a plain hash stays one, whatever block it was read from. *)
OpenedPlain(cell, home) == cell

(* The node a cell of block `home` decodes to: each pointer knows its      *)
(* block.  Encoding it again gives refs for what is older.                 *)
Opened(cell, home) ==
    [cell EXCEPT !.val = Resolved(@, home),
                 !.kid = [b \in Bits |-> Resolved(@[b], home)]]

Kids(cell, home) == {Opened(cell, home).kid[b] : b \in Bits} \ {Nil}

(* The store S holds the node in full, its value included. *)
InStore(S, cell) == cell \in S /\ (cell.val # Nil => cell.val.v \in S)

(* What a node and its value can be fetched from: the record of the block  *)
(* that the pointer names.                                                 *)
Provided(cell, home) ==
    /\ home \in Blocks /\ cell \in record[home]
    /\ cell.val # Nil =>
          LET source == Resolved(cell.val, home).in
          IN  source \in Blocks /\ cell.val.v \in record[source]

(* fetch_node_from_radix_tree: from the tree's nodes, local storage, or,   *)
(* when the network answers, the providers.                                *)
Fetchable(cell, home, up) ==
    \/ cell \in DOMAIN nodes
    \/ InStore(held, cell)
    \/ up /\ Provided(cell, home)

HomeOf(cell, home) == IF cell \in DOMAIN nodes THEN nodes[cell] ELSE home

IsPrefixAt(bits, key, pos) ==
    /\ pos + Len(bits) <= Len(key)
    /\ \A i \in 1 .. Len(bits) : bits[i] = key[pos + i]

(* The bits after position i. *)
From(bits, i) == SubSeq(bits, i + 1, Len(bits))

(***************************************************************************)
(* The walk to a key: `path` are the nodes passed, each with the bit taken *)
(* there; it ends at `cell` after `pos` bits matched.                      *)
(***************************************************************************)
RECURSIVE Walk(_, _, _, _, _, _)
Walk(cell, home, key, pos, path, up) ==
    LET from == HomeOf(cell, home)
        end(how, p) == [how |-> how, path |-> path, cell |-> cell, home |-> from, pos |-> p]
        next == pos + Len(cell.bits)
    IN  IF ~Fetchable(cell, home, up) THEN end("missing", pos)
        ELSE IF ~IsPrefixAt(cell.bits, key, pos) THEN end("apart", pos)
        ELSE IF next = Len(key) THEN end("found", next)
        ELSE LET bit == key[next + 1]
                 kid == Opened(cell, from).kid[bit]
             IN  IF kid = Nil THEN end("childless", next)
                 ELSE Walk(kid.cell, kid.in, key, next + 1,
                           Append(path, [cell |-> cell, home |-> from, bit |-> bit, pos |-> next]),
                           up)

WalkTo(key, up) == Walk(root, rootBlock, key, 0, << >>, up)

(* get_from_radix_tree: a walk that meets a missing node reads as absent. *)
Get(key, up) ==
    IF root = Nil THEN Nil
    ELSE LET w == WalkTo(key, up)
         IN  IF w.how = "found" /\ w.cell.val # Nil THEN w.cell.val.v ELSE Nil

(* get_all_from_radix_tree: a node that cannot be read raises. *)
RECURSIVE Entries(_, _, _)
Entries(cell, home, prefix) ==
    LET from == HomeOf(cell, home)
        bits == prefix \o cell.bits
        kid  == Opened(cell, from).kid
    IN  (IF cell.val = Nil THEN {} ELSE {<<bits, cell.val.v>>})
        \cup UNION {Entries(kid[b].cell, kid[b].in, Append(bits, b)) :
                       b \in {c \in Bits : kid[c] # Nil}}

GetAll == IF root = Nil THEN {} ELSE Entries(root, rootBlock, << >>)

-----------------------------------------------------------------------------
(* put_in_radix_tree.                                                      *)

(* Faulty: the rewritten pointer keeps the block of the cell it replaces. *)
WithChildKeepingBlock(step, cell) ==
    [Opened(step.cell, step.home) EXCEPT
        !.kid[step.bit] = [cell |-> cell, in |-> IF @ = Nil THEN Here ELSE @.in]]

(* A node of the path with its child replaced by a new cell. *)
WithChild(step, cell) ==
    [Opened(step.cell, step.home) EXCEPT !.kid[step.bit] = [cell |-> cell, in |-> Here]]

(* _bubble: the path rewritten above a new cell, the root first. *)
Spine(path, cell) ==
    LET spine[i \in 1 .. Len(path) + 1] ==
            IF i > Len(path) THEN cell ELSE WithChild(path[i], spine[i + 1])
    IN  spine

(* The tree after the cells `extra` were added and `cell` replaced what    *)
(* was at the end of the path, `old`.                                      *)
Replace(path, old, cell, extra) ==
    LET spine == Spine(path, cell)
        new   == Range(spine) \cup extra
        gone  == {path[i].cell : i \in 1 .. Len(path)} \cup old
    IN  /\ root' = spine[1]
        /\ rootBlock' = Here
        /\ nodes' = [c \in (DOMAIN nodes \ gone) \cup new |-> IF c \in new THEN Here ELSE nodes[c]]

(* The bits that two sequences share from their start. *)
Shared(s, t) ==
    CHOOSE n \in 0 .. Len(s) :
        /\ \A i \in 1 .. n : s[i] = t[i]
        /\ n < Len(s) => s[n + 1] # t[n + 1]

(* Faulty: the re-keyed node is left out of the split. *)
SplitDroppingOld(w, key, value) ==
    LET rest == From(key, w.pos)
        n    == Shared(w.cell.bits, rest)
        leaf == Leaf(From(rest, n + 1), value)
        fork == [bits |-> SubSeq(rest, 1, n), val |-> Nil,
                 kid  |-> [b \in Bits |-> IF b = rest[n + 1] THEN [cell |-> leaf, in |-> Here]
                                          ELSE Nil]]
    IN  Replace(w.path, {w.cell}, fork, {leaf})

(* _split_and_insert: an inner node with the old node, re-keyed, and the   *)
(* new leaf.  The old node's value and children keep their blocks.         *)
Split(w, key, value) ==
    LET rest == From(key, w.pos)
        n    == Shared(w.cell.bits, rest)
        leaf == Leaf(From(rest, n + 1), value)
        old  == [Opened(w.cell, w.home) EXCEPT !.bits = From(@, n + 1)]
        fork == [bits |-> SubSeq(rest, 1, n), val |-> Nil,
                 kid  |-> [b \in Bits |->
                             [cell |-> IF b = rest[n + 1] THEN leaf ELSE old, in |-> Here]]]
    IN  Replace(w.path, {w.cell}, fork, {leaf, old})

(* _append_leaf under the last node of `path`, at its bit. *)
AppendLeaf(path, key, value) ==
    LET leaf == Leaf(From(key, Last(path).pos + 1), value)
    IN  Replace(path, {}, leaf, {})

(* The nodes a walk read stay in the tree's nodes. *)
Cache(w) ==
    LET read == {<<w.path[i].cell, w.path[i].home>> : i \in 1 .. Len(w.path)}
                \cup IF w.how = "missing" THEN {} ELSE {<<w.cell, w.home>>}
    IN  /\ nodes' = [c \in DOMAIN nodes \cup {r[1] : r \in read} |->
                        IF c \in DOMAIN nodes THEN nodes[c]
                        ELSE (CHOOSE r \in read : r[1] = c)[2]]
        /\ UNCHANGED <<root, rootBlock>>

(* Fetched cells and values go to local storage. *)
Stored(w) ==
    LET read == {w.path[i].cell : i \in 1 .. Len(w.path)}
                \cup IF w.how = "missing" THEN {} ELSE {w.cell}
    IN  held \cup read \cup {c.val.v : c \in {d \in read : d.val # Nil}}

(* The other keys below the child that a path ends at. *)
Below(path, key) == {k \in Keys \ {key} : IsPrefixAt(SubSeq(key, 1, Last(path).pos + 1), k, 0)}

Put(key, value, up) ==
    /\ reader = Rest
    /\ ops < MaxOps
    /\ ops' = ops + 1
    /\ contents' = [contents EXCEPT ![key] = value]
    /\ IF root = Nil
       THEN /\ Replace(<< >>, {}, Leaf(key, value), {})
            /\ written' = written \cup {key}
            /\ UNCHANGED <<held, cut>>
       ELSE LET w == WalkTo(key, up)
                same == w.how = "found" /\ w.cell.val # Nil /\ w.cell.val.v = value
            IN  /\ w.how = "missing" => w.path # << >>
                /\ held' = Stored(w)
                /\ written' = IF same THEN written ELSE written \cup {key}
                /\ cut' = (cut \ {key})
                             \cup IF w.how = "missing" THEN Below(w.path, key) ELSE {}
                /\ CASE same -> Cache(w)
                     [] w.how = "found" /\ ~same ->
                           Replace(w.path, {w.cell},
                                   [Opened(w.cell, w.home) EXCEPT !.val = [v |-> value, in |-> Here]],
                                   {})
                     [] w.how = "apart" -> Split(w, key, value)
                     [] w.how = "childless" ->
                           AppendLeaf(Append(w.path, [cell |-> w.cell, home |-> w.home,
                                                      bit |-> key[w.pos + 1], pos |-> w.pos]),
                                      key, value)
                     \* a child that cannot be fetched is written over
                     [] w.how = "missing" -> AppendLeaf(w.path, key, value)
    /\ UNCHANGED <<record, chain, forgets, reader>>

(* get_from_radix_tree on the tree that is being built. *)
Read(key, up) ==
    /\ reader = Rest
    /\ root # Nil
    /\ ops < MaxOps
    /\ ops' = ops + 1
    /\ LET w == WalkTo(key, up)
       IN  Cache(w) /\ held' = Stored(w)
    /\ UNCHANGED <<record, chain, history, forgets, reader>>

-----------------------------------------------------------------------------
(* Blocks.                                                                 *)

(* walk_record_slots: a record covers what plain hashes reach. *)
RECURSIVE Plain(_)
Plain(cell) ==
    {cell} \cup (IF cell.val # Nil /\ cell.val.in = Here THEN {cell.val.v} ELSE {})
           \cup UNION {Plain(cell.kid[b].cell) :
                          b \in {c \in Bits : cell.kid[c] # Nil /\ cell.kid[c].in = Here}}

ValuesOf(cells) == {c.val.v : c \in {d \in cells : d.val # Nil}}

(* The block is finished: _trie_nodes_exprs writes every node the tree has *)
(* cached, the record is derived, and the next block opens the trie anew.  *)
(* A cell that is not there raises UnresolvedRecordExpr.                   *)
Commit ==
    LET b == Len(chain) + 1
        stored == held \cup DOMAIN nodes \cup ValuesOf(DOMAIN nodes)
    IN  /\ reader = Rest
        /\ root # Nil /\ b <= MaxBlocks
        /\ Plain(root) \subseteq stored
        /\ held' = stored
        /\ record' = Append(record, Plain(root))
        /\ chain' = Append(chain, [root |-> root, contents |-> contents, cut |-> cut,
                                   written |-> written])
        /\ rootBlock' = b
        /\ nodes' = << >>
        /\ written' = {}
        /\ UNCHANGED <<root, contents, cut, ops, forgets, reader>>

(* Between blocks the builder's storage may be evicted. *)
Forget ==
    /\ nodes = << >> /\ held # {} /\ forgets < MaxForgets
    /\ reader = Rest
    /\ held' = {}
    /\ forgets' = forgets + 1
    /\ UNCHANGED <<tree, record, chain, history, ops, reader>>

-----------------------------------------------------------------------------
(* Another node reads the trie of the last block, with nothing at first.   *)

(***************************************************************************)
(* collect_radix_all over the store S: the cells of the nodes held below   *)
(* `queue`, breadth first, and those not held in full.  `stay` keeps the   *)
(* walk in the block it starts from; `room` is what the reply may still    *)
(* take.                                                                   *)
(***************************************************************************)
RECURSIVE Collect(_, _, _, _, _)
Collect(S, queue, seen, stay, room) ==
    IF queue = << >> \/ room = 0 THEN [cells |-> {}, missing |-> {}]
    ELSE LET ptr  == Head(queue)
             sent == {ptr.cell} \cap S
         IN  IF ~InStore(S, ptr.cell)
             THEN LET rest == Collect(S, Tail(queue), seen, stay,
                                      IF sent = {} THEN room ELSE room - 1)
                  IN  [cells |-> sent \cup rest.cells, missing |-> {ptr} \cup rest.missing]
             ELSE LET kids == {p \in Kids(ptr.cell, ptr.in) :
                                  p.cell \notin seen /\ (stay => p.in = ptr.in)}
                      rest == Collect(S, Tail(queue) \o SetToSeq(kids),
                                      seen \cup {p.cell : p \in kids}, stay, room - 1)
                      val  == IF ptr.cell.val = Nil THEN {} ELSE {ptr.cell.val.v}
                  IN  [cells |-> {ptr.cell} \cup val \cup rest.cells, missing |-> rest.missing]

CollectBelow(S, cell, block, stay, room) ==
    Collect(S, <<[cell |-> cell, in |-> block]>>, {cell}, stay, room)

Unlimited == 100

(* What a provider of a block holds: the block's record, and perhaps, if   *)
(* it built or read the chain, everything older.                           *)
Holdings(b) == {record[b], UNION {record[c] : c \in 1 .. b}}

(* The provider's reply to RADIX_ALL: it knows no block of the node, so it *)
(* follows plain hashes only. *)
AllReply(S, cell) == CollectBelow(S, cell, Here, TRUE, Budget).cells

(* The provider's reply to RADIX_KEY, walk_radix_key over its own store:   *)
(* the nodes on the way that it holds in full, and the values they hold by *)
(* plain hash.                                                             *)
RECURSIVE KeyReply(_, _, _, _)
KeyReply(S, cell, key, pos) ==
    LET next == pos + Len(cell.bits)
        kid  == IF next < Len(key) THEN cell.kid[key[next + 1]] ELSE Nil
    IN  IF ~InStore(S, cell) THEN {}
        ELSE {cell} \cup (IF cell.val # Nil /\ cell.val.in = Here THEN {cell.val.v} ELSE {})
               \cup (IF ~IsPrefixAt(cell.bits, key, pos) \/ kid = Nil THEN {}
                     ELSE KeyReply(S, kid.cell, key, next + 1))

StartAll ==
    /\ reader = Rest /\ Len(chain) = MaxBlocks
    /\ reader' = [Rest EXCEPT !.pc = "all", !.cell = Last(chain).root, !.block = Len(chain)]
    /\ UNCHANGED built

(* Faulty: the walk does not leave the block it starts from. *)
MissingInBlock == CollectBelow(reader.held, reader.cell, reader.block, TRUE, Unlimited).missing

(* collect_radix_all with follow_refs: what the reader still lacks. *)
Missing == CollectBelow(reader.held, reader.cell, reader.block, FALSE, Unlimited).missing

(* A round of get_radix_all_from_network: one RADIX_ALL request to a       *)
(* provider of the block of each node that is missing. *)
AskRound ==
    /\ reader.pc = "all"
    /\ Missing # {} /\ Missing # reader.last
    /\ \E S \in [Missing -> UNION {Holdings(b) : b \in Blocks}] :
          /\ \A p \in Missing : S[p] \in Holdings(p.in)
          /\ reader' = [reader EXCEPT !.last = Missing, !.confirmed = FALSE,
                           !.replies = @ \cup {AllReply(S[p], p.cell) : p \in Missing}]
    /\ UNCHANGED built

(* "The handler may still be storing the last reply. Look once more." *)
LookAgain ==
    IF reader.confirmed THEN [reader EXCEPT !.pc = "done", !.result = FALSE]
    ELSE [reader EXCEPT !.confirmed = TRUE]

NoProgress ==
    /\ reader.pc = "all"
    /\ Missing # {} /\ Missing = reader.last
    /\ reader' = LookAgain
    /\ UNCHANGED built

Complete ==
    /\ reader.pc = "all"
    /\ Missing = {}
    /\ reader' = [reader EXCEPT !.pc = "done", !.result = TRUE]
    /\ UNCHANGED built

Arrive(reply) ==
    /\ reply \in reader.replies
    /\ reader.pc = "all"
    /\ reader' = [reader EXCEPT !.held = @ \cup reply, !.replies = @ \ {reply}]
    /\ UNCHANGED built

Lose(reply) ==
    /\ reply \in reader.replies
    /\ reader.pc = "all" /\ reader.losses < MaxLosses
    /\ reader' = [reader EXCEPT !.losses = @ + 1, !.replies = @ \ {reply}]
    /\ UNCHANGED built
-----------------------------------------------------------------------------
(* The same node looks one key up instead (_find_node with a key).         *)

StartKey(key) ==
    /\ reader = Rest /\ Len(chain) = MaxBlocks
    /\ reader' = [Rest EXCEPT !.pc = "key", !.key = key,
                     !.cell = Last(chain).root, !.block = Len(chain)]
    /\ UNCHANGED built

Readable == InStore(reader.held, reader.cell)

Answer(v) == [reader EXCEPT !.pc = "done", !.result = v]

(* One RADIX_KEY request from the first node that is missing. *)
AskKey ==
    /\ reader.pc = "key" /\ ~Readable /\ ~reader.asked
    /\ \/ \E S \in Holdings(reader.block) :
             reader' = [reader EXCEPT !.asked = TRUE,
                           !.held = @ \cup KeyReply(S, reader.cell, reader.key, reader.pos)]
       \/ /\ reader.losses < MaxLosses
          /\ reader' = [reader EXCEPT !.asked = TRUE, !.losses = @ + 1]
    /\ UNCHANGED built

(* A node that did not arrive that way is fetched on its own, and its      *)
(* value from the block that holds it; else it reads as absent.            *)
FetchNode ==
    /\ reader.pc = "key" /\ ~Readable /\ reader.asked
    /\ \/ /\ Provided(reader.cell, reader.block)
          /\ reader' = [reader EXCEPT !.held = @ \cup {reader.cell} \cup ValuesOf({reader.cell})]
       \/ /\ reader.losses < MaxLosses \/ ~Provided(reader.cell, reader.block)
          /\ reader' = [Answer(Nil) EXCEPT
                !.losses = IF Provided(reader.cell, reader.block) THEN @ + 1 ELSE @]
    /\ UNCHANGED built

Descend ==
    /\ reader.pc = "key" /\ Readable
    /\ LET next == reader.pos + Len(reader.cell.bits)
           kid  == Opened(reader.cell, reader.block).kid[reader.key[next + 1]]
       IN  reader' =
             IF ~IsPrefixAt(reader.cell.bits, reader.key, reader.pos) THEN Answer(Nil)
             ELSE IF next = Len(reader.key)
             THEN Answer(IF reader.cell.val = Nil THEN Nil ELSE reader.cell.val.v)
             ELSE IF kid = Nil THEN Answer(Nil)
             ELSE [reader EXCEPT !.cell = kid.cell, !.block = kid.in, !.pos = next + 1,
                                 !.asked = FALSE]
    /\ UNCHANGED built

BuilderStep ==
    \/ \E key \in Keys, up \in BOOLEAN :
          Read(key, up) \/ \E value \in Values : Put(key, value, up)
    \/ Commit \/ Forget

ReaderStep ==
    \/ StartAll \/ AskRound \/ NoProgress \/ Complete
    \/ \E reply \in reader.replies : Arrive(reply) \/ Lose(reply)
    \/ \E key \in Keys : StartKey(key)
    \/ AskKey \/ FetchNode \/ Descend

Next == BuilderStep \/ ReaderStep

Spec == Init /\ [][Next]_vars
-----------------------------------------------------------------------------
(* Properties.                                                             *)

(* The trie is a map: through splits, rewrites, refs, blocks and evictions *)
(* a lookup, and the enumeration of the whole trie, return what was last   *)
(* written.  Only keys below a child that could not be fetched during a    *)
(* write, and that the write replaced, are lost (put.py:98).               *)
ReadsAgree ==
    /\ \A k \in Keys \ cut : Get(k, TRUE) = contents[k]
    /\ {e \in GetAll : e[1] \notin cut} =
          {<<k, contents[k]>> : k \in {j \in Keys \ cut : contents[j] # Nil}}

(* The pointers a trie holds, below a node, with the blocks they name. *)
RECURSIVE Pointers(_, _)
Pointers(cell, home) ==
    {<<cell, home>>}
      \cup (IF cell.val = Nil THEN {} ELSE {<<cell.val.v, Resolved(cell.val, home).in>>})
      \cup UNION {Pointers(p.cell, p.in) : p \in Kids(cell, home)}

(* The positions of the nodes that plain hashes reach, as bits. *)
RECURSIVE PlainAt(_, _)
PlainAt(cell, at) ==
    {at} \cup UNION {PlainAt(cell.kid[b].cell, at \o cell.bits \o <<b>>) :
                        b \in {c \in Bits : cell.kid[c] # Nil /\ cell.kid[c].in = Here}}

(* The records of the blocks cover the trie exactly: every cell and value  *)
(* is in the record of the block its pointer names, whatever was written   *)
(* in which block, and a block records no node but those on the way to a   *)
(* key it wrote and their children, so nothing is stored and paid twice.   *)
RecordsExact ==
    \A b \in Blocks :
        /\ \A p \in Pointers(chain[b].root, b) : p[2] \in Blocks /\ p[1] \in record[p[2]]
        /\ chain[b].written # {} =>
              \A at \in PlainAt(chain[b].root, << >>) :
                 at # << >> => \E k \in chain[b].written : IsPrefixAt(Front(at), k, 0)

(* A reader that starts with nothing gets the trie, whole or one key, as   *)
(* the block left it: it reports failure or absence only when a reply was  *)
(* lost or is still on its way, or, for the whole trie, when a provider    *)
(* lacks a value that a re-keyed leaf refers to in an older block.         *)
ReaderGetsTrie ==
    reader.pc = "done" =>
        LET end == Last(chain)
        IN  IF reader.key # << >>
            THEN \/ reader.losses > 0
                 \/ reader.key \in end.cut
                 \/ reader.result = end.contents[reader.key]
            ELSE IF reader.result = TRUE
            THEN \A p \in Pointers(end.root, Len(chain)) : p[1] \in reader.held
            ELSE \/ reader.losses > 0 \/ reader.replies # {}
                 \/ \E p \in Missing :
                       /\ p.cell \in reader.held
                       /\ p.cell.val # Nil /\ p.cell.val.in # Here
=============================================================================
