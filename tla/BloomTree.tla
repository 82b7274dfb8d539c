------------------------------ MODULE BloomTree ------------------------------
(***************************************************************************)
(* The bloom tree of an era (crypto/bloom_tree/tree.py) and the searches   *)
(* that descend it.  The blocks of an era share one binary tree of bloom   *)
(* filters, one leaf per block; each block writes again only the nodes on  *)
(* its own path and names the others by reference to older blocks.         *)
(*                                                                         *)
(* A filter is the set of what was inserted: a false positive of the real  *)
(* filter only adds a block whose transactions are then compared.  A node  *)
(* is <<width, index>>.                                                    *)
(***************************************************************************)
EXTENDS Integers

CONSTANT EraSize        \* the blocks of an era

(* The tree is binary; the code has 1024. *)
ASSUME EraAssumption ==
    EraSize \in Nat \ {0} /\ \E k \in 0..EraSize : EraSize = 2^k

NoStart == -1           \* a leaf whose block's id is not known yet

Widths    == {w \in 1..EraSize : EraSize % w = 0}
Root      == <<EraSize, 0>>
Leaf(o)   == <<1, o>>
Path(o)   == {<<w, o \div w>> : w \in Widths}
TreeNodes == UNION {Path(o) : o \in 0..(EraSize - 1)}

(* The parent of a node, and whether n lies strictly below m. *)
Above(n)    == <<2 * n[1], n[2] \div 2>>
Below(n, m) == n[1] < m[1] /\ (n[2] * n[1]) \div m[1] = m[2]

Nodes(tree)  == DOMAIN tree.filter
Leaves(tree) == {o \in 0..(EraSize - 1) : Leaf(o) \in Nodes(tree)}

(***************************************************************************)
(* filter: the nodes and what their filters hold; start: the block a leaf  *)
(* names; loaded: the nodes that were read, or lie under one of `blank`.   *)
(* blank: nodes that could not be read; a blank stands for them in memory, *)
(* but no node that was written again names it.  hollow: those that such a *)
(* node names, although the blank itself is never written.                 *)
(***************************************************************************)
EmptyTree == [filter |-> <<>>, start |-> <<>>,
              loaded |-> {}, blank |-> {}, hollow |-> {}]

(* What of the tree remains when the nodes `gone` lose their contents. *)
Blanked(tree, gone) ==
    LET kept == {n \in Nodes(tree) : \A b \in gone : ~Below(n, b)}
    IN  [tree EXCEPT !.filter = [n \in kept |-> IF n \in gone THEN {} ELSE @[n]],
                     !.start  = [o \in {p \in DOMAIN @ : Leaf(p) \in kept} |-> @[o]]]

(***************************************************************************)
(* The nodes `passed` are written again, with the children they have in    *)
(* memory.  A node that is left alone is named as the cell it was read     *)
(* from, whatever stands below it in memory.                               *)
(***************************************************************************)
Rewritten(tree, passed) ==
    LET named == {n \in tree.blank : Above(n) \in passed}
    IN  [Blanked(tree, named) EXCEPT !.blank  = @ \ named,
                                     !.hollow = @ \cup (named \ passed)]

(* Faulty: the tree is opened without a look at the previous leaf. *)
OpenedRootOnly(tree, o, block, unread) ==
    IF Nodes(tree) = {} \/ Root \in unread
    THEN EmptyTree
    ELSE [tree EXCEPT !.loaded = {Root}]

(***************************************************************************)
(* BloomTree(...) followed by set_leaf_start_hash: the tree of the         *)
(* previous block is opened, the path to its leaf is read, and the leaf,   *)
(* if the block has one, is given the block's id, which was not known when *)
(* the block was built.  At most one node is unread.  A root that cannot   *)
(* be read gives an empty tree, another node a blank one; at a blank above *)
(* the leaf the walk ends and changes nothing.                             *)
(***************************************************************************)
Opened(tree, o, block, unread) ==
    IF Nodes(tree) = {} \/ Root \in unread
    THEN EmptyTree
    ELSE LET gone == unread \cap Path(o) \cap Nodes(tree)
             ends == gone \ {Leaf(o)}
             rest == Blanked(tree, gone \ ends)
         IN  [rest EXCEPT !.start  = [p \in DOMAIN @ |-> IF p = o /\ ends = {}
                                                         THEN block ELSE @[p]],
                          !.loaded = Path(o) \cap Nodes(tree),
                          !.blank  = ends,
                          !.hollow = {}]

(***************************************************************************)
(* insert, called without a node: what is not in memory is taken for       *)
(* missing, and a blank takes its place.                                   *)
(***************************************************************************)
Inserted(tree, o, element) ==
    LET base == Rewritten(tree, Path(o))
        rest == Blanked(base, (Path(o) \cap Nodes(base)) \ tree.loaded)
    IN  [rest EXCEPT
            !.filter = [n \in DOMAIN @ \cup Path(o) |->
                           (IF n \in DOMAIN @ THEN @[n] ELSE {})
                               \cup (IF n \in Path(o) THEN {element} ELSE {})],
            !.start  = [p \in DOMAIN @ \cup {o} |-> IF p \in DOMAIN @ THEN @[p] ELSE NoStart],
            !.loaded = @ \cup Path(o)]

(* rewrite_root: the tree as the block's record holds it. *)
Stored(tree) == [Rewritten(tree, {Root}) EXCEPT !.blank = {}, !.loaded = {}]

(* What a bloom hash commits to. *)
BloomHash(tree) == <<tree.filter, tree.start>>

(* _search_leaves: the leaves all of whose ancestors may hold the element. *)
Hits(tree, element) ==
    {o \in Leaves(tree) : \A n \in Path(o) : n \in Nodes(tree) /\ element \in tree.filter[n]}

(* _storage_find_leaf: the block the leaf names, NoStart without a leaf. *)
StartOf(tree, o) == IF o \in Leaves(tree) THEN tree.start[o] ELSE NoStart
=============================================================================
