----------------------------- MODULE MCRequests -----------------------------
(* A cell and one inside it; a peer that holds nothing, and two providers. *)
EXTENDS Requests, TLC

CONSTANTS f, g, near, first, second, root, leaf

MCInner == root :> {leaf} @@ leaf :> {}

(* The fetch of one, or of two at once. *)
OneCell == f :> <<root, "single">>
OneExpr == f :> <<root, "full">>
Both    == OneExpr @@ g :> <<root, "single">>
Parts   == OneExpr @@ g :> <<leaf, "single">>

Everything == first :> {root, leaf} @@ second :> {root, leaf} @@ near :> {}
FirstLacks == first :> {root} @@ second :> {root, leaf} @@ near :> {}

(* The node knows both providers, the peer it asks knows them, or that     *)
(* peer knows of one nearer node only.                                     *)
Known      == [n \in {Me, near, first, second} |-> IF n = Me THEN <<first, second>> ELSE << >>]
Redirected == [n \in {Me, near, first, second} |-> IF n = near THEN <<first, second>> ELSE << >>]
Unknown    == [n \in {Me, near, first, second} |-> << >>]

Network(index, nearest, holds, whole, broke, keyed, wants, kinds, n) ==
    [index |-> index, nearest |-> Me :> nearest @@ near :> first @@ first :> second @@ second :> first,
     holds |-> holds, whole |-> whole, broke |-> broke, keyed |-> keyed,
     wants |-> wants, kinds |-> kinds, mishaps |-> n]

Sound(index, whole, wants, kinds, n) ==
    Network(index, near, Everything, whole, {}, FALSE, wants, kinds, n)

AllKinds == {"lost", "late", "slow", "unsent"}

MCCases ==
    \* everything can be had
    {Sound(index, whole, wants, {}, 0) : index \in {Known, Redirected, Unknown},
         whole \in {{}, {first, second}}, wants \in {OneCell, OneExpr, Both, Parts}}
    \cup {Sound(Redirected, {first, second}, OneCell, kinds, 1) : kinds \in {{"lost"}, AllKinds}}
    \cup {Sound(Known, {first, second}, OneCell, AllKinds, 1)}
    \* not everything can
    \cup {Sound(index, {first, second}, wants, AllKinds, 1) : index \in {Known, Redirected}, wants \in {OneExpr, Both}}
    \cup {Network(Known, near, FirstLacks, {first, second}, {}, FALSE, Parts, AllKinds, 1)}
    \cup {Network(Known, near, Everything, {}, {first}, keyed, OneCell, AllKinds, 2) : keyed \in BOOLEAN}
    \cup {Network(Unknown, NoPeer, Everything, {}, {}, FALSE, OneCell, {}, 0)}
=============================================================================
