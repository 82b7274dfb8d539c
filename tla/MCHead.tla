------------------------------- MODULE MCHead -------------------------------
(* A small tree.  a1 and a2 are own blocks, the others come from peers;    *)
(* the state of x2 is lost with the validator that built it.               *)
(*                                                                         *)
(*      genesis --- a1                                                     *)
(*            \---- b1 --- a2                                              *)
(*                   \---- x2                                              *)
EXTENDS Head

CONSTANTS genesis, a1, b1, a2, x2, none

MCBlocks == {genesis, a1, b1, a2, x2}
MCOwn == {a1, a2}
MCUnloadable == {x2}

MCParent == [b \in MCBlocks |->
    CASE b = genesis -> none
      [] b \in {a1, b1} -> genesis
      [] OTHER -> b1]

MCHeight == [b \in MCBlocks |->
    CASE b = genesis -> 0
      [] b \in {a1, b1} -> 1
      [] OTHER -> 2]

MCHash == [b \in MCBlocks |->
    CASE b = genesis -> 2 [] b = a1 -> 4 [] b = b1 -> 0 [] b = a2 -> 1 [] b = x2 -> 3]
=============================================================================
