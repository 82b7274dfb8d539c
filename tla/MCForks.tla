------------------------------- MODULE MCForks ------------------------------
(* Genesis is 0; which blocks are bad is up to the configuration.          *)
(*                                                                         *)
(*      0 --- 1 --- 2 --- 3                                                *)
(*       \     \-- 4                                                       *)
(*        \-- 5                                                            *)
EXTENDS Forks, TLC

CONSTANTS p1, p2

MCPeers == {p1, p2}
MCBlocks == 0..5

MCChain == (0 :> {0}) @@ (1 :> {0, 1}) @@ (2 :> 0..2) @@ (3 :> 0..3)
             @@ (4 :> {0, 1, 4}) @@ (5 :> {0, 5})

MCOrder == [b \in MCBlocks |-> (b * 5 + 2) % 6]
Symmetry == Permutations(MCPeers)
=============================================================================
