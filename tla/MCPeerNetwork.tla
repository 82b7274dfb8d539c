---------------------------- MODULE MCPeerNetwork ----------------------------
(* A seed and two nodes that know of the seed only.  Keys of two bits: the *)
(* seed has both nodes in one bucket, each node has the other two apart.   *)
EXTENDS PeerNetwork

CONSTANTS seed, a, b

MCNodes == {seed, a, b}
MCSeeds == [n \in MCNodes |-> IF n = seed THEN {} ELSE {seed}]

MCDistance == [n, p \in MCNodes |->
    CASE n = p -> 0 [] {n, p} = {seed, a} -> 2 [] {n, p} = {seed, b} -> 3 [] OTHER -> 1]

MCDistances == [n \in MCNodes |-> [p \in MCNodes |-> MCDistance[n, p]]]

MCBucket == [n \in MCNodes |-> [p \in MCNodes |->
    CASE n = p -> 2 [] seed \in {n, p} -> 0 [] OTHER -> 1]]

(* Seed and a, a second left and two troubles, or two seconds, enough for  *)
(* a datagram to be too late, and one; or all three and no trouble.        *)
MCInit == /\ Init
          /\ \/ running = {seed, a} /\ clock = 1 /\ troubles = 0
             \/ running = {seed, a} /\ clock = 0 /\ troubles = 1
             \/ running = MCNodes /\ clock = 2 /\ troubles = 2

MCSpec == MCInit /\ [][Next]_vars /\ Fairness
=============================================================================
