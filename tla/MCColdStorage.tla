--------------------------- MODULE MCColdStorage ----------------------------
(* Key 2 is a link with the child 1, key 3 stands alone.                   *)
EXTENDS ColdStorage

MCKeys == 1..3
MCChildren == [k \in MCKeys |-> IF k = 2 THEN <<1>> ELSE <<>>]
=============================================================================
