---------------------------- MODULE MCRadixTrie ----------------------------
(* Keys that part at their first, second and third bit.                    *)
EXTENDS RadixTrie, TLC

CONSTANTS ka, kb, kc

MCKeys == {<<0, 0, ka>>, <<0, 1, kb>>, <<1, 0, kc>>}

Symmetry == Permutations(Values)
=============================================================================
