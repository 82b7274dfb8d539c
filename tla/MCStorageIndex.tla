--------------------------- MODULE MCStorageIndex ---------------------------
(* Three nodes and one record; na and nc are providers, nb made it.        *)
EXTENDS StorageIndex, TLC

CONSTANTS na, nb, nc, rec

MCNodes == {na, nb, nc}

(* Keys of three bits. *)
MCKey == na :> 1 @@ nb :> 2 @@ nc :> 4 @@ rec :> 0

MCXor(x, y) ==
    LET bit(v, i) == (v \div 2^i) % 2
        d(i) == IF bit(x, i) = bit(y, i) THEN 0 ELSE 2^i
    IN  d(0) + d(1) + d(2)

MCDistance == [k \in MCNodes \cup {rec} |-> [n \in MCNodes |-> MCXor(MCKey[k], MCKey[n])]]

Network(nodes, tops, keepers, n) ==
    [chain |-> tops, kept |-> [p \in nodes |-> IF p \in keepers THEN {rec} ELSE {}],
     troubles |-> n]

(* The maker alone, joined by a provider; all three, one of them behind,    *)
(* or all of them keepers; and one that comes back with the record.        *)
MCStarts == {Network({na, nb}, nb :> 2, {nb}, 2),
             Network(MCNodes, na :> 1 @@ nb :> 2 @@ nc :> 2, {nb}, 1),
             Network(MCNodes, na :> 1 @@ nb :> 2 @@ nc :> 2, MCNodes, 0),
             Network(MCNodes, nb :> 2 @@ nc :> 2, MCNodes, 0)}
MCMakers == rec :> nb
MCHeight == rec :> 2
=============================================================================
