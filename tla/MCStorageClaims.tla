--------------------------- MODULE MCStorageClaims ---------------------------
(* Two records and one other provider.                                      *)
EXTENDS StorageClaims, TLC

CONSTANT other

MCNear       == Me :> <<1, 0>> @@ other :> <<0, 1>>
MCSize       == <<2, 3>>
MCAffordable == 0 :> 1 @@ 1 :> 1 @@ 2 :> 0

Network(f, d, listed, kept, kinds, n, rivals) ==
    [fair |-> f, difficulty |-> d, listed |-> listed, stored |-> kept,
     kinds |-> kinds, troubles |-> n, rivalry |-> rivals]

Sending == {"late", "lost", "unsent", "counter"}
Storing == {"scan", "read", "build", "raise"}
All     == Sending \cup Storing \cup {"slow", "restart"}

MCCases ==
    {Network(3, d, Records, Records, {"late", "restart"}, 1, 1) : d \in {0, 1}}
    \cup {Network(3, 0, Records, {1}, {}, 0, 2),
          Network(2, 0, Records, {2}, Sending, 2, 0),
          Network(2, 1, Records, Records, Storing, 2, 0),
          Network(2, 1, {1}, {2}, All, 2, 0),
          Network(0, 1, {1}, {2}, All, 1, 0)}
=============================================================================
