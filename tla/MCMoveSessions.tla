--------------------------- MODULE MCMoveSessions ---------------------------
(* A finite instance of MoveSessions for TLC.                              *)
EXTENDS MoveSessions, TLC

CONSTANTS d1, d2, d3,      \* d1 is a 1.0 device and d2 a 1.1 device
          a1, a2           \* the addresses of their joins

TwoAddrs == [d \in {d1, d2, d3} |-> <<a1, a2>>]
Lists == {<<d1, d1>>, <<d2>>}

\* Two rows can be read as another device, which is provisioned or is not.
NextDevice == d1 :> d3 @@ d2 :> d1 @@ d3 :> d2

\* In one behaviour one of the devices joins, the 1.1 device once.
OneJoins == activation[d2] = 0 \/ (activation[d1] = 0 /\ activation[d2] = 1)
=============================================================================
