-------------------------- MODULE MCRestoreSessions --------------------------
(* Finite instances of RestoreSessions for TLC.                            *)
EXTENDS RestoreSessions, TLC

CONSTANTS d1, d2,          \* devices
          a1, a2, a3       \* addresses

\* One device: its joins have different addresses.
OneAddr == d1 :> <<a1, a2>>
OneLists == {<<d1>>, <<d1, d1>>}

\* Two devices of different MAC versions that have shared address a1.
TwoAddr == (d1 :> <<a1>>) @@ (d2 :> <<a1>>)
TwoLists == {<<d1, d2>>, <<d2, d1>>}
=============================================================================
