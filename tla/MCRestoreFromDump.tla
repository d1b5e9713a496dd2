-------------------------- MODULE MCRestoreFromDump --------------------------
(* Finite instances of RestoreFromDump for TLC: a device whose joins have    *)
(* different addresses, and one that never joins.                           *)
EXTENDS RestoreFromDump, TLC

CONSTANTS d1, d2, a1, a2

TwoAddrs == [d \in DevEUIs |-> <<a1, a2>>]

\* The device is listed once, after the other one, or twice.
Once == {<<d1>>}
AfterOther == {<<d2, d1>>}
Twice == {<<d1, d1>>}
=============================================================================
