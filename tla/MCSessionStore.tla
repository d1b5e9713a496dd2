--------------------------- MODULE MCSessionStore ---------------------------
(* A finite instance of SessionStore for TLC.                              *)
EXTENDS SessionStore, TLC

\* Devices, addresses and clients are interchangeable in SessionStore.
Symmetry == Permutations(DevEUIs) \union Permutations(DevAddrs)
               \union Permutations(Clients)
=============================================================================
