----------------------------- MODULE SessionKeys -----------------------------
(***************************************************************************)
(* The two families of Redis keys that hold device-sessions, and what each *)
(* storage call of internal/storage does to them.                          *)
(*                                                                         *)
(*   lora:ns:devaddr:<DevAddr>         a set of DevEUIs using that address  *)
(*   lora:ns:<band>:device:<DevEUI>    the session of one device            *)
(*                                                                         *)
(* A Redis command, and a MULTI/EXEC pipeline on one key, is one atomic     *)
(* step; the sequence of them that a Go function issues is not, and is left *)
(* to the modules that extend this one.                                     *)
(***************************************************************************)
CONSTANTS
    DevEUIs,     \* device identifiers
    DevAddrs,    \* 32-bit addresses; several devices may share one
    None         \* an absent key, an absent row, a nil pointer

VARIABLES
    devAddrSet,  \* devAddrSet[a]: members of the set of address a ({} = no key)
    session      \* session[d]: the session stored for device d, or None

keyVars == <<devAddrSet, session>>

KeysInit ==
    /\ devAddrSet = [a \in DevAddrs |-> {}]
    /\ session = [d \in DevEUIs |-> None]

\* Fault: SET of a one-element list instead of SADD to the set.
SAddReplaces(a, d) == devAddrSet' = [devAddrSet EXCEPT ![a] = {d}]

\* SADD of a DevEUI to the set of an address.
SAdd(a, d) == devAddrSet' = [devAddrSet EXCEPT ![a] = @ \union {d}]

\* SET of the marshalled session: replaces whatever the key holds.
SetSession(d, s) == session' = [session EXCEPT ![d] = s]

\* GET of the session key answers redis.Nil, which is ErrDoesNotExist.
DoesNotExist(d) == session[d] = None
=============================================================================
