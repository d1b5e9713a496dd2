---------------------------- MODULE SessionStore ----------------------------
(***************************************************************************)
(* SaveDeviceSession run by several clients at once: two copies of the      *)
(* tool, or the tool and the network-server whose storage code it shares.   *)
(* One save is two or three Redis transactions,                             *)
(*                                                                         *)
(*   1. SADD + PEXPIRE on the set of the session's own DevAddr,             *)
(*   2. the same on the set of the pending rejoin session's DevAddr,        *)
(*   3. SET with TTL of the session key,                                    *)
(*                                                                         *)
(* between which other clients run, time passes, keys expire and the client *)
(* may stop.  An error answered by Redis makes every command of the tool    *)
(* exit (log.Fatal), whether or not the transaction took effect, so an      *)
(* error is Abort before or after the step it hits.                         *)
(*                                                                         *)
(* Time is what Redis reports as the PTTL of a key: ticks left to live,     *)
(* counted down by Tick.  No clock value is kept, so no bound is needed.    *)
(***************************************************************************)
EXTENDS SessionKeys, Integers

CONSTANTS
    Clients,
    TTL          \* deviceSessionTTL in ticks; 0 as ns.device_session_ttl = 0

ASSUME StoreAssumption ==
    /\ TTL \in Nat
    /\ None \notin DevAddrs

VARIABLES
    setLeft,     \* setLeft[a]: time to live of the set of address a
    sessLeft,    \* sessLeft[d]: time to live of d's session key; 0 = no expiry
    pc,          \* pc[c]: the next transaction of client c, or "idle"
    call,        \* call[c]: the argument of the save client c is executing
    \* History: what is left of one TTL counted from step 1 of the save that
    \* wrote the stored session.
    indexLeft

vars == <<keyVars, setLeft, sessLeft, pc, call, indexLeft>>

\* The fields SaveDeviceSession reads; Pending is the DevAddr of
\* PendingRejoinDeviceSession, None when that pointer is nil.
Session == [DevAddr : DevAddrs, Pending : DevAddrs \union {None}]

\* The addresses by which a session has to be found.
AddrsOf(s) == {s.DevAddr, s.Pending} \ {None}

\* A save in progress; left is what remains of one TTL since its step 1.
Call == [DevEUI : DevEUIs, s : Session, left : 0..TTL]

TypeOK ==
    /\ devAddrSet \in [DevAddrs -> SUBSET DevEUIs]
    /\ session \in [DevEUIs -> Session \union {None}]
    /\ setLeft \in [DevAddrs -> 0..TTL]
    /\ sessLeft \in [DevEUIs -> 0..TTL]
    /\ pc \in [Clients -> {"idle", "index", "indexPending", "set"}]
    /\ call \in [Clients -> Call \union {None}]
    /\ \A c \in Clients : pc[c] # "idle" => call[c] \in Call
    /\ indexLeft \in [DevEUIs -> 0..TTL]

Init ==
    /\ KeysInit
    /\ setLeft = [a \in DevAddrs |-> 0]
    /\ sessLeft = [d \in DevEUIs |-> 0]
    /\ pc = [c \in Clients |-> "idle"]
    /\ call = [c \in Clients |-> None]
    /\ indexLeft = [d \in DevEUIs |-> 0]

-----------------------------------------------------------------------------
(* The transactions of one save.                                           *)

\* Fault: PEXPIRE only for a set that had no expiry yet (PEXPIRE .. NX).
IndexTxNoRefresh(a, d) ==
    /\ SAdd(a, d)
    /\ setLeft' = [setLeft EXCEPT ![a] = IF @ = 0 THEN TTL ELSE @]
    /\ UNCHANGED <<session, sessLeft>>

\* TxPipeline: SADD, then PEXPIRE of the whole set.  A TTL of zero makes
\* PEXPIRE delete the set the SADD has just added to.
IndexTx(a, d) ==
    /\ IF TTL = 0 THEN devAddrSet' = [devAddrSet EXCEPT ![a] = {}]
                  ELSE SAdd(a, d)
    /\ setLeft' = [setLeft EXCEPT ![a] = TTL]
    /\ UNCHANGED <<session, sessLeft>>

\* Fault: the expiry in milliseconds given as seconds.
SetTxInSeconds(d, s) ==
    /\ SetSession(d, s)
    /\ sessLeft' = [sessLeft EXCEPT ![d] = 1000 * TTL]
    /\ UNCHANGED <<devAddrSet, setLeft>>

\* SET with an expiry; the Redis client takes a zero expiration for none.
SetTx(d, s) ==
    /\ SetSession(d, s)
    /\ sessLeft' = [sessLeft EXCEPT ![d] = TTL]
    /\ UNCHANGED <<devAddrSet, setLeft>>

\* SaveDeviceSession is called with session s for device d.
SaveDeviceSession(c, d, s) ==
    /\ pc[c] = "idle"
    /\ pc' = [pc EXCEPT ![c] = "index"]
    /\ call' = [call EXCEPT ![c] = [DevEUI |-> d, s |-> s, left |-> 0]]
    /\ UNCHANGED <<keyVars, setLeft, sessLeft, indexLeft>>

IndexDevAddr(c) ==
    /\ pc[c] = "index"
    /\ IndexTx(call[c].s.DevAddr, call[c].DevEUI)
    /\ pc' = [pc EXCEPT ![c] =
                  IF call[c].s.Pending # None THEN "indexPending" ELSE "set"]
    /\ call' = [call EXCEPT ![c].left = TTL]
    /\ UNCHANGED indexLeft

IndexPendingDevAddr(c) ==
    /\ pc[c] = "indexPending"
    /\ IndexTx(call[c].s.Pending, call[c].DevEUI)
    /\ pc' = [pc EXCEPT ![c] = "set"]
    /\ UNCHANGED <<call, indexLeft>>

WriteSession(c) ==
    /\ pc[c] = "set"
    /\ SetTx(call[c].DevEUI, call[c].s)
    /\ pc' = [pc EXCEPT ![c] = "idle"]
    /\ call' = [call EXCEPT ![c] = None]
    /\ indexLeft' = [indexLeft EXCEPT ![call[c].DevEUI] = call[c].left]

\* The client stops inside the save: killed, or a Redis error made it exit.
Abort(c) ==
    /\ pc[c] # "idle"
    /\ pc' = [pc EXCEPT ![c] = "idle"]
    /\ call' = [call EXCEPT ![c] = None]
    /\ UNCHANGED <<keyVars, setLeft, sessLeft, indexLeft>>

\* One tick less to live.
Down(n) == IF n = 0 THEN 0 ELSE n - 1

\* Time passes; a key whose time to live ends is gone.
Tick ==
    /\ setLeft' = [a \in DevAddrs |-> Down(setLeft[a])]
    /\ devAddrSet' = [a \in DevAddrs |->
                         IF setLeft[a] <= 1 THEN {} ELSE devAddrSet[a]]
    /\ sessLeft' = [d \in DevEUIs |-> Down(sessLeft[d])]
    /\ session' = [d \in DevEUIs |->
                      IF sessLeft[d] = 1 THEN None ELSE session[d]]
    /\ call' = [c \in Clients |->
                   IF pc[c] = "idle" THEN None
                   ELSE [call[c] EXCEPT !.left = Down(@)]]
    /\ indexLeft' = [d \in DevEUIs |-> Down(indexLeft[d])]
    /\ UNCHANGED pc

Next ==
    \/ \E c \in Clients :
          \/ \E d \in DevEUIs, s \in Session : SaveDeviceSession(c, d, s)
          \/ IndexDevAddr(c)
          \/ IndexPendingDevAddr(c)
          \/ WriteSession(c)
          \/ Abort(c)
    \/ Tick

Spec == Init /\ [][Next]_vars

-----------------------------------------------------------------------------
(* Properties.                                                             *)

\* The network-server finds the session of a received frame through the set of
\* the frame's DevAddr.  However saves overlap, stop half-way or outlast the
\* keys they have written, a stored session is a member of the set of its own
\* address, and of its pending rejoin address, until a whole TTL has passed
\* since the save that stored it indexed it.
IndexCoversSessions ==
    \A d \in DevEUIs : session[d] # None /\ indexLeft[d] > 0 =>
        \A a \in AddrsOf(session[d]) : d \in devAddrSet[a]

-----------------------------------------------------------------------------
(* The inductive strengthening of IndexCoversSessions.                     *)

\* Device d is in the set of address a, and the set lives for n more ticks.
Indexed(d, a, n) == d \in devAddrSet[a] /\ setLeft[a] >= n

\* The addresses client c has indexed in the save it is executing.
IndexedBy(c) ==
    CASE pc[c] = "set" -> AddrsOf(call[c].s)
      [] pc[c] = "indexPending" -> {call[c].s.DevAddr}
      [] OTHER -> {}

\* Stored sessions and half-done saves alike are indexed for as long as one TTL
\* lasts from their step 1: the order of a save is what carries it across WriteSession.
IndexInv ==
    /\ \A d \in DevEUIs : session[d] # None /\ indexLeft[d] > 0 =>
          \A a \in AddrsOf(session[d]) : Indexed(d, a, indexLeft[d])
    /\ \A c \in Clients : pc[c] # "idle" /\ call[c].left > 0 =>
          \A a \in IndexedBy(c) : Indexed(call[c].DevEUI, a, call[c].left)
=============================================================================
