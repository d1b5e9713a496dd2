------------------------- MODULE SessionStoreProofs -------------------------
(***************************************************************************)
(* Proofs about SessionStore, for any devices, addresses, clients and TTL:  *)
(* type correctness, and that a stored session stays indexed for one TTL    *)
(* counted from the first transaction of its save.                          *)
(***************************************************************************)
EXTENDS SessionStore, TLAPS

\* Every reachable state of concurrent saves is well typed.
THEOREM TypeCorrect == Spec => []TypeOK
<1>1. Init => TypeOK
  BY StoreAssumption DEF Init, KeysInit, TypeOK
<1>2. TypeOK /\ [Next]_vars => TypeOK'
  <2> SUFFICES ASSUME TypeOK, [Next]_vars PROVE TypeOK'
    OBVIOUS
  <2> USE StoreAssumption
  <2>1. ASSUME NEW c \in Clients, NEW d \in DevEUIs, NEW s \in Session,
               SaveDeviceSession(c, d, s)
        PROVE  TypeOK'
    <3>1. [DevEUI |-> d, s |-> s, left |-> 0] \in Call
      BY DEF Call
    <3> QED
      BY <2>1, <3>1 DEF TypeOK, SaveDeviceSession, keyVars
  <2>2. ASSUME NEW c \in Clients, IndexDevAddr(c)
        PROVE  TypeOK'
    <3>1. call[c] \in Call
      BY <2>2 DEF TypeOK, IndexDevAddr
    <3>2. [call[c] EXCEPT !.left = TTL] \in Call
      BY <3>1 DEF Call
    <3>3. call[c].DevEUI \in DevEUIs /\ call[c].s.DevAddr \in DevAddrs
      BY <3>1 DEF Call, Session
    <3> QED
      BY <2>2, <3>2, <3>3 DEF TypeOK, IndexDevAddr, IndexTx, SAdd
  <2>3. ASSUME NEW c \in Clients, IndexPendingDevAddr(c)
        PROVE  TypeOK'
    <3>1. call[c] \in Call
      BY <2>3 DEF TypeOK, IndexPendingDevAddr
    <3>2. call[c].DevEUI \in DevEUIs
      BY <3>1 DEF Call
    <3>3. devAddrSet' \in [DevAddrs -> SUBSET DevEUIs]
      BY <2>3, <3>2 DEF TypeOK, IndexPendingDevAddr, IndexTx, SAdd
    <3>4. setLeft' = [setLeft EXCEPT ![call[c].s.Pending] = TTL]
      BY <2>3 DEF IndexPendingDevAddr, IndexTx
    <3>5. setLeft' \in [DevAddrs -> 0..TTL]
      <4>1. setLeft \in [DevAddrs -> 0..TTL] /\ TTL \in 0..TTL
        BY DEF TypeOK
      <4> QED
        BY ONLY <3>4, <4>1
    <3> QED
      BY <2>3, <3>3, <3>5 DEF TypeOK, IndexPendingDevAddr, IndexTx
  <2>4. ASSUME NEW c \in Clients, WriteSession(c)
        PROVE  TypeOK'
    <3>1. call[c] \in Call
      BY <2>4 DEF TypeOK, WriteSession
    <3>2. call[c].DevEUI \in DevEUIs /\ call[c].s \in Session /\ call[c].left \in 0..TTL
      BY <3>1 DEF Call
    <3> QED
      BY <2>4, <3>2 DEF TypeOK, WriteSession, SetTx, SetSession
  <2>5. ASSUME NEW c \in Clients, Abort(c)
        PROVE  TypeOK'
    BY <2>5 DEF TypeOK, Abort, keyVars
  <2>6. CASE Tick
    <3>1. \A n \in 0..TTL : Down(n) \in 0..TTL
      BY DEF Down
    <3>2. \A c \in Clients : pc[c] # "idle" =>
             [call[c] EXCEPT !.left = Down(@)] \in Call
      BY <3>1 DEF TypeOK, Call
    <3>3. call' \in [Clients -> Call \union {None}]
          /\ \A c \in Clients : pc'[c] # "idle" => call'[c] \in Call
      BY <2>6, <3>2 DEF Tick, TypeOK
    <3> QED
      BY <2>6, <3>1, <3>3 DEF Tick, TypeOK
  <2>7. CASE UNCHANGED vars
    BY <2>7 DEF vars, keyVars, TypeOK
  <2> QED
    BY <2>1, <2>2, <2>3, <2>4, <2>5, <2>6, <2>7 DEF Next
<1> QED
  BY <1>1, <1>2, PTL DEF Spec

\* One transaction of step 1 or 2 takes nothing away from any device: what was
\* indexed stays indexed at least as long, for a positive TTL.
LEMMA IndexTxKeeps ==
  ASSUME TypeOK, NEW a, NEW d, IndexTx(a, d), TTL > 0,
         NEW e \in DevEUIs, NEW b \in DevAddrs, NEW n \in 0..TTL, Indexed(e, b, n)
  PROVE  Indexed(e, b, n)'
BY StoreAssumption DEF TypeOK, IndexTx, SAdd, Indexed

\* The transaction indexes the device it is about for one TTL.
LEMMA IndexTxAdds ==
  ASSUME TypeOK, NEW a \in DevAddrs, NEW d \in DevEUIs, IndexTx(a, d), TTL > 0,
         NEW n \in 0..TTL
  PROVE  Indexed(d, a, n)'
BY StoreAssumption DEF TypeOK, IndexTx, SAdd, Indexed

\* A tick takes one from what is left of a key, so an index entry that lived for
\* n > 1 ticks lives for n - 1.
LEMMA TickKeeps ==
  ASSUME TypeOK, Tick, NEW d \in DevEUIs, NEW a \in DevAddrs,
         NEW n \in 0..TTL, Indexed(d, a, n), Down(n) > 0
  PROVE  Indexed(d, a, Down(n))'
BY StoreAssumption DEF TypeOK, Tick, Indexed, Down

\* The part of IndexInv about stored sessions, and the part about saves.
StoredIndexed(d) ==
    session[d] # None /\ indexLeft[d] > 0 =>
        \A a \in AddrsOf(session[d]) : Indexed(d, a, indexLeft[d])

SaveIndexed(c) ==
    pc[c] # "idle" /\ call[c].left > 0 =>
        \A a \in IndexedBy(c) : Indexed(call[c].DevEUI, a, call[c].left)

LEMMA AddrsOfType ==
  ASSUME NEW s \in Session PROVE AddrsOf(s) \subseteq DevAddrs
BY DEF Session, AddrsOf

LEMMA IndexedByType ==
  ASSUME TypeOK, NEW c \in Clients PROVE IndexedBy(c) \subseteq DevAddrs
<1>1. CASE pc[c] = "idle"
  BY <1>1 DEF IndexedBy
<1>2. CASE pc[c] # "idle"
  <2>1. call[c].s \in Session
    BY <1>2 DEF TypeOK, Call
  <2> QED
    BY <2>1, AddrsOfType DEF IndexedBy, Session
<1> QED
  BY <1>1, <1>2

\* A step that indexes address a for client c keeps every other obligation of
\* IndexInv; what c itself has indexed is left to the caller.
LEMMA IndexTxPreserves ==
  ASSUME TypeOK, IndexInv, NEW c \in Clients, NEW a, NEW e, IndexTx(a, e),
         \A k \in Clients \ {c} : pc'[k] = pc[k] /\ call'[k] = call[k],
         UNCHANGED indexLeft
  PROVE  /\ \A d \in DevEUIs : StoredIndexed(d)'
         /\ \A k \in Clients \ {c} : SaveIndexed(k)'
<1>1. ASSUME NEW d \in DevEUIs PROVE StoredIndexed(d)'
  <2> SUFFICES ASSUME session[d] # None, indexLeft[d] > 0,
                      NEW b \in AddrsOf(session[d])
               PROVE  Indexed(d, b, indexLeft[d])'
    BY DEF StoredIndexed, IndexTx
  <2>1. session[d] \in Session /\ indexLeft[d] \in 0..TTL
    BY DEF TypeOK
  <2>2. b \in DevAddrs /\ TTL > 0
    BY <2>1, AddrsOfType, StoreAssumption
  <2>3. Indexed(d, b, indexLeft[d])
    BY DEF IndexInv
  <2>4. ASSUME NEW n \in 0..TTL, n = indexLeft[d] PROVE Indexed(d, b, n)'
    BY <2>2, <2>3, <2>4, IndexTxKeeps
  <2> QED
    BY <2>1, <2>4 DEF Indexed
<1>2. ASSUME NEW k \in Clients \ {c} PROVE SaveIndexed(k)'
  <2>1. IndexedBy(k)' = IndexedBy(k) /\ pc'[k] = pc[k] /\ call'[k] = call[k]
    BY DEF IndexedBy
  <2> SUFFICES ASSUME pc[k] # "idle", call[k].left > 0, NEW b \in IndexedBy(k)
               PROVE  Indexed(call[k].DevEUI, b, call[k].left)'
    BY <2>1 DEF SaveIndexed
  <2>2. call[k].DevEUI \in DevEUIs /\ call[k].left \in 0..TTL
    BY DEF TypeOK, Call
  <2>3. b \in DevAddrs /\ TTL > 0
    BY <2>2, IndexedByType, StoreAssumption
  <2>4. Indexed(call[k].DevEUI, b, call[k].left)
    BY DEF IndexInv
  <2>5. ASSUME NEW n \in 0..TTL, NEW d \in DevEUIs, n = call[k].left,
               d = call[k].DevEUI
        PROVE  Indexed(d, b, n)'
    BY <2>3, <2>4, <2>5, IndexTxKeeps
  <2> QED
    BY <2>1, <2>2, <2>5 DEF Indexed
<1> QED
  BY <1>1, <1>2

\* IndexInv is inductive relative to TypeOK.
LEMMA IndexInvStep == TypeOK /\ TypeOK' /\ IndexInv /\ [Next]_vars => IndexInv'
<1> SUFFICES ASSUME TypeOK, TypeOK', IndexInv, [Next]_vars
             PROVE  /\ \A d \in DevEUIs : StoredIndexed(d)'
                    /\ \A c \in Clients : SaveIndexed(c)'
  BY DEF IndexInv, StoredIndexed, SaveIndexed
<1> USE StoreAssumption
<1>1. ASSUME NEW c \in Clients, NEW d \in DevEUIs, NEW s \in Session,
             SaveDeviceSession(c, d, s)
      PROVE  /\ \A e \in DevEUIs : StoredIndexed(e)'
             /\ \A k \in Clients : SaveIndexed(k)'
  <2>1. SaveIndexed(c)'
    BY <1>1 DEF SaveDeviceSession, SaveIndexed, TypeOK
  <2>2. \A k \in Clients \ {c} : SaveIndexed(k)'
    BY <1>1 DEF SaveDeviceSession, SaveIndexed, IndexInv, Indexed, IndexedBy,
                TypeOK, keyVars
  <2>3. \A e \in DevEUIs : StoredIndexed(e)'
    BY <1>1 DEF SaveDeviceSession, StoredIndexed, IndexInv, Indexed, keyVars
  <2> QED
    BY <2>1, <2>2, <2>3
<1>2. ASSUME NEW c \in Clients, IndexDevAddr(c)
      PROVE  /\ \A e \in DevEUIs : StoredIndexed(e)'
             /\ \A k \in Clients : SaveIndexed(k)'
  <2>1. call[c] \in Call
    BY <1>2 DEF IndexDevAddr, TypeOK
  <2>2. /\ call'[c].DevEUI = call[c].DevEUI
        /\ call'[c].s = call[c].s
        /\ call'[c].left = TTL
    BY <1>2, <2>1 DEF IndexDevAddr, TypeOK, Call
  <2>3. /\ \A d \in DevEUIs : StoredIndexed(d)'
        /\ \A k \in Clients \ {c} : SaveIndexed(k)'
    BY <1>2, IndexTxPreserves DEF IndexDevAddr, TypeOK
  <2>4. call[c].s.DevAddr \in DevAddrs /\ call[c].DevEUI \in DevEUIs
    BY <2>1 DEF Call, Session
  <2>5. TTL > 0 => Indexed(call[c].DevEUI, call[c].s.DevAddr, TTL)'
    BY <1>2, <2>4, IndexTxAdds DEF IndexDevAddr
  <2>6. IndexedBy(c)' \subseteq {call[c].s.DevAddr}
    BY <1>2, <2>1, <2>2 DEF IndexDevAddr, IndexedBy, AddrsOf, TypeOK
  <2>7. SaveIndexed(c)'
    BY <2>2, <2>5, <2>6 DEF SaveIndexed, Indexed
  <2> QED
    BY <2>3, <2>7
<1>3. ASSUME NEW c \in Clients, IndexPendingDevAddr(c)
      PROVE  /\ \A e \in DevEUIs : StoredIndexed(e)'
             /\ \A k \in Clients : SaveIndexed(k)'
  <2>1. call[c] \in Call /\ pc[c] = "indexPending" /\ call' = call
    BY <1>3 DEF IndexPendingDevAddr, TypeOK
  <2>2. /\ \A d \in DevEUIs : StoredIndexed(d)'
        /\ \A k \in Clients \ {c} : SaveIndexed(k)'
    BY <1>3, IndexTxPreserves DEF IndexPendingDevAddr, TypeOK
  <2>3. SaveIndexed(c)'
    <3> SUFFICES ASSUME call[c].left > 0, NEW a \in AddrsOf(call[c].s)
                 PROVE  Indexed(call[c].DevEUI, a, call[c].left)'
      BY <1>3, <2>1 DEF SaveIndexed, IndexedBy, IndexPendingDevAddr, TypeOK
    <3>1. /\ call[c].DevEUI \in DevEUIs /\ call[c].s \in Session
          /\ call[c].left \in 0..TTL /\ TTL > 0 /\ a \in DevAddrs
      BY <2>1, AddrsOfType DEF Call
    <3>2. CASE a = call[c].s.Pending
      BY <1>3, <2>1, <3>1, <3>2, IndexTxAdds DEF IndexPendingDevAddr, Indexed
    <3>3. CASE a = call[c].s.DevAddr
      <4>1. Indexed(call[c].DevEUI, a, call[c].left)
        BY <2>1, <3>3 DEF IndexInv, IndexedBy
      <4> QED
        BY <1>3, <2>1, <3>1, <4>1, IndexTxKeeps DEF IndexPendingDevAddr, Indexed
    <3> QED
      BY <3>2, <3>3 DEF AddrsOf
  <2> QED
    BY <2>2, <2>3
<1>4. ASSUME NEW c \in Clients, WriteSession(c)
      PROVE  /\ \A e \in DevEUIs : StoredIndexed(e)'
             /\ \A k \in Clients : SaveIndexed(k)'
  <2>1. call[c] \in Call /\ pc[c] = "set"
    BY <1>4 DEF WriteSession, TypeOK
  <2>2. /\ UNCHANGED <<devAddrSet, setLeft>>
        /\ session' = [session EXCEPT ![call[c].DevEUI] = call[c].s]
        /\ indexLeft' = [indexLeft EXCEPT ![call[c].DevEUI] = call[c].left]
    BY <1>4 DEF WriteSession, SetTx, SetSession
  <2>3. ASSUME NEW e \in DevEUIs PROVE StoredIndexed(e)'
    <3>1. CASE e = call[c].DevEUI
      <4>1. session'[e] = call[c].s /\ indexLeft'[e] = call[c].left
        BY <2>2, <3>1 DEF TypeOK
      <4>2. call[c].left > 0 =>
               \A a \in AddrsOf(call[c].s) : Indexed(e, a, call[c].left)
        BY <2>1, <3>1 DEF IndexInv, IndexedBy
      <4> QED
        BY <2>2, <4>1, <4>2 DEF StoredIndexed, Indexed
    <3>2. CASE e # call[c].DevEUI
      BY <2>2, <3>2 DEF StoredIndexed, IndexInv, Indexed, TypeOK
    <3> QED
      BY <3>1, <3>2
  <2>4. SaveIndexed(c)'
    BY <1>4 DEF WriteSession, SaveIndexed, TypeOK
  <2>5. \A k \in Clients \ {c} : SaveIndexed(k)'
    BY <1>4, <2>2 DEF WriteSession, SaveIndexed, IndexInv, Indexed, IndexedBy, TypeOK
  <2> QED
    BY <2>3, <2>4, <2>5
<1>5. ASSUME NEW c \in Clients, Abort(c)
      PROVE  /\ \A e \in DevEUIs : StoredIndexed(e)'
             /\ \A k \in Clients : SaveIndexed(k)'
  <2>1. SaveIndexed(c)'
    BY <1>5 DEF Abort, SaveIndexed, TypeOK
  <2>2. \A k \in Clients \ {c} : SaveIndexed(k)'
    BY <1>5 DEF Abort, SaveIndexed, IndexInv, Indexed, IndexedBy, TypeOK, keyVars
  <2>3. \A e \in DevEUIs : StoredIndexed(e)'
    BY <1>5 DEF Abort, StoredIndexed, IndexInv, Indexed, keyVars
  <2> QED
    BY <2>1, <2>2, <2>3
<1>6. CASE Tick
  <2>1. ASSUME NEW d \in DevEUIs PROVE StoredIndexed(d)'
    <3> SUFFICES ASSUME session'[d] # None, indexLeft'[d] > 0,
                        NEW a \in AddrsOf(session'[d])
                 PROVE  Indexed(d, a, indexLeft[d])'
      BY DEF StoredIndexed
    <3>1. session'[d] = session[d] /\ indexLeft'[d] = Down(indexLeft[d])
      BY <1>6 DEF Tick, TypeOK
    <3>2. session[d] \in Session /\ indexLeft[d] \in 0..TTL /\ indexLeft[d] > 0
      BY <3>1 DEF TypeOK, Down
    <3>3. a \in DevAddrs /\ Indexed(d, a, indexLeft[d])
      BY <3>1, <3>2, AddrsOfType DEF IndexInv
    <3> QED
      BY <1>6, <3>1, <3>2, <3>3, TickKeeps DEF Indexed
  <2>2. ASSUME NEW c \in Clients PROVE SaveIndexed(c)'
    <3> SUFFICES ASSUME pc[c] # "idle", call'[c].left > 0, NEW a \in IndexedBy(c)'
                 PROVE  Indexed(call[c].DevEUI, a, call[c].left)'
      BY <1>6 DEF SaveIndexed, Tick
    <3>1. call[c] \in Call
      BY DEF TypeOK
    <3>2. call'[c] = [call[c] EXCEPT !.left = Down(@)]
      BY <1>6 DEF Tick
    <3>3. /\ call'[c].DevEUI = call[c].DevEUI
          /\ call'[c].s = call[c].s
          /\ call'[c].left = Down(call[c].left)
      BY <3>1, <3>2 DEF Call
    <3>4. call[c].left \in 0..TTL /\ call[c].left > 0 /\ call[c].DevEUI \in DevEUIs
      BY <3>1, <3>3 DEF Call, Down
    <3>5. a \in IndexedBy(c)
      BY <1>6, <3>3 DEF IndexedBy, Tick
    <3>6. a \in DevAddrs /\ Indexed(call[c].DevEUI, a, call[c].left)
      BY <3>4, <3>5, IndexedByType DEF IndexInv
    <3> QED
      BY <1>6, <3>3, <3>4, <3>6, TickKeeps DEF Indexed
  <2> QED
    BY <2>1, <2>2
<1>7. CASE UNCHANGED vars
  BY <1>7 DEF vars, keyVars, StoredIndexed, SaveIndexed, IndexInv, Indexed, IndexedBy
<1> QED
  BY <1>1, <1>2, <1>3, <1>4, <1>5, <1>6, <1>7 DEF Next

\* Stored sessions and half-done saves are indexed, and what a save has indexed
\* lives as long as the save counts on it.
THEOREM SavesKeepTheIndex == Spec => []IndexInv
<1>1. Init => IndexInv
  BY DEF Init, KeysInit, IndexInv
<1> QED
  BY <1>1, IndexInvStep, TypeCorrect, PTL DEF Spec

\* However many clients save at once, stop half-way or run past the TTL, the
\* network-server finds every stored session through the sets of its addresses
\* for one TTL from the first transaction of its save.
THEOREM StoredSessionsAreIndexed == Spec => []IndexCoversSessions
<1>1. IndexInv => IndexCoversSessions
  BY DEF IndexInv, IndexCoversSessions, Indexed
<1> QED
  BY <1>1, SavesKeepTheIndex, PTL
=============================================================================
