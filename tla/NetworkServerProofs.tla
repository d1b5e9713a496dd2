------------------------ MODULE NetworkServerProofs ------------------------
(***************************************************************************)
(* What the actions of NetworkServer preserve, for the proofs about the     *)
(* commands that run while they happen.                                     *)
(***************************************************************************)
EXTENDS NetworkServer, TLAPS

USE NetworkAssumption

\* The network's actions keep the databases well typed.
LEMMA NetworkActionTypes ==
  ASSUME NetworkTypeOK, NEW d \in DevEUIs,
         \/ Join(d) \/ LoseSession(d) \/ AppServerLearns(d) \/ UplinkAccepted(d)
         \/ UplinkDropped(d) \/ Downlink(d) \/ EnqueueMac(d)
  PROVE  NetworkTypeOK'
<1>1. CASE Join(d)
  <2> DEFINE g == activation[d] + 1
             s == [DevAddr |-> Addr[d][g], NwkKeys |-> g, AppSKey |-> g,
                   FCntUp |-> 0, NFCntDown |-> 0, AFCntDown |-> 0]
  <2>1. g \in Gens /\ Addr[d][g] \in DevAddrs /\ 0 \in FCnts
    BY <1>1 DEF Join, FCnts
  <2>2. s \in Session /\ g \in 0..MaxGen
    BY <2>1 DEF Session, Gens
  <2>3. session' = [session EXCEPT ![d] = s] /\ activation' = [activation EXCEPT ![d] = g]
    BY <1>1 DEF Join, SetSession
  <2> HIDE DEF g, s
  <2> QED
    BY <1>1, <2>1, <2>2, <2>3
    DEF Join, SAdd, FlushMACCommandQueue, NetworkTypeOK, RowsTypeOK
<1>2. CASE LoseSession(d)
  BY <1>2 DEF LoseSession, SetSession, NetworkTypeOK, RowsTypeOK
<1>3. CASE AppServerLearns(d)
  BY <1>3 DEF AppServerLearns, keyVars, NetworkTypeOK, RowsTypeOK
<1>4. CASE UplinkAccepted(d)
  <2>1. nextUp[d] \in 0..MaxFCnt /\ nextUp[d] + 1 \in FCnts
        /\ session[d] \in Session /\ activation[d] \in Gens
    BY <1>4 DEF UplinkAccepted, HasUsableSession, NetworkTypeOK, RowsTypeOK, FCnts, Session
  <2>2. [session[d] EXCEPT !.FCntUp = nextUp[d] + 1] \in Session
    BY <2>1 DEF Session
  <2>3. lastRX' \in [DevEUIs -> RXRow \union {None}]
    BY <1>4, <2>1 DEF UplinkAccepted, Logged, RXRow, NetworkTypeOK, RowsTypeOK
  <2> QED
    BY <1>4, <2>1, <2>2, <2>3 DEF UplinkAccepted, NetworkTypeOK, RowsTypeOK
<1>5. CASE UplinkDropped(d)
  <2>1. nextUp[d] + 1 \in FCnts
    BY <1>5 DEF UplinkDropped, NetworkTypeOK, RowsTypeOK, FCnts
  <2> QED
    BY <1>5, <2>1 DEF UplinkDropped, keyVars, NetworkTypeOK, RowsTypeOK
<1>6. CASE Downlink(d)
  <2>1. session[d] \in Session
    BY <1>6 DEF Downlink, HasUsableSession, NetworkTypeOK, RowsTypeOK
  <2>2. sentDown[d] \in [N : FCnts, A : FCnts]
    BY DEF NetworkTypeOK, RowsTypeOK
  <2>3. session' \in [DevEUIs -> Session \union {None}]
        /\ sentDown' \in [DevEUIs -> [N : FCnts, A : FCnts]]
    <3>1. CASE /\ session' = [session EXCEPT ![d] = [session[d] EXCEPT !.AFCntDown = @ + 1]]
               /\ sentDown' = [sentDown EXCEPT ![d] =
                                  [sentDown[d] EXCEPT !.A = session[d].AFCntDown + 1]]
      <4>1. session[d].AFCntDown + 1 \in FCnts
        BY <1>6, <2>1 DEF Downlink, Session, FCnts
      <4>2. /\ [session[d] EXCEPT !.AFCntDown = @ + 1] \in Session
            /\ [sentDown[d] EXCEPT !.A = session[d].AFCntDown + 1] \in [N : FCnts, A : FCnts]
        BY <2>1, <2>2, <4>1 DEF Session
      <4> QED
        BY <3>1, <4>2 DEF NetworkTypeOK, RowsTypeOK
    <3>2. CASE /\ session' = [session EXCEPT ![d] = [session[d] EXCEPT !.NFCntDown = @ + 1]]
               /\ sentDown' = [sentDown EXCEPT ![d] =
                                  [sentDown[d] EXCEPT !.N = session[d].NFCntDown + 1]]
      <4>1. session[d].NFCntDown + 1 \in FCnts
        BY <1>6, <2>1 DEF Downlink, Session, FCnts
      <4>2. /\ [session[d] EXCEPT !.NFCntDown = @ + 1] \in Session
            /\ [sentDown[d] EXCEPT !.N = session[d].NFCntDown + 1] \in [N : FCnts, A : FCnts]
        BY <2>1, <2>2, <4>1 DEF Session
      <4> QED
        BY <3>2, <4>2 DEF NetworkTypeOK, RowsTypeOK
    <3> QED
      BY <1>6, <3>1, <3>2 DEF Downlink
  <2>4. lastTX' \in [DevEUIs -> TXRow \union {None}]
    <3> DEFINE row == [gen |-> session[d].NwkKeys, NFCntDown |-> session[d].NFCntDown,
                       AFCntDown |-> session[d].AFCntDown]
    <3>1. row \in TXRow
      BY <1>6, <2>1 DEF Downlink, Session, FCnts, TXRow
    <3>2. PICK r \in Logged(lastTX[d], row) : lastTX' = [lastTX EXCEPT ![d] = r]
      BY <1>6 DEF Downlink
    <3>3. r \in TXRow \union {None}
      BY <3>1, <3>2 DEF Logged, NetworkTypeOK, RowsTypeOK
    <3> QED
      BY <3>2, <3>3 DEF NetworkTypeOK, RowsTypeOK
  <2> QED
    BY <1>6, <2>3, <2>4 DEF Downlink, NetworkTypeOK, RowsTypeOK
<1>7. CASE EnqueueMac(d)
  BY <1>7 DEF EnqueueMac, keyVars, NetworkTypeOK, RowsTypeOK
<1> QED
  BY <1>1, <1>2, <1>3, <1>4, <1>5, <1>6, <1>7

\* A step of the network other than a join: sessions are lost or counted up,
\* never re-keyed, and a device leaves an address set only with its session.
NoRekeying ==
    /\ activation' = activation
    /\ \A d \in DevEUIs, a \in DevAddrs : d \in devAddrSet[a] =>
          \/ d \in devAddrSet'[a]
          \/ session[d] # None /\ session[d].DevAddr = a /\ session'[d] = None
    /\ \A d \in DevEUIs : session'[d] # None =>
          /\ session[d] # None
          /\ session'[d].NwkKeys = session[d].NwkKeys
          /\ session'[d].AppSKey = session[d].AppSKey
          /\ session'[d].DevAddr = session[d].DevAddr

LEMMA NetworkNoRekeying ==
  ASSUME NetworkTypeOK, NEW d \in DevEUIs,
         \/ LoseSession(d) \/ AppServerLearns(d) \/ UplinkAccepted(d)
         \/ UplinkDropped(d) \/ Downlink(d) \/ EnqueueMac(d)
  PROVE  NoRekeying
<1>1. CASE LoseSession(d)
  <2>1. session' = [session EXCEPT ![d] = None] /\ activation' = activation
    BY <1>1 DEF LoseSession, SetSession
  <2>2. ASSUME NEW e \in DevEUIs, NEW a \in DevAddrs, e \in devAddrSet[a]
        PROVE  \/ e \in devAddrSet'[a]
               \/ session[e] # None /\ session[e].DevAddr = a /\ session'[e] = None
    <3>1. CASE UNCHANGED devAddrSet
      BY <2>2, <3>1
    <3>2. CASE /\ devAddrSet[session[d].DevAddr] = {d}
               /\ devAddrSet' = [devAddrSet EXCEPT ![session[d].DevAddr] = {}]
      <4>1. CASE a = session[d].DevAddr
        BY <1>1, <2>1, <2>2, <3>2, <4>1 DEF LoseSession, NetworkTypeOK, RowsTypeOK
      <4>2. CASE a # session[d].DevAddr
        BY <2>2, <3>2, <4>2 DEF NetworkTypeOK, RowsTypeOK
      <4> QED
        BY <4>1, <4>2
    <3> QED
      BY <1>1, <3>1, <3>2 DEF LoseSession
  <2> QED
    BY <2>1, <2>2 DEF NetworkTypeOK, RowsTypeOK, NoRekeying
<1>2. CASE UplinkAccepted(d)
  <2>1. session[d] \in Session /\ session[d] # None
    BY <1>2 DEF UplinkAccepted, HasUsableSession, NetworkTypeOK, RowsTypeOK
  <2> DEFINE s == [session[d] EXCEPT !.FCntUp = nextUp[d] + 1]
  <2>2. session' = [session EXCEPT ![d] = s]
    BY <1>2 DEF UplinkAccepted
  <2>3. /\ s.NwkKeys = session[d].NwkKeys /\ s.AppSKey = session[d].AppSKey
        /\ s.DevAddr = session[d].DevAddr
    BY <2>1 DEF Session
  <2> HIDE DEF s
  <2> QED
    BY <1>2, <2>1, <2>2, <2>3 DEF UplinkAccepted, NetworkTypeOK, RowsTypeOK, NoRekeying
<1>3. CASE Downlink(d)
  <2>1. session[d] \in Session /\ session[d] # None
    BY <1>3 DEF Downlink, HasUsableSession, NetworkTypeOK, RowsTypeOK
  <2>2. PICK s \in {[session[d] EXCEPT !.AFCntDown = @ + 1],
                    [session[d] EXCEPT !.NFCntDown = @ + 1]} :
           session' = [session EXCEPT ![d] = s]
    BY <1>3 DEF Downlink
  <2>3. /\ s.NwkKeys = session[d].NwkKeys /\ s.AppSKey = session[d].AppSKey
        /\ s.DevAddr = session[d].DevAddr
    BY <2>1 DEF Session
  <2> QED
    BY <1>3, <2>1, <2>2, <2>3 DEF Downlink, NetworkTypeOK, RowsTypeOK, NoRekeying
<1>4. CASE AppServerLearns(d) \/ UplinkDropped(d) \/ EnqueueMac(d)
  BY <1>4 DEF AppServerLearns, UplinkDropped, EnqueueMac, keyVars, NoRekeying
<1> QED
  BY <1>1, <1>2, <1>3, <1>4

-----------------------------------------------------------------------------
(* Counters.                                                               *)

\* Session s of device d would use no counter again; the NFCntDown of 1.1 devices,
\* which no command restores from the log, is left out.
IsFresh(d, s) ==
    /\ s.FCntUp >= acceptedUp[d]
    /\ s.AFCntDown >= sentDown[d].A
    /\ d \notin Is11 => s.NFCntDown >= sentDown[d].N

SessionsFresh == \A d \in DevEUIs : session[d] # None => IsFresh(d, session[d])

\* The last logged frames are as new as the counters in use.
LogIsFresh(d) ==
    /\ acceptedUp[d] # 0 =>
          lastRX[d] # None /\ lastRX[d].FCntUp + 1 >= acceptedUp[d]
    /\ sentDown[d].A # 0 =>
          lastTX[d] # None /\ lastTX[d].AFCntDown + 1 >= sentDown[d].A
    /\ d \notin Is11 /\ sentDown[d].N # 0 =>
          lastTX[d] # None /\ lastTX[d].NFCntDown + 1 >= sentDown[d].N
    /\ d \notin Is11 => sentDown[d].A = 0

CountersInUse == SessionsFresh /\ \A d \in DevEUIs : LogIsFresh(d)

\* Without a session no counter of a device is used and none of its frames logged.
OnlyWithSession ==
    /\ activation' = activation
    /\ \A e \in DevEUIs : session[e] = None =>
          /\ session'[e] = None
          /\ acceptedUp'[e] = acceptedUp[e] /\ sentDown'[e] = sentDown[e]
          /\ lastRX'[e] = lastRX[e] /\ lastTX'[e] = lastTX[e]
          /\ nextUp'[e] >= nextUp[e]

LEMMA NetworkOnlyWithSession ==
  ASSUME NetworkTypeOK, NEW d \in DevEUIs,
         \/ LoseSession(d) \/ AppServerLearns(d) \/ UplinkAccepted(d)
         \/ UplinkDropped(d) \/ Downlink(d) \/ EnqueueMac(d)
  PROVE  OnlyWithSession
<1>0. \A e \in DevEUIs : nextUp[e] \in Nat
  BY DEF NetworkTypeOK, RowsTypeOK, FCnts
<1>1. CASE LoseSession(d)
  BY <1>0, <1>1 DEF LoseSession, SetSession, OnlyWithSession, NetworkTypeOK, RowsTypeOK
<1>2. CASE AppServerLearns(d) \/ EnqueueMac(d)
  BY <1>0, <1>2 DEF AppServerLearns, EnqueueMac, keyVars, OnlyWithSession
<1>3. CASE UplinkAccepted(d)
  <2>1. /\ session[d] # None /\ activation' = activation
        /\ \A e \in DevEUIs \ {d} : session'[e] = session[e]
        /\ \A e \in DevEUIs \ {d} : acceptedUp'[e] = acceptedUp[e]
        /\ \A e \in DevEUIs \ {d} : nextUp'[e] = nextUp[e]
        /\ \A e \in DevEUIs \ {d} : lastRX'[e] = lastRX[e]
        /\ sentDown' = sentDown /\ lastTX' = lastTX
    BY <1>3 DEF UplinkAccepted, HasUsableSession, NetworkTypeOK, RowsTypeOK
  <2> QED
    BY <1>0, <2>1 DEF OnlyWithSession
<1>4. CASE UplinkDropped(d)
  BY <1>0, <1>4 DEF UplinkDropped, keyVars, OnlyWithSession, NetworkTypeOK, RowsTypeOK
<1>5. CASE Downlink(d)
  <2>1. /\ session[d] # None /\ activation' = activation
        /\ \A e \in DevEUIs \ {d} : session'[e] = session[e]
        /\ \A e \in DevEUIs \ {d} : sentDown'[e] = sentDown[e]
        /\ \A e \in DevEUIs \ {d} : lastTX'[e] = lastTX[e]
        /\ acceptedUp' = acceptedUp /\ nextUp' = nextUp /\ lastRX' = lastRX
    BY <1>5 DEF Downlink, HasUsableSession, NetworkTypeOK, RowsTypeOK
  <2> QED
    BY <1>0, <2>1 DEF OnlyWithSession
<1> QED
  BY <1>1, <1>2, <1>3, <1>4, <1>5

\* What CountersInUse says of one device.
DeviceInUse(e) == (session[e] # None => IsFresh(e, session[e])) /\ LogIsFresh(e)

\* With a complete log, using a counter also logs it; and a join starts afresh,
\* whatever was in use before.
LEMMA NetworkDeviceInUse ==
  ASSUME NetworkTypeOK, LogKept, LogComplete, NEW d \in DevEUIs,
         \/ Join(d) \/ LoseSession(d) \/ AppServerLearns(d) \/ UplinkAccepted(d)
         \/ UplinkDropped(d) \/ Downlink(d) \/ EnqueueMac(d),
         NEW e \in DevEUIs, DeviceInUse(e) \/ (e = d /\ Join(d))
  PROVE  DeviceInUse(e)'
<1> SUFFICES /\ session'[e] # None => IsFresh(e, session[e])'
             /\ LogIsFresh(e)'
  BY DEF DeviceInUse
<1>0. \/ /\ session[e] # None => IsFresh(e, session[e])
         /\ LogIsFresh(e)
      \/ e = d /\ Join(d)
  BY DEF DeviceInUse
<1>a. CASE Join(d) /\ e = d
  <2> DEFINE g == activation[d] + 1
             s == [DevAddr |-> Addr[d][g], NwkKeys |-> g, AppSKey |-> g,
                   FCntUp |-> 0, NFCntDown |-> 0, AFCntDown |-> 0]
  <2>1. /\ session'[e] = s
        /\ acceptedUp'[e] = 0 /\ sentDown'[e] = [N |-> 0, A |-> 0]
    BY <1>a DEF Join, SetSession, NetworkTypeOK, RowsTypeOK
  <2>2. s.FCntUp = 0 /\ s.NFCntDown = 0 /\ s.AFCntDown = 0
    OBVIOUS
  <2> HIDE DEF s
  <2> QED
    BY <2>1, <2>2 DEF IsFresh, LogIsFresh
<1> SUFFICES ASSUME ~(Join(d) /\ e = d)
             PROVE  /\ session'[e] # None => IsFresh(e, session[e])'
                    /\ LogIsFresh(e)'
  BY <1>a
<1>1. CASE Join(d)
  BY <1>0, <1>1 DEF Join, SetSession, NetworkTypeOK, RowsTypeOK, IsFresh, LogIsFresh
<1>2. CASE LoseSession(d)
  <2>1. session'[e] # None => session'[e] = session[e]
    BY <1>2 DEF LoseSession, SetSession, NetworkTypeOK, RowsTypeOK
  <2> QED
    BY <1>0, <1>2, <2>1 DEF LoseSession, IsFresh, LogIsFresh
<1>3. CASE AppServerLearns(d) \/ EnqueueMac(d) \/ UplinkDropped(d)
  BY <1>0, <1>3 DEF AppServerLearns, EnqueueMac, UplinkDropped, keyVars, IsFresh, LogIsFresh
<1>4. CASE UplinkAccepted(d)
  <2>1. CASE e = d
    <3> DEFINE f == nextUp[d]
               row == [gen |-> activation[d], FCntUp |-> f]
    <3>1. session[d] \in Session /\ session[d] # None /\ f \in Nat
      BY <1>4 DEF UplinkAccepted, HasUsableSession, NetworkTypeOK, RowsTypeOK, FCnts
    <3>2. /\ session'[d] = [session[d] EXCEPT !.FCntUp = f + 1]
          /\ acceptedUp'[d] = f + 1
          /\ sentDown'[d] = sentDown[d] /\ lastTX'[d] = lastTX[d]
      BY <1>4 DEF UplinkAccepted, NetworkTypeOK, RowsTypeOK
    <3>3. lastRX'[d] = row
      BY <1>4 DEF UplinkAccepted, Logged, NetworkTypeOK, RowsTypeOK
    <3>4. row # None /\ row.FCntUp = f
      <4>1. row \in RXRow
        BY <1>4, <3>1 DEF UplinkAccepted, HasUsableSession, NetworkTypeOK, RowsTypeOK, RXRow, Gens
      <4> QED
        BY <4>1, NoRowAssumption
    <3>5. /\ session'[d].FCntUp = f + 1
          /\ session'[d].NFCntDown = session[d].NFCntDown
          /\ session'[d].AFCntDown = session[d].AFCntDown
      BY <3>1, <3>2 DEF Session
    <3> HIDE DEF f, row
    <3> QED
      BY <1>0, <2>1, <3>1, <3>2, <3>3, <3>4, <3>5 DEF IsFresh, LogIsFresh
  <2>2. CASE e # d
    <3>1. /\ session'[e] = session[e] /\ acceptedUp'[e] = acceptedUp[e]
          /\ lastRX'[e] = lastRX[e] /\ sentDown' = sentDown /\ lastTX' = lastTX
      BY <1>4, <2>2 DEF UplinkAccepted, NetworkTypeOK, RowsTypeOK
    <3> QED
      BY <1>0, <3>1 DEF IsFresh, LogIsFresh
  <2> QED
    BY <2>1, <2>2
<1>5. CASE Downlink(d)
  <2>1. CASE e = d
    <3> DEFINE s == session[d]
               row == [gen |-> s.NwkKeys, NFCntDown |-> s.NFCntDown,
                       AFCntDown |-> s.AFCntDown]
    <3>1. /\ s \in Session /\ s # None /\ activation[d] \in Gens
          /\ s.NFCntDown \in 0..MaxFCnt /\ s.AFCntDown \in 0..MaxFCnt
      BY <1>5 DEF Downlink, HasUsableSession, NetworkTypeOK, RowsTypeOK, Session, FCnts
    <3>2. row \in TXRow
      BY <3>1 DEF Session, TXRow
    <3>3. lastTX'[d] = row /\ lastRX'[d] = lastRX[d] /\ acceptedUp'[d] = acceptedUp[d]
      BY <1>5 DEF Downlink, Logged, NetworkTypeOK, RowsTypeOK
    <3>4. row # None /\ row.NFCntDown = s.NFCntDown /\ row.AFCntDown = s.AFCntDown
      BY <3>2, NoRowAssumption
    <3>5. sentDown[d] \in [N : FCnts, A : FCnts] /\ sentDown[d].A \in Nat /\ sentDown[d].N \in Nat
      BY DEF NetworkTypeOK, RowsTypeOK, FCnts
    <3>6. CASE /\ d \in Is11
               /\ session' = [session EXCEPT ![d].AFCntDown = @ + 1]
               /\ sentDown' = [sentDown EXCEPT ![d].A = s.AFCntDown + 1]
      <4>1. /\ session'[d].FCntUp = s.FCntUp /\ session'[d].AFCntDown = s.AFCntDown + 1
            /\ sentDown'[d].A = s.AFCntDown + 1
        BY <3>1, <3>5, <3>6 DEF Session, NetworkTypeOK, RowsTypeOK
      <4> HIDE DEF row, s
      <4> QED
        BY <1>0, <2>1, <3>1, <3>3, <3>4, <3>5, <3>6, <4>1 DEF IsFresh, LogIsFresh, s
    <3>7. CASE /\ session' = [session EXCEPT ![d].NFCntDown = @ + 1]
               /\ sentDown' = [sentDown EXCEPT ![d].N = s.NFCntDown + 1]
      <4>1. /\ session'[d].FCntUp = s.FCntUp /\ session'[d].AFCntDown = s.AFCntDown
            /\ session'[d].NFCntDown = s.NFCntDown + 1
            /\ sentDown'[d].N = s.NFCntDown + 1 /\ sentDown'[d].A = sentDown[d].A
        BY <3>1, <3>5, <3>7 DEF Session, NetworkTypeOK, RowsTypeOK
      <4> HIDE DEF row, s
      <4> QED
        BY <1>0, <2>1, <3>1, <3>3, <3>4, <3>5, <4>1 DEF IsFresh, LogIsFresh, s
    <3> QED
      BY <1>5, <3>6, <3>7 DEF Downlink
  <2>2. CASE e # d
    <3>1. /\ session'[e] = session[e] /\ sentDown'[e] = sentDown[e]
          /\ lastTX'[e] = lastTX[e] /\ acceptedUp' = acceptedUp /\ lastRX' = lastRX
      BY <1>5, <2>2 DEF Downlink, NetworkTypeOK, RowsTypeOK
    <3> QED
      BY <1>0, <3>1 DEF IsFresh, LogIsFresh
  <2> QED
    BY <2>1, <2>2
<1> QED
  BY <1>1, <1>2, <1>3, <1>4, <1>5

LEMMA NetworkCountersInUse ==
  ASSUME NetworkTypeOK, CountersInUse, LogKept, LogComplete, NEW d \in DevEUIs,
         \/ Join(d) \/ LoseSession(d) \/ AppServerLearns(d) \/ UplinkAccepted(d)
         \/ UplinkDropped(d) \/ Downlink(d) \/ EnqueueMac(d)
  PROVE  CountersInUse'
<1>1. \A e \in DevEUIs : DeviceInUse(e)
  BY DEF CountersInUse, SessionsFresh, DeviceInUse
<1>2. \A e \in DevEUIs : DeviceInUse(e)'
  BY <1>1, NetworkDeviceInUse
<1> QED
  BY <1>2 DEF CountersInUse, SessionsFresh, DeviceInUse

LEMMA SavedIsInUse ==
  ASSUME NetworkTypeOK, CountersInUse, NEW d \in DevEUIs, NEW s, IsFresh(d, s),
         session' = [session EXCEPT ![d] = s],
         UNCHANGED <<acceptedUp, sentDown, lastRX, lastTX>>
  PROVE  CountersInUse'
<1>1. \A e \in DevEUIs : session'[e] = IF e = d THEN s ELSE session[e]
  BY DEF NetworkTypeOK, RowsTypeOK
<1> QED
  BY <1>1 DEF CountersInUse, SessionsFresh, IsFresh, LogIsFresh

-----------------------------------------------------------------------------
(* Lockouts.                                                               *)

\* Session s of device d lets the next uplink through, unless its counter comes
\* from a frame of an earlier activation.
WithinReach(d, s) ==
    \/ s.FCntUp <= nextUp[d]
    \/ lastRX[d] # None /\ lastRX[d].gen < activation[d]

\* The device counts on from its last logged frame, or has joined since.
LastFits(d) ==
    lastRX[d] # None =>
        \/ lastRX[d].gen < activation[d]
        \/ lastRX[d].gen = activation[d] /\ lastRX[d].FCntUp < nextUp[d]

\* The session of device e is of its newest activation, and within reach.
DeviceReach(e) ==
    session[e] # None => session[e].NwkKeys = activation[e] /\ WithinReach(e, session[e])

LEMMA NetworkLastFits ==
  ASSUME NetworkTypeOK, NEW d \in DevEUIs,
         \/ Join(d) \/ LoseSession(d) \/ AppServerLearns(d) \/ UplinkAccepted(d)
         \/ UplinkDropped(d) \/ Downlink(d) \/ EnqueueMac(d),
         NEW e \in DevEUIs, LastFits(e)
  PROVE  LastFits(e)'
<1>1. /\ activation[e] \in 0..MaxGen /\ nextUp[e] \in Nat
      /\ lastRX[e] # None => lastRX[e].gen \in Gens /\ lastRX[e].FCntUp \in Nat
  BY DEF NetworkTypeOK, RowsTypeOK, RXRow, FCnts
<1>2. CASE Join(d)
  BY <1>1, <1>2 DEF Join, NetworkTypeOK, RowsTypeOK, LastFits, Gens
<1>3. CASE LoseSession(d) \/ AppServerLearns(d) \/ EnqueueMac(d) \/ Downlink(d)
  BY <1>3 DEF LoseSession, AppServerLearns, EnqueueMac, Downlink, LastFits
<1>4. CASE UplinkDropped(d)
  BY <1>1, <1>4 DEF UplinkDropped, NetworkTypeOK, RowsTypeOK, LastFits
<1>5. CASE UplinkAccepted(d)
  <2> DEFINE row == [gen |-> activation[d], FCntUp |-> nextUp[d]]
  <2>1. row.gen = activation[d] /\ row.FCntUp = nextUp[d]
    OBVIOUS
  <2> HIDE DEF row
  <2>2. /\ activation' = activation
        /\ nextUp'[d] = nextUp[d] + 1 /\ lastRX'[d] \in {lastRX[d], row}
        /\ e # d => nextUp'[e] = nextUp[e] /\ lastRX'[e] = lastRX[e]
    BY <1>5 DEF UplinkAccepted, Logged, NetworkTypeOK, RowsTypeOK, row
  <2> QED
    BY <1>1, <2>1, <2>2 DEF LastFits
<1> QED
  BY <1>2, <1>3, <1>4, <1>5

LEMMA NetworkDeviceReach ==
  ASSUME NetworkTypeOK, NEW d \in DevEUIs,
         \/ Join(d) \/ LoseSession(d) \/ AppServerLearns(d) \/ UplinkAccepted(d)
         \/ UplinkDropped(d) \/ Downlink(d) \/ EnqueueMac(d),
         NEW e \in DevEUIs, LastFits(e), DeviceReach(e) \/ (e = d /\ Join(d))
  PROVE  DeviceReach(e)'
<1>0. \/ /\ LastFits(e)
         /\ session[e] # None =>
               session[e].NwkKeys = activation[e] /\ WithinReach(e, session[e])
      \/ e = d /\ Join(d)
  BY DEF DeviceReach
<1>b. CASE Join(d) /\ e = d
  <2> DEFINE g == activation[d] + 1
             s == [DevAddr |-> Addr[d][g], NwkKeys |-> g, AppSKey |-> g,
                   FCntUp |-> 0, NFCntDown |-> 0, AFCntDown |-> 0]
  <2>1. session'[e] = s /\ activation'[e] = g /\ nextUp'[e] = 0
    BY <1>b DEF Join, SetSession, NetworkTypeOK, RowsTypeOK
  <2>2. s.FCntUp = 0 /\ s.NwkKeys = g
    OBVIOUS
  <2> HIDE DEF s, g
  <2> QED
    BY <2>1, <2>2 DEF DeviceReach, WithinReach
<1> SUFFICES ASSUME ~(Join(d) /\ e = d)
             PROVE  session'[e] # None =>
                       session'[e].NwkKeys = activation'[e] /\ WithinReach(e, session[e])'
  BY <1>b DEF DeviceReach
<1>a. /\ activation[e] \in 0..MaxGen /\ nextUp[e] \in Nat
      /\ lastRX[e] # None => lastRX[e].gen \in Gens /\ lastRX[e].FCntUp \in Nat
      /\ session[e] # None => session[e] \in Session /\ session[e].FCntUp \in Nat
  BY DEF NetworkTypeOK, RowsTypeOK, RXRow, Session, FCnts
<1>1. CASE Join(d)
  BY <1>0, <1>1 DEF Join, SetSession, NetworkTypeOK, RowsTypeOK, WithinReach
<1>2. CASE LoseSession(d)
  <2>1. session'[e] # None => session'[e] = session[e]
    BY <1>2 DEF LoseSession, SetSession, NetworkTypeOK, RowsTypeOK
  <2> QED
    BY <1>0, <1>2, <2>1 DEF LoseSession, LastFits, WithinReach
<1>3. CASE AppServerLearns(d) \/ EnqueueMac(d)
  BY <1>0, <1>3 DEF AppServerLearns, EnqueueMac, keyVars, LastFits, WithinReach
<1>4. CASE UplinkDropped(d)
  <2>1. nextUp'[e] >= nextUp[e]
    BY <1>4, <1>a DEF UplinkDropped, NetworkTypeOK, RowsTypeOK
  <2>2. nextUp'[e] \in Nat
    BY <1>4, <1>a DEF UplinkDropped, NetworkTypeOK, RowsTypeOK
  <2> QED
    BY <1>0, <1>a, <1>4, <2>1, <2>2 DEF UplinkDropped, keyVars, LastFits, WithinReach
<1>5. CASE UplinkAccepted(d)
  <2>1. CASE e = d
    <3> DEFINE f == nextUp[d]
               row == [gen |-> activation[d], FCntUp |-> f]
    <3>1. session[d] \in Session /\ session[d] # None /\ f \in Nat
      BY <1>5 DEF UplinkAccepted, HasUsableSession, NetworkTypeOK, RowsTypeOK, FCnts
    <3>2. /\ session'[d] = [session[d] EXCEPT !.FCntUp = f + 1]
          /\ nextUp'[d] = f + 1 /\ activation' = activation
          /\ lastRX'[d] \in {lastRX[d], row}
      BY <1>5 DEF UplinkAccepted, Logged, NetworkTypeOK, RowsTypeOK
    <3>3. row.gen = activation[d] /\ row.FCntUp = f
      OBVIOUS
    <3>4. session'[d].FCntUp = f + 1 /\ session'[d].NwkKeys = session[d].NwkKeys
      BY <3>1, <3>2 DEF Session
    <3> HIDE DEF row
    <3> QED
      BY <1>0, <1>a, <2>1, <3>1, <3>2, <3>3, <3>4 DEF LastFits, WithinReach
  <2>2. CASE e # d
    <3>1. /\ session'[e] = session[e] /\ nextUp'[e] = nextUp[e]
          /\ lastRX'[e] = lastRX[e] /\ activation' = activation
      BY <1>5, <2>2 DEF UplinkAccepted, NetworkTypeOK, RowsTypeOK
    <3> QED
      BY <1>0, <3>1 DEF LastFits, WithinReach
  <2> QED
    BY <2>1, <2>2
<1>6. CASE Downlink(d)
  <2>1. /\ activation' = activation /\ nextUp' = nextUp /\ lastRX' = lastRX
    BY <1>6 DEF Downlink
  <2>2. CASE e = d
    <3>1. session[d] \in Session /\ session[d] # None
      BY <1>6 DEF Downlink, HasUsableSession, NetworkTypeOK, RowsTypeOK
    <3>2. PICK s \in {[session[d] EXCEPT !.AFCntDown = @ + 1],
                      [session[d] EXCEPT !.NFCntDown = @ + 1]} :
             session' = [session EXCEPT ![d] = s]
      BY <1>6 DEF Downlink
    <3>3. s.NwkKeys = session[d].NwkKeys /\ s.FCntUp = session[d].FCntUp
      BY <3>1, <3>2 DEF Session
    <3>4. session'[e] = s
      BY <2>2, <3>2 DEF NetworkTypeOK, RowsTypeOK
    <3> QED
      BY <1>0, <2>1, <2>2, <3>1, <3>3, <3>4 DEF LastFits, WithinReach
  <2>3. CASE e # d
    <3>1. session'[e] = session[e]
      BY <1>6, <2>3 DEF Downlink, NetworkTypeOK, RowsTypeOK
    <3> QED
      BY <1>0, <2>1, <3>1 DEF LastFits, WithinReach
  <2> QED
    BY <2>2, <2>3
<1> QED
  BY <1>1, <1>2, <1>3, <1>4, <1>5, <1>6

\* What a step of the network leaves of the rows of device e.
LEMMA NetworkKeepsRead ==
  ASSUME NetworkTypeOK, NEW d \in DevEUIs, NEW e \in DevEUIs,
         \/ /\ e # d
            /\ Join(d) \/ UplinkAccepted(d) \/ Downlink(d)
         \/ LoseSession(d) \/ AppServerLearns(d) \/ UplinkDropped(d) \/ EnqueueMac(d)
  PROVE  /\ activation'[e] = activation[e] /\ lastRX'[e] = lastRX[e]
         /\ acceptedUp'[e] = acceptedUp[e] /\ sentDown'[e] = sentDown[e]
         /\ nextUp'[e] >= nextUp[e]
<1>1. nextUp[e] \in Nat
  BY DEF NetworkTypeOK, RowsTypeOK, FCnts
<1>2. CASE e # d /\ Join(d)
  BY <1>1, <1>2 DEF Join, NetworkTypeOK, RowsTypeOK
<1>3. CASE e # d /\ UplinkAccepted(d)
  BY <1>1, <1>3 DEF UplinkAccepted, NetworkTypeOK, RowsTypeOK
<1>4. CASE e # d /\ Downlink(d)
  <2>1. sentDown'[e] = sentDown[e]
    BY <1>4 DEF Downlink, NetworkTypeOK, RowsTypeOK
  <2> QED
    BY <1>1, <1>4, <2>1 DEF Downlink
<1>5. CASE LoseSession(d) \/ AppServerLearns(d) \/ EnqueueMac(d)
  BY <1>1, <1>5 DEF LoseSession, AppServerLearns, EnqueueMac
<1>6. CASE UplinkDropped(d)
  BY <1>1, <1>6 DEF UplinkDropped, NetworkTypeOK, RowsTypeOK
<1> QED
  BY <1>2, <1>3, <1>4, <1>5, <1>6

-----------------------------------------------------------------------------
\* A frame or a command leaves every device its session.
LEMMA NetworkKeepsSessions ==
  ASSUME NetworkTypeOK, NEW d \in DevEUIs,
         \/ AppServerLearns(d) \/ UplinkAccepted(d) \/ UplinkDropped(d) \/ Downlink(d)
         \/ EnqueueMac(d)
  PROVE  \A e \in DevEUIs : session[e] # None => session'[e] # None
<1>1. CASE AppServerLearns(d) \/ UplinkDropped(d) \/ EnqueueMac(d)
  BY <1>1 DEF AppServerLearns, UplinkDropped, EnqueueMac, keyVars
<1>2. CASE UplinkAccepted(d)
  <2>1. session[d] \in Session /\ nextUp[d] + 1 \in FCnts
    BY <1>2 DEF UplinkAccepted, HasUsableSession, NetworkTypeOK, RowsTypeOK, FCnts
  <2>2. [session[d] EXCEPT !.FCntUp = nextUp[d] + 1] # None
    <3>1. [session[d] EXCEPT !.FCntUp = nextUp[d] + 1] \in Session
      BY <2>1 DEF Session
    <3> QED
      BY <3>1, NoneAssumption
  <2>3. session' = [session EXCEPT ![d] = [session[d] EXCEPT !.FCntUp = nextUp[d] + 1]]
    BY <1>2 DEF UplinkAccepted
  <2> QED
    BY <2>2, <2>3 DEF NetworkTypeOK, RowsTypeOK
<1>3. CASE Downlink(d)
  <2>1. /\ session[d] \in Session
        /\ session[d].NFCntDown + 1 \in FCnts /\ session[d].AFCntDown + 1 \in FCnts
    BY <1>3 DEF Downlink, HasUsableSession, NetworkTypeOK, RowsTypeOK, Session, FCnts
  <2>2. PICK s \in {[session[d] EXCEPT !.AFCntDown = @ + 1],
                    [session[d] EXCEPT !.NFCntDown = @ + 1]} :
           session' = [session EXCEPT ![d] = s]
    BY <1>3 DEF Downlink
  <2>3. s \in Session
    <3>1. CASE s = [session[d] EXCEPT !.AFCntDown = @ + 1]
      BY <2>1, <3>1 DEF Session
    <3>2. CASE s = [session[d] EXCEPT !.NFCntDown = @ + 1]
      BY <2>1, <3>2 DEF Session
    <3> QED
      BY <2>2, <3>1, <3>2
  <2> QED
    BY <2>2, <2>3, NoneAssumption DEF NetworkTypeOK, RowsTypeOK
<1> QED
  BY <1>1, <1>2, <1>3

\* The log forgets no device.
LEMMA NetworkKeepsRows ==
  ASSUME NetworkTypeOK, NEW d \in DevEUIs,
         \/ Join(d) \/ LoseSession(d) \/ AppServerLearns(d) \/ UplinkAccepted(d)
         \/ UplinkDropped(d) \/ Downlink(d) \/ EnqueueMac(d)
  PROVE  \A e \in DevEUIs : /\ lastRX[e] # None => lastRX'[e] # None
                            /\ lastTX[e] # None => lastTX'[e] # None
<1>1. CASE UplinkAccepted(d)
  <2> DEFINE new == [gen |-> activation[d], FCntUp |-> nextUp[d]]
  <2>1. activation[d] \in Gens /\ nextUp[d] \in 0..MaxFCnt
    BY <1>1 DEF UplinkAccepted, HasUsableSession, NetworkTypeOK, RowsTypeOK, Gens, FCnts
  <2>2. new # None
    BY <2>1, NoRowAssumption DEF RXRow
  <2> HIDE DEF new
  <2>3. PICK row \in {new, lastRX[d]} : lastRX' = [lastRX EXCEPT ![d] = row]
    BY <1>1 DEF UplinkAccepted, Logged, new
  <2> QED
    BY <1>1, <2>2, <2>3 DEF UplinkAccepted, NetworkTypeOK, RowsTypeOK
<1>2. CASE Downlink(d)
  <2> DEFINE s == session[d]
             new == [gen |-> s.NwkKeys, NFCntDown |-> s.NFCntDown, AFCntDown |-> s.AFCntDown]
  <2>1. s \in Session /\ s.NFCntDown \in 0..MaxFCnt /\ s.AFCntDown \in 0..MaxFCnt
    BY <1>2 DEF Downlink, HasUsableSession, NetworkTypeOK, Session, FCnts
  <2>2. new # None
    BY <2>1, NoRowAssumption DEF TXRow, Session
  <2>3. PICK row \in {new, lastTX[d]} : lastTX' = [lastTX EXCEPT ![d] = row]
    BY <1>2 DEF Downlink, Logged
  <2> HIDE DEF new
  <2> QED
    BY <1>2, <2>2, <2>3 DEF Downlink, NetworkTypeOK, RowsTypeOK
<1>3. CASE \/ Join(d) \/ LoseSession(d) \/ AppServerLearns(d) \/ UplinkDropped(d)
           \/ EnqueueMac(d)
  BY <1>3 DEF Join, LoseSession, AppServerLearns, UplinkDropped, EnqueueMac
<1> QED
  BY <1>1, <1>2, <1>3

-----------------------------------------------------------------------------
(* What SessionLifecycle sees of these actions.                            *)

\* The activation that the session of each device belongs to; 0 = no session.
current == [d \in DevEUIs |-> IF session[d] = None THEN 0 ELSE session[d].NwkKeys]

LEMMA CurrentEntries ==
  ASSUME NEW d \in DevEUIs, NEW g,
         \A e \in DevEUIs : current'[e] = IF e = d THEN g ELSE current[e]
  PROVE  current' = [current EXCEPT ![d] = g]
<1>1. DOMAIN current = DevEUIs
  BY DEF current
<1>2. current' = [e \in DevEUIs |-> current'[e]]
  BY DEF current
<1>3. [current EXCEPT ![d] = g] = [e \in DevEUIs |-> IF e = d THEN g ELSE current[e]]
  BY <1>1
<1> QED
  BY <1>2, <1>3

\* A session that is written changes the device's entry and no other.
LEMMA SavedIsCurrent ==
  ASSUME NetworkTypeOK, NEW d \in DevEUIs, NEW s, s # None,
         session' = [session EXCEPT ![d] = s]
  PROVE  current' = [current EXCEPT ![d] = s.NwkKeys]
<1>1. \A e \in DevEUIs : session'[e] = IF e = d THEN s ELSE session[e]
  BY DEF NetworkTypeOK, RowsTypeOK
<1>2. \A e \in DevEUIs : current'[e] = IF e = d THEN s.NwkKeys ELSE current[e]
  BY <1>1 DEF current
<1> QED
  BY <1>2, CurrentEntries, Zenon

LEMMA JoinIsCurrent ==
  ASSUME NetworkTypeOK, NEW d \in DevEUIs, Join(d)
  PROVE  /\ activation[d] < MaxGen
         /\ activation' = [activation EXCEPT ![d] = @ + 1]
         /\ current' = [current EXCEPT ![d] = activation[d] + 1]
<1> DEFINE g == activation[d] + 1
           s == [DevAddr |-> Addr[d][g], NwkKeys |-> g, AppSKey |-> g,
                 FCntUp |-> 0, NFCntDown |-> 0, AFCntDown |-> 0]
<1>1. g \in Gens /\ activation[d] \in 0..MaxGen
  BY DEF Join, NetworkTypeOK, RowsTypeOK
<1>2. activation[d] < MaxGen /\ activation' = [activation EXCEPT ![d] = activation[d] + 1]
  BY <1>1 DEF Join, Gens
<1>3. session' = [session EXCEPT ![d] = s]
  BY DEF Join, SetSession
<1>4. s \in Session /\ s.NwkKeys = g
  BY <1>1 DEF Session, FCnts
<1>5. s # None
  BY <1>4, NoneAssumption
<1> HIDE DEF s
<1> QED
  BY <1>2, <1>3, <1>4, <1>5, SavedIsCurrent

LEMMA LossIsCurrent ==
  ASSUME NetworkTypeOK, NEW d \in DevEUIs, LoseSession(d)
  PROVE  /\ current[d] # 0 /\ activation' = activation
         /\ current' = [current EXCEPT ![d] = 0]
<1>1. session[d] \in Session /\ session' = [session EXCEPT ![d] = None]
      /\ session[d] # None /\ activation' = activation
  BY DEF LoseSession, SetSession, NetworkTypeOK, RowsTypeOK
<1>2. current[d] # 0
  BY <1>1 DEF current, Session, Gens
<1>3. \A e \in DevEUIs : session'[e] = IF e = d THEN None ELSE session[e]
  BY <1>1 DEF NetworkTypeOK, RowsTypeOK
<1>4. \A e \in DevEUIs : current'[e] = IF e = d THEN 0 ELSE current[e]
  BY <1>3 DEF current
<1> QED
  BY <1>1, <1>2, <1>4, CurrentEntries, Zenon

LEMMA CountingIsCurrent ==
  ASSUME NetworkTypeOK, NEW d \in DevEUIs,
         \/ AppServerLearns(d) \/ UplinkAccepted(d) \/ UplinkDropped(d) \/ Downlink(d)
         \/ EnqueueMac(d)
  PROVE  activation' = activation /\ current' = current
<1>1. NoRekeying /\ \A e \in DevEUIs : session[e] # None => session'[e] # None
  BY NetworkNoRekeying, NetworkKeepsSessions
<1>2. \A e \in DevEUIs : (IF session'[e] = None THEN 0 ELSE session'[e].NwkKeys)
                        = (IF session[e] = None THEN 0 ELSE session[e].NwkKeys)
  BY <1>1 DEF NoRekeying
<1> QED
  BY <1>1, <1>2 DEF current, NoRekeying
=============================================================================
