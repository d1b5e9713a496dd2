---------------------------- MODULE NetworkServer ----------------------------
(***************************************************************************)
(* What the tool's databases are, and how they change under it: the LoRaWAN *)
(* devices, the network-server (PostgreSQL and Redis), the application-     *)
(* server (PostgreSQL) and the frame log (ClickHouse).  None of their code  *)
(* is in this repository; each action is what the rows and keys read and    *)
(* written by internal/storage say about them.                              *)
(*                                                                         *)
(* A device is reactivated by a join, numbered 1, 2, ...; every join makes  *)
(* a new address and new keys, so the number stands for both.  Row counters *)
(* are those the logged frame carried; session counters are the next ones.  *)
(***************************************************************************)
EXTENDS SessionKeys, Integers

CONSTANTS
    NSDevices,    \* devices with a row in the NS database
    ASDevices,    \* devices with a row in the AS database
    GoodProfiles, \* devices whose profile can be read: the row exists, and the
                  \* mask cmds_enabled has its 128 characters
    Addr,         \* Addr[d][g]: the address device d gets at its g-th join
    Is11,         \* devices whose profile has a MAC version 1.1.x
    MaxGen,       \* bound on the joins of a device
    MaxFCnt,      \* bound on frame counters, far from 2^32 - 1
    LogKept,      \* frames are logged in ClickHouse; FALSE where nobody reads it
    LogComplete   \* every frame is there before the tool looks

Gens == 1..MaxGen

\* The 25 random bits of a DevAddr differ between the joins of one device.
ASSUME NetworkAssumption ==
    /\ MaxGen \in Nat /\ MaxFCnt \in Nat
    /\ NSDevices \subseteq DevEUIs /\ ASDevices \subseteq DevEUIs
    /\ Is11 \subseteq DevEUIs /\ GoodProfiles \subseteq DevEUIs
    /\ Addr \in [DevEUIs -> [Gens -> DevAddrs]]
    /\ \A d \in DevEUIs : \A g, h \in Gens : Addr[d][g] = Addr[d][h] => g = h
    /\ LogKept \in BOOLEAN /\ LogComplete \in BOOLEAN

VARIABLES
    activation,   \* activation[d]: last row of device_activation; 0 = none
    asDevice,     \* asDevice[d]: the activation whose DevAddr and AppSKey the
                  \* AS row holds; 0 = none yet
    nextUp,       \* nextUp[d]: counter of the next uplink of the device
    acceptedUp,   \* acceptedUp[d]: 1 + the last accepted counter, this activation
    sentDown,     \* sentDown[d]: 1 + the last counters sent, this activation
    lastRX,       \* lastRX[d], lastTX[d]: last device_frames row, or None
    lastTX,
    macQueue      \* macQueue[d]: MAC commands queued for the present session
                  \* ("live") or for one that is gone ("leftover")

networkVars == <<keyVars, activation, asDevice, nextUp, acceptedUp, sentDown,
                 lastRX, lastTX, macQueue>>

FCnts == 0..(MaxFCnt + 1)

\* A device-session: the address, the network keys and the AppSKey, each named
\* by the activation it comes from, and the counters.
Session == [DevAddr : DevAddrs, NwkKeys : Gens, AppSKey : Gens,
            FCntUp : FCnts, NFCntDown : FCnts, AFCntDown : FCnts]

\* The absent key is no session.
ASSUME NoneAssumption == None \notin Session

\* The device_frames columns the tool uses, of the frame with these counters.
RXRow == [gen : Gens, FCntUp : 0..MaxFCnt]
TXRow == [gen : Gens, NFCntDown : 0..MaxFCnt, AFCntDown : 0..MaxFCnt]

\* Nor is the absent row a row.
ASSUME NoRowAssumption == None \notin RXRow /\ None \notin TXRow

RowsTypeOK ==
    /\ devAddrSet \in [DevAddrs -> SUBSET DevEUIs]
    /\ activation \in [DevEUIs -> 0..MaxGen]
    /\ asDevice \in [DevEUIs -> 0..MaxGen]
    /\ nextUp \in [DevEUIs -> FCnts]
    /\ acceptedUp \in [DevEUIs -> FCnts]
    /\ sentDown \in [DevEUIs -> [N : FCnts, A : FCnts]]
    /\ lastRX \in [DevEUIs -> RXRow \union {None}]
    /\ lastTX \in [DevEUIs -> TXRow \union {None}]
    /\ macQueue \in [DevEUIs -> SUBSET {"live", "leftover"}]

NetworkTypeOK ==
    /\ RowsTypeOK
    /\ session \in [DevEUIs -> Session \union {None}]

NetworkInit ==
    /\ KeysInit
    /\ activation = [d \in DevEUIs |-> 0]
    /\ asDevice = [d \in DevEUIs |-> 0]
    /\ nextUp = [d \in DevEUIs |-> 0]
    /\ acceptedUp = [d \in DevEUIs |-> 0]
    /\ sentDown = [d \in DevEUIs |-> [N |-> 0, A |-> 0]]
    /\ lastRX = [d \in DevEUIs |-> None]
    /\ lastTX = [d \in DevEUIs |-> None]
    /\ macQueue = [d \in DevEUIs |-> {}]

-----------------------------------------------------------------------------
(* The queries of internal/storage: whether they find their row.           *)

GetDeviceFromAS(d) == d \in ASDevices
GetDeviceFromNS(d) == d \in NSDevices
GetDeviceProfileFromNS(d) == d \in GoodProfiles

\* ORDER BY created_at DESC LIMIT 1 of the rows of one device.
GetLastDeviceActivation(d) == activation[d] # 0

\* ORDER BY DateTime DESC LIMIT 1 of the frames of one direction.
GetLastFrameForDevEui(d, frames) == frames[d] # None

-----------------------------------------------------------------------------
(* The network.                                                            *)

\* FlushMACCommandQueue: DEL of lora:ns:device:<DevEUI>:mac:queue.
FlushMACCommandQueue(d) == macQueue' = [macQueue EXCEPT ![d] = {}]

\* The device joins: a device_activation row, a new session in Redis.
Join(d) ==
    LET g == activation[d] + 1 IN
    /\ d \in NSDevices
    /\ g \in Gens
    /\ activation' = [activation EXCEPT ![d] = g]
    /\ SAdd(Addr[d][g], d)
    /\ SetSession(d, [DevAddr |-> Addr[d][g], NwkKeys |-> g, AppSKey |-> g,
                      FCntUp |-> 0, NFCntDown |-> 0, AFCntDown |-> 0])
    /\ FlushMACCommandQueue(d)
    /\ nextUp' = [nextUp EXCEPT ![d] = 0]
    /\ acceptedUp' = [acceptedUp EXCEPT ![d] = 0]
    /\ sentDown' = [sentDown EXCEPT ![d] = [N |-> 0, A |-> 0]]
    /\ UNCHANGED <<asDevice, lastRX, lastTX>>

\* The application-server stores the address and AppSKey of the last join, some
\* time after the network-server.
AppServerLearns(d) ==
    /\ d \in ASDevices
    /\ asDevice[d] # activation[d]
    /\ asDevice' = [asDevice EXCEPT ![d] = activation[d]]
    /\ UNCHANGED <<keyVars, activation, nextUp, acceptedUp, sentDown, lastRX,
                   lastTX, macQueue>>

\* The network-server can verify and count a frame of d with the session it has:
\* it has the keys, and the address that the frames of d carry.
HasUsableSession(d) ==
    /\ activation[d] # 0
    /\ session[d] # None
    /\ session[d].NwkKeys = activation[d]
    /\ session[d].DevAddr = Addr[d][activation[d]]
    /\ d \in devAddrSet[session[d].DevAddr]

\* What the log holds once the network-server has handled a frame.
Logged(old, row) ==
    (IF LogKept THEN {row} ELSE {}) \union (IF LogKept /\ LogComplete THEN {} ELSE {old})

\* The device sends an uplink, which the session lets through.
UplinkAccepted(d) ==
    LET f == nextUp[d] IN
    /\ f <= MaxFCnt
    /\ HasUsableSession(d)
    /\ f >= session[d].FCntUp
    /\ session' = [session EXCEPT ![d].FCntUp = f + 1]
    /\ acceptedUp' = [acceptedUp EXCEPT ![d] = f + 1]
    /\ nextUp' = [nextUp EXCEPT ![d] = f + 1]
    /\ \E row \in Logged(lastRX[d], [gen |-> activation[d], FCntUp |-> f]) :
          lastRX' = [lastRX EXCEPT ![d] = row]
    /\ UNCHANGED <<devAddrSet, activation, asDevice, sentDown, lastTX, macQueue>>

\* The device sends an uplink in vain: no session, or a counter it has passed.
UplinkDropped(d) ==
    /\ activation[d] > 0
    /\ nextUp[d] <= MaxFCnt
    /\ HasUsableSession(d) => nextUp[d] < session[d].FCntUp
    /\ nextUp' = [nextUp EXCEPT ![d] = @ + 1]
    /\ UNCHANGED <<keyVars, activation, asDevice, acceptedUp, sentDown, lastRX,
                   lastTX, macQueue>>

\* The network-server sends a downlink.  A 1.0 device has the counter NFCntDown
\* alone; a 1.1 device has AFCntDown for application frames besides.
Downlink(d) ==
    LET s == session[d]
        row == [gen |-> s.NwkKeys, NFCntDown |-> s.NFCntDown, AFCntDown |-> s.AFCntDown]
    IN
    /\ HasUsableSession(d)
    /\ s.NFCntDown <= MaxFCnt /\ s.AFCntDown <= MaxFCnt
    /\ \/ /\ d \in Is11
          /\ session' = [session EXCEPT ![d].AFCntDown = @ + 1]
          /\ sentDown' = [sentDown EXCEPT ![d].A = s.AFCntDown + 1]
       \/ /\ session' = [session EXCEPT ![d].NFCntDown = @ + 1]
          /\ sentDown' = [sentDown EXCEPT ![d].N = s.NFCntDown + 1]
    /\ \E r \in Logged(lastTX[d], row) : lastTX' = [lastTX EXCEPT ![d] = r]
    /\ UNCHANGED <<devAddrSet, activation, asDevice, nextUp, acceptedUp, lastRX, macQueue>>

\* The network-server queues a MAC command for the device.
EnqueueMac(d) ==
    /\ session[d] # None
    /\ macQueue' = [macQueue EXCEPT ![d] = @ \union {"live"}]
    /\ UNCHANGED <<keyVars, activation, asDevice, nextUp, acceptedUp, sentDown,
                   lastRX, lastTX>>

\* The session key is lost (expired, deleted): why the tool exists.  The set of
\* its address may go with it, unless it lives on for another device.
LoseSession(d) ==
    /\ session[d] # None
    /\ SetSession(d, None)
    /\ \/ UNCHANGED devAddrSet
       \/ /\ devAddrSet[session[d].DevAddr] = {d}
          /\ devAddrSet' = [devAddrSet EXCEPT ![session[d].DevAddr] = {}]
    /\ macQueue' = [macQueue EXCEPT ![d] = IF @ = {} THEN {} ELSE {"leftover"}]
    /\ UNCHANGED <<activation, asDevice, nextUp, acceptedUp, sentDown, lastRX, lastTX>>
=============================================================================
