--------------------------- MODULE RestoreFromDump ---------------------------
(***************************************************************************)
(* The command restore-sessions-from-dump, run while the network-server     *)
(* works.  A second Redis serves a dump of the first one, taken at a time   *)
(* the operator names.  For every listed device the run first looks whether *)
(* there is a session (then it is skipped), reads the session in the dump,  *)
(* makes sure that the device has not joined since, and sets the counters   *)
(* from the frame log; the second phase only saves what the first prepared. *)
(* Every query and every Redis transaction is a step of its own.            *)
(*                                                                         *)
(* An error other than a missing row makes the command exit, in both        *)
(* phases: Abort.  Times to live are left to SessionStore.                  *)
(***************************************************************************)
EXTENDS NetworkServer, Sequences

CONSTANTS
    DevLists,        \* the input files: lists of DevEUIs, with repetitions
    RejoinAddrs,     \* addresses that a rejoin can bring
    MaxRuns,         \* bound on the runs of the tool
    JoinsDuringRun,  \* devices join while a run is in progress
    LossDuringRun    \* session keys are lost while a run is in progress

ASSUME DumpAssumption ==
    /\ DevLists \subseteq Seq(DevEUIs) \ {<<>>}
    /\ RejoinAddrs \subseteq DevAddrs /\ None \notin DevAddrs
    /\ MaxRuns \in Nat
    /\ JoinsDuringRun \in BOOLEAN /\ LossDuringRun \in BOOLEAN

VARIABLES
    rejoin,       \* rejoin[d]: the address of the pending rejoin session that the
                  \* session of d holds, or None
    dump,         \* dump[d]: the session of d in the second Redis, or None
    dumpRejoin,   \* dumpRejoin[d]: the pending rejoin of that session
    dumpGen,      \* dumpGen[d]: the activation of d at the time c.dumpDT, which is
                  \* the time of the dump; 0 before there is one
    dumped,       \* the dump has been taken
    pc,           \* the next step of the tool
    devList,      \* c.devList
    idx,          \* the position of the loop of the current phase
    draft,        \* the session of this iteration, None before it is read
    prepared,     \* c.sessions, each with its DevEUI
    runs,         \* runs started
    \* History:
    faulted,      \* a command failed or the tool was stopped in the current run
    saved         \* devices the current run has saved

dumpVars == <<dump, dumpRejoin, dumpGen, dumped>>
toolVars == <<pc, devList, idx, draft, prepared, runs, faulted, saved>>
vars == <<networkVars, rejoin, dumpVars, toolVars>>

PrepareSteps == {"check", "dump", "activation", "rx", "tx"}
CreateSteps == {"index", "pending", "set"}
Running == pc \in PrepareSteps \union CreateSteps

\* A session of c.sessions, with the address of its pending rejoin.
Prepared == [DevEUI : DevEUIs, s : Session, rejoin : DevAddrs \union {None}]

TypeOK ==
    /\ NetworkTypeOK
    /\ rejoin \in [DevEUIs -> DevAddrs \union {None}]
    /\ dump \in [DevEUIs -> Session \union {None}]
    /\ dumpRejoin \in [DevEUIs -> DevAddrs \union {None}]
    /\ dumpGen \in [DevEUIs -> 0..MaxGen]
    /\ dumped \in BOOLEAN
    /\ pc \in PrepareSteps \union CreateSteps \union {"idle"}
    /\ devList \in DevLists \union {<<>>}
    /\ pc \in PrepareSteps => idx \in 1..Len(devList)
    /\ pc \in CreateSteps => idx \in 1..Len(prepared)
    /\ draft \in Session \union {None}
    /\ pc \in {"activation", "rx", "tx"} => draft # None
    /\ prepared \in Seq(Prepared)
    /\ pc = "pending" => prepared[idx].rejoin # None
    /\ runs \in 0..MaxRuns
    /\ faulted \in BOOLEAN
    /\ saved \subseteq DevEUIs

Init ==
    /\ NetworkInit
    /\ rejoin = [d \in DevEUIs |-> None]
    /\ dump = [d \in DevEUIs |-> None]
    /\ dumpRejoin = [d \in DevEUIs |-> None]
    /\ dumpGen = [d \in DevEUIs |-> 0]
    /\ dumped = FALSE
    /\ pc = "idle" /\ devList = <<>> /\ idx = 0
    /\ draft = None /\ prepared = <<>>
    /\ runs = 0 /\ faulted = FALSE /\ saved = {}

-----------------------------------------------------------------------------
(* prepareDeviceSessions.                                                  *)

\* The operator saves the Redis database and notes the time.
TakeDump ==
    /\ ~dumped
    /\ dump' = session
    /\ dumpRejoin' = rejoin
    /\ dumpGen' = activation
    /\ dumped' = TRUE
    /\ UNCHANGED <<networkVars, rejoin, toolVars>>

dev == devList[idx]

\* parseDateTime and parseInputFile are done; the storages are connected.
Start(l) ==
    /\ pc = "idle"
    /\ dumped
    /\ runs < MaxRuns
    /\ runs' = runs + 1
    /\ devList' = l
    /\ idx' = 1
    /\ pc' = "check"
    /\ faulted' = FALSE
    /\ saved' = {}
    /\ UNCHANGED <<networkVars, rejoin, dumpVars, draft, prepared>>

\* The process is gone, and its variables with it.
Exit == /\ pc' = "idle" /\ idx' = 0
        /\ devList' = <<>> /\ draft' = None /\ prepared' = <<>>

\* The next iteration of the first loop, with p the sessions prepared.  After
\* the last one the second loop begins; with no session the command exits.
NextDevice(p) ==
    \/ /\ idx < Len(devList)
       /\ pc' = "check" /\ idx' = idx + 1 /\ prepared' = p
       /\ draft' = None
       /\ UNCHANGED devList
    \/ /\ idx = Len(devList) /\ p # <<>>
       /\ pc' = "index" /\ idx' = 1 /\ prepared' = p
       /\ draft' = None
       /\ UNCHANGED devList
    \/ idx = Len(devList) /\ p = <<>> /\ Exit

\* "Skipped".
Skip ==
    /\ NextDevice(prepared)
    /\ UNCHANGED <<networkVars, rejoin, dumpVars, runs, faulted, saved>>

\* Go on with session s and the next query.
Continue(next, s) ==
    /\ pc' = next
    /\ draft' = s
    /\ UNCHANGED <<networkVars, rejoin, dumpVars, devList, idx, prepared, runs, faulted, saved>>

\* GetDeviceSession in the first Redis: a device that has a session is skipped.
Check ==
    /\ pc = "check"
    /\ IF DoesNotExist(dev) THEN Continue("dump", None) ELSE Skip

\* GetDeviceSession in the second Redis.
ReadDump ==
    /\ pc = "dump"
    /\ IF dump[dev] # None THEN Continue("activation", dump[dev]) ELSE Skip

\* Fault: the dates of the join and of the dump are not compared.
ReadActivationUnchecked ==
    /\ pc = "activation"
    /\ Continue("rx", draft)

\* GetLastDeviceActivation: skipped if created after the dump.  A device
\* without any activation goes on.
ReadActivation ==
    /\ pc = "activation"
    /\ IF GetLastDeviceActivation(dev) /\ activation[dev] > dumpGen[dev]
       THEN Skip
       ELSE Continue("rx", draft)

\* Fault: the counter of the last uplink, not the next one.
ReadRXNotNext ==
    /\ pc = "rx"
    /\ IF GetLastFrameForDevEui(dev, lastRX)
       THEN Continue("tx", [draft EXCEPT !.FCntUp = lastRX[dev].FCntUp])
       ELSE Continue("tx", draft)

\* Fault: a device without a logged uplink is skipped, as in restore-sessions.
ReadRXSkipsMissing ==
    /\ pc = "rx"
    /\ IF GetLastFrameForDevEui(dev, lastRX)
       THEN Continue("tx", [draft EXCEPT !.FCntUp = lastRX[dev].FCntUp + 1])
       ELSE Skip

\* GetLastFrameForDevEui(.., "RX"): without a row the dumped counter is kept.
ReadRX ==
    /\ pc = "rx"
    /\ IF GetLastFrameForDevEui(dev, lastRX)
       THEN Continue("tx", [draft EXCEPT !.FCntUp = lastRX[dev].FCntUp + 1])
       ELSE Continue("tx", draft)

\* Fault: the test of the MAC version is inverted.
WithDownlinkWrongVersion(d, row) ==
    IF d \in Is11 THEN [draft EXCEPT !.NFCntDown = row.NFCntDown + 1]
                  ELSE [draft EXCEPT !.AFCntDown = row.AFCntDown + 1]

\* The downlink counter of the session's MAC version is one past the last frame.
WithDownlink(d, row) ==
    IF d \in Is11 THEN [draft EXCEPT !.AFCntDown = row.AFCntDown + 1]
                  ELSE [draft EXCEPT !.NFCntDown = row.NFCntDown + 1]

\* GetLastFrameForDevEui(.., "TX"), then the session is appended to c.sessions.
ReadTX ==
    /\ pc = "tx"
    /\ LET s == IF GetLastFrameForDevEui(dev, lastTX) THEN WithDownlink(dev, lastTX[dev]) ELSE draft
       IN  NextDevice(Append(prepared, [DevEUI |-> dev, s |-> s, rejoin |-> dumpRejoin[dev]]))
    /\ UNCHANGED <<networkVars, rejoin, dumpVars, runs, faulted, saved>>

-----------------------------------------------------------------------------
(* createDeviceSessions.                                                   *)

target == prepared[idx].DevEUI
toSave == prepared[idx].s

\* The transaction that follows the first one.
AfterIndex == IF prepared[idx].rejoin = None THEN "set" ELSE "pending"

\* Fault: the pipeline refreshes the set without adding the device.
IndexOnlyExpires ==
    /\ pc = "index"
    /\ pc' = AfterIndex
    /\ UNCHANGED <<networkVars, rejoin, dumpVars>>
    /\ UNCHANGED <<devList, idx, draft, prepared, runs, faulted, saved>>

\* SaveDeviceSession, first transaction.
Index ==
    /\ pc = "index"
    /\ SAdd(toSave.DevAddr, target)
    /\ pc' = AfterIndex
    /\ UNCHANGED <<session, activation, asDevice, nextUp, acceptedUp, sentDown,
                   lastRX, lastTX, macQueue, rejoin, dumpVars>>
    /\ UNCHANGED <<devList, idx, draft, prepared, runs, faulted, saved>>

\* Fault: the address of the session again, not that of its pending rejoin.
IndexPendingAtOldAddr ==
    /\ pc = "pending"
    /\ SAdd(toSave.DevAddr, target)
    /\ pc' = "set"
    /\ UNCHANGED <<session, activation, asDevice, nextUp, acceptedUp, sentDown,
                   lastRX, lastTX, macQueue, rejoin, dumpVars>>
    /\ UNCHANGED <<devList, idx, draft, prepared, runs, faulted, saved>>

\* SaveDeviceSession, the transaction of a pending rejoin.
IndexPending ==
    /\ pc = "pending"
    /\ SAdd(prepared[idx].rejoin, target)
    /\ pc' = "set"
    /\ UNCHANGED <<session, activation, asDevice, nextUp, acceptedUp, sentDown,
                   lastRX, lastTX, macQueue, rejoin, dumpVars>>
    /\ UNCHANGED <<devList, idx, draft, prepared, runs, faulted, saved>>

\* Fault: the loop goes one position too far.
NextSessionOffByOne ==
    \/ /\ idx <= Len(prepared)
       /\ pc' = "index" /\ idx' = idx + 1
       /\ UNCHANGED <<devList, draft, prepared>>
    \/ idx > Len(prepared) /\ Exit

\* The next iteration of the second loop; the run ends after the last one.
NextSession ==
    \/ /\ idx < Len(prepared)
       /\ pc' = "index" /\ idx' = idx + 1
       /\ UNCHANGED <<devList, draft, prepared>>
    \/ idx = Len(prepared) /\ Exit

\* SaveDeviceSession, last transaction.  "Flushed Mac-command queue" is logged;
\* the call is commented out.
Set ==
    /\ pc = "set"
    /\ SetSession(target, toSave)
    /\ rejoin' = [rejoin EXCEPT ![target] = prepared[idx].rejoin]
    /\ NextSession
    /\ saved' = saved \union {target}
    /\ UNCHANGED <<devAddrSet, activation, asDevice, nextUp, acceptedUp, sentDown,
                   lastRX, lastTX, macQueue, dumpVars>>
    /\ UNCHANGED <<runs, faulted>>

\* The tool is killed, or an error makes it exit.
Abort ==
    /\ Running
    /\ Exit
    /\ faulted' = TRUE
    /\ UNCHANGED <<networkVars, rejoin, dumpVars, runs, saved>>

-----------------------------------------------------------------------------
\* The tool when nothing fails.
Step == \/ Check \/ ReadDump \/ ReadActivation \/ ReadRX \/ ReadTX
        \/ Index \/ IndexPending \/ Set

\* A 1.1 device asks to rejoin: what it is answered is stored as a session within
\* its session.  To take it up is to join, for all that this tool sees of it.
Rejoin(d) ==
    /\ d \in Is11
    /\ HasUsableSession(d) /\ rejoin[d] = None
    /\ \E a \in RejoinAddrs : /\ SAdd(a, d)
                              /\ rejoin' = [rejoin EXCEPT ![d] = a]
    /\ UNCHANGED <<session, activation, asDevice, nextUp, acceptedUp, sentDown,
                   lastRX, lastTX, macQueue>>

\* The set of an address that no session has expires.
SetExpires(a) ==
    /\ devAddrSet[a] # {}
    /\ \A d \in devAddrSet[a] :
          session[d] # None => session[d].DevAddr # a /\ rejoin[d] # a
    /\ devAddrSet' = [devAddrSet EXCEPT ![a] = {}]
    /\ UNCHANGED <<session, activation, asDevice, nextUp, acceptedUp, sentDown,
                   lastRX, lastTX, macQueue, rejoin>>

\* A set that a save has just refreshed outlives that save: see SessionStore.
Refreshed == pc \in {"pending", "set"}

Network ==
    /\ \/ \E d \in DevEUIs :
             \/ /\ JoinsDuringRun \/ ~Running
                /\ Join(d)
                /\ rejoin' = [rejoin EXCEPT ![d] = None]
             \/ /\ LossDuringRun \/ ~Running
                /\ LoseSession(d)
                /\ rejoin' = [rejoin EXCEPT ![d] = None]
                /\ Refreshed => devAddrSet' = devAddrSet
             \/ Rejoin(d)
             \/ /\ \/ UplinkAccepted(d) \/ UplinkDropped(d)
                   \/ Downlink(d) \/ EnqueueMac(d)
                /\ UNCHANGED rejoin
       \/ \E a \in DevAddrs : ~Refreshed /\ SetExpires(a)
    /\ UNCHANGED <<dumpVars, toolVars>>

Next ==
    \/ TakeDump
    \/ \E l \in DevLists : Start(l)
    \/ Step
    \/ Abort
    \/ Network

Spec == Init /\ [][Next]_vars

\* A started run goes on, as in RestoreSessions.
FairSpec == Spec /\ WF_vars(Step)

-----------------------------------------------------------------------------
(* Properties.                                                             *)

\* While no device joins during a run, restoring from a dump implements
\* SessionLifecycle: a dumped session is brought back only to a device without
\* one that has not joined since the dump.
Lifecycle == INSTANCE SessionLifecycle WITH
    current <- [d \in DevEUIs |-> IF session[d] = None THEN 0 ELSE session[d].NwkKeys]

RestoresOnlyNewest == Lifecycle!Spec

\* The session of the present activation never accepts an uplink counter twice,
\* though the dump is older than frames accepted since, in this or later runs.
UplinkCounterFresh ==
    \A d \in DevEUIs :
        session[d] # None /\ session[d].NwkKeys = activation[d] =>
            session[d].FCntUp >= acceptedUp[d]

\* Nor does it give a downlink the counter of an earlier one, except in the
\* NFCntDown of a 1.1 device, which the code does not restore.
DownlinkCounterFresh ==
    \A d \in DevEUIs :
        session[d] # None /\ session[d].NwkKeys = activation[d] =>
            /\ session[d].AFCntDown >= sentDown[d].A
            /\ d \notin Is11 => session[d].NFCntDown >= sentDown[d].N

\* A run that lists a device without a session, which is in the dump and has not
\* joined since, ends with a session for it, frames logged or not, unless an
\* error stops the run.
DumpedIsRestored ==
    \A d \in DevEUIs :
        (pc = "check" /\ idx = 1 /\ ~faulted
            /\ dump[d] # None /\ activation[d] = dumpGen[d]
            /\ \E i \in DOMAIN devList : devList[i] = d)
        ~> (session[d] # None \/ faulted)

\* The run has device d still before it, as in RestoreSessions.
Awaited(d) ==
    /\ dump[d] # None /\ activation[d] = dumpGen[d] /\ ~faulted
    /\ \/ /\ pc \in PrepareSteps
          /\ \/ \E i \in DOMAIN devList : i >= idx /\ devList[i] = d
             \/ \E i \in DOMAIN prepared : prepared[i].DevEUI = d
       \/ /\ pc \in CreateSteps
          /\ \E i \in DOMAIN prepared : i >= idx /\ prepared[i].DevEUI = d

\* What DumpedIsRestored says of each step: none loses a device of the list that
\* is in the dump and has not joined since, without a session or a failure.
NoneIsPassedOver ==
    [][\A d \in DevEUIs :
          Awaited(d) => Awaited(d)' \/ session'[d] # None \/ faulted']_vars

\* The queries and commands that an iteration of either loop has left at most.
LeftOfIteration ==
    CASE pc = "check" -> 5 [] pc = "dump" -> 4 [] pc = "activation" -> 3
      [] pc = "rx" -> 2 [] pc = "tx" -> 1
      [] pc = "index" -> 3 [] pc = "pending" -> 2 [] pc = "set" -> 1

\* Those that the run has left at most, with a session for each device to come.
Remaining ==
    CASE pc = "idle" -> 0
      [] pc \in PrepareSteps ->
            8 * (Len(devList) - idx) + LeftOfIteration + 3 * (Len(prepared) + 1)
      [] pc \in CreateSteps -> 3 * (Len(prepared) - idx) + LeftOfIteration

\* A run is over after eight steps for each line of its file, a pending rejoin
\* included, and nothing that the network does meanwhile puts its end off.
RunsAdvance ==
    [][/\ \A l \in DevLists : Start(l) => Remaining' = 8 * Len(l)
       /\ Step \/ Abort => Remaining' \in 0..(Remaining - 1)
       /\ Network => Remaining' = Remaining]_vars

\* A session brought back is found by the network-server: the device is in the
\* set of the session's address and in that of its pending rejoin, wherever a run
\* stops, and whichever sessions and sets are lost before the run and during it.
SessionIsIndexed ==
    \A d \in DevEUIs : session[d] # None =>
        /\ d \in devAddrSet[session[d].DevAddr]
        /\ rejoin[d] # None => d \in devAddrSet[rejoin[d]]

\* "It works only for known devices without device-session in redis": a save
\* never replaces a session.
NeverOverwrites == [][Set => DoesNotExist(target)]_vars

\* "a device session saved. Flushed Mac-command queue": a saved session does not
\* inherit the MAC commands queued for the one that was lost.
QueueIsFlushed ==
    \A d \in saved : session[d] # None => "leftover" \notin macQueue[d]

\* "counters will be improved automatically in case there are packets in
\* clickhouse database": the log only ever raises the dumped uplink counter.
CountersImproved ==
    \A i \in DOMAIN prepared :
        prepared[i].s.FCntUp >= dump[prepared[i].DevEUI].FCntUp
=============================================================================
