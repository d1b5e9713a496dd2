--------------------------- MODULE RestoreSessions ---------------------------
(***************************************************************************)
(* The command restore-sessions, run while the network-server works.  A run *)
(* first PREPARES one session per listed device, by a query for each of the *)
(* rows it is made of (AS device, NS device with its profile, activation,   *)
(* last RX and TX frame), and then CREATES the prepared sessions one after  *)
(* the other: check that there is none, save, flush the MAC-command queue.  *)
(* Every query and every Redis transaction is a step of its own, with the   *)
(* network between; nothing is re-read in the second phase but the check.   *)
(*                                                                         *)
(* A run is much shorter than the TTL of the keys, so the time to live is   *)
(* left to SessionStore.                                                    *)
(***************************************************************************)
EXTENDS NetworkServer, Sequences

CONSTANTS
    DevLists,        \* the input files: lists of DevEUIs, with repetitions
    MaxRuns,         \* bound on the runs of the tool
    JoinsDuringRun,  \* devices join while a run is in progress
    LossDuringRun    \* session keys are lost while a run is in progress

ASSUME RestoreAssumption ==
    /\ DevLists \subseteq Seq(DevEUIs) \ {<<>>}
    /\ MaxRuns \in Nat
    /\ JoinsDuringRun \in BOOLEAN /\ LossDuringRun \in BOOLEAN

VARIABLES
    pc,           \* the next step of the tool
    devList,      \* c.devList
    idx,          \* the position of the loop of the current phase
    draft,        \* what has been read for the device of this iteration
    prepared,     \* c.sessions, each with its DevEUI
    runs,         \* runs started
    \* History:
    faulted,      \* a query or command failed, or the tool was stopped, in the
                  \* current run
    interrupted,  \* devices whose session was saved by a run that then stopped
                  \* before it flushed their queue
    overtaken,    \* devices that have joined, or had a frame counted, since the
                  \* present run read the row that says so
    behind        \* devices to which a run gave a session made of such rows,
                  \* until they join again

history == <<faulted, interrupted, overtaken, behind>>
toolVars == <<pc, devList, idx, draft, prepared, runs, history>>
vars == <<networkVars, toolVars>>

PrepareSteps == {"as", "ns", "profile", "activation", "rx", "tx"}
CreateSteps == {"check", "index", "set", "flush"}
Running == pc \in PrepareSteps \union CreateSteps

NoDraft == [AppSKey |-> 0, NwkKeys |-> 0, FCntUp |-> 0]
Draft == [AppSKey : 0..MaxGen, NwkKeys : 0..MaxGen, FCntUp : FCnts]
Prepared == [DevEUI : DevEUIs, s : Session]

TypeOK ==
    /\ NetworkTypeOK
    /\ pc \in PrepareSteps \union CreateSteps \union {"idle"}
    /\ devList \in DevLists \union {<<>>}
    /\ idx \in Nat
    /\ pc \in PrepareSteps => idx \in 1..Len(devList)
    /\ pc \in CreateSteps => idx \in 1..Len(prepared)
    /\ draft \in Draft
    /\ pc \in {"rx", "tx"} => draft.AppSKey \in Gens /\ draft.NwkKeys \in Gens
    /\ prepared \in Seq(Prepared)
    /\ runs \in 0..MaxRuns
    /\ faulted \in BOOLEAN
    /\ interrupted \subseteq DevEUIs
    /\ overtaken \subseteq DevEUIs /\ behind \subseteq DevEUIs

Init ==
    /\ NetworkInit
    /\ pc = "idle" /\ devList = <<>> /\ idx = 0
    /\ draft = NoDraft /\ prepared = <<>>
    /\ runs = 0 /\ faulted = FALSE /\ interrupted = {}
    /\ overtaken = {} /\ behind = {}

-----------------------------------------------------------------------------
(* prepareDeviceSessions.                                                  *)

dev == devList[idx]

\* parseInputFile has answered list l; the storages are connected.
Start(l) ==
    /\ pc = "idle"
    /\ runs < MaxRuns
    /\ runs' = runs + 1
    /\ devList' = l
    /\ idx' = 1
    /\ prepared' = <<>>
    /\ draft' = NoDraft
    /\ pc' = "as"
    /\ faulted' = FALSE /\ overtaken' = {}
    /\ UNCHANGED <<networkVars, interrupted, behind>>

\* The process is gone, and its variables with it.
Exit == /\ pc' = "idle" /\ idx' = 0
        /\ devList' = <<>> /\ draft' = NoDraft /\ prepared' = <<>>

\* The next iteration of the first loop.  After the last one the second loop
\* begins; without a prepared session createDeviceSessions answers an error and
\* the command exits.
NextDevice(p) ==
    \/ /\ idx < Len(devList)
       /\ pc' = "as" /\ idx' = idx + 1 /\ prepared' = p
       /\ draft' = NoDraft
       /\ UNCHANGED devList
    \/ /\ idx = Len(devList) /\ p # <<>>
       /\ pc' = "check" /\ idx' = 1 /\ prepared' = p
       /\ draft' = NoDraft
       /\ UNCHANGED devList
    \/ idx = Len(devList) /\ p = <<>> /\ Exit

\* Fault: break for continue, the rest of the list is not looked at.
SkipBreaks ==
    /\ IF prepared = <<>> THEN Exit
       ELSE /\ pc' = "check" /\ idx' = 1 /\ draft' = NoDraft
            /\ UNCHANGED <<devList, prepared>>
    /\ UNCHANGED <<networkVars, runs, history>>

\* Fault: the query is repeated until there is a row.
SkipRetries ==
    /\ pc' = "as" /\ draft' = NoDraft
    /\ UNCHANGED <<networkVars, devList, idx, prepared, runs, history>>

\* "Skipped": a row is missing or does not fit.
Skip ==
    /\ NextDevice(prepared)
    /\ UNCHANGED <<networkVars, runs, history>>

\* A query found its row: go on with the next one.
Found(next, d) ==
    /\ pc' = next
    /\ draft' = d
    /\ UNCHANGED <<networkVars, devList, idx, prepared, runs, history>>

\* GetDeviceFromAS.
ReadAS ==
    /\ pc = "as"
    /\ IF GetDeviceFromAS(dev)
       THEN Found("ns", [draft EXCEPT !.AppSKey = asDevice[dev]])
       ELSE Skip

\* GetDeviceFromNS.
ReadNS ==
    /\ pc = "ns"
    /\ IF GetDeviceFromNS(dev) THEN Found("profile", draft) ELSE Skip

\* GetDeviceProfileFromNS.
ReadProfile ==
    /\ pc = "profile"
    /\ IF GetDeviceProfileFromNS(dev) THEN Found("activation", draft) ELSE Skip

\* Fault: the two DevAddr are not compared.
ReadActivationUnchecked ==
    /\ pc = "activation"
    /\ IF GetLastDeviceActivation(dev) /\ draft.AppSKey # 0
       THEN Found("rx", [draft EXCEPT !.NwkKeys = activation[dev]])
       ELSE Skip

\* Fault: ORDER BY created_at without DESC, the first activation.
ReadActivationOldest ==
    /\ pc = "activation"
    /\ IF GetLastDeviceActivation(dev) /\ draft.AppSKey = 1
       THEN Found("rx", [draft EXCEPT !.NwkKeys = 1])
       ELSE Skip

\* GetLastDeviceActivation, and the comparison of the two DevAddr; the AS row
\* of a device that has not joined yet holds no address.
ReadActivation ==
    /\ pc = "activation"
    /\ IF /\ GetLastDeviceActivation(dev) /\ draft.AppSKey # 0
          /\ Addr[dev][draft.AppSKey] = Addr[dev][activation[dev]]
       THEN Found("rx", [draft EXCEPT !.NwkKeys = activation[dev]])
       ELSE Skip

\* Fault: the counter of the last uplink, not the next one.
ReadRXNotNext ==
    /\ pc = "rx"
    /\ IF GetLastFrameForDevEui(dev, lastRX)
       THEN Found("tx", [draft EXCEPT !.FCntUp = lastRX[dev].FCntUp])
       ELSE Skip

\* GetLastFrameForDevEui(.., "RX").
ReadRX ==
    /\ pc = "rx"
    /\ IF GetLastFrameForDevEui(dev, lastRX)
       THEN Found("tx", [draft EXCEPT !.FCntUp = lastRX[dev].FCntUp + 1])
       ELSE Skip

\* Fault: the uplink counter is incremented when read and when assembled.
AssembleIncrementsTwice(d, row) ==
    [DevAddr |-> Addr[d][draft.NwkKeys], NwkKeys |-> draft.NwkKeys,
     AppSKey |-> draft.AppSKey, FCntUp |-> draft.FCntUp + 1,
     NFCntDown |-> IF d \in Is11 THEN 0 ELSE row.NFCntDown + 1,
     AFCntDown |-> IF d \in Is11 THEN row.AFCntDown + 1 ELSE 0]

\* Fault: the test of the MAC version is inverted.
AssembleWrongVersion(d, row) ==
    [DevAddr |-> Addr[d][draft.NwkKeys], NwkKeys |-> draft.NwkKeys,
     AppSKey |-> draft.AppSKey, FCntUp |-> draft.FCntUp,
     NFCntDown |-> IF d \in Is11 THEN row.NFCntDown + 1 ELSE 0,
     AFCntDown |-> IF d \in Is11 THEN 0 ELSE row.AFCntDown + 1]

\* The session made of the rows read and the TX row: the downlink counter of
\* the MAC version is one past the last frame, the other one is zero.
Assemble(d, row) ==
    [DevAddr |-> Addr[d][draft.NwkKeys], NwkKeys |-> draft.NwkKeys,
     AppSKey |-> draft.AppSKey, FCntUp |-> draft.FCntUp,
     NFCntDown |-> IF d \in Is11 THEN 0 ELSE row.NFCntDown + 1,
     AFCntDown |-> IF d \in Is11 THEN row.AFCntDown + 1 ELSE 0]

\* GetLastFrameForDevEui(.., "TX"), then the session is appended to c.sessions.
ReadTX ==
    /\ pc = "tx"
    /\ IF GetLastFrameForDevEui(dev, lastTX)
       THEN /\ NextDevice(Append(prepared,
                   [DevEUI |-> dev, s |-> Assemble(dev, lastTX[dev])]))
            /\ UNCHANGED <<networkVars, runs, history>>
       ELSE Skip

\* A query fails for another reason than a missing row: skipped as well.
QueryFails ==
    /\ pc \in PrepareSteps
    /\ NextDevice(prepared)
    /\ faulted' = TRUE
    /\ UNCHANGED <<networkVars, runs, interrupted, overtaken, behind>>

-----------------------------------------------------------------------------
(* createDeviceSessions.                                                   *)

target == prepared[idx].DevEUI
toSave == prepared[idx].s

\* Fault: the loop goes one position too far.
NextSessionOffByOne ==
    \/ /\ idx <= Len(prepared)
       /\ pc' = "check" /\ idx' = idx + 1
       /\ UNCHANGED <<devList, draft, prepared>>
    \/ idx > Len(prepared) /\ Exit

\* Fault: the first session that exists ends the run (return for continue).
NextSessionReturns == Exit

\* The next iteration of the second loop; the run ends after the last one.
NextSession ==
    \/ /\ idx < Len(prepared)
       /\ pc' = "check" /\ idx' = idx + 1
       /\ UNCHANGED <<devList, draft, prepared>>
    \/ idx = Len(prepared) /\ Exit

\* Fault: saved without looking for an existing session.
CheckDropped ==
    /\ pc = "check"
    /\ pc' = "index"
    /\ UNCHANGED <<networkVars, devList, idx, draft, prepared, runs, history>>

\* GetDeviceSession: a session that exists is left alone.
Check ==
    /\ pc = "check"
    /\ IF DoesNotExist(target)
       THEN pc' = "index" /\ UNCHANGED <<devList, idx, draft, prepared>>
       ELSE NextSession
    /\ UNCHANGED <<networkVars, runs, history>>

\* Fault: the pipeline refreshes the set without adding the device.
IndexOnlyExpires ==
    /\ pc = "index"
    /\ pc' = "set"
    /\ UNCHANGED networkVars
    /\ UNCHANGED <<devList, idx, draft, prepared, runs, history>>

\* SaveDeviceSession, first transaction.
Index ==
    /\ pc = "index"
    /\ SAdd(toSave.DevAddr, target)
    /\ pc' = "set"
    /\ UNCHANGED <<session, activation, asDevice, nextUp, acceptedUp, sentDown,
                   lastRX, lastTX, macQueue>>
    /\ UNCHANGED <<devList, idx, draft, prepared, runs, history>>

\* The session about to be saved is made of rows that the device has overtaken,
\* and Check, or a join since then, did not prevent it.
FallsBehind ==
    behind' = IF /\ target \in overtaken
                 /\ session[target] = None \/ session[target].NwkKeys > toSave.NwkKeys
              THEN behind \union {target} ELSE behind

\* SaveDeviceSession, last transaction.
Set ==
    /\ pc = "set"
    /\ SetSession(target, toSave)
    /\ pc' = "flush"
    /\ FallsBehind
    /\ UNCHANGED <<devAddrSet, activation, asDevice, nextUp, acceptedUp, sentDown,
                   lastRX, lastTX, macQueue>>
    /\ UNCHANGED <<devList, idx, draft, prepared, runs, faulted, interrupted, overtaken>>

\* Fault: the flush is commented out, as in restore-sessions-from-dump.
FlushCommentedOut ==
    /\ pc = "flush"
    /\ NextSession
    /\ UNCHANGED <<networkVars, runs, history>>

\* FlushMACCommandQueue.
Flush ==
    /\ pc = "flush"
    /\ FlushMACCommandQueue(target)
    /\ NextSession
    /\ interrupted' = interrupted \ {target}
    /\ UNCHANGED <<keyVars, activation, asDevice, nextUp, acceptedUp, sentDown,
                   lastRX, lastTX>>
    /\ UNCHANGED <<runs, faulted, overtaken, behind>>

\* The tool is killed, or a Redis error in the second phase makes it exit.
Abort ==
    /\ Running
    /\ Exit
    /\ faulted' = TRUE
    /\ interrupted' = IF pc = "flush" THEN interrupted \union {target} ELSE interrupted
    /\ UNCHANGED <<networkVars, runs, overtaken, behind>>

-----------------------------------------------------------------------------
\* The tool when nothing fails.
Step == \/ ReadAS \/ ReadNS \/ ReadProfile \/ ReadActivation \/ ReadRX \/ ReadTX
        \/ Check \/ Index \/ Set \/ Flush

\* Device d overtakes what the run has read at one of these steps, or prepared.
Overtakes(d, steps) ==
    overtaken' = IF \/ pc \in steps /\ dev = d
                    \/ \E i \in DOMAIN prepared : prepared[i].DevEUI = d
                 THEN overtaken \union {d} ELSE overtaken

Network ==
    \E d \in DevEUIs :
       \/ /\ JoinsDuringRun \/ ~Running
          /\ Join(d)
          /\ Overtakes(d, {"rx", "tx"})
          /\ interrupted' = interrupted \ {d} /\ behind' = behind \ {d}
          /\ UNCHANGED <<pc, devList, idx, draft, prepared, runs, faulted>>
       \/ /\ LossDuringRun \/ ~Running
          /\ LoseSession(d)
          /\ UNCHANGED toolVars
       \/ AppServerLearns(d) /\ UNCHANGED toolVars
       \/ /\ UplinkAccepted(d)
          /\ Overtakes(d, {"tx"})
          /\ UNCHANGED <<pc, devList, idx, draft, prepared, runs, faulted,
                         interrupted, behind>>
       \/ UplinkDropped(d) /\ UNCHANGED toolVars
       \/ /\ Downlink(d)
          /\ Overtakes(d, {})
          /\ UNCHANGED <<pc, devList, idx, draft, prepared, runs, faulted,
                         interrupted, behind>>
       \/ EnqueueMac(d) /\ UNCHANGED toolVars

Next ==
    \/ \E l \in DevLists : Start(l)
    \/ Step
    \/ QueryFails
    \/ Abort
    \/ Network

Spec == Init /\ [][Next]_vars

\* A started run goes on: the tool is one goroutine that nothing blocks for ever
\* once the storages are connected.
FairSpec == Spec /\ WF_vars(Step)

-----------------------------------------------------------------------------
(* Properties.                                                             *)

\* The rows of a session come from two databases, written at different moments
\* while the run reads them.  A session in Redis, restored or not, and every
\* prepared one, has an address, network keys and AppSKey of one activation.
OneActivation(d, s) ==
    s.AppSKey = s.NwkKeys /\ s.DevAddr = Addr[d][s.NwkKeys]

KeysFromOneActivation ==
    /\ \A d \in DevEUIs : session[d] # None => OneActivation(d, session[d])
    /\ \A i \in DOMAIN prepared : OneActivation(prepared[i].DevEUI, prepared[i].s)

\* "a device session exists for the device. Skipped": between the check and the
\* save a session can still appear, but then it is from a join that this run
\* has not seen; the tool never replaces a session of the activation it
\* restores, nor one that was there when the run began.
OverwritesOnlyRacingJoin ==
    [][pc = "set" /\ pc' = "flush" /\ session[target] # None =>
          session[target].NwkKeys > toSave.NwkKeys]_vars

\* A restored session is found by the network-server: the device is in the set
\* of the session's address, wherever a run stops.
SessionIsIndexed ==
    \A d \in DevEUIs : session[d] # None => d \in devAddrSet[session[d].DevAddr]

\* A restored session does not inherit the MAC commands of the one it replaces,
\* unless the run stopped between the save and the flush; a later run skips the
\* device and does not make up for it.
LeftoversOnlyAfterInterruption ==
    \A d \in DevEUIs :
        session[d] # None /\ "leftover" \in macQueue[d] =>
            d \in interrupted \/ (pc = "flush" /\ target = d)

\* What is read in the first phase is still right when it is saved in the second,
\* whatever is lost meanwhile, in one case only: the device has not joined, and no
\* frame of it was counted, between the query and the save.  The four properties
\* below excuse just the devices for which that happened (`behind`): they had a
\* session when their rows were read, used it, and lost it before Check, or they
\* joined between the queries and the save.

\* A session is of the device's newest activation.
SessionIsNewest ==
    \A d \in DevEUIs :
        session[d] # None /\ d \notin behind => session[d].NwkKeys = activation[d]

\* It never accepts an uplink counter twice, also when a listed device comes up
\* again or the rows were read long before the session was lost.
UplinkCounterFresh ==
    \A d \in DevEUIs :
        session[d] # None /\ d \notin behind => session[d].FCntUp >= acceptedUp[d]

\* Nor does it give a downlink the counter of an earlier one, except in the
\* NFCntDown of a 1.1 device, which the code does not restore.
DownlinkCounterFresh ==
    \A d \in DevEUIs :
        session[d] # None /\ d \notin behind =>
            /\ session[d].AFCntDown >= sentDown[d].A
            /\ d \notin Is11 => session[d].NFCntDown >= sentDown[d].N

\* A session never asks for more than the next counter of its device, which
\* would lock the device out, but for one cause: the device has joined since its
\* last logged uplink, whose counter the tool took for the new activation's.
LockoutOnlyFromOldFrame ==
    \A d \in DevEUIs :
        session[d] # None /\ d \notin behind /\ session[d].FCntUp > nextUp[d]
        => lastRX[d] # None /\ lastRX[d].gen < activation[d]

\* Everything the tool needs to know about device d is in the databases.
Restorable(d) ==
    /\ d \in NSDevices /\ d \in ASDevices /\ d \in GoodProfiles
    /\ activation[d] # 0 /\ asDevice[d] = activation[d]
    /\ lastRX[d] # None /\ lastTX[d] # None

\* A run that lists a restorable device ends with a session for it, whatever
\* happens to the other devices of the list, unless a query or a command fails.
RestorableIsRestored ==
    \A d \in DevEUIs :
        (pc = "as" /\ idx = 1 /\ ~faulted /\ Restorable(d)
            /\ \E i \in DOMAIN devList : devList[i] = d)
        ~> (session[d] # None \/ faulted)

\* The run has device d still before it: in the rest of the list, in this
\* iteration with what was read so far, or among the prepared sessions not saved.
Awaited(d) ==
    /\ Restorable(d) /\ ~faulted
    /\ \/ /\ pc \in PrepareSteps
          /\ \/ \E i \in DOMAIN devList : i > idx /\ devList[i] = d
             \/ /\ dev = d
                /\ pc \in {"ns", "profile", "activation"} => draft.AppSKey = asDevice[d]
             \/ \E i \in DOMAIN prepared : prepared[i].DevEUI = d
       \/ /\ pc \in CreateSteps
          /\ \E i \in DOMAIN prepared :
                prepared[i].DevEUI = d /\ (i > idx \/ (i = idx /\ pc # "flush"))

\* What RestorableIsRestored says of each step: at no step of a run a restorable
\* device of its list falls out of it, through a skip, a row that appears or
\* changes meanwhile, or the end of a loop, without a session or a failure.
NoneIsPassedOver ==
    [][\A d \in DevEUIs :
          Awaited(d) => Awaited(d)' \/ session'[d] # None \/ faulted']_vars

\* The queries and commands that an iteration of either loop has left at most.
LeftOfIteration ==
    CASE pc = "as" -> 6 [] pc = "ns" -> 5 [] pc = "profile" -> 4
      [] pc = "activation" -> 3 [] pc = "rx" -> 2 [] pc = "tx" -> 1
      [] pc = "check" -> 4 [] pc = "index" -> 3 [] pc = "set" -> 2 [] pc = "flush" -> 1

\* Those that the run has left at most, with a session for each device to come.
Remaining ==
    CASE pc = "idle" -> 0
      [] pc \in PrepareSteps ->
            10 * (Len(devList) - idx) + LeftOfIteration + 4 * (Len(prepared) + 1)
      [] pc \in CreateSteps -> 4 * (Len(prepared) - idx) + LeftOfIteration

\* A run is over after ten steps for each line of its file, found or not, skipped
\* or not, and nothing that the network does meanwhile puts its end off.
RunsAdvance ==
    [][/\ \A l \in DevLists : Start(l) => Remaining' = 10 * Len(l)
       /\ Step \/ QueryFails \/ Abort => Remaining' \in 0..(Remaining - 1)
       /\ Network => Remaining' = Remaining]_vars

\* Restoring implements SessionLifecycle while no device joins during a run.
Lifecycle == INSTANCE SessionLifecycle WITH
    current <- [d \in DevEUIs |-> IF session[d] = None THEN 0 ELSE session[d].NwkKeys]

RestoresOnlyNewest == Lifecycle!Spec

-----------------------------------------------------------------------------
(* The inductive strengthening of KeysFromOneActivation, SessionIsIndexed   *)
(* and OverwritesOnlyRacingJoin.                                            *)

\* Session s of device d, stored or prepared, is of an activation that happened.
NotNewer(d, s) == s.NwkKeys <= activation[d]

DraftFits ==
    pc \in {"rx", "tx"} =>
        draft.AppSKey = draft.NwkKeys /\ draft.NwkKeys <= activation[dev]

PreparedFits == \A i \in DOMAIN prepared :
    /\ OneActivation(prepared[i].DevEUI, prepared[i].s)
    /\ NotNewer(prepared[i].DevEUI, prepared[i].s)

SessionFits == \A d \in DevEUIs : session[d] # None =>
    /\ OneActivation(d, session[d])
    /\ NotNewer(d, session[d])
    /\ d \in devAddrSet[session[d].DevAddr]

\* Between the check and the SET, only a newer session can have appeared.
GapUntilSet == pc \in {"index", "set"} /\ session[target] # None =>
    session[target].NwkKeys > toSave.NwkKeys

SetIsIndexed == pc = "set" => target \in devAddrSet[toSave.DevAddr]

RestoreInv == DraftFits /\ PreparedFits /\ SessionFits /\ GapUntilSet /\ SetIsIndexed

\* While no device joins during a run, what a run has read is of the newest
\* activation, for RestoresOnlyNewest.
ReadsNewest == ~JoinsDuringRun =>
    /\ pc \in {"rx", "tx"} => draft.NwkKeys = activation[dev]
    /\ \A i \in DOMAIN prepared :
          prepared[i].s.NwkKeys = activation[prepared[i].DevEUI]
    /\ pc = "idle" => prepared = <<>>
=============================================================================
