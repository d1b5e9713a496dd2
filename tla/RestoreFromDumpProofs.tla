----------------------- MODULE RestoreFromDumpProofs -----------------------
(***************************************************************************)
(* Proofs about RestoreFromDump, for any devices, input files, times of the *)
(* dump, numbers of joins, frames and runs.                                 *)
(***************************************************************************)
EXTENDS RestoreFromDump, NetworkServerProofs, SequenceTheorems

USE NetworkAssumption, DumpAssumption

-----------------------------------------------------------------------------
(* Type correctness.                                                       *)

DumpTypeOK ==
    /\ rejoin \in [DevEUIs -> DevAddrs \union {None}]
    /\ dump \in [DevEUIs -> Session \union {None}]
    /\ dumpRejoin \in [DevEUIs -> DevAddrs \union {None}]
    /\ dumpGen \in [DevEUIs -> 0..MaxGen]
    /\ dumped \in BOOLEAN

ToolTypeOK ==
    /\ pc \in PrepareSteps \union CreateSteps \union {"idle"}
    /\ devList \in DevLists \union {<<>>}
    /\ pc \in PrepareSteps => idx \in 1..Len(devList)
    /\ pc \in CreateSteps => idx \in 1..Len(prepared)
    /\ draft \in Session \union {None}
    /\ pc \in {"activation", "rx", "tx"} => draft # None
    /\ prepared \in Seq(Prepared)
    /\ pc = "pending" => prepared[idx].rejoin # None
    /\ runs \in 0..MaxRuns
    /\ faulted \in BOOLEAN
    /\ saved \subseteq DevEUIs

\* The steps that change neither the databases nor the dump.
LEMMA SameDatabases ==
  ASSUME TypeOK, UNCHANGED <<networkVars, rejoin, dumpVars>>
  PROVE  NetworkTypeOK' /\ DumpTypeOK'
BY DEF TypeOK, NetworkTypeOK, RowsTypeOK, DumpTypeOK, networkVars, keyVars, dumpVars

\* The device of an iteration, and the session about to be saved.
LEMMA DevType ==
  ASSUME TypeOK, pc \in PrepareSteps
  PROVE  dev \in DevEUIs /\ devList \in Seq(DevEUIs) /\ idx \in 1..Len(devList)
<1>1. devList \in Seq(DevEUIs)
  BY EmptySeq DEF TypeOK
<1> QED
  BY <1>1 DEF TypeOK, dev

LEMMA TargetType ==
  ASSUME TypeOK, pc \in CreateSteps
  PROVE  /\ target \in DevEUIs /\ toSave \in Session /\ idx \in DOMAIN prepared
         /\ prepared[idx].rejoin \in DevAddrs \union {None}
<1>1. prepared \in Seq(Prepared) /\ idx \in 1..Len(prepared)
  BY DEF TypeOK, Prepared
<1>2. prepared[idx] \in Prepared /\ idx \in DOMAIN prepared
  BY <1>1
<1> QED
  BY <1>2 DEF Prepared, target, toSave

\* Leaving an iteration of the first loop, with p the sessions prepared so far.
LEMMA NextDeviceType ==
  ASSUME TypeOK, pc \in PrepareSteps, NEW p \in Seq(Prepared), NextDevice(p),
         UNCHANGED <<runs, faulted, saved>>
  PROVE  ToolTypeOK'
<1>1. idx \in 1..Len(devList) /\ Len(devList) \in Nat
  BY DevType DEF TypeOK
<1>2. CASE idx < Len(devList) /\ pc' = "check" /\ idx' = idx + 1 /\ prepared' = p
           /\ draft' = None /\ UNCHANGED devList
  BY <1>1, <1>2 DEF TypeOK, ToolTypeOK, PrepareSteps, CreateSteps
<1>3. CASE p # <<>> /\ pc' = "index" /\ idx' = 1 /\ prepared' = p
           /\ draft' = None /\ UNCHANGED devList
  <2>1. Len(p) \in Nat /\ Len(p) # 0
    BY <1>3, EmptySeq
  <2>2. 1 \in 1..Len(p)
    BY <2>1
  <2> QED
    BY <1>3, <2>2 DEF TypeOK, ToolTypeOK, PrepareSteps, CreateSteps
<1>4. CASE Exit
  BY <1>4 DEF Exit, TypeOK, ToolTypeOK, PrepareSteps, CreateSteps
<1> QED
  BY <1>2, <1>3, <1>4 DEF NextDevice

LEMMA SkipType ==
  ASSUME TypeOK, pc \in PrepareSteps, Skip
  PROVE  NetworkTypeOK' /\ DumpTypeOK' /\ ToolTypeOK'
<1>1. prepared \in Seq(Prepared)
  BY DEF TypeOK, Prepared
<1>2. ToolTypeOK'
  BY <1>1, NextDeviceType DEF Skip
<1> QED
  BY <1>2, SameDatabases DEF Skip

LEMMA ContinueType ==
  ASSUME TypeOK, pc \in PrepareSteps, NEW next \in PrepareSteps,
         NEW s \in Session \union {None}, next \in {"activation", "rx", "tx"} => s # None,
         Continue(next, s)
  PROVE  NetworkTypeOK' /\ DumpTypeOK' /\ ToolTypeOK'
<1>1. NetworkTypeOK' /\ DumpTypeOK'
  BY SameDatabases DEF Continue
<1>2. ToolTypeOK'
  BY DEF Continue, TypeOK, ToolTypeOK, PrepareSteps, CreateSteps, Prepared
<1> QED
  BY <1>1, <1>2

\* The counters that the log brings are in range.
LEMMA UplinkType ==
  ASSUME TypeOK, pc = "rx", lastRX[dev] # None
  PROVE  /\ [draft EXCEPT !.FCntUp = lastRX[dev].FCntUp + 1] \in Session
         /\ lastRX[dev] \in RXRow
<1>1. dev \in DevEUIs /\ draft \in Session
  BY DevType DEF PrepareSteps, TypeOK
<1>2. lastRX[dev] \in RXRow
  BY <1>1 DEF TypeOK, NetworkTypeOK, RowsTypeOK
<1>3. lastRX[dev].FCntUp + 1 \in FCnts
  BY <1>2 DEF RXRow, FCnts
<1> QED
  BY <1>1, <1>2, <1>3 DEF Session

LEMMA DownlinkType ==
  ASSUME TypeOK, pc = "tx", lastTX[dev] # None
  PROVE  /\ WithDownlink(dev, lastTX[dev]) \in Session
         /\ lastTX[dev] \in TXRow
<1>1. dev \in DevEUIs /\ draft \in Session
  BY DevType DEF PrepareSteps, TypeOK
<1>2. lastTX[dev] \in TXRow
  BY <1>1 DEF TypeOK, NetworkTypeOK, RowsTypeOK
<1>3. lastTX[dev].NFCntDown + 1 \in FCnts /\ lastTX[dev].AFCntDown + 1 \in FCnts
  BY <1>2 DEF TXRow, FCnts
<1>4. /\ [draft EXCEPT !.AFCntDown = lastTX[dev].AFCntDown + 1] \in Session
      /\ [draft EXCEPT !.NFCntDown = lastTX[dev].NFCntDown + 1] \in Session
  BY <1>1, <1>3 DEF Session
<1> QED
  BY <1>2, <1>4 DEF WithDownlink

\* The session that the last query of an iteration appends.
found == IF lastTX[dev] # None THEN WithDownlink(dev, lastTX[dev]) ELSE draft

item == [DevEUI |-> dev, s |-> found, rejoin |-> dumpRejoin[dev]]

LEMMA FoundType ==
  ASSUME TypeOK, pc = "tx"
  PROVE  /\ found \in Session
         /\ dev \in DevEUIs
         /\ item \in Prepared
         /\ Append(prepared, item) \in Seq(Prepared)
         /\ item.DevEUI = dev /\ item.s = found
<1>1. found \in Session /\ dev \in DevEUIs
  BY DownlinkType, DevType DEF found, PrepareSteps, TypeOK
<1>2. item \in Prepared
  BY <1>1 DEF Prepared, item, TypeOK
<1>3. prepared \in Seq(Prepared)
  BY DEF TypeOK, Prepared
<1> QED
  BY <1>1, <1>2, <1>3 DEF item

LEMMA NextSessionType ==
  ASSUME TypeOK, pc \in CreateSteps, NextSession,
         runs' \in 0..MaxRuns, faulted' \in BOOLEAN, saved' \subseteq DevEUIs
  PROVE  ToolTypeOK'
<1>1. idx \in 1..Len(prepared) /\ Len(prepared) \in Nat
  BY DEF TypeOK
<1>2. CASE idx < Len(prepared) /\ pc' = "index" /\ idx' = idx + 1
           /\ UNCHANGED <<devList, draft, prepared>>
  BY <1>1, <1>2 DEF TypeOK, ToolTypeOK, PrepareSteps, CreateSteps, Prepared
<1>3. CASE Exit
  BY <1>3 DEF Exit, ToolTypeOK, PrepareSteps, CreateSteps
<1> QED
  BY <1>2, <1>3 DEF NextSession

\* The steps of the network besides those of NetworkServer change one set, and the
\* pending rejoin of one device.
Aside == UNCHANGED <<session, activation, asDevice, nextUp, acceptedUp, sentDown,
                     lastRX, lastTX, macQueue>>

LEMMA NetworkSteps ==
  ASSUME TypeOK, Network
  PROVE  \E d \in DevEUIs :
            \/ Join(d) /\ (JoinsDuringRun \/ ~Running)
            \/ LoseSession(d) /\ (Refreshed => devAddrSet' = devAddrSet)
            \/ UplinkAccepted(d) \/ UplinkDropped(d) \/ Downlink(d) \/ EnqueueMac(d)
            \/ Aside
<1>1. CASE \E d \in DevEUIs : Rejoin(d)
  BY <1>1 DEF Rejoin, Aside
<1>2. CASE \E a \in DevAddrs : SetExpires(a)
  <2>1. PICK a \in DevAddrs : SetExpires(a)
    BY <1>2
  <2>2. \E d \in DevEUIs : d \in devAddrSet[a]
    BY <2>1 DEF SetExpires, TypeOK, NetworkTypeOK, RowsTypeOK
  <2> QED
    BY <2>1, <2>2 DEF SetExpires, Aside
<1> QED
  BY <1>1, <1>2 DEF Network

\* The types of the sets and of the pending rejoins.
LEMMA NetworkSetTypes ==
  ASSUME TypeOK, Network, Aside
  PROVE  devAddrSet' \in [DevAddrs -> SUBSET DevEUIs]
<1>0. devAddrSet \in [DevAddrs -> SUBSET DevEUIs]
  BY DEF TypeOK, NetworkTypeOK, RowsTypeOK
<1>1. ASSUME NEW d \in DevEUIs, Rejoin(d) PROVE devAddrSet' \in [DevAddrs -> SUBSET DevEUIs]
  BY <1>0, <1>1 DEF Rejoin, SAdd
<1>2. ASSUME NEW a \in DevAddrs, SetExpires(a)
      PROVE  devAddrSet' \in [DevAddrs -> SUBSET DevEUIs]
  BY <1>0, <1>2 DEF SetExpires
<1>3. ASSUME NEW d \in DevEUIs,
             Join(d) \/ LoseSession(d) \/ UplinkAccepted(d) \/ UplinkDropped(d)
             \/ Downlink(d) \/ EnqueueMac(d)
      PROVE  devAddrSet' \in [DevAddrs -> SUBSET DevEUIs]
  BY <1>3, NetworkActionTypes DEF TypeOK, NetworkTypeOK, RowsTypeOK
<1> QED
  BY <1>1, <1>2, <1>3 DEF Network

LEMMA NetworkRejoinType ==
  ASSUME TypeOK, Network PROVE rejoin' \in [DevEUIs -> DevAddrs \union {None}]
<1>1. rejoin \in [DevEUIs -> DevAddrs \union {None}] /\ RejoinAddrs \subseteq DevAddrs
  BY DEF TypeOK
<1> QED
  BY <1>1 DEF Network, Rejoin, SetExpires

LEMMA TypeOKStep == TypeOK /\ [Next]_vars => TypeOK'
<1> SUFFICES ASSUME TypeOK, [Next]_vars PROVE NetworkTypeOK' /\ DumpTypeOK' /\ ToolTypeOK'
  BY DEF TypeOK, DumpTypeOK, ToolTypeOK, Prepared
<1>1. CASE TakeDump
  BY <1>1 DEF TakeDump, TypeOK, NetworkTypeOK, RowsTypeOK, DumpTypeOK, ToolTypeOK, Prepared,
              networkVars, keyVars, toolVars
<1>2. ASSUME NEW l \in DevLists, Start(l) PROVE NetworkTypeOK' /\ DumpTypeOK' /\ ToolTypeOK'
  <2>1. l \in Seq(DevEUIs) /\ l # <<>>
    OBVIOUS
  <2>2. Len(l) \in Nat /\ Len(l) # 0
    BY <2>1, EmptySeq
  <2>3. 1 \in 1..Len(l) /\ runs' \in 0..MaxRuns
    BY <1>2, <2>2 DEF Start, TypeOK
  <2>4. ToolTypeOK'
    BY <1>2, <2>3 DEF Start, TypeOK, ToolTypeOK, PrepareSteps, CreateSteps, Prepared
  <2> QED
    BY <1>2, <2>4, SameDatabases DEF Start
<1>3. CASE Check
  <2>1. pc \in PrepareSteps /\ "dump" \in PrepareSteps
    BY <1>3 DEF Check, PrepareSteps
  <2> QED
    BY <1>3, <2>1, SkipType, ContinueType DEF Check
<1>4. CASE ReadDump
  <2>1. pc \in PrepareSteps /\ "activation" \in PrepareSteps
    BY <1>4 DEF ReadDump, PrepareSteps
  <2>2. dump[dev] \in Session \union {None}
    BY <2>1, DevType DEF TypeOK
  <2> QED
    BY <1>4, <2>1, <2>2, SkipType, ContinueType DEF ReadDump
<1>5. CASE ReadActivation
  <2>1. /\ pc \in PrepareSteps /\ "rx" \in PrepareSteps
        /\ draft \in Session \union {None} /\ draft # None
    BY <1>5 DEF ReadActivation, PrepareSteps, TypeOK
  <2> QED
    BY <1>5, <2>1, SkipType, ContinueType DEF ReadActivation
<1>6. CASE ReadRX
  <2>1. /\ pc \in PrepareSteps /\ "tx" \in PrepareSteps /\ pc = "rx"
        /\ draft \in Session \union {None} /\ draft # None
    BY <1>6 DEF ReadRX, PrepareSteps, TypeOK
  <2>2. CASE lastRX[dev] # None /\ Continue("tx", [draft EXCEPT !.FCntUp = lastRX[dev].FCntUp + 1])
    <3>1. [draft EXCEPT !.FCntUp = lastRX[dev].FCntUp + 1] \in Session
      BY <2>1, <2>2, UplinkType
    <3> QED
      BY <2>1, <2>2, <3>1, NoneAssumption, ContinueType
  <2>3. CASE Continue("tx", draft)
    BY <2>1, <2>3, ContinueType
  <2> QED
    BY <1>6, <2>2, <2>3 DEF ReadRX, GetLastFrameForDevEui
<1>7. CASE ReadTX
  <2>1. pc \in PrepareSteps /\ pc = "tx"
    BY <1>7 DEF ReadTX, PrepareSteps
  <2> DEFINE p == Append(prepared, item)
  <2>2. p \in Seq(Prepared)
    BY <2>1, FoundType
  <2>3. NextDevice(p) /\ UNCHANGED <<networkVars, rejoin, dumpVars, runs, faulted, saved>>
    BY <1>7 DEF ReadTX, found, item, GetLastFrameForDevEui
  <2> HIDE DEF p
  <2> QED
    BY <2>1, <2>2, <2>3, NextDeviceType, SameDatabases
<1>8. CASE Index \/ IndexPending
  <2>1. pc \in CreateSteps /\ pc' \in {"pending", "set"}
    BY <1>8 DEF Index, IndexPending, AfterIndex, CreateSteps
  <2>2. target \in DevEUIs
    BY <2>1, TargetType
  <2>3. NetworkTypeOK'
    <3>1. /\ devAddrSet' \in [DevAddrs -> SUBSET DevEUIs]
          /\ UNCHANGED <<session, activation, asDevice, nextUp, acceptedUp, sentDown,
                         lastRX, lastTX, macQueue>>
      <4>1. devAddrSet \in [DevAddrs -> SUBSET DevEUIs]
        BY DEF TypeOK, NetworkTypeOK, RowsTypeOK
      <4>2. CASE Index
        BY <2>2, <4>1, <4>2 DEF Index, SAdd
      <4>3. CASE IndexPending
        BY <2>2, <4>1, <4>3 DEF IndexPending, SAdd
      <4> QED
        BY <1>8, <4>2, <4>3
    <3> QED
      BY <3>1 DEF TypeOK, NetworkTypeOK, RowsTypeOK
  <2>4. pc' = "pending" => prepared[idx].rejoin # None
    BY <1>8 DEF Index, IndexPending, AfterIndex
  <2> QED
    BY <1>8, <2>1, <2>3, <2>4
    DEF Index, IndexPending, TypeOK, DumpTypeOK, ToolTypeOK, PrepareSteps, CreateSteps,
        Prepared, dumpVars
<1>9. CASE Set
  <2>1. pc \in CreateSteps
    BY <1>9 DEF Set, CreateSteps
  <2>2. toSave \in Session /\ target \in DevEUIs
    BY <2>1, TargetType
  <2>3. NetworkTypeOK'
    BY <1>9, <2>2 DEF Set, SetSession, TypeOK, NetworkTypeOK, RowsTypeOK
  <2>4. runs' \in 0..MaxRuns /\ faulted' \in BOOLEAN /\ saved' \subseteq DevEUIs
    BY <1>9, <2>2 DEF Set, TypeOK
  <2>5. DumpTypeOK'
    BY <1>9, <2>1, TargetType DEF Set, TypeOK, DumpTypeOK, dumpVars
  <2> QED
    BY <1>9, <2>1, <2>3, <2>4, <2>5, NextSessionType DEF Set
<1>10. CASE Abort
  <2>1. ToolTypeOK'
    BY <1>10 DEF Abort, Exit, TypeOK, ToolTypeOK, PrepareSteps, CreateSteps
  <2> QED
    BY <1>10, <2>1, SameDatabases DEF Abort
<1>11. CASE Network
  <2>1. PICK d \in DevEUIs :
           \/ Join(d) \/ LoseSession(d) \/ UplinkAccepted(d)
           \/ UplinkDropped(d) \/ Downlink(d) \/ EnqueueMac(d) \/ Aside
    BY <1>11, NetworkSteps
  <2>2. NetworkTypeOK'
    <3>1. CASE Aside
      BY <1>11, <3>1, NetworkSetTypes DEF Aside, TypeOK, NetworkTypeOK, RowsTypeOK
    <3> QED
      BY <2>1, <3>1, NetworkActionTypes DEF TypeOK
  <2> QED
    BY <1>11, <2>2, NetworkRejoinType
    DEF Network, TypeOK, DumpTypeOK, ToolTypeOK, Prepared, dumpVars, toolVars
<1>12. CASE UNCHANGED vars
  BY <1>12, SameDatabases DEF vars, toolVars, TypeOK, ToolTypeOK, Prepared
<1> QED
  BY <1>1, <1>2, <1>3, <1>4, <1>5, <1>6, <1>7, <1>8, <1>9, <1>10, <1>11, <1>12
  DEF Next, Step

\* Every reachable state of a run, of the dump and of the databases is well typed.
THEOREM TypeCorrect == Spec => []TypeOK
<1>1. Init => TypeOK
  <2>1. 0 \in FCnts /\ <<>> \in Seq(Prepared) /\ 0 \in 0..MaxGen /\ 0 \in 0..MaxRuns
    BY DEF FCnts
  <2>2. Init => NetworkTypeOK
    BY <2>1 DEF Init, NetworkInit, KeysInit, NetworkTypeOK, RowsTypeOK
  <2>3. Init => DumpTypeOK /\ ToolTypeOK
    BY <2>1 DEF Init, DumpTypeOK, ToolTypeOK, PrepareSteps, CreateSteps
  <2> QED
    BY <2>2, <2>3 DEF TypeOK, DumpTypeOK, ToolTypeOK, Prepared
<1> QED
  BY <1>1, TypeOKStep, PTL DEF Spec

-----------------------------------------------------------------------------
(* Only the newest activation.                                             *)

SessionsNewest == \A d \in DevEUIs : session[d] # None => session[d].NwkKeys = activation[d]

DumpIsOld ==
    \A d \in DevEUIs :
        /\ dumpGen[d] <= activation[d]
        /\ dump[d] # None => dump[d].NwkKeys = dumpGen[d]

DraftNewest ==
    /\ pc = "activation" => draft.NwkKeys = dumpGen[dev]
    /\ pc \in {"rx", "tx"} => draft.NwkKeys = activation[dev]

PreparedNewest ==
    \A i \in DOMAIN prepared : prepared[i].s.NwkKeys = activation[prepared[i].DevEUI]

\* While nobody joins during a run, what survives the comparison of the dates is of
\* the newest activation until it is saved.
NewestInv ==
    /\ SessionsNewest /\ DumpIsOld /\ DraftNewest /\ PreparedNewest
    /\ pc = "idle" => prepared = <<>>

LEMMA NextDeviceNewest ==
  ASSUME NewestInv, NEW p, NextDevice(p), UNCHANGED <<networkVars, dumpVars>>,
         \A i \in DOMAIN p : p[i].s.NwkKeys = activation[p[i].DevEUI]
  PROVE  NewestInv'
<1>1. \/ pc' \in {"check", "index"} /\ prepared' = p
      \/ pc' = "idle" /\ prepared' = <<>>
  BY DEF NextDevice, Exit
<1> QED
  BY <1>1 DEF NewestInv, SessionsNewest, DumpIsOld, DraftNewest, PreparedNewest,
     networkVars, keyVars, dumpVars

LEMMA SkipNewest == ASSUME NewestInv, Skip PROVE NewestInv'
BY NextDeviceNewest DEF Skip, NewestInv, PreparedNewest

LEMMA ContinueNewest ==
  ASSUME NewestInv, NEW next \in {"dump", "activation", "rx", "tx"}, NEW s, Continue(next, s),
         next = "activation" => s.NwkKeys = dumpGen[dev],
         next \in {"rx", "tx"} => s.NwkKeys = activation[dev]
  PROVE  NewestInv'
BY DEF Continue, NewestInv, SessionsNewest, DumpIsOld, DraftNewest, PreparedNewest,
   networkVars, keyVars, dumpVars, dev

\* What is appended keeps the keys of the draft.
LEMMA FoundKeys ==
  ASSUME TypeOK, pc = "tx" PROVE found.NwkKeys = draft.NwkKeys
<1>1. draft \in Session
  BY DEF TypeOK
<1>2. \A v : /\ [draft EXCEPT !.AFCntDown = v].NwkKeys = draft.NwkKeys
            /\ [draft EXCEPT !.NFCntDown = v].NwkKeys = draft.NwkKeys
  BY <1>1 DEF Session
<1> QED
  BY <1>2 DEF found, WithDownlink

LEMMA PreparedDevice ==
  ASSUME TypeOK, NEW i \in DOMAIN prepared
  PROVE  prepared[i].DevEUI \in DevEUIs /\ prepared[i].s \in Session
<1>1. prepared \in Seq(Prepared)
  BY DEF TypeOK, Prepared
<1>2. prepared[i] \in Prepared
  BY <1>1
<1> QED
  BY <1>2 DEF Prepared

\* The elements of the list of prepared sessions with one more.
LEMMA Appended ==
  ASSUME TypeOK, NEW e, NEW i \in DOMAIN Append(prepared, e)
  PROVE  \/ i = Len(prepared) + 1 /\ Append(prepared, e)[i] = e
         \/ i \in DOMAIN prepared /\ Append(prepared, e)[i] = prepared[i]
BY DEF TypeOK

LEMMA SetNewest ==
  ASSUME TypeOK, NewestInv, Set
  PROVE  /\ NewestInv'
         /\ toSave # None /\ toSave.NwkKeys = activation[target] /\ activation[target] \in Gens
         /\ target \in DevEUIs
<1>1. target \in DevEUIs /\ toSave \in Session /\ idx \in DOMAIN prepared
  BY TargetType DEF Set, CreateSteps
<1>2. toSave.NwkKeys = activation[target] /\ toSave.NwkKeys \in Gens /\ toSave # None
  BY <1>1, NoneAssumption DEF NewestInv, PreparedNewest, target, toSave, Session
<1>3. \A d \in DevEUIs : session'[d] = IF d = target THEN toSave ELSE session[d]
  BY DEF Set, SetSession, TypeOK, NetworkTypeOK, RowsTypeOK
<1>4. SessionsNewest'
  BY <1>2, <1>3 DEF Set, NewestInv, SessionsNewest
<1>5. \/ pc' = "index" /\ prepared' = prepared
      \/ pc' = "idle" /\ prepared' = <<>>
  BY DEF Set, NextSession, Exit
<1> QED
  BY <1>1, <1>2, <1>4, <1>5
  DEF Set, NewestInv, DumpIsOld, DraftNewest, PreparedNewest, dumpVars

\* No run before there is a dump.
RunsAfterDump == pc # "idle" => dumped

LEMMA RunsAfterDumpStep == RunsAfterDump /\ [Next]_vars => RunsAfterDump'
<1> SUFFICES ASSUME RunsAfterDump, [Next]_vars PROVE RunsAfterDump'
  OBVIOUS
<1>1. CASE TakeDump
  BY <1>1 DEF TakeDump, RunsAfterDump
<1>2. ASSUME NEW l \in DevLists, Start(l) PROVE RunsAfterDump'
  BY <1>2 DEF Start, RunsAfterDump, dumpVars
<1>3. CASE Step \/ Abort
  BY <1>3 DEF Step, Check, ReadDump, ReadActivation, ReadRX, ReadTX, Skip, Continue, Index, IndexPending, Set,
              Abort, Exit, dumpVars, RunsAfterDump, Running, PrepareSteps, CreateSteps
<1>4. CASE Network \/ UNCHANGED vars
  BY <1>4 DEF Network, vars, dumpVars, toolVars, RunsAfterDump
<1> QED
  BY <1>1, <1>2, <1>3, <1>4 DEF Next

LEMMA NewestInvStep ==
  ~JoinsDuringRun /\ TypeOK /\ RunsAfterDump /\ NewestInv /\ [Next]_vars => NewestInv'
<1> SUFFICES ASSUME ~JoinsDuringRun, TypeOK, RunsAfterDump, NewestInv, [Next]_vars
             PROVE  NewestInv'
  OBVIOUS
<1>1. CASE TakeDump
  <2>1. \A d \in DevEUIs : activation[d] \in 0..MaxGen
    BY DEF TypeOK, NetworkTypeOK, RowsTypeOK
  <2>2. /\ dump' = session /\ dumpGen' = activation
        /\ UNCHANGED <<session, activation, pc, devList, idx, draft, prepared>>
    BY <1>1 DEF TakeDump, networkVars, keyVars, toolVars
  <2>3. pc # "activation"
    BY <1>1 DEF TakeDump, RunsAfterDump
  <2> QED
    BY <2>1, <2>2, <2>3
    DEF NewestInv, SessionsNewest, DumpIsOld, DraftNewest, PreparedNewest, dev
<1>2. ASSUME NEW l \in DevLists, Start(l) PROVE NewestInv'
  BY <1>2 DEF Start, NewestInv, SessionsNewest, DumpIsOld, DraftNewest, PreparedNewest,
              networkVars, keyVars, dumpVars
<1>3. CASE Check
  BY <1>3, SkipNewest, ContinueNewest DEF Check
<1>4. CASE ReadDump
  <2>1. dev \in DevEUIs
    BY <1>4, DevType DEF ReadDump, PrepareSteps
  <2> QED
    BY <1>4, <2>1, SkipNewest, ContinueNewest DEF ReadDump, NewestInv, DumpIsOld
<1>5. CASE ReadActivation
  <2>1. dev \in DevEUIs /\ draft \in Session /\ pc = "activation"
    BY <1>5, DevType DEF ReadActivation, PrepareSteps, TypeOK
  <2>2. draft.NwkKeys = dumpGen[dev] /\ dumpGen[dev] <= activation[dev]
    BY <2>1 DEF NewestInv, DraftNewest, DumpIsOld
  <2>3. draft.NwkKeys \in Gens /\ activation[dev] \in 0..MaxGen
    BY <2>1 DEF Session, TypeOK, NetworkTypeOK, RowsTypeOK
  <2>4. CASE Skip
    BY <2>4, SkipNewest
  <2>5. CASE /\ ~(activation[dev] # 0 /\ activation[dev] > dumpGen[dev])
             /\ Continue("rx", draft)
    <3>1. draft.NwkKeys = activation[dev]
      BY <2>2, <2>3, <2>5 DEF Gens
    <3> QED
      BY <2>5, <3>1, ContinueNewest
  <2> QED
    BY <1>5, <2>4, <2>5 DEF ReadActivation, GetLastDeviceActivation
<1>6. CASE ReadRX
  <2>1. draft \in Session /\ pc = "rx"
    BY <1>6 DEF ReadRX, TypeOK
  <2>2. draft.NwkKeys = activation[dev]
    BY <2>1 DEF NewestInv, DraftNewest
  <2>3. [draft EXCEPT !.FCntUp = lastRX[dev].FCntUp + 1].NwkKeys = draft.NwkKeys
    BY <2>1 DEF Session
  <2> QED
    BY <1>6, <2>2, <2>3, ContinueNewest DEF ReadRX
<1>7. CASE ReadTX
  <2> DEFINE e == item
  <2>1. NextDevice(Append(prepared, e)) /\ UNCHANGED <<networkVars, dumpVars>> /\ pc = "tx"
    BY <1>7 DEF ReadTX, found, item, GetLastFrameForDevEui
  <2>2. e.s.NwkKeys = activation[e.DevEUI]
    BY <2>1, FoundKeys, FoundType DEF NewestInv, DraftNewest
  <2> HIDE DEF e
  <2>3. ASSUME NEW i \in DOMAIN Append(prepared, e)
        PROVE  Append(prepared, e)[i].s.NwkKeys = activation[Append(prepared, e)[i].DevEUI]
    BY <2>2, Appended DEF NewestInv, PreparedNewest
  <2> QED
    BY <2>1, <2>3, NextDeviceNewest
<1>8. CASE Index \/ IndexPending
  <2>1. /\ UNCHANGED <<session, activation, dump, dumpGen, prepared>>
        /\ pc' \in {"pending", "set"}
    BY <1>8 DEF Index, IndexPending, AfterIndex, dumpVars
  <2> QED
    BY <2>1 DEF NewestInv, SessionsNewest, DumpIsOld, DraftNewest, PreparedNewest
<1>9. CASE Set
  BY <1>9, SetNewest
<1>10. CASE Abort
  BY <1>10 DEF Abort, Exit, NewestInv, SessionsNewest, DumpIsOld, DraftNewest, PreparedNewest,
               networkVars, keyVars, dumpVars
<1>11. CASE Network
  <2>1. PICK d \in DevEUIs :
           \/ ~Running /\ Join(d)
           \/ LoseSession(d) \/ UplinkAccepted(d)
           \/ UplinkDropped(d) \/ Downlink(d) \/ EnqueueMac(d) \/ Aside
    BY <1>11, NetworkSteps
  <2>2. UNCHANGED <<dump, dumpGen, dumped, pc, devList, idx, draft, prepared>>
    BY <1>11 DEF Network, dumpVars, toolVars
  <2>3. NetworkTypeOK
    BY DEF TypeOK
  <2>4. CASE ~Running /\ Join(d)
    <3>1. pc = "idle" /\ prepared = <<>>
      BY <2>4 DEF Running, TypeOK, NewestInv
    <3> DEFINE g == activation[d] + 1
               s == [DevAddr |-> Addr[d][g], NwkKeys |-> g, AppSKey |-> g,
                     FCntUp |-> 0, NFCntDown |-> 0, AFCntDown |-> 0]
    <3>2. s.NwkKeys = g
      OBVIOUS
    <3>3. /\ \A e \in DevEUIs : session'[e] = IF e = d THEN s ELSE session[e]
          /\ \A e \in DevEUIs : activation'[e] = IF e = d THEN g ELSE activation[e]
      BY <2>3, <2>4 DEF Join, SetSession, NetworkTypeOK, RowsTypeOK
    <3> HIDE DEF s
    <3>4. SessionsNewest'
      BY <3>2, <3>3 DEF NewestInv, SessionsNewest
    <3>5. DumpIsOld'
      <4>1. \A e \in DevEUIs : activation[e] \in 0..MaxGen /\ dumpGen[e] \in 0..MaxGen
        BY DEF TypeOK, NetworkTypeOK, RowsTypeOK
      <4> QED
        BY <2>2, <3>3, <4>1 DEF NewestInv, DumpIsOld
    <3> QED
      BY <2>2, <3>1, <3>4, <3>5 DEF NewestInv, DraftNewest, PreparedNewest
  <2>5. CASE \/ LoseSession(d) \/ UplinkAccepted(d)
             \/ UplinkDropped(d) \/ Downlink(d) \/ EnqueueMac(d)
    <3>1. NoRekeying
      BY <2>3, <2>5, NetworkNoRekeying
    <3> QED
      BY <2>2, <3>1
      DEF NoRekeying, NewestInv, SessionsNewest, DumpIsOld, DraftNewest, PreparedNewest, dev
  <2>6. CASE Aside
    BY <2>2, <2>6
    DEF Aside, NewestInv, SessionsNewest, DumpIsOld, DraftNewest, PreparedNewest, dev
  <2> QED
    BY <2>1, <2>4, <2>5, <2>6
<1>12. CASE UNCHANGED vars
  BY <1>12 DEF vars, networkVars, keyVars, dumpVars, toolVars, NewestInv, SessionsNewest,
               DumpIsOld, DraftNewest, PreparedNewest, dev
<1> QED
  BY <1>1, <1>2, <1>3, <1>4, <1>5, <1>6, <1>7, <1>8, <1>9, <1>10, <1>11, <1>12
  DEF Next, Step

LEMMA NewestInvAlways == ~JoinsDuringRun => (Spec => [](TypeOK /\ NewestInv))
<1> SUFFICES ASSUME ~JoinsDuringRun PROVE Spec => [](TypeOK /\ NewestInv)
  OBVIOUS
<1>1. Init => RunsAfterDump /\ NewestInv
  <2>1. 0 <= 0
    OBVIOUS
  <2> QED
    BY <2>1 DEF Init, NetworkInit, KeysInit, RunsAfterDump, NewestInv, SessionsNewest,
                DumpIsOld, DraftNewest, PreparedNewest
<1>2. TypeOK /\ RunsAfterDump /\ NewestInv /\ [Next]_vars => NewestInv'
  BY NewestInvStep
<1> QED
  BY <1>1, <1>2, RunsAfterDumpStep, TypeCorrect, PTL DEF Spec

\* Each step of a run or of the network is one of SessionLifecycle, or stutters.
LEMMA StepMaps ==
  ASSUME TypeOK, NewestInv, ~JoinsDuringRun, [Next]_vars
  PROVE  [Lifecycle!Next]_Lifecycle!vars
<1>1. NetworkTypeOK
  BY DEF TypeOK
<1>2. CASE Set
  <2>1. /\ toSave # None /\ toSave.NwkKeys = activation[target] /\ activation[target] \in Gens
        /\ target \in DevEUIs
    BY <1>2, SetNewest
  <2>2. session' = [session EXCEPT ![target] = toSave] /\ activation' = activation
    BY <1>2 DEF Set, SetSession
  <2>3. current' = [current EXCEPT ![target] = activation[target]]
    BY <1>1, <2>1, <2>2, SavedIsCurrent
  <2>4. CASE session[target] = None
    <3>1. current[target] = 0 /\ activation[target] # 0
      BY <2>1, <2>4 DEF current, Gens
    <3>2. PICK d \in DevEUIs : d = target
      BY <2>1
    <3>3. Lifecycle!Restore(d)
      BY <2>2, <2>3, <3>1, <3>2 DEF Lifecycle!Restore, current
    <3> QED
      BY <3>3 DEF Lifecycle!Next
  <2>5. CASE session[target] # None
    <3>1. current[target] = activation[target]
      BY <2>1, <2>5 DEF NewestInv, SessionsNewest, current
    <3>2. \A e \in DevEUIs : (IF session'[e] = None THEN 0 ELSE session'[e].NwkKeys)
                            = (IF session[e] = None THEN 0 ELSE session[e].NwkKeys)
      BY <1>1, <2>1, <2>2, <2>5, <3>1
      DEF NewestInv, SessionsNewest, NetworkTypeOK, RowsTypeOK
    <3> QED
      BY <2>2, <3>2 DEF Lifecycle!vars
  <2> QED
    BY <2>4, <2>5
<1>3. CASE UNCHANGED <<activation, session>>
  BY <1>3 DEF Lifecycle!vars
<1>4. CASE Network
  <2>1. PICK d \in DevEUIs :
           \/ Join(d) \/ LoseSession(d)
           \/ UplinkAccepted(d) \/ UplinkDropped(d) \/ Downlink(d) \/ EnqueueMac(d)
           \/ Aside
    BY <1>4, NetworkSteps
  <2>2. CASE Join(d)
    <3>1. Lifecycle!Join(d)
      BY <1>1, <2>2, JoinIsCurrent DEF Lifecycle!Join, current
    <3> QED
      BY <3>1 DEF Lifecycle!Next
  <2>3. CASE LoseSession(d)
    <3>1. Lifecycle!Lose(d)
      BY <1>1, <2>3, LossIsCurrent DEF Lifecycle!Lose, current
    <3> QED
      BY <3>1 DEF Lifecycle!Next
  <2>4. CASE \/ UplinkAccepted(d) \/ UplinkDropped(d) \/ Downlink(d) \/ EnqueueMac(d)
    BY <1>1, <2>4, CountingIsCurrent DEF Lifecycle!vars, current
  <2>5. CASE Aside
    BY <1>3, <2>5 DEF Aside
  <2> QED
    BY <2>1, <2>2, <2>3, <2>4, <2>5
<1> QED
  BY <1>2, <1>3, <1>4
  DEF Next, Step, TakeDump, Start, Check, ReadDump, ReadActivation, ReadRX, ReadTX, Skip,
      Continue, Index, IndexPending, Abort, networkVars, keyVars, vars

\* While no device joins during a run, restoring from a dump implements
\* SessionLifecycle, however old the dump and however often a device is listed:
\* a session of an earlier activation is never brought back.
THEOREM DumpImplementsLifecycle == ~JoinsDuringRun => (Spec => RestoresOnlyNewest)
<1> SUFFICES ASSUME ~JoinsDuringRun PROVE Spec => RestoresOnlyNewest
  OBVIOUS
<1>1. Init => Lifecycle!Init
  BY DEF Init, NetworkInit, KeysInit, Lifecycle!Init
<1>2. TypeOK /\ NewestInv /\ [Next]_vars => [Lifecycle!Next]_Lifecycle!vars
  BY StepMaps
<1> QED
  BY <1>1, <1>2, NewestInvAlways, PTL DEF Spec, RestoresOnlyNewest, Lifecycle!Spec

-----------------------------------------------------------------------------
(* The gap between the check and the save, when nobody joins during a run   *)
(* and no list names a device twice (as dump_overwrites shows it must not): *)
(* a device that a run has yet to save has no session.                      *)

ListedOnce == \A l \in DevLists : \A i, j \in DOMAIN l : l[i] = l[j] => i = j

DraftGap == pc \in PrepareSteps \ {"check"} => session[dev] = None

\* A prepared session whose save is still to come.
Waiting(i) == pc \in PrepareSteps \/ i >= idx

WaitingGap == \A i \in DOMAIN prepared : Waiting(i) => session[prepared[i].DevEUI] = None

\* What is prepared is of the part of the list behind the loop.
PreparedIsBehind ==
    pc \in PrepareSteps =>
        \A i \in DOMAIN prepared : \E j \in 1..(idx - 1) : prepared[i].DevEUI = devList[j]

PreparedOnce ==
    \A i, j \in DOMAIN prepared : prepared[i].DevEUI = prepared[j].DevEUI => i = j

GapInv ==
    /\ DraftGap /\ WaitingGap /\ PreparedIsBehind /\ PreparedOnce
    /\ pc = "idle" => prepared = <<>>

LEMMA SkipGap ==
  ASSUME TypeOK, GapInv, pc \in PrepareSteps, Skip PROVE GapInv'
<1>1. /\ UNCHANGED session
      /\ \/ pc' = "check" /\ idx' = idx + 1 /\ UNCHANGED <<prepared, devList>>
         \/ pc' = "index" /\ idx' = 1 /\ UNCHANGED prepared
         \/ pc' = "idle" /\ prepared' = <<>>
  BY DEF Skip, NextDevice, Exit, networkVars, keyVars
<1>2. idx \in Nat
  BY DevType
<1>3. DraftGap' /\ WaitingGap' /\ PreparedOnce' /\ (pc = "idle" => prepared = <<>>)'
  BY <1>1 DEF GapInv, DraftGap, WaitingGap, Waiting, PreparedOnce, PrepareSteps
<1>4. PreparedIsBehind'
  <2>1. CASE pc' = "check" /\ idx' = idx + 1 /\ UNCHANGED <<prepared, devList>>
    <3>1. \A j \in 1..(idx - 1) : j \in 1..(idx' - 1)
      BY <1>2, <2>1
    <3> QED
      BY <2>1, <3>1 DEF GapInv, PreparedIsBehind
  <2>2. CASE pc' \in {"index", "idle"}
    BY <2>2 DEF PreparedIsBehind, PrepareSteps
  <2> QED
    BY <1>1, <2>1, <2>2
<1> QED
  BY <1>3, <1>4 DEF GapInv

LEMMA ContinueGap ==
  ASSUME GapInv, pc \in PrepareSteps, NEW next \in PrepareSteps \ {"check"}, NEW s,
         Continue(next, s), session[dev] = None
  PROVE  GapInv'
BY DEF Continue, GapInv, DraftGap, WaitingGap, Waiting, PreparedIsBehind, PreparedOnce,
   PrepareSteps, networkVars, keyVars, dev

\* The device of an iteration is not among those behind it.
LEMMA DevIsNew ==
  ASSUME ListedOnce, TypeOK, GapInv, pc \in PrepareSteps
  PROVE  \A i \in DOMAIN prepared :
            /\ \E j \in 1..(idx - 1) : prepared[i].DevEUI = devList[j]
            /\ prepared[i].DevEUI # dev
<1>1. idx \in 1..Len(devList) /\ devList \in Seq(DevEUIs) /\ dev = devList[idx]
  BY DevType DEF dev
<1>2. devList \in DevLists
  <2>1. Len(<<>>) = 0
    OBVIOUS
  <2> QED
    BY <1>1, <2>1 DEF TypeOK
<1>3. \A j \in 1..(idx - 1) : devList[j] # devList[idx]
  BY <1>1, <1>2 DEF ListedOnce
<1> QED
  BY <1>1, <1>3 DEF GapInv, PreparedIsBehind

LEMMA ReadTXGap ==
  ASSUME ListedOnce, TypeOK, GapInv, ReadTX PROVE GapInv'
<1> DEFINE e == item
<1> DEFINE p == Append(prepared, e)
<1>1. /\ pc = "tx" /\ pc \in PrepareSteps /\ dev \in DevEUIs
      /\ idx \in 1..Len(devList) /\ dev = devList[idx]
  <2>1. pc = "tx" /\ pc \in PrepareSteps
    BY DEF ReadTX, PrepareSteps
  <2> QED
    BY <2>1, DevType DEF dev
<1>2. /\ UNCHANGED session
      /\ \/ pc' = "check" /\ idx' = idx + 1 /\ prepared' = p /\ UNCHANGED devList
         \/ pc' = "index" /\ idx' = 1 /\ prepared' = p
         \/ pc' = "idle" /\ prepared' = <<>>
  BY DEF ReadTX, NextDevice, Exit, found, item, GetLastFrameForDevEui, networkVars, keyVars
<1>3. session[dev] = None
  BY <1>1 DEF GapInv, DraftGap, PrepareSteps
<1>4. /\ e.DevEUI = dev
      /\ \A i \in DOMAIN p : \/ i = Len(prepared) + 1 /\ p[i] = e
                             \/ i \in DOMAIN prepared /\ p[i] = prepared[i]
  <2> HIDE DEF e
  <2>1. \A i \in DOMAIN p : \/ i = Len(prepared) + 1 /\ p[i] = e
                            \/ i \in DOMAIN prepared /\ p[i] = prepared[i]
    BY Appended
  <2> QED
    BY <1>1, <2>1, FoundType DEF e
<1>5. \A i \in DOMAIN prepared :
         /\ \E j \in 1..(idx - 1) : prepared[i].DevEUI = devList[j]
         /\ prepared[i].DevEUI # dev
  BY <1>1, DevIsNew
<1> HIDE DEF p, e
<1>6. DraftGap' /\ (pc = "idle" => prepared = <<>>)'
  BY <1>2 DEF GapInv, DraftGap, PrepareSteps
<1>7. WaitingGap'
  <2>1. \A i \in DOMAIN p : session[p[i].DevEUI] = None
    BY <1>1, <1>3, <1>4 DEF GapInv, WaitingGap, Waiting
  <2> QED
    BY <1>2, <2>1 DEF WaitingGap
<1>8. PreparedOnce'
  <2>1. \A i, j \in DOMAIN p : p[i].DevEUI = p[j].DevEUI => i = j
    BY <1>4, <1>5 DEF GapInv, PreparedOnce
  <2> QED
    BY <1>2, <2>1 DEF PreparedOnce
<1>9. PreparedIsBehind'
  <2>1. CASE pc' = "check" /\ idx' = idx + 1 /\ prepared' = p /\ UNCHANGED devList
    <3>1. \A j \in 1..(idx - 1) : j \in 1..(idx' - 1)
      BY <1>1, <2>1
    <3>2. idx \in 1..(idx' - 1)
      BY <1>1, <2>1
    <3>3. \A i \in DOMAIN p : \E j \in 1..(idx' - 1) : p[i].DevEUI = devList[j]
      BY <1>1, <1>4, <1>5, <3>1, <3>2
    <3> QED
      BY <2>1, <3>3 DEF PreparedIsBehind
  <2>2. CASE pc' \in {"index", "idle"}
    BY <2>2 DEF PreparedIsBehind, PrepareSteps
  <2> QED
    BY <1>2, <2>1, <2>2
<1> QED
  BY <1>6, <1>7, <1>8, <1>9 DEF GapInv

\* What a save writes, and what is left to save after it.
LEMMA SetSteps ==
  ASSUME TypeOK, Set
  PROVE  /\ pc = "set" /\ idx \in DOMAIN prepared /\ idx \in Nat
         /\ target \in DevEUIs /\ toSave \in Session
         /\ session' = [session EXCEPT ![target] = toSave]
         /\ \A d \in DevEUIs : d # target => session'[d] = session[d]
         /\ UNCHANGED <<acceptedUp, sentDown, lastRX, lastTX>>
         /\ \/ pc' = "index" /\ idx' = idx + 1 /\ UNCHANGED prepared
            \/ pc' = "idle" /\ prepared' = <<>>
<1>1. pc = "set" /\ pc \in CreateSteps
  BY DEF Set, CreateSteps
<1>2. /\ idx \in DOMAIN prepared /\ idx \in Nat
      /\ target \in DevEUIs /\ toSave \in Session
  BY <1>1, TargetType DEF TypeOK
<1> QED
  BY <1>1, <1>2 DEF Set, SetSession, NextSession, Exit, TypeOK, NetworkTypeOK

\* No other session still to be saved is of the device just saved.
LEMMA WaitingAfterSet ==
  ASSUME TypeOK, GapInv, Set, NEW i \in DOMAIN prepared', Waiting(i)'
  PROVE  /\ i \in DOMAIN prepared /\ prepared' = prepared /\ Waiting(i)
         /\ prepared[i].DevEUI \in DevEUIs /\ prepared[i].DevEUI # target
<1>1. /\ pc = "set" /\ idx \in DOMAIN prepared /\ idx \in Nat
      /\ pc' = "index" /\ idx' = idx + 1 /\ UNCHANGED prepared
  BY SetSteps
<1>2. i \in Nat /\ i >= idx + 1
  BY <1>1 DEF Waiting, PrepareSteps, TypeOK
<1>3. prepared[i].DevEUI # target
  BY <1>1, <1>2 DEF GapInv, PreparedOnce, target
<1> QED
  BY <1>1, <1>2, <1>3, PreparedDevice DEF Waiting

\* A save fills the gap of one device.
LEMMA SetGap == ASSUME TypeOK, GapInv, Set PROVE GapInv'
<1>1. WaitingGap'
  BY WaitingAfterSet, SetSteps DEF GapInv, WaitingGap
<1>2. DraftGap' /\ PreparedIsBehind' /\ PreparedOnce' /\ (pc = "idle" => prepared = <<>>)'
  BY SetSteps DEF GapInv, DraftGap, PreparedIsBehind, PreparedOnce, PrepareSteps
<1> QED
  BY <1>1, <1>2 DEF GapInv

\* During a run the network leaves a device without a session as it is.
LEMMA NetworkWhileRunning ==
  ASSUME ~JoinsDuringRun, TypeOK, Running, Network PROVE OnlyWithSession
<1>1. PICK d \in DevEUIs :
         \/ LoseSession(d) \/ UplinkAccepted(d)
         \/ UplinkDropped(d) \/ Downlink(d) \/ EnqueueMac(d) \/ Aside
  BY NetworkSteps
<1>2. CASE Aside
  <2>1. \A e \in DevEUIs : nextUp[e] \in Nat
    BY DEF TypeOK, NetworkTypeOK, RowsTypeOK, FCnts
  <2> QED
    BY <1>2, <2>1 DEF Aside, OnlyWithSession
<1> QED
  BY <1>1, <1>2, NetworkOnlyWithSession DEF TypeOK

LEMMA NetworkGap ==
  ASSUME ~JoinsDuringRun, TypeOK, GapInv, Network PROVE GapInv'
<1>1. UNCHANGED <<pc, devList, idx, draft, prepared>>
  BY DEF Network, toolVars
<1>2. CASE ~Running
  <2>1. pc = "idle" /\ prepared = <<>>
    BY <1>2 DEF Running, TypeOK, GapInv
  <2> QED
    BY <1>1, <2>1
    DEF GapInv, DraftGap, WaitingGap, PreparedIsBehind, PreparedOnce, PrepareSteps
<1>3. CASE Running
  <2>1. OnlyWithSession
    BY <1>3, NetworkWhileRunning
  <2>2. DraftGap'
    <3> SUFFICES ASSUME pc \in PrepareSteps \ {"check"} PROVE DraftGap'
      BY <1>1 DEF DraftGap, PrepareSteps
    <3>1. dev \in DevEUIs /\ session[dev] = None
      BY DevType DEF GapInv, DraftGap
    <3> QED
      BY <1>1, <2>1, <3>1 DEF DraftGap, OnlyWithSession, dev
  <2>3. WaitingGap'
    BY <1>1, <2>1, PreparedDevice DEF GapInv, WaitingGap, Waiting, OnlyWithSession
  <2>4. PreparedIsBehind' /\ PreparedOnce'
    BY <1>1 DEF GapInv, PreparedIsBehind, PreparedOnce
  <2> QED
    BY <1>1, <2>2, <2>3, <2>4 DEF GapInv
<1> QED
  BY <1>2, <1>3

LEMMA GapInvStep ==
  ~JoinsDuringRun /\ ListedOnce /\ TypeOK /\ GapInv /\ [Next]_vars => GapInv'
<1> SUFFICES ASSUME ~JoinsDuringRun, ListedOnce, TypeOK, GapInv, [Next]_vars PROVE GapInv'
  OBVIOUS
<1>1. CASE TakeDump \/ UNCHANGED vars
  <2>1. UNCHANGED <<session, pc, devList, idx, draft, prepared>>
    BY <1>1 DEF TakeDump, vars, toolVars, networkVars, keyVars
  <2> QED
    BY <2>1
    DEF GapInv, DraftGap, WaitingGap, Waiting, PreparedIsBehind, PreparedOnce, dev
<1>2. ASSUME NEW l \in DevLists, Start(l) PROVE GapInv'
  <2>1. UNCHANGED session /\ pc' = "check" /\ prepared' = <<>>
    BY <1>2 DEF Start, networkVars, keyVars, GapInv
  <2> QED
    BY <2>1 DEF GapInv, DraftGap, WaitingGap, PreparedIsBehind, PreparedOnce
<1>3. CASE Check
  <2>1. pc \in PrepareSteps /\ "dump" \in PrepareSteps \ {"check"}
    BY <1>3 DEF Check, PrepareSteps
  <2> QED
    BY <1>3, <2>1, SkipGap, ContinueGap DEF Check, DoesNotExist
<1>4. CASE ReadDump \/ ReadActivation \/ ReadRX
  <2>1. /\ pc \in PrepareSteps \ {"check"} /\ session[dev] = None
        /\ {"activation", "rx", "tx"} \subseteq PrepareSteps \ {"check"}
    BY <1>4 DEF ReadDump, ReadActivation, ReadRX, PrepareSteps, GapInv, DraftGap
  <2> QED
    BY <1>4, <2>1, SkipGap, ContinueGap DEF ReadDump, ReadActivation, ReadRX
<1>5. CASE ReadTX
  BY <1>5, ReadTXGap
<1>6. CASE Index \/ IndexPending
  <2>1. /\ UNCHANGED <<session, prepared, idx>>
        /\ pc \in {"index", "pending"} /\ pc' \in {"pending", "set"}
    BY <1>6 DEF Index, IndexPending, AfterIndex
  <2> QED
    BY <2>1
    DEF GapInv, DraftGap, WaitingGap, Waiting, PreparedIsBehind, PreparedOnce, PrepareSteps
<1>7. CASE Set
  BY <1>7, SetGap
<1>8. CASE Abort
  <2>1. UNCHANGED session /\ pc' = "idle" /\ prepared' = <<>>
    BY <1>8 DEF Abort, Exit, networkVars, keyVars
  <2> QED
    BY <2>1
    DEF GapInv, DraftGap, WaitingGap, PreparedIsBehind, PreparedOnce, PrepareSteps
<1>9. CASE Network
  BY <1>9, NetworkGap
<1> QED
  BY <1>1, <1>2, <1>3, <1>4, <1>5, <1>6, <1>7, <1>8, <1>9 DEF Next, Step

LEMMA GapInvAlways == ~JoinsDuringRun /\ ListedOnce => (Spec => []GapInv)
<1> SUFFICES ASSUME ~JoinsDuringRun, ListedOnce PROVE Spec => []GapInv
  OBVIOUS
<1>1. Init => GapInv
  BY DEF Init, GapInv, DraftGap, WaitingGap, PreparedIsBehind, PreparedOnce, PrepareSteps
<1>2. TypeOK /\ GapInv /\ [Next]_vars => GapInv'
  BY GapInvStep
<1> QED
  BY <1>1, <1>2, TypeCorrect, PTL DEF Spec

\* "It works only for known devices without device-session in redis", whatever is
\* lost meanwhile, unless a device joins during the run or is listed twice.
THEOREM SavesNeverOverwrite == ~JoinsDuringRun /\ ListedOnce => (Spec => NeverOverwrites)
<1> SUFFICES ASSUME ~JoinsDuringRun, ListedOnce PROVE Spec => NeverOverwrites
  OBVIOUS
<1>1. TypeOK /\ GapInv => [Set => DoesNotExist(target)]_vars
  <2> SUFFICES ASSUME TypeOK, GapInv, Set PROVE session[target] = None
    BY DEF DoesNotExist
  <2>1. idx \in DOMAIN prepared /\ Waiting(idx)
    BY SetSteps DEF Waiting
  <2> QED
    BY <2>1 DEF GapInv, WaitingGap, target
<1> QED
  BY <1>1, GapInvAlways, TypeCorrect, PTL DEF NeverOverwrites

-----------------------------------------------------------------------------
(* Fresh counters, when besides every frame is logged.  A device without a   *)
(* session uses none of its counters, so that in the gap what the log said   *)
(* stays right.                                                             *)

LogIsComplete == LogKept /\ LogComplete

Conditions == ~JoinsDuringRun /\ LogIsComplete /\ ListedOnce

DraftCounts == pc = "tx" => draft.FCntUp >= acceptedUp[dev]

WaitingCounts ==
    \A i \in DOMAIN prepared : Waiting(i) => IsFresh(prepared[i].DevEUI, prepared[i].s)

CountInv == CountersInUse /\ DraftCounts /\ WaitingCounts

counted == <<session, acceptedUp, sentDown, lastRX, lastTX>>

LEMMA SameInUse == ASSUME CountersInUse, UNCHANGED counted PROVE CountersInUse'
BY DEF counted, CountersInUse, SessionsFresh, IsFresh, LogIsFresh

LEMMA SkipCounts ==
  ASSUME CountInv, pc \in PrepareSteps, Skip PROVE CountInv'
<1>1. /\ UNCHANGED counted /\ pc' # "tx"
      /\ prepared' = prepared \/ prepared' = <<>>
  BY DEF Skip, NextDevice, Exit, networkVars, keyVars, counted
<1> QED
  BY <1>1, SameInUse DEF CountInv, DraftCounts, WaitingCounts, Waiting, IsFresh, counted

LEMMA ContinueCounts ==
  ASSUME CountInv, pc \in PrepareSteps, NEW next \in PrepareSteps, NEW s,
         Continue(next, s), next = "tx" => s.FCntUp >= acceptedUp[dev]
  PROVE  CountInv'
<1>1. /\ UNCHANGED counted /\ UNCHANGED <<prepared, devList, idx>>
      /\ pc' = next /\ draft' = s
  BY DEF Continue, networkVars, keyVars, counted
<1> QED
  BY <1>1, SameInUse DEF CountInv, DraftCounts, WaitingCounts, Waiting, IsFresh, counted, dev

LEMMA ReadRXCounts == ASSUME TypeOK, CountInv, ReadRX PROVE CountInv'
<1>1. /\ pc = "rx" /\ pc \in PrepareSteps /\ "tx" \in PrepareSteps
      /\ dev \in DevEUIs /\ draft \in Session
  BY DevType DEF ReadRX, PrepareSteps, TypeOK
<1>2. LogIsFresh(dev)
  BY <1>1 DEF CountInv, CountersInUse
<1>3. acceptedUp[dev] \in Nat /\ draft.FCntUp \in Nat
  BY <1>1 DEF TypeOK, NetworkTypeOK, RowsTypeOK, FCnts, Session
<1> DEFINE r == [draft EXCEPT !.FCntUp = lastRX[dev].FCntUp + 1]
<1>4. CASE lastRX[dev] # None /\ Continue("tx", r)
  <2>1. r.FCntUp = lastRX[dev].FCntUp + 1
    BY <1>1 DEF Session
  <2>2. lastRX[dev] \in RXRow
    BY <1>1, <1>4 DEF TypeOK, NetworkTypeOK, RowsTypeOK
  <2>3. r.FCntUp >= acceptedUp[dev]
    BY <1>2, <1>3, <2>1, <2>2 DEF LogIsFresh, RXRow
  <2> HIDE DEF r
  <2> QED
    BY <1>1, <1>4, <2>3, ContinueCounts
<1>5. CASE lastRX[dev] = None /\ Continue("tx", draft)
  <2>1. draft.FCntUp >= acceptedUp[dev]
    BY <1>2, <1>3, <1>5 DEF LogIsFresh
  <2> QED
    BY <1>1, <1>5, <2>1, ContinueCounts
<1> QED
  BY <1>4, <1>5 DEF ReadRX, GetLastFrameForDevEui

\* The session that the last query of an iteration appends is fresh.
LEMMA FoundIsFresh == ASSUME TypeOK, CountInv, pc = "tx" PROVE IsFresh(dev, found)
<1>1. dev \in DevEUIs /\ draft \in Session
  BY DevType DEF PrepareSteps, TypeOK
<1>2. LogIsFresh(dev) /\ draft.FCntUp >= acceptedUp[dev]
  BY <1>1 DEF CountInv, DraftCounts, CountersInUse
<1>3. /\ sentDown[dev].A \in Nat /\ sentDown[dev].N \in Nat
      /\ draft.AFCntDown \in Nat /\ draft.NFCntDown \in Nat
  <2>1. sentDown[dev] \in [N : FCnts, A : FCnts]
    BY <1>1 DEF TypeOK, NetworkTypeOK, RowsTypeOK
  <2> QED
    BY <1>1, <2>1 DEF Session, FCnts
<1>4. CASE lastTX[dev] # None
  <2>1. lastTX[dev] \in TXRow
    BY <1>1, <1>4 DEF TypeOK, NetworkTypeOK, RowsTypeOK
  <2>2. /\ found.FCntUp = draft.FCntUp
        /\ found.AFCntDown = IF dev \in Is11 THEN lastTX[dev].AFCntDown + 1 ELSE draft.AFCntDown
        /\ found.NFCntDown = IF dev \in Is11 THEN draft.NFCntDown ELSE lastTX[dev].NFCntDown + 1
    BY <1>1, <1>4 DEF found, WithDownlink, Session
  <2> QED
    BY <1>2, <1>3, <1>4, <2>1, <2>2 DEF IsFresh, LogIsFresh, TXRow
<1>5. CASE lastTX[dev] = None
  BY <1>2, <1>3, <1>5 DEF found, IsFresh, LogIsFresh
<1> QED
  BY <1>4, <1>5

LEMMA ReadTXCounts == ASSUME TypeOK, CountInv, ReadTX PROVE CountInv'
<1> DEFINE e == item
<1> DEFINE p == Append(prepared, e)
<1>1. pc = "tx" /\ pc \in PrepareSteps
  BY DEF ReadTX, PrepareSteps
<1>2. UNCHANGED counted /\ pc' # "tx" /\ (prepared' = p \/ prepared' = <<>>)
  BY DEF ReadTX, NextDevice, Exit, found, item, GetLastFrameForDevEui, networkVars, keyVars, counted
<1>3. \A i \in DOMAIN p : IsFresh(p[i].DevEUI, p[i].s)
  <2>1. e.DevEUI = dev /\ e.s = found
    BY <1>1, FoundType
  <2> HIDE DEF e
  <2> QED
    BY <1>1, <2>1, FoundIsFresh, Appended DEF CountInv, WaitingCounts, Waiting
<1> HIDE DEF p, e
<1> QED
  BY <1>2, <1>3, SameInUse DEF CountInv, DraftCounts, WaitingCounts, IsFresh, counted

LEMMA SetCounts == ASSUME TypeOK, GapInv, CountInv, Set PROVE CountInv'
<1>1. IsFresh(target, toSave)
  BY SetSteps DEF CountInv, WaitingCounts, Waiting, target, toSave
<1>2. CountersInUse'
  BY <1>1, SetSteps, SavedIsInUse DEF TypeOK, CountInv
<1>3. WaitingCounts'
  BY SetSteps, WaitingAfterSet DEF CountInv, WaitingCounts, IsFresh
<1> QED
  BY <1>2, <1>3, SetSteps DEF CountInv, DraftCounts

LEMMA NetworkCounts ==
  ASSUME ~JoinsDuringRun, LogIsComplete, TypeOK, GapInv, CountInv, Network PROVE CountInv'
<1>1. UNCHANGED <<pc, devList, idx, draft, prepared>>
  BY DEF Network, toolVars
<1>2. CountersInUse'
  <2>1. PICK d \in DevEUIs :
           \/ Join(d) \/ LoseSession(d) \/ UplinkAccepted(d)
           \/ UplinkDropped(d) \/ Downlink(d) \/ EnqueueMac(d) \/ Aside
    BY NetworkSteps
  <2>2. CASE Aside
    BY <2>2, SameInUse DEF Aside, counted, CountInv
  <2> QED
    BY <2>1, <2>2, NetworkCountersInUse DEF TypeOK, CountInv, LogIsComplete
<1>3. CASE ~Running
  <2>1. pc = "idle" /\ prepared = <<>>
    BY <1>3 DEF Running, TypeOK, GapInv
  <2> QED
    BY <1>1, <1>2, <2>1 DEF CountInv, DraftCounts, WaitingCounts
<1>4. CASE Running
  <2>1. OnlyWithSession
    BY <1>4, NetworkWhileRunning
  <2>2. DraftCounts'
    <3> SUFFICES ASSUME pc = "tx" PROVE DraftCounts'
      BY <1>1 DEF DraftCounts
    <3>1. dev \in DevEUIs /\ session[dev] = None
      BY DevType DEF GapInv, DraftGap, PrepareSteps
    <3> QED
      BY <1>1, <2>1, <3>1 DEF CountInv, DraftCounts, OnlyWithSession, dev
  <2>3. WaitingCounts'
    BY <1>1, <2>1, PreparedDevice
    DEF GapInv, WaitingGap, CountInv, WaitingCounts, Waiting, OnlyWithSession, IsFresh
  <2> QED
    BY <1>2, <2>2, <2>3 DEF CountInv
<1> QED
  BY <1>3, <1>4

LEMMA CountInvStep == Conditions /\ TypeOK /\ GapInv /\ CountInv /\ [Next]_vars => CountInv'
<1> SUFFICES ASSUME Conditions, TypeOK, GapInv, CountInv, [Next]_vars PROVE CountInv'
  OBVIOUS
<1>1. CASE TakeDump \/ UNCHANGED vars
  <2>1. UNCHANGED counted /\ UNCHANGED <<pc, devList, idx, draft, prepared>>
    BY <1>1 DEF TakeDump, vars, toolVars, networkVars, keyVars, counted
  <2> QED
    BY <2>1, SameInUse
    DEF CountInv, DraftCounts, WaitingCounts, Waiting, IsFresh, dev, counted
<1>2. ASSUME NEW l \in DevLists, Start(l) PROVE CountInv'
  <2>1. UNCHANGED counted /\ pc' = "check" /\ prepared' = <<>>
    BY <1>2 DEF Start, networkVars, keyVars, counted, GapInv
  <2> QED
    BY <2>1, SameInUse DEF CountInv, DraftCounts, WaitingCounts
<1>3. CASE Check \/ ReadDump \/ ReadActivation
  <2>1. pc \in PrepareSteps /\ {"dump", "activation", "rx"} \subseteq PrepareSteps
    BY <1>3 DEF Check, ReadDump, ReadActivation, PrepareSteps
  <2> QED
    BY <1>3, <2>1, SkipCounts, ContinueCounts DEF Check, ReadDump, ReadActivation
<1>4. CASE ReadRX
  BY <1>4, ReadRXCounts
<1>5. CASE ReadTX
  BY <1>5, ReadTXCounts
<1>6. CASE Index \/ IndexPending
  <2>1. /\ UNCHANGED counted /\ UNCHANGED <<prepared, idx>>
        /\ pc \in {"index", "pending"} /\ pc' \in {"pending", "set"}
    BY <1>6 DEF Index, IndexPending, AfterIndex, counted
  <2> QED
    BY <2>1, SameInUse
    DEF CountInv, DraftCounts, WaitingCounts, Waiting, IsFresh, PrepareSteps, counted
<1>7. CASE Set
  BY <1>7, SetCounts
<1>8. CASE Abort
  <2>1. UNCHANGED counted /\ pc' = "idle" /\ prepared' = <<>>
    BY <1>8 DEF Abort, Exit, networkVars, keyVars, counted
  <2> QED
    BY <2>1, SameInUse DEF CountInv, DraftCounts, WaitingCounts
<1>9. CASE Network
  BY <1>9, NetworkCounts DEF Conditions
<1> QED
  BY <1>1, <1>2, <1>3, <1>4, <1>5, <1>6, <1>7, <1>8, <1>9 DEF Next, Step

LEMMA CountInvAlways == Conditions => (Spec => []CountInv)
<1> SUFFICES ASSUME Conditions PROVE Spec => []CountInv
  OBVIOUS
<1>1. Init => CountInv
  BY DEF Init, NetworkInit, KeysInit, CountInv, CountersInUse, SessionsFresh, LogIsFresh,
         DraftCounts, WaitingCounts
<1>2. TypeOK /\ GapInv /\ CountInv /\ [Next]_vars => CountInv'
  BY CountInvStep
<1>3. Spec => []GapInv
  BY GapInvAlways DEF Conditions
<1> QED
  BY <1>1, <1>2, <1>3, TypeCorrect, PTL DEF Spec

\* However old the dump, and even if sessions are lost during a run, no session
\* brought back from it accepts an uplink counter twice.
THEOREM UplinkCountersAreFresh == Conditions => (Spec => []UplinkCounterFresh)
<1> SUFFICES ASSUME Conditions PROVE Spec => []UplinkCounterFresh
  OBVIOUS
<1>1. CountInv => UplinkCounterFresh
  BY DEF CountInv, CountersInUse, SessionsFresh, IsFresh, UplinkCounterFresh
<1> QED
  BY <1>1, CountInvAlways, PTL

\* Nor does it send a downlink counter twice, but for the NFCntDown of 1.1 devices.
THEOREM DownlinkCountersAreFresh == Conditions => (Spec => []DownlinkCounterFresh)
<1> SUFFICES ASSUME Conditions PROVE Spec => []DownlinkCounterFresh
  OBVIOUS
<1>1. CountInv => DownlinkCounterFresh
  BY DEF CountInv, CountersInUse, SessionsFresh, IsFresh, DownlinkCounterFresh
<1> QED
  BY <1>1, CountInvAlways, PTL

-----------------------------------------------------------------------------
(* Indexed sessions, whatever is lost or joins, listed once or more.        *)

\* Between the transactions of a save the sets already hold the device.
SetIsIndexed ==
    /\ pc \in {"pending", "set"} => target \in devAddrSet[toSave.DevAddr]
    /\ pc = "set" /\ prepared[idx].rejoin # None => target \in devAddrSet[prepared[idx].rejoin]

IndexedInv == SessionIsIndexed /\ SetIsIndexed

LEMMA SameIndexed ==
  ASSUME IndexedInv, UNCHANGED <<devAddrSet, session, rejoin>>,
         pc' \in {"pending", "set"} => UNCHANGED <<pc, prepared, idx>>
  PROVE  IndexedInv'
<1>1. SessionIsIndexed'
  BY DEF IndexedInv, SessionIsIndexed
<1>2. SetIsIndexed'
  BY DEF IndexedInv, SetIsIndexed, target, toSave
<1> QED
  BY <1>1, <1>2 DEF IndexedInv

\* The addresses of the sessions and of what is being saved.
LEMMA AddressTypes ==
  ASSUME TypeOK
  PROVE  /\ devAddrSet \in [DevAddrs -> SUBSET DevEUIs]
         /\ \A d \in DevEUIs : session[d] # None => session[d].DevAddr \in DevAddrs
         /\ \A d \in DevEUIs : rejoin[d] # None => rejoin[d] \in DevAddrs
         /\ pc \in CreateSteps =>
               /\ target \in DevEUIs /\ toSave.DevAddr \in DevAddrs
               /\ prepared[idx].rejoin # None => prepared[idx].rejoin \in DevAddrs
<1>1. \A x \in Session : x.DevAddr \in DevAddrs
  BY DEF Session
<1>2. \A d \in DevEUIs : session[d] \in Session \union {None}
  BY DEF TypeOK, NetworkTypeOK
<1> QED
  BY <1>1, <1>2, TargetType DEF TypeOK, NetworkTypeOK, RowsTypeOK

\* Sets that only grow keep what is indexed.
LEMMA GrowingKeepsSet ==
  ASSUME TypeOK, IndexedInv, UNCHANGED toolVars,
         \A a \in DevAddrs : devAddrSet[a] \subseteq devAddrSet'[a]
  PROVE  SetIsIndexed'
BY AddressTypes DEF IndexedInv, SetIsIndexed, toolVars, CreateSteps, target, toSave

LEMMA SetIndexed == ASSUME TypeOK, IndexedInv, Set PROVE IndexedInv'
<1>1. /\ pc = "set" /\ pc \in CreateSteps
      /\ UNCHANGED devAddrSet /\ pc' \notin {"pending", "set"}
      /\ session' = [session EXCEPT ![target] = toSave]
      /\ rejoin' = [rejoin EXCEPT ![target] = prepared[idx].rejoin]
  BY DEF Set, SetSession, NextSession, Exit, CreateSteps
<1>2. \A d \in DevEUIs :
         /\ session'[d] = IF d = target THEN toSave ELSE session[d]
         /\ rejoin'[d] = IF d = target THEN prepared[idx].rejoin ELSE rejoin[d]
  BY <1>1, TargetType DEF TypeOK, NetworkTypeOK, RowsTypeOK
<1>3. SetIsIndexed
  BY DEF IndexedInv
<1>4. SessionIsIndexed'
  BY <1>1, <1>2, <1>3 DEF IndexedInv, SessionIsIndexed, SetIsIndexed
<1>5. SetIsIndexed'
  BY <1>1 DEF SetIsIndexed
<1> QED
  BY <1>4, <1>5 DEF IndexedInv

\* The two transactions before the last add the device to a set each.
LEMMA SetsIndexed == ASSUME TypeOK, IndexedInv, Index \/ IndexPending PROVE IndexedInv'
<1>1. /\ target \in DevEUIs /\ toSave.DevAddr \in DevAddrs
      /\ prepared[idx].rejoin # None => prepared[idx].rejoin \in DevAddrs
  BY AddressTypes DEF Index, IndexPending, CreateSteps
<1>2. UNCHANGED <<session, rejoin, prepared, idx>>
  BY DEF Index, IndexPending
<1>3. \A a \in DevAddrs : devAddrSet[a] \subseteq devAddrSet'[a]
  BY AddressTypes DEF Index, IndexPending, SAdd
<1>4. SessionIsIndexed'
  BY <1>2, <1>3, AddressTypes DEF IndexedInv, SessionIsIndexed
<1>5. target' = target /\ toSave' = toSave
  BY <1>2 DEF target, toSave
<1>6. CASE Index
  <2>1. target \in devAddrSet'[toSave.DevAddr] /\ pc' = AfterIndex
    BY <1>1, <1>6, AddressTypes DEF Index, SAdd
  <2> QED
    BY <1>2, <1>4, <1>5, <2>1 DEF IndexedInv, SetIsIndexed, AfterIndex
<1>7. CASE IndexPending
  <2>1. prepared[idx].rejoin # None /\ pc = "pending" /\ pc' = "set"
    BY <1>7 DEF IndexPending, TypeOK
  <2>2. target \in devAddrSet'[prepared[idx].rejoin]
    BY <1>1, <1>7, <2>1, AddressTypes DEF IndexPending, SAdd
  <2>3. target \in devAddrSet'[toSave.DevAddr]
    BY <1>1, <1>3, <2>1 DEF IndexedInv, SetIsIndexed
  <2> QED
    BY <1>2, <1>4, <1>5, <2>1, <2>2, <2>3 DEF IndexedInv, SetIsIndexed
<1> QED
  BY <1>6, <1>7

LEMMA JoinIndexed ==
  ASSUME TypeOK, IndexedInv, NEW d \in DevEUIs, Join(d),
         rejoin' = [rejoin EXCEPT ![d] = None], UNCHANGED toolVars
  PROVE  IndexedInv'
<1> DEFINE g == activation[d] + 1
           s == [DevAddr |-> Addr[d][g], NwkKeys |-> g, AppSKey |-> g,
                 FCntUp |-> 0, NFCntDown |-> 0, AFCntDown |-> 0]
<1>1. s.DevAddr = Addr[d][g] /\ Addr[d][g] \in DevAddrs
  BY DEF Join
<1> HIDE DEF s
<1>2. /\ \A e \in DevEUIs : session'[e] = IF e = d THEN s ELSE session[e]
      /\ \A e \in DevEUIs : rejoin'[e] = IF e = d THEN None ELSE rejoin[e]
      /\ \A a \in DevAddrs : devAddrSet[a] \subseteq devAddrSet'[a]
      /\ d \in devAddrSet'[Addr[d][g]]
  BY <1>1 DEF Join, SetSession, SAdd, TypeOK, NetworkTypeOK, RowsTypeOK, s
<1>3. SessionIsIndexed'
  BY <1>1, <1>2, AddressTypes DEF IndexedInv, SessionIsIndexed
<1> QED
  BY <1>2, <1>3, GrowingKeepsSet DEF IndexedInv

LEMMA LossIndexed ==
  ASSUME TypeOK, IndexedInv, NEW d \in DevEUIs, LoseSession(d),
         rejoin' = [rejoin EXCEPT ![d] = None], Refreshed => devAddrSet' = devAddrSet,
         UNCHANGED toolVars
  PROVE  IndexedInv'
<1>1. NoRekeying
  BY NetworkNoRekeying DEF TypeOK
<1>2. \A e \in DevEUIs : rejoin'[e] = IF e = d THEN None ELSE rejoin[e]
  BY DEF TypeOK
<1>3. /\ session'[d] = None
      /\ \A e \in DevEUIs \ {d} : session'[e] = session[e]
  BY DEF LoseSession, SetSession, TypeOK, NetworkTypeOK
<1>4. SessionIsIndexed'
  BY <1>1, <1>2, <1>3, AddressTypes DEF NoRekeying, IndexedInv, SessionIsIndexed
<1>5. SetIsIndexed'
  BY DEF IndexedInv, SetIsIndexed, Refreshed, toolVars, target, toSave
<1> QED
  BY <1>4, <1>5 DEF IndexedInv

LEMMA RejoinIndexed ==
  ASSUME TypeOK, IndexedInv, NEW d \in DevEUIs, Rejoin(d), UNCHANGED toolVars
  PROVE  IndexedInv'
<1>1. PICK a \in DevAddrs : SAdd(a, d) /\ rejoin' = [rejoin EXCEPT ![d] = a]
  BY DEF Rejoin
<1>2. /\ \A b \in DevAddrs : devAddrSet[b] \subseteq devAddrSet'[b]
      /\ d \in devAddrSet'[a]
  BY <1>1, AddressTypes DEF SAdd
<1>3. /\ UNCHANGED session
      /\ \A e \in DevEUIs : rejoin'[e] = IF e = d THEN a ELSE rejoin[e]
  BY <1>1 DEF Rejoin, TypeOK
<1>4. SessionIsIndexed'
  BY <1>2, <1>3, AddressTypes DEF IndexedInv, SessionIsIndexed
<1> QED
  BY <1>2, <1>4, GrowingKeepsSet DEF IndexedInv

LEMMA ExpiryIndexed ==
  ASSUME TypeOK, IndexedInv, ~Refreshed, NEW a \in DevAddrs, SetExpires(a), UNCHANGED toolVars
  PROVE  IndexedInv'
<1>1. \A b \in DevAddrs : b # a => devAddrSet'[b] = devAddrSet[b]
  BY AddressTypes DEF SetExpires
<1>2. SessionIsIndexed'
  <2> SUFFICES ASSUME NEW d \in DevEUIs, session[d] # None
               PROVE  /\ d \in devAddrSet'[session[d].DevAddr]
                      /\ rejoin[d] # None => d \in devAddrSet'[rejoin[d]]
    BY DEF SetExpires, SessionIsIndexed
  <2>1. /\ d \in devAddrSet[session[d].DevAddr]
        /\ rejoin[d] # None => d \in devAddrSet[rejoin[d]]
    BY DEF IndexedInv, SessionIsIndexed
  <2> QED
    BY <1>1, <2>1, AddressTypes DEF SetExpires
<1>3. SetIsIndexed'
  BY DEF Refreshed, SetIsIndexed, toolVars
<1> QED
  BY <1>2, <1>3 DEF IndexedInv

LEMMA NetworkIndexed == ASSUME TypeOK, IndexedInv, Network PROVE IndexedInv'
<1>1. UNCHANGED toolVars
  BY DEF Network
<1>2. ASSUME NEW d \in DevEUIs,
             UplinkAccepted(d) \/ UplinkDropped(d) \/ Downlink(d) \/ EnqueueMac(d),
             UNCHANGED rejoin
      PROVE  IndexedInv'
  <2>1. NoRekeying /\ UNCHANGED devAddrSet
    BY <1>2, NetworkNoRekeying
    DEF TypeOK, UplinkAccepted, UplinkDropped, Downlink, EnqueueMac, keyVars
  <2>2. SessionIsIndexed'
    BY <1>2, <2>1 DEF NoRekeying, IndexedInv, SessionIsIndexed
  <2>3. SetIsIndexed'
    BY <1>1, <2>1 DEF IndexedInv, SetIsIndexed, toolVars, target, toSave
  <2> QED
    BY <2>2, <2>3 DEF IndexedInv
<1> QED
  BY <1>1, <1>2, JoinIndexed, LossIndexed, RejoinIndexed, ExpiryIndexed DEF Network

LEMMA IndexedInvStep == TypeOK /\ IndexedInv /\ [Next]_vars => IndexedInv'
<1> SUFFICES ASSUME TypeOK, IndexedInv, [Next]_vars PROVE IndexedInv'
  OBVIOUS
<1>1. CASE \/ TakeDump \/ (\E l \in DevLists : Start(l)) \/ Check \/ ReadDump
           \/ ReadActivation \/ ReadRX \/ ReadTX \/ Abort \/ UNCHANGED vars
  <2>1. UNCHANGED <<devAddrSet, session, rejoin>>
    BY <1>1 DEF TakeDump, Start, Check, ReadDump, ReadActivation, ReadRX, ReadTX, Abort, Skip,
                Continue, vars, networkVars, keyVars
  <2>2. pc' \in {"pending", "set"} => UNCHANGED <<pc, prepared, idx>>
    BY <1>1 DEF TakeDump, Start, Check, ReadDump, ReadActivation, ReadRX, ReadTX, Abort, Skip,
                Continue, NextDevice, Exit, vars, toolVars
  <2> QED
    BY <2>1, <2>2, SameIndexed
<1>2. CASE Index \/ IndexPending
  BY <1>2, SetsIndexed
<1>3. CASE Set
  BY <1>3, SetIndexed
<1>4. CASE Network
  BY <1>4, NetworkIndexed
<1> QED
  BY <1>1, <1>2, <1>3, <1>4 DEF Next, Step

\* Wherever a run stops and whatever joins, is lost or expires meanwhile, a session
\* brought back from a dump is in the set of its address and in that of the pending
\* rejoin it may hold, by which the network-server looks it up.
THEOREM SessionsAreIndexed == Spec => []SessionIsIndexed
<1>1. Init => IndexedInv
  BY DEF Init, NetworkInit, KeysInit, IndexedInv, SessionIsIndexed, SetIsIndexed
<1>2. IndexedInv => SessionIsIndexed
  BY DEF IndexedInv
<1> QED
  BY <1>1, <1>2, IndexedInvStep, TypeCorrect, PTL DEF Spec

-----------------------------------------------------------------------------
(* No device of the list falls out of a run: the safety half of             *)
(* DumpedIsRestored.                                                       *)

\* The dump knows device d, which has not joined since, and nothing went wrong.
Dumped(d) == dump[d] # None /\ activation[d] = dumpGen[d] /\ ~faulted

LEMMA NextDeviceAwaited ==
  ASSUME TypeOK, pc \in PrepareSteps, NEW p \in Seq(Prepared), NextDevice(p),
         NEW d \in DevEUIs, Dumped(d)',
         \/ \E i \in DOMAIN devList : i >= idx /\ devList[i] = d /\ i # idx
         \/ \E i \in DOMAIN p : p[i].DevEUI = d
  PROVE  Awaited(d)'
<1>1. idx \in 1..Len(devList) /\ devList \in Seq(DevEUIs)
  BY DevType
<1>2. CASE idx < Len(devList) /\ pc' = "check" /\ idx' = idx + 1 /\ prepared' = p
           /\ UNCHANGED devList
  <2>1. \A i \in DOMAIN devList : i >= idx /\ i # idx => i >= idx'
    BY <1>1, <1>2
  <2> QED
    BY <1>2, <2>1 DEF Awaited, Dumped, PrepareSteps
<1>3. CASE ~(idx < Len(devList))
  <2>1. \A i \in DOMAIN devList : ~(i >= idx /\ i # idx)
    BY <1>1, <1>3
  <2>2. PICK i \in DOMAIN p : p[i].DevEUI = d
    BY <2>1
  <2>3. p # <<>> /\ i >= 1
    BY <2>2
  <2> QED
    BY <1>3, <2>2, <2>3 DEF NextDevice, Awaited, Dumped, CreateSteps
<1> QED
  BY <1>2, <1>3 DEF NextDevice

LEMMA SkipAwaited ==
  ASSUME TypeOK, pc \in PrepareSteps, Skip, NEW d \in DevEUIs, Awaited(d), dev # d
  PROVE  Awaited(d)'
<1>1. prepared \in Seq(Prepared)
  BY DEF TypeOK, Prepared
<1>2. Dumped(d)'
  BY DEF Skip, Awaited, Dumped, networkVars, dumpVars
<1>3. pc \notin CreateSteps
  BY DEF PrepareSteps, CreateSteps
<1> QED
  BY <1>1, <1>2, <1>3, NextDeviceAwaited DEF Skip, Awaited, dev

LEMMA ContinueAwaited ==
  ASSUME pc \in PrepareSteps, NEW next \in PrepareSteps, NEW s, Continue(next, s),
         NEW d \in DevEUIs, Awaited(d)
  PROVE  Awaited(d)'
BY DEF Continue, Awaited, networkVars, dumpVars, PrepareSteps, CreateSteps

LEMMA ReadTXAwaited ==
  ASSUME TypeOK, ReadTX, NEW d \in DevEUIs, Awaited(d)
  PROVE  Awaited(d)'
<1> DEFINE e == item
           p == Append(prepared, e)
<1>1. pc = "tx" /\ pc \in PrepareSteps /\ pc \notin CreateSteps
  BY DEF ReadTX, PrepareSteps, CreateSteps
<1>2. /\ e.DevEUI = dev /\ p \in Seq(Prepared) /\ prepared \in Seq(Prepared)
      /\ NextDevice(p)
  BY <1>1, FoundType DEF ReadTX, found, item, GetLastFrameForDevEui, TypeOK, Prepared
<1>3. Dumped(d)'
  BY DEF ReadTX, Awaited, Dumped, networkVars, dumpVars
<1> HIDE DEF e
<1>4. /\ \A i \in DOMAIN prepared : i \in DOMAIN p /\ p[i] = prepared[i]
      /\ Len(prepared) + 1 \in DOMAIN p /\ p[Len(prepared) + 1] = e
  BY <1>2
<1>5. \/ \E i \in DOMAIN devList : i >= idx /\ devList[i] = d /\ i # idx
      \/ \E i \in DOMAIN p : p[i].DevEUI = d
  <2>1. CASE dev = d
    BY <1>2, <1>4, <2>1
  <2>2. CASE dev # d
    BY <1>1, <1>4, <2>2 DEF Awaited, dev
  <2> QED
    BY <2>1, <2>2
<1> HIDE DEF p
<1> QED
  BY <1>1, <1>2, <1>3, <1>5, NextDeviceAwaited

LEMMA SetAwaited ==
  ASSUME TypeOK, Set, NEW d \in DevEUIs, Awaited(d)
  PROVE  Awaited(d)' \/ session'[d] # None
<1>1. pc = "set" /\ pc \in CreateSteps /\ pc \notin PrepareSteps
  BY DEF Set, PrepareSteps, CreateSteps
<1>2. target \in DevEUIs /\ toSave \in Session /\ idx \in 1..Len(prepared)
      /\ prepared \in Seq(Prepared)
  BY <1>1, TargetType DEF TypeOK, Prepared
<1>3. CASE target = d
  BY <1>2, <1>3, NoneAssumption DEF Set, SetSession, TypeOK, NetworkTypeOK
<1>4. CASE target # d
  <2>1. PICK i \in DOMAIN prepared : i >= idx /\ prepared[i].DevEUI = d
    BY <1>1 DEF Awaited
  <2>2. i # idx
    BY <1>4, <2>1 DEF target
  <2>3. idx < Len(prepared) /\ i >= idx + 1
    BY <1>2, <2>1, <2>2
  <2>4. pc' = "index" /\ idx' = idx + 1 /\ prepared' = prepared
    BY <2>3 DEF Set, NextSession
  <2> QED
    BY <2>1, <2>3, <2>4 DEF Set, Awaited, dumpVars, PrepareSteps, CreateSteps
<1> QED
  BY <1>3, <1>4

LEMMA NetworkAwaited ==
  ASSUME TypeOK, Network, NEW d \in DevEUIs, Awaited(d)
  PROVE  Awaited(d)' \/ session'[d] # None
<1>1. PICK e \in DevEUIs :
         \/ Join(e)
         \/ LoseSession(e) \/ UplinkAccepted(e) \/ UplinkDropped(e) \/ Downlink(e)
         \/ EnqueueMac(e) \/ Aside
  BY NetworkSteps
<1>2. UNCHANGED <<dumpVars, toolVars>> /\ NetworkTypeOK
  BY DEF Network, TypeOK
<1>3. CASE Join(e) /\ e = d
  <2>1. session'[d] \in Session
    BY <1>2, <1>3, NetworkActionTypes DEF Join, SetSession, NetworkTypeOK, Session, FCnts
  <2> QED
    BY <2>1, NoneAssumption
<1>4. CASE Join(e) /\ e # d
  BY <1>2, <1>4 DEF Join, NetworkTypeOK, RowsTypeOK, Awaited, dumpVars, toolVars
<1>5. CASE ~Join(e)
  <2>1. activation' = activation
    BY <1>1, <1>2, <1>5, NetworkNoRekeying DEF NoRekeying, Aside
  <2> QED
    BY <1>2, <2>1 DEF Awaited, dumpVars, toolVars
<1> QED
  BY <1>1, <1>3, <1>4, <1>5

LEMMA AwaitedStep ==
  ASSUME TypeOK, RunsAfterDump, Next, NEW d \in DevEUIs, Awaited(d)
  PROVE  Awaited(d)' \/ session'[d] # None \/ faulted'
<1>1. /\ pc # "idle" /\ dump[d] # None /\ activation[d] = dumpGen[d]
      /\ activation[d] \in Nat
  BY DEF Awaited, PrepareSteps, CreateSteps, TypeOK, NetworkTypeOK, RowsTypeOK
<1>2. CASE TakeDump \/ \E l \in DevLists : Start(l)
  BY <1>1, <1>2 DEF TakeDump, Start, RunsAfterDump
<1>3. CASE Check
  <2>1. pc \in PrepareSteps /\ "dump" \in PrepareSteps
    BY <1>3 DEF Check, PrepareSteps
  <2>2. CASE Skip /\ dev = d
    BY <1>3, <2>2, ContinueAwaited, <2>1 DEF Check, Skip, networkVars, keyVars, DoesNotExist
  <2> QED
    BY <1>3, <2>1, <2>2, SkipAwaited, ContinueAwaited DEF Check
<1>4. CASE ReadDump
  <2>1. pc \in PrepareSteps /\ "activation" \in PrepareSteps
    BY <1>4 DEF ReadDump, PrepareSteps
  <2> QED
    BY <1>1, <1>4, <2>1, SkipAwaited, ContinueAwaited DEF ReadDump
<1>5. CASE ReadActivation
  <2>1. pc \in PrepareSteps /\ "rx" \in PrepareSteps
    BY <1>5 DEF ReadActivation, PrepareSteps
  <2>2. CASE dev = d
    <3>1. ~(activation[dev] > dumpGen[dev])
      BY <1>1, <2>2
    <3> QED
      BY <1>5, <2>1, <3>1, ContinueAwaited DEF ReadActivation
  <2> QED
    BY <1>5, <2>1, <2>2, SkipAwaited, ContinueAwaited DEF ReadActivation
<1>6. CASE ReadRX
  <2>1. pc \in PrepareSteps /\ "tx" \in PrepareSteps
    BY <1>6 DEF ReadRX, PrepareSteps
  <2> QED
    BY <1>6, <2>1, ContinueAwaited DEF ReadRX
<1>7. CASE ReadTX
  BY <1>7, ReadTXAwaited
<1>8. CASE Index \/ IndexPending
  <2>1. /\ UNCHANGED <<dump, dumpGen, activation, faulted, idx, prepared>>
        /\ pc \in {"index", "pending"} /\ pc' \in {"pending", "set"}
    BY <1>8 DEF Index, IndexPending, AfterIndex, dumpVars
  <2> QED
    BY <2>1 DEF Awaited, PrepareSteps, CreateSteps
<1>9. CASE Set
  BY <1>9, SetAwaited
<1>10. CASE Abort
  BY <1>10 DEF Abort
<1>11. CASE Network
  BY <1>11, NetworkAwaited
<1> QED
  BY <1>2, <1>3, <1>4, <1>5, <1>6, <1>7, <1>8, <1>9, <1>10, <1>11 DEF Next, Step

\* Whatever joins or is lost meanwhile, and however often a device is listed, no
\* step of a run loses a device that it is still to restore.
THEOREM NoDumpedIsPassedOver == Spec => NoneIsPassedOver
<1>1. Init => RunsAfterDump
  BY DEF Init, RunsAfterDump
<1>2. TypeOK /\ RunsAfterDump /\ [Next]_vars
      => [\A d \in DevEUIs :
             Awaited(d) => Awaited(d)' \/ session'[d] # None \/ faulted']_vars
  BY AwaitedStep
<1> QED
  BY <1>1, <1>2, RunsAfterDumpStep, TypeCorrect, PTL DEF Spec, NoneIsPassedOver

\* It has every dumped device of its list before it when it starts.
LEMMA StartAwaits ==
  ASSUME NEW d \in DevEUIs, pc = "check", idx = 1, Dumped(d), devList \in Seq(DevEUIs),
         \E i \in DOMAIN devList : devList[i] = d
  PROVE  Awaited(d)
<1>1. \A i \in DOMAIN devList : i >= idx
  OBVIOUS
<1> QED
  BY <1>1 DEF Awaited, Dumped, PrepareSteps

-----------------------------------------------------------------------------
(* The log only raises the dumped counters, when it is complete and nobody  *)
(* joins during a run (as dump_counters shows it must be).                  *)

\* Before the first run a session has the counter of the frames it accepted, and
\* so has the dump, which is taken then.
BeforeRuns ==
    /\ runs # 0 => dumped
    /\ ~dumped => \A d \in DevEUIs : session[d] # None => session[d].FCntUp = acceptedUp[d]

\* What was accepted has been sent, and is in the log.
AcceptedIsLogged ==
    \A d \in DevEUIs :
        /\ acceptedUp[d] <= nextUp[d]
        /\ acceptedUp[d] # 0 => lastRX[d] # None /\ lastRX[d].FCntUp + 1 >= acceptedUp[d]

\* More has been accepted since the dump, if anything, until the next join.
DumpIsBehind ==
    \A d \in DevEUIs : dump[d] # None /\ dumpGen[d] = activation[d] =>
        dump[d].FCntUp <= acceptedUp[d]

UpInv == BeforeRuns /\ AcceptedIsLogged /\ DumpIsBehind

DraftImproves ==
    /\ pc \in {"activation", "rx"} => draft = dump[dev]
    /\ pc = "tx" => draft.FCntUp >= dump[dev].FCntUp

ImprovedInv == DraftImproves /\ CountersImproved

LEMMA UpTypes ==
  ASSUME TypeOK
  PROVE  /\ \A d \in DevEUIs : acceptedUp[d] \in Nat /\ nextUp[d] \in Nat
         /\ \A d \in DevEUIs : activation[d] \in Nat /\ dumpGen[d] \in Nat
         /\ \A d \in DevEUIs : session[d] # None => session[d].FCntUp \in Nat
         /\ \A d \in DevEUIs : dump[d] # None => dump[d].FCntUp \in Nat
         /\ \A d \in DevEUIs : lastRX[d] # None => lastRX[d].FCntUp \in Nat
BY DEF TypeOK, NetworkTypeOK, RowsTypeOK, FCnts, Session, RXRow

LEMMA SameUp ==
  ASSUME UpInv, UNCHANGED <<session, acceptedUp, nextUp, lastRX, activation, dumpVars>>,
         runs' # 0 => dumped
  PROVE  UpInv'
BY DEF UpInv, BeforeRuns, AcceptedIsLogged, DumpIsBehind, dumpVars

\* Accepting the next uplink.
LEMMA UplinkUp ==
  ASSUME TypeOK, UpInv, LogIsComplete, NEW d \in DevEUIs, UplinkAccepted(d),
         UNCHANGED <<dumpVars, toolVars>>
  PROVE  UpInv'
<1> DEFINE s == [session[d] EXCEPT !.FCntUp = nextUp[d] + 1]
           row == [gen |-> activation[d], FCntUp |-> nextUp[d]]
<1>1. /\ session[d] # None /\ session[d] \in Session
      /\ session' = [session EXCEPT ![d] = s]
      /\ acceptedUp' = [acceptedUp EXCEPT ![d] = nextUp[d] + 1]
      /\ nextUp' = [nextUp EXCEPT ![d] = nextUp[d] + 1]
      /\ lastRX' = [lastRX EXCEPT ![d] = row]
      /\ UNCHANGED activation
  BY DEF UplinkAccepted, HasUsableSession, Logged, LogIsComplete, TypeOK, NetworkTypeOK
<1>2. s.FCntUp = nextUp[d] + 1 /\ row.FCntUp = nextUp[d] /\ nextUp[d] + 1 \in FCnts
  BY <1>1, UpTypes DEF Session, UplinkAccepted, FCnts
<1>3. row # None
  <2>1. activation[d] \in Gens /\ nextUp[d] \in 0..MaxFCnt
    BY UpTypes DEF UplinkAccepted, HasUsableSession, TypeOK, NetworkTypeOK, RowsTypeOK, Gens
  <2> QED
    BY <2>1, NoRowAssumption DEF RXRow
<1> HIDE DEF s, row
<1>4. /\ session'[d] = s /\ acceptedUp'[d] = nextUp[d] + 1 /\ nextUp'[d] = nextUp[d] + 1
      /\ lastRX'[d] = row
      /\ \A e \in DevEUIs : e # d =>
            /\ session'[e] = session[e] /\ acceptedUp'[e] = acceptedUp[e]
            /\ nextUp'[e] = nextUp[e] /\ lastRX'[e] = lastRX[e]
  BY <1>1 DEF TypeOK, NetworkTypeOK, RowsTypeOK
<1>5. BeforeRuns' /\ DumpIsBehind'
  BY <1>1, <1>2, <1>4, UpTypes
  DEF UpInv, BeforeRuns, AcceptedIsLogged, DumpIsBehind, dumpVars, toolVars
<1>6. AcceptedIsLogged'
  BY <1>2, <1>3, <1>4, UpTypes DEF UpInv, AcceptedIsLogged
<1> QED
  BY <1>5, <1>6 DEF UpInv

LEMMA NetworkUp ==
  ASSUME TypeOK, UpInv, DumpIsOld, LogIsComplete, Network
  PROVE  UpInv'
<1>1. PICK d \in DevEUIs :
         Join(d) \/ LoseSession(d) \/ UplinkAccepted(d) \/ UplinkDropped(d) \/ Downlink(d)
         \/ EnqueueMac(d) \/ Aside
  BY NetworkSteps
<1>2. UNCHANGED <<dumpVars, toolVars>>
  BY DEF Network
<1>3. CASE Join(d)
  <2> DEFINE g == activation[d] + 1
             s == [DevAddr |-> Addr[d][g], NwkKeys |-> g, AppSKey |-> g,
                   FCntUp |-> 0, NFCntDown |-> 0, AFCntDown |-> 0]
  <2>1. s.FCntUp = 0
    OBVIOUS
  <2> HIDE DEF s
  <2>2. /\ session'[d] = s /\ acceptedUp'[d] = 0 /\ nextUp'[d] = 0
        /\ activation'[d] = activation[d] + 1 /\ UNCHANGED lastRX
        /\ \A e \in DevEUIs : e # d =>
              /\ session'[e] = session[e] /\ acceptedUp'[e] = acceptedUp[e]
              /\ nextUp'[e] = nextUp[e] /\ activation'[e] = activation[e]
    BY <1>3 DEF Join, SetSession, TypeOK, NetworkTypeOK, RowsTypeOK, s
  <2>3. dumpGen[d] # activation'[d]
    BY <2>2, UpTypes DEF DumpIsOld
  <2> QED
    BY <1>2, <2>1, <2>2, <2>3
    DEF UpInv, BeforeRuns, AcceptedIsLogged, DumpIsBehind, dumpVars, toolVars
<1>4. CASE UplinkAccepted(d)
  BY <1>2, <1>4, UplinkUp
<1>5. CASE LoseSession(d) \/ UplinkDropped(d) \/ Downlink(d) \/ EnqueueMac(d)
  <2>1. UNCHANGED <<acceptedUp, lastRX, activation>>
    BY <1>5 DEF LoseSession, UplinkDropped, Downlink, EnqueueMac
  <2>2. \A e \in DevEUIs : nextUp'[e] >= nextUp[e]
    <3>1. UNCHANGED nextUp \/ nextUp' = [nextUp EXCEPT ![d] = @ + 1]
      BY <1>5 DEF LoseSession, UplinkDropped, Downlink, EnqueueMac
    <3>2. DOMAIN nextUp = DevEUIs /\ \A e \in DevEUIs : nextUp[e] \in Nat
      BY UpTypes DEF TypeOK, NetworkTypeOK, RowsTypeOK
    <3>3. CASE nextUp' = nextUp
      BY <3>2, <3>3
    <3>4. CASE nextUp' = [nextUp EXCEPT ![d] = @ + 1]
      BY <3>2, <3>4
    <3> QED
      BY <3>1, <3>3, <3>4
  <2>3. \A e \in DevEUIs : session'[e] # None =>
           session[e] # None /\ session'[e].FCntUp = session[e].FCntUp
    <3>1. CASE LoseSession(d) \/ UplinkDropped(d) \/ EnqueueMac(d)
      BY <3>1 DEF LoseSession, SetSession, UplinkDropped, EnqueueMac, keyVars, TypeOK,
                  NetworkTypeOK
    <3>2. CASE Downlink(d)
      <4>1. session[d] \in Session /\ session[d] # None
        BY <3>2 DEF Downlink, HasUsableSession, TypeOK, NetworkTypeOK
      <4>2. PICK s \in {[session[d] EXCEPT !.AFCntDown = @ + 1],
                        [session[d] EXCEPT !.NFCntDown = @ + 1]} :
               session' = [session EXCEPT ![d] = s]
        BY <3>2 DEF Downlink
      <4>3. s.FCntUp = session[d].FCntUp
        BY <4>1 DEF Session
      <4> QED
        BY <4>1, <4>2, <4>3 DEF TypeOK, NetworkTypeOK
    <3> QED
      BY <1>5, <3>1, <3>2
  <2>4. AcceptedIsLogged'
    <3>1. NetworkTypeOK'
      BY <1>5, NetworkActionTypes DEF TypeOK
    <3>2. \A e \in DevEUIs : nextUp'[e] \in Nat
      BY <3>1 DEF NetworkTypeOK, RowsTypeOK, FCnts
    <3> QED
      BY <2>1, <2>2, <3>2, UpTypes DEF UpInv, AcceptedIsLogged
  <2> QED
    BY <1>2, <2>1, <2>3, <2>4 DEF UpInv, BeforeRuns, DumpIsBehind, dumpVars, toolVars
<1>6. CASE Aside
  BY <1>2, <1>6, SameUp DEF Aside, UpInv, BeforeRuns, toolVars
<1> QED
  BY <1>1, <1>3, <1>4, <1>5, <1>6

LEMMA UpInvStep ==
  LogIsComplete /\ TypeOK /\ RunsAfterDump /\ DumpIsOld /\ UpInv /\ [Next]_vars => UpInv'
<1> SUFFICES ASSUME LogIsComplete, TypeOK, RunsAfterDump, DumpIsOld, UpInv, [Next]_vars
             PROVE  UpInv'
  OBVIOUS
<1>1. CASE TakeDump
  <2>1. /\ ~dumped /\ dumped' /\ dump' = session /\ dumpGen' = activation
        /\ UNCHANGED <<session, activation, acceptedUp, nextUp, lastRX>>
    BY <1>1 DEF TakeDump, networkVars, keyVars
  <2> QED
    BY <2>1, UpTypes DEF UpInv, BeforeRuns, AcceptedIsLogged, DumpIsBehind
<1>2. CASE Network
  BY <1>2, NetworkUp
<1>3. CASE Set
  BY <1>3 DEF Set, RunsAfterDump, UpInv, BeforeRuns, AcceptedIsLogged, DumpIsBehind, dumpVars
<1>4. CASE \/ (\E l \in DevLists : Start(l)) \/ Check \/ ReadDump \/ ReadActivation \/ ReadRX
           \/ ReadTX \/ Index \/ IndexPending \/ Abort \/ UNCHANGED vars
  <2>1. UNCHANGED <<session, acceptedUp, nextUp, lastRX, activation, dumpVars>>
    BY <1>4 DEF Start, Check, ReadDump, ReadActivation, ReadRX, ReadTX, Index, IndexPending,
                Abort, Skip, Continue, vars, networkVars, keyVars
  <2>2. runs' # 0 => dumped
    BY <1>4 DEF Start, Check, ReadDump, ReadActivation, ReadRX, ReadTX, Index, IndexPending,
                Abort, Skip, Continue, vars, toolVars, UpInv, BeforeRuns
  <2> QED
    BY <2>1, <2>2, SameUp
<1> QED
  BY <1>1, <1>2, <1>3, <1>4 DEF Next, Step

LEMMA SkipImproves ==
  ASSUME ImprovedInv, Skip PROVE ImprovedInv'
<1>1. /\ UNCHANGED dump /\ pc' \in {"check", "index", "idle"}
      /\ prepared' = prepared \/ prepared' = <<>>
  BY DEF Skip, NextDevice, Exit, dumpVars
<1> QED
  BY <1>1 DEF ImprovedInv, DraftImproves, CountersImproved

LEMMA ContinueImproves ==
  ASSUME ImprovedInv, NEW next \in PrepareSteps, NEW s, Continue(next, s),
         next \in {"activation", "rx"} => s = dump[dev],
         next = "tx" => s.FCntUp >= dump[dev].FCntUp
  PROVE  ImprovedInv'
BY DEF Continue, ImprovedInv, DraftImproves, CountersImproved, dumpVars, dev

LEMMA ReadRXImproves ==
  ASSUME TypeOK, NewestInv, UpInv, ImprovedInv, ReadRX PROVE ImprovedInv'
<1>1. /\ pc = "rx" /\ pc \in PrepareSteps /\ "tx" \in PrepareSteps
      /\ dev \in DevEUIs /\ draft \in Session /\ draft # None
  BY DevType DEF ReadRX, PrepareSteps, TypeOK
<1>2. draft = dump[dev]
  BY <1>1 DEF ImprovedInv, DraftImproves
<1>3. dumpGen[dev] = activation[dev]
  BY <1>1, <1>2 DEF NewestInv, DraftNewest, DumpIsOld
<1>4. dump[dev].FCntUp <= acceptedUp[dev]
  BY <1>1, <1>2, <1>3 DEF UpInv, DumpIsBehind
<1> DEFINE r == [draft EXCEPT !.FCntUp = lastRX[dev].FCntUp + 1]
<1>5. CASE lastRX[dev] # None /\ Continue("tx", r)
  <2>1. r.FCntUp = lastRX[dev].FCntUp + 1
    BY <1>1 DEF Session
  <2>2. r.FCntUp >= dump[dev].FCntUp
    BY <1>1, <1>2, <1>4, <1>5, <2>1, UpTypes DEF UpInv, AcceptedIsLogged
  <2> HIDE DEF r
  <2> QED
    BY <1>1, <1>5, <2>2, ContinueImproves
<1>6. CASE Continue("tx", draft)
  <2>1. draft.FCntUp >= dump[dev].FCntUp
    BY <1>1, <1>2, UpTypes
  <2> QED
    BY <1>1, <1>6, <2>1, ContinueImproves
<1> QED
  BY <1>5, <1>6 DEF ReadRX, GetLastFrameForDevEui

LEMMA ReadTXImproves == ASSUME TypeOK, ImprovedInv, ReadTX PROVE ImprovedInv'
<1> DEFINE e == item
<1> DEFINE p == Append(prepared, e)
<1>1. pc = "tx" /\ draft \in Session
  BY DEF ReadTX, TypeOK
<1>2. /\ UNCHANGED dump /\ pc' \in {"check", "index", "idle"}
      /\ prepared' = p \/ prepared' = <<>>
  BY DEF ReadTX, NextDevice, Exit, found, item, GetLastFrameForDevEui, dumpVars
<1>3. found.FCntUp = draft.FCntUp
  <2>1. \A v : /\ [draft EXCEPT !.AFCntDown = v].FCntUp = draft.FCntUp
               /\ [draft EXCEPT !.NFCntDown = v].FCntUp = draft.FCntUp
    BY <1>1 DEF Session
  <2> QED
    BY <2>1 DEF found, WithDownlink
<1>4. e.s.FCntUp >= dump[e.DevEUI].FCntUp
  BY <1>1, <1>3, FoundType DEF ImprovedInv, DraftImproves
<1> HIDE DEF e
<1>5. \A i \in DOMAIN p : p[i].s.FCntUp >= dump[p[i].DevEUI].FCntUp
  BY <1>4, Appended DEF ImprovedInv, CountersImproved
<1> HIDE DEF p
<1> QED
  BY <1>2, <1>5 DEF ImprovedInv, DraftImproves, CountersImproved

LEMMA ImprovedInvStep ==
  TypeOK /\ RunsAfterDump /\ NewestInv /\ UpInv /\ ImprovedInv /\ [Next]_vars => ImprovedInv'
<1> SUFFICES ASSUME TypeOK, RunsAfterDump, NewestInv, UpInv, ImprovedInv, [Next]_vars
             PROVE  ImprovedInv'
  OBVIOUS
<1>1. CASE TakeDump
  <2>1. pc = "idle" /\ pc' = "idle" /\ prepared' = <<>>
    BY <1>1 DEF TakeDump, toolVars, RunsAfterDump, NewestInv
  <2> QED
    BY <2>1 DEF ImprovedInv, DraftImproves, CountersImproved
<1>2. CASE \/ (\E l \in DevLists : Start(l)) \/ Index \/ IndexPending \/ Set \/ Abort
  <2>1. /\ UNCHANGED dump /\ pc' \in {"check", "index", "pending", "set", "idle"}
        /\ prepared' = prepared \/ prepared' = <<>>
    BY <1>2 DEF Start, Index, IndexPending, AfterIndex, Set, NextSession, Abort, Exit, dumpVars
  <2> QED
    BY <2>1 DEF ImprovedInv, DraftImproves, CountersImproved
<1>3. CASE Check \/ ReadDump \/ ReadActivation
  <2>1. {"dump", "activation", "rx"} \subseteq PrepareSteps
    BY DEF PrepareSteps
  <2> QED
    BY <1>3, <2>1, SkipImproves, ContinueImproves
    DEF Check, ReadDump, ReadActivation, ImprovedInv, DraftImproves
<1>4. CASE ReadRX
  BY <1>4, ReadRXImproves
<1>5. CASE ReadTX
  BY <1>5, ReadTXImproves
<1>6. CASE Network \/ UNCHANGED vars
  <2>1. UNCHANGED <<dump, pc, devList, idx, draft, prepared>>
    BY <1>6 DEF Network, vars, dumpVars, toolVars
  <2> QED
    BY <2>1 DEF ImprovedInv, DraftImproves, CountersImproved, dev
<1> QED
  BY <1>1, <1>2, <1>3, <1>4, <1>5, <1>6 DEF Next, Step

\* "counters will be improved automatically in case there are packets in clickhouse
\* database": where the log is complete and nobody joins during a run, it lowers no
\* dumped uplink counter, whatever is lost and however often a device is listed.
THEOREM CountersAreImproved == ~JoinsDuringRun /\ LogIsComplete => (Spec => []CountersImproved)
<1> SUFFICES ASSUME ~JoinsDuringRun, LogIsComplete PROVE Spec => []CountersImproved
  OBVIOUS
<1>1. Init => RunsAfterDump /\ UpInv /\ ImprovedInv
  BY DEF Init, NetworkInit, KeysInit, RunsAfterDump, UpInv, BeforeRuns, AcceptedIsLogged,
         DumpIsBehind, ImprovedInv, DraftImproves, CountersImproved
<1>2. NewestInv => DumpIsOld
  BY DEF NewestInv
<1>3. TypeOK /\ RunsAfterDump /\ DumpIsOld /\ UpInv /\ [Next]_vars => UpInv'
  BY UpInvStep
<1>4. ImprovedInv => CountersImproved
  BY DEF ImprovedInv
<1> QED
  BY <1>1, <1>2, <1>3, <1>4, ImprovedInvStep, RunsAfterDumpStep, NewestInvAlways, PTL DEF Spec

-----------------------------------------------------------------------------
(* A run comes to its end: with NoneIsPassedOver, what the fairness of Step  *)
(* turns into DumpedIsRestored.                                             *)

LEMMA LeftType ==
  ASSUME TypeOK, pc # "idle"
  PROVE  /\ LeftOfIteration \in 1..5
         /\ pc \in CreateSteps => LeftOfIteration \in 1..3
BY DEF TypeOK, LeftOfIteration, PrepareSteps, CreateSteps

LEMMA RemainingInPrepare ==
  ASSUME TypeOK, pc \in PrepareSteps
  PROVE  /\ idx \in 1..Len(devList) /\ Len(devList) \in Nat /\ Len(prepared) \in Nat
         /\ LeftOfIteration \in 1..5
         /\ Remaining = 8 * (Len(devList) - idx) + LeftOfIteration + 3 * (Len(prepared) + 1)
<1>1. pc # "idle" /\ pc \notin CreateSteps
  BY DEF PrepareSteps, CreateSteps
<1>2. idx \in 1..Len(devList) /\ Len(devList) \in Nat /\ Len(prepared) \in Nat
  BY DevType DEF TypeOK
<1> QED
  BY <1>1, <1>2, LeftType DEF Remaining

LEMMA RemainingInCreate ==
  ASSUME TypeOK, pc \in CreateSteps
  PROVE  /\ idx \in 1..Len(prepared) /\ Len(prepared) \in Nat
         /\ LeftOfIteration \in 1..3
         /\ Remaining = 3 * (Len(prepared) - idx) + LeftOfIteration
<1>1. pc # "idle" /\ pc \notin PrepareSteps
  BY DEF PrepareSteps, CreateSteps
<1>2. idx \in 1..Len(prepared) /\ Len(prepared) \in Nat
  BY DEF TypeOK
<1> QED
  BY <1>1, <1>2, LeftType DEF Remaining

LEMMA ExitAdvances ==
  ASSUME TypeOK, pc # "idle", pc' = "idle"
  PROVE  Remaining' \in 0..(Remaining - 1)
<1>1. Remaining' = 0
  BY DEF Remaining, PrepareSteps, CreateSteps
<1>2. CASE pc \in PrepareSteps
  BY <1>1, <1>2, RemainingInPrepare
<1>3. CASE pc \in CreateSteps
  BY <1>1, <1>3, RemainingInCreate
<1> QED
  BY <1>2, <1>3 DEF TypeOK

\* The next device of the list, with at most one prepared session more.
LEMMA NextDeviceAdvances ==
  ASSUME TypeOK, TypeOK', pc \in PrepareSteps, NEW p, NextDevice(p),
         Len(p) = Len(prepared) \/ (pc = "tx" /\ Len(p) = Len(prepared) + 1)
  PROVE  Remaining' \in 0..(Remaining - 1)
<1> DEFINE n == Len(prepared)
<1>1. /\ idx \in 1..Len(devList) /\ Len(devList) \in Nat /\ n \in Nat
      /\ LeftOfIteration \in 1..5
      /\ Remaining = 8 * (Len(devList) - idx) + LeftOfIteration + 3 * (n + 1)
  BY RemainingInPrepare
<1>2. CASE idx < Len(devList) /\ pc' = "check" /\ idx' = idx + 1 /\ prepared' = p
           /\ UNCHANGED devList
  <2>1. pc' \in PrepareSteps /\ LeftOfIteration' = 5
    BY <1>2 DEF LeftOfIteration, PrepareSteps
  <2>2. Remaining' = 8 * (Len(devList) - (idx + 1)) + 5 + 3 * (Len(p) + 1)
    BY <1>2, <2>1 DEF Remaining, PrepareSteps, CreateSteps
  <2> QED
    BY <1>1, <1>2, <2>2
<1>3. CASE idx = Len(devList) /\ pc' = "index" /\ idx' = 1 /\ prepared' = p
  <2>1. pc' \in CreateSteps /\ pc' \notin PrepareSteps /\ LeftOfIteration' = 3
    BY <1>3 DEF LeftOfIteration, PrepareSteps, CreateSteps
  <2>2. Len(p) \in Nat /\ 1 \in 1..Len(p)
    BY <1>3, <2>1 DEF TypeOK
  <2>3. Remaining' = 3 * (Len(p) - 1) + 3
    BY <1>3, <2>1 DEF Remaining
  <2> QED
    BY <1>1, <1>3, <2>2, <2>3
<1>4. CASE Exit
  <2>1. pc # "idle"
    BY DEF PrepareSteps
  <2> QED
    BY <1>4, <2>1, ExitAdvances DEF Exit
<1> QED
  BY <1>2, <1>3, <1>4 DEF NextDevice

LEMMA SkipAdvances ==
  ASSUME TypeOK, TypeOK', pc \in PrepareSteps, Skip
  PROVE  Remaining' \in 0..(Remaining - 1)
BY NextDeviceAdvances DEF Skip

LEMMA ContinueAdvances ==
  ASSUME TypeOK, TypeOK', NEW next \in PrepareSteps, NEW s, Continue(next, s),
         pc \in PrepareSteps, LeftOfIteration' = LeftOfIteration - 1
  PROVE  Remaining' \in 0..(Remaining - 1)
<1>1. UNCHANGED <<devList, idx, prepared>> /\ pc' \in PrepareSteps
  BY DEF Continue
<1>2. /\ idx \in 1..Len(devList) /\ Len(devList) \in Nat /\ Len(prepared) \in Nat
      /\ LeftOfIteration \in 1..5
      /\ Remaining = 8 * (Len(devList) - idx) + LeftOfIteration + 3 * (Len(prepared) + 1)
  BY RemainingInPrepare
<1>3. Remaining' = 8 * (Len(devList) - idx) + LeftOfIteration' + 3 * (Len(prepared) + 1)
  BY <1>1 DEF Remaining, PrepareSteps, CreateSteps
<1> QED
  BY <1>2, <1>3

LEMMA StepAdvances ==
  ASSUME TypeOK, TypeOK', Step \/ Abort
  PROVE  Remaining' \in 0..(Remaining - 1)
<1>1. CASE Check
  <2>1. pc \in PrepareSteps /\ "dump" \in PrepareSteps
    BY <1>1 DEF Check, PrepareSteps
  <2>2. Continue("dump", None) => LeftOfIteration' = LeftOfIteration - 1
    BY <1>1 DEF Check, Continue, LeftOfIteration
  <2> QED
    BY <1>1, <2>1, <2>2, SkipAdvances, ContinueAdvances DEF Check
<1>2. CASE ReadDump
  <2>1. pc \in PrepareSteps /\ "activation" \in PrepareSteps
    BY <1>2 DEF ReadDump, PrepareSteps
  <2>2. Continue("activation", dump[dev]) => LeftOfIteration' = LeftOfIteration - 1
    BY <1>2 DEF ReadDump, Continue, LeftOfIteration
  <2> QED
    BY <1>2, <2>1, <2>2, SkipAdvances, ContinueAdvances DEF ReadDump
<1>3. CASE ReadActivation
  <2>1. pc \in PrepareSteps /\ "rx" \in PrepareSteps
    BY <1>3 DEF ReadActivation, PrepareSteps
  <2>2. Continue("rx", draft) => LeftOfIteration' = LeftOfIteration - 1
    BY <1>3 DEF ReadActivation, Continue, LeftOfIteration
  <2> QED
    BY <1>3, <2>1, <2>2, SkipAdvances, ContinueAdvances DEF ReadActivation
<1>4. CASE ReadRX
  <2>1. pc \in PrepareSteps /\ "tx" \in PrepareSteps
    BY <1>4 DEF ReadRX, PrepareSteps
  <2>2. PICK s : Continue("tx", s)
    BY <1>4 DEF ReadRX
  <2>3. LeftOfIteration' = LeftOfIteration - 1
    BY <1>4, <2>2 DEF ReadRX, Continue, LeftOfIteration
  <2> QED
    BY <2>1, <2>2, <2>3, ContinueAdvances
<1>5. CASE ReadTX
  <2>1. pc = "tx" /\ pc \in PrepareSteps
    BY <1>5 DEF ReadTX, PrepareSteps
  <2> DEFINE p == Append(prepared, item)
  <2>2. NextDevice(p)
    BY <1>5 DEF ReadTX, found, item, GetLastFrameForDevEui
  <2>3. Len(p) = Len(prepared) + 1
    BY DEF TypeOK
  <2> HIDE DEF p
  <2> QED
    BY <2>1, <2>2, <2>3, NextDeviceAdvances
<1>6. CASE Index \/ IndexPending
  <2>1. /\ pc \in CreateSteps /\ pc' \in CreateSteps /\ pc' \notin PrepareSteps
        /\ LeftOfIteration' \in 1..(LeftOfIteration - 1) /\ UNCHANGED <<idx, prepared>>
    BY <1>6 DEF Index, IndexPending, AfterIndex, LeftOfIteration, PrepareSteps, CreateSteps
  <2>2. Remaining' = 3 * (Len(prepared) - idx) + LeftOfIteration'
    BY <2>1 DEF Remaining, CreateSteps
  <2> QED
    BY <2>1, <2>2, RemainingInCreate
<1>7. CASE Set
  <2>1. pc \in CreateSteps /\ pc # "idle" /\ LeftOfIteration = 1
    BY <1>7 DEF Set, LeftOfIteration, CreateSteps
  <2>2. CASE idx < Len(prepared) /\ pc' = "index" /\ idx' = idx + 1 /\ UNCHANGED prepared
    <3>1. pc' \in CreateSteps /\ pc' \notin PrepareSteps /\ LeftOfIteration' = 3
      BY <2>2 DEF LeftOfIteration, PrepareSteps, CreateSteps
    <3>2. Remaining' = 3 * (Len(prepared) - (idx + 1)) + 3
      BY <2>2, <3>1 DEF Remaining
    <3> QED
      BY <2>1, <2>2, <3>2, RemainingInCreate
  <2>3. CASE Exit
    BY <2>1, <2>3, ExitAdvances DEF Exit
  <2> QED
    BY <1>7, <2>2, <2>3 DEF Set, NextSession
<1>8. CASE Abort
  BY <1>8, ExitAdvances DEF Abort, Exit, Running, PrepareSteps, CreateSteps
<1> QED
  BY <1>1, <1>2, <1>3, <1>4, <1>5, <1>6, <1>7, <1>8 DEF Step

LEMMA StartRemaining ==
  ASSUME NEW l \in DevLists, Start(l), prepared = <<>>
  PROVE  Remaining' = 8 * Len(l)
<1>1. Len(l) \in Nat
  OBVIOUS
<1>2. /\ pc' = "check" /\ devList' = l /\ idx' = 1 /\ UNCHANGED prepared
      /\ pc' \in PrepareSteps /\ LeftOfIteration' = 5
  BY DEF Start, LeftOfIteration, PrepareSteps
<1>3. Len(prepared) = 0
  OBVIOUS
<1>4. Remaining' = 8 * (Len(l) - 1) + 5 + 3 * (Len(prepared) + 1)
  BY <1>2 DEF Remaining, PrepareSteps, CreateSteps
<1> QED
  BY <1>1, <1>3, <1>4

\* Nothing is prepared while no run is.
IdleIsEmpty == pc = "idle" => prepared = <<>>

LEMMA IdleIsEmptyStep == IdleIsEmpty /\ [Next]_vars => IdleIsEmpty'
BY DEF IdleIsEmpty, Next, Step, TakeDump, Start, Check, ReadDump, ReadActivation, ReadRX, ReadTX,
       Index, AfterIndex, IndexPending, Set, Abort, Network, Skip, Continue, NextDevice,
       NextSession, Exit, toolVars, vars

\* A run ends: every step of it and every error brings its end nearer, by a
\* number that starts at eight for each line of the file; nothing that the network
\* does meanwhile takes it further away.
THEOREM RunsComeToAnEnd == Spec => RunsAdvance
<1>1. Init => IdleIsEmpty
  BY DEF Init, IdleIsEmpty
<1>2. TypeOK /\ TypeOK' /\ IdleIsEmpty /\ [Next]_vars
      => [/\ \A l \in DevLists : Start(l) => Remaining' = 8 * Len(l)
          /\ Step \/ Abort => Remaining' \in 0..(Remaining - 1)
          /\ Network => Remaining' = Remaining]_vars
  <2> SUFFICES ASSUME TypeOK, TypeOK', IdleIsEmpty
               PROVE  /\ \A l \in DevLists : Start(l) => Remaining' = 8 * Len(l)
                      /\ Step \/ Abort => Remaining' \in 0..(Remaining - 1)
                      /\ Network => Remaining' = Remaining
    OBVIOUS
  <2>1. ASSUME NEW l \in DevLists, Start(l) PROVE Remaining' = 8 * Len(l)
    BY <2>1, StartRemaining DEF Start, IdleIsEmpty
  <2>2. Network => Remaining' = Remaining
    BY DEF Network, toolVars, Remaining, LeftOfIteration
  <2> QED
    BY <2>1, <2>2, StepAdvances
<1> QED
  BY <1>1, <1>2, IdleIsEmptyStep, TypeCorrect, PTL DEF Spec, RunsAdvance
=============================================================================
