----------------------- MODULE RestoreSessionsProofs -----------------------
(***************************************************************************)
(* Proofs about RestoreSessions, for any devices, input files, numbers of   *)
(* joins, frames and runs, and whatever happens during a run.               *)
(***************************************************************************)
EXTENDS RestoreSessions, NetworkServerProofs, SequenceTheorems

USE NetworkAssumption, RestoreAssumption

-----------------------------------------------------------------------------
(* Type correctness.                                                       *)

\* What TypeOK says of the tool's own variables.
HistoryTypeOK ==
    /\ faulted \in BOOLEAN
    /\ interrupted \subseteq DevEUIs
    /\ overtaken \subseteq DevEUIs /\ behind \subseteq DevEUIs

ToolTypeOK ==
    /\ pc \in PrepareSteps \union CreateSteps \union {"idle"}
    /\ devList \in DevLists \union {<<>>}
    /\ idx \in Nat
    /\ pc \in PrepareSteps => idx \in 1..Len(devList)
    /\ pc \in CreateSteps => idx \in 1..Len(prepared)
    /\ draft \in Draft
    /\ pc \in {"rx", "tx"} => draft.AppSKey \in Gens /\ draft.NwkKeys \in Gens
    /\ prepared \in Seq(Prepared)
    /\ runs \in 0..MaxRuns
    /\ HistoryTypeOK

USE DEF HistoryTypeOK, history

LEMMA TypeOKParts == TypeOK <=> NetworkTypeOK /\ ToolTypeOK
BY DEF TypeOK, ToolTypeOK

LEMMA NoDraftType == NoDraft \in Draft
BY DEF NoDraft, Draft, FCnts

\* The device of an iteration, and the session about to be saved.
LEMMA DevType ==
  ASSUME TypeOK, pc \in PrepareSteps
  PROVE  dev \in DevEUIs /\ devList \in Seq(DevEUIs) /\ idx \in 1..Len(devList)
<1>1. devList \in Seq(DevEUIs)
  BY EmptySeq DEF TypeOK
<1> QED
  BY <1>1 DEF TypeOK, dev

LEMMA TargetType ==
  ASSUME TypeOK, pc \in CreateSteps
  PROVE  target \in DevEUIs /\ toSave \in Session /\ idx \in DOMAIN prepared
<1>1. prepared \in Seq(Prepared) /\ idx \in 1..Len(prepared)
  BY DEF TypeOK
<1>2. prepared[idx] \in Prepared /\ idx \in DOMAIN prepared
  BY <1>1
<1> QED
  BY <1>2 DEF Prepared, target, toSave

\* Leaving an iteration of the first loop, with p the sessions prepared so far.
LEMMA NextDeviceType ==
  ASSUME TypeOK, pc \in PrepareSteps, NEW p \in Seq(Prepared), NextDevice(p),
         runs' \in 0..MaxRuns, HistoryTypeOK'
  PROVE  ToolTypeOK'
<1>1. idx \in 1..Len(devList) /\ Len(devList) \in Nat
  BY DevType DEF TypeOK
<1>2. CASE idx < Len(devList) /\ pc' = "as" /\ idx' = idx + 1 /\ prepared' = p
           /\ draft' = NoDraft /\ UNCHANGED devList
  BY <1>1, <1>2, NoDraftType DEF TypeOK, ToolTypeOK, PrepareSteps, CreateSteps
<1>3. CASE p # <<>> /\ pc' = "check" /\ idx' = 1 /\ prepared' = p
           /\ draft' = NoDraft /\ UNCHANGED devList
  <2>1. Len(p) \in Nat /\ Len(p) # 0
    BY <1>3, EmptySeq
  <2>2. 1 \in 1..Len(p)
    BY <2>1
  <2> QED
    BY <1>3, <2>2, NoDraftType DEF TypeOK, ToolTypeOK, PrepareSteps, CreateSteps
<1>4. CASE Exit
  BY <1>4, NoDraftType DEF Exit, ToolTypeOK, PrepareSteps, CreateSteps
<1> QED
  BY <1>2, <1>3, <1>4 DEF NextDevice

LEMMA NextSessionType ==
  ASSUME TypeOK, pc \in CreateSteps, NextSession,
         runs' \in 0..MaxRuns, HistoryTypeOK'
  PROVE  ToolTypeOK'
<1>1. idx \in 1..Len(prepared) /\ Len(prepared) \in Nat
  BY DEF TypeOK
<1>2. CASE idx < Len(prepared) /\ pc' = "check" /\ idx' = idx + 1
           /\ UNCHANGED <<devList, draft, prepared>>
  BY <1>1, <1>2 DEF TypeOK, ToolTypeOK, PrepareSteps, CreateSteps
<1>3. CASE Exit
  BY <1>3, NoDraftType DEF Exit, ToolTypeOK, PrepareSteps, CreateSteps
<1> QED
  BY <1>2, <1>3 DEF NextSession

\* A skipped iteration leaves the databases alone.
LEMMA SkipType ==
  ASSUME TypeOK, pc \in PrepareSteps, Skip PROVE TypeOK'
<1>1. ToolTypeOK'
  BY NextDeviceType DEF Skip, TypeOK
<1>2. NetworkTypeOK'
  BY DEF Skip, networkVars, keyVars, NetworkTypeOK, RowsTypeOK, TypeOK
<1> QED
  BY <1>1, <1>2, TypeOKParts DEF TypeOK, ToolTypeOK

LEMMA AssembleType ==
  ASSUME TypeOK, NEW d \in DevEUIs, NEW row \in TXRow, pc = "tx"
  PROVE  Assemble(d, row) \in Session
<1>1. draft \in Draft /\ draft.AppSKey \in Gens /\ draft.NwkKeys \in Gens
  BY DEF TypeOK
<1>2. Addr[d][draft.NwkKeys] \in DevAddrs
  BY <1>1
<1>3. 0 \in FCnts /\ row.NFCntDown + 1 \in FCnts /\ row.AFCntDown + 1 \in FCnts
  BY DEF TXRow, FCnts
<1>4. draft.FCntUp \in FCnts
  BY <1>1 DEF Draft
<1> QED
  BY <1>1, <1>2, <1>3, <1>4 DEF Assemble, Session

LEMMA FoundType ==
  ASSUME TypeOK, pc \in PrepareSteps, NEW next \in PrepareSteps, NEW r \in Draft,
         Found(next, r), next \in {"rx", "tx"} => r.AppSKey \in Gens /\ r.NwkKeys \in Gens
  PROVE  TypeOK'
<1>1. NetworkTypeOK'
  BY DEF Found, networkVars, keyVars, NetworkTypeOK, RowsTypeOK, TypeOK
<1>2. ToolTypeOK'
  BY DEF Found, ToolTypeOK, TypeOK, PrepareSteps, CreateSteps
<1> QED
  BY <1>1, <1>2, TypeOKParts DEF TypeOK, ToolTypeOK

LEMMA TypeOKStep == TypeOK /\ [Next]_vars => TypeOK'
<1> SUFFICES ASSUME TypeOK, [Next]_vars PROVE NetworkTypeOK' /\ ToolTypeOK'
  BY DEF TypeOK, ToolTypeOK
<1>1. ASSUME NEW l \in DevLists, Start(l) PROVE NetworkTypeOK' /\ ToolTypeOK'
  <2>1. l \in Seq(DevEUIs) /\ l # <<>>
    OBVIOUS
  <2>2. Len(l) \in Nat /\ Len(l) # 0
    BY <2>1, EmptySeq
  <2>3. 1 \in 1..Len(l) /\ runs' \in 0..MaxRuns /\ <<>> \in Seq(Prepared)
    BY <1>1, <2>2 DEF Start, TypeOK
  <2> QED
    BY <1>1, <2>3, NoDraftType
    DEF Start, TypeOK, ToolTypeOK, NetworkTypeOK, RowsTypeOK, networkVars, keyVars,
        PrepareSteps, CreateSteps
<1>2. CASE ReadAS
  <2>1. pc \in PrepareSteps /\ "ns" \in PrepareSteps
    BY <1>2 DEF ReadAS, PrepareSteps
  <2>2. [draft EXCEPT !.AppSKey = asDevice[dev]] \in Draft
    BY <2>1, DevType DEF TypeOK, NetworkTypeOK, RowsTypeOK, Draft
  <2> QED
    BY <1>2, <2>1, <2>2, FoundType, SkipType DEF ReadAS, TypeOK, ToolTypeOK
<1>3. CASE ReadNS
  <2>1. pc \in PrepareSteps /\ "profile" \in PrepareSteps /\ draft \in Draft
    BY <1>3 DEF ReadNS, PrepareSteps, TypeOK
  <2> QED
    BY <1>3, <2>1, FoundType, SkipType DEF ReadNS, TypeOK, ToolTypeOK
<1>3a. CASE ReadProfile
  <2>1. pc \in PrepareSteps /\ "activation" \in PrepareSteps /\ draft \in Draft
    BY <1>3a DEF ReadProfile, PrepareSteps, TypeOK
  <2> QED
    BY <1>3a, <2>1, FoundType, SkipType DEF ReadProfile, TypeOK, ToolTypeOK
<1>4. CASE ReadActivation
  <2>1. pc \in PrepareSteps /\ "rx" \in PrepareSteps /\ dev \in DevEUIs
    BY <1>4, DevType DEF ReadActivation, PrepareSteps
  <2>2. CASE Skip
    BY <2>1, <2>2, SkipType DEF TypeOK, ToolTypeOK
  <2>3. CASE /\ activation[dev] # 0 /\ draft.AppSKey # 0
             /\ Found("rx", [draft EXCEPT !.NwkKeys = activation[dev]])
    <3>1. activation[dev] \in Gens /\ draft.AppSKey \in Gens /\ draft \in Draft
      BY <2>1, <2>3 DEF TypeOK, NetworkTypeOK, RowsTypeOK, Draft, Gens
    <3>2. /\ [draft EXCEPT !.NwkKeys = activation[dev]] \in Draft
          /\ [draft EXCEPT !.NwkKeys = activation[dev]].AppSKey \in Gens
          /\ [draft EXCEPT !.NwkKeys = activation[dev]].NwkKeys \in Gens
      BY <3>1 DEF Draft, Gens
    <3> QED
      BY <2>1, <2>3, <3>2, FoundType DEF TypeOK, ToolTypeOK
  <2> QED
    BY <1>4, <2>2, <2>3 DEF ReadActivation, GetLastDeviceActivation
<1>5. CASE ReadRX
  <2>1. pc = "rx" /\ pc \in PrepareSteps /\ "tx" \in PrepareSteps /\ dev \in DevEUIs
    BY <1>5, DevType DEF ReadRX, PrepareSteps
  <2>2. CASE Skip
    BY <2>1, <2>2, SkipType DEF TypeOK, ToolTypeOK
  <2>3. CASE /\ lastRX[dev] # None
             /\ Found("tx", [draft EXCEPT !.FCntUp = lastRX[dev].FCntUp + 1])
    <3>1. lastRX[dev].FCntUp + 1 \in FCnts
      <4>1. lastRX[dev] \in RXRow
        BY <2>1, <2>3 DEF TypeOK, NetworkTypeOK, RowsTypeOK
      <4> QED
        BY <4>1 DEF RXRow, FCnts
    <3>2. /\ [draft EXCEPT !.FCntUp = lastRX[dev].FCntUp + 1] \in Draft
          /\ [draft EXCEPT !.FCntUp = lastRX[dev].FCntUp + 1].AppSKey \in Gens
          /\ [draft EXCEPT !.FCntUp = lastRX[dev].FCntUp + 1].NwkKeys \in Gens
      BY <2>1, <3>1 DEF TypeOK, Draft
    <3> QED
      BY <2>1, <2>3, <3>2, FoundType DEF TypeOK, ToolTypeOK
  <2> QED
    BY <1>5, <2>2, <2>3 DEF ReadRX, GetLastFrameForDevEui
<1>6. CASE ReadTX
  <2>1. pc = "tx" /\ pc \in PrepareSteps /\ dev \in DevEUIs
    BY <1>6, DevType DEF ReadTX, PrepareSteps
  <2>2. CASE Skip
    BY <2>1, <2>2, SkipType DEF TypeOK, ToolTypeOK
  <2> DEFINE q == Append(prepared, [DevEUI |-> dev, s |-> Assemble(dev, lastTX[dev])])
  <2>3. CASE /\ lastTX[dev] # None
             /\ NextDevice(q)
             /\ UNCHANGED <<networkVars, runs, history>>
    <3>1. lastTX[dev] \in TXRow
      BY <2>1, <2>3 DEF TypeOK, NetworkTypeOK, RowsTypeOK
    <3>2. [DevEUI |-> dev, s |-> Assemble(dev, lastTX[dev])] \in Prepared
      BY <2>1, <3>1, AssembleType DEF Prepared
    <3>3. q \in Seq(Prepared)
      BY <3>2 DEF TypeOK
    <3> HIDE DEF q
    <3>4. ToolTypeOK'
      BY <2>1, <2>3, <3>3, NextDeviceType DEF TypeOK
    <3>5. NetworkTypeOK'
      BY <2>3 DEF TypeOK, NetworkTypeOK, RowsTypeOK, networkVars, keyVars
    <3> QED
      BY <3>4, <3>5
  <2> QED
    BY <1>6, <2>2, <2>3 DEF ReadTX, GetLastFrameForDevEui
<1>7. CASE QueryFails
  <2>1. prepared \in Seq(Prepared)
    BY DEF TypeOK
  <2>2. ToolTypeOK'
    BY <1>7, <2>1, NextDeviceType DEF QueryFails, TypeOK
  <2> QED
    BY <1>7, <2>2 DEF QueryFails, TypeOK, NetworkTypeOK, RowsTypeOK, networkVars, keyVars
<1>8. CASE Check
  <2>1. pc \in CreateSteps
    BY <1>8 DEF Check, CreateSteps
  <2>2. NetworkTypeOK'
    BY <1>8 DEF Check, TypeOK, NetworkTypeOK, RowsTypeOK, networkVars, keyVars
  <2>3. CASE NextSession
    BY <1>8, <2>1, <2>2, <2>3, NextSessionType DEF Check, TypeOK
  <2>4. CASE pc' = "index" /\ UNCHANGED <<devList, idx, draft, prepared>>
    <3>1. UNCHANGED <<runs, history>>
      BY <1>8 DEF Check
    <3>2. idx \in 1..Len(prepared)
      BY <2>1 DEF TypeOK
    <3>3. ToolTypeOK'
      BY <2>4, <3>1, <3>2 DEF TypeOK, ToolTypeOK, PrepareSteps, CreateSteps
    <3> QED
      BY <2>2, <3>3
  <2> QED
    BY <1>8, <2>2, <2>3, <2>4 DEF Check
<1>9. CASE Index
  <2>1. pc \in CreateSteps
    BY <1>9 DEF Index, CreateSteps
  <2>2. target \in DevEUIs
    BY <2>1, TargetType
  <2>3. NetworkTypeOK'
    BY <1>9, <2>2 DEF Index, SAdd, TypeOK, NetworkTypeOK, RowsTypeOK
  <2> QED
    BY <1>9, <2>1, <2>3 DEF Index, TypeOK, ToolTypeOK, PrepareSteps, CreateSteps
<1>10. CASE Set
  <2>1. pc \in CreateSteps
    BY <1>10 DEF Set, CreateSteps
  <2>2. toSave \in Session
    BY <2>1, TargetType
  <2>3. NetworkTypeOK'
    BY <1>10, <2>2 DEF Set, SetSession, TypeOK, NetworkTypeOK, RowsTypeOK
  <2>4. behind' \subseteq DevEUIs
    BY <1>10, <2>1, TargetType DEF Set, FallsBehind, TypeOK
  <2> QED
    BY <1>10, <2>1, <2>3, <2>4 DEF Set, TypeOK, ToolTypeOK, PrepareSteps, CreateSteps
<1>11. CASE Flush
  <2>1. pc \in CreateSteps
    BY <1>11 DEF Flush, CreateSteps
  <2>2. NetworkTypeOK'
    BY <1>11 DEF Flush, FlushMACCommandQueue, keyVars, TypeOK, NetworkTypeOK, RowsTypeOK
  <2>3. runs' \in 0..MaxRuns /\ HistoryTypeOK'
    BY <1>11 DEF Flush, TypeOK
  <2> QED
    BY <1>11, <2>1, <2>2, <2>3, NextSessionType DEF Flush
<1>12. CASE Abort
  <2>1. interrupted' \subseteq DevEUIs
    <3>1. CASE pc = "flush"
      BY <1>12, <3>1, TargetType DEF Abort, CreateSteps, TypeOK
    <3>2. CASE pc # "flush"
      BY <1>12, <3>2 DEF Abort, TypeOK
    <3> QED
      BY <3>1, <3>2
  <2> QED
    BY <1>12, <2>1, NoDraftType
    DEF Abort, Exit, TypeOK, ToolTypeOK, NetworkTypeOK, RowsTypeOK, networkVars, keyVars,
        PrepareSteps, CreateSteps
<1>13. CASE Network
  <2>1. PICK d \in DevEUIs :
           /\ \/ Join(d) \/ LoseSession(d) \/ AppServerLearns(d) \/ UplinkAccepted(d)
              \/ UplinkDropped(d) \/ Downlink(d) \/ EnqueueMac(d)
           /\ UNCHANGED <<pc, devList, idx, draft, prepared, runs, faulted>>
           /\ interrupted' \in {interrupted, interrupted \ {d}}
           /\ behind' \in {behind, behind \ {d}}
           /\ overtaken' \in {overtaken, overtaken \union {d}}
    BY <1>13 DEF Network, Overtakes, toolVars
  <2>2. NetworkTypeOK'
    BY <2>1, NetworkActionTypes DEF TypeOK
  <2> QED
    BY <2>1, <2>2 DEF TypeOK, ToolTypeOK
<1>14. CASE UNCHANGED vars
  BY <1>14 DEF vars, toolVars, networkVars, keyVars, TypeOK, ToolTypeOK, NetworkTypeOK, RowsTypeOK
<1> QED
  BY <1>1, <1>2, <1>3, <1>3a, <1>4, <1>5, <1>6, <1>7, <1>8, <1>9, <1>10, <1>11, <1>12,
     <1>13, <1>14 DEF Next, Step

\* Every reachable state of a run, and of the databases under it, is well typed.
THEOREM TypeCorrect == Spec => []TypeOK
<1>1. Init => TypeOK
  <2>1. 0 \in FCnts /\ NoDraft \in Draft /\ <<>> \in Seq(Prepared)
    BY NoDraftType DEF FCnts
  <2>2. Init => NetworkTypeOK
    BY <2>1 DEF Init, NetworkInit, KeysInit, NetworkTypeOK, RowsTypeOK
  <2>3. Init => ToolTypeOK
    <3>1. 0 \in 0..MaxRuns /\ 0 \in Nat
      OBVIOUS
    <3>2. Init => pc = "idle" /\ devList = <<>> /\ idx = 0 /\ draft = NoDraft
                  /\ prepared = <<>> /\ runs = 0 /\ faulted = FALSE /\ interrupted = {}
                  /\ overtaken = {} /\ behind = {}
      BY DEF Init
    <3> QED
      BY <2>1, <3>1, <3>2 DEF ToolTypeOK, PrepareSteps, CreateSteps
  <2> QED
    BY <2>2, <2>3 DEF TypeOK, ToolTypeOK
<1> QED
  BY <1>1, TypeOKStep, PTL DEF Spec

HIDE DEF HistoryTypeOK, history

-----------------------------------------------------------------------------
(* The inductive invariant.                                                *)

LEMMA NoRekeyingPreserves ==
  ASSUME TypeOK, RestoreInv, NoRekeying, UNCHANGED <<pc, devList, idx, draft, prepared>>
  PROVE  RestoreInv'
<1>1. DraftFits' /\ PreparedFits'
  BY DEF RestoreInv, NoRekeying, DraftFits, PreparedFits, dev, OneActivation, NotNewer
<1>2. SessionFits'
  <2>1. \A d \in DevEUIs : session[d] # None => session[d].DevAddr \in DevAddrs
    BY DEF TypeOK, NetworkTypeOK, RowsTypeOK, Session
  <2> QED
    BY <2>1 DEF RestoreInv, NoRekeying, SessionFits, OneActivation, NotNewer
<1>3. GapUntilSet' /\ SetIsIndexed'
  <2> SUFFICES ASSUME pc \in {"index", "set"} PROVE GapUntilSet' /\ SetIsIndexed'
    BY DEF GapUntilSet, SetIsIndexed
  <2>1. target \in DevEUIs /\ toSave \in Session /\ idx \in DOMAIN prepared
    BY TargetType DEF CreateSteps
  <2>2. target' = target /\ toSave' = toSave
    BY DEF target, toSave
  <2>3. toSave.DevAddr \in DevAddrs /\ toSave.NwkKeys \in Gens
        /\ toSave.DevAddr = Addr[target][toSave.NwkKeys]
    BY <2>1 DEF RestoreInv, PreparedFits, OneActivation, target, toSave, Session
  <2>4. GapUntilSet'
    BY <2>1, <2>2 DEF RestoreInv, NoRekeying, GapUntilSet
  <2>5. session[target] # None => session[target].DevAddr # toSave.DevAddr
    <3> SUFFICES ASSUME session[target] # None,
                        session[target].DevAddr = toSave.DevAddr
                 PROVE  FALSE
      OBVIOUS
    <3>1. session[target].NwkKeys > toSave.NwkKeys
      BY DEF RestoreInv, GapUntilSet
    <3>2. session[target].NwkKeys \in Gens
          /\ session[target].DevAddr = Addr[target][session[target].NwkKeys]
      BY <2>1 DEF RestoreInv, SessionFits, OneActivation, TypeOK, NetworkTypeOK, RowsTypeOK, Session
    <3>3. session[target].NwkKeys = toSave.NwkKeys
      BY <2>1, <2>3, <3>2
    <3> QED
      BY <2>3, <3>1, <3>3 DEF Gens
  <2>6. SetIsIndexed'
    BY <2>1, <2>2, <2>3, <2>5 DEF RestoreInv, NoRekeying, SetIsIndexed
  <2> QED
    BY <2>4, <2>6
<1> QED
  BY <1>1, <1>2, <1>3 DEF RestoreInv

\* A join gives its device the newest keys and keeps older sets.
LEMMA JoinPreserves ==
  ASSUME TypeOK, RestoreInv, NEW d \in DevEUIs, Join(d),
         UNCHANGED <<pc, devList, idx, draft, prepared>>
  PROVE  RestoreInv'
<1> DEFINE g == activation[d] + 1
           s == [DevAddr |-> Addr[d][g], NwkKeys |-> g, AppSKey |-> g,
                 FCntUp |-> 0, NFCntDown |-> 0, AFCntDown |-> 0]
<1>1. g \in Gens /\ Addr[d][g] \in DevAddrs /\ activation[d] \in 0..MaxGen
  BY DEF Join, TypeOK, NetworkTypeOK, RowsTypeOK
<1>2. /\ session' = [session EXCEPT ![d] = s]
      /\ activation' = [activation EXCEPT ![d] = g]
      /\ devAddrSet' = [devAddrSet EXCEPT ![Addr[d][g]] = @ \union {d}]
  BY DEF Join, SetSession, SAdd
<1>3. s.NwkKeys = g /\ s.AppSKey = g /\ s.DevAddr = Addr[d][g]
  OBVIOUS
<1>4. \A e \in DevEUIs : \A n \in Gens : n <= activation[e] => n <= activation'[e]
  BY <1>1, <1>2 DEF TypeOK, NetworkTypeOK, RowsTypeOK, Gens
<1>5. \A a \in DevAddrs : devAddrSet[a] \subseteq devAddrSet'[a]
  BY <1>2 DEF TypeOK, NetworkTypeOK, RowsTypeOK
<1> HIDE DEF s
<1>6. DraftFits'
  <2> SUFFICES ASSUME pc \in {"rx", "tx"} PROVE DraftFits'
    BY DEF DraftFits
  <2>1. dev \in DevEUIs /\ draft.NwkKeys \in Gens
    BY DevType DEF PrepareSteps, TypeOK
  <2>2. dev' = dev
    BY DEF dev
  <2> QED
    BY <1>4, <2>1, <2>2 DEF RestoreInv, DraftFits
<1>7. PreparedFits'
  <2>1. ASSUME NEW i \in DOMAIN prepared
        PROVE  prepared[i].DevEUI \in DevEUIs /\ prepared[i].s.NwkKeys \in Gens
    <3>1. prepared[i] \in Prepared
      BY DEF TypeOK
    <3> QED
      BY <3>1 DEF Prepared, Session
  <2> QED
    BY <1>4, <2>1 DEF RestoreInv, PreparedFits, OneActivation, NotNewer
<1>8. SessionFits'
  <2> SUFFICES ASSUME NEW e \in DevEUIs, session'[e] # None
               PROVE  /\ OneActivation(e, session'[e])
                      /\ session'[e].NwkKeys <= activation'[e]
                      /\ e \in devAddrSet'[session'[e].DevAddr]
    BY DEF SessionFits, OneActivation, NotNewer
  <2>1. CASE e = d
    <3>1. session'[e] = s /\ activation'[e] = g
      BY <1>2, <2>1 DEF TypeOK, NetworkTypeOK, RowsTypeOK
    <3>2. d \in devAddrSet'[Addr[d][g]]
      BY <1>1, <1>2 DEF TypeOK, NetworkTypeOK, RowsTypeOK
    <3> QED
      BY <1>1, <1>3, <2>1, <3>1, <3>2 DEF OneActivation
  <2>2. CASE e # d
    <3>1. session'[e] = session[e] /\ activation'[e] = activation[e]
      BY <1>2, <2>2 DEF TypeOK, NetworkTypeOK, RowsTypeOK
    <3>2. session[e].DevAddr \in DevAddrs
      BY <3>1 DEF TypeOK, NetworkTypeOK, RowsTypeOK, Session
    <3> QED
      BY <1>5, <3>1, <3>2 DEF RestoreInv, SessionFits, NotNewer
  <2> QED
    BY <2>1, <2>2
<1>9. GapUntilSet' /\ SetIsIndexed'
  <2> SUFFICES ASSUME pc \in {"index", "set"} PROVE GapUntilSet' /\ SetIsIndexed'
    BY DEF GapUntilSet, SetIsIndexed
  <2>1. target \in DevEUIs /\ toSave \in Session /\ idx \in DOMAIN prepared
    BY TargetType DEF CreateSteps
  <2>2. target' = target /\ toSave' = toSave
    BY DEF target, toSave
  <2>3. toSave.NwkKeys \in Gens /\ toSave.NwkKeys <= activation[target]
    BY <2>1 DEF RestoreInv, PreparedFits, NotNewer, target, toSave, Session
  <2>4. SetIsIndexed'
    BY <1>5, <2>1, <2>2 DEF RestoreInv, SetIsIndexed, Session
  <2>5. CASE target = d
    <3>1. session'[target] = s
      BY <1>2, <2>5 DEF TypeOK, NetworkTypeOK, RowsTypeOK
    <3>2. g > toSave.NwkKeys
      BY <1>1, <2>3, <2>5 DEF Gens
    <3> QED
      BY <1>3, <2>2, <2>4, <3>1, <3>2 DEF GapUntilSet
  <2>6. CASE target # d
    <3>1. session'[target] = session[target]
      BY <1>2, <2>1, <2>6 DEF TypeOK, NetworkTypeOK, RowsTypeOK
    <3> QED
      BY <2>2, <2>4, <3>1 DEF RestoreInv, GapUntilSet
  <2> QED
    BY <2>5, <2>6
<1> QED
  BY <1>6, <1>7, <1>8, <1>9 DEF RestoreInv

\* Leaving an iteration of the first loop with sessions p, all of which fit.
LEMMA NextDevicePreserves ==
  ASSUME TypeOK, RestoreInv, UNCHANGED networkVars, NEW p, NextDevice(p),
         \A i \in DOMAIN p : /\ OneActivation(p[i].DevEUI, p[i].s)
                             /\ NotNewer(p[i].DevEUI, p[i].s)
  PROVE  RestoreInv'
<1>1. pc' \in {"as", "check", "idle"}
  BY DEF NextDevice, Exit
<1>2. prepared' = p \/ prepared' = <<>>
  BY DEF NextDevice, Exit
<1>3. DraftFits' /\ GapUntilSet' /\ SetIsIndexed'
  BY <1>1 DEF DraftFits, GapUntilSet, SetIsIndexed
<1>4. PreparedFits'
  BY <1>2 DEF PreparedFits, OneActivation, NotNewer, networkVars
<1>5. SessionFits'
  BY DEF RestoreInv, SessionFits, OneActivation, NotNewer, networkVars, keyVars
<1> QED
  BY <1>3, <1>4, <1>5 DEF RestoreInv

LEMMA SkipPreserves == ASSUME TypeOK, RestoreInv, Skip PROVE RestoreInv'
BY NextDevicePreserves DEF Skip, RestoreInv, PreparedFits

\* Leaving an iteration of the second loop.
LEMMA NextSessionPreserves ==
  ASSUME RestoreInv, NextSession, SessionFits', UNCHANGED activation
  PROVE  RestoreInv'
<1>1. pc' \in {"check", "idle"}
  BY DEF NextSession, Exit
<1>2. prepared' = prepared \/ prepared' = <<>>
  BY DEF NextSession, Exit
<1>3. DraftFits' /\ GapUntilSet' /\ SetIsIndexed'
  BY <1>1 DEF DraftFits, GapUntilSet, SetIsIndexed
<1>4. PreparedFits'
  BY <1>2 DEF RestoreInv, PreparedFits, OneActivation, NotNewer
<1> QED
  BY <1>3, <1>4 DEF RestoreInv

\* Going on to the next query, with a draft that fits.
LEMMA FoundPreserves ==
  ASSUME RestoreInv, NEW next \in PrepareSteps, NEW r, Found(next, r),
         next \in {"rx", "tx"} =>
            r.AppSKey = r.NwkKeys /\ r.NwkKeys <= activation[dev]
  PROVE  RestoreInv'
<1>1. DraftFits'
  BY DEF Found, DraftFits, dev, networkVars
<1>2. GapUntilSet' /\ SetIsIndexed'
  BY DEF Found, GapUntilSet, SetIsIndexed, PrepareSteps
<1>3. PreparedFits' /\ SessionFits'
  BY DEF Found, RestoreInv, PreparedFits, SessionFits, OneActivation, NotNewer,
         networkVars, keyVars
<1> QED
  BY <1>1, <1>2, <1>3 DEF RestoreInv

LEMMA RestoreInvStep == TypeOK /\ RestoreInv /\ [Next]_vars => RestoreInv'
<1> SUFFICES ASSUME TypeOK, RestoreInv, [Next]_vars PROVE RestoreInv'
  OBVIOUS
<1>1. ASSUME NEW l \in DevLists, Start(l) PROVE RestoreInv'
  <2>1. DraftFits' /\ GapUntilSet' /\ SetIsIndexed' /\ PreparedFits'
    BY <1>1 DEF Start, DraftFits, GapUntilSet, SetIsIndexed, PreparedFits
  <2>2. SessionFits'
    BY <1>1 DEF Start, RestoreInv, SessionFits, OneActivation, NotNewer, networkVars, keyVars
  <2> QED
    BY <2>1, <2>2 DEF RestoreInv
<1>2. CASE ReadAS
  BY <1>2, FoundPreserves, SkipPreserves DEF ReadAS, PrepareSteps
<1>3. CASE ReadNS
  BY <1>3, FoundPreserves, SkipPreserves DEF ReadNS, PrepareSteps
<1>3a. CASE ReadProfile
  BY <1>3a, FoundPreserves, SkipPreserves DEF ReadProfile, PrepareSteps
<1>4. CASE ReadActivation
  <2>1. CASE Skip
    BY <2>1, SkipPreserves
  <2>2. CASE /\ activation[dev] # 0 /\ draft.AppSKey # 0
             /\ Addr[dev][draft.AppSKey] = Addr[dev][activation[dev]]
             /\ Found("rx", [draft EXCEPT !.NwkKeys = activation[dev]])
    <3>1. dev \in DevEUIs /\ draft \in Draft
      BY <1>4, DevType DEF ReadActivation, PrepareSteps, TypeOK
    <3>2. activation[dev] \in Gens /\ draft.AppSKey \in Gens
      BY <2>2, <3>1 DEF TypeOK, NetworkTypeOK, RowsTypeOK, Draft, Gens
    <3>3. draft.AppSKey = activation[dev]
      BY <2>2, <3>1, <3>2
    <3>4. /\ [draft EXCEPT !.NwkKeys = activation[dev]].AppSKey = activation[dev]
          /\ [draft EXCEPT !.NwkKeys = activation[dev]].NwkKeys = activation[dev]
      BY <3>1, <3>3 DEF Draft
    <3>5. activation[dev] <= activation[dev]
      BY <3>2 DEF Gens
    <3> QED
      BY <2>2, <3>4, <3>5, FoundPreserves DEF PrepareSteps
  <2> QED
    BY <1>4, <2>1, <2>2 DEF ReadActivation, GetLastDeviceActivation
<1>5. CASE ReadRX
  <2>1. CASE Skip
    BY <2>1, SkipPreserves
  <2>2. CASE Found("tx", [draft EXCEPT !.FCntUp = lastRX[dev].FCntUp + 1])
    <3>1. pc = "rx" /\ draft \in Draft
      BY <1>5 DEF ReadRX, TypeOK
    <3>2. /\ [draft EXCEPT !.FCntUp = lastRX[dev].FCntUp + 1].AppSKey = draft.AppSKey
          /\ [draft EXCEPT !.FCntUp = lastRX[dev].FCntUp + 1].NwkKeys = draft.NwkKeys
      BY <3>1 DEF Draft
    <3>3. draft.AppSKey = draft.NwkKeys /\ draft.NwkKeys <= activation[dev]
      BY <3>1 DEF RestoreInv, DraftFits
    <3> QED
      BY <2>2, <3>2, <3>3, FoundPreserves DEF PrepareSteps
  <2> QED
    BY <1>5, <2>1, <2>2 DEF ReadRX, GetLastFrameForDevEui
<1>6. CASE ReadTX
  <2>1. CASE Skip
    BY <2>1, SkipPreserves
  <2> DEFINE e == [DevEUI |-> dev, s |-> Assemble(dev, lastTX[dev])]
  <2>2. CASE NextDevice(Append(prepared, e)) /\ UNCHANGED networkVars
    <3>1. pc = "tx" /\ prepared \in Seq(Prepared)
      BY <1>6 DEF ReadTX, TypeOK
    <3>2. draft.AppSKey = draft.NwkKeys /\ draft.NwkKeys <= activation[dev]
      BY <3>1 DEF RestoreInv, DraftFits
    <3>3. OneActivation(e.DevEUI, e.s) /\ NotNewer(e.DevEUI, e.s)
      BY <3>2 DEF OneActivation, NotNewer, Assemble
    <3>4. \A i \in DOMAIN prepared : /\ OneActivation(prepared[i].DevEUI, prepared[i].s)
                                    /\ NotNewer(prepared[i].DevEUI, prepared[i].s)
      BY DEF RestoreInv, PreparedFits
    <3> HIDE DEF e
    <3>5. \A i \in DOMAIN Append(prepared, e) :
             Append(prepared, e)[i] = e
             \/ (i \in DOMAIN prepared /\ Append(prepared, e)[i] = prepared[i])
      BY <3>1
    <3> QED
      BY <2>2, <3>3, <3>4, <3>5, NextDevicePreserves
  <2> QED
    BY <1>6, <2>1, <2>2 DEF ReadTX, GetLastFrameForDevEui
<1>7. CASE QueryFails
  BY <1>7, NextDevicePreserves DEF QueryFails, RestoreInv, PreparedFits
<1>8. CASE Check
  <2>1. SessionFits' /\ UNCHANGED <<networkVars, activation>>
    BY <1>8 DEF Check, RestoreInv, SessionFits, OneActivation, NotNewer, networkVars, keyVars
  <2>2. CASE NextSession
    BY <2>1, <2>2, NextSessionPreserves
  <2>3. CASE /\ session[target] = None /\ pc' = "index"
             /\ UNCHANGED <<devList, idx, draft, prepared>>
    <3>1. DraftFits' /\ GapUntilSet' /\ SetIsIndexed'
      BY <2>1, <2>3 DEF DraftFits, GapUntilSet, SetIsIndexed, target, networkVars, keyVars
    <3>2. PreparedFits'
      BY <2>1, <2>3 DEF RestoreInv, PreparedFits, OneActivation, NotNewer, networkVars
    <3> QED
      BY <2>1, <3>1, <3>2 DEF RestoreInv
  <2> QED
    BY <1>8, <2>2, <2>3 DEF Check, DoesNotExist
<1>9. CASE Index
  <2>1. target \in DevEUIs /\ toSave \in Session
    BY <1>9, TargetType DEF Index, CreateSteps
  <2>2. toSave.DevAddr \in DevAddrs
    BY <2>1 DEF Session
  <2>3. /\ target \in devAddrSet'[toSave.DevAddr]
        /\ \A a \in DevAddrs : devAddrSet[a] \subseteq devAddrSet'[a]
    BY <1>9, <2>1, <2>2 DEF Index, SAdd, TypeOK, NetworkTypeOK, RowsTypeOK
  <2>4. SessionFits'
    <3>1. \A d \in DevEUIs : session[d] # None => session[d].DevAddr \in DevAddrs
      BY DEF TypeOK, NetworkTypeOK, RowsTypeOK, Session
    <3> QED
      BY <1>9, <2>3, <3>1 DEF Index, RestoreInv, SessionFits, OneActivation, NotNewer
  <2>5. DraftFits' /\ PreparedFits'
    BY <1>9 DEF Index, RestoreInv, DraftFits, PreparedFits, OneActivation, NotNewer
  <2>6. GapUntilSet' /\ SetIsIndexed'
    BY <1>9, <2>3 DEF Index, RestoreInv, GapUntilSet, SetIsIndexed, target, toSave
  <2> QED
    BY <2>4, <2>5, <2>6 DEF RestoreInv
<1>10. CASE Set
  <2>1. target \in DevEUIs /\ idx \in DOMAIN prepared
    BY <1>10, TargetType DEF Set, CreateSteps
  <2>2. /\ OneActivation(target, toSave) /\ NotNewer(target, toSave)
        /\ target \in devAddrSet[toSave.DevAddr]
    BY <1>10, <2>1 DEF Set, RestoreInv, PreparedFits, SetIsIndexed, target, toSave
  <2>3. SessionFits'
    BY <1>10, <2>1, <2>2
    DEF Set, SetSession, RestoreInv, SessionFits, OneActivation, NotNewer, TypeOK, NetworkTypeOK, RowsTypeOK
  <2>4. DraftFits' /\ PreparedFits' /\ GapUntilSet' /\ SetIsIndexed'
    BY <1>10 DEF Set, RestoreInv, DraftFits, PreparedFits, GapUntilSet, SetIsIndexed,
                 OneActivation, NotNewer
  <2> QED
    BY <2>3, <2>4 DEF RestoreInv
<1>11. CASE Flush
  <2>1. SessionFits' /\ UNCHANGED activation
    BY <1>11 DEF Flush, RestoreInv, SessionFits, OneActivation, NotNewer, keyVars
  <2> QED
    BY <1>11, <2>1, NextSessionPreserves DEF Flush
<1>12. CASE Abort
  <2>1. SessionFits'
    BY <1>12 DEF Abort, RestoreInv, SessionFits, OneActivation, NotNewer, networkVars, keyVars
  <2>2. DraftFits' /\ PreparedFits' /\ GapUntilSet' /\ SetIsIndexed'
    BY <1>12 DEF Abort, Exit, DraftFits, PreparedFits, GapUntilSet, SetIsIndexed
  <2> QED
    BY <2>1, <2>2 DEF RestoreInv
<1>13. CASE Network
  <2>1. PICK d \in DevEUIs :
           /\ \/ Join(d)
              \/ LoseSession(d) \/ AppServerLearns(d) \/ UplinkAccepted(d)
              \/ UplinkDropped(d) \/ Downlink(d) \/ EnqueueMac(d)
           /\ UNCHANGED <<pc, devList, idx, draft, prepared>>
    BY <1>13 DEF Network, toolVars
  <2> QED
    BY <2>1, JoinPreserves, NetworkNoRekeying, NoRekeyingPreserves DEF TypeOK
<1>14. CASE UNCHANGED vars
  BY <1>14 DEF vars, toolVars, networkVars, keyVars, RestoreInv, DraftFits, PreparedFits,
               SessionFits, GapUntilSet, SetIsIndexed, OneActivation, NotNewer,
               dev, target, toSave
<1> QED
  BY <1>1, <1>2, <1>3, <1>3a, <1>4, <1>5, <1>6, <1>7, <1>8, <1>9, <1>10, <1>11, <1>12,
     <1>13, <1>14 DEF Next, Step

LEMMA RestoreInvInit == Init => RestoreInv
BY DEF Init, NetworkInit, KeysInit, RestoreInv, DraftFits, PreparedFits, SessionFits,
       GapUntilSet, SetIsIndexed

LEMMA RestoreInvAlways == Spec => [](TypeOK /\ RestoreInv)
BY RestoreInvInit, RestoreInvStep, TypeCorrect, PTL DEF Spec

\* What a run has read and prepared is of one activation, and between its check
\* and its save nothing but a newer session can have appeared.
THEOREM RunsStayInOrder == Spec => []RestoreInv
BY RestoreInvAlways, PTL

-----------------------------------------------------------------------------
(* The theorems.                                                           *)

\* However the two databases change while they are read, no session, prepared or
\* stored, mixes the address and keys of different activations.
THEOREM KeysAreOfOneActivation == Spec => []KeysFromOneActivation
<1>1. RestoreInv => KeysFromOneActivation
  BY DEF RestoreInv, PreparedFits, SessionFits, KeysFromOneActivation
<1> QED
  BY <1>1, RestoreInvAlways, PTL

\* Wherever runs stop, the network-server finds every session in Redis through
\* the set of its address.
THEOREM SessionsAreIndexed == Spec => []SessionIsIndexed
<1>1. RestoreInv => SessionIsIndexed
  BY DEF RestoreInv, SessionFits, SessionIsIndexed
<1> QED
  BY <1>1, RestoreInvAlways, PTL

\* A run never replaces a session of the activation it restores or of a newer one
\* it has seen: only a join between its check and its save can be overwritten.
THEOREM OnlyRacingJoinsAreOverwritten == Spec => OverwritesOnlyRacingJoin
<1>1. RestoreInv /\ [Next]_vars =>
         [pc = "set" /\ pc' = "flush" /\ session[target] # None =>
             session[target].NwkKeys > toSave.NwkKeys]_vars
  BY DEF RestoreInv, GapUntilSet
<1> QED
  BY <1>1, RestoreInvAlways, PTL DEF Spec, OverwritesOnlyRacingJoin

-----------------------------------------------------------------------------
(* Refinement of SessionLifecycle.                                         *)

\* What is prepared is of the newest activation; leaving an iteration keeps it.
LEMMA NextDeviceReadsNewest ==
  ASSUME pc \in PrepareSteps, NEW p, NextDevice(p), UNCHANGED activation,
         ~JoinsDuringRun =>
            \A i \in DOMAIN p : p[i].s.NwkKeys = activation[p[i].DevEUI]
  PROVE  ReadsNewest'
<1>1. \/ pc' \in {"as", "check"} /\ prepared' = p
      \/ pc' = "idle" /\ prepared' = <<>>
  BY DEF NextDevice, Exit
<1> QED
  BY <1>1 DEF ReadsNewest

LEMMA SkipReadsNewest ==
  ASSUME pc \in PrepareSteps, ReadsNewest, Skip PROVE ReadsNewest'
BY NextDeviceReadsNewest DEF Skip, ReadsNewest, networkVars

\* ReadsNewest is inductive relative to TypeOK.
LEMMA ReadsNewestStep == TypeOK /\ ReadsNewest /\ [Next]_vars => ReadsNewest'
<1> SUFFICES ASSUME TypeOK, ReadsNewest, [Next]_vars PROVE ReadsNewest'
  OBVIOUS
<1>1. ASSUME NEW l \in DevLists, Start(l) PROVE ReadsNewest'
  BY <1>1 DEF Start, ReadsNewest, networkVars
<1>2. CASE ReadAS \/ ReadNS \/ ReadProfile
  <2>1. pc \in PrepareSteps
    BY <1>2 DEF ReadAS, ReadNS, ReadProfile, PrepareSteps
  <2>2. CASE Skip
    BY <2>1, <2>2, SkipReadsNewest
  <2>3. CASE /\ pc' \in {"ns", "profile", "activation"}
             /\ UNCHANGED <<networkVars, devList, idx, prepared>>
    BY <2>1, <2>3 DEF ReadsNewest, networkVars, PrepareSteps
  <2> QED
    BY <1>2, <2>2, <2>3 DEF ReadAS, ReadNS, ReadProfile, Found
<1>3. CASE ReadActivation
  <2>1. pc \in PrepareSteps /\ draft \in Draft
    BY <1>3 DEF ReadActivation, PrepareSteps, TypeOK
  <2>2. CASE Skip
    BY <2>1, <2>2, SkipReadsNewest
  <2>3. CASE Found("rx", [draft EXCEPT !.NwkKeys = activation[dev]])
    <3>1. [draft EXCEPT !.NwkKeys = activation[dev]].NwkKeys = activation[dev]
      BY <2>1 DEF Draft
    <3> QED
      BY <2>1, <2>3, <3>1 DEF Found, ReadsNewest, networkVars, PrepareSteps, dev
  <2> QED
    BY <1>3, <2>2, <2>3 DEF ReadActivation
<1>4. CASE ReadRX
  <2>1. pc = "rx" /\ pc \in PrepareSteps /\ draft \in Draft
    BY <1>4 DEF ReadRX, PrepareSteps, TypeOK
  <2>2. CASE Skip
    BY <2>1, <2>2, SkipReadsNewest
  <2>3. CASE Found("tx", [draft EXCEPT !.FCntUp = lastRX[dev].FCntUp + 1])
    <3>1. [draft EXCEPT !.FCntUp = lastRX[dev].FCntUp + 1].NwkKeys = draft.NwkKeys
      BY <2>1 DEF Draft
    <3> QED
      BY <2>1, <2>3, <3>1 DEF Found, ReadsNewest, networkVars, PrepareSteps, dev
  <2> QED
    BY <1>4, <2>2, <2>3 DEF ReadRX
<1>5. CASE ReadTX
  <2>1. pc = "tx" /\ pc \in PrepareSteps /\ prepared \in Seq(Prepared)
    BY <1>5 DEF ReadTX, PrepareSteps, TypeOK
  <2>2. CASE Skip
    BY <2>1, <2>2, SkipReadsNewest
  <2> DEFINE e == [DevEUI |-> dev, s |-> Assemble(dev, lastTX[dev])]
  <2>3. CASE NextDevice(Append(prepared, e)) /\ UNCHANGED networkVars
    <3>1. ~JoinsDuringRun => e.s.NwkKeys = activation[e.DevEUI]
      BY <2>1 DEF ReadsNewest, Assemble
    <3> HIDE DEF e
    <3>2. \A i \in DOMAIN Append(prepared, e) :
             Append(prepared, e)[i] = e
             \/ (i \in DOMAIN prepared /\ Append(prepared, e)[i] = prepared[i])
      BY <2>1
    <3> QED
      BY <2>1, <2>3, <3>1, <3>2, NextDeviceReadsNewest DEF ReadsNewest, networkVars
  <2> QED
    BY <1>5, <2>2, <2>3 DEF ReadTX
<1>6. CASE QueryFails
  BY <1>6, NextDeviceReadsNewest DEF QueryFails, ReadsNewest, networkVars
<1>7. CASE Check \/ Flush
  <2>1. UNCHANGED activation
    BY <1>7 DEF Check, Flush, networkVars
  <2>2. CASE NextSession
    BY <2>1, <2>2 DEF NextSession, Exit, ReadsNewest
  <2>3. CASE pc' = "index" /\ UNCHANGED <<devList, idx, draft, prepared>>
    BY <1>7, <2>1, <2>3 DEF Check, Flush, ReadsNewest
  <2> QED
    BY <1>7, <2>2, <2>3 DEF Check, Flush
<1>8. CASE Index \/ Set
  BY <1>8 DEF Index, Set, ReadsNewest
<1>9. CASE Abort
  BY <1>9 DEF Abort, Exit, ReadsNewest
<1>10. CASE Network
  <2>1. CASE /\ activation' = activation
             /\ UNCHANGED <<pc, devList, idx, draft, prepared>>
    BY <2>1 DEF ReadsNewest, dev
  <2>2. CASE /\ JoinsDuringRun \/ ~Running
             /\ UNCHANGED <<pc, devList, idx, draft, prepared>>
    BY <2>2 DEF ReadsNewest, Running, PrepareSteps, CreateSteps, TypeOK
  <2> QED
    BY <1>10, <2>1, <2>2
    DEF Network, toolVars, LoseSession, AppServerLearns, UplinkAccepted,
        UplinkDropped, Downlink, EnqueueMac
<1>11. CASE UNCHANGED vars
  BY <1>11 DEF vars, toolVars, networkVars, ReadsNewest, dev
<1> QED
  BY <1>1, <1>2, <1>3, <1>4, <1>5, <1>6, <1>7, <1>8, <1>9, <1>10, <1>11
  DEF Next, Step

LEMMA ReadsNewestAlways == Spec => []ReadsNewest
<1>1. Init => ReadsNewest
  BY DEF Init, ReadsNewest
<1> QED
  BY <1>1, ReadsNewestStep, TypeCorrect, PTL DEF Spec

\* Steps that neither activate a device nor re-key a session stutter.
LEMMA SameSessionStutters ==
  ASSUME TypeOK, UNCHANGED <<activation, session>>
  PROVE  UNCHANGED Lifecycle!vars
BY DEF Lifecycle!vars

\* The SET of a prepared session fills a gap with the newest activation.
LEMMA SetIsRestore ==
  ASSUME TypeOK, RestoreInv, ReadsNewest, ~JoinsDuringRun, Set
  PROVE  \E d \in DevEUIs : Lifecycle!Restore(d)
<1>1. /\ target \in DevEUIs /\ toSave \in Session /\ idx \in DOMAIN prepared
      /\ pc = "set" /\ NetworkTypeOK
  BY TargetType DEF Set, CreateSteps, TypeOK
<1>2. toSave.NwkKeys \in Gens /\ toSave # None
  BY <1>1, NoneAssumption DEF Session
<1>3. toSave.NwkKeys = activation[target]
  BY <1>1 DEF ReadsNewest, toSave, target
<1>4. session[target] = None
  <2> SUFFICES ASSUME session[target] # None PROVE FALSE
    OBVIOUS
  <2>1. session[target].NwkKeys > toSave.NwkKeys
    BY <1>1 DEF RestoreInv, GapUntilSet
  <2>2. session[target].NwkKeys <= activation[target]
    BY <1>1 DEF RestoreInv, SessionFits, NotNewer
  <2>3. session[target].NwkKeys \in Gens
    BY <1>1 DEF NetworkTypeOK, RowsTypeOK, Session
  <2> QED
    BY <1>2, <1>3, <2>1, <2>2, <2>3 DEF Gens
<1>5. session' = [session EXCEPT ![target] = toSave] /\ activation' = activation
  BY DEF Set, SetSession
<1>6. current' = [current EXCEPT ![target] = activation[target]]
  BY <1>1, <1>2, <1>3, <1>5, SavedIsCurrent
<1>7. current[target] = 0 /\ activation[target] # 0
  BY <1>1, <1>2, <1>3, <1>4 DEF Gens, current
<1>8. PICK d \in DevEUIs : d = target
  BY <1>1
<1>9. Lifecycle!Restore(d)
  BY <1>5, <1>6, <1>7, <1>8 DEF Lifecycle!Restore, current
<1> QED
  BY <1>9

\* Each step of a run or of the network is one of SessionLifecycle, or stutters.
LEMMA StepMaps ==
  ASSUME TypeOK, RestoreInv, ReadsNewest, ~JoinsDuringRun, [Next]_vars
  PROVE  [Lifecycle!Next]_Lifecycle!vars
<1>1. CASE Set
  <2>1. \E d \in DevEUIs : Lifecycle!Restore(d)
    BY <1>1, SetIsRestore
  <2> QED
    BY <2>1 DEF Lifecycle!Next
<1>2. CASE UNCHANGED <<activation, session>>
  BY <1>2, SameSessionStutters
<1>3. CASE Network
  <2>1. PICK d \in DevEUIs :
           \/ Join(d) \/ LoseSession(d)
           \/ AppServerLearns(d) \/ UplinkAccepted(d) \/ UplinkDropped(d) \/ Downlink(d)
           \/ EnqueueMac(d)
    BY <1>3 DEF Network
  <2>2. NetworkTypeOK
    BY DEF TypeOK
  <2>3. CASE Join(d)
    <3>1. Lifecycle!Join(d)
      BY <2>2, <2>3, JoinIsCurrent DEF Lifecycle!Join, current
    <3> QED
      BY <3>1 DEF Lifecycle!Next
  <2>4. CASE LoseSession(d)
    <3>1. Lifecycle!Lose(d)
      BY <2>2, <2>4, LossIsCurrent DEF Lifecycle!Lose, current
    <3> QED
      BY <3>1 DEF Lifecycle!Next
  <2>5. CASE \/ AppServerLearns(d) \/ UplinkAccepted(d) \/ UplinkDropped(d) \/ Downlink(d)
             \/ EnqueueMac(d)
    BY <2>2, <2>5, CountingIsCurrent DEF Lifecycle!vars, current
  <2> QED
    BY <2>1, <2>3, <2>4, <2>5
<1> QED
  BY <1>1, <1>2, <1>3
  DEF Next, Step, Start, ReadAS, ReadNS, ReadProfile, ReadActivation, ReadRX, ReadTX,
      Skip, Found, QueryFails, Check, Index, Flush, Abort, networkVars, keyVars, vars

\* While no device joins during a run, restoring implements SessionLifecycle: it
\* only fills gaps, with the session of the newest activation.
THEOREM RestoreImplementsLifecycle == ~JoinsDuringRun => (Spec => RestoresOnlyNewest)
<1> SUFFICES ASSUME ~JoinsDuringRun PROVE Spec => RestoresOnlyNewest
  OBVIOUS
<1>1. Init => Lifecycle!Init
  BY DEF Init, NetworkInit, KeysInit, Lifecycle!Init
<1>2. TypeOK /\ RestoreInv /\ ReadsNewest /\ [Next]_vars => [Lifecycle!Next]_Lifecycle!vars
  BY StepMaps
<1> QED
  BY <1>1, <1>2, RestoreInvAlways, ReadsNewestAlways, PTL
  DEF Spec, RestoresOnlyNewest, Lifecycle!Spec

-----------------------------------------------------------------------------
(* Counters, whatever joins and is lost during a run: what a run has read   *)
(* about a device stays right until the device overtakes it, and then the   *)
(* session that is made of it puts the device among those behind.           *)

LogIsComplete == LogKept /\ LogComplete

\* What is read of device d now, or was read in this run, is right.
Sure(d) == d \notin overtaken /\ d \notin behind

\* Session s may be given to d.
MayBeSaved(d, s) ==
    /\ s.NwkKeys = activation[d]
    /\ LogIsComplete => IsFresh(d, s)
    /\ WithinReach(d, s)

InUseInv ==
    /\ \A d \in DevEUIs : LastFits(d)
    /\ \A d \in DevEUIs \ behind : DeviceReach(d) /\ (LogIsComplete => DeviceInUse(d))

DraftCounts ==
    /\ pc \in {"rx", "tx"} /\ Sure(dev) => draft.NwkKeys = activation[dev]
    /\ pc = "tx" /\ Sure(dev) =>
        /\ LogIsComplete => draft.FCntUp >= acceptedUp[dev]
        /\ WithinReach(dev, draft)

PreparedCounts ==
    \A i \in DOMAIN prepared :
        Sure(prepared[i].DevEUI) => MayBeSaved(prepared[i].DevEUI, prepared[i].s)

CountInv == InUseInv /\ DraftCounts /\ PreparedCounts

counted == <<session, activation, nextUp, acceptedUp, sentDown, lastRX, lastTX,
             overtaken, behind>>

LEMMA SameInUse == ASSUME InUseInv, UNCHANGED counted PROVE InUseInv'
BY DEF InUseInv, counted, DeviceInUse, IsFresh, LogIsFresh, DeviceReach, LastFits, WithinReach

LEMMA SameMayBeSaved ==
  ASSUME UNCHANGED counted, NEW d, NEW s, Sure(d) => MayBeSaved(d, s)
  PROVE  (Sure(d) => MayBeSaved(d, s))'
BY DEF MayBeSaved, Sure, counted, IsFresh, WithinReach

\* Leaving an iteration of the first loop with sessions p.
LEMMA NextDeviceCounts ==
  ASSUME CountInv, UNCHANGED counted, NEW p, NextDevice(p),
         \A i \in DOMAIN p : Sure(p[i].DevEUI) => MayBeSaved(p[i].DevEUI, p[i].s)
  PROVE  CountInv'
<1>1. \/ pc' \in {"as", "check"} /\ prepared' = p
      \/ pc' = "idle" /\ prepared' = <<>>
  BY DEF NextDevice, Exit
<1>2. PreparedCounts'
  BY <1>1, SameMayBeSaved DEF PreparedCounts
<1> QED
  BY <1>1, <1>2, SameInUse DEF CountInv, DraftCounts

LEMMA SkipCounts == ASSUME CountInv, Skip PROVE CountInv'
<1>1. UNCHANGED counted
  BY DEF Skip, networkVars, keyVars, history, counted
<1> QED
  BY <1>1, NextDeviceCounts DEF Skip, CountInv, PreparedCounts

LEMMA FoundCounts ==
  ASSUME CountInv, NEW next \in {"ns", "profile", "activation", "rx"}, NEW r, Found(next, r),
         next = "rx" => r.NwkKeys = activation[dev]
  PROVE  CountInv'
<1>1. UNCHANGED counted /\ UNCHANGED <<devList, idx, prepared>> /\ pc' = next /\ draft' = r
  BY DEF Found, networkVars, keyVars, history, counted
<1>2. PreparedCounts'
  BY <1>1, SameMayBeSaved DEF CountInv, PreparedCounts
<1> QED
  BY <1>1, <1>2, SameInUse DEF CountInv, DraftCounts, dev, counted

\* Steps of the second loop that save nothing.
LEMMA CreateCounts ==
  ASSUME CountInv, UNCHANGED counted,
         (prepared' = prepared /\ pc' \in CreateSteps) \/ Exit
  PROVE  CountInv'
<1>1. prepared' = prepared \/ prepared' = <<>>
  BY DEF Exit
<1>2. PreparedCounts'
  BY <1>1, SameMayBeSaved DEF CountInv, PreparedCounts
<1>3. DraftCounts'
  BY DEF Exit, DraftCounts, CreateSteps
<1> QED
  BY <1>2, <1>3, SameInUse DEF CountInv

LEMMA ReadActivationCounts == ASSUME TypeOK, CountInv, ReadActivation PROVE CountInv'
<1>1. CASE Skip
  BY <1>1, SkipCounts
<1> DEFINE r == [draft EXCEPT !.NwkKeys = activation[dev]]
<1>2. CASE Found("rx", r)
  <2>1. r.NwkKeys = activation[dev]
    BY DEF TypeOK, Draft
  <2> HIDE DEF r
  <2> QED
    BY <1>2, <2>1, FoundCounts
<1> QED
  BY <1>1, <1>2 DEF ReadActivation

\* The next counter after the last logged one is fresh, and within reach.
LEMMA ReadRXCounts == ASSUME TypeOK, CountInv, ReadRX PROVE CountInv'
<1>1. pc = "rx" /\ dev \in DevEUIs /\ draft \in Draft
  BY DevType DEF ReadRX, PrepareSteps, TypeOK
<1>2. CASE Skip
  BY <1>2, SkipCounts
<1> DEFINE r == [draft EXCEPT !.FCntUp = lastRX[dev].FCntUp + 1]
<1>3. CASE lastRX[dev] # None /\ Found("tx", r)
  <2>1. /\ UNCHANGED counted /\ UNCHANGED <<prepared, devList, idx>>
        /\ pc' = "tx" /\ draft' = r
    BY <1>3 DEF Found, networkVars, keyVars, history, counted
  <2>2. r.FCntUp = lastRX[dev].FCntUp + 1 /\ r.NwkKeys = draft.NwkKeys
    BY <1>1 DEF Draft
  <2>3. lastRX[dev] \in RXRow /\ acceptedUp[dev] \in Nat /\ nextUp[dev] \in Nat
    BY <1>1, <1>3 DEF TypeOK, NetworkTypeOK, RowsTypeOK, FCnts
  <2>4. LogIsComplete /\ Sure(dev) => r.FCntUp >= acceptedUp[dev]
    <3>1. LogIsComplete /\ Sure(dev) => LogIsFresh(dev)
      BY <1>1 DEF CountInv, InUseInv, DeviceInUse, Sure
    <3> QED
      BY <2>2, <2>3, <3>1 DEF LogIsFresh, RXRow
  <2>5. WithinReach(dev, r)
    BY <1>1, <1>3, <2>2, <2>3 DEF CountInv, InUseInv, LastFits, WithinReach, RXRow
  <2>6. Sure(dev) => r.NwkKeys = activation[dev]
    BY <1>1, <2>2 DEF CountInv, DraftCounts
  <2> HIDE DEF r
  <2>7. DraftCounts'
    BY <2>1, <2>4, <2>5, <2>6 DEF DraftCounts, WithinReach, Sure, counted, dev
  <2>8. PreparedCounts'
    BY <2>1, SameMayBeSaved DEF CountInv, PreparedCounts
  <2> QED
    BY <2>1, <2>7, <2>8, SameInUse DEF CountInv
<1> QED
  BY <1>2, <1>3 DEF ReadRX, GetLastFrameForDevEui

LEMMA ReadTXCounts == ASSUME TypeOK, CountInv, ReadTX PROVE CountInv'
<1>1. pc = "tx" /\ dev \in DevEUIs /\ draft \in Draft /\ prepared \in Seq(Prepared)
  BY DevType DEF ReadTX, PrepareSteps, TypeOK
<1>2. CASE Skip
  BY <1>2, SkipCounts
<1> DEFINE s == Assemble(dev, lastTX[dev])
           e == [DevEUI |-> dev, s |-> s]
<1>3. CASE /\ lastTX[dev] # None /\ NextDevice(Append(prepared, e))
           /\ UNCHANGED <<networkVars, history>>
  <2>1. UNCHANGED counted
    BY <1>3 DEF networkVars, keyVars, history, counted
  <2>2. /\ s.FCntUp = draft.FCntUp /\ s.NwkKeys = draft.NwkKeys
        /\ s.NFCntDown = IF dev \in Is11 THEN 0 ELSE lastTX[dev].NFCntDown + 1
        /\ s.AFCntDown = IF dev \in Is11 THEN lastTX[dev].AFCntDown + 1 ELSE 0
    BY DEF Assemble
  <2> HIDE DEF s
  <2>3. lastTX[dev] \in TXRow /\ sentDown[dev].A \in Nat /\ sentDown[dev].N \in Nat
    <3>1. lastTX[dev] \in TXRow /\ sentDown[dev] \in [N : FCnts, A : FCnts]
      BY <1>1, <1>3 DEF TypeOK, NetworkTypeOK, RowsTypeOK
    <3> QED
      BY <3>1 DEF FCnts
  <2>4. Sure(dev) => MayBeSaved(dev, s)
    <3> SUFFICES ASSUME Sure(dev) PROVE MayBeSaved(dev, s)
      OBVIOUS
    <3>1. /\ LogIsComplete => draft.FCntUp >= acceptedUp[dev]
          /\ WithinReach(dev, draft) /\ draft.NwkKeys = activation[dev]
      BY <1>1 DEF CountInv, DraftCounts
    <3>2. LogIsComplete => LogIsFresh(dev)
      BY <1>1 DEF CountInv, InUseInv, DeviceInUse, Sure
    <3> QED
      BY <2>2, <2>3, <3>1, <3>2 DEF MayBeSaved, IsFresh, LogIsFresh, WithinReach, TXRow
  <2>5. \A i \in DOMAIN Append(prepared, e) :
           Append(prepared, e)[i] = e
           \/ (i \in DOMAIN prepared /\ Append(prepared, e)[i] = prepared[i])
    BY <1>1
  <2> HIDE DEF e
  <2>6. e.DevEUI = dev /\ e.s = s
    BY DEF e
  <2>7. ASSUME NEW i \in DOMAIN Append(prepared, e),
               Sure(Append(prepared, e)[i].DevEUI)
        PROVE  MayBeSaved(Append(prepared, e)[i].DevEUI, Append(prepared, e)[i].s)
    BY <2>4, <2>5, <2>6, <2>7 DEF CountInv, PreparedCounts
  <2> QED
    BY <1>3, <2>1, <2>7, NextDeviceCounts
<1> QED
  BY <1>2, <1>3 DEF ReadTX, GetLastFrameForDevEui

\* Where GapUntilSet holds, saving what a device has overtaken puts it behind.
LEMMA SetCounts == ASSUME TypeOK, GapUntilSet, CountInv, Set PROVE CountInv'
<1>1. pc = "set" /\ target \in DevEUIs /\ toSave \in Session /\ idx \in DOMAIN prepared
  BY TargetType DEF Set, CreateSteps
<1>2. /\ session' = [session EXCEPT ![target] = toSave]
      /\ pc' = "flush" /\ prepared' = prepared /\ overtaken' = overtaken
      /\ UNCHANGED <<activation, nextUp, acceptedUp, sentDown, lastRX, lastTX>>
  BY DEF Set, SetSession
<1>3. /\ behind \subseteq behind'
      /\ target \in overtaken => target \in behind'
  BY <1>1 DEF Set, FallsBehind, GapUntilSet
<1>4. \A d \in DevEUIs : session'[d] = IF d = target THEN toSave ELSE session[d]
  BY <1>2 DEF TypeOK, NetworkTypeOK
<1>5. target \notin behind' => MayBeSaved(target, toSave)
  BY <1>1, <1>3 DEF CountInv, PreparedCounts, Sure, target, toSave
<1>6. InUseInv'
  <2>1. \A d \in DevEUIs : LastFits(d)'
    BY <1>2 DEF CountInv, InUseInv, LastFits
  <2>2. ASSUME NEW d \in DevEUIs \ behind'
        PROVE  DeviceReach(d)' /\ (LogIsComplete => DeviceInUse(d)')
    <3>1. DeviceReach(d) /\ (LogIsComplete => DeviceInUse(d))
      BY <1>3 DEF CountInv, InUseInv
    <3>2. CASE d = target
      BY <1>2, <1>4, <1>5, <2>2, <3>1, <3>2
      DEF MayBeSaved, DeviceReach, DeviceInUse, IsFresh, LogIsFresh, WithinReach
    <3>3. CASE d # target
      BY <1>2, <1>4, <3>1, <3>3
      DEF DeviceReach, DeviceInUse, IsFresh, LogIsFresh, WithinReach
    <3> QED
      BY <3>2, <3>3
  <2> QED
    BY <2>1, <2>2 DEF InUseInv, LogIsComplete
<1>7. PreparedCounts'
  BY <1>2, <1>3 DEF CountInv, PreparedCounts, Sure, MayBeSaved, IsFresh, WithinReach
<1> QED
  BY <1>2, <1>6, <1>7 DEF CountInv, DraftCounts

\* Frames, commands, joins and losses.
LEMMA NetworkCounts == ASSUME TypeOK, CountInv, Network PROVE CountInv'
<1>1. PICK d \in DevEUIs :
         /\ \/ Join(d) /\ Overtakes(d, {"rx", "tx"}) /\ behind' = behind \ {d}
            \/ UplinkAccepted(d) /\ Overtakes(d, {"tx"}) /\ behind' = behind
            \/ Downlink(d) /\ Overtakes(d, {}) /\ behind' = behind
            \/ /\ LoseSession(d) \/ AppServerLearns(d) \/ UplinkDropped(d) \/ EnqueueMac(d)
               /\ UNCHANGED <<overtaken, behind>>
         /\ UNCHANGED <<pc, devList, idx, draft, prepared>>
  BY DEF Network, toolVars, history
<1>2. NetworkTypeOK /\ NetworkTypeOK'
  BY <1>1, NetworkActionTypes DEF TypeOK
<1>3. /\ overtaken \subseteq overtaken'
      /\ \A e : e \notin behind' => e \notin behind \/ (e = d /\ Join(d))
  BY <1>1 DEF Overtakes
<1>4. InUseInv'
  <2>1. \A e \in DevEUIs : LastFits(e)'
    BY <1>1, <1>2, NetworkLastFits DEF CountInv, InUseInv
  <2>2. ASSUME NEW e \in DevEUIs \ behind'
        PROVE  DeviceReach(e)' /\ (LogIsComplete => DeviceInUse(e)')
    <3>1. \/ DeviceReach(e) /\ (LogIsComplete => DeviceInUse(e))
          \/ e = d /\ Join(d)
      BY <1>3 DEF CountInv, InUseInv
    <3>2. DeviceReach(e)'
      BY <1>1, <1>2, <3>1, NetworkDeviceReach DEF CountInv, InUseInv
    <3>3. LogIsComplete => DeviceInUse(e)'
      BY <1>1, <1>2, <3>1, NetworkDeviceInUse DEF LogIsComplete
    <3> QED
      BY <3>2, <3>3
  <2> QED
    BY <2>1, <2>2 DEF InUseInv, LogIsComplete
\* What was read of device e, up to its last uplink, is right and stays so.
<1> DEFINE Kept(e) == /\ Sure(e) /\ activation'[e] = activation[e]
                      /\ lastRX'[e] = lastRX[e] /\ acceptedUp'[e] = acceptedUp[e]
                      /\ nextUp[e] \in Nat /\ nextUp'[e] \in Nat /\ nextUp'[e] >= nextUp[e]
<1>5. DraftCounts'
  <2> SUFFICES ASSUME pc \in {"rx", "tx"}, Sure(dev)'
               PROVE  /\ draft.NwkKeys = activation'[dev]
                      /\ pc = "tx" => /\ LogIsComplete => draft.FCntUp >= acceptedUp'[dev]
                                      /\ WithinReach(dev, draft)'
    BY <1>1 DEF DraftCounts, dev, LogIsComplete
  <2>1. dev \in DevEUIs /\ draft.FCntUp \in Nat /\ dev' = dev
    BY <1>1, DevType DEF PrepareSteps, TypeOK, Draft, FCnts, dev
  <2>3. nextUp[dev] \in Nat
    BY <1>2, <2>1 DEF NetworkTypeOK, RowsTypeOK, FCnts
  <2>4. CASE Kept(dev)
    BY <1>1, <2>1, <2>4 DEF CountInv, DraftCounts, WithinReach
  <2>5. CASE dev = d /\ Join(d) /\ Overtakes(d, {"rx", "tx"})
    BY <2>1, <2>5 DEF Overtakes, Sure
  <2>6. CASE dev = d /\ UplinkAccepted(d) /\ Overtakes(d, {"tx"}) /\ behind' = behind
    <3>1. pc = "rx" /\ activation' = activation /\ Sure(dev)
      BY <1>3, <2>1, <2>6 DEF Overtakes, Sure, UplinkAccepted
    <3> QED
      BY <3>1 DEF CountInv, DraftCounts
  <2>7. CASE dev = d /\ Downlink(d) /\ behind' = behind
    <3>1. Kept(dev)
      BY <1>3, <2>1, <2>3, <2>7 DEF Downlink, Sure
    <3> QED
      BY <2>4, <3>1
  <2>8. CASE \/ dev # d /\ (Join(d) \/ UplinkAccepted(d) \/ Downlink(d))
             \/ /\ LoseSession(d) \/ AppServerLearns(d) \/ UplinkDropped(d) \/ EnqueueMac(d)
                /\ UNCHANGED <<overtaken, behind>>
    <3>1. Sure(dev)
      BY <1>3, <2>1, <2>8 DEF Sure
    <3>2. nextUp'[dev] \in Nat
      BY <1>2, <2>1 DEF NetworkTypeOK, RowsTypeOK, FCnts
    <3>3. Kept(dev)
      BY <1>2, <2>1, <2>3, <2>8, <3>1, <3>2, NetworkKeepsRead
    <3> QED
      BY <2>4, <3>3
  <2> HIDE DEF Kept
  <2> QED
    BY <1>1, <2>5, <2>6, <2>7, <2>8
<1>6. PreparedCounts'
  <2> SUFFICES ASSUME NEW i \in DOMAIN prepared, Sure(prepared[i].DevEUI)'
               PROVE  MayBeSaved(prepared[i].DevEUI, prepared[i].s)'
    BY <1>1 DEF PreparedCounts
  <2> DEFINE e == prepared[i].DevEUI
  <2>1. prepared' = prepared /\ e \in DevEUIs /\ prepared[i].s.FCntUp \in Nat
    <3>1. prepared[i] \in Prepared
      BY DEF TypeOK
    <3> QED
      BY <1>1, <3>1 DEF Prepared, Session, FCnts
  <2>2. e # d \/ LoseSession(d) \/ AppServerLearns(d) \/ UplinkDropped(d) \/ EnqueueMac(d)
    BY <1>1, <2>1 DEF Overtakes, Sure
  <2>3. Sure(e)
    BY <1>1, <2>1, <2>2 DEF Overtakes, Sure
  <2>4. /\ activation'[e] = activation[e] /\ lastRX'[e] = lastRX[e]
        /\ acceptedUp'[e] = acceptedUp[e] /\ sentDown'[e] = sentDown[e]
        /\ nextUp'[e] >= nextUp[e] /\ nextUp[e] \in Nat /\ nextUp'[e] \in Nat
    <3>1. nextUp[e] \in Nat /\ nextUp'[e] \in Nat
      BY <1>2, <2>1 DEF NetworkTypeOK, RowsTypeOK, FCnts
    <3> HIDE DEF e
    <3> QED
      BY <1>1, <1>2, <2>1, <2>2, <3>1, NetworkKeepsRead
  <2> QED
    BY <2>1, <2>3, <2>4 DEF CountInv, PreparedCounts, MayBeSaved, IsFresh, WithinReach
<1> QED
  BY <1>4, <1>5, <1>6 DEF CountInv

LEMMA CountInvStep == TypeOK /\ RestoreInv /\ CountInv /\ [Next]_vars => CountInv'
<1> SUFFICES ASSUME TypeOK, RestoreInv, CountInv, [Next]_vars PROVE CountInv'
  OBVIOUS
<1>1. ASSUME NEW l \in DevLists, Start(l) PROVE CountInv'
  <2>1. /\ UNCHANGED <<session, activation, nextUp, acceptedUp, sentDown, lastRX, lastTX, behind>>
        /\ pc' = "as" /\ prepared' = <<>>
    BY <1>1 DEF Start, networkVars, keyVars
  <2> QED
    BY <2>1
    DEF CountInv, InUseInv, DeviceInUse, IsFresh, LogIsFresh, DeviceReach, LastFits,
        WithinReach, DraftCounts, PreparedCounts
<1>2. CASE ReadAS \/ ReadNS \/ ReadProfile
  BY <1>2, SkipCounts, FoundCounts DEF ReadAS, ReadNS, ReadProfile
<1>2a. CASE ReadActivation
  BY <1>2a, ReadActivationCounts
<1>3. CASE ReadRX
  BY <1>3, ReadRXCounts
<1>4. CASE ReadTX
  BY <1>4, ReadTXCounts
<1>5. CASE QueryFails
  <2>1. UNCHANGED counted
    BY <1>5 DEF QueryFails, networkVars, keyVars, counted
  <2> QED
    BY <1>5, <2>1, NextDeviceCounts DEF QueryFails, CountInv, PreparedCounts
<1>6. CASE Check
  <2>1. UNCHANGED counted
    BY <1>6 DEF Check, networkVars, keyVars, history, counted
  <2> QED
    BY <1>6, <2>1, CreateCounts DEF Check, NextSession, CreateSteps
<1>7. CASE Index
  <2>1. UNCHANGED counted
    BY <1>7 DEF Index, history, counted
  <2> QED
    BY <1>7, <2>1, CreateCounts DEF Index, CreateSteps
<1>8. CASE Set
  BY <1>8, SetCounts DEF RestoreInv
<1>9. CASE Flush
  <2>1. UNCHANGED counted
    BY <1>9 DEF Flush, keyVars, counted
  <2> QED
    BY <1>9, <2>1, CreateCounts DEF Flush, NextSession, CreateSteps
<1>10. CASE Abort
  <2>1. UNCHANGED counted
    BY <1>10 DEF Abort, networkVars, keyVars, counted
  <2> QED
    BY <1>10, <2>1, CreateCounts DEF Abort
<1>11. CASE Network
  BY <1>11, NetworkCounts
<1>12. CASE UNCHANGED vars
  <2>1. UNCHANGED counted /\ UNCHANGED <<pc, devList, idx, draft, prepared>>
    BY <1>12 DEF vars, toolVars, networkVars, keyVars, history, counted
  <2> QED
    BY <2>1, SameInUse
    DEF CountInv, DraftCounts, PreparedCounts, MayBeSaved, IsFresh, WithinReach, Sure,
        dev, counted
<1> QED
  BY <1>1, <1>2, <1>2a, <1>3, <1>4, <1>5, <1>6, <1>7, <1>8, <1>9, <1>10, <1>11, <1>12
  DEF Next, Step

LEMMA CountInvAlways == Spec => [](TypeOK /\ CountInv)
<1>1. Init => CountInv
  <2> SUFFICES ASSUME Init PROVE CountInv
    OBVIOUS
  <2>1. /\ pc = "idle" /\ prepared = <<>>
        /\ \A d \in DevEUIs : /\ session[d] = None /\ lastRX[d] = None
                              /\ acceptedUp[d] = 0 /\ sentDown[d] = [N |-> 0, A |-> 0]
    BY DEF Init, NetworkInit, KeysInit
  <2> QED
    BY <2>1 DEF CountInv, InUseInv, DeviceInUse, LogIsFresh, DeviceReach, LastFits,
                DraftCounts, PreparedCounts
<1>2. TypeOK /\ RestoreInv /\ CountInv /\ [Next]_vars => CountInv'
  BY CountInvStep
<1> QED
  BY <1>1, <1>2, RestoreInvAlways, PTL DEF Spec

\* Whatever joins or is lost during the runs, a device that did not overtake what
\* was read of it has no session but that of its newest activation.
THEOREM SessionsAreNewest == Spec => []SessionIsNewest
<1>1. TypeOK /\ CountInv => SessionIsNewest
  BY DEF CountInv, InUseInv, DeviceReach, SessionIsNewest
<1> QED
  BY <1>1, CountInvAlways, PTL

\* Nor is an uplink counter of such a device accepted twice, if the log is
\* complete.
THEOREM UplinkCountersAreFresh == LogIsComplete => (Spec => []UplinkCounterFresh)
<1> SUFFICES ASSUME LogIsComplete PROVE Spec => []UplinkCounterFresh
  OBVIOUS
<1>1. TypeOK /\ CountInv => UplinkCounterFresh
  BY DEF CountInv, InUseInv, DeviceInUse, IsFresh, UplinkCounterFresh
<1> QED
  BY <1>1, CountInvAlways, PTL

\* Nor is a downlink counter sent twice, but for the NFCntDown of 1.1 devices.
THEOREM DownlinkCountersAreFresh == LogIsComplete => (Spec => []DownlinkCounterFresh)
<1> SUFFICES ASSUME LogIsComplete PROVE Spec => []DownlinkCounterFresh
  OBVIOUS
<1>1. TypeOK /\ CountInv => DownlinkCounterFresh
  BY DEF CountInv, InUseInv, DeviceInUse, IsFresh, DownlinkCounterFresh
<1> QED
  BY <1>1, CountInvAlways, PTL

\* Whether or not frames are missing from the log, a session locks its device out
\* only by the counter of a frame from before the last join, or when the device
\* overtook what was read of it.
THEOREM LockoutsAreFromOldFrames == Spec => []LockoutOnlyFromOldFrame
<1>1. TypeOK /\ CountInv => LockoutOnlyFromOldFrame
  <2> SUFFICES ASSUME TypeOK, CountInv, NEW d \in DevEUIs, session[d] # None,
                      d \notin behind, session[d].FCntUp > nextUp[d]
               PROVE  lastRX[d] # None /\ lastRX[d].gen < activation[d]
    BY DEF LockoutOnlyFromOldFrame
  <2>1. WithinReach(d, session[d])
    BY DEF CountInv, InUseInv, DeviceReach
  <2>2. session[d].FCntUp \in Nat /\ nextUp[d] \in Nat
    BY DEF TypeOK, NetworkTypeOK, RowsTypeOK, Session, FCnts
  <2> QED
    BY <2>1, <2>2 DEF WithinReach
<1> QED
  BY <1>1, CountInvAlways, PTL

-----------------------------------------------------------------------------
(* The queue.                                                              *)

\* Steps outside of the flush that touch neither sessions nor queues.
LEMMA QuietLeftovers ==
  ASSUME LeftoversOnlyAfterInterruption, pc # "flush", UNCHANGED <<session, macQueue, interrupted>>
  PROVE  LeftoversOnlyAfterInterruption'
BY DEF LeftoversOnlyAfterInterruption

LEMMA NetworkLeftovers ==
  ASSUME TypeOK, LeftoversOnlyAfterInterruption, Network
  PROVE  LeftoversOnlyAfterInterruption'
<1>1. PICK d \in DevEUIs :
         \/ Join(d) /\ interrupted' = interrupted \ {d}
         \/ /\ \/ LoseSession(d) \/ AppServerLearns(d) \/ UplinkAccepted(d)
               \/ UplinkDropped(d) \/ Downlink(d) \/ EnqueueMac(d)
            /\ UNCHANGED interrupted
  BY DEF Network, toolVars, history
<1>2. UNCHANGED pc /\ target' = target
  BY DEF Network, toolVars, target
<1>3. CASE Join(d) /\ interrupted' = interrupted \ {d}
  <2>1. macQueue'[d] = {} /\ \A e \in DevEUIs \ {d} : /\ macQueue'[e] = macQueue[e]
                                                     /\ session'[e] = session[e]
    BY <1>3 DEF Join, FlushMACCommandQueue, SetSession, TypeOK, NetworkTypeOK, RowsTypeOK
  <2> QED
    BY <1>2, <1>3, <2>1 DEF LeftoversOnlyAfterInterruption
<1>4. CASE LoseSession(d) /\ UNCHANGED interrupted
  <2>1. session'[d] = None /\ \A e \in DevEUIs \ {d} : /\ macQueue'[e] = macQueue[e]
                                                      /\ session'[e] = session[e]
    BY <1>4 DEF LoseSession, SetSession, TypeOK, NetworkTypeOK, RowsTypeOK
  <2> QED
    BY <1>2, <1>4, <2>1 DEF LeftoversOnlyAfterInterruption
<1>5. CASE EnqueueMac(d) /\ UNCHANGED interrupted
  <2>1. \A e \in DevEUIs : "leftover" \in macQueue'[e] => "leftover" \in macQueue[e]
    <3>1. macQueue' = [macQueue EXCEPT ![d] = macQueue[d] \union {"live"}]
      BY <1>5 DEF EnqueueMac
    <3>2. macQueue \in [DevEUIs -> SUBSET {"live", "leftover"}]
      BY DEF TypeOK, NetworkTypeOK, RowsTypeOK
    <3> QED
      BY <3>1, <3>2
  <2>2. UNCHANGED session
    BY <1>5 DEF EnqueueMac, keyVars
  <2> QED
    BY <1>2, <1>5, <2>1, <2>2 DEF LeftoversOnlyAfterInterruption
<1>6. CASE /\ AppServerLearns(d) \/ UplinkAccepted(d) \/ UplinkDropped(d) \/ Downlink(d)
           /\ UNCHANGED interrupted
  <2>1. UNCHANGED macQueue
    BY <1>6 DEF AppServerLearns, UplinkAccepted, UplinkDropped, Downlink
  <2>2. \A e \in DevEUIs : session[e] = None => session'[e] = None
    BY <1>6, NetworkOnlyWithSession DEF OnlyWithSession, TypeOK
  <2> QED
    BY <1>2, <1>6, <2>1, <2>2 DEF LeftoversOnlyAfterInterruption
<1> QED
  BY <1>1, <1>3, <1>4, <1>5, <1>6

LEMMA LeftoversStep ==
  TypeOK /\ LeftoversOnlyAfterInterruption /\ [Next]_vars => LeftoversOnlyAfterInterruption'
<1> SUFFICES ASSUME TypeOK, LeftoversOnlyAfterInterruption, [Next]_vars
             PROVE  LeftoversOnlyAfterInterruption'
  OBVIOUS
<1>1. ASSUME NEW l \in DevLists, Start(l) PROVE LeftoversOnlyAfterInterruption'
  BY <1>1, QuietLeftovers DEF Start, networkVars, keyVars
<1>2. CASE ReadAS \/ ReadNS \/ ReadProfile \/ ReadActivation \/ ReadRX \/ ReadTX \/ QueryFails
  <2>1. pc # "flush"
    BY <1>2
    DEF ReadAS, ReadNS, ReadProfile, ReadActivation, ReadRX, ReadTX, QueryFails, PrepareSteps
  <2>2. UNCHANGED <<session, macQueue, interrupted>>
    BY <1>2
    DEF ReadAS, ReadNS, ReadProfile, ReadActivation, ReadRX, ReadTX, QueryFails, Found, Skip,
        networkVars, keyVars, history
  <2> QED
    BY <2>1, <2>2, QuietLeftovers
<1>3. CASE Check \/ Index
  BY <1>3, QuietLeftovers DEF Check, Index, networkVars, keyVars, history
<1>4. CASE Set
  <2>1. pc = "set" /\ pc' = "flush" /\ target' = target
        /\ UNCHANGED <<macQueue, interrupted>>
    BY <1>4 DEF Set, target
  <2>2. \A d \in DevEUIs \ {target} : session'[d] = session[d]
    BY <1>4 DEF Set, SetSession, TypeOK, NetworkTypeOK, RowsTypeOK
  <2> QED
    BY <2>1, <2>2 DEF LeftoversOnlyAfterInterruption
<1>5. CASE Flush
  <2>1. /\ pc = "flush" /\ target \in DevEUIs /\ UNCHANGED session
        /\ interrupted' = interrupted \ {target}
    BY <1>5, TargetType DEF Flush, CreateSteps, keyVars
  <2>2. macQueue'[target] = {} /\ \A d \in DevEUIs \ {target} : macQueue'[d] = macQueue[d]
    BY <1>5, <2>1 DEF Flush, FlushMACCommandQueue, TypeOK, NetworkTypeOK, RowsTypeOK
  <2> QED
    BY <2>1, <2>2 DEF LeftoversOnlyAfterInterruption
<1>6. CASE Abort
  BY <1>6 DEF Abort, Exit, networkVars, keyVars, LeftoversOnlyAfterInterruption
<1>7. CASE Network
  BY <1>7, NetworkLeftovers
<1>8. CASE UNCHANGED vars
  BY <1>8
  DEF vars, networkVars, keyVars, toolVars, history, target, LeftoversOnlyAfterInterruption
<1> QED
  BY <1>1, <1>2, <1>3, <1>4, <1>5, <1>6, <1>7, <1>8 DEF Next, Step

\* Wherever runs stop, and even while devices join or lose their sessions, a
\* session inherits a queue only from a run that stopped between save and flush.
THEOREM QueuesAreFlushed == Spec => []LeftoversOnlyAfterInterruption
<1>1. Init => LeftoversOnlyAfterInterruption
  BY DEF Init, NetworkInit, KeysInit, LeftoversOnlyAfterInterruption
<1> QED
  BY <1>1, LeftoversStep, TypeCorrect, PTL DEF Spec

-----------------------------------------------------------------------------
(* No device of the list falls out of a run: the safety half of             *)
(* RestorableIsRestored.                                                   *)

\* Everything the tool needs to know about device d is there, and nothing failed.
Known(d) == Restorable(d) /\ ~faulted

\* The rows that make a device restorable.
knownBy == <<activation, asDevice, lastRX, lastTX>>

LEMMA SameKnown ==
  ASSUME NEW d, Known(d), UNCHANGED knownBy, ~faulted' PROVE Known(d)'
BY DEF Known, Restorable, knownBy

LEMMA NextDeviceAwaited ==
  ASSUME TypeOK, pc \in PrepareSteps, NEW p \in Seq(Prepared), NextDevice(p),
         NEW d \in DevEUIs, Known(d)',
         \/ \E i \in DOMAIN devList : i > idx /\ devList[i] = d
         \/ \E i \in DOMAIN p : p[i].DevEUI = d
  PROVE  Awaited(d)'
<1>1. idx \in 1..Len(devList) /\ devList \in Seq(DevEUIs)
  BY DevType
<1>2. CASE idx < Len(devList) /\ pc' = "as" /\ idx' = idx + 1 /\ prepared' = p
           /\ UNCHANGED devList
  <2>1. \A i \in DOMAIN devList : i > idx => i > idx' \/ i = idx'
    BY <1>1, <1>2
  <2> QED
    BY <1>2, <2>1 DEF Awaited, Known, PrepareSteps, dev
<1>3. CASE ~(idx < Len(devList))
  <2>1. \A i \in DOMAIN devList : ~(i > idx)
    BY <1>1, <1>3
  <2>2. PICK i \in DOMAIN p : p[i].DevEUI = d
    BY <2>1
  <2>3. p # <<>> /\ (i > 1 \/ i = 1)
    BY <2>2
  <2> QED
    BY <1>3, <2>2, <2>3 DEF NextDevice, Awaited, Known, CreateSteps
<1> QED
  BY <1>2, <1>3 DEF NextDevice

\* Device d is in the rest of the list or among the prepared sessions.
Coming(d) ==
    \/ \E i \in DOMAIN devList : i > idx /\ devList[i] = d
    \/ \E i \in DOMAIN prepared : prepared[i].DevEUI = d

\* This iteration is about device d, as it still is.
This(d) == dev = d /\ (pc \in {"ns", "profile", "activation"} => draft.AppSKey = asDevice[d])

LEMMA AwaitedInPrepare ==
  ASSUME NEW d, pc \in PrepareSteps
  PROVE  Awaited(d) <=> Known(d) /\ (Coming(d) \/ This(d))
BY DEF Awaited, Known, Coming, This, PrepareSteps, CreateSteps

LEMMA SkipAwaited ==
  ASSUME TypeOK, pc \in PrepareSteps, Skip, NEW d \in DevEUIs, Known(d), Coming(d)
  PROVE  Awaited(d)'
<1>1. prepared \in Seq(Prepared)
  BY DEF TypeOK
<1>2. Known(d)'
  BY SameKnown DEF Skip, Known, networkVars, history, knownBy
<1> QED
  BY <1>1, <1>2, NextDeviceAwaited DEF Skip, Coming

LEMMA FoundAwaited ==
  ASSUME NEW next \in PrepareSteps, NEW r, Found(next, r), NEW d \in DevEUIs, Known(d),
         \/ Coming(d)
         \/ dev = d /\ (next \in {"ns", "profile", "activation"} => r.AppSKey = asDevice[d])
  PROVE  Awaited(d)'
<1>1. /\ Known(d)' /\ UNCHANGED <<devList, idx, prepared, asDevice>>
      /\ pc' = next /\ draft' = r
  BY SameKnown DEF Found, Known, networkVars, history, knownBy
<1> QED
  BY <1>1 DEF Awaited, Known, Coming, dev

\* No query comes back without the row of a known device.
LEMMA ReadAwaited ==
  ASSUME TypeOK, NEW d \in DevEUIs, Awaited(d),
         ReadAS \/ ReadNS \/ ReadProfile \/ ReadActivation \/ ReadRX
  PROVE  Awaited(d)'
<1>1. pc \in PrepareSteps /\ {"ns", "profile", "activation", "rx", "tx"} \subseteq PrepareSteps
  BY DEF ReadAS, ReadNS, ReadProfile, ReadActivation, ReadRX, PrepareSteps
<1>2. Known(d) /\ (Coming(d) \/ This(d)) /\ draft \in Draft
  BY <1>1, AwaitedInPrepare DEF TypeOK
<1>3. CASE ReadAS
  <2> DEFINE r == [draft EXCEPT !.AppSKey = asDevice[dev]]
  <2>1. r.AppSKey = asDevice[dev]
    BY <1>2 DEF Draft
  <2>2. Found("ns", r) \/ (Skip /\ dev \notin ASDevices)
    BY <1>3 DEF ReadAS, GetDeviceFromAS
  <2> HIDE DEF r
  <2> QED
    BY <1>1, <1>2, <2>1, <2>2, SkipAwaited, FoundAwaited DEF This, Known, Restorable
<1>4. CASE ReadNS
  <2>1. pc = "ns" /\ (Found("profile", draft) \/ (Skip /\ dev \notin NSDevices))
    BY <1>4 DEF ReadNS, GetDeviceFromNS
  <2> QED
    BY <1>1, <1>2, <2>1, SkipAwaited, FoundAwaited DEF This, Known, Restorable
<1>5. CASE ReadProfile
  <2>1. pc = "profile" /\ (Found("activation", draft) \/ (Skip /\ dev \notin GoodProfiles))
    BY <1>5 DEF ReadProfile, GetDeviceProfileFromNS
  <2> QED
    BY <1>1, <1>2, <2>1, SkipAwaited, FoundAwaited DEF This, Known, Restorable
<1>6. CASE ReadActivation
  <2>1. /\ pc = "activation"
        /\ \/ \E r : Found("rx", r)
           \/ Skip /\ (activation[dev] = 0 \/ draft.AppSKey = 0 \/ draft.AppSKey # activation[dev])
    BY <1>6 DEF ReadActivation, GetLastDeviceActivation
  <2> QED
    BY <1>1, <1>2, <2>1, SkipAwaited, FoundAwaited DEF This, Known, Restorable
<1>7. CASE ReadRX
  <2>1. (\E r : Found("tx", r)) \/ (Skip /\ lastRX[dev] = None)
    BY <1>7 DEF ReadRX, GetLastFrameForDevEui
  <2> QED
    BY <1>1, <1>2, <2>1, SkipAwaited, FoundAwaited DEF This, Known, Restorable
<1> QED
  BY <1>3, <1>4, <1>5, <1>6, <1>7

\* The last query of an iteration puts the device among the prepared sessions.
LEMMA ReadTXAwaited ==
  ASSUME TypeOK, NEW d \in DevEUIs, Awaited(d), ReadTX PROVE Awaited(d)'
<1>1. pc = "tx" /\ pc \in PrepareSteps
  BY DEF ReadTX, PrepareSteps
<1>2. Known(d) /\ (Coming(d) \/ This(d))
  BY <1>1, AwaitedInPrepare
<1>3. CASE Skip /\ lastTX[dev] = None
  BY <1>1, <1>2, <1>3, SkipAwaited DEF This, Known, Restorable
<1>4. CASE lastTX[dev] # None
  <2> DEFINE s == Assemble(dev, lastTX[dev])
             e == [DevEUI |-> dev, s |-> s]
             p == Append(prepared, e)
  <2>1. lastTX[dev] \in TXRow /\ dev \in DevEUIs
    BY <1>1, <1>4, DevType DEF TypeOK, NetworkTypeOK, RowsTypeOK
  <2>2. s \in Session
    BY <1>1, <2>1, AssembleType
  <2>3. /\ NextDevice(p) /\ UNCHANGED <<networkVars, faulted>>
        /\ prepared \in Seq(Prepared)
    BY <1>4 DEF ReadTX, GetLastFrameForDevEui, history, TypeOK
  <2> HIDE DEF s
  <2>4. e \in Prepared /\ e.DevEUI = dev
    BY <2>1, <2>2 DEF Prepared
  <2> HIDE DEF e
  <2>5. /\ p \in Seq(Prepared)
        /\ \A i \in DOMAIN prepared : i \in DOMAIN p /\ p[i] = prepared[i]
        /\ Len(prepared) + 1 \in DOMAIN p /\ p[Len(prepared) + 1] = e
    BY <2>3, <2>4
  <2>6. \/ \E i \in DOMAIN devList : i > idx /\ devList[i] = d
        \/ \E i \in DOMAIN p : p[i].DevEUI = d
    BY <1>2, <2>4, <2>5 DEF Coming, This
  <2>7. Known(d)'
    BY <1>2, <2>3, SameKnown DEF Known, networkVars, knownBy
  <2> HIDE DEF p
  <2> QED
    BY <1>1, <2>3, <2>5, <2>6, <2>7, NextDeviceAwaited
<1> QED
  BY <1>3, <1>4 DEF ReadTX, GetLastFrameForDevEui

\* Leaving an iteration of the second loop, with the device of it restored.
LEMMA NextSessionAwaited ==
  ASSUME TypeOK, pc \in CreateSteps, NextSession, NEW d \in DevEUIs, Awaited(d), Known(d)',
         target # d \/ pc = "flush"
  PROVE  Awaited(d)'
<1>1. idx \in 1..Len(prepared) /\ prepared \in Seq(Prepared) /\ pc \notin PrepareSteps
  BY DEF TypeOK, PrepareSteps, CreateSteps
<1>2. PICK i \in DOMAIN prepared : prepared[i].DevEUI = d /\ i > idx
  BY <1>1 DEF Awaited, target
<1>3. idx < Len(prepared) /\ (i > idx + 1 \/ i = idx + 1)
  BY <1>1, <1>2
<1>4. pc' = "check" /\ idx' = idx + 1 /\ prepared' = prepared
  BY <1>3 DEF NextSession
<1> QED
  BY <1>2, <1>3, <1>4 DEF Awaited, Known, PrepareSteps, CreateSteps

LEMMA CreateAwaited ==
  ASSUME TypeOK, NEW d \in DevEUIs, Awaited(d), Check \/ Index \/ Set \/ Flush
  PROVE  Awaited(d)' \/ session'[d] # None
<1>1. pc \in CreateSteps /\ Known(d)
  BY DEF Check, Index, Set, Flush, CreateSteps, Awaited, Known
<1>2. Known(d)'
  BY <1>1, SameKnown DEF Check, Index, Set, Flush, networkVars, history, knownBy, Known
<1>3. CASE Check
  <2>1. UNCHANGED session
    BY <1>3 DEF Check, networkVars, keyVars
  <2>2. CASE pc' = "index" /\ UNCHANGED <<idx, prepared>>
    BY <1>2, <1>3, <2>2 DEF Check, Awaited, Known, PrepareSteps, CreateSteps
  <2> QED
    BY <1>1, <1>2, <1>3, <2>1, <2>2, NextSessionAwaited DEF Check, DoesNotExist
<1>4. CASE Index
  BY <1>2, <1>4 DEF Index, Awaited, Known, PrepareSteps, CreateSteps
<1>5. CASE Set
  <2>1. target \in DevEUIs /\ toSave # None /\ pc = "set"
    BY <1>1, <1>5, TargetType, NoneAssumption DEF Set
  <2>2. CASE target = d
    BY <1>5, <2>1, <2>2 DEF Set, SetSession, TypeOK, NetworkTypeOK
  <2>3. CASE target # d
    BY <1>2, <1>5, <2>3 DEF Set, Awaited, Known, target, PrepareSteps, CreateSteps
  <2> QED
    BY <2>2, <2>3
<1>6. CASE Flush
  BY <1>1, <1>2, <1>6, NextSessionAwaited DEF Flush
<1> QED
  BY <1>3, <1>4, <1>5, <1>6

LEMMA NetworkAwaited ==
  ASSUME TypeOK, NEW d \in DevEUIs, Awaited(d), Network
  PROVE  Awaited(d)' \/ session'[d] # None
<1>1. PICK e \in DevEUIs :
         \/ Join(e) \/ LoseSession(e) \/ AppServerLearns(e) \/ UplinkAccepted(e)
         \/ UplinkDropped(e) \/ Downlink(e) \/ EnqueueMac(e)
  BY DEF Network
<1>2. UNCHANGED <<pc, devList, idx, draft, prepared, faulted>> /\ NetworkTypeOK
  BY DEF Network, toolVars, history, TypeOK
<1>3. CASE Join(e) /\ e = d
  <2>1. session'[d] \in Session
    BY <1>2, <1>3, NetworkActionTypes DEF Join, SetSession, NetworkTypeOK, Session, FCnts
  <2> QED
    BY <2>1, NoneAssumption
<1>4. CASE ~(Join(e) /\ e = d)
  <2>1. activation'[d] = activation[d]
    BY <1>1, <1>2, <1>4, NetworkNoRekeying DEF Join, NoRekeying, NetworkTypeOK, RowsTypeOK
  <2>2. asDevice'[d] = asDevice[d]
    BY <1>1, <1>2
    DEF Join, LoseSession, AppServerLearns, UplinkAccepted, UplinkDropped, Downlink, EnqueueMac,
        Awaited, Restorable, NetworkTypeOK, RowsTypeOK
  <2>3. (lastRX[d] # None => lastRX'[d] # None) /\ (lastTX[d] # None => lastTX'[d] # None)
    BY <1>1, <1>2, NetworkKeepsRows
  <2>4. Restorable(d)' /\ dev' = dev
    BY <1>2, <2>1, <2>2, <2>3 DEF Awaited, Restorable, dev
  <2> QED
    BY <1>2, <2>2, <2>4 DEF Awaited
<1> QED
  BY <1>3, <1>4

LEMMA AwaitedStep ==
  ASSUME TypeOK, Next, NEW d \in DevEUIs, Awaited(d)
  PROVE  Awaited(d)' \/ session'[d] # None \/ faulted'
<1>1. pc # "idle"
  BY DEF Awaited, PrepareSteps, CreateSteps
<1>2. CASE Step
  BY <1>2, ReadAwaited, ReadTXAwaited, CreateAwaited DEF Step
<1>3. CASE QueryFails \/ Abort
  BY <1>3 DEF QueryFails, Abort
<1> QED
  BY <1>1, <1>2, <1>3, NetworkAwaited DEF Next, Start

\* Whatever joins, is logged, learnt or lost meanwhile, however often a device is
\* listed and whatever the rest of the list is like, no step of a run loses a device
\* that it is still to restore.
THEOREM NoRestorableIsPassedOver == Spec => NoneIsPassedOver
<1>1. TypeOK /\ [Next]_vars
      => [\A d \in DevEUIs :
             Awaited(d) => Awaited(d)' \/ session'[d] # None \/ faulted']_vars
  BY AwaitedStep
<1> QED
  BY <1>1, TypeCorrect, PTL DEF Spec, NoneIsPassedOver

\* It has every restorable device of its list before it when it starts.
LEMMA StartAwaits ==
  ASSUME NEW d \in DevEUIs, pc = "as", idx = 1, ~faulted, Restorable(d), devList \in Seq(DevEUIs),
         \E i \in DOMAIN devList : devList[i] = d
  PROVE  Awaited(d)
<1>1. \A i \in DOMAIN devList : i > idx \/ i = idx
  OBVIOUS
<1> QED
  BY <1>1 DEF Awaited, PrepareSteps, dev

-----------------------------------------------------------------------------
(* A run comes to its end: with NoneIsPassedOver, what the fairness of Step  *)
(* turns into RestorableIsRestored.                                         *)

LEMMA LeftType ==
  ASSUME TypeOK, pc # "idle"
  PROVE  /\ LeftOfIteration \in 1..6
         /\ pc \in CreateSteps => LeftOfIteration \in 1..4
<1>1. pc \in CreateSteps => LeftOfIteration \in 1..4
  BY DEF LeftOfIteration, CreateSteps
<1>2. pc \in PrepareSteps => LeftOfIteration \in 1..6
  BY DEF LeftOfIteration, PrepareSteps
<1> QED
  BY <1>1, <1>2 DEF TypeOK

LEMMA RemainingInPrepare ==
  ASSUME TypeOK, pc \in PrepareSteps
  PROVE  /\ idx \in 1..Len(devList) /\ Len(devList) \in Nat /\ Len(prepared) \in Nat
         /\ LeftOfIteration \in 1..6
         /\ Remaining = 10 * (Len(devList) - idx) + LeftOfIteration + 4 * (Len(prepared) + 1)
<1>1. pc # "idle" /\ pc \notin CreateSteps
  BY DEF PrepareSteps, CreateSteps
<1>2. idx \in 1..Len(devList) /\ Len(devList) \in Nat /\ Len(prepared) \in Nat
  BY DevType DEF TypeOK
<1> QED
  BY <1>1, <1>2, LeftType DEF Remaining

LEMMA RemainingInCreate ==
  ASSUME TypeOK, pc \in CreateSteps
  PROVE  /\ idx \in 1..Len(prepared) /\ Len(prepared) \in Nat
         /\ LeftOfIteration \in 1..4
         /\ Remaining = 4 * (Len(prepared) - idx) + LeftOfIteration
<1>1. pc # "idle" /\ pc \notin PrepareSteps
  BY DEF PrepareSteps, CreateSteps
<1>2. idx \in 1..Len(prepared) /\ Len(prepared) \in Nat
  BY DEF TypeOK
<1> QED
  BY <1>1, <1>2, LeftType DEF Remaining

LEMMA ExitAdvances ==
  ASSUME TypeOK, pc # "idle", pc' = "idle"
  PROVE  Remaining' \in 0..(Remaining - 1)
<1>1. Remaining' = 0
  BY DEF Remaining, PrepareSteps, CreateSteps
<1>2. CASE pc \in PrepareSteps
  BY <1>1, <1>2, RemainingInPrepare
<1>3. CASE pc \in CreateSteps
  BY <1>1, <1>3, RemainingInCreate
<1> QED
  BY <1>2, <1>3 DEF TypeOK

\* The next device of the list, with at most one prepared session more.
LEMMA NextDeviceAdvances ==
  ASSUME TypeOK, TypeOK', pc \in PrepareSteps, NEW p, NextDevice(p),
         Len(p) = Len(prepared) \/ (pc = "tx" /\ Len(p) = Len(prepared) + 1)
  PROVE  Remaining' \in 0..(Remaining - 1)
<1> DEFINE n == Len(prepared)
<1>1. /\ idx \in 1..Len(devList) /\ Len(devList) \in Nat /\ n \in Nat
      /\ LeftOfIteration \in 1..6
      /\ Remaining = 10 * (Len(devList) - idx) + LeftOfIteration + 4 * (n + 1)
  BY RemainingInPrepare
<1>2. CASE idx < Len(devList) /\ pc' = "as" /\ idx' = idx + 1 /\ prepared' = p
           /\ UNCHANGED devList
  <2>1. pc' \in PrepareSteps /\ LeftOfIteration' = 6
    BY <1>2 DEF LeftOfIteration, PrepareSteps
  <2>2. Remaining' = 10 * (Len(devList) - (idx + 1)) + 6 + 4 * (Len(p) + 1)
    BY <1>2, <2>1 DEF Remaining, PrepareSteps, CreateSteps
  <2> QED
    BY <1>1, <1>2, <2>2
<1>3. CASE idx = Len(devList) /\ pc' = "check" /\ idx' = 1 /\ prepared' = p
  <2>1. pc' \in CreateSteps /\ pc' \notin PrepareSteps /\ LeftOfIteration' = 4
    BY <1>3 DEF LeftOfIteration, PrepareSteps, CreateSteps
  <2>2. Len(p) \in Nat /\ 1 \in 1..Len(p)
    BY <1>3, <2>1 DEF TypeOK
  <2>3. Remaining' = 4 * (Len(p) - 1) + 4
    BY <1>3, <2>1 DEF Remaining
  <2> QED
    BY <1>1, <1>3, <2>2, <2>3
<1>4. CASE Exit
  <2>1. pc # "idle"
    BY DEF PrepareSteps
  <2> QED
    BY <1>4, <2>1, ExitAdvances DEF Exit
<1> QED
  BY <1>2, <1>3, <1>4 DEF NextDevice

LEMMA SkipAdvances ==
  ASSUME TypeOK, TypeOK', pc \in PrepareSteps, Skip
  PROVE  Remaining' \in 0..(Remaining - 1)
BY NextDeviceAdvances DEF Skip

LEMMA FoundAdvances ==
  ASSUME TypeOK, TypeOK', NEW next \in PrepareSteps, NEW r, Found(next, r),
         pc \in PrepareSteps, LeftOfIteration' = LeftOfIteration - 1
  PROVE  Remaining' \in 0..(Remaining - 1)
<1>1. UNCHANGED <<devList, idx, prepared>> /\ pc' \in PrepareSteps
  BY DEF Found
<1>2. /\ idx \in 1..Len(devList) /\ Len(devList) \in Nat /\ Len(prepared) \in Nat
      /\ LeftOfIteration \in 1..6
      /\ Remaining = 10 * (Len(devList) - idx) + LeftOfIteration + 4 * (Len(prepared) + 1)
  BY RemainingInPrepare
<1>3. Remaining' = 10 * (Len(devList) - idx) + LeftOfIteration' + 4 * (Len(prepared) + 1)
  BY <1>1 DEF Remaining, PrepareSteps, CreateSteps
<1> QED
  BY <1>2, <1>3

LEMMA ReadAdvances ==
  ASSUME TypeOK, TypeOK', ReadAS \/ ReadNS \/ ReadProfile \/ ReadActivation \/ ReadRX
  PROVE  Remaining' \in 0..(Remaining - 1)
<1>1. pc \in PrepareSteps
  BY DEF ReadAS, ReadNS, ReadProfile, ReadActivation, ReadRX, PrepareSteps
<1>2. CASE Skip
  BY <1>1, <1>2, SkipAdvances
<1>3. CASE ~Skip
  <2>1. PICK r : \/ pc = "as" /\ Found("ns", r)
                 \/ pc = "ns" /\ Found("profile", r)
                 \/ pc = "profile" /\ Found("activation", r)
                 \/ pc = "activation" /\ Found("rx", r)
                 \/ pc = "rx" /\ Found("tx", r)
    BY <1>3 DEF ReadAS, ReadNS, ReadProfile, ReadActivation, ReadRX
  <2>2. LeftOfIteration' = LeftOfIteration - 1
    BY <2>1 DEF Found, LeftOfIteration
  <2> QED
    BY <1>1, <2>1, <2>2, FoundAdvances DEF PrepareSteps
<1> QED
  BY <1>2, <1>3

LEMMA NextSessionAdvances ==
  ASSUME TypeOK, TypeOK', pc \in CreateSteps, NextSession
  PROVE  Remaining' \in 0..(Remaining - 1)
<1>1. CASE idx < Len(prepared) /\ pc' = "check" /\ idx' = idx + 1 /\ UNCHANGED prepared
  <2>1. pc' \in CreateSteps /\ pc' \notin PrepareSteps /\ LeftOfIteration' = 4
    BY <1>1 DEF LeftOfIteration, PrepareSteps, CreateSteps
  <2>2. Remaining' = 4 * (Len(prepared) - (idx + 1)) + 4
    BY <1>1, <2>1 DEF Remaining
  <2> QED
    BY <1>1, <2>2, RemainingInCreate
<1>2. CASE Exit
  <2>1. pc # "idle"
    BY DEF CreateSteps
  <2> QED
    BY <1>2, <2>1, ExitAdvances DEF Exit
<1> QED
  BY <1>1, <1>2 DEF NextSession

LEMMA StepAdvances ==
  ASSUME TypeOK, TypeOK', Step \/ QueryFails \/ Abort
  PROVE  Remaining' \in 0..(Remaining - 1)
<1>1. CASE ReadAS \/ ReadNS \/ ReadProfile \/ ReadActivation \/ ReadRX
  BY <1>1, ReadAdvances
<1>2. CASE ReadTX
  <2>1. pc = "tx" /\ pc \in PrepareSteps
    BY <1>2 DEF ReadTX, PrepareSteps
  <2> DEFINE p == Append(prepared, [DevEUI |-> dev, s |-> Assemble(dev, lastTX[dev])])
  <2>2. NextDevice(p) \/ Skip
    BY <1>2 DEF ReadTX
  <2>3. Len(p) = Len(prepared) + 1
    BY DEF TypeOK
  <2> HIDE DEF p
  <2> QED
    BY <2>1, <2>2, <2>3, NextDeviceAdvances, SkipAdvances
<1>3. CASE QueryFails
  BY <1>3, NextDeviceAdvances DEF QueryFails
<1>4. CASE Index \/ Set \/ (Check /\ ~NextSession)
  <2>1. /\ pc \in CreateSteps /\ pc' \in CreateSteps /\ pc' \notin PrepareSteps
        /\ LeftOfIteration' = LeftOfIteration - 1 /\ UNCHANGED <<idx, prepared>>
    BY <1>4 DEF Index, Set, Check, LeftOfIteration, PrepareSteps, CreateSteps
  <2>2. Remaining' = 4 * (Len(prepared) - idx) + LeftOfIteration'
    BY <2>1 DEF Remaining, CreateSteps
  <2> QED
    BY <2>1, <2>2, RemainingInCreate
<1>5. CASE (Check /\ NextSession) \/ Flush
  <2>1. pc \in CreateSteps /\ NextSession
    BY <1>5 DEF Check, Flush, CreateSteps
  <2> QED
    BY <2>1, NextSessionAdvances
<1>6. CASE Abort
  BY <1>6, ExitAdvances DEF Abort, Exit, Running, PrepareSteps, CreateSteps
<1> QED
  BY <1>1, <1>2, <1>3, <1>4, <1>5, <1>6 DEF Step

LEMMA StartRemaining ==
  ASSUME NEW l \in DevLists, Start(l)
  PROVE  Remaining' = 10 * Len(l)
<1>1. Len(l) \in Nat /\ Len(<<>>) = 0
  OBVIOUS
<1>2. /\ pc' = "as" /\ devList' = l /\ idx' = 1 /\ prepared' = <<>>
      /\ pc' \in PrepareSteps /\ LeftOfIteration' = 6
  BY DEF Start, LeftOfIteration, PrepareSteps
<1>3. Remaining' = 10 * (Len(l) - 1) + 6 + 4 * (Len(<<>>) + 1)
  BY <1>2 DEF Remaining, PrepareSteps, CreateSteps
<1> QED
  BY <1>1, <1>3

\* A run ends: every step of it, every failed query and every error brings its end
\* nearer, by a number that starts at ten for each line of the file, and whatever
\* the network does meanwhile leaves it where it is.
THEOREM RunsComeToAnEnd == Spec => RunsAdvance
<1>1. TypeOK /\ TypeOK' /\ [Next]_vars
      => [/\ \A l \in DevLists : Start(l) => Remaining' = 10 * Len(l)
          /\ Step \/ QueryFails \/ Abort => Remaining' \in 0..(Remaining - 1)
          /\ Network => Remaining' = Remaining]_vars
  <2> SUFFICES ASSUME TypeOK, TypeOK'
               PROVE  /\ \A l \in DevLists : Start(l) => Remaining' = 10 * Len(l)
                      /\ Step \/ QueryFails \/ Abort => Remaining' \in 0..(Remaining - 1)
                      /\ Network => Remaining' = Remaining
    OBVIOUS
  <2>1. Network => Remaining' = Remaining
    BY DEF Network, toolVars, Remaining, LeftOfIteration
  <2> QED
    BY <2>1, StartRemaining, StepAdvances
<1> QED
  BY <1>1, TypeCorrect, PTL DEF Spec, RunsAdvance
=============================================================================
