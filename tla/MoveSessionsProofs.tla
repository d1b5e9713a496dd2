------------------------- MODULE MoveSessionsProofs -------------------------
(***************************************************************************)
(* Proofs about MoveSessions, for any devices of either MAC version, lists, *)
(* increases, defects, joins, frames, exports and imports.                  *)
(***************************************************************************)
EXTENDS MoveSessions, TLAPS, SequenceTheorems

USE NetworkAssumption, MoveAssumption

-----------------------------------------------------------------------------
(* Type correctness.                                                       *)

PlatformTypeOK ==
    /\ RowsTypeOK
    /\ session \in [DevEUIs -> Imported \union {None}]

\* What TypeOK says of the tool's own variables, but for the history.
RunTypeOK ==
    /\ pc \in ImportSteps \union {"idle", "read", "write", "parse"}
    /\ list \in ExportLists \union {<<>>}
    /\ rows \in Seq(Row) /\ (pc = "parse" => rows # <<>>)
    /\ idx \in Nat
    /\ pc = "read" => idx \in 1..Len(list)
    /\ pc \in ImportSteps => idx \in 1..Len(rows)
    /\ toSave \in Imported \union {None}
    /\ pc \in {"index", "set"} => toSave \in Imported
    /\ files \subseteq Seq(Row) \ {<<>>}
    /\ exports \in 0..MaxExports /\ imports \in 0..MaxImports
    /\ stopped \in BOOLEAN

HistoryTypeOK ==
    /\ interrupted \subseteq DevEUIs /\ spoilt \subseteq DevEUIs
    /\ outrun \in [DevEUIs -> SUBSET Counters]

LEMMA TypeOKParts == TypeOK <=> PlatformTypeOK /\ RunTypeOK /\ HistoryTypeOK
BY DEF TypeOK, PlatformTypeOK, RunTypeOK, HistoryTypeOK

\* The network's actions keep the databases well typed.
LEMMA NetworkActionTypes ==
  ASSUME PlatformTypeOK, NEW d \in DevEUIs,
         \/ Join(d) \/ LoseSession(d) \/ UplinkAccepted(d) \/ UplinkDropped(d)
         \/ Downlink(d) \/ EnqueueMac(d)
  PROVE  PlatformTypeOK'
<1>1. CASE Join(d)
  <2> DEFINE g == activation[d] + 1
             s == [DevAddr |-> Addr[d][g], NwkKeys |-> g, AppSKey |-> g,
                   FCntUp |-> 0, NFCntDown |-> 0, AFCntDown |-> 0]
  <2>1. g \in Gens /\ Addr[d][g] \in DevAddrs /\ 0 \in FCnts
    BY <1>1 DEF Join, FCnts
  <2>2. s \in Imported /\ g \in 0..MaxGen
    BY <2>1 DEF Imported, Gens
  <2>3. session' = [session EXCEPT ![d] = s] /\ activation' = [activation EXCEPT ![d] = g]
    BY <1>1 DEF Join, SetSession
  <2> HIDE DEF g, s
  <2> QED
    BY <1>1, <2>1, <2>2, <2>3
    DEF Join, SAdd, FlushMACCommandQueue, PlatformTypeOK, RowsTypeOK
<1>2. CASE LoseSession(d)
  BY <1>2 DEF LoseSession, SetSession, PlatformTypeOK, RowsTypeOK
<1>3. CASE UplinkAccepted(d)
  <2>1. nextUp[d] \in 0..MaxFCnt /\ nextUp[d] + 1 \in FCnts /\ session[d] \in Imported
    BY <1>3 DEF UplinkAccepted, HasUsableSession, PlatformTypeOK, RowsTypeOK, FCnts
  <2>2. [session[d] EXCEPT !.FCntUp = nextUp[d] + 1] \in Imported
    BY <2>1 DEF Imported
  <2>3. activation[d] \in Gens
    BY <1>3 DEF UplinkAccepted, HasUsableSession, PlatformTypeOK, RowsTypeOK, Gens
  <2>4. lastRX' \in [DevEUIs -> RXRow \union {None}]
    BY <1>3, <2>1, <2>3 DEF UplinkAccepted, Logged, RXRow, PlatformTypeOK, RowsTypeOK
  <2> QED
    BY <1>3, <2>1, <2>2, <2>4 DEF UplinkAccepted, PlatformTypeOK, RowsTypeOK
<1>4. CASE UplinkDropped(d)
  <2>1. nextUp[d] + 1 \in FCnts
    BY <1>4 DEF UplinkDropped, PlatformTypeOK, RowsTypeOK, FCnts
  <2> QED
    BY <1>4, <2>1 DEF UplinkDropped, keyVars, PlatformTypeOK, RowsTypeOK
<1>5. CASE Downlink(d)
  <2>1. session[d] \in Imported /\ session[d].NwkKeys \in Gens
    BY <1>5 DEF Downlink, HasUsableSession, PlatformTypeOK, RowsTypeOK, Gens, Imported
  <2>2. sentDown[d] \in [N : FCnts, A : FCnts]
    BY DEF PlatformTypeOK, RowsTypeOK
  <2>3. /\ session[d].NFCntDown \in 0..MaxFCnt /\ session[d].AFCntDown \in 0..MaxFCnt
        /\ session[d].NFCntDown + 1 \in FCnts /\ session[d].AFCntDown + 1 \in FCnts
    BY <1>5, <2>1 DEF Downlink, Imported, FCnts
  <2>4. session' \in [DevEUIs -> Imported \union {None}]
        /\ sentDown' \in [DevEUIs -> [N : FCnts, A : FCnts]]
    <3>1. CASE /\ session' = [session EXCEPT ![d] = [session[d] EXCEPT !.AFCntDown = @ + 1]]
               /\ sentDown' = [sentDown EXCEPT ![d] =
                                  [sentDown[d] EXCEPT !.A = session[d].AFCntDown + 1]]
      <4>1. /\ [session[d] EXCEPT !.AFCntDown = @ + 1] \in Imported
            /\ [sentDown[d] EXCEPT !.A = session[d].AFCntDown + 1] \in [N : FCnts, A : FCnts]
        BY <2>1, <2>2, <2>3 DEF Imported
      <4> QED
        BY <3>1, <4>1 DEF PlatformTypeOK, RowsTypeOK
    <3>2. CASE /\ session' = [session EXCEPT ![d] = [session[d] EXCEPT !.NFCntDown = @ + 1]]
               /\ sentDown' = [sentDown EXCEPT ![d] =
                                  [sentDown[d] EXCEPT !.N = session[d].NFCntDown + 1]]
      <4>1. /\ [session[d] EXCEPT !.NFCntDown = @ + 1] \in Imported
            /\ [sentDown[d] EXCEPT !.N = session[d].NFCntDown + 1] \in [N : FCnts, A : FCnts]
        BY <2>1, <2>2, <2>3 DEF Imported
      <4> QED
        BY <3>2, <4>1 DEF PlatformTypeOK, RowsTypeOK
    <3> QED
      BY <1>5, <3>1, <3>2 DEF Downlink
  <2>5. lastTX' \in [DevEUIs -> TXRow \union {None}]
    <3> DEFINE row0 == [gen |-> session[d].NwkKeys, NFCntDown |-> session[d].NFCntDown,
                        AFCntDown |-> session[d].AFCntDown]
    <3>1. row0 \in TXRow
      BY <2>1, <2>3 DEF TXRow
    <3>2. PICK r \in Logged(lastTX[d], row0) : lastTX' = [lastTX EXCEPT ![d] = r]
      BY <1>5 DEF Downlink
    <3>3. r \in TXRow \union {None}
      BY <3>1, <3>2 DEF Logged, PlatformTypeOK, RowsTypeOK
    <3> QED
      BY <3>2, <3>3 DEF PlatformTypeOK, RowsTypeOK
  <2> QED
    BY <1>5, <2>4, <2>5 DEF Downlink, PlatformTypeOK, RowsTypeOK
<1>6. CASE EnqueueMac(d)
  BY <1>6 DEF EnqueueMac, keyVars, PlatformTypeOK, RowsTypeOK
<1> QED
  BY <1>1, <1>2, <1>3, <1>4, <1>5, <1>6

LEMMA NetworkTypes ==
  ASSUME TypeOK, Network
  PROVE  TypeOK'
<1>1. PICK d \in DevEUIs :
         /\ Join(d) \/ LoseSession(d) \/ UplinkAccepted(d) \/ UplinkDropped(d)
            \/ Downlink(d) \/ EnqueueMac(d)
         /\ \/ UNCHANGED toolVars
            \/ /\ interrupted' = interrupted \ {d}
               /\ outrun' = [outrun EXCEPT ![d] = {}]
               /\ UNCHANGED <<pc, list, rows, idx, toSave, files, runVars, spoilt>>
  BY DEF Network
<1>2. PlatformTypeOK'
  BY <1>1, NetworkActionTypes, TypeOKParts
<1>3. RunTypeOK'
  BY <1>1, TypeOKParts DEF RunTypeOK, toolVars, runVars
<1>4. HistoryTypeOK'
  BY <1>1, TypeOKParts DEF HistoryTypeOK, toolVars
<1> QED
  BY <1>2, <1>3, <1>4, TypeOKParts DEF TypeOK, PlatformTypeOK, RunTypeOK, HistoryTypeOK

\* An iteration of the import: its row.
LEMMA RowType ==
  ASSUME TypeOK, pc \in ImportSteps
  PROVE  /\ idx \in 1..Len(rows) /\ Len(rows) \in Nat
         /\ row \in Row /\ target \in DevEUIs /\ row.s \in Imported
         /\ row.defect # "shortDevEUI" => target = row.DevEUI
<1>1. rows \in Seq(Row) /\ idx \in 1..Len(rows)
  BY DEF TypeOK
<1>2. row \in Row
  BY <1>1 DEF row
<1>3. row.DevEUI \in DevEUIs /\ row.s \in Imported
  BY <1>2 DEF Row
<1>4. ShortOf[row.DevEUI] \in DevEUIs
  BY <1>3, ShortAssumption
<1> QED
  BY <1>1, <1>2, <1>3, <1>4 DEF TargetOf, target

\* What a row of the export holds: an item of the session that is there.
LEMMA ItemType ==
  ASSUME NEW d \in DevEUIs, session[d] \in Imported
  PROVE  /\ ItemOf(d) = [DevEUI |-> d, defect |-> "none", s |-> ItemOf(d).s]
         /\ ItemOf(d).s \in Imported
         /\ ItemOf(d).s.DevAddr = session[d].DevAddr
         /\ ItemOf(d).s.AppSKey = session[d].AppSKey
         /\ ItemOf(d).s.FCntUp = session[d].FCntUp
         /\ ItemOf(d).s.NwkKeys = IF d \in Is11 THEN 0 ELSE session[d].NwkKeys
<1> DEFINE k == IF d \in Is11 THEN 0 ELSE session[d].NwkKeys
           s == [session[d] EXCEPT !.NwkKeys = k]
<1>1. k \in 0..MaxGen
  BY DEF Imported
<1>2. /\ s \in Imported /\ s.DevAddr = session[d].DevAddr /\ s.AppSKey = session[d].AppSKey
      /\ s.FCntUp = session[d].FCntUp /\ s.NwkKeys = k
  <2> HIDE DEF k
  <2> QED
    BY <1>1 DEF Imported
<1>3. ItemOf(d) = [DevEUI |-> d, defect |-> "none", s |-> s]
  BY DEF ItemOf
<1> HIDE DEF s
<1> QED
  BY <1>2, <1>3

LEMMA ReadType ==
  ASSUME TypeOK, pc = "read"
  PROVE  list[idx] \in DevEUIs /\ idx \in 1..Len(list) /\ Len(list) \in Nat
<1>1. list \in Seq(DevEUIs)
  BY EmptySeq DEF TypeOK
<1> QED
  BY <1>1 DEF TypeOK

\* Sums are taken modulo the width of a counter.
LEMMA CounterType ==
  ASSUME NEW r \in Row, NEW c \in Counters
  PROVE  /\ NextCounter(r, c) \in FCnts
         /\ r.s[c] \in FCnts /\ Increase[c] \in Int
         /\ r.s[c] + Increase[c] \in FCnts => NextCounter(r, c) = r.s[c] + Increase[c]
         /\ r.s[c] + Increase[c] \in Nat => NextCounter(r, c) <= r.s[c] + Increase[c]
<1>1. r.s \in Imported
  BY DEF Row
<1>2. r.s[c] \in FCnts
  BY <1>1 DEF Imported, Counters
<1>3. Increase[c] \in Int
  BY DEF Increase, Counters
<1> DEFINE x == r.s[c] + Increase[c]
<1>4. x \in Int /\ FCntMod \in Nat \ {0} /\ FCnts = 0..(FCntMod - 1)
  BY <1>2, <1>3 DEF FCnts, FCntMod
<1> HIDE DEF x
<1>5. /\ x % FCntMod \in FCnts
      /\ x \in FCnts => x % FCntMod = x
      /\ x \in Nat => x % FCntMod <= x
  BY <1>4
<1> QED
  BY <1>2, <1>3, <1>5 DEF NextCounter, x

LEMMA AssembleType ==
  ASSUME NEW r \in Row, NEW a \in DevAddrs
  PROVE  Assemble(r, a) \in Imported
<1>1. r.s \in Imported
  BY DEF Row
<1>2. /\ r.s.DevAddr \in DevAddrs /\ r.s.NwkKeys \in 0..MaxGen /\ r.s.AppSKey \in 0..MaxGen
      /\ r.s.AFCntDown \in FCnts
  BY <1>1 DEF Imported
<1>3. \A c \in Counters : NextCounter(r, c) \in FCnts
  BY CounterType
<1>4. 0 \in 0..MaxGen
  OBVIOUS
<1> QED
  BY <1>2, <1>3, <1>4 DEF Assemble, Imported, Counters

LEMMA ExitType ==
  ASSUME TypeOK, Exit, files' \subseteq Seq(Row) \ {<<>>}, UNCHANGED <<exports, imports>>,
         stopped' \in BOOLEAN
  PROVE  RunTypeOK'
BY EmptySeq DEF Exit, RunTypeOK, TypeOK, ImportSteps

LEMMA NextRowType ==
  ASSUME TypeOK, pc \in ImportSteps, NextRow, UNCHANGED <<files, runVars>>
  PROVE  RunTypeOK'
<1>1. CASE /\ idx < Len(rows) /\ pc' = "row" /\ idx' = idx + 1 /\ toSave' = None
           /\ UNCHANGED <<list, rows>>
  BY <1>1, RowType DEF RunTypeOK, TypeOK, ImportSteps, runVars
<1>2. CASE Exit
  BY <1>2, ExitType DEF TypeOK, runVars
<1> QED
  BY <1>1, <1>2 DEF NextRow

LEMMA NextReadType ==
  ASSUME TypeOK, pc = "read", NEW items \in Seq(Row), NextRead(items)
  PROVE  RunTypeOK'
BY ReadType DEF NextRead, RunTypeOK, TypeOK, ImportSteps, runVars

LEMMA TypeOKStep == TypeOK /\ [Next]_vars => TypeOK'
<1> SUFFICES ASSUME TypeOK, [Next]_vars PROVE TypeOK'
  OBVIOUS
\* What follows for a step of the tool that leaves the databases alone.
<1>q. ASSUME RunTypeOK', HistoryTypeOK', UNCHANGED networkVars PROVE TypeOK'
  <2>1. PlatformTypeOK'
    BY <1>q DEF TypeOK, PlatformTypeOK, RowsTypeOK, networkVars, keyVars
  <2> QED
    BY <1>q, <2>1 DEF TypeOK, PlatformTypeOK, RunTypeOK, HistoryTypeOK
<1>h. UNCHANGED historyVars => HistoryTypeOK'
  BY DEF historyVars, HistoryTypeOK, TypeOK
<1>1. ASSUME NEW l \in ExportLists, StartExport(l) PROVE TypeOK'
  <2>1. l \in Seq(DevEUIs) /\ l # <<>>
    OBVIOUS
  <2>2. 1 \in 1..Len(l)
    BY <2>1, EmptySeq
  <2>2a. stopped' \in BOOLEAN
    BY <1>1 DEF StartExport
  <2>3. RunTypeOK'
    BY <1>1, <2>2, <2>2a DEF StartExport, RunTypeOK, TypeOK, ImportSteps
  <2> QED
    BY <1>1, <2>3, <1>q, <1>h DEF StartExport
<1>2. ASSUME NEW f \in files, NEW defect \in Defects \union {"none"}, NEW i \in DOMAIN f,
             StartImport(f, i, defect)
      PROVE TypeOK'
  <2>1. f \in Seq(Row) /\ i \in 1..Len(f) /\ Len(f) \in Nat /\ imports \in Nat
    BY DEF TypeOK
  <2>2. f[i] \in Row /\ defect \in AllDefects \union {"none"}
    BY <2>1
  <2>3. [f[i] EXCEPT !.defect = defect] \in Row
    BY <2>2 DEF Row
  <2>3a. /\ [f EXCEPT ![i] = [f[i] EXCEPT !.defect = defect]] \in Seq(Row)
         /\ Len([f EXCEPT ![i] = [f[i] EXCEPT !.defect = defect]]) = Len(f)
    BY <2>1, <2>3, ExceptSeq
  <2>3b. rows' \in Seq(Row) /\ rows' # <<>>
    BY <1>2, <2>1, <2>3a, EmptySeq DEF StartImport
  <2>4. imports' \in 0..MaxImports
    BY <1>2, <2>1 DEF StartImport
  <2>5. RunTypeOK'
    BY <1>2, <2>3b, <2>4 DEF StartImport, RunTypeOK, TypeOK, ImportSteps
  <2> QED
    BY <1>2, <2>5, <1>q, <1>h DEF StartImport
<1>3. CASE ReadSession
  <2>1. CASE DoesNotExist(list[idx])
    <3>1. NextRead(rows) /\ rows \in Seq(Row)
      BY <1>3, <2>1 DEF ReadSession, TypeOK
    <3> QED
      BY <1>3, <3>1, NextReadType, <1>q, <1>h DEF ReadSession, NextRead
  <2>2. CASE ~DoesNotExist(list[idx])
    <3>1. session[list[idx]] \in Imported /\ list[idx] \in DevEUIs
      BY <1>3, <2>2, ReadType DEF ReadSession, DoesNotExist, TypeOK
    <3>2. ItemOf(list[idx]) \in Row
      BY <3>1, ItemType DEF Row
    <3>3. Append(rows, ItemOf(list[idx])) \in Seq(Row)
      BY <3>2 DEF TypeOK
    <3>4. NextRead(Append(rows, ItemOf(list[idx])))
      BY <1>3, <2>2 DEF ReadSession
    <3> QED
      BY <1>3, <3>3, <3>4, NextReadType, <1>q, <1>h DEF ReadSession, NextRead
  <2> QED
    BY <2>1, <2>2
<1>4. CASE ReadFails
  BY <1>4, NextReadType, <1>q, <1>h DEF ReadFails, NextRead, TypeOK
<1>5. CASE WriteFile
  <2>1. files' \subseteq Seq(Row) \ {<<>>}
    BY <1>5 DEF WriteFile, TypeOK
  <2> QED
    BY <1>5, <2>1, ExitType, <1>q, <1>h DEF WriteFile, runVars, TypeOK
<1>6. CASE ParseInputFile
  <2>1. CASE Exit
    BY <1>6, <2>1, ExitType, <1>q, <1>h DEF ParseInputFile, runVars, TypeOK
  <2>2. CASE pc' = "row" /\ idx' = 1 /\ UNCHANGED <<list, rows, toSave>>
    <3>1. 1 \in 1..Len(rows)
      BY <1>6, EmptySeq DEF ParseInputFile, TypeOK
    <3>2. RunTypeOK'
      BY <1>6, <2>2, <3>1 DEF ParseInputFile, runVars, RunTypeOK, TypeOK, ImportSteps
    <3> QED
      BY <1>6, <3>2, <1>q, <1>h DEF ParseInputFile
  <2> QED
    BY <1>6, <2>1, <2>2 DEF ParseInputFile
<1>7. CASE PrepareRow
  <2>1. CASE RowIsUsable(row)
    <3>1. PICK a \in DevAddrs : toSave' = Assemble(row, a)
      BY <1>7, <2>1 DEF PrepareRow
    <3>2. toSave' \in Imported
      BY <1>7, <3>1, RowType, AssembleType DEF PrepareRow, ImportSteps
    <3>3. RunTypeOK'
      BY <1>7, <2>1, <3>2, RowType DEF PrepareRow, runVars, RunTypeOK, TypeOK, ImportSteps
    <3> QED
      BY <1>7, <3>3, <1>q, <1>h DEF PrepareRow
  <2>2. CASE ~RowIsUsable(row)
    BY <1>7, <2>2, NextRowType, <1>q, <1>h DEF PrepareRow, runVars, ImportSteps
  <2> QED
    BY <2>1, <2>2
<1>8. CASE QueryFails
  BY <1>8, NextRowType, <1>q, <1>h DEF QueryFails, ImportSteps
<1>9. CASE Index
  <2>1. target \in DevEUIs /\ idx \in 1..Len(rows) /\ toSave \in Imported
    BY <1>9, RowType DEF Index, ImportSteps, TypeOK
  <2>2. PlatformTypeOK'
    BY <1>9, <2>1 DEF Index, SAdd, PlatformTypeOK, RowsTypeOK, TypeOK
  <2>3. RunTypeOK'
    BY <1>9, <2>1 DEF Index, runVars, RunTypeOK, TypeOK, ImportSteps
  <2> QED
    BY <1>9, <2>2, <2>3, <1>h
    DEF Index, TypeOK, PlatformTypeOK, RunTypeOK, HistoryTypeOK
<1>10. CASE Set
  <2>1. target \in DevEUIs /\ idx \in 1..Len(rows) /\ toSave \in Imported
    BY <1>10, RowType DEF Set, ImportSteps, TypeOK
  <2>2. PlatformTypeOK'
    BY <1>10, <2>1 DEF Set, SetSession, PlatformTypeOK, RowsTypeOK, TypeOK
  <2>3. RunTypeOK'
    BY <1>10, <2>1 DEF Set, runVars, RunTypeOK, TypeOK, ImportSteps
  <2>4. HistoryTypeOK'
    <3>1. Outrun(target, row) \subseteq Counters
      BY DEF Outrun
    <3> QED
      BY <1>10, <2>1, <3>1 DEF Set, HistoryTypeOK, TypeOK
  <2> QED
    BY <2>2, <2>3, <2>4 DEF TypeOK, PlatformTypeOK, RunTypeOK, HistoryTypeOK
<1>11. CASE Flush
  <2>1. target \in DevEUIs /\ pc \in ImportSteps
    BY <1>11, RowType DEF Flush, ImportSteps
  <2>2. PlatformTypeOK'
    BY <1>11, <2>1
    DEF Flush, FlushMACCommandQueue, keyVars, PlatformTypeOK, RowsTypeOK, TypeOK
  <2>3. RunTypeOK'
    BY <1>11, <2>1, NextRowType DEF Flush, runVars
  <2>4. HistoryTypeOK'
    BY <1>11 DEF Flush, HistoryTypeOK, TypeOK
  <2> QED
    BY <2>2, <2>3, <2>4 DEF TypeOK, PlatformTypeOK, RunTypeOK, HistoryTypeOK
<1>12. CASE Abort
  <2>1. HistoryTypeOK'
    <3>1. pc = "flush" => target \in DevEUIs
      BY RowType DEF ImportSteps
    <3> QED
      BY <1>12, <3>1 DEF Abort, HistoryTypeOK, TypeOK
  <2>2. RunTypeOK'
    BY <1>12, ExitType DEF Abort, TypeOK
  <2> QED
    BY <1>12, <2>1, <2>2, <1>q DEF Abort
<1>13. CASE Network
  BY <1>13, NetworkTypes
<1>14. CASE UNCHANGED vars
  BY <1>14 DEF vars, networkVars, keyVars, toolVars, TypeOK, RowsTypeOK
<1> QED
  BY <1>1, <1>2, <1>3, <1>4, <1>5, <1>6, <1>7, <1>8, <1>9, <1>10, <1>11, <1>12, <1>13,
     <1>14 DEF Next, Step

LEMMA TypeOKInit == Init => TypeOK
<1>1. Init => stopped \in BOOLEAN
  BY DEF Init
<1> QED
  BY <1>1, EmptySeq
  DEF Init, NetworkInit, KeysInit, TypeOK, RowsTypeOK, FCnts, ImportSteps, Counters

\* Every state of a move is well typed.
THEOREM TypeCorrect == Spec => []TypeOK
BY TypeOKInit, TypeOKStep, PTL DEF Spec

-----------------------------------------------------------------------------
(* The steps of the tool that leave the databases alone, for every proof   *)
(* below: an iteration that begins its save, a run that stops before its   *)
(* flush, and the rest.                                                    *)

Quiet ==
    /\ UNCHANGED <<networkVars, spoilt, outrun>>
    /\ \/ /\ pc # "flush" /\ pc' \notin {"index", "set", "flush"}
          /\ UNCHANGED interrupted
       \/ /\ pc = "row" /\ pc' = "index"
          /\ \E a \in DevAddrs : toSave' = Assemble(row, a)
          /\ UNCHANGED <<rows, idx, interrupted>>
       \/ /\ pc = "flush" /\ pc' = "idle"
          /\ interrupted' = interrupted \union {target}
       \/ UNCHANGED <<pc, rows, idx, toSave, interrupted>>

LEMMA QuietSteps ==
  ASSUME TypeOK, [Next]_vars
  PROVE  Quiet \/ Index \/ Set \/ Flush \/ Network
<1>1. ASSUME NEW l \in ExportLists, StartExport(l) PROVE Quiet
  BY <1>1 DEF StartExport, historyVars, Quiet
<1>2. ASSUME NEW f \in files, NEW defect \in Defects \union {"none"}, NEW i \in DOMAIN f,
             StartImport(f, i, defect)
      PROVE Quiet
  BY <1>2 DEF StartImport, historyVars, Quiet
<1>3. CASE ReadSession \/ ReadFails
  BY <1>3 DEF ReadSession, ReadFails, NextRead, historyVars, Quiet
<1>4. CASE WriteFile
  BY <1>4 DEF WriteFile, Exit, historyVars, Quiet
<1>5. CASE ParseInputFile
  BY <1>5 DEF ParseInputFile, Exit, historyVars, Quiet
<1>6. CASE PrepareRow
  <2>1. CASE RowIsUsable(row)
    BY <1>6, <2>1 DEF PrepareRow, historyVars, Quiet
  <2>2. CASE ~RowIsUsable(row)
    BY <1>6, <2>2 DEF PrepareRow, NextRow, Exit, historyVars, Quiet
  <2> QED
    BY <2>1, <2>2
<1>7. CASE QueryFails
  BY <1>7 DEF QueryFails, NextRow, Exit, historyVars, Quiet
<1>8. CASE Abort
  BY <1>8 DEF Abort, Exit, Quiet
<1>9. CASE UNCHANGED vars
  BY <1>9 DEF vars, toolVars, Quiet
<1> QED
  BY <1>1, <1>2, <1>3, <1>4, <1>5, <1>6, <1>7, <1>8, <1>9 DEF Next, Step

-----------------------------------------------------------------------------
(* Counters.                                                               *)

Used(d) == [FCntUp |-> acceptedUp[d], NFCntDown |-> sentDown[d].N]

CountersFresh ==
    \A d \in DevEUIs : InUse(d) =>
        \A c \in Counters : session[d][c] >= Used(d)[c] \/ c \in outrun[d]

\* The session about to be saved has the counters of its row, increased.
SavesIncreased ==
    pc \in {"index", "set"} => \A c \in Counters : toSave[c] = NextCounter(row, c)

CounterInv == TypeOK /\ CountersFresh /\ SavesIncreased

LEMMA CountersFreshParts ==
  /\ CountersFresh => UplinkCounterFresh
  /\ CountersFresh /\ (\A d \in DevEUIs : InUse(d) => session[d].AFCntDown >= sentDown[d].A)
        => DownlinkCounterFresh
BY DEF CountersFresh, UplinkCounterFresh, DownlinkCounterFresh, Used, Counters

LEMMA AssembleCounters ==
  ASSUME NEW r \in Row, NEW a \in DevAddrs
  PROVE  \A c \in Counters : Assemble(r, a)[c] = NextCounter(r, c)
BY DEF Assemble, Counters

\* Each action of the network moves the counter of the session with the one
\* that is compared with it.
LEMMA NetworkKeepsCounters ==
  ASSUME TypeOK, CountersFresh, Network
  PROVE  CountersFresh'
<1> SUFFICES ASSUME NEW e \in DevEUIs, InUse(e)', NEW c \in Counters
             PROVE  session'[e][c] >= Used(e)'[c] \/ c \in outrun'[e]
  BY DEF CountersFresh
<1>1. PICK d \in DevEUIs :
         \/ /\ Join(d)
            /\ outrun' = [outrun EXCEPT ![d] = {}]
         \/ /\ LoseSession(d) \/ UplinkAccepted(d) \/ UplinkDropped(d)
               \/ Downlink(d) \/ EnqueueMac(d)
            /\ UNCHANGED outrun
  BY DEF Network, toolVars
<1>2. CASE d # e
  <2>1. /\ session'[e] = session[e] /\ activation'[e] = activation[e]
        /\ acceptedUp'[e] = acceptedUp[e] /\ sentDown'[e] = sentDown[e]
        /\ outrun'[e] = outrun[e]
    BY <1>1, <1>2 DEF Join, LoseSession, UplinkAccepted, UplinkDropped, Downlink,
       EnqueueMac, SetSession, keyVars, TypeOK, RowsTypeOK
  <2> QED
    BY <2>1 DEF InUse, CountersFresh, Used
<1>3. CASE d = e /\ Join(d)
  <2>1. /\ session'[e].FCntUp = 0 /\ session'[e].NFCntDown = 0 /\ session'[e].AFCntDown = 0
        /\ acceptedUp'[e] = 0 /\ sentDown'[e] = [N |-> 0, A |-> 0]
    BY <1>3 DEF Join, SetSession, TypeOK, RowsTypeOK
  <2> QED
    BY <2>1 DEF Used, Counters
<1>4. CASE d = e /\ LoseSession(d)
  <2>1. session'[e] = None
    BY <1>4 DEF LoseSession, SetSession, TypeOK
  <2> QED
    BY <2>1 DEF InUse
<1>5. CASE d = e /\ UplinkAccepted(d) /\ UNCHANGED outrun
  <2>1. session[e] \in Imported /\ nextUp[e] \in Nat
    BY <1>5 DEF UplinkAccepted, HasUsableSession, TypeOK, RowsTypeOK, FCnts
  <2>2. /\ session'[e] = [session[e] EXCEPT !.FCntUp = nextUp[e] + 1]
        /\ acceptedUp'[e] = nextUp[e] + 1 /\ sentDown' = sentDown
    BY <1>5 DEF UplinkAccepted, TypeOK, RowsTypeOK
  <2>3. activation[e] # 0 /\ session[e] # None /\ session[e].NwkKeys = activation[e]
    BY <1>5 DEF UplinkAccepted, HasUsableSession
  <2>4. /\ session'[e].FCntUp = nextUp[e] + 1
        /\ session'[e].NFCntDown = session[e].NFCntDown
        /\ session'[e].AFCntDown = session[e].AFCntDown
    BY <2>1, <2>2 DEF Imported
  <2>5. session[e][c] >= Used(e)[c] \/ c \in outrun'[e]
    BY <1>5, <2>3 DEF InUse, CountersFresh
  <2>6. CASE c = "FCntUp"
    BY <2>1, <2>2, <2>4, <2>6 DEF Used
  <2>7. CASE c = "NFCntDown"
    BY <2>2, <2>4, <2>5, <2>7 DEF Used
  <2> QED
    BY <2>6, <2>7 DEF Counters
<1>6. CASE d = e /\ Downlink(d) /\ UNCHANGED outrun
  <2>1. /\ session[e] \in Imported /\ session[e] # None
        /\ session[e].NwkKeys = activation[e] /\ activation[e] # 0
        /\ sentDown[e] \in [N : FCnts, A : FCnts] /\ acceptedUp' = acceptedUp
    BY <1>6 DEF Downlink, HasUsableSession, TypeOK, RowsTypeOK
  <2>2. \A k \in Counters : session[e][k] >= Used(e)[k] \/ k \in outrun[e]
    BY <2>1 DEF InUse, CountersFresh
  <2>3. CASE /\ session' = [session EXCEPT ![d] = [session[d] EXCEPT !.AFCntDown = @ + 1]]
             /\ sentDown' = [sentDown EXCEPT ![d] =
                                [sentDown[d] EXCEPT !.A = session[d].AFCntDown + 1]]
    <3>1. /\ session'[e] = [session[e] EXCEPT !.AFCntDown = session[e].AFCntDown + 1]
          /\ sentDown'[e] = [sentDown[e] EXCEPT !.A = session[e].AFCntDown + 1]
      BY <1>6, <2>3 DEF TypeOK, RowsTypeOK
    <3>2. /\ session'[e].AFCntDown = sentDown'[e].A /\ sentDown'[e].A \in Int
          /\ session'[e].FCntUp = session[e].FCntUp
          /\ session'[e].NFCntDown = session[e].NFCntDown /\ sentDown'[e].N = sentDown[e].N
      BY <2>1, <3>1 DEF Imported, FCnts
    <3> QED
      BY <1>6, <2>1, <2>2, <3>2 DEF Used, Counters
  <2>4. CASE /\ session' = [session EXCEPT ![d] = [session[d] EXCEPT !.NFCntDown = @ + 1]]
             /\ sentDown' = [sentDown EXCEPT ![d] =
                                [sentDown[d] EXCEPT !.N = session[d].NFCntDown + 1]]
    <3>1. /\ session'[e] = [session[e] EXCEPT !.NFCntDown = session[e].NFCntDown + 1]
          /\ sentDown'[e] = [sentDown[e] EXCEPT !.N = session[e].NFCntDown + 1]
      BY <1>6, <2>4 DEF TypeOK, RowsTypeOK
    <3>2. /\ session'[e].NFCntDown = sentDown'[e].N /\ sentDown'[e].N \in Int
          /\ session'[e].FCntUp = session[e].FCntUp
          /\ session'[e].AFCntDown = session[e].AFCntDown /\ sentDown'[e].A = sentDown[e].A
      BY <2>1, <3>1 DEF Imported, FCnts
    <3> QED
      BY <1>6, <2>1, <2>2, <3>2 DEF Used, Counters
  <2> QED
    BY <1>6, <2>3, <2>4 DEF Downlink
<1>7. CASE d = e /\ (UplinkDropped(d) \/ EnqueueMac(d)) /\ UNCHANGED outrun
  <2>1. UNCHANGED <<session, activation, acceptedUp, sentDown>>
    BY <1>7 DEF UplinkDropped, EnqueueMac, keyVars
  <2> QED
    BY <1>7, <2>1 DEF InUse, CountersFresh, Used
<1> QED
  BY <1>1, <1>2, <1>3, <1>4, <1>5, <1>6, <1>7

\* What a save brings is at least what was used, or its counter is outrun.
LEMMA SetKeepsCounters ==
  ASSUME CounterInv, Set
  PROVE  CountersFresh'
<1> SUFFICES ASSUME NEW e \in DevEUIs, InUse(e)', NEW c \in Counters
             PROVE  session'[e][c] >= Used(e)'[c] \/ c \in outrun'[e]
  BY DEF CountersFresh
<1>1. /\ target \in DevEUIs /\ row \in Row /\ toSave \in Imported
      /\ toSave[c] = NextCounter(row, c)
  BY RowType DEF CounterInv, SavesIncreased, Set, ImportSteps, TypeOK
<1>2. Used(e)' = Used(e)
  BY DEF Set, Used
<1>3. CASE e # target
  <2>1. session'[e] = session[e] /\ activation' = activation /\ outrun'[e] = outrun[e]
    BY <1>3 DEF Set, SetSession, CounterInv, TypeOK
  <2> QED
    BY <1>2, <2>1 DEF InUse, CounterInv, CountersFresh
<1>4. CASE e = target
  <2>1. session'[e] = toSave /\ outrun'[e] = Outrun(e, row)
    BY <1>1, <1>4 DEF Set, SetSession, CounterInv, TypeOK
  <2>2. CASE \/ Used(e)[c] > row.s[c] + Increase[c]
             \/ row.s[c] + Increase[c] \notin FCnts
    BY <2>1, <2>2 DEF Outrun, Used
  <2>3. CASE /\ ~(Used(e)[c] > row.s[c] + Increase[c])
             /\ row.s[c] + Increase[c] \in FCnts
    <3>1. Used(e)[c] \in Int
      <4>1. acceptedUp[e] \in FCnts /\ sentDown[e] \in [N : FCnts, A : FCnts]
        BY DEF CounterInv, TypeOK, RowsTypeOK
      <4> QED
        BY <4>1 DEF Used, Counters, FCnts
    <3>2. toSave[c] = row.s[c] + Increase[c] /\ toSave[c] \in Int
      BY <1>1, <2>3, CounterType DEF FCnts
    <3> QED
      BY <1>2, <2>1, <2>3, <3>1, <3>2
  <2> QED
    BY <2>2, <2>3
<1> QED
  BY <1>3, <1>4

LEMMA CounterInvStep == CounterInv /\ [Next]_vars => CounterInv'
<1> SUFFICES ASSUME CounterInv, [Next]_vars PROVE CountersFresh' /\ SavesIncreased'
  BY TypeOKStep DEF CounterInv
<1>1. CASE Quiet
  <2>1. CountersFresh'
    BY <1>1 DEF Quiet, networkVars, keyVars, CounterInv, CountersFresh, InUse, Used
  <2>2. SavesIncreased'
    <3>1. pc = "row" => row \in Row
      BY RowType DEF CounterInv, ImportSteps
    <3>2. CASE /\ pc = "row" /\ UNCHANGED <<rows, idx>>
               /\ \E a \in DevAddrs : toSave' = Assemble(row, a)
      BY <3>1, <3>2, AssembleCounters DEF SavesIncreased, row, NextCounter
    <3> QED
      BY <1>1, <3>2 DEF Quiet, CounterInv, SavesIncreased, row, NextCounter
  <2> QED
    BY <2>1, <2>2
<1>2. CASE Index
  <2>1. CountersFresh'
    BY <1>2 DEF Index, historyVars, CounterInv, CountersFresh, InUse, Used
  <2>2. SavesIncreased'
    BY <1>2 DEF Index, CounterInv, SavesIncreased, row, NextCounter
  <2> QED
    BY <2>1, <2>2
<1>3. CASE Set
  BY <1>3, SetKeepsCounters DEF Set, SavesIncreased
<1>4. CASE Flush
  BY <1>4 DEF Flush, NextRow, Exit, keyVars, CounterInv, CountersFresh, SavesIncreased, InUse, Used
<1>5. CASE Network
  <2>1. CountersFresh'
    BY <1>5, NetworkKeepsCounters DEF CounterInv
  <2>2. UNCHANGED <<pc, rows, idx, toSave>>
    BY <1>5 DEF Network, toolVars
  <2> QED
    BY <2>1, <2>2 DEF CounterInv, SavesIncreased, row, NextCounter
<1> QED
  BY <1>1, <1>2, <1>3, <1>4, <1>5, QuietSteps DEF CounterInv

LEMMA CounterInvHolds == Spec => []CounterInv
<1>1. Init => CounterInv
  BY TypeOKInit DEF Init, NetworkInit, KeysInit, CounterInv, CountersFresh, SavesIncreased, InUse
<1> QED
  BY <1>1, CounterInvStep, PTL DEF Spec

\* No session accepts an uplink counter twice, unless the increase of -u was
\* less than what the device had sent since the export.
THEOREM UplinkCountersAreFresh == Spec => []UplinkCounterFresh
<1>1. CounterInv => UplinkCounterFresh
  BY CountersFreshParts DEF CounterInv
<1> QED
  BY <1>1, CounterInvHolds, PTL

-----------------------------------------------------------------------------
(* The sets of the addresses.                                              *)

\* The first transaction of a save makes room for what the second one stores.
IndexedBeforeSet == pc = "set" => target \in devAddrSet[toSave.DevAddr]

IndexInv == TypeOK /\ SessionIsIndexed /\ IndexedBeforeSet

LEMMA NetworkKeepsIndex ==
  ASSUME IndexInv, Network
  PROVE  SessionIsIndexed' /\ IndexedBeforeSet'
<1>1. PICK d \in DevEUIs :
         \/ Join(d) \/ UplinkAccepted(d) \/ UplinkDropped(d)
         \/ Downlink(d) \/ EnqueueMac(d)
         \/ LoseSession(d) /\ (pc = "set" => devAddrSet' = devAddrSet)
  BY DEF Network
<1>2. UNCHANGED <<pc, rows, idx, toSave>>
  BY DEF Network, toolVars
<1>3. target' = target
  BY <1>2 DEF target, TargetOf, row
<1>4. CASE Join(d)
  <2> DEFINE a == Addr[d][activation[d] + 1]
  <2>1. /\ a \in DevAddrs /\ session'[d].DevAddr = a
        /\ \A e \in DevEUIs \ {d} : session'[e] = session[e]
        /\ devAddrSet' = [devAddrSet EXCEPT ![a] = @ \union {d}]
    BY <1>4 DEF Join, SAdd, SetSession, IndexInv, TypeOK
  <2> HIDE DEF a
  <2>2. d \in devAddrSet'[a] /\ \A b \in DevAddrs : devAddrSet[b] \subseteq devAddrSet'[b]
    BY <2>1 DEF IndexInv, TypeOK, RowsTypeOK
  <2>3. SessionIsIndexed'
    BY <2>1, <2>2 DEF IndexInv, SessionIsIndexed, TypeOK, Imported
  <2>4. IndexedBeforeSet'
    BY <1>2, <1>3, <2>2 DEF IndexInv, IndexedBeforeSet, TypeOK, Imported
  <2> QED
    BY <2>3, <2>4
<1>5. CASE LoseSession(d) /\ (pc = "set" => devAddrSet' = devAddrSet)
  <2>1. IndexedBeforeSet'
    BY <1>2, <1>3, <1>5 DEF IndexInv, IndexedBeforeSet
  <2>2. session'[d] = None /\ \A e \in DevEUIs \ {d} : session'[e] = session[e]
    BY <1>5 DEF LoseSession, SetSession, IndexInv, TypeOK
  <2>3. ASSUME NEW e \in DevEUIs \ {d}, session[e] # None
        PROVE  e \in devAddrSet'[session[e].DevAddr]
    <3>1. e \in devAddrSet[session[e].DevAddr]
      BY <2>3 DEF IndexInv, SessionIsIndexed
    <3>2. CASE UNCHANGED devAddrSet
      BY <3>1, <3>2
    <3>3. CASE /\ devAddrSet[session[d].DevAddr] = {d}
               /\ devAddrSet' = [devAddrSet EXCEPT ![session[d].DevAddr] = {}]
      <4>1. session[e].DevAddr # session[d].DevAddr
        BY <3>1, <3>3
      <4>2. session[e].DevAddr \in DevAddrs
        BY <2>3 DEF IndexInv, TypeOK, Imported
      <4> QED
        BY <3>1, <3>3, <4>1, <4>2 DEF IndexInv, TypeOK, RowsTypeOK
    <3> QED
      BY <1>5, <3>2, <3>3 DEF LoseSession
  <2> QED
    BY <2>1, <2>2, <2>3 DEF SessionIsIndexed
<1>6. CASE UplinkAccepted(d) \/ UplinkDropped(d) \/ Downlink(d) \/ EnqueueMac(d)
  <2>1. UNCHANGED devAddrSet
    BY <1>6 DEF UplinkAccepted, UplinkDropped, Downlink, EnqueueMac, keyVars
  <2>2. ASSUME NEW e \in DevEUIs, session'[e] # None
        PROVE  session[e] # None /\ session'[e].DevAddr = session[e].DevAddr
    <3>1. session \in [DevEUIs -> Imported \union {None}]
      BY DEF IndexInv, TypeOK
    <3>2. CASE d # e \/ session' = session
      <4>1. session'[e] = session[e]
        BY <1>6, <3>1, <3>2 DEF UplinkAccepted, UplinkDropped, Downlink, EnqueueMac, keyVars
      <4> QED
        BY <2>2, <4>1
    <3>3. CASE d = e /\ UplinkAccepted(d)
      BY <3>1, <3>3 DEF UplinkAccepted, HasUsableSession, Imported
    <3>4. CASE d = e /\ Downlink(d)
      BY <3>1, <3>4 DEF Downlink, HasUsableSession, Imported
    <3> QED
      BY <1>6, <3>2, <3>3, <3>4 DEF UplinkDropped, EnqueueMac, keyVars
  <2> QED
    BY <1>2, <1>3, <2>1, <2>2 DEF IndexInv, SessionIsIndexed, IndexedBeforeSet
<1> QED
  BY <1>1, <1>4, <1>5, <1>6

LEMMA IndexInvStep == IndexInv /\ [Next]_vars => IndexInv'
<1> SUFFICES ASSUME IndexInv, [Next]_vars PROVE SessionIsIndexed' /\ IndexedBeforeSet'
  BY TypeOKStep DEF IndexInv
<1>1. CASE Quiet
  BY <1>1 DEF Quiet, networkVars, keyVars, IndexInv, SessionIsIndexed, IndexedBeforeSet,
     target, TargetOf, row
<1>2. CASE Index
  <2>1. target \in DevEUIs /\ toSave.DevAddr \in DevAddrs /\ target' = target
    BY <1>2, RowType DEF Index, ImportSteps, IndexInv, TypeOK, Imported, target, TargetOf, row
  <2>2. /\ target \in devAddrSet'[toSave.DevAddr]
        /\ \A b \in DevAddrs : devAddrSet[b] \subseteq devAddrSet'[b]
    BY <1>2, <2>1 DEF Index, SAdd, IndexInv, TypeOK, RowsTypeOK
  <2> QED
    BY <1>2, <2>1, <2>2
    DEF Index, IndexInv, SessionIsIndexed, IndexedBeforeSet, TypeOK, Imported
<1>3. CASE Set
  BY <1>3 DEF Set, SetSession, IndexInv, SessionIsIndexed, IndexedBeforeSet, TypeOK
<1>4. CASE Flush
  BY <1>4 DEF Flush, NextRow, Exit, keyVars, IndexInv, SessionIsIndexed, IndexedBeforeSet
<1>5. CASE Network
  BY <1>5, NetworkKeepsIndex
<1> QED
  BY <1>1, <1>2, <1>3, <1>4, <1>5, QuietSteps DEF IndexInv

\* Every session that joins and imports have saved is in the set of its address,
\* wherever runs stop and whatever address a damaged row brought.
THEOREM SessionsAreIndexed == Spec => []SessionIsIndexed
<1>1. Init => IndexInv
  BY TypeOKInit DEF Init, NetworkInit, KeysInit, IndexInv, SessionIsIndexed, IndexedBeforeSet
<1>2. IndexInv => SessionIsIndexed
  BY DEF IndexInv
<1> QED
  BY <1>1, <1>2, IndexInvStep, PTL DEF Spec

-----------------------------------------------------------------------------
(* The queue.                                                              *)

LEMMA LeftoversStep ==
  ASSUME TypeOK, LeftoversOnlyAfterInterruption, [Next]_vars
  PROVE  LeftoversOnlyAfterInterruption'
<1>1. CASE Quiet
  BY <1>1 DEF Quiet, networkVars, keyVars, LeftoversOnlyAfterInterruption, target, TargetOf, row
<1>2. CASE Index
  BY <1>2 DEF Index, historyVars, LeftoversOnlyAfterInterruption
<1>3. CASE Set
  <2>1. pc = "set" /\ pc' = "flush" /\ target' = target
        /\ UNCHANGED <<macQueue, interrupted>>
    BY <1>3 DEF Set, target, TargetOf, row
  <2>2. \A d \in DevEUIs \ {target} : session'[d] = session[d]
    BY <1>3 DEF Set, SetSession, TypeOK
  <2> QED
    BY <2>1, <2>2 DEF LeftoversOnlyAfterInterruption
<1>4. CASE Flush
  <2>1. /\ pc = "flush" /\ target \in DevEUIs /\ UNCHANGED session
        /\ interrupted' = interrupted \ {target}
    BY <1>4, RowType DEF Flush, ImportSteps, keyVars
  <2>2. macQueue'[target] = {} /\ \A d \in DevEUIs \ {target} : macQueue'[d] = macQueue[d]
    BY <1>4, <2>1 DEF Flush, FlushMACCommandQueue, TypeOK, RowsTypeOK
  <2> QED
    BY <2>1, <2>2 DEF LeftoversOnlyAfterInterruption
<1>5. CASE Network
  <2>1. PICK d \in DevEUIs :
           \/ Join(d) /\ interrupted' = interrupted \ {d}
           \/ /\ LoseSession(d) \/ UplinkAccepted(d) \/ UplinkDropped(d)
                 \/ Downlink(d) \/ EnqueueMac(d)
              /\ UNCHANGED interrupted
    BY <1>5 DEF Network, toolVars
  <2>2. UNCHANGED pc /\ target' = target
    BY <1>5 DEF Network, toolVars, target, TargetOf, row
  <2>3. CASE Join(d) /\ interrupted' = interrupted \ {d}
    <3>1. macQueue'[d] = {} /\ \A e \in DevEUIs \ {d} : /\ macQueue'[e] = macQueue[e]
                                                       /\ session'[e] = session[e]
      BY <2>3 DEF Join, FlushMACCommandQueue, SetSession, TypeOK, RowsTypeOK
    <3> QED
      BY <2>2, <2>3, <3>1 DEF LeftoversOnlyAfterInterruption
  <2>4. CASE LoseSession(d) /\ UNCHANGED interrupted
    <3>1. session'[d] = None /\ \A e \in DevEUIs \ {d} : /\ macQueue'[e] = macQueue[e]
                                                        /\ session'[e] = session[e]
      BY <2>4 DEF LoseSession, SetSession, TypeOK, RowsTypeOK
    <3> QED
      BY <2>2, <2>4, <3>1 DEF LeftoversOnlyAfterInterruption
  <2>5. CASE EnqueueMac(d) /\ UNCHANGED interrupted
    <3>1. \A e \in DevEUIs : "leftover" \in macQueue'[e] => "leftover" \in macQueue[e]
      <4>1. macQueue' = [macQueue EXCEPT ![d] = macQueue[d] \union {"live"}]
        BY <2>5 DEF EnqueueMac
      <4>2. macQueue \in [DevEUIs -> SUBSET {"live", "leftover"}]
        BY DEF TypeOK, RowsTypeOK
      <4> QED
        BY <4>1, <4>2
    <3>2. UNCHANGED session
      BY <2>5 DEF EnqueueMac, keyVars
    <3> QED
      BY <2>2, <2>5, <3>1, <3>2 DEF LeftoversOnlyAfterInterruption
  <2>6. CASE (UplinkAccepted(d) \/ UplinkDropped(d) \/ Downlink(d)) /\ UNCHANGED interrupted
    <3>1. UNCHANGED macQueue /\ \A e \in DevEUIs \ {d} : session'[e] = session[e]
      <4>1. session \in [DevEUIs -> Imported \union {None}]
        BY DEF TypeOK
      <4> QED
        BY <2>6, <4>1 DEF UplinkAccepted, UplinkDropped, Downlink, keyVars
    <3>2. session'[d] # None => session[d] # None
      BY <2>6 DEF UplinkAccepted, UplinkDropped, Downlink, HasUsableSession, keyVars
    <3> QED
      BY <2>2, <2>6, <3>1, <3>2 DEF LeftoversOnlyAfterInterruption
  <2> QED
    BY <2>1, <2>3, <2>4, <2>5, <2>6
<1> QED
  BY <1>1, <1>2, <1>3, <1>4, <1>5, QuietSteps

\* A restored session inherits a queue only from a run that stopped before the
\* flush and was not repeated.
THEOREM QueuesAreFlushed == Spec => []LeftoversOnlyAfterInterruption
<1>1. Init => LeftoversOnlyAfterInterruption
  BY DEF Init, NetworkInit, KeysInit, LeftoversOnlyAfterInterruption
<1> QED
  BY <1>1, TypeOKInit, TypeOKStep, LeftoversStep, PTL DEF Spec

-----------------------------------------------------------------------------
(* The files: what a row holds was once in Redis.                          *)

Items(f) == {<<f[i].DevEUI, f[i].s>> : i \in DOMAIN f}

\* The devices and sessions of all rows, of the files and of the present run.
Known == Items(rows) \union UNION {Items(f) : f \in files}

LEMMA KnownType ==
  ASSUME TypeOK, NEW p \in Known
  PROVE  p[1] \in DevEUIs /\ p[2] \in Imported
<1>1. PICK f \in Seq(Row) : p \in Items(f)
  BY DEF Known, TypeOK
<1>2. PICK i \in DOMAIN f : p = <<f[i].DevEUI, f[i].s>>
  BY <1>1 DEF Items
<1>3. f[i] \in Row
  BY <1>1, <1>2
<1> QED
  BY <1>2, <1>3 DEF Row

LEMMA RowIsKnown ==
  ASSUME TypeOK, pc \in ImportSteps
  PROVE  <<row.DevEUI, row.s>> \in Known
<1>1. idx \in DOMAIN rows
  BY RowType DEF TypeOK
<1> QED
  BY <1>1 DEF Known, Items, row

LEMMA KnownStep ==
  ASSUME TypeOK, [Next]_vars, NEW p \in Known'
  PROVE  \/ p \in Known
         \/ /\ pc = "read" /\ list[idx] \in DevEUIs
            /\ session[list[idx]] # None /\ session[list[idx]] \in Imported
            /\ p = <<list[idx], ItemOf(list[idx]).s>>
<1>e. Items(<<>>) = {}
  BY DEF Items
<1>u. UNCHANGED <<rows, files>> => p \in Known
  BY DEF Known
<1>x. UNCHANGED files /\ Exit => p \in Known
  BY <1>e DEF Exit, Known
<1>n. UNCHANGED files /\ NextRow => p \in Known
  BY <1>u, <1>x DEF NextRow
<1>1. ASSUME NEW l \in ExportLists, StartExport(l) PROVE p \in Known
  BY <1>1, <1>u DEF StartExport
<1>2. ASSUME NEW f \in files, NEW defect \in Defects \union {"none"}, NEW i \in DOMAIN f,
             StartImport(f, i, defect)
      PROVE p \in Known
  <2>1. /\ f \in Seq(Row) /\ rows' = [f EXCEPT ![i] = [f[i] EXCEPT !.defect = defect]]
        /\ files' = files
    BY <1>2 DEF StartImport, TypeOK
  <2>2. f[i] \in Row
    BY <2>1
  <2>3. DOMAIN rows' = DOMAIN f
    BY <2>1
  <2>4. \A k \in DOMAIN f : rows'[k].DevEUI = f[k].DevEUI /\ rows'[k].s = f[k].s
    BY <2>1, <2>2 DEF Row
  <2>5. Items(rows') = Items(f)
    BY <2>3, <2>4 DEF Items
  <2> QED
    BY <2>1, <2>5 DEF Known, Items
<1>3. CASE ReadSession \/ ReadFails
  <2>1. rows \in Seq(Row) /\ list[idx] \in DevEUIs /\ pc = "read" /\ files' = files
    BY <1>3, ReadType DEF ReadSession, ReadFails, NextRead, TypeOK
  <2>2. CASE rows' = rows
    BY <2>1, <2>2, <1>u
  <2>3. CASE /\ session[list[idx]] # None
             /\ rows' = Append(rows, ItemOf(list[idx]))
    <3>1. /\ DOMAIN rows' = 1..(Len(rows) + 1) /\ DOMAIN rows = 1..Len(rows)
          /\ \A k \in 1..Len(rows) : rows'[k] = rows[k]
          /\ rows'[Len(rows) + 1] = ItemOf(list[idx]) /\ Len(rows) \in Nat
      BY <2>1, <2>3
    <3>2. CASE p \in UNION {Items(f) : f \in files}
      BY <3>2 DEF Known
    <3>3. CASE \E k \in DOMAIN rows' : p = <<rows'[k].DevEUI, rows'[k].s>>
      <4>1. PICK k \in DOMAIN rows' : p = <<rows'[k].DevEUI, rows'[k].s>>
        BY <3>3
      <4>2. CASE k \in DOMAIN rows
        BY <3>1, <4>1, <4>2 DEF Known, Items
      <4>3. CASE k = Len(rows) + 1
        <5>1. session[list[idx]] \in Imported
          BY <2>1, <2>3 DEF TypeOK
        <5>2. /\ ItemOf(list[idx]).DevEUI = list[idx]
              /\ rows'[k].DevEUI = ItemOf(list[idx]).DevEUI
              /\ rows'[k].s = ItemOf(list[idx]).s
          BY <3>1, <4>3 DEF ItemOf
        <5>3. p = <<list[idx], ItemOf(list[idx]).s>>
          BY <4>1, <5>2
        <5> QED
          BY <2>1, <2>3, <5>1, <5>3
      <4> QED
        BY <3>1, <4>1, <4>2, <4>3
    <3> QED
      BY <2>1, <3>2, <3>3 DEF Known, Items
  <2> QED
    BY <1>3, <2>2, <2>3 DEF ReadSession, ReadFails, NextRead, DoesNotExist
<1>4. CASE WriteFile
  BY <1>4, <1>e DEF WriteFile, Exit, Known
<1>5. CASE ParseInputFile
  BY <1>5, <1>u, <1>x DEF ParseInputFile
<1>6. CASE PrepareRow
  BY <1>6, <1>u, <1>n DEF PrepareRow
<1>7. CASE QueryFails
  BY <1>7, <1>n DEF QueryFails
<1>8. CASE Index \/ Set
  BY <1>8, <1>u DEF Index, Set
<1>9. CASE Flush
  BY <1>9, <1>n DEF Flush
<1>10. CASE Abort
  BY <1>10, <1>x DEF Abort
<1>11. CASE Network
  BY <1>11, <1>u DEF Network, toolVars
<1>12. CASE UNCHANGED vars
  BY <1>12, <1>u DEF vars, toolVars
<1> QED
  BY <1>1, <1>2, <1>3, <1>4, <1>5, <1>6, <1>7, <1>8, <1>9, <1>10, <1>11, <1>12 DEF Next, Step

\* A session keeps its address and keys until a join or an import replaces it.
LEMMA KeysKept ==
  ASSUME TypeOK, Network, NEW e \in DevEUIs
  PROVE  \/ session'[e] = None \/ Join(e)
         \/ /\ session[e] # None /\ activation'[e] = activation[e]
            /\ session'[e].DevAddr = session[e].DevAddr
            /\ session'[e].NwkKeys = session[e].NwkKeys
            /\ session'[e].AppSKey = session[e].AppSKey
<1>1. PICK d \in DevEUIs :
         \/ Join(d) \/ LoseSession(d) \/ UplinkAccepted(d) \/ UplinkDropped(d)
         \/ Downlink(d) \/ EnqueueMac(d)
  BY DEF Network
<1>2. session \in [DevEUIs -> Imported \union {None}] /\ activation \in [DevEUIs -> 0..MaxGen]
  BY DEF TypeOK, RowsTypeOK
<1>3. CASE d # e \/ UplinkDropped(d) \/ EnqueueMac(d)
  <2>1. session'[e] = session[e]
    BY <1>1, <1>2, <1>3 DEF Join, LoseSession, SetSession, UplinkAccepted, UplinkDropped,
       Downlink, EnqueueMac, keyVars
  <2>2. activation'[e] = activation[e]
    BY <1>1, <1>2, <1>3 DEF Join, LoseSession, UplinkAccepted, UplinkDropped, Downlink, EnqueueMac
  <2> QED
    BY <2>1, <2>2
<1>4. CASE d = e /\ LoseSession(d)
  BY <1>2, <1>4 DEF LoseSession, SetSession
<1>5. CASE d = e /\ UplinkAccepted(d)
  BY <1>2, <1>5 DEF UplinkAccepted, HasUsableSession, Imported
<1>6. CASE d = e /\ Downlink(d)
  BY <1>2, <1>6 DEF Downlink, HasUsableSession, Imported
<1> QED
  BY <1>1, <1>3, <1>4, <1>5, <1>6

\* Activations are never taken back.
LEMMA ActivationsGrow ==
  ASSUME TypeOK, [Next]_vars, NEW e \in DevEUIs
  PROVE  /\ activation'[e] \in Nat /\ activation[e] \in Nat
         /\ activation[e] <= activation'[e]
<1>1. activation \in [DevEUIs -> 0..MaxGen]
  BY DEF TypeOK, RowsTypeOK
<1>2. CASE Network
  BY <1>1, <1>2 DEF Network, Join, LoseSession, UplinkAccepted, UplinkDropped, Downlink,
     EnqueueMac, Gens
<1>3. CASE Quiet \/ Index \/ Set \/ Flush
  BY <1>1, <1>3 DEF Quiet, networkVars, Index, Set, Flush
<1> QED
  BY <1>2, <1>3, QuietSteps

-----------------------------------------------------------------------------
(* Keys of one activation.                                                 *)

KnownIsGenuine ==
    \A p \in Known : OfOneActivation(p[1], p[2], activation[p[1]]) \/ p[1] \in spoilt

\* An undamaged row is saved with its own address and keys.
SavesKeysOfRow ==
    pc \in {"index", "set"} /\ row.defect = "none" =>
        /\ toSave.DevAddr = row.s.DevAddr
        /\ toSave.NwkKeys = row.s.NwkKeys
        /\ toSave.AppSKey = row.s.AppSKey

KeysInv == TypeOK /\ KeysFromOneActivation /\ KnownIsGenuine /\ SavesKeysOfRow

LEMMA KeysParts ==
  KeysFromOneActivation <=>
    \A d \in DevEUIs : session[d] # None => OfOneActivation(d, session[d], activation[d]) \/ d \in spoilt
BY DEF KeysFromOneActivation

LEMMA GenuineStays ==
  ASSUME TypeOK, [Next]_vars, NEW d \in DevEUIs, NEW s, OfOneActivation(d, s, activation[d])
  PROVE  OfOneActivation(d, s, activation'[d])
<1>1. 1..activation[d] \subseteq 1..activation'[d]
  BY ActivationsGrow
<1> QED
  BY <1>1 DEF OfOneActivation

LEMMA SpoiltStays ==
  ASSUME TypeOK, [Next]_vars
  PROVE  spoilt \subseteq spoilt'
<1>1. CASE Quiet \/ Index \/ Set \/ Flush
  BY <1>1 DEF Quiet, Index, historyVars, Set, Flush
<1>2. CASE Network
  BY <1>2 DEF Network, toolVars
<1> QED
  BY <1>1, <1>2, QuietSteps

LEMMA KeysInvStep == KeysInv /\ [Next]_vars => KeysInv'
<1> SUFFICES ASSUME KeysInv, [Next]_vars
             PROVE  KeysFromOneActivation' /\ KnownIsGenuine' /\ SavesKeysOfRow'
  BY TypeOKStep DEF KeysInv
<1>t. TypeOK
  BY DEF KeysInv
<1>1. KnownIsGenuine'
  <2> SUFFICES ASSUME NEW p \in Known'
               PROVE  OfOneActivation(p[1], p[2], activation'[p[1]]) \/ p[1] \in spoilt'
    BY DEF KnownIsGenuine
  <2>1. p[1] \in DevEUIs /\ (OfOneActivation(p[1], p[2], activation[p[1]]) \/ p[1] \in spoilt)
    <3>1. CASE p \in Known
      BY <1>t, <3>1, KnownType DEF KeysInv, KnownIsGenuine
    <3>2. CASE /\ list[idx] \in DevEUIs
               /\ session[list[idx]] # None /\ session[list[idx]] \in Imported
               /\ p = <<list[idx], ItemOf(list[idx]).s>>
      <4> DEFINE d == list[idx]
      <4>1. OfOneActivation(d, session[d], activation[d]) \/ d \in spoilt
        BY <3>2, KeysParts DEF KeysInv
      <4>2. /\ ItemOf(d).s.DevAddr = session[d].DevAddr /\ ItemOf(d).s.AppSKey = session[d].AppSKey
            /\ ItemOf(d).s.NwkKeys = IF d \in Is11 THEN 0 ELSE session[d].NwkKeys
        BY <3>2, ItemType
      <4> HIDE DEF d
      <4>3. OfOneActivation(d, ItemOf(d).s, activation[d]) \/ d \in spoilt
        BY <4>1, <4>2 DEF OfOneActivation
      <4> QED
        BY <3>2, <4>3 DEF d
    <3> QED
      BY <1>t, <3>1, <3>2, KnownStep
  <2> QED
    BY <1>t, <2>1, GenuineStays, SpoiltStays
<1>2. \A d \in DevEUIs : session'[d] = session[d] /\ session[d] # None =>
          OfOneActivation(d, session'[d], activation'[d]) \/ d \in spoilt'
  BY <1>t, KeysParts, GenuineStays, SpoiltStays DEF KeysInv
<1>3. (\A d \in DevEUIs : session'[d] # None =>
          OfOneActivation(d, session'[d], activation'[d]) \/ d \in spoilt') => KeysFromOneActivation'
  BY DEF KeysFromOneActivation
<1>4. CASE Quiet
  <2>1. KeysFromOneActivation'
    BY <1>2, <1>3, <1>4 DEF Quiet, networkVars, keyVars
  <2>2. SavesKeysOfRow'
    BY <1>4 DEF Quiet, KeysInv, SavesKeysOfRow, Assemble, row
  <2> QED
    BY <1>1, <2>1, <2>2
<1>5. CASE Index
  <2>1. KeysFromOneActivation'
    BY <1>2, <1>3, <1>5 DEF Index
  <2>2. SavesKeysOfRow'
    BY <1>5 DEF Index, KeysInv, SavesKeysOfRow, row
  <2> QED
    BY <1>1, <2>1, <2>2
<1>6. CASE Set
  <2>1. /\ target \in DevEUIs /\ <<row.DevEUI, row.s>> \in Known /\ pc = "set" /\ pc' = "flush"
        /\ activation' = activation
        /\ row.defect = "none" => target = row.DevEUI
    BY <1>6, <1>t, RowType, RowIsKnown DEF Set, ImportSteps
  <2>2. session'[target] = toSave /\ \A d \in DevEUIs \ {target} : session'[d] = session[d]
    BY <1>6, <2>1 DEF Set, SetSession, KeysInv, TypeOK
  <2>3. CASE row.defect = "none"
    <3>1. OfOneActivation(target, row.s, activation[target]) \/ target \in spoilt
      BY <2>1, <2>3 DEF KeysInv, KnownIsGenuine
    <3>2. OfOneActivation(target, toSave, activation[target]) \/ target \in spoilt
      BY <2>1, <2>3, <3>1 DEF OfOneActivation, KeysInv, SavesKeysOfRow
    <3>3. OfOneActivation(target, toSave, activation'[target]) \/ target \in spoilt'
      BY <1>6, <2>3, <3>2, <2>1 DEF OfOneActivation, Set
    <3>4. OfOneActivation(target, session'[target], activation'[target]) \/ target \in spoilt'
      BY <1>6, <2>2, <3>3 DEF OfOneActivation, Set
    <3> QED
      BY <1>1, <1>2, <1>3, <2>1, <2>2, <3>4 DEF SavesKeysOfRow
  <2>4. CASE row.defect # "none"
    <3>1. target \in spoilt'
      BY <1>6, <2>4 DEF Set
    <3> QED
      BY <1>1, <1>2, <1>3, <2>1, <2>2, <3>1 DEF SavesKeysOfRow
  <2> QED
    BY <2>3, <2>4
<1>7. CASE Flush
  <2>1. session' = session /\ pc' \notin {"index", "set"}
    BY <1>7 DEF Flush, NextRow, Exit, keyVars
  <2> QED
    BY <1>1, <1>2, <1>3, <2>1 DEF SavesKeysOfRow
<1>8. CASE Network
  <2>1. SavesKeysOfRow'
    BY <1>8 DEF Network, toolVars, KeysInv, SavesKeysOfRow, row
  <2>2. ASSUME NEW d \in DevEUIs, session'[d] # None
        PROVE  OfOneActivation(d, session'[d], activation'[d]) \/ d \in spoilt'
    <3>1. CASE Join(d)
      <4> DEFINE g == activation[d] + 1
      <4>1. /\ session'[d] = [DevAddr |-> Addr[d][g], NwkKeys |-> g, AppSKey |-> g,
                              FCntUp |-> 0, NFCntDown |-> 0, AFCntDown |-> 0]
            /\ activation'[d] = g /\ g \in Gens
        BY <3>1 DEF Join, SetSession, KeysInv, TypeOK, RowsTypeOK
      <4> HIDE DEF g
      <4> QED
        BY <4>1 DEF OfOneActivation, Gens
    <3>2. CASE /\ session[d] # None /\ activation'[d] = activation[d]
               /\ session'[d].DevAddr = session[d].DevAddr
               /\ session'[d].NwkKeys = session[d].NwkKeys
               /\ session'[d].AppSKey = session[d].AppSKey
      <4>1. OfOneActivation(d, session[d], activation[d]) \/ d \in spoilt
        BY <3>2, KeysParts DEF KeysInv
      <4> QED
        BY <1>t, <3>2, <4>1, SpoiltStays DEF OfOneActivation
    <3> QED
      BY <1>t, <1>8, <2>2, <3>1, <3>2, KeysKept
  <2> QED
    BY <1>1, <1>3, <2>1, <2>2
<1> QED
  BY <1>t, <1>4, <1>5, <1>6, <1>7, <1>8, QuietSteps

\* What is imported is the address and the keys of one activation, whenever it
\* was exported, unless a row was damaged unnoticed.
THEOREM KeysAreOfOneActivation == Spec => []KeysFromOneActivation
<1>1. Init => KeysInv
  BY TypeOKInit
  DEF Init, NetworkInit, KeysInit, KeysInv, KeysFromOneActivation, KnownIsGenuine, Known,
      Items, SavesKeysOfRow
<1>2. KeysInv => KeysFromOneActivation
  BY DEF KeysInv
<1> QED
  BY <1>1, <1>2, KeysInvStep, PTL DEF Spec

-----------------------------------------------------------------------------
(* AFCntDown: no counter of a 1.0 device, and a 1.1 device can use only what *)
(* a join saved.                                                           *)

\* No row of a 1.1 device has its keys, of the rows read or about to be saved.
RowsLackKeys11 ==
    /\ \A p \in Known : p[1] \in Is11 => p[2].NwkKeys = 0
    /\ pc \in {"index", "set"} /\ target \in Is11 => toSave.NwkKeys = 0

AppCounterFresh ==
    \A d \in DevEUIs :
        /\ d \notin Is11 => sentDown[d].A = 0
        /\ InUse(d) => session[d].AFCntDown >= sentDown[d].A

AppCounterInv == TypeOK /\ RowsLackKeys11 /\ AppCounterFresh

LEMMA RowsLackKeysStep == AppCounterInv /\ [Next]_vars => RowsLackKeys11'
<1> SUFFICES ASSUME AppCounterInv, [Next]_vars PROVE RowsLackKeys11'
  OBVIOUS
<1>t. TypeOK
  BY DEF AppCounterInv
<1>1. ASSUME NEW p \in Known', p[1] \in Is11 PROVE p[2].NwkKeys = 0
  <2>1. CASE p \in Known
    BY <1>1, <2>1 DEF AppCounterInv, RowsLackKeys11
  <2>2. CASE /\ list[idx] \in DevEUIs /\ session[list[idx]] \in Imported
             /\ p = <<list[idx], ItemOf(list[idx]).s>>
    BY <1>1, <2>2, ItemType
  <2> QED
    BY <1>t, <2>1, <2>2, KnownStep
<1>2. ASSUME pc' \in {"index", "set"}, target' \in Is11 PROVE toSave'.NwkKeys = 0
  <2>1. CASE pc \in {"index", "set"} /\ UNCHANGED <<rows, idx, toSave>>
    BY <1>2, <2>1 DEF AppCounterInv, RowsLackKeys11, target, TargetOf, row
  <2>2. CASE /\ pc = "row" /\ UNCHANGED <<rows, idx>>
             /\ \E a \in DevAddrs : toSave' = Assemble(row, a)
    <3>1. /\ target' = target /\ <<row.DevEUI, row.s>> \in Known
          /\ row.defect # "shortDevEUI" => target = row.DevEUI
      BY <1>t, <2>2, RowType, RowIsKnown DEF ImportSteps, target, TargetOf, row
    <3>2. row.defect # "shortDevEUI" => row.s.NwkKeys = 0
      BY <1>2, <3>1 DEF AppCounterInv, RowsLackKeys11
    <3> QED
      BY <2>2, <3>2 DEF Assemble
  <2>3. CASE Quiet
    BY <1>2, <2>1, <2>2, <2>3 DEF Quiet
  <2>4. CASE Index \/ Set \/ Flush
    BY <1>2, <2>1, <2>4 DEF Index, Set, Flush, NextRow, Exit
  <2>5. CASE Network
    BY <1>2, <2>1, <2>5 DEF Network, toolVars
  <2> QED
    BY <1>t, <2>3, <2>4, <2>5, QuietSteps
<1> QED
  BY <1>1, <1>2 DEF RowsLackKeys11

LEMMA AppCounterStep == AppCounterInv /\ [Next]_vars => AppCounterFresh'
<1> SUFFICES ASSUME AppCounterInv, [Next]_vars, NEW e \in DevEUIs
             PROVE  /\ e \notin Is11 => sentDown'[e].A = 0
                    /\ InUse(e)' => session'[e].AFCntDown >= sentDown'[e].A
  BY DEF AppCounterFresh
<1>t. /\ TypeOK /\ session \in [DevEUIs -> Imported \union {None}]
      /\ sentDown \in [DevEUIs -> [N : FCnts, A : FCnts]]
      /\ activation \in [DevEUIs -> 0..MaxGen]
  BY DEF AppCounterInv, TypeOK, RowsTypeOK
<1>o. /\ e \notin Is11 => sentDown[e].A = 0
      /\ InUse(e) => session[e].AFCntDown >= sentDown[e].A
  BY DEF AppCounterInv, AppCounterFresh
<1>1. CASE Quiet \/ Index \/ Flush
  <2>1. UNCHANGED <<session, activation, sentDown>>
    BY <1>1 DEF Quiet, networkVars, keyVars, Index, Flush
  <2> QED
    BY <1>o, <2>1 DEF InUse
<1>2. CASE Set
  <2>1. UNCHANGED <<activation, sentDown>> /\ target \in DevEUIs /\ toSave \in Imported
    BY <1>t, <1>2, RowType DEF Set, ImportSteps, TypeOK
  <2>2. CASE e # target
    <3>1. session'[e] = session[e]
      BY <1>t, <1>2, <2>2 DEF Set, SetSession
    <3> QED
      BY <1>o, <2>1, <3>1 DEF InUse
  <2>3. CASE e = target
    <3>1. session'[e] = toSave
      BY <1>t, <1>2, <2>1, <2>3 DEF Set, SetSession
    <3>2. e \in Is11 => toSave.NwkKeys = 0
      BY <1>2, <2>3 DEF Set, AppCounterInv, RowsLackKeys11
    <3>3. e \in Is11 => ~InUse(e)'
      BY <3>1, <3>2 DEF InUse
    <3>4. toSave.AFCntDown \in Nat
      BY <2>1 DEF Imported, FCnts
    <3> QED
      BY <1>o, <2>1, <3>1, <3>3, <3>4
  <2> QED
    BY <2>2, <2>3
<1>3. CASE Network
  <2>1. PICK d \in DevEUIs :
           \/ Join(d) \/ LoseSession(d) \/ UplinkAccepted(d) \/ UplinkDropped(d)
           \/ Downlink(d) \/ EnqueueMac(d)
    BY <1>3 DEF Network
  <2>2. CASE d # e \/ UplinkDropped(d) \/ EnqueueMac(d)
    <3>1. session'[e] = session[e] /\ activation'[e] = activation[e] /\ sentDown'[e] = sentDown[e]
      BY <1>t, <2>1, <2>2 DEF Join, LoseSession, SetSession, UplinkAccepted, UplinkDropped,
         Downlink, EnqueueMac, keyVars
    <3> QED
      BY <1>o, <3>1 DEF InUse
  <2>3. CASE d = e /\ Join(d)
    <3>1. session'[e].AFCntDown = 0 /\ sentDown'[e] = [N |-> 0, A |-> 0]
      BY <1>t, <2>3 DEF Join, SetSession
    <3> QED
      BY <3>1
  <2>4. CASE d = e /\ LoseSession(d)
    <3>1. session'[e] = None /\ sentDown' = sentDown
      BY <1>t, <2>4 DEF LoseSession, SetSession
    <3> QED
      BY <1>o, <3>1 DEF InUse
  <2>5. CASE d = e /\ UplinkAccepted(d)
    <3>1. session[e] \in Imported /\ HasUsableSession(e) /\ sentDown' = sentDown
      BY <1>t, <2>5 DEF UplinkAccepted, HasUsableSession
    <3>2. session'[e].AFCntDown = session[e].AFCntDown
      BY <1>t, <2>5, <3>1 DEF UplinkAccepted, Imported
    <3>3. InUse(e)
      BY <3>1 DEF HasUsableSession, InUse
    <3> QED
      BY <1>o, <3>1, <3>2, <3>3
  <2>6. CASE d = e /\ Downlink(d)
    <3>1. session[e] \in Imported /\ InUse(e)
      BY <1>t, <2>6 DEF Downlink, HasUsableSession, InUse
    <3>2. session[e].AFCntDown \in Nat /\ session[e].AFCntDown + 1 \in Nat
      BY <3>1 DEF Imported, FCnts
    <3>3. CASE /\ d \in Is11
               /\ session' = [session EXCEPT ![d] = [session[d] EXCEPT !.AFCntDown = @ + 1]]
               /\ sentDown' = [sentDown EXCEPT ![d] =
                                  [sentDown[d] EXCEPT !.A = session[d].AFCntDown + 1]]
      <4>1. /\ session'[e] = [session[e] EXCEPT !.AFCntDown = session[e].AFCntDown + 1]
            /\ sentDown'[e] = [sentDown[e] EXCEPT !.A = session[e].AFCntDown + 1]
        BY <1>t, <2>6, <3>3
      <4>2. session'[e].AFCntDown = session[e].AFCntDown + 1
        BY <3>1, <4>1 DEF Imported
      <4>3. sentDown'[e].A = session[e].AFCntDown + 1
        BY <1>t, <4>1
      <4> QED
        BY <2>6, <3>2, <3>3, <4>2, <4>3
    <3>4. CASE /\ session' = [session EXCEPT ![d] = [session[d] EXCEPT !.NFCntDown = @ + 1]]
               /\ sentDown' = [sentDown EXCEPT ![d] =
                                  [sentDown[d] EXCEPT !.N = session[d].NFCntDown + 1]]
      <4>1. /\ session'[e] = [session[e] EXCEPT !.NFCntDown = session[e].NFCntDown + 1]
            /\ sentDown'[e] = [sentDown[e] EXCEPT !.N = session[e].NFCntDown + 1]
        BY <1>t, <2>6, <3>4
      <4>2. session'[e].AFCntDown = session[e].AFCntDown
        BY <3>1, <4>1 DEF Imported
      <4>3. sentDown'[e].A = sentDown[e].A
        BY <1>t, <4>1
      <4> QED
        BY <1>o, <3>1, <4>2, <4>3
    <3> QED
      BY <2>6, <3>3, <3>4 DEF Downlink
  <2> QED
    BY <2>1, <2>2, <2>3, <2>4, <2>5, <2>6
<1> QED
  BY <1>t, <1>1, <1>2, <1>3, QuietSteps

\* No session sends a downlink counter twice, of devices of either version: the
\* counter that -d leaves alone is that of devices that no import serves.
THEOREM DownlinkCountersAreFresh == Spec => []DownlinkCounterFresh
<1>1. Init => AppCounterInv
  BY TypeOKInit
  DEF Init, NetworkInit, KeysInit, AppCounterInv, RowsLackKeys11, AppCounterFresh, Known, Items,
      InUse
<1>2. AppCounterInv /\ [Next]_vars => AppCounterInv'
  BY TypeOKStep, RowsLackKeysStep, AppCounterStep DEF AppCounterInv
<1>3. CounterInv /\ AppCounterInv => DownlinkCounterFresh
  BY CountersFreshParts DEF CounterInv, AppCounterInv, AppCounterFresh
<1> QED
  BY <1>1, <1>2, <1>3, CounterInvHolds, PTL DEF Spec

-----------------------------------------------------------------------------
(* The bound on lockouts: an import adds -u to a counter, and a counter is  *)
(* in a file only after an export.                                         *)

\* What n imports can have added.
Added(n) == UpCntIncrease * n

LEMMA AddedOneMore ==
  ASSUME UpCntIncrease >= 0, NEW n \in Int
  PROVE  /\ Added(n) \in Int /\ Added(n - 1) \in Int
         /\ Added(n) = Added(n - 1) + UpCntIncrease
         /\ Added((n + 1) - 1) = Added(n)
         /\ n >= 0 => Added(n) >= 0
<1>1. Added(n) \in Int /\ Added(n - 1) \in Int /\ (n + 1) - 1 = n
  BY DEF Added
<1>2. UpCntIncrease * (n - 1) = UpCntIncrease * n - UpCntIncrease
  OBVIOUS
<1>3. n >= 0 => UpCntIncrease * n >= 0
  OBVIOUS
<1> QED
  BY <1>1, <1>2, <1>3 DEF Added

Exporting == pc \in {"read", "write"}

\* How far the counters of the files, and of the sessions, can be ahead.
FileLimit == Added(exports - 1)
SessionLimit == IF Exporting THEN FileLimit ELSE Added(exports)

\* Session s of a device that has joined n times and sends counter u next is
\* not ahead by more than b if it is the one in use.
Within(s, n, u, b) ==
    /\ s.NwkKeys <= n
    /\ n # 0 /\ s.NwkKeys = n => s.FCntUp <= u + b

SessionsWithin ==
    \A d \in DevEUIs :
        session[d] # None => Within(session[d], activation[d], nextUp[d], SessionLimit)
KnownWithin ==
    \A p \in Known : Within(p[2], activation[p[1]], nextUp[p[1]], FileLimit)
SaveWithin ==
    pc \in {"index", "set"} =>
        Within(toSave, activation[target], nextUp[target], Added(exports))

LockoutInv ==
    /\ TypeOK
    /\ Exporting => exports >= 1
    /\ SessionsWithin /\ KnownWithin /\ SaveWithin

LEMMA LimitsType ==
  ASSUME TypeOK, UpCntIncrease >= 0, Exporting => exports >= 1
  PROVE  /\ exports \in Nat /\ FileLimit \in Int /\ SessionLimit \in Int /\ SessionLimit >= 0
         /\ Added(exports) \in Int /\ Added(exports) = FileLimit + UpCntIncrease
<1>1. exports \in Nat
  BY DEF TypeOK
<1>2. /\ FileLimit \in Int /\ Added(exports) \in Int /\ Added(exports) >= 0
      /\ Added(exports) = FileLimit + UpCntIncrease
  BY <1>1, AddedOneMore DEF FileLimit
<1>3. Exporting => FileLimit >= 0
  <2>1. Exporting => exports - 1 \in Nat
    BY <1>1
  <2> QED
    BY <2>1, AddedOneMore DEF FileLimit
<1> QED
  BY <1>1, <1>2, <1>3 DEF SessionLimit

\* Limits never come down, as the steps of a run follow one another.
LEMMA LimitsGrow ==
  ASSUME LockoutInv, UpCntIncrease >= 0, [Next]_vars
  PROVE  /\ Exporting' => exports' >= 1
         /\ FileLimit <= FileLimit' /\ SessionLimit <= SessionLimit'
         /\ FileLimit' \in Int /\ SessionLimit' \in Int
         /\ pc' \in {"index", "set", "flush"} => exports' = exports /\ ~Exporting'
<1> DEFINE Same == exports' = exports /\ (Exporting' => Exporting)
           Began == pc = "idle" /\ pc' = "read" /\ exports' = exports + 1
<1>1. Same \/ Began
  <2>1. ASSUME NEW l \in ExportLists, StartExport(l) PROVE Began
    BY <2>1 DEF StartExport
  <2>2. ASSUME NEW f \in files, NEW defect \in Defects \union {"none"}, NEW i \in DOMAIN f,
               StartImport(f, i, defect)
        PROVE Same
    BY <2>2 DEF StartImport, Exporting
  <2>3. CASE ReadSession \/ ReadFails \/ WriteFile
    BY <2>3 DEF ReadSession, ReadFails, NextRead, WriteFile, Exit, runVars, Exporting
  <2>4. CASE ParseInputFile
    BY <2>4 DEF ParseInputFile, Exit, runVars, Exporting
  <2>5. CASE PrepareRow
    BY <2>5 DEF PrepareRow, NextRow, Exit, runVars, Exporting
  <2>6. CASE QueryFails
    BY <2>6 DEF QueryFails, NextRow, Exit, Exporting, runVars
  <2>7. CASE Index \/ Set
    BY <2>7 DEF Index, Set, runVars, Exporting
  <2>8. CASE Flush
    BY <2>8 DEF Flush, NextRow, Exit, runVars, Exporting
  <2>9. CASE Abort
    BY <2>9 DEF Abort, Exit, Exporting
  <2>10. CASE Network
    BY <2>10 DEF Network, toolVars, runVars, Exporting
  <2>11. CASE UNCHANGED vars
    BY <2>11 DEF vars, toolVars, Exporting
  <2> HIDE DEF Same, Began
  <2> QED
    BY <2>1, <2>2, <2>3, <2>4, <2>5, <2>6, <2>7, <2>8, <2>9, <2>10, <2>11 DEF Next, Step
<1>2. /\ exports \in Nat /\ FileLimit \in Int /\ SessionLimit \in Int
      /\ Added(exports) \in Int /\ Added(exports) = FileLimit + UpCntIncrease
  BY LimitsType DEF LockoutInv
<1>3. CASE Same
  <2>1. FileLimit' = FileLimit
    BY <1>3 DEF FileLimit, Added
  <2>2. Added(exports)' = Added(exports)
    BY <1>3 DEF Added
  <2>3. SessionLimit' \in Int /\ SessionLimit <= SessionLimit'
    BY <1>2, <1>3, <2>1, <2>2 DEF SessionLimit
  <2>4. pc' \in {"index", "set", "flush"} => ~Exporting'
    BY DEF Exporting
  <2> QED
    BY <1>2, <1>3, <2>1, <2>3, <2>4 DEF LockoutInv
<1>4. CASE Began
  <2>1. FileLimit' = Added(exports)
    BY <1>2, <1>4, AddedOneMore DEF FileLimit
  <2>2. SessionLimit = Added(exports) /\ SessionLimit' = FileLimit'
    BY <1>4 DEF SessionLimit, Exporting
  <2> QED
    BY <1>2, <1>4, <2>1, <2>2 DEF Exporting
<1> QED
  BY <1>1, <1>3, <1>4

\* A step keeps what is known of a session that it does not change.
LEMMA WithinStays ==
  ASSUME TypeOK, [Next]_vars, NEW d \in DevEUIs, NEW s \in Imported,
         NEW b \in Int, NEW c \in Int, b <= c,
         Within(s, activation[d], nextUp[d], b)
  PROVE  Within(s, activation'[d], nextUp'[d], c)
<1>1. /\ activation[d] \in Nat /\ activation'[d] \in Nat /\ nextUp[d] \in Nat
      /\ activation[d] <= activation'[d] /\ s.NwkKeys \in Nat /\ s.FCntUp \in Nat
  <2>1. nextUp \in [DevEUIs -> FCnts]
    BY DEF TypeOK, RowsTypeOK
  <2>2. nextUp[d] \in Nat
    BY <2>1 DEF FCnts
  <2>3. s.NwkKeys \in Nat /\ s.FCntUp \in Nat
    BY DEF Imported, FCnts
  <2> QED
    BY <2>2, <2>3, ActivationsGrow
<1>2. CASE activation'[d] # activation[d]
  BY <1>1, <1>2 DEF Within
<1>3. CASE activation'[d] = activation[d]
  <2>1. nextUp'[d] \in Nat /\ nextUp[d] <= nextUp'[d]
    <3>1. CASE Network
      <4>1. PICK e \in DevEUIs :
               \/ Join(e) \/ LoseSession(e) \/ UplinkAccepted(e) \/ UplinkDropped(e)
               \/ Downlink(e) \/ EnqueueMac(e)
        BY <3>1 DEF Network
      <4>2. activation \in [DevEUIs -> 0..MaxGen] /\ nextUp \in [DevEUIs -> FCnts]
        BY DEF TypeOK, RowsTypeOK
      <4>3. CASE Join(e)
        <5>1. d # e
          BY <1>1, <1>3, <4>2, <4>3 DEF Join
        <5> QED
          BY <1>1, <4>2, <4>3, <5>1 DEF Join
      <4>4. CASE UplinkAccepted(e) \/ UplinkDropped(e)
        BY <4>2, <4>4 DEF UplinkAccepted, UplinkDropped, FCnts
      <4>5. CASE LoseSession(e) \/ Downlink(e) \/ EnqueueMac(e)
        BY <1>1, <4>5 DEF LoseSession, Downlink, EnqueueMac
      <4> QED
        BY <4>1, <4>3, <4>4, <4>5
    <3>2. CASE Quiet \/ Index \/ Set \/ Flush
      BY <1>1, <3>2 DEF Quiet, networkVars, Index, Set, Flush
    <3> QED
      BY <3>1, <3>2, QuietSteps
  <2> QED
    BY <1>1, <1>3, <2>1 DEF Within
<1> QED
  BY <1>2, <1>3

LEMMA LockoutInvStep ==
  ASSUME UpCntIncrease >= 0, LockoutInv, [Next]_vars
  PROVE  LockoutInv'
<1>t. /\ TypeOK /\ TypeOK'
      /\ session \in [DevEUIs -> Imported \union {None}]
  BY TypeOKStep DEF LockoutInv, TypeOK
<1>l. /\ exports \in Nat /\ FileLimit \in Int /\ SessionLimit \in Int /\ SessionLimit >= 0
      /\ Added(exports) \in Int /\ Added(exports) = FileLimit + UpCntIncrease
  BY LimitsType DEF LockoutInv
<1>1. KnownWithin'
  <2> SUFFICES ASSUME NEW p \in Known'
               PROVE  Within(p[2], activation'[p[1]], nextUp'[p[1]], FileLimit')
    BY DEF KnownWithin
  <2>1. CASE p \in Known
    <3>1. p[1] \in DevEUIs /\ p[2] \in Imported
      BY <1>t, <2>1, KnownType
    <3>2. Within(p[2], activation[p[1]], nextUp[p[1]], FileLimit)
      BY <2>1 DEF LockoutInv, KnownWithin
    <3> QED
      BY <1>t, <1>l, <3>1, <3>2, WithinStays, LimitsGrow
  <2>2. CASE /\ pc = "read" /\ list[idx] \in DevEUIs
             /\ session[list[idx]] # None /\ session[list[idx]] \in Imported
             /\ p = <<list[idx], ItemOf(list[idx]).s>>
    <3> DEFINE d == list[idx]
    <3>1. p[1] = d /\ d \in DevEUIs /\ p[2] \in Imported /\ SessionLimit = FileLimit
      BY <1>t, <2>2, ItemType DEF SessionLimit, Exporting
    <3>2. Within(p[2], activation[p[1]], nextUp[p[1]], FileLimit)
      <4>1. Within(session[d], activation[d], nextUp[d], FileLimit)
        BY <2>2, <3>1 DEF LockoutInv, SessionsWithin
      <4>2. /\ p[2].FCntUp = session[d].FCntUp
            /\ p[2].NwkKeys = IF d \in Is11 THEN 0 ELSE session[d].NwkKeys
        BY <2>2, ItemType
      <4>3. activation[d] \in Nat
        BY <1>t, <3>1 DEF TypeOK, RowsTypeOK
      <4> HIDE DEF d
      <4> QED
        BY <3>1, <4>1, <4>2, <4>3 DEF Within
    <3> HIDE DEF d
    <3> QED
      BY <1>t, <1>l, <3>1, <3>2, WithinStays, LimitsGrow
  <2> QED
    BY <1>t, <2>1, <2>2, KnownStep
<1>2. ASSUME NEW d \in DevEUIs, session[d] # None
      PROVE  Within(session[d], activation'[d], nextUp'[d], SessionLimit')
  <2>1. Within(session[d], activation[d], nextUp[d], SessionLimit)
    BY <1>2 DEF LockoutInv, SessionsWithin
  <2>2. session[d] \in Imported
    BY <1>t, <1>2
  <2> QED
    BY <1>t, <1>l, <2>1, <2>2, WithinStays, LimitsGrow
\* A session whose counter alone changes, and is then one that the device has sent.
<1>3. SessionsWithin'
  <2> SUFFICES ASSUME NEW d \in DevEUIs, session'[d] # None
               PROVE  Within(session'[d], activation'[d], nextUp'[d], SessionLimit')
    BY DEF SessionsWithin
  <2>1. CASE session'[d] = session[d]
    BY <1>2, <2>1
  <2>2. CASE Set /\ session'[d] # session[d]
    <3>1. /\ d = target /\ session'[d] = toSave /\ pc = "set" /\ pc' = "flush"
          /\ toSave \in Imported
      BY <1>t, <2>2 DEF Set, SetSession, TypeOK
    <3>2. Within(toSave, activation[d], nextUp[d], Added(exports))
      BY <3>1 DEF LockoutInv, SaveWithin
    <3>3. SessionLimit' = Added(exports)
      <4>1. exports' = exports
        BY <2>2 DEF Set, runVars
      <4> QED
        BY <3>1, <4>1 DEF SessionLimit, Exporting, Added
    <3>4. Within(toSave, activation'[d], nextUp'[d], Added(exports))
      BY <1>t, <1>l, <3>1, <3>2, WithinStays
    <3> QED
      BY <3>1, <3>3, <3>4
  <2>3. CASE Network
    <3>1. CASE Join(d)
      <4>1. /\ session'[d].FCntUp = 0 /\ nextUp'[d] = 0 /\ activation'[d] \in 1..MaxGen
            /\ session'[d].NwkKeys = activation'[d]
        BY <1>t, <3>1 DEF Join, SetSession, TypeOK, RowsTypeOK, Gens
      <4>2. SessionLimit' \in Int /\ SessionLimit' >= 0
        BY <1>l, LimitsGrow
      <4> QED
        BY <4>1, <4>2 DEF Within
    <3>2. CASE UplinkAccepted(d)
      <4>1. /\ session'[d].FCntUp = nextUp'[d] /\ session[d] # None
            /\ session'[d].NwkKeys = session[d].NwkKeys /\ nextUp'[d] \in Int
        BY <1>t, <3>2 DEF UplinkAccepted, HasUsableSession, Imported, TypeOK, RowsTypeOK, FCnts
      <4>2. SessionLimit' \in Int /\ SessionLimit' >= 0
        BY <1>l, LimitsGrow
      <4> QED
        BY <1>2, <4>1, <4>2 DEF Within
    <3>3. CASE Downlink(d)
      <4>1. /\ session'[d].FCntUp = session[d].FCntUp /\ session[d] # None
            /\ session'[d].NwkKeys = session[d].NwkKeys
        BY <1>t, <3>3 DEF Downlink, HasUsableSession, Imported
      <4> QED
        BY <1>2, <4>1 DEF Within
    <3>4. Join(d) \/ UplinkAccepted(d) \/ Downlink(d) \/ session'[d] = session[d]
      <4>1. PICK e \in DevEUIs :
               \/ Join(e) \/ LoseSession(e) \/ UplinkAccepted(e) \/ UplinkDropped(e)
               \/ Downlink(e) \/ EnqueueMac(e)
        BY <2>3 DEF Network
      <4>2. d # e => session'[d] = session[d]
        BY <1>t, <4>1 DEF Join, LoseSession, SetSession, UplinkAccepted, UplinkDropped,
           Downlink, EnqueueMac, keyVars
      <4>3. UplinkDropped(e) \/ EnqueueMac(e) => session' = session
        BY DEF UplinkDropped, EnqueueMac, keyVars
      <4>4. d = e => ~LoseSession(e)
        BY <1>t DEF LoseSession, SetSession
      <4> QED
        BY <4>1, <4>2, <4>3, <4>4
    <3> QED
      BY <2>1, <3>1, <3>2, <3>3, <3>4
  <2>4. Set \/ Network \/ session' = session
    BY <1>t, QuietSteps DEF Quiet, networkVars, keyVars, Index, Flush
  <2> QED
    BY <2>1, <2>2, <2>3, <2>4
<1>4. SaveWithin'
  <2> SUFFICES ASSUME pc' \in {"index", "set"}
               PROVE  Within(toSave', activation'[target'], nextUp'[target'], Added(exports'))
    BY DEF SaveWithin, Added
  <2>1. exports' = exports
    BY LimitsGrow
  <2>2. CASE pc \in {"index", "set"} /\ UNCHANGED <<rows, idx, toSave>>
    <3>1. target \in DevEUIs /\ toSave \in Imported /\ target' = target
      BY <1>t, <2>2, RowType DEF TypeOK, ImportSteps, target, TargetOf, row
    <3>2. Within(toSave, activation[target], nextUp[target], Added(exports))
      BY <2>2 DEF LockoutInv, SaveWithin
    <3> QED
      BY <1>t, <1>l, <2>1, <2>2, <3>1, <3>2, WithinStays
  <2>3. CASE /\ Quiet /\ pc = "row" /\ UNCHANGED <<rows, idx>>
             /\ \E a \in DevAddrs : toSave' = Assemble(row, a)
    <3>1. /\ target \in DevEUIs /\ row \in Row /\ target' = target
          /\ <<row.DevEUI, row.s>> \in Known /\ row.s \in Imported
          /\ row.defect # "shortDevEUI" => target = row.DevEUI
      BY <1>t, <2>3, RowType, RowIsKnown DEF ImportSteps, target, TargetOf, row
    <3>2. row.defect # "shortDevEUI" =>
             Within(row.s, activation[target], nextUp[target], FileLimit)
      BY <3>1 DEF LockoutInv, KnownWithin
    <3>3. /\ toSave'.NwkKeys = 0 \/ (row.defect # "shortDevEUI" /\ toSave'.NwkKeys = row.s.NwkKeys)
          /\ toSave'.FCntUp = NextCounter(row, "FCntUp")
      BY <2>3 DEF Assemble
    <3>4. /\ toSave'.FCntUp <= row.s.FCntUp + UpCntIncrease
          /\ toSave'.FCntUp \in Int /\ row.s.FCntUp \in Nat
      <4>1. "FCntUp" \in Counters /\ Increase["FCntUp"] = UpCntIncrease
        BY DEF Counters, Increase
      <4>2. row.s.FCntUp \in Nat
        BY <3>1 DEF Imported, FCnts
      <4>3. row.s["FCntUp"] + Increase["FCntUp"] \in Nat
        BY <4>1, <4>2
      <4>4. /\ NextCounter(row, "FCntUp") <= row.s["FCntUp"] + Increase["FCntUp"]
            /\ NextCounter(row, "FCntUp") \in FCnts
        BY <3>1, <4>1, <4>3, CounterType
      <4> QED
        BY <3>3, <4>1, <4>2, <4>4 DEF FCnts
    <3>5. UNCHANGED <<activation, nextUp>>
      BY <2>3 DEF Quiet, networkVars
    <3>6. activation[target] \in Nat /\ nextUp[target] \in Int /\ row.s.NwkKeys \in Nat
      <4>1. activation \in [DevEUIs -> 0..MaxGen] /\ nextUp \in [DevEUIs -> FCnts]
        BY <1>t DEF TypeOK, RowsTypeOK
      <4> QED
        BY <3>1, <4>1 DEF Imported, FCnts
    <3> QED
      BY <1>l, <2>1, <3>1, <3>2, <3>3, <3>4, <3>5, <3>6 DEF Within
  <2>4. CASE Quiet
    BY <2>2, <2>3, <2>4 DEF Quiet
  <2>5. CASE Index \/ Set \/ Flush
    BY <2>2, <2>5 DEF Index, Set, Flush, NextRow, Exit
  <2>6. CASE Network
    BY <2>2, <2>6 DEF Network, toolVars
  <2> QED
    BY <1>t, <2>4, <2>5, <2>6, QuietSteps
<1> QED
  BY <1>t, <1>1, <1>3, <1>4, LimitsGrow DEF LockoutInv

\* A device sends in vain for at most the increase of -u times the exports: to
\* import a file again, or to stop and repeat an import, adds nothing.
THEOREM LockoutsAreBounded == Spec => []LockoutIsBounded
<1>1. CASE UpCntIncrease >= 0
  <2>1. Init => LockoutInv
    BY TypeOKInit
    DEF Init, NetworkInit, KeysInit, LockoutInv, Exporting, SessionsWithin, KnownWithin, Known,
        Items, SaveWithin
  <2>2. LockoutInv => LockoutIsBounded
    <3> SUFFICES ASSUME LockoutInv, NEW d \in DevEUIs, InUse(d)
                 PROVE  session[d].FCntUp <= nextUp[d] + UpCntIncrease * exports
      BY DEF LockoutIsBounded
    <3>1. /\ session[d].FCntUp <= nextUp[d] + SessionLimit
          /\ session[d] \in Imported /\ nextUp[d] \in FCnts
      BY DEF LockoutInv, SessionsWithin, Within, InUse, TypeOK, RowsTypeOK
    <3>2. /\ SessionLimit \in Int /\ SessionLimit <= Added(exports) /\ Added(exports) \in Int
      BY <1>1, LimitsType DEF LockoutInv, SessionLimit
    <3>3. session[d].FCntUp <= nextUp[d] + Added(exports)
      BY <3>1, <3>2 DEF Imported, FCnts
    <3> QED
      BY <3>3 DEF Added
  <2>3. LockoutInv /\ [Next]_vars => LockoutInv'
    BY <1>1, LockoutInvStep
  <2> QED
    BY <2>1, <2>2, <2>3, PTL DEF Spec
<1>2. CASE ~(UpCntIncrease >= 0)
  <2>1. LockoutIsBounded
    BY <1>2 DEF LockoutIsBounded
  <2> QED
    BY <2>1, PTL
<1> QED
  BY <1>1, <1>2
-----------------------------------------------------------------------------
(* No usable row is passed over.                                           *)

\* The session about to be saved is the one of its row.
SavesRow ==
    pc \in {"index", "set"} => \E a \in DevAddrs : toSave = Assemble(row, a)

LEMMA SavesRowStep == TypeOK /\ SavesRow /\ [Next]_vars => SavesRow'
<1> SUFFICES ASSUME TypeOK, SavesRow, [Next]_vars PROVE SavesRow'
  OBVIOUS
\* What a step leaves as it is keeps its row.
<1>1. ASSUME UNCHANGED <<rows, idx, toSave>>, pc' \in {"index", "set"} => pc \in {"index", "set"}
      PROVE  SavesRow'
  BY <1>1 DEF SavesRow, Assemble, NextCounter, row
<1>2. CASE Quiet
  <2>1. CASE pc' \notin {"index", "set"}
    BY <2>1 DEF SavesRow
  <2>2. CASE /\ pc' = "index" /\ UNCHANGED <<rows, idx>>
             /\ \E a \in DevAddrs : toSave' = Assemble(row, a)
    <3>1. PICK a \in DevAddrs : toSave' = Assemble(row, a)
      BY <2>2
    <3>2. row' = row
      BY <2>2 DEF row
    <3>3. toSave' = Assemble(row', a)
      BY <3>1, <3>2
    <3> QED
      BY <3>3 DEF SavesRow, Assemble, NextCounter
  <2>3. CASE UNCHANGED <<pc, rows, idx, toSave>>
    BY <1>1, <2>3
  <2> QED
    BY <1>2, <2>1, <2>2, <2>3 DEF Quiet
<1>3. CASE Index
  BY <1>1, <1>3 DEF Index
<1>4. CASE Set \/ Flush
  BY <1>4 DEF Set, Flush, NextRow, Exit, SavesRow
<1>5. CASE Network
  BY <1>1, <1>5 DEF Network, toolVars
<1> QED
  BY <1>2, <1>3, <1>4, <1>5, QuietSteps

\* Later rows of the file have their turn.
LEMMA NextRowIsAwaited ==
  ASSUME TypeOK, pc \in ImportSteps, NextRow,
         NEW i \in DOMAIN rows, i > idx, RowIsUsable(rows[i])
  PROVE  rows' = rows /\ Awaited(i)'
<1>1. i \in 1..Len(rows) /\ idx \in 1..Len(rows) /\ Len(rows) \in Nat
  BY RowType DEF TypeOK
<1>2. pc' = "row" /\ idx' = idx + 1 /\ rows' = rows
  BY <1>1 DEF NextRow
<1> QED
  BY <1>1, <1>2 DEF Awaited, RowIsUsable

LEMMA StepPassesNoRow ==
  ASSUME TypeOK, SavesRow, Next, NEW i \in DOMAIN rows, Awaited(i)
  PROVE  \/ rows' = rows /\ Awaited(i)'
         \/ /\ pc = "set" /\ i = idx
            /\ \E a \in DevAddrs : session'[TargetOf(rows[i])] = Assemble(rows[i], a)
         \/ QueryFails /\ i = idx
         \/ stopped'
<1> DEFINE Goal == rows' = rows /\ Awaited(i)'
<1>1. /\ RowIsUsable(rows[i]) /\ pc \in {"parse", "row", "index", "set", "flush"}
      /\ rows' = rows => RowIsUsable(rows[i])'
      /\ i \in Nat /\ idx \in Nat
  BY DEF Awaited, RowIsUsable, TypeOK
<1>2. CASE ParseInputFile
  <2>1. pc' = "row" /\ idx' = 1 /\ rows' = rows /\ i >= 1
    BY <1>2 DEF ParseInputFile, Awaited, TypeOK
  <2> QED
    BY <1>1, <2>1 DEF Awaited
<1>3. CASE PrepareRow
  <2>1. CASE RowIsUsable(row)
    BY <1>1, <1>3, <2>1 DEF PrepareRow, Awaited
  <2>2. CASE ~RowIsUsable(row)
    <3>1. i >= idx /\ i # idx
      BY <1>1, <1>3, <2>2 DEF PrepareRow, Awaited, row
    <3> QED
      BY <1>1, <1>3, <2>2, <3>1, NextRowIsAwaited DEF PrepareRow, ImportSteps
  <2> QED
    BY <2>1, <2>2
<1>4. CASE QueryFails
  <2>1. CASE i = idx
    BY <1>4, <2>1
  <2>2. CASE i # idx
    <3>1. i > idx
      BY <1>1, <1>4, <2>2 DEF QueryFails, Awaited
    <3> QED
      BY <1>1, <1>4, <3>1, NextRowIsAwaited DEF QueryFails, ImportSteps
  <2> QED
    BY <2>1, <2>2
<1>5. CASE Index
  BY <1>1, <1>5 DEF Index, Awaited
<1>6. CASE Set
  <2>1. CASE i = idx
    <3>1. target \in DevEUIs /\ row = rows[i] /\ target = TargetOf(rows[i])
      BY <1>6, <2>1, RowType DEF Set, ImportSteps, row, target
    <3>2. session'[TargetOf(rows[i])] = toSave
      BY <1>6, <3>1 DEF Set, SetSession, TypeOK
    <3> QED
      BY <1>6, <2>1, <3>1, <3>2 DEF Set, SavesRow
  <2>2. CASE i # idx
    BY <1>1, <1>6, <2>2 DEF Set, Awaited
  <2> QED
    BY <2>1, <2>2
<1>7. CASE Flush
  BY <1>1, <1>7, NextRowIsAwaited DEF Flush, ImportSteps, Awaited
<1>8. CASE Network
  BY <1>1, <1>8 DEF Network, toolVars, Awaited
<1>9. CASE Abort
  BY <1>9 DEF Abort
<1>10. ~ReadSession /\ ~WriteFile /\ ~ReadFails
  BY <1>1 DEF ReadSession, WriteFile, ReadFails
<1>11. /\ \A l \in ExportLists : ~StartExport(l)
       /\ \A f \in files, defect \in Defects \union {"none"} :
             \A j \in DOMAIN f : ~StartImport(f, j, defect)
  BY <1>1 DEF StartExport, StartImport
<1> QED
  BY <1>2, <1>3, <1>4, <1>5, <1>6, <1>7, <1>8, <1>9, <1>10, <1>11 DEF Next, Step

\* One damaged row, one device that is not provisioned or one failed query never
\* costs another row of the file its import, and what is saved in a row's turn is
\* that row, whatever the network does between the steps.
THEOREM UsableRowsAreSaved == Spec => NoRowIsPassedOver
<1>1. Init => SavesRow
  BY DEF Init, SavesRow
<1>2. TypeOK /\ SavesRow /\ [Next]_vars
      => [\A i \in DOMAIN rows : Awaited(i) =>
             \/ rows' = rows /\ Awaited(i)'
             \/ /\ pc = "set" /\ i = idx
                /\ \E a \in DevAddrs : session'[TargetOf(rows[i])] = Assemble(rows[i], a)
             \/ QueryFails /\ i = idx
             \/ stopped']_vars
  BY StepPassesNoRow
<1> QED
  BY <1>1, <1>2, TypeCorrect, SavesRowStep, PTL DEF Spec, NoRowIsPassedOver
=============================================================================
