---------------------------- MODULE MoveSessions ----------------------------
(***************************************************************************)
(* The commands get-sessions and set-sessions: sessions are read from Redis *)
(* into a CSV file, and saved from such a file to Redis, of this or another *)
(* platform.  Between the two, and during each, the network goes on.        *)
(*                                                                         *)
(* Redis is that of the platform that serves the devices: a move to another *)
(* platform is LoseSession, for the sessions stay behind, and then the      *)
(* import; an import before the move is the same import just after it, as   *)
(* the file does not change and nothing uses the copy until then.           *)
(*                                                                         *)
(* Unlike the restore commands, set-sessions asks nobody whether a session  *)
(* is there or whether its own is out of date.  What it writes is right to  *)
(* the extent that -u and -d make up for the frames since the export.       *)
(* Counters are uint32: here 0..MaxFCnt + 1, with sums modulo FCntMod.      *)
(***************************************************************************)
EXTENDS NetworkServer, Sequences

CONSTANTS
    ExportLists,     \* arguments of get-sessions: lists of DevEUIs
    Provisioned,     \* devices with a row in the NS database of set-sessions
    UpCntIncrease,   \* -u and -d, any int; 0 when the flag is not given
    DownCntIncrease,
    ShortOf,         \* ShortOf[d]: the DevEUI that d's without one byte is read as
    Defects,         \* what can be wrong with one row of an edited file
    MaxExports,      \* bounds on the runs of get-sessions and on the rows
    MaxImports       \* given to set-sessions

\* A spreadsheet strips zeros, which leaves a hex string of odd length, that
\* cannot be decoded ("DevEUI", "AESKey"), or one byte less (test.csv:2), that
\* can ("shortDevEUI", "shortAESKey"); of the other columns it makes no
\* difference.  A column can be missing (test3.csv:1).
AllDefects == {"DevEUI", "shortDevEUI", "DevAddr", "NwkKey",
               "AESKey", "shortAESKey", "noAESKey", "column"}

ASSUME MoveAssumption ==
    /\ ExportLists \subseteq Seq(DevEUIs) \ {<<>>}
    /\ Provisioned \subseteq DevEUIs
    /\ UpCntIncrease \in Int /\ DownCntIncrease \in Int
    /\ Defects \subseteq AllDefects
    /\ MaxExports \in Nat /\ MaxImports \in Nat

\* Nobody has the DevEUI of zeros alone.
ASSUME ShortAssumption ==
    ShortOf \in [DevEUIs -> DevEUIs] /\ \A d \in DevEUIs : ShortOf[d] # d

VARIABLES
    pc,           \* the next step of the command that is running
    list,         \* ctx.Devices of get-sessions
    rows,         \* the items of get-sessions; ctx.inputData of set-sessions
    idx,          \* the position of the loop
    toSave,       \* the session s of set-sessions, or None
    files,        \* the files written so far
    exports,      \* runs of get-sessions started
    imports,      \* rows of the files given to set-sessions
    \* History:
    stopped,      \* the present or the last run has been stopped by Abort
    interrupted,  \* devices whose session was saved by a run that then stopped
                  \* before it flushed their queue
    spoilt,       \* devices for which a row with an unreported defect was saved
    outrun        \* outrun[d]: counters that had gone further than the increase
                  \* makes up for, or wrapped, when d's session was saved

toolVars == <<pc, list, rows, idx, toSave, files, exports, imports, stopped,
              interrupted, spoilt, outrun>>
runVars == <<exports, imports, stopped>>
historyVars == <<interrupted, spoilt, outrun>>
vars == <<networkVars, toolVars>>

FCntMod == MaxFCnt + 2

\* The counters that -u and -d are added to.
Counters == {"FCntUp", "NFCntDown"}

\* What a session of set-sessions can hold: 0 for keys that no join of the
\* device has made.
Imported == [DevAddr : DevAddrs, NwkKeys : 0..MaxGen, AppSKey : 0..MaxGen,
             FCntUp : FCnts, NFCntDown : FCnts, AFCntDown : FCnts]

Row == [DevEUI : DevEUIs, s : Imported, defect : AllDefects \union {"none"}]

ImportSteps == {"row", "index", "set", "flush"}
Running == pc # "idle"

TypeOK ==
    /\ RowsTypeOK
    /\ session \in [DevEUIs -> Imported \union {None}]
    /\ pc \in ImportSteps \union {"idle", "read", "write", "parse"}
    /\ list \in ExportLists \union {<<>>}
    /\ rows \in Seq(Row) /\ (pc = "parse" => rows # <<>>)
    /\ idx \in Nat
    /\ pc = "read" => idx \in 1..Len(list)
    /\ pc \in ImportSteps => idx \in 1..Len(rows)
    /\ toSave \in Imported \union {None}
    /\ pc \in {"index", "set"} => toSave \in Imported
    /\ files \subseteq Seq(Row) \ {<<>>}
    /\ exports \in 0..MaxExports /\ imports \in 0..MaxImports
    /\ stopped \in BOOLEAN
    /\ interrupted \subseteq DevEUIs /\ spoilt \subseteq DevEUIs
    /\ outrun \in [DevEUIs -> SUBSET Counters]

Init ==
    /\ NetworkInit
    /\ pc = "idle" /\ list = <<>> /\ rows = <<>> /\ idx = 0 /\ toSave = None
    /\ files = {} /\ exports = 0 /\ imports = 0 /\ stopped = FALSE
    /\ interrupted = {} /\ spoilt = {}
    /\ outrun = [d \in DevEUIs |-> {}]

-----------------------------------------------------------------------------
(* get-sessions.                                                           *)

\* The arguments are parsed, the format is csv, the storages are connected.
StartExport(l) ==
    /\ pc = "idle" /\ exports < MaxExports
    /\ pc' = "read" /\ list' = l /\ idx' = 1
    /\ exports' = exports + 1 /\ stopped' = FALSE
    /\ UNCHANGED <<networkVars, rows, toSave, files, imports, historyVars>>

\* The next iteration of the loop, with the items read so far.
NextRead(items) ==
    /\ rows' = items
    /\ IF idx < Len(list) THEN pc' = "read" /\ idx' = idx + 1
                          ELSE pc' = "write" /\ idx' = idx
    /\ UNCHANGED <<networkVars, list, toSave, files, runVars, historyVars>>

\* CSVfromDeviceSession writes FNwkSIntKey into all three columns of network
\* keys.  They are one key for a 1.0 device; a 1.1 device loses two of its keys.
ItemOf(d) == [DevEUI |-> d, defect |-> "none",
              s |-> [session[d] EXCEPT !.NwkKeys = IF d \in Is11 THEN 0 ELSE @]]

\* Fault: what GetDeviceSession answers is taken whatever its error.
ReadSessionUnchecked ==
    /\ pc = "read"
    /\ NextRead(Append(rows, [DevEUI |-> list[idx], defect |-> "none",
                              s |-> session[list[idx]]]))

\* GetDeviceSession: a device without a session is left out.
ReadSession ==
    /\ pc = "read"
    /\ NextRead(IF DoesNotExist(list[idx]) THEN rows
                ELSE Append(rows, ItemOf(list[idx])))

\* A GET that fails leaves the device out as well, and the run goes on.
ReadFails ==
    /\ pc = "read"
    /\ NextRead(rows)

\* The process is gone, and its variables with it.
Exit == pc' = "idle" /\ list' = <<>> /\ rows' = <<>> /\ idx' = 0 /\ toSave' = None

\* marshalData and writeDataToFile: every file has a name of its own.  Without
\* an item there is nothing to import: set-sessions panics on a file without
\* its first line.
WriteFile ==
    /\ pc = "write"
    /\ files' = files \union ({rows} \ {<<>>})
    /\ Exit
    /\ UNCHANGED <<networkVars, runVars, historyVars>>

-----------------------------------------------------------------------------
(* set-sessions.                                                           *)

\* The command is given a file, as written or with one row edited.
StartImport(f, i, defect) ==
    /\ pc = "idle" /\ imports + Len(f) <= MaxImports
    /\ pc' = "parse" /\ rows' = [f EXCEPT ![i].defect = defect]
    /\ imports' = imports + Len(f) /\ stopped' = FALSE
    /\ UNCHANGED <<networkVars, list, idx, toSave, files, exports, historyVars>>

\* parseInputFile: one value that its column cannot take, or one unknown
\* column, and the command exits before it has saved anything.
ParseInputFile ==
    /\ pc = "parse"
    /\ IF \E i \in DOMAIN rows : rows[i].defect = "column"
       THEN Exit
       ELSE pc' = "row" /\ idx' = 1 /\ UNCHANGED <<list, rows, toSave>>
    /\ UNCHANGED <<networkVars, files, runVars, historyVars>>

\* The DevEUI that the column is read as: a byte less leaves the last one zero.
TargetOf(r) == IF r.defect = "shortDevEUI" THEN ShortOf[r.DevEUI] ELSE r.DevEUI

row == rows[idx]
target == TargetOf(row)

\* The next iteration of the loop; the run ends after the last one.
NextRow ==
    IF idx < Len(rows)
    THEN /\ pc' = "row" /\ idx' = idx + 1 /\ toSave' = None
         /\ UNCHANGED <<list, rows>>
    ELSE Exit

\* What -u and -d add.
Increase == [FCntUp |-> UpCntIncrease, NFCntDown |-> DownCntIncrease]

\* Fault: the increase is made when the row is parsed, and again here.
NextCounterTwice(r, c) == (r.s[c] + 2 * Increase[c]) % FCntMod

\* Fault: the flags are registered and never used.
NextCounterAsInFile(r, c) == r.s[c]

NextCounter(r, c) == (r.s[c] + Increase[c]) % FCntMod

\* Fault: the address is taken from the NS database, as the profile ids are.
AssembleNewestAddr(r, a) ==
    [r.s EXCEPT !.DevAddr = IF activation[r.DevEUI] = 0 THEN a
                            ELSE Addr[r.DevEUI][activation[r.DevEUI]],
                !.FCntUp = NextCounter(r, "FCntUp"),
                !.NFCntDown = NextCounter(r, "NFCntDown")]

\* The session of row r.  An address that cannot be decoded is cut off or zero,
\* in any case another one, a, and a bad key no key: nobody looks at the errors
\* of these columns, nor at the length of any.  The keys of one device are none
\* of the device whose DevEUI is read instead of its own.
Assemble(r, a) ==
    [DevAddr |-> IF r.defect = "DevAddr" THEN a ELSE r.s.DevAddr,
     NwkKeys |-> IF r.defect \in {"NwkKey", "shortDevEUI"} THEN 0 ELSE r.s.NwkKeys,
     AppSKey |-> IF r.defect \in {"noAESKey", "shortAESKey", "shortDevEUI"} THEN 0
                 ELSE r.s.AppSKey,
     FCntUp |-> NextCounter(r, "FCntUp"),
     NFCntDown |-> NextCounter(r, "NFCntDown"),
     AFCntDown |-> r.s.AFCntDown]

\* "Row Skipped": the DevEUI or the AppSKey is not hex of whole bytes, or the
\* device that the DevEUI is read as is not in the NS database.
RowIsUsable(r) == r.defect \notin {"DevEUI", "AESKey"} /\ TargetOf(r) \in Provisioned

\* Fault: the error of a row is returned, and what follows it is not read.
PrepareRowReturns ==
    /\ pc = "row"
    /\ IF RowIsUsable(row)
       THEN /\ \E a \in DevAddrs : toSave' = Assemble(row, a)
            /\ pc' = "index"
            /\ UNCHANGED <<list, rows, idx>>
       ELSE Exit
    /\ UNCHANGED <<networkVars, files, runVars, historyVars>>

PrepareRow ==
    /\ pc = "row"
    /\ IF RowIsUsable(row)
       THEN /\ \E a \in DevAddrs : toSave' = Assemble(row, a)
            /\ pc' = "index"
            /\ UNCHANGED <<list, rows, idx>>
       ELSE NextRow
    /\ UNCHANGED <<networkVars, files, runVars, historyVars>>

\* The NS query fails for another reason than a missing row: skipped as well.
QueryFails ==
    /\ pc = "row"
    /\ NextRow
    /\ UNCHANGED <<networkVars, files, runVars, historyVars>>

\* Fault: the set of the address is refreshed, the device not added.
IndexOnlyExpires ==
    /\ pc = "index"
    /\ pc' = "set"
    /\ UNCHANGED <<networkVars, list, rows, idx, toSave, files, runVars, historyVars>>

\* SaveDeviceSession, first transaction.
Index ==
    /\ pc = "index"
    /\ SAdd(toSave.DevAddr, target)
    /\ pc' = "set"
    /\ UNCHANGED <<session, activation, asDevice, nextUp, acceptedUp, sentDown,
                   lastRX, lastTX, macQueue>>
    /\ UNCHANGED <<list, rows, idx, toSave, files, runVars, historyVars>>

\* The counters of device d for which what row r brings is not enough: the
\* network has counted on, or the sum does not fit into 32 bits.
Outrun(d, r) ==
    LET used == [FCntUp |-> acceptedUp[d], NFCntDown |-> sentDown[d].N]
    IN {c \in Counters : \/ used[c] > r.s[c] + Increase[c]
                         \/ r.s[c] + Increase[c] \notin FCnts}

\* SaveDeviceSession, last transaction: whatever the key holds is replaced.
Set ==
    /\ pc = "set"
    /\ SetSession(target, toSave)
    /\ pc' = "flush"
    /\ outrun' = [outrun EXCEPT ![target] = Outrun(target, row)]
    /\ spoilt' = IF row.defect = "none" THEN spoilt ELSE spoilt \union {target}
    /\ UNCHANGED <<devAddrSet, activation, asDevice, nextUp, acceptedUp, sentDown,
                   lastRX, lastTX, macQueue>>
    /\ UNCHANGED <<list, rows, idx, toSave, files, runVars, interrupted>>

\* Fault: the flush is left out, as in restore-sessions-from-dump.
FlushLeftOut ==
    /\ pc = "flush"
    /\ NextRow
    /\ UNCHANGED <<networkVars, files, runVars, historyVars>>

\* FlushMACCommandQueue.
Flush ==
    /\ pc = "flush"
    /\ FlushMACCommandQueue(target)
    /\ NextRow
    /\ interrupted' = interrupted \ {target}
    /\ UNCHANGED <<keyVars, activation, asDevice, nextUp, acceptedUp, sentDown,
                   lastRX, lastTX>>
    /\ UNCHANGED <<files, runVars, spoilt, outrun>>

\* The tool is killed, or an error of a file or of Redis makes it exit.
Abort ==
    /\ Running
    /\ Exit
    /\ stopped' = TRUE
    /\ interrupted' = IF pc = "flush" THEN interrupted \union {target} ELSE interrupted
    /\ UNCHANGED <<networkVars, files, exports, imports, spoilt, outrun>>

-----------------------------------------------------------------------------
\* The tool when nothing fails.
Step == \/ ReadSession \/ WriteFile
        \/ ParseInputFile \/ PrepareRow \/ Index \/ Set \/ Flush

\* The rows of the application-server are left out: neither command reads them.
\* A set that a save has just refreshed outlives that save: see SessionStore.
Network ==
    \E d \in DevEUIs :
       \/ /\ Join(d)
          /\ interrupted' = interrupted \ {d}
          /\ outrun' = [outrun EXCEPT ![d] = {}]
          /\ UNCHANGED <<pc, list, rows, idx, toSave, files, runVars, spoilt>>
       \/ /\ LoseSession(d)
          /\ pc = "set" => devAddrSet' = devAddrSet
          /\ UNCHANGED toolVars
       \/ UplinkAccepted(d) /\ UNCHANGED toolVars
       \/ UplinkDropped(d) /\ UNCHANGED toolVars
       \/ Downlink(d) /\ UNCHANGED toolVars
       \/ EnqueueMac(d) /\ UNCHANGED toolVars

Next ==
    \/ \E l \in ExportLists : StartExport(l)
    \/ \E f \in files, defect \in Defects \union {"none"} :
          \E i \in DOMAIN f : StartImport(f, i, defect)
    \/ Step
    \/ ReadFails
    \/ QueryFails
    \/ Abort
    \/ Network

Spec == Init /\ [][Next]_vars

-----------------------------------------------------------------------------
(* Properties.                                                             *)

\* The session in use of device d, if the network-server can use it.
InUse(d) ==
    activation[d] # 0 /\ session[d] # None /\ session[d].NwkKeys = activation[d]

\* "you must increase up\down counters by your own": a session never accepts an
\* uplink counter twice if -u covers what was accepted since the export, however
\* often and in which order files are imported over one another, and however
\* long before or after a move.
UplinkCounterFresh ==
    \A d \in DevEUIs : InUse(d) =>
        session[d].FCntUp >= acceptedUp[d] \/ "FCntUp" \in outrun[d]

\* Nor does it send a downlink counter twice if -d covers the downlinks.  -d is
\* not added to AFCntDown, and an import can leave it behind; but only a 1.1
\* device uses that counter, and no session from a file has the keys of one.
DownlinkCounterFresh ==
    \A d \in DevEUIs : InUse(d) =>
        /\ session[d].NFCntDown >= sentDown[d].N \/ "NFCntDown" \in outrun[d]
        /\ session[d].AFCntDown >= sentDown[d].A

\* -u makes a device that did not send in vain for at most so many frames: the
\* increase is that of the file, so repeated imports of one file do not add up;
\* only an import that was exported again does.
LockoutIsBounded ==
    UpCntIncrease >= 0 => \A d \in DevEUIs : InUse(d) =>
        session[d].FCntUp <= nextUp[d] + UpCntIncrease * exports

\* The address and AppSKey of s are those of one join of d, of n so far, and so
\* are its network keys, or those of a 1.1 device are none: they come from a file.
OfOneActivation(d, s, n) ==
    /\ s.AppSKey \in 1..n
    /\ s.DevAddr = Addr[d][s.AppSKey]
    /\ s.NwkKeys = s.AppSKey \/ (d \in Is11 /\ s.NwkKeys = 0)

\* An address and keys of different activations are saved only from a row with a
\* damaged column that no error reports: whatever joins and is lost between
\* export and import, and however files are imported over one another, an
\* undamaged row brings what one join made, but for the keys that the file of a
\* 1.1 device does not have.
KeysFromOneActivation ==
    \A d \in DevEUIs : session[d] # None =>
        OfOneActivation(d, session[d], activation[d]) \/ d \in spoilt

\* A saved session is in the set of its own address, damaged or not, wherever
\* runs stop.
SessionIsIndexed ==
    \A d \in DevEUIs : session[d] # None => d \in devAddrSet[session[d].DevAddr]

\* Row i of a file without unreadable values is still to be saved.
Awaited(i) ==
    /\ RowIsUsable(rows[i])
    /\ \/ pc = "parse" /\ \A j \in DOMAIN rows : rows[j].defect # "column"
       \/ pc \in {"row", "index", "set"} /\ i >= idx
       \/ pc = "flush" /\ i > idx

\* A usable row is saved, with its own keys and increased counters, whatever the
\* rows before it were like and whatever happens meanwhile; a failed query costs
\* the row it was made for, only a run that is stopped costs the others.
NoRowIsPassedOver ==
    [][\A i \in DOMAIN rows : Awaited(i) =>
          \/ rows' = rows /\ Awaited(i)'
          \/ /\ pc = "set" /\ i = idx
             /\ \E a \in DevAddrs : session'[TargetOf(rows[i])] = Assemble(rows[i], a)
          \/ QueryFails /\ i = idx
          \/ stopped']_vars

\* MAC commands of a lost session are inherited only while a run that stopped
\* between save and flush has not been repeated.
LeftoversOnlyAfterInterruption ==
    \A d \in DevEUIs :
        session[d] # None /\ "leftover" \in macQueue[d] =>
            d \in interrupted \/ (pc = "flush" /\ target = d)
=============================================================================
