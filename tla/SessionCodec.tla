---------------------------- MODULE SessionCodec ----------------------------
(***************************************************************************)
(* What becomes of the fields of a DeviceSession on their way through the   *)
(* three forms the tool knows: the Go struct in memory, the protobuf message *)
(* in Redis, and the row of a CSV file.                                     *)
(*                                                                         *)
(* A session is a function from the names of the struct's fields to values. *)
(* Each conversion treats a field by the kind of its types on both sides, so *)
(* the fields are grouped by kind.  The zero value of Go is 0, false, the   *)
(* empty string, list or map, or None for a pointer; a string, key or id is *)
(* a number that names it.  Fixed-width integers wrap at the moduli below.  *)
(***************************************************************************)
EXTENDS Integers, Sequences

CONSTANTS
    W8, W16, W32,  \* 2^8, 2^16 and 2^32
    None,          \* the nil pointer
    MapColumn,     \* struct2csv, a library, writes a column for a field of map type
    NSProfiles,    \* the id by which set-sessions replaces the profile ids
    Inputs         \* sessions to begin with

ASSUME CodecAssumption ==
    /\ W8 \in Nat \ {0} /\ W16 \in Nat \ {0} /\ W32 \in Nat \ {0}
    /\ W8 % 2 = 0 /\ W8 <= W16 /\ W16 <= W32
    /\ NSProfiles \in Nat
    /\ MapColumn \in BOOLEAN

-----------------------------------------------------------------------------
(* The fields of DeviceSession.                                            *)

Keys == {"FNwkSIntKey", "SNwkSIntKey", "NwkSEncKey", "AppSKey"}
Addresses == {"MACVersion", "DevAddr", "DevEUI", "JoinEUI"}
Counts == {"FCntUp", "NFCntDown", "AFCntDown", "ConfFCnt"}
ProfileIDs == {"DeviceProfileID", "ServiceProfileID", "RoutingProfileID"}

\* Strings, arrays, bool, float64 and uint32, with the same type on both sides.
Scalars == Keys \union Addresses \union Counts \union ProfileIDs \union
    {"NoAppSKey", "SkipFCntValidation", "FCntAutomaticReset", "RX2Frequency",
     "ADR", "BeaconLocked", "PingSlotFrequency", "RejoinRequestEnabled",
     "ReferenceAltitude", "UplinkDwellTime400ms", "DownlinkDwellTime400ms",
     "IsDisabled"}
Lists == {"ChannelFrequencies"}
Bytes == {"RXDelay", "RX1DROffset", "RX2DR", "NbTrans", "UplinkMaxEIRPIndex"}
Words == {"RejoinCount0"}
Ints == {"TXPowerIndex", "DR", "MinSupportedTXPowerIndex",
         "MaxSupportedTXPowerIndex", "PingSlotNb", "PingSlotDR",
         "RejoinRequestMaxCountN", "RejoinRequestMaxTimeN"}
\* Of an entry of UplinkHistory one int stands for all: an SNR, a multiple of
\* 0.25 dB, fits into a float32.
IntLists == {"EnabledUplinkChannels", "UplinkHistory"}
\* As sets of pairs of the key and the value.
IntMaps == {"ExtraUplinkChannels", "MACCommandErrorCount"}
Times == {"LastDevStatusRequested"}
Envelope == "AppSKeyEvelope"
Pending == "PendingRejoinDeviceSession"
\* The message has no field for these.
Dropped == {"RXWindow", "AppSKeyOnAS", "EnabledChannels", "Per"}

FlatFields == Scalars \union Lists \union Bytes \union Words \union Ints
                \union IntLists \union IntMaps \union Times \union {Envelope}
Carried == FlatFields \union {Pending}
Fields == Carried \union Dropped

Zero(f) == CASE f \in Lists \union IntLists \union {"EnabledChannels"} -> <<>>
             [] f \in IntMaps -> {}
             [] f \in {Envelope, Pending} -> None
             [] OTHER -> 0

Uint8 == 0..(W8 - 1)
Uint16 == 0..(W16 - 1)
Uint32 == 0..(W32 - 1)

\* The values of a field in a session; an int is one that fits into 32 bits, a
\* time is in nanoseconds since 1970 or the zero time.
Value(f) ==
    CASE f \in Bytes -> Uint8
      [] f \in Words -> Uint16
      [] f = "RXWindow" -> (-(W8 \div 2))..((W8 \div 2) - 1)
      [] f \in Ints -> Uint32
      [] f \in IntLists -> Seq(Uint32)
      [] f = "ExtraUplinkChannels" -> SUBSET (Uint32 \X Uint32)
      [] f = "MACCommandErrorCount" -> SUBSET (Uint8 \X Uint32)
      [] f \in Lists \union {"EnabledChannels"} -> Seq(Nat)
      [] f = Envelope -> {None} \union (Nat \X Nat)
      [] OTHER -> Nat

IsFlat(s, F) == DOMAIN s = F /\ \A f \in F \ {Pending} : s[f] \in Value(f)

IsSession(s) ==
    /\ IsFlat(s, Fields)
    /\ s[Pending] # None =>
          IsFlat(s[Pending], Fields) /\ s[Pending][Pending] = None

ASSUME InputsAssumption == \A s \in Inputs : IsSession(s)

-----------------------------------------------------------------------------
(* deviceSessionToPB and deviceSessionFromPB.                              *)

\* The UnixNano of the zero time is negative.
Encode(f, v) ==
    CASE f \in Ints -> v % W32
      [] f \in IntLists -> [i \in DOMAIN v |-> v[i] % W32]
      [] f \in IntMaps -> {<<p[1] % W32, p[2] % W32>> : p \in v}
      [] f \in Times -> IF v = 0 THEN -1 ELSE v
      [] OTHER -> v

\* Fault: the zero time is read back as one long before 1970.
DecodeAnyTime(f, v) ==
    CASE f \in Bytes -> v % W8
      [] f \in Words -> v % W16
      [] OTHER -> v

Decode(f, v) ==
    CASE f \in Bytes -> v % W8
      [] f \in Words -> v % W16
      [] f \in Times -> IF v > 0 THEN v ELSE 0
      [] f = "MACCommandErrorCount" -> {<<p[1] % W8, p[2]>> : p \in v}
      [] OTHER -> v

FlatToPB(s) == [f \in FlatFields |-> Encode(f, s[f])]
FlatFromPB(m) ==
    [f \in Fields |-> IF f \in FlatFields THEN Decode(f, m[f]) ELSE Zero(f)]

\* The nil pointer is not a session.
ASSUME NoneAssumption ==
    \A s \in Inputs : s[Pending] # None =>
        /\ FlatToPB(s[Pending]) # None
        /\ FlatFromPB(FlatToPB(s[Pending])) # None

\* Fault: the nested session is stored as a session and read as a message.
ToPBWithoutPending(s) ==
    [f \in Carried |-> IF f = Pending THEN None ELSE Encode(f, s[f])]

\* The pending session of a rejoin is a message within the message; it has no
\* pending session of its own.
deviceSessionToPB(s) ==
    [f \in Carried |->
        IF f # Pending THEN Encode(f, s[f])
        ELSE IF s[Pending] = None THEN None ELSE FlatToPB(s[Pending])]

deviceSessionFromPB(m) ==
    [f \in Fields |->
        IF f # Pending THEN FlatFromPB(m)[f]
        ELSE IF m[Pending] = None THEN None ELSE FlatFromPB(m[Pending])]

-----------------------------------------------------------------------------
(* CSVfromDeviceSession, and the row back into a session by set-sessions.  *)

\* DeviceSessionCSV.  The column of the map is there and stays empty if
\* struct2csv writes one.
SameColumns == Addresses \union Counts \union
    {"FNwkSIntKey", "PingSlotNb", "EnabledUplinkChannels", "IsDisabled",
     "RXDelay", "RX1DROffset", "RX2Frequency", "RX2DR", "NbTrans"}
Columns == SameColumns \union {"TXPowerIndex", "DR", "RXWindow", "SNwkSIntKey",
                               "NwkSEncKey", "AESKey", "KEKLabel"}

CSVfromDeviceSession(s) ==
    [c \in Columns |->
        CASE c \in SameColumns -> s[c]
          [] c \in {"TXPowerIndex", "DR", "RXWindow"} -> s[c] % W32
          [] c \in {"SNwkSIntKey", "NwkSEncKey"} -> s["FNwkSIntKey"]
          [] c = "AESKey" -> s["AppSKey"]
          [] c = "KEKLabel" -> 0]

\* Fault: the numbers are parsed as 32-bit integers with a sign.
CanBeParsedAsInt32(r) ==
    /\ r["EnabledUplinkChannels"] # <<>>
    /\ ~MapColumn
    /\ \A c \in Counts : r[c] < W32 \div 2

\* stringTypeConverter splits at commas: no number is found in an empty list.
\* There is no conversion to a map at all.
CanBeParsed(r) == r["EnabledUplinkChannels"] # <<>> /\ ~MapColumn

\* Fault: the data rate of the ping slot is taken from the column of the other one.
SessionFromRowPingSlot(r) ==
    [f \in Fields |->
        CASE f \in {"RXDelay", "RX1DROffset", "RX2DR", "NbTrans"} -> r[f] % W8
          [] f \in Columns \ Bytes -> r[f]
          [] f = "AppSKey" -> r["AESKey"]
          [] f = "PingSlotDR" -> r["DR"]
          [] OTHER -> Zero(f)]

\* Fault: the delay of RX1 is taken for the offset of its data rate.
SessionFromRowSwapped(r) ==
    [f \in Fields |->
        CASE f = "RXDelay" -> r["RX1DROffset"]
          [] f = "RX1DROffset" -> r["RXDelay"]
          [] f \in Columns \ {"RXDelay", "RX1DROffset"} -> r[f]
          [] f = "AppSKey" -> r["AESKey"]
          [] f = Envelope -> <<r["KEKLabel"], r["AESKey"]>>
          [] OTHER -> Zero(f)]

\* prepareAndSaveDeviceSessions, with -u 0 -d 0.  An AESKey is always there, of
\* zeros if need be, so there always is an envelope.
SessionFromRow(r) ==
    [f \in Fields |->
        CASE f \in {"RXDelay", "RX1DROffset", "RX2DR", "NbTrans"} -> r[f] % W8
          [] f = "RXWindow" -> ((r[f] + W8 \div 2) % W8) - (W8 \div 2)  \* an int8
          [] f \in {"TXPowerIndex", "DR", "SNwkSIntKey", "NwkSEncKey"} -> r[f]
          [] f \in SameColumns \ Bytes -> r[f]
          [] f = "AppSKey" -> r["AESKey"]
          [] f = Envelope -> <<r["KEKLabel"], r["AESKey"]>>
          [] f \in ProfileIDs -> NSProfiles
          [] OTHER -> Zero(f)]

-----------------------------------------------------------------------------
(* A session on its way: saved by the network-server or by a command, loaded *)
(* by the same code, exported by get-sessions, imported by set-sessions.    *)

VARIABLES
    form,      \* in which form it is
    content,   \* its fields, in that form
    orig,      \* history: the session it started as
    imported   \* history: it has been through a file

vars == <<form, content, orig, imported>>

Init ==
    /\ orig \in Inputs
    /\ form = "redis" /\ content = deviceSessionToPB(orig)
    /\ imported = FALSE

Load ==
    /\ form = "redis"
    /\ form' = "loaded" /\ content' = deviceSessionFromPB(content)
    /\ UNCHANGED <<orig, imported>>

Save ==
    /\ form \in {"loaded", "imported"}
    /\ form' = "redis" /\ content' = deviceSessionToPB(content)
    /\ UNCHANGED <<orig, imported>>

Export ==
    /\ form = "loaded"
    /\ form' = "csv" /\ content' = CSVfromDeviceSession(content)
    /\ UNCHANGED <<orig, imported>>

\* A row that cannot be parsed makes the command exit.
Import ==
    /\ form = "csv"
    /\ IF CanBeParsed(content)
       THEN form' = "imported" /\ content' = SessionFromRow(content) /\ imported' = TRUE
       ELSE form' = "rejected" /\ UNCHANGED <<content, imported>>
    /\ UNCHANGED orig

Next == Load \/ Save \/ Export \/ Import

Spec == Init /\ [][Next]_vars

-----------------------------------------------------------------------------
(* Properties.                                                             *)

\* Also a message differs from that only in its times.
IsMessage(m) ==
    /\ DOMAIN m = Carried
    /\ \A f \in FlatFields \ Times : m[f] \in Value(f)
    /\ \A f \in Times : m[f] \in Int \ {0}

TypeOK ==
    /\ imported \in BOOLEAN
    /\ IsSession(orig)
    /\ CASE form = "redis" -> IsMessage(content)
         [] form \in {"loaded", "imported"} -> IsSession(content)
         [] form \in {"csv", "rejected"} -> DOMAIN content = Columns

\* Saving and loading lose no field but the four that the message does not
\* have, in the session and in the pending session of a rejoin within it,
\* however often.
OnlyDroppedAreLost ==
    form = "loaded" /\ ~imported =>
        /\ \A f \in FlatFields : content[f] = orig[f]
        /\ content[Pending] = None <=> orig[Pending] = None
        /\ orig[Pending] # None =>
              \A f \in FlatFields : content[Pending][f] = orig[Pending][f]

\* The fields that come back from a file as they were.
InFile == Addresses \union Counts \union
    {"FNwkSIntKey", "AppSKey", "TXPowerIndex", "NbTrans", "DR", "PingSlotNb",
     "EnabledUplinkChannels", "RXDelay", "RX1DROffset", "RX2Frequency", "RX2DR",
     "IsDisabled"}

\* Of what a device and its network-server must agree on, the state for which a row
\* has no value: the added channels, whose column is never filled, class B, the
\* dwell times, the power limit and the rejoin requests.
RadioNotInFile ==
    {"ExtraUplinkChannels", "ChannelFrequencies", "PingSlotDR", "PingSlotFrequency",
     "BeaconLocked", "UplinkDwellTime400ms", "DownlinkDwellTime400ms",
     "UplinkMaxEIRPIndex", "RejoinRequestEnabled", "RejoinRequestMaxCountN",
     "RejoinRequestMaxTimeN", "RejoinCount0"}

\* With the flags, the ADR and the statistics that no row holds either.
NotInFile == RadioNotInFile \union Times \union
    {"NoAppSKey", "SkipFCntValidation", "FCntAutomaticReset", "ADR", "ReferenceAltitude",
     "MinSupportedTXPowerIndex", "MaxSupportedTXPowerIndex", "UplinkHistory",
     "MACCommandErrorCount"}

\* Any number of saves and loads keeps all of a session, and the first file resets
\* exactly what it has no value for to the zero value, radio state that the device
\* still has and a pending session included, and keeps the rest.  (Apart from two
\* keys, see KeysSurvive, the envelope and the profiles, which are made anew.)
FilesResetWhatTheyLack ==
    form \in {"loaded", "imported"} =>
        /\ \A f \in InFile : content[f] = orig[f]
        /\ \A f \in NotInFile : content[f] = IF imported THEN Zero(f) ELSE orig[f]
        /\ imported => content[Pending] = None

\* A file of the tool's own making is refused only when a session in it had no
\* enabled channel from the start, or when struct2csv writes maps.
RejectedOnlyWithoutChannels ==
    form = "rejected" => orig["EnabledUplinkChannels"] = <<>> \/ MapColumn

\* get-sessions "gets sessions for the list of devices and saves the output in
\* file"; its columns SNwkSIntKey and NwkSEncKey are for these keys.
KeysSurvive ==
    form \in {"loaded", "imported"} => \A k \in Keys : content[k] = orig[k]
=============================================================================
