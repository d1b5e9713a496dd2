------------------------- MODULE SessionCodecProofs -------------------------
(***************************************************************************)
(* Proofs about SessionCodec, for all sessions and any widths of integers.  *)
(***************************************************************************)
EXTENDS SessionCodec, SequenceTheorems, TLAPS

USE CodecAssumption

-----------------------------------------------------------------------------
(* The fields, one by one.                                                 *)

Modest == FlatFields \ (Bytes \union Words \union Ints \union IntLists \union IntMaps
                          \union Times)

LEMMA Kinds ==
  ASSUME NEW f \in FlatFields
  PROVE  f \in Bytes \union Words \union Ints \union IntLists \union IntMaps \union Times
                 \union Modest
BY DEF Modest

LEMMA NumberFits ==
  ASSUME NEW x \in Uint32
  PROVE  x % W32 = x
BY DEF Uint32

\* A list of numbers that fit is not changed by taking them modulo the width.
LEMMA ListFits ==
  ASSUME NEW v \in Seq(Uint32)
  PROVE  [i \in DOMAIN v |-> v[i] % W32] = v
<1>1. ASSUME NEW i \in DOMAIN v PROVE v[i] % W32 = v[i]
  <2>1. v[i] \in Uint32
    OBVIOUS
  <2> QED
    BY <2>1, NumberFits
<1>2. v = [i \in DOMAIN v |-> v[i]]
  OBVIOUS
<1> QED
  BY <1>1, <1>2

LEMMA MapFits ==
  ASSUME NEW K \in SUBSET Uint32, NEW v \in SUBSET (K \X Uint32)
  PROVE  {<<p[1] % W32, p[2] % W32>> : p \in v} = v
<1>1. ASSUME NEW p \in v PROVE p = <<p[1] % W32, p[2] % W32>>
  <2>1. p = <<p[1], p[2]>> /\ p[1] \in Uint32 /\ p[2] \in Uint32
    OBVIOUS
  <2>2. p[1] % W32 = p[1] /\ p[2] % W32 = p[2]
    BY <2>1 DEF Uint32
  <2> QED
    BY <2>1, <2>2
<1> QED
  BY <1>1

LEMMA ErrorCountFits ==
  ASSUME NEW v \in SUBSET (Uint8 \X Uint32)
  PROVE  {<<p[1] % W8, p[2]>> : p \in v} = v
<1>1. ASSUME NEW p \in v PROVE p = <<p[1] % W8, p[2]>>
  <2>1. p = <<p[1], p[2]>> /\ p[1] \in Uint8
    OBVIOUS
  <2>2. p[1] % W8 = p[1]
    BY <2>1 DEF Uint8
  <2> QED
    BY <2>1, <2>2
<1> QED
  BY <1>1

\* No field is of two kinds.
LEMMA KindsAreDisjoint ==
  ASSUME NEW f
  PROVE  /\ f \in Bytes => /\ f \notin Words /\ f \notin Ints /\ f \notin IntLists
                          /\ f \notin IntMaps /\ f \notin Times
         /\ f \in Words => /\ f \notin Ints /\ f \notin IntLists /\ f \notin IntMaps
                          /\ f \notin Times /\ f \notin Bytes
         /\ f \in Ints => /\ f \notin IntLists /\ f \notin IntMaps /\ f \notin Times
                         /\ f \notin Bytes /\ f \notin Words
         /\ f \in IntLists => /\ f \notin IntMaps /\ f \notin Times /\ f \notin Bytes
                             /\ f \notin Words /\ f \notin Ints
         /\ f \in IntMaps => /\ f \notin Times /\ f \notin Bytes /\ f \notin Words
                            /\ f \notin Ints /\ f \notin IntLists
         /\ f \in Times => /\ f \notin Bytes /\ f \notin Words /\ f \notin Ints
                          /\ f \notin IntLists /\ f \notin IntMaps
BY DEF Bytes, Words, Ints, IntLists, IntMaps, Times

LEMMA OtherFields ==
  ASSUME NEW f \in FlatFields
  PROVE  /\ f # "RXWindow" /\ f # "EnabledChannels" /\ f # Pending
         /\ f = "ExtraUplinkChannels" => f # "MACCommandErrorCount"
         /\ f \in IntMaps <=> f \in {"ExtraUplinkChannels", "MACCommandErrorCount"}
         /\ f \notin Modest => f \notin Lists \union {"EnabledChannels"} /\ f # Envelope
BY DEF FlatFields, Scalars, Keys, Addresses, Counts, ProfileIDs, Lists, Bytes, Words, Ints,
   IntLists, IntMaps, Times, Envelope, Pending, Modest

LEMMA Encoded ==
  ASSUME NEW f \in FlatFields, NEW v
  PROVE  /\ f \in Ints => Encode(f, v) = v % W32
         /\ f \in IntLists => Encode(f, v) = [i \in DOMAIN v |-> v[i] % W32]
         /\ f \in IntMaps => Encode(f, v) = {<<p[1] % W32, p[2] % W32>> : p \in v}
         /\ f \in Times => Encode(f, v) = IF v = 0 THEN -1 ELSE v
         /\ f \in Bytes \union Words \union Modest => Encode(f, v) = v
<1>1. f \in Ints => Encode(f, v) = v % W32
  BY KindsAreDisjoint, Zenon DEF Encode
<1>2. f \in IntLists => Encode(f, v) = [i \in DOMAIN v |-> v[i] % W32]
  BY KindsAreDisjoint, Zenon DEF Encode
<1>3. f \in IntMaps => Encode(f, v) = {<<p[1] % W32, p[2] % W32>> : p \in v}
  BY KindsAreDisjoint, Zenon DEF Encode
<1>4. f \in Times => Encode(f, v) = IF v = 0 THEN -1 ELSE v
  BY KindsAreDisjoint, Zenon DEF Encode
<1>5. f \in Bytes \union Words => Encode(f, v) = v
  BY KindsAreDisjoint, Zenon DEF Encode
<1>6. f \in Modest => Encode(f, v) = v
  BY Zenon DEF Encode, Modest
<1> QED
  BY <1>1, <1>2, <1>3, <1>4, <1>5, <1>6

LEMMA Decoded ==
  ASSUME NEW f \in FlatFields, NEW v
  PROVE  /\ f \in Bytes => Decode(f, v) = v % W8
         /\ f \in Words => Decode(f, v) = v % W16
         /\ f \in Times => Decode(f, v) = IF v > 0 THEN v ELSE 0
         /\ f = "MACCommandErrorCount" => Decode(f, v) = {<<p[1] % W8, p[2]>> : p \in v}
         /\ f \in Ints \union IntLists \union Modest \/ f = "ExtraUplinkChannels" =>
               Decode(f, v) = v
<1>1. f \in Bytes => Decode(f, v) = v % W8
  BY KindsAreDisjoint, OtherFields, Zenon DEF Decode
<1>2. f \in Words => Decode(f, v) = v % W16
  BY KindsAreDisjoint, OtherFields, Zenon DEF Decode
<1>3. f \in Times => Decode(f, v) = IF v > 0 THEN v ELSE 0
  BY KindsAreDisjoint, OtherFields, Zenon DEF Decode
<1>4. f = "MACCommandErrorCount" => Decode(f, v) = {<<p[1] % W8, p[2]>> : p \in v}
  BY KindsAreDisjoint, OtherFields, Zenon DEF Decode
<1>5. f \in Ints \union IntLists \/ f = "ExtraUplinkChannels" => Decode(f, v) = v
  BY KindsAreDisjoint, OtherFields, Zenon DEF Decode
<1>6. f \in Modest => Decode(f, v) = v
  BY OtherFields, Zenon DEF Decode, Modest
<1> QED
  BY <1>1, <1>2, <1>3, <1>4, <1>5, <1>6

LEMMA Values ==
  ASSUME NEW f \in FlatFields
  PROVE  /\ f \in Bytes => Value(f) = Uint8
         /\ f \in Words => Value(f) = Uint16
         /\ f \in Ints => Value(f) = Uint32
         /\ f \in IntLists => Value(f) = Seq(Uint32)
         /\ f = "ExtraUplinkChannels" => Value(f) = SUBSET (Uint32 \X Uint32)
         /\ f = "MACCommandErrorCount" => Value(f) = SUBSET (Uint8 \X Uint32)
         /\ f \in Times => Value(f) = Nat
<1>0. f \in Bytes \union Words \union Ints \union IntLists \union IntMaps \union Times => f \notin Modest
  BY DEF Modest
<1>1. f \in Bytes => Value(f) = Uint8
  BY <1>0, KindsAreDisjoint, OtherFields, Zenon DEF Value
<1>2. f \in Words => Value(f) = Uint16
  BY <1>0, KindsAreDisjoint, OtherFields, Zenon DEF Value
<1>3. f \in Ints => Value(f) = Uint32
  BY <1>0, KindsAreDisjoint, OtherFields, Zenon DEF Value
<1>4. f \in IntLists => Value(f) = Seq(Uint32)
  BY <1>0, KindsAreDisjoint, OtherFields, Zenon DEF Value
<1>5. f = "ExtraUplinkChannels" => Value(f) = SUBSET (Uint32 \X Uint32)
  BY <1>0, KindsAreDisjoint, OtherFields, Zenon DEF Value
<1>6. f = "MACCommandErrorCount" => Value(f) = SUBSET (Uint8 \X Uint32)
  BY <1>0, KindsAreDisjoint, OtherFields, Zenon DEF Value
<1>7. f \in Times => Value(f) = Nat
  BY <1>0, KindsAreDisjoint, OtherFields, Zenon DEF Value
<1> QED
  BY <1>1, <1>2, <1>3, <1>4, <1>5, <1>6, <1>7

\* What is written into the message is what is read from it.
LEMMA RoundTrip ==
  ASSUME NEW f \in FlatFields, NEW v \in Value(f)
  PROVE  Decode(f, Encode(f, v)) = v
<1>1. CASE f \in Bytes
  <2>1. v \in Uint8 /\ Encode(f, v) = v /\ Decode(f, v) = v % W8
    BY <1>1, Values, Encoded, Decoded
  <2> QED
    BY <2>1 DEF Uint8
<1>2. CASE f \in Words
  <2>1. v \in Uint16 /\ Encode(f, v) = v /\ Decode(f, v) = v % W16
    BY <1>2, Values, Encoded, Decoded
  <2> QED
    BY <2>1 DEF Uint16
<1>3. CASE f \in Ints
  <2>1. v \in Uint32 /\ Encode(f, v) = v % W32 /\ Decode(f, v) = v
    BY <1>3, Values, Encoded, Decoded
  <2> QED
    BY <2>1 DEF Uint32
<1>4. CASE f \in IntLists
  <2>1. v \in Seq(Uint32)
    BY <1>4, Values, Zenon
  <2>2. Encode(f, v) = [i \in DOMAIN v |-> v[i] % W32]
    BY <1>4, Encoded, Zenon
  <2>3. Decode(f, v) = v
    BY <1>4, Decoded, Zenon
  <2> QED
    BY <2>1, <2>2, <2>3, ListFits
<1>5. CASE f = "ExtraUplinkChannels"
  <2>1. /\ v \in SUBSET (Uint32 \X Uint32) /\ Decode(f, v) = v
        /\ Encode(f, v) = {<<p[1] % W32, p[2] % W32>> : p \in v}
    BY <1>5, OtherFields, Values, Encoded, Decoded, Zenon
  <2> QED
    BY <2>1, MapFits
<1>6. CASE f = "MACCommandErrorCount"
  <2>1. /\ v \in SUBSET (Uint8 \X Uint32)
        /\ Encode(f, v) = {<<p[1] % W32, p[2] % W32>> : p \in v}
        /\ Decode(f, v) = {<<p[1] % W8, p[2]>> : p \in v}
    BY <1>6, OtherFields, Values, Encoded, Decoded, Zenon
  <2>2. Uint8 \in SUBSET Uint32
    BY DEF Uint8, Uint32
  <2>3. Encode(f, v) = v
    BY <2>1, <2>2, MapFits
  <2> QED
    BY <2>1, <2>3, ErrorCountFits
<1>7. CASE f \in Times
  <2>1. v \in Nat /\ Encode(f, v) = IF v = 0 THEN -1 ELSE v
    BY <1>7, Values, Encoded, Zenon
  <2>2. Decode(f, Encode(f, v)) = IF Encode(f, v) > 0 THEN Encode(f, v) ELSE 0
    BY <1>7, Decoded
  <2> QED
    BY <2>1, <2>2
<1>8. CASE f \in Modest
  BY <1>8, Encoded, Decoded
<1> QED
  BY <1>1, <1>2, <1>3, <1>4, <1>5, <1>6, <1>7, <1>8, Kinds, OtherFields

-----------------------------------------------------------------------------
(* Saving and loading.                                                     *)

LEMMA PendingIsNotFlat == Pending \notin FlatFields /\ FlatFields \subseteq Fields /\ Pending \in Fields
BY OtherFields DEF Fields, Carried

\* A session without regard to a pending one.
LEMMA FlatRoundTrip ==
  ASSUME NEW s, \A f \in FlatFields : s[f] \in Value(f)
  PROVE  /\ \A f \in FlatFields : FlatFromPB(FlatToPB(s))[f] = s[f]
         /\ FlatToPB(FlatFromPB(FlatToPB(s))) = FlatToPB(s)
<1>1. ASSUME NEW f \in FlatFields PROVE FlatFromPB(FlatToPB(s))[f] = s[f]
  <2>1. FlatToPB(s)[f] = Encode(f, s[f])
    BY DEF FlatToPB
  <2>2. FlatFromPB(FlatToPB(s))[f] = Decode(f, FlatToPB(s)[f])
    BY PendingIsNotFlat DEF FlatFromPB
  <2> QED
    BY <2>1, <2>2, RoundTrip
<1>2. FlatToPB(FlatFromPB(FlatToPB(s))) = [f \in FlatFields |-> Encode(f, s[f])]
  BY <1>1, Zenon DEF FlatToPB
<1> QED
  BY <1>1, <1>2 DEF FlatToPB

LEMMA InputValues ==
  ASSUME NEW s \in Inputs
  PROVE  /\ \A f \in FlatFields : s[f] \in Value(f)
         /\ s[Pending] # None => \A f \in FlatFields : s[Pending][f] \in Value(f)
BY InputsAssumption, PendingIsNotFlat DEF IsSession, IsFlat

\* What is loaded after a save.
LEMMA Reloaded ==
  ASSUME NEW s \in Inputs
  PROVE  LET t == deviceSessionFromPB(deviceSessionToPB(s)) IN
         /\ \A f \in FlatFields : t[f] = s[f]
         /\ s[Pending] = None => t[Pending] = None
         /\ s[Pending] # None => /\ t[Pending] # None
                                /\ t[Pending] = FlatFromPB(FlatToPB(s[Pending]))
<1> DEFINE m == deviceSessionToPB(s)
           t == deviceSessionFromPB(m)
<1>1. \A f \in FlatFields : m[f] = Encode(f, s[f]) /\ f # Pending
  BY PendingIsNotFlat DEF deviceSessionToPB, Carried
<1>2. m[Pending] = IF s[Pending] = None THEN None ELSE FlatToPB(s[Pending])
  BY DEF deviceSessionToPB, Carried
<1> HIDE DEF m
<1>3. \A f \in FlatFields : t[f] = Decode(f, m[f])
  BY <1>1, PendingIsNotFlat DEF deviceSessionFromPB, FlatFromPB
<1>4. t[Pending] = IF m[Pending] = None THEN None ELSE FlatFromPB(m[Pending])
  BY PendingIsNotFlat DEF deviceSessionFromPB
<1>5. \A f \in FlatFields : t[f] = s[f]
  BY <1>1, <1>3, InputValues, RoundTrip
<1> HIDE DEF t
<1>6. s[Pending] # None => /\ FlatToPB(s[Pending]) # None
                          /\ FlatFromPB(FlatToPB(s[Pending])) # None
  BY NoneAssumption
<1>7. /\ s[Pending] = None => t[Pending] = None
      /\ s[Pending] # None => t[Pending] # None /\ t[Pending] = FlatFromPB(FlatToPB(s[Pending]))
  BY <1>2, <1>4, <1>6, Zenon
<1> QED
  BY <1>5, <1>7 DEF t, m

\* A session that was loaded is saved as it was.
LEMMA SavedAgain ==
  ASSUME NEW s \in Inputs
  PROVE  deviceSessionToPB(deviceSessionFromPB(deviceSessionToPB(s))) = deviceSessionToPB(s)
<1> DEFINE t == deviceSessionFromPB(deviceSessionToPB(s))
<1>1. /\ \A f \in FlatFields : t[f] = s[f]
      /\ s[Pending] = None => t[Pending] = None
      /\ s[Pending] # None => /\ t[Pending] # None
                             /\ t[Pending] = FlatFromPB(FlatToPB(s[Pending]))
  BY Reloaded
<1> HIDE DEF t
<1>2. s[Pending] # None => FlatToPB(t[Pending]) = FlatToPB(s[Pending])
  BY <1>1, InputValues, FlatRoundTrip
<1> DEFINE field(u, f) == IF f # Pending THEN Encode(f, u[f])
                          ELSE IF u[Pending] = None THEN None ELSE FlatToPB(u[Pending])
<1>3. ASSUME NEW f \in Carried PROVE field(t, f) = field(s, f)
  <2>1. CASE f \in FlatFields
    BY <1>1, <2>1, PendingIsNotFlat
  <2>2. CASE f = Pending
    BY <1>1, <1>2, <2>2
  <2> QED
    BY <2>1, <2>2 DEF Carried
<1>4. /\ deviceSessionToPB(t) = [f \in Carried |-> field(t, f)]
      /\ deviceSessionToPB(s) = [f \in Carried |-> field(s, f)]
  BY DEF deviceSessionToPB
<1> HIDE DEF field
<1>5. deviceSessionToPB(t) = deviceSessionToPB(s)
  BY <1>3, <1>4
<1> QED
  BY <1>5 DEF t

\* Until a file comes into it a session is one of two things.
PathInv ==
    /\ orig \in Inputs
    /\ form = "imported" => imported
    /\ ~imported /\ form = "redis" => content = deviceSessionToPB(orig)
    /\ ~imported /\ form = "loaded" => content = deviceSessionFromPB(deviceSessionToPB(orig))

LEMMA PathInvStep == PathInv /\ [Next]_vars => PathInv'
<1> SUFFICES ASSUME PathInv, [Next]_vars PROVE PathInv'
  OBVIOUS
<1>1. CASE Load
  BY <1>1 DEF Load, PathInv
<1>2. CASE Save
  BY <1>2, SavedAgain DEF Save, PathInv
<1>3. CASE Export
  BY <1>3 DEF Export, PathInv
<1>4. CASE Import
  BY <1>4 DEF Import, PathInv
<1>5. CASE UNCHANGED vars
  BY <1>5 DEF vars, PathInv
<1> QED
  BY <1>1, <1>2, <1>3, <1>4, <1>5 DEF Next

LEMMA PathInvHolds == Spec => []PathInv
<1>1. Init => PathInv
  BY DEF Init, PathInv
<1> QED
  BY <1>1, PathInvStep, PTL DEF Spec

\* No number of saves and loads loses a field that the message has, in a session
\* or in the pending session within it, for sessions with any values.
THEOREM MessageFieldsSurvive == Spec => []OnlyDroppedAreLost
<1>1. PathInv => OnlyDroppedAreLost
  <2> SUFFICES ASSUME PathInv, form = "loaded", ~imported
               PROVE  /\ \A f \in FlatFields : content[f] = orig[f]
                      /\ content[Pending] = None <=> orig[Pending] = None
                      /\ orig[Pending] # None =>
                            \A f \in FlatFields : content[Pending][f] = orig[Pending][f]
    BY DEF OnlyDroppedAreLost
  <2>1. orig \in Inputs /\ content = deviceSessionFromPB(deviceSessionToPB(orig))
    BY DEF PathInv
  <2>2. /\ \A f \in FlatFields : content[f] = orig[f]
        /\ content[Pending] = None <=> orig[Pending] = None
        /\ orig[Pending] # None => content[Pending] = FlatFromPB(FlatToPB(orig[Pending]))
    BY <2>1, Reloaded
  <2>3. orig[Pending] # None =>
            \A f \in FlatFields : content[Pending][f] = orig[Pending][f]
    BY <2>1, <2>2, InputValues, FlatRoundTrip
  <2> QED
    BY <2>2, <2>3
<1> QED
  BY <1>1, PathInvHolds, PTL

-----------------------------------------------------------------------------
(* Through files.                                                          *)

\* What a file keeps, in a row: under the names of the fields but for one key.
RowColumn(f) == IF f = "AppSKey" THEN "AESKey" ELSE f

Narrowed == {"RXDelay", "RX1DROffset", "RX2DR", "NbTrans"}
Widened == {"TXPowerIndex", "DR"}

LEMMA RadioKinds ==
  ASSUME NEW f \in InFile
  PROVE  /\ f \in FlatFields /\ f \in Fields /\ f # Pending /\ f # "RXWindow"
         /\ f \in Narrowed <=> f \in Bytes
         /\ f \in Widened => f \in Ints /\ f \notin SameColumns
         /\ f \notin Widened /\ f # "AppSKey" => f \in SameColumns
         /\ f # "AppSKey" => f \in Columns /\ f \notin {"SNwkSIntKey", "NwkSEncKey"}
         /\ f = "AppSKey" => /\ f \notin Widened \union Narrowed \union SameColumns
                            /\ f # "SNwkSIntKey" /\ f # "NwkSEncKey"
BY DEF InFile, Narrowed, Widened, FlatFields, Fields, Carried, Pending, Scalars, Keys,
   Addresses, Counts, ProfileIDs, Lists, Bytes, Words, Ints, IntLists, IntMaps, Times, Envelope,
   SameColumns, Columns, Dropped

\* No field is in two branches of a conversion.
LEMMA RadioBranches ==
  ASSUME NEW f \in InFile
  PROVE  /\ f # "AESKey" /\ f # "KEKLabel" /\ f # Envelope /\ f \notin ProfileIDs
         /\ f \notin {"SNwkSIntKey", "NwkSEncKey"}
         /\ f \in SameColumns => f \notin {"TXPowerIndex", "DR", "RXWindow"} /\ f # "AppSKey"
         /\ f \in Narrowed => /\ f \notin {"TXPowerIndex", "DR", "SNwkSIntKey", "NwkSEncKey"}
                             /\ f # "AppSKey"
BY DEF InFile, Narrowed, Addresses, Counts, Envelope, ProfileIDs, SameColumns

LEMMA KeyColumn ==
  /\ "AESKey" \in Columns /\ "AESKey" \notin SameColumns
  /\ "AESKey" \notin {"TXPowerIndex", "DR", "RXWindow"} \union {"SNwkSIntKey", "NwkSEncKey"}
BY DEF Columns, SameColumns, Addresses, Counts

\* What get-sessions writes for a field of the radio state.
LEMMA Exported ==
  ASSUME NEW s, NEW f \in InFile, s[f] \in Value(f)
  PROVE  CSVfromDeviceSession(s)[RowColumn(f)] = s[f]
<1>1. CASE f = "AppSKey"
  <2>1. CSVfromDeviceSession(s)["AESKey"] = s["AppSKey"]
    BY KeyColumn, Zenon DEF CSVfromDeviceSession
  <2> QED
    BY <1>1, <2>1 DEF RowColumn
<1>2. CASE f \in Widened
  <2>1. f # "AppSKey" /\ f \notin SameColumns /\ f \in Columns /\ f \in Ints
    BY <1>2, RadioKinds DEF Widened
  <2>2. CSVfromDeviceSession(s)[f] = s[f] % W32
    BY <1>2, <2>1, Zenon DEF CSVfromDeviceSession, Widened
  <2>3. s[f] \in Uint32
    BY <2>1, RadioKinds, Values
  <2> QED
    BY <2>1, <2>2, <2>3, NumberFits DEF RowColumn
<1>3. CASE f \notin Widened /\ f # "AppSKey"
  <2>1. f \in SameColumns /\ f \in Columns
    BY <1>3, RadioKinds
  <2>2. CSVfromDeviceSession(s)[f] = s[f]
    BY <2>1, RadioBranches, Zenon DEF CSVfromDeviceSession
  <2> QED
    BY <1>3, <2>2 DEF RowColumn
<1> QED
  BY <1>1, <1>2, <1>3

\* What set-sessions makes of it.
LEMMA ImportedField ==
  ASSUME NEW r, NEW f \in InFile, r[RowColumn(f)] \in Value(f)
  PROVE  SessionFromRow(r)[f] = r[RowColumn(f)]
<1>1. f \in Fields /\ f # "RXWindow"
  BY RadioKinds
<1>2. CASE f = "AppSKey"
  <2>1. f \notin Narrowed /\ f \notin {"TXPowerIndex", "DR", "SNwkSIntKey", "NwkSEncKey"}
        /\ f \notin SameColumns
    BY <1>2, RadioKinds DEF Widened
  <2>2. SessionFromRow(r)[f] = r["AESKey"]
    BY <1>1, <1>2, <2>1, RadioBranches, Zenon DEF SessionFromRow, Narrowed
  <2> QED
    BY <1>2, <2>2 DEF RowColumn
<1>3. CASE f \in Narrowed
  <2>1. f # "AppSKey" /\ f \in Bytes
    BY <1>3, RadioKinds DEF Narrowed
  <2>2. SessionFromRow(r)[f] = r[f] % W8
    BY <1>1, <1>3, <2>1, RadioBranches, Zenon DEF SessionFromRow, Narrowed
  <2>3. r[f] \in Uint8
    BY <2>1, RadioKinds, Values DEF RowColumn
  <2>4. r[f] % W8 = r[f]
    BY <2>3 DEF Uint8
  <2> QED
    BY <2>1, <2>2, <2>4 DEF RowColumn
<1>4. CASE f \notin Narrowed /\ f # "AppSKey"
  <2>1. f \in SameColumns \ Bytes \/ f \in Widened
    BY <1>4, RadioKinds
  <2>2. SessionFromRow(r)[f] = r[f]
    BY <1>1, <1>4, <2>1, RadioBranches, Zenon DEF SessionFromRow, Narrowed, Widened
  <2> QED
    BY <1>4, <2>2 DEF RowColumn
<1> QED
  BY <1>2, <1>3, <1>4

\* What a file keeps, in each form.
RadioInv ==
    /\ orig \in Inputs
    /\ form = "redis" => \A f \in InFile : content[f] = Encode(f, orig[f])
    /\ form \in {"loaded", "imported"} => \A f \in InFile : content[f] = orig[f]
    /\ form = "csv" => \A f \in InFile : content[RowColumn(f)] = orig[f]

LEMMA RadioInvStep == RadioInv /\ [Next]_vars => RadioInv'
<1> SUFFICES ASSUME RadioInv, [Next]_vars PROVE RadioInv'
  OBVIOUS
<1>0. \A f \in InFile : orig[f] \in Value(f) /\ f \in FlatFields
  BY InputValues, RadioKinds DEF RadioInv
<1>1. CASE Load
  <2>1. form = "redis" /\ form' = "loaded" /\ content' = deviceSessionFromPB(content) /\ orig' = orig
    BY <1>1 DEF Load
  <2>2. ASSUME NEW f \in InFile PROVE content'[f] = orig[f]
    <3>1. deviceSessionFromPB(content)[f] = Decode(f, content[f])
      BY RadioKinds DEF deviceSessionFromPB, FlatFromPB
    <3>2. content[f] = Encode(f, orig[f])
      BY <2>1 DEF RadioInv
    <3> QED
      BY <1>0, <2>1, <3>1, <3>2, RoundTrip
  <2> QED
    BY <2>1, <2>2 DEF RadioInv
<1>2. CASE Save
  <2>1. /\ form \in {"loaded", "imported"} /\ form' = "redis" /\ orig' = orig
        /\ content' = deviceSessionToPB(content)
    BY <1>2 DEF Save
  <2>2. ASSUME NEW f \in InFile PROVE content'[f] = Encode(f, orig[f])
    <3>1. deviceSessionToPB(content)[f] = Encode(f, content[f])
      BY RadioKinds DEF deviceSessionToPB, Carried
    <3> QED
      BY <2>1, <3>1 DEF RadioInv
  <2> QED
    BY <2>1, <2>2 DEF RadioInv
<1>3. CASE Export
  <2>1. /\ form = "loaded" /\ form' = "csv" /\ orig' = orig
        /\ content' = CSVfromDeviceSession(content)
    BY <1>3 DEF Export
  <2>2. ASSUME NEW f \in InFile PROVE content'[RowColumn(f)] = orig[f]
    BY <1>0, <2>1, Exported DEF RadioInv
  <2> QED
    BY <2>1, <2>2 DEF RadioInv
<1>4. CASE Import
  <2>1. CASE /\ form = "csv" /\ form' = "imported" /\ orig' = orig
             /\ content' = SessionFromRow(content)
    <3>1. ASSUME NEW f \in InFile PROVE content'[f] = orig[f]
      BY <1>0, <2>1, ImportedField DEF RadioInv
    <3> QED
      BY <2>1, <3>1 DEF RadioInv
  <2>2. CASE form' = "rejected" /\ orig' = orig
    BY <2>2 DEF RadioInv
  <2> QED
    BY <1>4, <2>1, <2>2 DEF Import
<1>5. CASE UNCHANGED vars
  BY <1>5 DEF vars, RadioInv
<1> QED
  BY <1>1, <1>2, <1>3, <1>4, <1>5 DEF Next

\* A file of the tool's own making is refused for nothing but an empty list of
\* channels, or a column of a map type.
THEOREM RefusalsAreExplained == Spec => []RejectedOnlyWithoutChannels
<1>1. Init => RadioInv /\ RejectedOnlyWithoutChannels
  <2> SUFFICES ASSUME Init, NEW f \in InFile PROVE content[f] = Encode(f, orig[f])
    BY DEF Init, RadioInv, RejectedOnlyWithoutChannels
  <2> QED
    BY RadioKinds DEF Init, deviceSessionToPB, Carried
<1>2. RadioInv /\ RejectedOnlyWithoutChannels /\ [Next]_vars => RejectedOnlyWithoutChannels'
  <2> SUFFICES ASSUME RadioInv, RejectedOnlyWithoutChannels, [Next]_vars
               PROVE  RejectedOnlyWithoutChannels'
    OBVIOUS
  <2>1. CASE Import
    <3>1. "EnabledUplinkChannels" \in InFile
      BY DEF InFile
    <3>2. content["EnabledUplinkChannels"] = orig["EnabledUplinkChannels"]
      BY <2>1, <3>1 DEF Import, RadioInv, RowColumn
    <3> QED
      BY <2>1, <3>2 DEF Import, CanBeParsed, RejectedOnlyWithoutChannels
  <2>2. CASE Load \/ Save \/ Export
    BY <2>2 DEF Load, Save, Export, RejectedOnlyWithoutChannels
  <2>3. CASE UNCHANGED vars
    BY <2>3 DEF vars, RejectedOnlyWithoutChannels
  <2> QED
    BY <2>1, <2>2, <2>3 DEF Next
<1> QED
  BY <1>1, <1>2, RadioInvStep, PTL DEF Spec

-----------------------------------------------------------------------------
(* The types of a session's fields in each form.                           *)

\* A field of a message: a time in it is never zero.
Wire(f) == IF f \in Times THEN Int \ {0} ELSE Value(f)

\* A column of a file.
Column(c) == CASE c \in SameColumns -> Value(c)
               [] c \in {"TXPowerIndex", "DR", "RXWindow"} -> Uint32
               [] c \in {"SNwkSIntKey", "NwkSEncKey", "AESKey"} -> Nat
               [] c = "KEKLabel" -> {0}

\* The fields that a conversion leaves as they are.
LEMMA ModestFields == Modest = Scalars \union Lists \union {Envelope}
BY DEF Modest, FlatFields, Bytes, Words, Ints, IntLists, IntMaps, Times, Scalars, Keys,
   Addresses, Counts, ProfileIDs, Lists, Envelope

LEMMA ModestKinds ==
  ASSUME NEW f
  PROVE  f \in Scalars \union Lists \union {Envelope} =>
           /\ f \notin Bytes /\ f \notin Words /\ f # "RXWindow" /\ f \notin Ints
           /\ f \notin IntLists /\ f # "ExtraUplinkChannels" /\ f # "MACCommandErrorCount"
           /\ f \notin Times /\ f \notin IntMaps /\ f # Pending /\ f # "EnabledChannels"
           /\ f \in Scalars => f \notin Lists /\ f # Envelope
           /\ f \in Lists => f # Envelope
BY DEF Bytes, Words, Ints, IntLists, IntMaps, Times, Scalars, Keys,
   Addresses, Counts, ProfileIDs, Lists, Envelope, Pending

LEMMA DroppedKinds ==
  ASSUME NEW f \in Dropped
  PROVE  /\ f \notin Bytes /\ f \notin Words /\ f \notin Ints /\ f \notin Lists
         /\ f \notin IntLists /\ f # "ExtraUplinkChannels" /\ f # "MACCommandErrorCount"
         /\ f \notin Times /\ f \notin IntMaps /\ f # Pending /\ f # Envelope
         /\ f \notin FlatFields
BY DEF Bytes, Words, Ints, IntLists, IntMaps, Times, Scalars, Keys, FlatFields,
   Addresses, Counts, ProfileIDs, Lists, Envelope, Pending, Dropped

LEMMA ModestValues ==
  /\ \A f \in Scalars : Value(f) = Nat
  /\ \A f \in Lists : Value(f) = Seq(Nat)
  /\ Value(Envelope) = {None} \union (Nat \X Nat)
<1>1. ASSUME NEW f \in Scalars PROVE Value(f) = Nat
  BY ModestKinds, Zenon DEF Value
<1>2. ASSUME NEW f \in Lists PROVE Value(f) = Seq(Nat)
  BY ModestKinds, Zenon DEF Value
<1>3. Value(Envelope) = {None} \union (Nat \X Nat)
  BY ModestKinds, Zenon DEF Value
<1> QED
  BY <1>1, <1>2, <1>3

LEMMA DroppedValues ==
  /\ Value("RXWindow") = (-(W8 \div 2))..((W8 \div 2) - 1)
  /\ Value("EnabledChannels") = Seq(Nat)
  /\ \A f \in {"AppSKeyOnAS", "Per"} : Value(f) = Nat
<1>1. "RXWindow" \in Dropped /\ "EnabledChannels" \in Dropped
  BY DEF Dropped
<1>2. Value("RXWindow") = (-(W8 \div 2))..((W8 \div 2) - 1)
  BY <1>1, DroppedKinds, Zenon DEF Value
<1>3. Value("EnabledChannels") = Seq(Nat)
  BY <1>1, DroppedKinds, Zenon DEF Value
<1>4. ASSUME NEW f \in {"AppSKeyOnAS", "Per"} PROVE Value(f) = Nat
  <2>1. f \in Dropped /\ f # "RXWindow" /\ f # "EnabledChannels"
    BY DEF Dropped
  <2> QED
    BY <2>1, DroppedKinds, Zenon DEF Value
<1> QED
  BY <1>2, <1>3, <1>4

LEMMA ByteFits ==
  /\ W8 \div 2 \in Nat \ {0} /\ W8 = 2 * (W8 \div 2)
  /\ 0 \in Uint8 /\ 0 \in Uint16 /\ 0 \in Uint32
  /\ \A n \in Int : n % W8 \in Uint8 /\ n % W16 \in Uint16 /\ n % W32 \in Uint32
  /\ Uint8 \subseteq Uint32 /\ Uint16 \subseteq Uint32
BY DEF Uint8, Uint16, Uint32

LEMMA EmptyLists == <<>> \in Seq(Nat) /\ <<>> \in Seq(Uint32)
OBVIOUS

LEMMA ZeroValues ==
  ASSUME NEW f
  PROVE  /\ f \in Lists \union IntLists \union {"EnabledChannels"} => Zero(f) = <<>>
         /\ f \in IntMaps => Zero(f) = {}
         /\ f \in {Envelope, Pending} => Zero(f) = None
         /\ f \notin Lists \union IntLists \union {"EnabledChannels"} \union IntMaps
                       \union {Envelope, Pending} => Zero(f) = 0
<1>1. /\ f \in Lists \union IntLists \union {"EnabledChannels"} =>
           f \notin IntMaps /\ f \notin {Envelope, Pending}
      /\ f \in IntMaps => f \notin {Envelope, Pending}
  BY DEF Lists, IntLists, IntMaps, Envelope, Pending
<1>2. f \in Lists \union IntLists \union {"EnabledChannels"} => Zero(f) = <<>>
  BY <1>1, Zenon DEF Zero
<1>3. f \in IntMaps => Zero(f) = {}
  BY <1>1, Zenon DEF Zero
<1>4. f \in {Envelope, Pending} => Zero(f) = None
  BY <1>1, Zenon DEF Zero
<1>5. f \notin Lists \union IntLists \union {"EnabledChannels"} \union IntMaps
                \union {Envelope, Pending} => Zero(f) = 0
  BY <1>1, Zenon DEF Zero
<1> QED
  BY <1>2, <1>3, <1>4, <1>5

\* The zero value of Go is one of the values of its type.
LEMMA ZeroFits ==
  ASSUME NEW f \in FlatFields \union Dropped
  PROVE  Zero(f) \in Value(f)
<1>1. CASE f \in Bytes \union Words \union Ints \union Times
  <2>1. f \in FlatFields
    BY <1>1 DEF FlatFields
  <2>2. f \notin Lists \union IntLists \union {"EnabledChannels"} \union IntMaps \union {Envelope, Pending}
    BY <1>1 DEF Bytes, Words, Ints, Times, Lists, IntLists, IntMaps, Envelope, Pending
  <2>3. Zero(f) = 0
    BY <2>2, ZeroValues, Zenon
  <2> QED
    BY <1>1, <2>1, <2>3, Values, ByteFits
<1>2. CASE f \in IntLists
  <2>1. Zero(f) = <<>> /\ Value(f) = Seq(Uint32)
    BY <1>2, ZeroValues, Values, Zenon DEF FlatFields
  <2> QED
    BY <2>1, EmptyLists
<1>3. CASE f \in IntMaps
  <2>1. f \in FlatFields /\ f \in {"ExtraUplinkChannels", "MACCommandErrorCount"} /\ Zero(f) = {}
    BY <1>3, ZeroValues DEF FlatFields, IntMaps
  <2> QED
    BY <2>1, Values
<1>4. CASE f \in Lists \union {Envelope}
  <2>1. f \in Lists => Zero(f) = <<>> /\ Value(f) = Seq(Nat)
    BY ZeroValues, ModestValues, Zenon
  <2>2. f = Envelope => Zero(f) = None /\ None \in Value(f)
    BY ZeroValues, ModestValues
  <2> QED
    BY <1>4, <2>1, <2>2, EmptyLists
<1>5. CASE f \in Scalars
  <2>1. f \notin Lists \union IntLists \union {"EnabledChannels"} \union IntMaps \union {Envelope, Pending}
    BY <1>5, ModestKinds
  <2> QED
    BY <1>5, <2>1, ZeroValues, ModestValues
<1>6. CASE f = "RXWindow"
  <2>1. f \notin Lists \union IntLists \union {"EnabledChannels"} \union IntMaps \union {Envelope, Pending}
    BY <1>6 DEF Lists, IntLists, IntMaps, Envelope, Pending
  <2>2. Zero(f) = 0
    BY <2>1, ZeroValues, Zenon
  <2>3. 0 \in (-(W8 \div 2))..((W8 \div 2) - 1)
    BY ByteFits
  <2> QED
    BY <1>6, <2>2, <2>3, DroppedValues
<1>7. CASE f = "EnabledChannels"
  <2>1. Zero(f) = <<>> /\ Value(f) = Seq(Nat)
    BY <1>7, ZeroValues, DroppedValues, Zenon
  <2> QED
    BY <2>1, EmptyLists
<1>8. CASE f \in {"AppSKeyOnAS", "Per"}
  <2>1. f \notin Lists \union IntLists \union {"EnabledChannels"} \union IntMaps \union {Envelope, Pending}
    BY <1>8 DEF Lists, IntLists, IntMaps, Envelope, Pending
  <2> QED
    BY <1>8, <2>1, ZeroValues, DroppedValues
<1> QED
  BY <1>1, <1>2, <1>3, <1>4, <1>5, <1>6, <1>7, <1>8 DEF FlatFields, Dropped

\* What is written into a message is a value of the message's field.
LEMMA EncodedFits ==
  ASSUME NEW f \in FlatFields, NEW v \in Value(f)
  PROVE  Encode(f, v) \in Wire(f)
<1>1. CASE f \in Bytes \union Words \union Modest
  <2>1. Encode(f, v) = v /\ f \notin Times
    BY <1>1, Encoded, KindsAreDisjoint DEF Modest
  <2> QED
    BY <2>1 DEF Wire
<1>2. CASE f \in Ints
  <2>1. v \in Uint32 /\ Encode(f, v) = v % W32 /\ f \notin Times
    BY <1>2, Values, Encoded, KindsAreDisjoint, Zenon
  <2> QED
    BY <1>2, <2>1, NumberFits DEF Wire
<1>3. CASE f \in IntLists
  <2>1. v \in Seq(Uint32) /\ f \notin Times
    BY <1>3, Values, KindsAreDisjoint, Zenon
  <2>2. Encode(f, v) = [i \in DOMAIN v |-> v[i] % W32]
    BY <1>3, Encoded, Zenon
  <2> QED
    BY <2>1, <2>2, ListFits DEF Wire
<1>4. CASE f = "ExtraUplinkChannels"
  <2>1. v \in SUBSET (Uint32 \X Uint32) /\ f \notin Times
    BY <1>4, Values, Zenon DEF Times
  <2>2. Encode(f, v) = {<<p[1] % W32, p[2] % W32>> : p \in v}
    BY <1>4, OtherFields, Encoded, Zenon
  <2> QED
    BY <2>1, <2>2, MapFits DEF Wire
<1>5. CASE f = "MACCommandErrorCount"
  <2>1. v \in SUBSET (Uint8 \X Uint32) /\ f \notin Times
    BY <1>5, Values, Zenon DEF Times
  <2>2. Encode(f, v) = {<<p[1] % W32, p[2] % W32>> : p \in v}
    BY <1>5, OtherFields, Encoded, Zenon
  <2>3. Encode(f, v) = v
    BY <2>1, <2>2, ByteFits, MapFits
  <2> QED
    BY <2>1, <2>3 DEF Wire
<1>6. CASE f \in Times
  <2>1. v \in Nat /\ Encode(f, v) = IF v = 0 THEN -1 ELSE v
    BY <1>6, Values, Encoded, Zenon
  <2> QED
    BY <1>6, <2>1 DEF Wire
<1> QED
  BY <1>1, <1>2, <1>3, <1>4, <1>5, <1>6, Kinds, OtherFields

\* Whatever a message holds is read as a value of the session's field.
LEMMA DecodedFits ==
  ASSUME NEW f \in FlatFields, NEW v \in Wire(f)
  PROVE  Decode(f, v) \in Value(f)
<1>0. f \notin Times => v \in Value(f)
  BY DEF Wire
<1>1. CASE f \in Bytes
  <2>1. v \in Uint8 /\ Decode(f, v) = v % W8
    BY <1>0, <1>1, Values, Decoded, KindsAreDisjoint
  <2>2. v % W8 \in Uint8 /\ Value(f) = Uint8
    BY <1>1, <2>1, ByteFits, Values DEF Uint8
  <2> QED
    BY <2>1, <2>2
<1>2. CASE f \in Words
  <2>1. v \in Uint16 /\ Decode(f, v) = v % W16
    BY <1>0, <1>2, Values, Decoded, KindsAreDisjoint
  <2>2. v % W16 \in Uint16 /\ Value(f) = Uint16
    BY <1>2, <2>1, ByteFits, Values DEF Uint16
  <2> QED
    BY <2>1, <2>2
<1>3. CASE f \in Ints \union IntLists \union Modest \/ f = "ExtraUplinkChannels"
  <2>1. Decode(f, v) = v /\ f \notin Times
    BY <1>3, Decoded, KindsAreDisjoint DEF Modest, Times
  <2> QED
    BY <1>0, <2>1
<1>4. CASE f = "MACCommandErrorCount"
  <2>1. v \in SUBSET (Uint8 \X Uint32) /\ Decode(f, v) = {<<p[1] % W8, p[2]>> : p \in v}
    BY <1>0, <1>4, Values, Decoded DEF Times
  <2> QED
    BY <1>4, <2>1, ErrorCountFits, Values
<1>5. CASE f \in Times
  <2>1. v \in Int /\ Decode(f, v) = IF v > 0 THEN v ELSE 0
    BY <1>5, Decoded DEF Wire
  <2> QED
    BY <1>5, <2>1, Values
<1> QED
  BY <1>1, <1>2, <1>3, <1>4, <1>5, Kinds, OtherFields

IsWritten(m) ==
    /\ DOMAIN m = Carried
    /\ \A f \in FlatFields : m[f] \in Wire(f)
    /\ m[Pending] # None => \A f \in FlatFields : m[Pending][f] \in Wire(f)

IsRow(r) == DOMAIN r = Columns /\ \A c \in Columns : r[c] \in Column(c)

LEMMA TheFields == Fields \ {Pending} = FlatFields \union Dropped /\ Dropped \subseteq Fields
BY PendingIsNotFlat, DroppedKinds DEF Fields, Carried

LEMMA SavedFits ==
  ASSUME NEW s, IsSession(s)
  PROVE  IsWritten(deviceSessionToPB(s))
<1> DEFINE m == deviceSessionToPB(s)
<1>1. \A f \in FlatFields : s[f] \in Value(f)
  BY TheFields DEF IsSession, IsFlat
<1>2. s[Pending] # None => \A f \in FlatFields : s[Pending][f] \in Value(f)
  BY TheFields DEF IsSession, IsFlat
<1>3. DOMAIN m = Carried /\ \A f \in FlatFields : m[f] = Encode(f, s[f])
  BY PendingIsNotFlat DEF deviceSessionToPB, Carried
<1>4. m[Pending] = IF s[Pending] = None THEN None ELSE FlatToPB(s[Pending])
  BY DEF deviceSessionToPB, Carried
<1> HIDE DEF m
<1>5. \A f \in FlatFields : m[f] \in Wire(f)
  BY <1>1, <1>3, EncodedFits
<1>6. ASSUME m[Pending] # None, NEW f \in FlatFields PROVE m[Pending][f] \in Wire(f)
  <2>1. m[Pending] = FlatToPB(s[Pending]) /\ s[Pending] # None
    BY <1>4, <1>6
  <2>2. FlatToPB(s[Pending])[f] = Encode(f, s[Pending][f])
    BY DEF FlatToPB
  <2> QED
    BY <1>2, <2>1, <2>2, EncodedFits
<1> QED
  BY <1>3, <1>5, <1>6 DEF IsWritten, m

LEMMA FlatReadFits ==
  ASSUME NEW m, \A f \in FlatFields : m[f] \in Wire(f)
  PROVE  IsFlat(FlatFromPB(m), Fields) /\ FlatFromPB(m)[Pending] = None
<1>1. DOMAIN FlatFromPB(m) = Fields
  BY DEF FlatFromPB
<1>2. ASSUME NEW f \in Fields \ {Pending} PROVE FlatFromPB(m)[f] \in Value(f)
  <2>1. CASE f \in FlatFields
    <3>1. FlatFromPB(m)[f] = Decode(f, m[f])
      BY <2>1 DEF FlatFromPB
    <3> QED
      BY <2>1, <3>1, DecodedFits
  <2>2. CASE f \in Dropped
    <3>1. FlatFromPB(m)[f] = Zero(f)
      BY <2>2, DroppedKinds DEF FlatFromPB
    <3> QED
      BY <2>2, <3>1, ZeroFits
  <2> QED
    BY <2>1, <2>2, TheFields
<1>3. FlatFromPB(m)[Pending] = Zero(Pending) /\ Zero(Pending) = None
  BY PendingIsNotFlat, ZeroValues DEF FlatFromPB
<1> QED
  BY <1>1, <1>2, <1>3 DEF IsFlat

LEMMA LoadedFits ==
  ASSUME NEW m, IsWritten(m)
  PROVE  IsSession(deviceSessionFromPB(m))
<1> DEFINE t == deviceSessionFromPB(m)
<1>1. IsFlat(FlatFromPB(m), Fields)
  BY FlatReadFits DEF IsWritten
<1>2. DOMAIN t = Fields /\ \A f \in Fields \ {Pending} : t[f] = FlatFromPB(m)[f]
  BY DEF deviceSessionFromPB
<1>3. t[Pending] = IF m[Pending] = None THEN None ELSE FlatFromPB(m[Pending])
  BY PendingIsNotFlat DEF deviceSessionFromPB
<1> HIDE DEF t
<1>4. IsFlat(t, Fields)
  BY <1>1, <1>2 DEF IsFlat
<1>5. ASSUME t[Pending] # None PROVE IsFlat(t[Pending], Fields) /\ t[Pending][Pending] = None
  <2>1. m[Pending] # None /\ t[Pending] = FlatFromPB(m[Pending])
    BY <1>3, <1>5
  <2> QED
    BY <2>1, FlatReadFits DEF IsWritten
<1> QED
  BY <1>4, <1>5 DEF IsSession, t

LEMMA ColumnKinds ==
  /\ SameColumns \subseteq FlatFields /\ SameColumns \subseteq Columns
  /\ {"TXPowerIndex", "DR"} \subseteq Ints
  /\ Keys \subseteq Scalars
  /\ {"TXPowerIndex", "DR", "RXWindow"} \intersect SameColumns = {}
  /\ {"SNwkSIntKey", "NwkSEncKey", "AESKey"} \intersect SameColumns = {}
  /\ "KEKLabel" \notin SameColumns /\ "AppSKey" \notin SameColumns
  /\ {"RXDelay", "RX1DROffset", "RX2DR", "NbTrans"} \subseteq SameColumns \intersect Bytes
  /\ Columns = SameColumns \union {"TXPowerIndex", "DR", "RXWindow"} \union
                  {"SNwkSIntKey", "NwkSEncKey", "AESKey"} \union {"KEKLabel"}
BY DEF SameColumns, Columns, FlatFields, Scalars, Keys, Addresses, Counts, ProfileIDs, Lists,
   Bytes, Words, Ints, IntLists

LEMMA ColumnValues ==
  /\ \A c \in SameColumns : Column(c) = Value(c)
  /\ \A c \in {"TXPowerIndex", "DR", "RXWindow"} : Column(c) = Uint32
  /\ \A c \in {"SNwkSIntKey", "NwkSEncKey", "AESKey"} : Column(c) = Nat
  /\ Column("KEKLabel") = {0}
<1>1. ASSUME NEW c \in SameColumns PROVE Column(c) = Value(c)
  <2>1. /\ c \notin {"TXPowerIndex", "DR", "RXWindow"} /\ c # "KEKLabel"
        /\ c \notin {"SNwkSIntKey", "NwkSEncKey", "AESKey"}
    BY ColumnKinds
  <2> QED
    BY <2>1, Zenon DEF Column
<1>2. ASSUME NEW c \in {"TXPowerIndex", "DR", "RXWindow"} PROVE Column(c) = Uint32
  <2>1. /\ c \notin SameColumns /\ c # "KEKLabel"
        /\ c \notin {"SNwkSIntKey", "NwkSEncKey", "AESKey"}
    BY ColumnKinds
  <2> QED
    BY <2>1, Zenon DEF Column
<1>3. ASSUME NEW c \in {"SNwkSIntKey", "NwkSEncKey", "AESKey"} PROVE Column(c) = Nat
  <2>1. c \notin SameColumns /\ c # "KEKLabel" /\ c \notin {"TXPowerIndex", "DR", "RXWindow"}
    BY ColumnKinds
  <2> QED
    BY <2>1, Zenon DEF Column
<1>4. Column("KEKLabel") = {0}
  <2>1. /\ "KEKLabel" \notin {"TXPowerIndex", "DR", "RXWindow"}
        /\ "KEKLabel" \notin {"SNwkSIntKey", "NwkSEncKey", "AESKey"}
    OBVIOUS
  <2> QED
    BY <2>1, ColumnKinds, Zenon DEF Column
<1> QED
  BY <1>1, <1>2, <1>3, <1>4

LEMMA ExportedFits ==
  ASSUME NEW s, IsSession(s)
  PROVE  IsRow(CSVfromDeviceSession(s))
<1>1. DOMAIN CSVfromDeviceSession(s) = Columns
  BY DEF CSVfromDeviceSession
<1>2. \A f \in FlatFields \union Dropped : s[f] \in Value(f)
  BY TheFields DEF IsSession, IsFlat
<1>3. ASSUME NEW c \in SameColumns PROVE CSVfromDeviceSession(s)[c] \in Column(c)
  <2>1. /\ c \in Columns /\ c # "AESKey" /\ c # "KEKLabel"
        /\ c \notin {"TXPowerIndex", "DR", "RXWindow"} /\ c \notin {"SNwkSIntKey", "NwkSEncKey"}
    BY ColumnKinds
  <2>2. CSVfromDeviceSession(s)[c] = s[c]
    BY <2>1, Zenon DEF CSVfromDeviceSession
  <2> QED
    BY <1>2, <2>2, ColumnKinds, ColumnValues
<1>4. ASSUME NEW c \in {"TXPowerIndex", "DR", "RXWindow"}
      PROVE  CSVfromDeviceSession(s)[c] \in Column(c)
  <2>1. /\ c \in Columns /\ c \notin SameColumns /\ c # "AESKey" /\ c # "KEKLabel"
        /\ c \notin {"SNwkSIntKey", "NwkSEncKey"}
    BY ColumnKinds
  <2>2. CSVfromDeviceSession(s)[c] = s[c] % W32
    BY <2>1, Zenon DEF CSVfromDeviceSession
  <2>3. s[c] \in Int
    <3>1. CASE c = "RXWindow"
      <4>1. s[c] \in (-(W8 \div 2))..((W8 \div 2) - 1)
        BY <1>2, <3>1, DroppedValues DEF Dropped
      <4> QED
        BY <4>1, ByteFits
    <3>2. CASE c \in {"TXPowerIndex", "DR"}
      <4>1. c \in FlatFields /\ s[c] \in Value(c) /\ Value(c) = Uint32
        BY <1>2, <3>2, ColumnKinds, Values DEF FlatFields
      <4> QED
        BY <4>1 DEF Uint32
    <3> QED
      BY <3>1, <3>2
  <2> QED
    BY <2>2, <2>3, ByteFits, ColumnValues
<1>5. ASSUME NEW c \in {"SNwkSIntKey", "NwkSEncKey"} PROVE CSVfromDeviceSession(s)[c] \in Column(c)
  <2>1. /\ c \in Columns /\ c \notin SameColumns /\ c # "AESKey" /\ c # "KEKLabel"
        /\ c \notin {"TXPowerIndex", "DR", "RXWindow"}
    BY ColumnKinds
  <2>2. CSVfromDeviceSession(s)[c] = s["FNwkSIntKey"]
    BY <2>1, Zenon DEF CSVfromDeviceSession
  <2>3. "FNwkSIntKey" \in Scalars /\ "FNwkSIntKey" \in FlatFields
    BY DEF FlatFields, Scalars, Keys
  <2> QED
    BY <1>2, <2>2, <2>3, ColumnValues, ModestValues
<1>6. CSVfromDeviceSession(s)["AESKey"] \in Column("AESKey")
  <2>1. CSVfromDeviceSession(s)["AESKey"] = s["AppSKey"]
    BY KeyColumn, Zenon DEF CSVfromDeviceSession
  <2>2. "AppSKey" \in Scalars /\ "AppSKey" \in FlatFields
    BY DEF FlatFields, Scalars, Keys
  <2> QED
    BY <1>2, <2>1, <2>2, ColumnValues, ModestValues
<1>7. CSVfromDeviceSession(s)["KEKLabel"] \in Column("KEKLabel")
  <2>1. /\ "KEKLabel" \in Columns /\ "KEKLabel" \notin SameColumns
        /\ "KEKLabel" \notin {"TXPowerIndex", "DR", "RXWindow"} /\ "KEKLabel" # "AESKey"
        /\ "KEKLabel" \notin {"SNwkSIntKey", "NwkSEncKey"}
    BY ColumnKinds
  <2>2. CSVfromDeviceSession(s)["KEKLabel"] = 0
    BY <2>1, Zenon DEF CSVfromDeviceSession
  <2> QED
    BY <2>2, ColumnValues
<1> QED
  BY <1>1, <1>3, <1>4, <1>5, <1>6, <1>7, ColumnKinds DEF IsRow

\* The branches of SessionFromRow, no two for one field.
ByteColumns == {"RXDelay", "RX1DROffset", "RX2DR", "NbTrans"}
CopiedColumns == {"TXPowerIndex", "DR", "SNwkSIntKey", "NwkSEncKey"}

LEMMA RowBranches ==
  ASSUME NEW f
  PROVE  /\ f \in ByteColumns =>
              /\ f # "RXWindow" /\ f \notin CopiedColumns /\ f \notin SameColumns \ Bytes
              /\ f # "AppSKey" /\ f # Envelope /\ f \notin ProfileIDs
         /\ f = "RXWindow" =>
              /\ f \notin CopiedColumns /\ f \notin SameColumns \ Bytes
              /\ f # "AppSKey" /\ f # Envelope /\ f \notin ProfileIDs
         /\ f \in CopiedColumns =>
              /\ f \notin SameColumns \ Bytes
              /\ f # "AppSKey" /\ f # Envelope /\ f \notin ProfileIDs
         /\ f \in SameColumns \ Bytes => f # "AppSKey" /\ f # Envelope /\ f \notin ProfileIDs
         /\ f = "AppSKey" => f # Envelope /\ f \notin ProfileIDs
         /\ f = Envelope => f \notin ProfileIDs
         /\ f = Pending => /\ f \notin ByteColumns /\ f # "RXWindow" /\ f \notin CopiedColumns
                           /\ f \notin SameColumns \ Bytes
                           /\ f # "AppSKey" /\ f # Envelope /\ f \notin ProfileIDs
BY DEF ByteColumns, CopiedColumns, SameColumns, Bytes, Envelope, ProfileIDs, Pending,
   Addresses, Counts

LEMMA RowFields ==
  ASSUME NEW r, NEW f \in Fields
  PROVE  /\ f \in ByteColumns => SessionFromRow(r)[f] = r[f] % W8
         /\ f = "RXWindow" => SessionFromRow(r)[f] = ((r[f] + W8 \div 2) % W8) - (W8 \div 2)
         /\ f \in CopiedColumns => SessionFromRow(r)[f] = r[f]
         /\ f \in SameColumns \ Bytes => SessionFromRow(r)[f] = r[f]
         /\ f = "AppSKey" => SessionFromRow(r)[f] = r["AESKey"]
         /\ f = Envelope => SessionFromRow(r)[f] = <<r["KEKLabel"], r["AESKey"]>>
         /\ f \in ProfileIDs => SessionFromRow(r)[f] = NSProfiles
         /\ \/ f \in ByteColumns \/ f = "RXWindow" \/ f \in CopiedColumns
            \/ f \in SameColumns \ Bytes \/ f = "AppSKey" \/ f = Envelope \/ f \in ProfileIDs
            \/ SessionFromRow(r)[f] = Zero(f)
<1>1. f \in ByteColumns => SessionFromRow(r)[f] = r[f] % W8
  BY RowBranches, Zenon DEF SessionFromRow, ByteColumns, CopiedColumns
<1>2. f = "RXWindow" => SessionFromRow(r)[f] = ((r[f] + W8 \div 2) % W8) - (W8 \div 2)
  BY RowBranches, Zenon DEF SessionFromRow, ByteColumns, CopiedColumns
<1>3. f \in CopiedColumns => SessionFromRow(r)[f] = r[f]
  BY RowBranches, Zenon DEF SessionFromRow, ByteColumns, CopiedColumns
<1>4. f \in SameColumns \ Bytes => SessionFromRow(r)[f] = r[f]
  BY RowBranches, Zenon DEF SessionFromRow, ByteColumns, CopiedColumns
<1>5. f = "AppSKey" => SessionFromRow(r)[f] = r["AESKey"]
  BY RowBranches, Zenon DEF SessionFromRow, ByteColumns, CopiedColumns
<1>6. f = Envelope => SessionFromRow(r)[f] = <<r["KEKLabel"], r["AESKey"]>>
  BY RowBranches, Zenon DEF SessionFromRow, ByteColumns, CopiedColumns
<1>7. f \in ProfileIDs => SessionFromRow(r)[f] = NSProfiles
  BY RowBranches, Zenon DEF SessionFromRow, ByteColumns, CopiedColumns
<1>8. \/ f \in ByteColumns \/ f = "RXWindow" \/ f \in CopiedColumns
      \/ f \in SameColumns \ Bytes \/ f = "AppSKey" \/ f = Envelope \/ f \in ProfileIDs
      \/ SessionFromRow(r)[f] = Zero(f)
  BY Zenon DEF SessionFromRow, ByteColumns, CopiedColumns
<1> QED
  BY <1>1, <1>2, <1>3, <1>4, <1>5, <1>6, <1>7, <1>8

LEMMA ImportedFits ==
  ASSUME NEW r, IsRow(r)
  PROVE  IsSession(SessionFromRow(r))
<1>1. DOMAIN SessionFromRow(r) = Fields
  BY DEF SessionFromRow
<1>2. ASSUME NEW f \in Fields \ {Pending} PROVE SessionFromRow(r)[f] \in Value(f)
  <2>0. f \in Fields /\ f \in FlatFields \union Dropped
    BY TheFields
  <2>1. CASE f \in ByteColumns
    <3>1. f \in SameColumns /\ f \in Columns /\ f \in Bytes /\ f \in FlatFields
      BY <2>1, ColumnKinds DEF ByteColumns
    <3>2. r[f] \in Uint8
      BY <3>1, ColumnValues, Values DEF IsRow
    <3> QED
      BY <2>0, <2>1, <3>1, <3>2, RowFields, Values DEF Uint8
  <2>2. CASE f = "RXWindow"
    <3>1. r[f] \in Uint32
      BY <2>2, ColumnKinds, ColumnValues DEF IsRow
    <3>2. r[f] + W8 \div 2 \in Int
      <4>1. r[f] \in Int /\ W8 \div 2 \in Int
        <5>1. r[f] \in Int
          BY <3>1 DEF Uint32
        <5>2. W8 \div 2 \in Int
          BY ByteFits
        <5> QED
          BY <5>1, <5>2
      <4> QED
        BY <4>1
    <3>3. (r[f] + W8 \div 2) % W8 \in 0..(W8 - 1)
      BY <3>2, ByteFits DEF Uint8
    <3>4. ((r[f] + W8 \div 2) % W8) - (W8 \div 2) \in (-(W8 \div 2))..((W8 \div 2) - 1)
      <4> DEFINE n == (r[f] + W8 \div 2) % W8
                 h == W8 \div 2
      <4>1. n \in 0..(W8 - 1) /\ h \in Nat /\ W8 = 2 * h
        BY <3>3, ByteFits
      <4> HIDE DEF n, h
      <4>2. n - h \in (-h)..(h - 1)
        BY <4>1
      <4> QED
        BY <4>2 DEF n, h
    <3> QED
      BY <2>0, <2>2, <3>4, RowFields, DroppedValues
  <2>3. CASE f \in CopiedColumns
    <3>1. CASE f \in {"TXPowerIndex", "DR"}
      <4>1. f \in Columns /\ f \in Ints /\ f \in FlatFields
        BY <3>1, ColumnKinds DEF FlatFields
      <4>2. r[f] \in Uint32
        BY <3>1, <4>1, ColumnValues DEF IsRow
      <4> QED
        BY <2>0, <2>3, <4>1, <4>2, RowFields, Values
    <3>2. CASE f \in {"SNwkSIntKey", "NwkSEncKey"}
      <4>1. f \in Columns /\ f \in Scalars
        BY <3>2, ColumnKinds DEF Keys
      <4>2. r[f] \in Nat
        BY <3>2, <4>1, ColumnValues DEF IsRow
      <4> QED
        BY <2>0, <2>3, <4>1, <4>2, RowFields, ModestValues
    <3> QED
      BY <2>3, <3>1, <3>2 DEF CopiedColumns
  <2>4. CASE f \in SameColumns \ Bytes
    BY <2>0, <2>4, RowFields, ColumnKinds, ColumnValues DEF IsRow
  <2>5. CASE f = "AppSKey"
    <3>1. f \in Scalars /\ r["AESKey"] \in Nat
      BY <2>5, ColumnKinds, ColumnValues DEF IsRow, Keys
    <3> QED
      BY <2>0, <2>5, <3>1, RowFields, ModestValues
  <2>6. CASE f = Envelope
    <3>1. r["AESKey"] \in Nat /\ r["KEKLabel"] = 0
      BY ColumnKinds, ColumnValues DEF IsRow
    <3>2. SessionFromRow(r)[f] = <<0, r["AESKey"]>>
      BY <2>0, <2>6, <3>1, RowFields
    <3> QED
      BY <2>6, <3>1, <3>2, ModestValues
  <2>7. CASE f \in ProfileIDs
    BY <2>0, <2>7, RowFields, ModestValues DEF Scalars
  <2>8. CASE SessionFromRow(r)[f] = Zero(f)
    BY <2>0, <2>8, ZeroFits
  <2> QED
    BY <2>0, <2>1, <2>2, <2>3, <2>4, <2>5, <2>6, <2>7, <2>8, RowFields
<1>3. SessionFromRow(r)[Pending] = None
  BY PendingIsNotFlat, RowFields, RowBranches, ZeroValues
<1> QED
  BY <1>1, <1>2, <1>3 DEF IsSession, IsFlat

-----------------------------------------------------------------------------
\* What is saved, loaded, written to a file and read from it has its type at every
\* turn; the messages and the rows are what TypeOK does not look into.
CodecInv ==
    /\ imported \in BOOLEAN
    /\ IsSession(orig)
    /\ form \in {"redis", "loaded", "imported", "csv", "rejected"}
    /\ form = "redis" => IsWritten(content)
    /\ form \in {"loaded", "imported"} => IsSession(content)
    /\ form \in {"csv", "rejected"} => IsRow(content)

LEMMA CodecInvStep == CodecInv /\ [Next]_vars => CodecInv'
<1> SUFFICES ASSUME CodecInv, [Next]_vars PROVE CodecInv'
  OBVIOUS
<1> USE DEF CodecInv
<1>1. CASE Load
  BY <1>1, LoadedFits DEF Load
<1>2. CASE Save
  BY <1>2, SavedFits DEF Save
<1>3. CASE Export
  BY <1>3, ExportedFits DEF Export
<1>4. CASE Import
  <2>1. CASE CanBeParsed(content)
    BY <1>4, <2>1, ImportedFits DEF Import
  <2>2. CASE ~CanBeParsed(content)
    BY <1>4, <2>2 DEF Import
  <2> QED
    BY <2>1, <2>2
<1>5. CASE UNCHANGED vars
  BY <1>5 DEF vars
<1> QED
  BY <1>1, <1>2, <1>3, <1>4, <1>5 DEF Next

\* Whatever a session holds, and however often it goes through the forms, every
\* field of it stays within its type: no conversion answers a value that the next
\* one cannot take.
THEOREM TypeCorrect == Spec => []TypeOK
<1>1. Init => CodecInv
  BY InputsAssumption, SavedFits DEF Init, CodecInv
<1>2. ASSUME NEW m, IsWritten(m) PROVE IsMessage(m)
  BY <1>2 DEF IsWritten, IsMessage, Wire, Times, FlatFields
<1>3. CodecInv => TypeOK
  BY <1>2, Zenon DEF CodecInv, TypeOK, IsRow
<1> QED
  BY <1>1, <1>3, CodecInvStep, PTL DEF Spec

-----------------------------------------------------------------------------
(* What a row lacks.                                                       *)

\* No field that a row lacks is given a value by any of its columns.
LEMMA LackingKinds ==
  ASSUME NEW f \in NotInFile
  PROVE  /\ f \in FlatFields /\ f \in Fields /\ f # Pending
         /\ f \notin {"RXDelay", "RX1DROffset", "RX2DR", "NbTrans"} /\ f # "RXWindow"
         /\ f \notin {"TXPowerIndex", "DR", "SNwkSIntKey", "NwkSEncKey"}
         /\ f \notin SameColumns /\ f # "AppSKey" /\ f # Envelope /\ f \notin ProfileIDs
BY DEF NotInFile, RadioNotInFile, FlatFields, Fields, Carried, Pending, Scalars, Keys,
   Addresses, Counts, ProfileIDs, Lists, Bytes, Words, Ints, IntLists, IntMaps, Times, Envelope,
   SameColumns

LEMMA PendingIsReset ==
  /\ Pending \notin {"RXDelay", "RX1DROffset", "RX2DR", "NbTrans"} /\ Pending # "RXWindow"
  /\ Pending \notin {"TXPowerIndex", "DR", "SNwkSIntKey", "NwkSEncKey"}
  /\ Pending \notin SameColumns /\ Pending # "AppSKey" /\ Pending # Envelope
  /\ Pending \notin ProfileIDs
BY DEF Pending, SameColumns, Addresses, Counts, Envelope, ProfileIDs

LEMMA LackingIsReset ==
  ASSUME NEW r, NEW f \in NotInFile \union {Pending}
  PROVE  SessionFromRow(r)[f] = Zero(f)
<1>1. /\ f \in Fields
      /\ f \notin {"RXDelay", "RX1DROffset", "RX2DR", "NbTrans"} /\ f # "RXWindow"
      /\ f \notin {"TXPowerIndex", "DR", "SNwkSIntKey", "NwkSEncKey"}
      /\ f \notin SameColumns /\ f # "AppSKey" /\ f # Envelope /\ f \notin ProfileIDs
  BY LackingKinds, PendingIsReset, PendingIsNotFlat
<1> QED
  BY <1>1, Zenon DEF SessionFromRow

\* The fields that a row lacks, in each form that has them.
Left(f) == IF imported THEN Zero(f) ELSE orig[f]

LackInv ==
    /\ form = "redis" =>
          /\ \A f \in NotInFile : content[f] = Encode(f, Left(f))
          /\ imported => content[Pending] = None
    /\ form \in {"loaded", "imported"} =>
          /\ \A f \in NotInFile : content[f] = Left(f)
          /\ imported => content[Pending] = None

LEMMA LackInvStep == RadioInv /\ LackInv /\ [Next]_vars => LackInv'
<1> SUFFICES ASSUME RadioInv, LackInv, [Next]_vars PROVE LackInv'
  OBVIOUS
<1>0. \A f \in NotInFile : Left(f) \in Value(f)
  BY LackingKinds, InputValues, ZeroFits DEF RadioInv, Left
<1>1. CASE Load
  <2>1. /\ form = "redis" /\ form' = "loaded" /\ content' = deviceSessionFromPB(content)
        /\ UNCHANGED <<orig, imported>>
    BY <1>1 DEF Load
  <2>2. ASSUME NEW f \in NotInFile PROVE content'[f] = Left(f)
    <3>1. deviceSessionFromPB(content)[f] = Decode(f, content[f])
      BY LackingKinds DEF deviceSessionFromPB, FlatFromPB
    <3>2. content[f] = Encode(f, Left(f))
      BY <2>1 DEF LackInv
    <3> QED
      BY <1>0, <2>1, <3>1, <3>2, RoundTrip, LackingKinds
  <2>3. imported => content'[Pending] = None
    BY <2>1, PendingIsNotFlat DEF LackInv, deviceSessionFromPB
  <2> QED
    BY <2>1, <2>2, <2>3 DEF LackInv, Left
<1>2. CASE Save
  <2>1. /\ form \in {"loaded", "imported"} /\ form' = "redis"
        /\ content' = deviceSessionToPB(content) /\ UNCHANGED <<orig, imported>>
    BY <1>2 DEF Save
  <2>2. ASSUME NEW f \in NotInFile PROVE content'[f] = Encode(f, Left(f))
    <3>1. deviceSessionToPB(content)[f] = Encode(f, content[f])
      BY LackingKinds DEF deviceSessionToPB, Carried
    <3> QED
      BY <2>1, <3>1 DEF LackInv
  <2>3. imported => content'[Pending] = None
    BY <2>1 DEF LackInv, deviceSessionToPB, Carried
  <2> QED
    BY <2>1, <2>2, <2>3 DEF LackInv, Left
<1>3. CASE Export
  BY <1>3 DEF Export, LackInv
<1>4. CASE Import
  <2>1. CASE /\ form' = "imported" /\ imported' = TRUE
             /\ content' = SessionFromRow(content)
    <3>1. \A f \in NotInFile \union {Pending} : content'[f] = Zero(f)
      BY <2>1, LackingIsReset
    <3>2. Zero(Pending) = None
      BY ZeroValues
    <3> QED
      BY <2>1, <3>1, <3>2 DEF LackInv, Left
  <2>2. CASE form' = "rejected"
    BY <2>2 DEF LackInv
  <2> QED
    BY <1>4, <2>1, <2>2 DEF Import
<1>5. CASE UNCHANGED vars
  BY <1>5 DEF vars, LackInv, Left
<1> QED
  BY <1>1, <1>2, <1>3, <1>4, <1>5 DEF Next

\* Through any number of files, saves and loads, with any values that fit the types:
\* what a file has a value for is kept, and all else is as it was or, after a file,
\* zero.  Radio state is in both parts.
THEOREM WhatFilesKeep == Spec => []FilesResetWhatTheyLack
<1>1. Init => RadioInv /\ LackInv
  <2> SUFFICES ASSUME Init PROVE RadioInv /\ LackInv
    OBVIOUS
  <2>1. \A f \in InFile : content[f] = Encode(f, orig[f])
    BY RadioKinds DEF Init, deviceSessionToPB, Carried
  <2>2. \A f \in NotInFile : content[f] = Encode(f, orig[f])
    BY LackingKinds DEF Init, deviceSessionToPB, Carried
  <2> QED
    BY <2>1, <2>2 DEF Init, RadioInv, LackInv, Left
<1>2. RadioInv /\ LackInv => FilesResetWhatTheyLack
  BY DEF RadioInv, LackInv, Left, FilesResetWhatTheyLack
<1> QED
  BY <1>1, <1>2, RadioInvStep, LackInvStep, PTL DEF Spec

-----------------------------------------------------------------------------
(* Sessions of LoRaWAN 1.0, which has one network session key: get-sessions *)
(* writes FNwkSIntKey into all three columns, and loses nothing by it.      *)

OneNetworkKey == \A s \in Inputs : \A k \in {"SNwkSIntKey", "NwkSEncKey"} :
                    s[k] = s["FNwkSIntKey"]

\* The two other network keys in each form.
KeyInv == form \in {"redis", "loaded", "imported", "csv"} =>
             \A k \in {"SNwkSIntKey", "NwkSEncKey"} : content[k] = orig["FNwkSIntKey"]

LEMMA NetworkKeyKinds ==
  ASSUME NEW k \in {"SNwkSIntKey", "NwkSEncKey"}
  PROVE  /\ k \in FlatFields /\ k \in Carried /\ k \in Modest /\ k # Pending
         /\ k \in Columns /\ k \in CopiedColumns /\ k \in Fields
BY ColumnKinds DEF Keys, Scalars, FlatFields, Carried, Fields, Pending, Modest, Bytes, Words,
   Ints, IntLists, IntMaps, Times, CopiedColumns

LEMMA KeyInvStep == RadioInv /\ KeyInv /\ [Next]_vars => KeyInv'
<1> SUFFICES ASSUME RadioInv, KeyInv, [Next]_vars,
                    form' \in {"redis", "loaded", "imported", "csv"},
                    NEW k \in {"SNwkSIntKey", "NwkSEncKey"}
             PROVE  content'[k] = orig'["FNwkSIntKey"]
  BY DEF KeyInv
<1>0. k \in FlatFields /\ k \in Modest /\ Encode(k, content[k]) = content[k]
      /\ Decode(k, content[k]) = content[k]
  BY NetworkKeyKinds, Encoded, Decoded
<1>1. CASE Load
  <2>1. content' = deviceSessionFromPB(content) /\ orig' = orig /\ content[k] = orig["FNwkSIntKey"]
    BY <1>1 DEF Load, KeyInv
  <2>2. deviceSessionFromPB(content)[k] = Decode(k, content[k])
    BY NetworkKeyKinds DEF deviceSessionFromPB, FlatFromPB
  <2> QED
    BY <1>0, <2>1, <2>2
<1>2. CASE Save
  <2>1. content' = deviceSessionToPB(content) /\ orig' = orig /\ content[k] = orig["FNwkSIntKey"]
    BY <1>2 DEF Save, KeyInv
  <2>2. deviceSessionToPB(content)[k] = Encode(k, content[k])
    BY NetworkKeyKinds DEF deviceSessionToPB
  <2> QED
    BY <1>0, <2>1, <2>2
<1>3. CASE Export
  <2>1. content' = CSVfromDeviceSession(content) /\ orig' = orig
    BY <1>3 DEF Export
  <2>2. content["FNwkSIntKey"] = orig["FNwkSIntKey"]
    <3>1. "FNwkSIntKey" \in InFile
      BY DEF InFile
    <3> QED
      BY <1>3, <3>1 DEF Export, RadioInv
  <2>3. /\ k \notin SameColumns /\ k # "AESKey" /\ k # "KEKLabel"
        /\ k \notin {"TXPowerIndex", "DR", "RXWindow"}
    BY ColumnKinds
  <2>4. CSVfromDeviceSession(content)[k] = content["FNwkSIntKey"]
    BY <2>3, NetworkKeyKinds, Zenon DEF CSVfromDeviceSession
  <2> QED
    BY <2>1, <2>2, <2>4
<1>4. CASE Import
  <2>1. /\ content' = SessionFromRow(content) /\ orig' = orig
        /\ content[k] = orig["FNwkSIntKey"]
    BY <1>4 DEF Import, KeyInv
  <2>2. SessionFromRow(content)[k] = content[k]
    BY NetworkKeyKinds, RowFields
  <2> QED
    BY <2>1, <2>2
<1>5. CASE UNCHANGED vars
  BY <1>5 DEF vars, KeyInv
<1> QED
  BY <1>1, <1>2, <1>3, <1>4, <1>5 DEF Next

\* What makes up for the two columns filled from a third: with one network session
\* key, as in LoRaWAN 1.0, all keys come through any number of files, saves and loads.
THEOREM KeysOf10Survive == OneNetworkKey => (Spec => []KeysSurvive)
<1> SUFFICES ASSUME OneNetworkKey PROVE Spec => []KeysSurvive
  OBVIOUS
<1>1. Init => RadioInv /\ KeyInv
  <2> SUFFICES ASSUME Init PROVE RadioInv /\ KeyInv
    OBVIOUS
  <2>1. \A f \in InFile : content[f] = Encode(f, orig[f])
    BY RadioKinds DEF Init, deviceSessionToPB, Carried
  <2>2. ASSUME NEW k \in {"SNwkSIntKey", "NwkSEncKey"} PROVE content[k] = orig["FNwkSIntKey"]
    <3>1. content[k] = Encode(k, orig[k])
      BY NetworkKeyKinds DEF Init, deviceSessionToPB
    <3>2. Encode(k, orig[k]) = orig[k]
      BY NetworkKeyKinds, Encoded
    <3> QED
      BY <3>1, <3>2 DEF Init, OneNetworkKey
  <2> QED
    BY <2>1, <2>2 DEF Init, RadioInv, KeyInv
<1>2. RadioInv /\ KeyInv => KeysSurvive
  <2> SUFFICES ASSUME RadioInv, KeyInv, form \in {"loaded", "imported"}, NEW k \in Keys
               PROVE  content[k] = orig[k]
    BY DEF KeysSurvive
  <2>1. CASE k \in {"FNwkSIntKey", "AppSKey"}
    <3>1. k \in InFile
      BY <2>1 DEF InFile
    <3> QED
      BY <3>1 DEF RadioInv
  <2>2. CASE k \in {"SNwkSIntKey", "NwkSEncKey"}
    BY <2>2 DEF RadioInv, KeyInv, OneNetworkKey
  <2> QED
    BY <2>1, <2>2 DEF Keys
<1> QED
  BY <1>1, <1>2, RadioInvStep, KeyInvStep, PTL DEF Spec
=============================================================================
