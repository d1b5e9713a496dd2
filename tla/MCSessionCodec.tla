--------------------------- MODULE MCSessionCodec ---------------------------
(* Sessions for SessionCodec: one of LoRaWAN 1.0, with or without a pending *)
(* session, one of 1.1, and each with one field at a limit.                 *)
EXTENDS SessionCodec

\* A value for every field; no two keys are the same.
Base11 ==
    [f \in Fields |->
        CASE f = "MACVersion" -> 11
          [] f = "FNwkSIntKey" -> 1 [] f = "SNwkSIntKey" -> 2
          [] f = "NwkSEncKey" -> 3 [] f = "AppSKey" -> 4
          [] f = "RXDelay" -> 1 [] f = "RX1DROffset" -> 2
          [] f = "LastDevStatusRequested" -> 5
          [] f = "EnabledUplinkChannels" -> <<0, 1>>
          [] f = "UplinkHistory" -> <<2, 0>>
          [] f = "ChannelFrequencies" -> <<7>>
          [] f = "EnabledChannels" -> <<1>>
          [] f \in IntMaps -> {<<1, 2>>, <<3, 1>>}
          [] f = Envelope -> <<1, 9>>
          [] f = Pending -> None
          [] OTHER -> 1]

Base10 == [Base11 EXCEPT !["MACVersion"] = 10,
                         !["SNwkSIntKey"] = 1, !["NwkSEncKey"] = 1]

\* The largest value of a fixed-width field, and the zero value of any.
Limits(f) ==
    {Zero(f)} \union
    (CASE f \in Bytes -> {W8 - 1}
       [] f = "RXWindow" -> {-1}
       [] f \in Words -> {W16 - 1}
       [] f \in Ints \union Counts -> {W32 - 1}
       [] f \in IntLists -> {<<W32 - 1>>}
       [] f = "ExtraUplinkChannels" -> {{<<W32 - 1, W32 - 1>>}}
       [] f = "MACCommandErrorCount" -> {{<<W8 - 1, W32 - 1>>}}
       [] f \in Lists \union {"EnabledChannels"} -> {<<2>>}
       [] f = Envelope -> {<<0, 2>>}
       [] f = Pending -> {}
       [] OTHER -> {2})

\* With one field varied, the network session keys left as they are.
OneVaried(s) ==
    UNION {{[s EXCEPT ![f] = v] : v \in Limits(f)} :
           f \in Fields \ {"FNwkSIntKey", "SNwkSIntKey", "NwkSEncKey"}}

Sessions10 == LET flat == OneVaried(Base10)
              IN flat \union {[Base10 EXCEPT ![Pending] = s] : s \in flat}

Sessions11 == Sessions10 \union OneVaried(Base11)
=============================================================================
