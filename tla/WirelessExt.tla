------------------------------ MODULE WirelessExt ------------------------------
(***************************************************************************)
(* The wireless extensions of the WLAN driver (driver_src/wlan/             *)
(* lwlan_ioctl.c): the handlers behind iwconfig, iwlist, iwpriv and         *)
(* wpa_supplicant.  The network core runs them one at a time (the rtnl      *)
(* lock); between two of them the adapter, a private library, may stop      *)
(* working, join and leave networks and change its channel.                 *)
(*                                                                         *)
(* Every handler is one action.  What it hands to the library is lib in the *)
(* reply, what it answers is val; sequences of numbers, so that replies of  *)
(* different handlers can be compared.  An error of the code is its number. *)
(***************************************************************************)
EXTENDS ScanStream

CONSTANTS
    AllowedChannels,  \* channels the library accepts in this regulatory domain
    FreqRequests,     \* frequencies asked for: mantissa m and exponent e
    Indices,          \* values of the index bits of a key request (0..255)
    KeyLengths,       \* key lengths asked for
    Thresholds,       \* RTS and fragmentation thresholds asked for, -1 is "off"
    ScanLists,        \* lists of BSSs a scan may have found
    BufferLengths     \* lengths of the buffers passed with "get scan results"

ASSUME ChannelAssumption == AllowedChannels \subseteq 1..255
(* The fields of struct iw_freq are an s32 and an s16.                      *)
Signed(max) == -max - 1..max
ASSUME FreqAssumption == FreqRequests \subseteq [m : Signed(2147483647), e : Signed(32767)]
ASSUME KeyAssumption == Indices \subseteq 0..255 /\ KeyLengths \subseteq 0..255
ASSUME ThresholdAssumption == Thresholds \subseteq Int
ASSUME ScanAssumption == ScanLists \subseteq Seq(Bss)
ASSUME BufferAssumption == BufferLengths \subseteq Nat

VARIABLES
    adapter,   \* what the library keeps, as far as handlers read it again
    asked,     \* history: the frequency a user was last granted, in MHz
    reply      \* the handler that runs, done: what it was asked and what it did

vars == <<adapter, asked, reply>>

Mode == {"ESS", "IBSS"}
Adapter == [works   : BOOLEAN,   \* Adap_Driver_isWork
            mode    : Mode,      \* Adap_Get_Mode
            joined  : BOOLEAN,   \* Adap_Has_Joined
            default : 0..255,    \* Adap_Set_Defult_Channel
            channel : 0..255]    \* Adap_Get_Channel

NotWorking == -1
EPERM      == -1
EINVAL     == -22
EOPNOTSUPP == -95
ENOTSUPP   == -524

Nothing == <<>>
NoReply == [op |-> "none", arg |-> Nothing, err |-> 0, lib |-> Nothing, val |-> Nothing,
            put |-> Nothing]

WirelessTypeOK ==
    /\ adapter \in Adapter
    /\ asked \in Nat
    /\ reply.err \in {0, NotWorking, EINVAL, EOPNOTSUPP, ENOTSUPP, -EOPNOTSUPP, -7}

Init ==
    /\ adapter = [works |-> TRUE, mode |-> "ESS", joined |-> FALSE,
                  default |-> 1, channel |-> 1]
    /\ asked = 2412
    /\ reply = NoReply

-----------------------------------------------------------------------------
(* A handler's answer, and its way back to the user, after which the next   *)
(* handler may begin.                                                       *)
Answer(op, arg, err, lib, val) ==
    /\ reply = NoReply
    /\ reply' = [op |-> op, arg |-> arg, err |-> err, lib |-> lib, val |-> val,
                 put |-> Nothing]

Return ==
    /\ reply # NoReply
    /\ reply' = NoReply
    /\ UNCHANGED <<adapter, asked>>

(* Adap_Driver_isWork comes first in nearly every handler.                  *)
Dead(op, arg) ==
    /\ ~adapter.works
    /\ Answer(op, arg, NotWorking, Nothing, Nothing)
    /\ UNCHANGED <<adapter, asked>>

Handled(op, arg, err, lib, val) ==
    /\ adapter.works
    /\ Answer(op, arg, err, lib, val)

Read(op, arg, err, lib, val) ==
    Dead(op, arg) \/ (Handled(op, arg, err, lib, val) /\ UNCHANGED <<adapter, asked>>)

-----------------------------------------------------------------------------
(* Channels and frequencies (MHz).  Division in C truncates towards zero,   *)
(* and the 2.4 GHz conversion goes through an unsigned char.                *)
Divide(a, b) == IF a >= 0 THEN a \div b ELSE -((-a) \div b)

ChannelToFreqBug(c) == IF c > 15 THEN 5000 + 5 * c ELSE 2407 + 5 * c
ChannelToFreq(c) ==
    IF c > 15 THEN 5000 + 5 * c
    ELSE IF c = 14 THEN 2484 ELSE 2407 + 5 * c

FreqToChannel(f) ==
    IF f > 5000 THEN Divide(f - 5000, 5)
    ELSE IF f = 2484 THEN 14 ELSE Divide(f - 2407, 5) % 256

(* A request is a channel number, or m * 10^e Hz.                           *)
IsChannel(r) == r.e = 0 /\ r.m \in 0..1000
PowerOfTen(n) == <<1, 10, 100, 1000, 10000, 100000, 1000000,
                   10000000, 100000000, 1000000000>>[n + 1]

(* set_freq divides by 10 while a counter, a signed char that starts at     *)
(* 6 - e, counts down to 0: exponents far off any use wrap around in it.    *)
Char(x) == ((x + 128) % 256) - 128
Divisions(r) ==
    LET expon == Char(6 - r.e) IN
    IF expon = -128 THEN 128 ELSE IF expon < 0 THEN 0 ELSE expon
Megahertz(r) == IF Divisions(r) > 9 THEN 0 ELSE Divide(r.m, PowerOfTen(Divisions(r)))
ChannelAsked(r) == IF IsChannel(r) THEN r.m ELSE FreqToChannel(Megahertz(r))

(* What the request means, of one that is granted (m is above 1000 then):   *)
(* with a negative exponent it is less than 215 MHz, with one above 6 it is *)
(* more than 10 GHz.                                                        *)
Meant(r) ==
    IF IsChannel(r) THEN ChannelToFreq(r.m)
    ELSE IF r.e < 0 THEN 0
    ELSE IF r.e > 6 THEN 10000
    ELSE r.m \div PowerOfTen(6 - r.e)

SetFreq(r) ==
    LET arg == <<r.m, r.e>>
        c   == ChannelAsked(r)
    IN
    \/ Dead("set_freq", arg)
    \/ /\ \/ /\ adapter.mode # "IBSS"
             /\ Handled("set_freq", arg, 0, Nothing, Nothing)
          \/ /\ adapter.mode = "IBSS"
             /\ ~IsChannel(r) /\ Megahertz(r) <= 1000
             /\ Handled("set_freq", arg, EINVAL, Nothing, Nothing)
          \/ /\ adapter.mode = "IBSS"
             /\ IsChannel(r) \/ Megahertz(r) > 1000
             /\ c \notin AllowedChannels
             /\ Handled("set_freq", arg, EOPNOTSUPP, <<c>>, Nothing)
       /\ UNCHANGED <<adapter, asked>>
    \/ /\ adapter.mode = "IBSS"
       /\ IsChannel(r) \/ Megahertz(r) > 1000
       /\ c \in AllowedChannels
       /\ Handled("set_freq", arg, 0, <<c>>, Nothing)
       /\ adapter' = [adapter EXCEPT !.default = c]
       /\ asked' = Meant(r)

GetFreq == Read("get_freq", Nothing, 0, Nothing,
                <<ChannelToFreq(adapter.channel) * 100000, 1>>)

-----------------------------------------------------------------------------
(* The type of network.  Once joined, the request is answered with success  *)
(* and ignored.                                                             *)
SetBssType(mode) ==
    LET arg == <<mode>> IN
    \/ Dead("set_mode", arg)
    \/ /\ adapter.joined
       /\ Handled("set_mode", arg, 0, Nothing, Nothing)
       /\ UNCHANGED <<adapter, asked>>
    \/ /\ ~adapter.joined /\ mode \in {0, 1, 2}
       /\ Handled("set_mode", arg, 0, <<mode>>, Nothing)
       /\ adapter' = [adapter EXCEPT !.mode = IF mode = 1 THEN "IBSS" ELSE "ESS"]
       /\ UNCHANGED asked
    \/ /\ ~adapter.joined /\ mode \notin {0, 1, 2}
       /\ Handled("set_mode", arg, EOPNOTSUPP, Nothing, Nothing)
       /\ UNCHANGED <<adapter, asked>>

GetBssType == Read("get_mode", Nothing, 0, Nothing,
                   <<IF adapter.mode = "IBSS" THEN 1 ELSE 2>>)

GetName(dotType) ==
    Read("get_name", <<dotType>>, IF dotType \in 0..2 THEN 0 ELSE ENOTSUPP,
         Nothing, Nothing)

(* What the driver announces of itself.                                     *)
IwRange == [minRts |-> 256, maxRts |-> 2347, minFrag |-> 256, maxFrag |-> 2346,
          tokens |-> 4]

GetRange == Read("get_range", Nothing, 0, Nothing,
                 <<IwRange.minRts, IwRange.maxRts, IwRange.minFrag, IwRange.maxFrag,
                   IwRange.tokens, Cardinality(AllowedChannels)>>)

-----------------------------------------------------------------------------
(* Thresholds.  -1, or the disabled flag, turns the mechanism off.          *)
RtsAccepted(v)  == v >= 256 /\ v <= 2347
FragAccepted(v) == v >= 256 /\ v <= 2346

Threshold(op, accepted, v, disabled) ==
    IF disabled \/ v = -1 THEN Read(op, <<v>>, 0, <<-1>>, Nothing)
    ELSE IF accepted      THEN Read(op, <<v>>, 0, <<v>>, Nothing)
    ELSE Read(op, <<v>>, EINVAL, Nothing, Nothing)

SetRts(v, disabled)  == Threshold("set_rts", RtsAccepted(v), v, disabled)
SetFrag(v, disabled) == Threshold("set_frag", FragAccepted(v), v, disabled)

(* get_rts, get_frag, get_rate and get_ap pass on what the library says.    *)
GetRts  == Read("get_rts", Nothing, 0, Nothing, Nothing)
GetFrag == Read("get_frag", Nothing, 0, Nothing, Nothing)
GetRate == Read("get_rate", Nothing, 0, Nothing, Nothing)
GetAp   == Read("get_ap", Nothing, 0, Nothing, Nothing)

SetRate(fixed) == Read("set_rate", <<fixed>>, 0, <<fixed>>, Nothing)

(* Sensitivity and transmit power are refused, working or not.              *)
Unsupported(op) ==
    /\ Answer(op, Nothing, EOPNOTSUPP, Nothing, Nothing)
    /\ UNCHANGED <<adapter, asked>>

(* The name of the network; flags = 0 stands for "any".  The library        *)
(* refuses during TKIP countermeasures; a join comes later, see Join.       *)
EssidLength(flags, length) == IF flags = 0 THEN 0 ELSE length
EssidRefused(flags, length) == flags > 0 /\ (length = 0 \/ length > 32)

SetEssid(flags, length, countermeasures) ==
    LET arg == <<flags, length>> IN
    IF EssidRefused(flags, length) THEN Read("set_essid", arg, EINVAL, Nothing, Nothing)
    ELSE Read("set_essid", arg, IF countermeasures THEN EPERM ELSE 0,
              <<EssidLength(flags, length)>>, Nothing)

GetEssid(length) == Read("get_essid", Nothing, 0, Nothing,
                         <<IF length \in 1..32 THEN length ELSE 0>>)

-----------------------------------------------------------------------------
(* Authentication.  A value of wireless.h becomes a value of the library;   *)
(* what is not exactly one of the known bits becomes "none".                *)
AuthParams == {"version", "pairwise", "group", "mgmt", "alg"}
AuthIgnored == {"enabled", "countermeasures", "unencrypted", "eapol", "privacy"}

Cipher(v) == CASE v \in {2, 16} -> 0     \* WEP40, WEP104: WEP_MODE_WEP
               [] v = 4        -> 1     \* TKIP
               [] v = 8        -> 2     \* CCMP
               [] OTHER        -> 3     \* WEP_MODE_NONE

AuthValue(param, v) ==
    CASE param = "version"               -> IF v \in {2, 4} THEN v \div 2 ELSE 0
      [] param \in {"pairwise", "group"} -> Cipher(v)
      [] param = "mgmt"                  -> IF v \in {1, 2} THEN v ELSE 0
      [] param = "alg"                   -> IF v \in {1, 2} THEN v - 1 ELSE 2

SetAuth(param, v, result) ==
    IF param \in AuthParams
    THEN Read("set_auth", <<v>>, result, <<AuthValue(param, v)>>, Nothing)
    ELSE Read("set_auth", <<v>>, IF param \in AuthIgnored THEN 0 ELSE EINVAL, Nothing, Nothing)

(* alg is what the library has: 0 for open, 1 for shared, 2 for none.       *)
GetAuth(param, alg) ==
    LET err == CASE param = "alg"                             -> IF alg \in {0, 1} THEN 0 ELSE EINVAL
                 [] param \in {"version", "pairwise", "group", "mgmt", "other"}
                                                              -> EOPNOTSUPP
                 [] OTHER                                     -> 0
    IN Read("get_auth", <<alg>>, err, Nothing, 
                 IF param = "alg" /\ err = 0 THEN <<alg + 1>> ELSE Nothing)

-----------------------------------------------------------------------------
(* Keys.  A user counts them from 1, and 0 is "the current one"; the        *)
(* library counts from 0.                                                   *)
IndexRefused(index) == index > 4
KeySlotBug(index) == index
KeySlot(index) == IF index = 0 THEN 0 ELSE index - 1

(* WEP keys: the length is not looked at.                                   *)
SetEncode(index, disabled, length) ==
    IF IndexRefused(index)
    THEN Read("set_encode", <<index>>, EINVAL, Nothing, Nothing)
    ELSE Read("set_encode", <<index>>, 0,
              IF disabled THEN <<KeySlot(index)>> ELSE <<KeySlot(index), length>>, Nothing)

GetEncode(index, length) ==
    IF IndexRefused(index)
    THEN Read("get_encode", <<index>>, EINVAL, Nothing, Nothing)
    ELSE Read("get_encode", <<index>>, 0, <<KeySlot(index)>>, <<length>>)

(* WPA keys: alg, whether it is a group key, a transmit key, for the        *)
(* broadcast address, and the length of the key.                            *)
ExtRequest == [index : Indices, alg : {"none", "wep", "tkip", "ccmp"}, group : BOOLEAN,
               tx : BOOLEAN, broadcast : BOOLEAN, length : KeyLengths]

Bit(b) == IF b THEN 1 ELSE 0
ExtArg(r) == <<r.index, Bit(r.group), Bit(r.tx), Bit(r.broadcast), r.length>>

PairwiseRefused(r) ==
    \/ (KeySlot(r.index) # 0 /\ r.alg # "wep") \/ adapter.mode = "IBSS"
    \/ ~r.tx \/ KeySlot(r.index) # 0
    \/ r.broadcast

ExtRefused(r) ==
    \/ IndexRefused(r.index)
    \/ r.alg = "none"
    \/ ~r.group /\ PairwiseRefused(r)
    \/ r.length \notin {5, 13, 16, 32}

SetEncodeExt(r, result) ==
    IF ExtRefused(r) THEN Read("add_key", ExtArg(r), EINVAL, Nothing, Nothing)
    ELSE Read("add_key", ExtArg(r), result, <<KeySlot(r.index), r.length>>, Nothing)

RemoveKeyExt(index, result) ==
    IF IndexRefused(index)
    THEN Read("remove_key", <<index>>, EINVAL, Nothing, Nothing)
    ELSE Read("remove_key", <<index>>, result, <<KeySlot(index)>>, Nothing)

(* get_encode_ext.  Its test of the index is masked away by a misplaced !,  *)
(* the index is not counted from 0 before the library gets it, and the      *)
(* request is cleared before its group flag is read.  cipher is what the    *)
(* library reports: off, one of three, one of three but no such key, or     *)
(* unknown.                                                                 *)
GetEncodeExt(index, room, cipher) ==
    LET named == (index + 1) % 256 IN
    CASE ~room                  -> Read("get_key", <<index>>, EINVAL, Nothing, Nothing)
      [] room /\ cipher = "off" -> Read("get_key", <<index>>, 0, Nothing, <<named>>)
      [] room /\ cipher = "bad" -> Read("get_key", <<index>>, EINVAL, Nothing, Nothing)
      [] room /\ cipher = "keyless" -> Read("get_key", <<index>>, EINVAL, <<index>>, Nothing)
      [] OTHER                  -> Read("get_key", <<index>>, 0, <<index>>, <<named>>)

-----------------------------------------------------------------------------
(* The counters of /proc/net/wireless: no test whether the adapter works.   *)
(* The level is a byte.                                                     *)
GetWirelessStats(connected, rssi) ==
    /\ Answer("stats", <<rssi>>, 0, Nothing,
              <<IF connected THEN (((rssi + 2) * 12) \div 10) % 256 ELSE 0>>)
    /\ UNCHANGED <<adapter, asked>>

(* The private calls of iwpriv; none of them tests it either, and what they *)
(* do not know they refuse with a positive number.                          *)
Private(op, arg, err, lib) ==
    /\ Answer(op, arg, err, lib, Nothing)
    /\ UNCHANGED <<adapter, asked>>

PrivGetString(flag) ==
    Private("priv_get_string", <<flag>>, IF flag \in {1, 2} THEN 0 ELSE -EOPNOTSUPP, Nothing)
PrivSetString == Private("priv_set_string", Nothing, EOPNOTSUPP, Nothing)

SetDomain(value) ==
    Private("priv_set_int", <<0, value>>, IF value \in 0..3 THEN 0 ELSE EINVAL,
            IF value \in 0..3 THEN <<value>> ELSE Nothing)
SetDbgCmd(value) ==
    Private("priv_set_int", <<2, value>>, IF value \in 0..4 THEN 0 ELSE EINVAL, Nothing)

PrivSetInt(param, value) ==
    CASE param = 0 -> SetDomain(value)
      [] param = 1 -> Private("priv_set_int", <<1, value>>, EOPNOTSUPP, Nothing)
      [] param = 2 -> SetDbgCmd(value)
      [] OTHER     -> Private("priv_set_int", <<param, value>>, -EOPNOTSUPP, Nothing)

PrivGetInt(param) ==
    Private("priv_get_int", <<param>>,
            CASE param = 0 -> 0 [] param = 1 -> EOPNOTSUPP [] OTHER -> -EOPNOTSUPP, Nothing)

-----------------------------------------------------------------------------
(* Scanning.  The list is what the library has when it is asked.            *)
StartScan(result) ==
    /\ Answer("scan", Nothing, result, Nothing, Nothing)
    /\ UNCHANGED <<adapter, asked>>

E2BIG == -7

GetScanRes(list, length) ==
    LET st == GetScanResult(list, length) IN
    /\ \/ Dead("get_scan", <<length>>)
       \/ /\ adapter.works /\ reply = NoReply
          /\ reply' = [op |-> "get_scan", arg |-> <<length>>,
                       err |-> IF st.err THEN E2BIG ELSE 0,
                       lib |-> list, val |-> <<st.pos>>, put |-> st.put]
          /\ UNCHANGED <<adapter, asked>>

-----------------------------------------------------------------------------
(* The adapter.  It fails and is revived; it joins an access point, or      *)
(* creates or finds an ad hoc network, and leaves.  A new ad hoc network is *)
(* created on the default channel.                                          *)
Quiet == UNCHANGED <<asked, reply>>

Fail   == adapter.works /\ adapter' = [adapter EXCEPT !.works = FALSE] /\ Quiet
Revive == ~adapter.works /\ adapter' = [adapter EXCEPT !.works = TRUE] /\ Quiet

Join(c) ==
    /\ adapter.works /\ ~adapter.joined
    /\ adapter' = [adapter EXCEPT !.joined = TRUE, !.channel = c]
    /\ Quiet

Create == adapter.mode = "IBSS" /\ Join(adapter.default)
Leave  == adapter.joined /\ adapter' = [adapter EXCEPT !.joined = FALSE] /\ Quiet

Environment ==
    Fail \/ Revive \/ Create \/ Leave \/ \E c \in AllowedChannels : Join(c)

Settings ==
    \/ \E r \in FreqRequests : SetFreq(r)
    \/ GetFreq
    \/ \E mode \in 0..3 : SetBssType(mode)
    \/ GetBssType
    \/ \E t \in 0..3 : GetName(t)
    \/ GetRange
    \/ \E v \in Thresholds, off \in BOOLEAN : SetRts(v, off) \/ SetFrag(v, off)
    \/ GetRts \/ GetFrag \/ GetRate \/ GetAp
    \/ \E fixed \in 0..1 : SetRate(fixed)
    \/ \E op \in {"set_sens", "get_sens", "set_tx_pow", "get_tx_pow"} : Unsupported(op)
    \/ \E n \in {0, 32, 33} :
           \/ GetEssid(n)
           \/ \E flags \in 0..1, busy \in BOOLEAN : SetEssid(flags, n, busy)
    \/ \E connected \in BOOLEAN, rssi \in {0, 60, 255} : GetWirelessStats(connected, rssi)

Result == {0, NotWorking}

Security ==
    \/ \E p \in AuthParams \cup AuthIgnored \cup {"other"} :
           \/ \E v \in {1, 2, 3, 4, 8, 16}, res \in Result : SetAuth(p, v, res)
           \/ \E alg \in 0..2 : GetAuth(p, alg)
    \/ \E i \in Indices :
           \/ \E n \in KeyLengths : GetEncode(i, n) \/ \E off \in BOOLEAN : SetEncode(i, off, n)
           \/ \E res \in Result : RemoveKeyExt(i, res)
           \/ \E room \in BOOLEAN, c \in {"off", "bad", "keyless", "known"} : GetEncodeExt(i, room, c)
    \/ \E r \in ExtRequest, res \in Result : SetEncodeExt(r, res)

PrivateCalls ==
    \/ \E param \in 0..3, value \in 0..5 : PrivSetInt(param, value)
    \/ \E param \in 0..3 : PrivGetInt(param) \/ PrivGetString(param)
    \/ PrivSetString

Scanning ==
    \/ \E res \in Result : StartScan(res)
    \/ \E list \in ScanLists, n \in BufferLengths : GetScanRes(list, n)

Next == Environment \/ Return \/ Settings \/ Security \/ PrivateCalls \/ Scanning

Spec == Init /\ [][Next]_vars

-----------------------------------------------------------------------------
(* Properties.                                                             *)

(***************************************************************************)
(* The default channel, on which an ad hoc network is created, is that of  *)
(* the frequency last granted, up to the raster of channels, whatever      *)
(* mantissa and exponent it came with, if and only if that frequency lies  *)
(* in one of the two bands: there the conversions of lwlan_ioctl.c:53-114  *)
(* undo each other.  Outside, set_freq may still be granted, always with a *)
(* channel elsewhere: below 5 GHz the number goes through an unsigned char *)
(* and, if it is above 15, is then read as one of 5 GHz; the lowest        *)
(* numbers of 5 GHz are read as channels of 2.4 GHz; an exponent that is   *)
(* not one of 0..6 may leave a mantissa undivided, which is read as MHz.   *)
(***************************************************************************)
Near(f, g) == f - g \in -7..4
InBand(f) == f \in 2412..2486 \/ f \in 5080..6279

ChannelMeansFreq == Near(asked, ChannelToFreq(adapter.default)) <=> InBand(asked)

(***************************************************************************)
(* What get_range announces is what the other handlers grant: thresholds   *)
(* inside the announced limits and nothing else, key indices up to the     *)
(* announced number of keys and nothing else.  All four handlers that are  *)
(* given an index hand the library the same slot for it, one that exists   *)
(* (lwlan_ioctl.c:413-437 against 1017-1112, 1490-1590, 1624-1639).        *)
(***************************************************************************)
RangeIsHonest ==
    adapter.works /\ reply.err # NotWorking =>
        /\ reply.op = "set_rts" /\ reply.lib # <<-1>> =>
               (reply.err = 0 <=> reply.arg[1] \in IwRange.minRts..IwRange.maxRts)
        /\ reply.op = "set_frag" /\ reply.lib # <<-1>> =>
               (reply.err = 0 <=> reply.arg[1] \in IwRange.minFrag..IwRange.maxFrag)
        /\ reply.op \in {"set_encode", "get_encode"} =>
               (reply.err = 0 <=> reply.arg[1] \in 0..IwRange.tokens)
        /\ reply.op \in {"set_encode", "get_encode", "add_key", "remove_key"}
             /\ reply.lib # Nothing =>
               /\ reply.lib[1] \in 0..IwRange.tokens - 1
               /\ reply.arg[1] > 0 => reply.lib[1] = reply.arg[1] - 1

(***************************************************************************)
(* A scan that is answered with success names every BSS in order, with     *)
(* every one of its rates, although a rate that does not fit is passed     *)
(* over in silence (lwlan_ioctl.c:651-680): the beacon event behind the    *)
(* rates is longer than a rate.                                            *)
(***************************************************************************)
ScanComplete ==
    reply.op = "get_scan" /\ reply.err = 0 => reply.put = KindsOf(reply.lib)

(***************************************************************************)
(* A scan fails only for a reason: the buffer is too short for the list,   *)
(* or the list has a BSS the code cannot report.  So a caller that asks    *)
(* again with a longer buffer succeeds, unless there is such a BSS.        *)
(***************************************************************************)
ScanFailureExplained ==
    reply.op = "get_scan" /\ reply.err = E2BIG =>
        \/ EndOfBuffer(reply.arg[1]) <= SizeOf(reply.lib)
        \/ \E i \in DOMAIN reply.lib : ~Reportable(reply.lib[i])

(***************************************************************************)
(* lwlan_ioctl.c:674 says of E2BIG after the rates "We ran out of space in *)
(* the buffer".                                                            *)
(***************************************************************************)
E2bigMeansFull ==
    reply.op = "get_scan" /\ reply.err = E2BIG
      /\ (\A i \in DOMAIN reply.lib : reply.lib[i].rsn = NoIe /\ reply.lib[i].wpa = NoIe) =>
        EndOfBuffer(reply.arg[1]) <= SizeOf(reply.lib)
=============================================================================
