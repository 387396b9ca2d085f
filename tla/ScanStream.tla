------------------------------ MODULE ScanStream ------------------------------
(***************************************************************************)
(* The answer of the WLAN driver to "give me the scan results"              *)
(* (driver_src/wlan/lwlan_ioctl.c, _ioctl_sub_get_scan_res): for every BSS  *)
(* a series of wireless events is packed into the buffer of the caller, and *)
(* the call fails with E2BIG when an event does not fit.                    *)
(*                                                                         *)
(* A BSS is what the library reports of it, as far as it decides sizes:     *)
(*   ssid   the length of its name                                          *)
(*   typed  it says that it is an ESS or an IBSS                            *)
(*   rates  how many of its supported rates are not 0                       *)
(*   rsn, wpa   the length byte of each information element, or NoIe        *)
(***************************************************************************)
EXTENDS Integers, Sequences, FiniteSets

NoIe == -1
IeLength == 0..255 \cup {NoIe}
Bss == [ssid : Nat, typed : BOOLEAN, rates : Nat, rsn : IeLength, wpa : IeLength]

(* <linux/wireless.h>, 32-bit layout: the sizes of the events.              *)
LcpLen    == 4
AddrLen   == 20
UintLen   == 8
CharLen   == 20
FreqLen   == 12
QualLen   == 8
ParamLen  == 12
PointLen(n) == 8 + n

BeaconText == 20     \* "Beacon Interval:100" and the like
MaxIeLen   == 64 * 2 + 30
ScanMaxData == 4096  \* IW_SCAN_MAX_DATA

Kind == {"ap", "essid", "mode", "name", "freq", "qual", "encode", "rate", "beacon",
         "rsn", "wpa"}
Event(kind, len) == [kind |-> kind, len |-> len]

(* A stream under construction: bytes used, events put, E2BIG met.          *)
Stream == [pos : Nat, put : Seq(Kind), err : BOOLEAN]
Empty == [pos |-> 0, put |-> <<>>, err |-> FALSE]
Failed(st) == [st EXCEPT !.err = TRUE]

(* iwe_stream_add_event and _add_point: the event is put if it fits.        *)
Fits(pos, len, end) == pos + len < end
Put(st, kind, len) == [st EXCEPT !.pos = @ + len, !.put = Append(@, kind)]

(* An event that leaves the position where it was sets E2BIG, and the loop  *)
(* over the BSSs is left.                                                   *)
Add(st, end, kind, len) ==
    IF st.err THEN st
    ELSE IF Fits(st.pos, len, end) THEN Put(st, kind, len)
    ELSE Failed(st)

(* A series of events: what the stream is after the first n of them.        *)
Additions(st, end, events) ==
    LET add[n \in 0..Len(events)] ==
            IF n = 0 THEN st ELSE Add(add[n - 1], end, events[n].kind, events[n].len)
    IN  add

AddAll(st, end, events) == Additions(st, end, events)[Len(events)]

(* From the BSSID to the encryption flag.                                   *)
HeadEvents(b) ==
    <<Event("ap", AddrLen), Event("essid", PointLen(b.ssid))>>
    \o (IF b.typed THEN <<Event("mode", UintLen)>> ELSE <<>>)
    \o <<Event("name", CharLen), Event("freq", FreqLen),
         Event("qual", QualLen), Event("encode", PointLen(0))>>

(* The rates share one header; iwe_stream_add_value passes over a rate that *)
(* does not fit.  With no rate added the code tests whether the position    *)
(* moved, which here it never has.                                          *)
RateLenBug == ParamLen
RateLen == ParamLen - LcpLen

RatesThatFit(st, end, n) ==
    Cardinality({k \in 1..n : Fits(st.pos + LcpLen + (k - 1) * RateLen, RateLen, end)})

RateKinds(n) == [k \in 1..n |-> "rate"]

AddRates(st, end, b) ==
    LET n == RatesThatFit(st, end, b.rates) IN
    IF st.err THEN st
    ELSE IF n > 0
    THEN [st EXCEPT !.pos = @ + LcpLen + n * RateLen, !.put = @ \o RateKinds(n)]
    ELSE Failed(st)

BeaconEvent == <<Event("beacon", PointLen(BeaconText))>>

(* An information element is copied through a buffer of MaxIeLen bytes.     *)
AddIeBug(st, end, kind, ie) ==
    IF st.err \/ ie = NoIe \/ ie + 2 > MaxIeLen THEN st
    ELSE Add(st, end, kind, PointLen(ie + 2))
AddIe(st, end, kind, ie) ==
    IF st.err \/ ie = NoIe THEN st
    ELSE IF ie + 2 > MaxIeLen THEN Failed(st)
    ELSE Add(st, end, kind, PointLen(ie + 2))

AddBss(st, end, b) ==
    LET head   == AddAll(st, end, HeadEvents(b))
        rated  == AddRates(head, end, b)
        beacon == AddAll(rated, end, BeaconEvent)
    IN AddIe(AddIe(beacon, end, "rsn", b.rsn), end, "wpa", b.wpa)

(* The loop over the scan results, with its own test for a full buffer, and *)
(* what the stream is after the first n BSSs.                              *)
NextBss(st, end, b) ==
    IF st.err THEN st
    ELSE IF st.pos >= end THEN Failed(st)
    ELSE AddBss(st, end, b)

Passes(list, end) ==
    LET stream[n \in 0..Len(list)] ==
            IF n = 0 THEN Empty ELSE NextBss(stream[n - 1], end, list[n])
    IN  stream

SubGetScanRes(list, end) == Passes(list, end)[Len(list)]

(* A caller that gives no length gets the default.                          *)
EndOfBuffer(length) == IF length = 0 THEN ScanMaxData ELSE length
GetScanResult(list, length) == SubGetScanRes(list, EndOfBuffer(length))

-----------------------------------------------------------------------------
(* What the list contains, apart from any buffer: used by the properties.   *)
(* As above, recursive functions give what the first n contribute.         *)
Sums(numbers) ==
    LET sum[n \in 0..Len(numbers)] == IF n = 0 THEN 0 ELSE sum[n - 1] + numbers[n]
    IN  sum

SumOf(numbers) == Sums(numbers)[Len(numbers)]

KindsIn(events) == [k \in DOMAIN events |-> events[k].kind]
Total(events) == SumOf([k \in DOMAIN events |-> events[k].len])

IeEvents(kind, ie) == IF ie = NoIe THEN <<>> ELSE <<Event(kind, PointLen(ie + 2))>>

KindsOfBss(b) ==
    KindsIn(HeadEvents(b)) \o RateKinds(b.rates) \o KindsIn(BeaconEvent)
        \o KindsIn(IeEvents("rsn", b.rsn)) \o KindsIn(IeEvents("wpa", b.wpa))

SizeOfBss(b) ==
    Total(HeadEvents(b)) + LcpLen + b.rates * (ParamLen - LcpLen) + Total(BeaconEvent)
        + Total(IeEvents("rsn", b.rsn)) + Total(IeEvents("wpa", b.wpa))

KindsUpTo(list) ==
    LET kinds[n \in 0..Len(list)] ==
            IF n = 0 THEN <<>> ELSE kinds[n - 1] \o KindsOfBss(list[n])
    IN  kinds

KindsOf(list) == KindsUpTo(list)[Len(list)]
SizeOf(list)  == SumOf([i \in DOMAIN list |-> SizeOfBss(list[i])])

(* A BSS the code can report at all.                                        *)
Reportable(b) == b.rates > 0 /\ b.rsn + 2 <= MaxIeLen /\ b.wpa + 2 <= MaxIeLen
=============================================================================
