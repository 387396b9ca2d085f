---------------------------- MODULE MCWirelessExt ----------------------------
(* Instances of WirelessExt for TLC.                                        *)
EXTENDS WirelessExt

(* Channel numbers, frequencies in MHz, kHz and Hz, 2484, 5 GHz, off the    *)
(* raster, far away, and some between the bands whose number fits a channel *)
(* of the other band, or one that is only reached through the byte; and     *)
(* exponents that count nothing down, or wrap around to 0, 10 and 128.      *)
MCFreqRequests ==
    {[m |-> m, e |-> 0] : m \in {0, 14, 257, 1001}}
    \cup {[m |-> m, e |-> 6] :
             m \in {1137, 1307, 2414, 2484, 2587, 3697, 4977, 5010, 5180}}
    \cup {[m |-> 2484000, e |-> 3], [m |-> 241200000, e |-> 1]}
    \cup {[m |-> 2417, e |-> e] : e \in {7, 262, 252, 134, -250, -1}}
    \cup {[m |-> -2417, e |-> 6]}

OneBss(ssid, typed, rates, rsn, wpa) ==
    [ssid |-> ssid, typed |-> typed, rates |-> rates, rsn |-> rsn, wpa |-> wpa]

MCBss == {OneBss(0, FALSE, 1, NoIe, NoIe), OneBss(4, TRUE, 3, NoIe, 22), OneBss(4, TRUE, 2, 20, 22),
          OneBss(4, TRUE, 0, NoIe, NoIe), OneBss(4, TRUE, 1, 157, NoIe)}

MCScanLists == {<<>>} \cup {<<b>> : b \in MCBss}
               \cup {<<OneBss(0, FALSE, 1, NoIe, NoIe), b>> : b \in MCBss}

MCThresholds == {-1, 255, 256, 2346, 2347, 2348}
MCBufferLengths == {0, 4000} \cup {8 * n + 3 : n \in 6..40}
=============================================================================
