---------------------------- MODULE MCWlanDriver ----------------------------
(* Two ioctl threads and the USB core's thread over the WLAN driver.        *)
EXTENDS WlanDriver, TLC

MCHotkeyValues == {}
MCAntennaValues == {}

(* Threads, blocks and devices are interchangeable among themselves.        *)
MCSymmetry == Permutations(Caller) \cup Permutations(Iface) \cup Permutations(Netdev)
=============================================================================
