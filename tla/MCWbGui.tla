-------------------------------- MODULE MCWbGui --------------------------------
(* Instances of WbGui for TLC.                                              *)
EXTENDS WbGui

(* Two versions of wbusb.conf, which may be edited between two starts of    *)
(* the program: one single mode, and both functions by default with the     *)
(* other single mode to choose.                                             *)
MCConfigs == {[default |-> "wlan", allowed |-> {"wlan"}],
              [default |-> "coexist", allowed |-> {"bt"}]}
=============================================================================
