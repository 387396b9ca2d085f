----------------------------- MODULE MCBtDriver -----------------------------
(* Two ioctl threads and the USB core's thread over the Bluetooth driver;   *)
(* the constants have their values in the cfg.                              *)
EXTENDS BtDriver
=============================================================================
