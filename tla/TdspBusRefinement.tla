-------------------------- MODULE TdspBusRefinement --------------------------
(***************************************************************************)
(* The bus implements, for each function, the lifecycle of module          *)
(* FunctionLifecycle.  The radio is taken from the drivers (opened), not   *)
(* from what the bus believes of them (devstate).                          *)
(***************************************************************************)
EXTENDS TdspBus

OpeningNow(s) ==
    \/ hub.op = "attach" /\ hub.serial = s
    \/ \E c \in Caller : call[c].op = "plug" /\ call[c].serial = s
ClosingNow(s) == \E c \in Caller : call[c].op = "unplug" /\ call[c].serial = s
DetachingNow(s) == hub.op = "detach" /\ hub.serial = s

Radio(s) ==
    CASE s \in raced -> "lost"
      [] s \notin raced /\ OpeningNow(s) -> "opening"
      [] s \notin raced /\ ClosingNow(s) -> "closing"
      [] s \notin raced /\ DetachingNow(s) -> "detaching"
      [] s \notin raced /\ ~Busy(s) ->
            IF Vacant(s) THEN "gone" ELSE IF slot[s] \in opened[s] THEN "on" ELSE "off"

Returns(s) == s \notin raced /\ Reopens(s)

BT   == INSTANCE FunctionLifecycle WITH st <- Radio("BT"), again <- Returns("BT")
WLAN == INSTANCE FunctionLifecycle WITH st <- Radio("WLAN"), again <- Returns("WLAN")

(***************************************************************************)
(* Every function goes through its lifecycle whatever happens to the other *)
(* ones, and whatever calls the threads make: register_tdspbus_usbdev,     *)
(* unregister_tdspbus_usbdev, Bus_PlugInDevice, Bus_UnPlugDevice.          *)
(***************************************************************************)
EachFunctionLives == BT!Spec /\ WLAN!Spec
=============================================================================
