----------------------------- MODULE WlanDriver -----------------------------
(***************************************************************************)
(* The WLAN driver (driver_src/wlan): probe and disconnect of              *)
(* lwlan_entry.c, the open and close callbacks of tdsp_bus.c, and the net  *)
(* device they create and destroy (lwlan_netdev.c), composed with the bus  *)
(* module.  A thread of the bus that calls a callback runs the steps of    *)
(* this module, in drv, and then returns to the bus.                       *)
(*                                                                         *)
(* The driver takes no lock.  It sleeps in Adap_Initialize, Adap_Halt,     *)
(* register_netdev, unregister_netdev and Adap_UnInitialize; what lies     *)
(* between two of them is one step.  Of the adapter, which belongs to the  *)
(* private library, the model keeps what its entry points set.             *)
(***************************************************************************)
EXTENDS TdspBus

CONSTANTS
    HubThread,      \* the thread in which the USB core probes and disconnects
    Netdev,         \* heap blocks for struct net_device (allocation fails beyond them)
    NoNetdev        \* the null pointer

ASSUME HubThreadAssumption == HubThread \notin Caller
ASSUME NoNetdevAssumption  == NoNetdev \notin Netdev

VARIABLES
    adapter,        \* the adapter created with each bus interface
    net,            \* the net devices
    drv,            \* what each thread is doing in the driver
    met,            \* history: two threads have been in the driver at once
    refused         \* history: adapters that register_netdev has failed for

wlanVars == <<adapter, net, drv, met, refused>>

Thread == Caller \cup {HubThread}

NoAdapter  == [live |-> FALSE, started |-> FALSE, netdev |-> NoNetdev, stat |-> FALSE]
NewAdapter == [NoAdapter EXCEPT !.live = TRUE]
NoNet      == [state |-> "free", owner |-> NoIface]
Outside    == [at |-> "out", netdev |-> NoNetdev]

Place == {"out", "initialize", "setup", "register", "ok", "failed",
          "halt", "destroy", "unregister", "uninitialize", "done"}

(* Type correctness; a thread has a net device in hand exactly while it     *)
(* registers or unregisters it.                                             *)
WlanTypeOK ==
    /\ adapter \in [Iface -> [live : BOOLEAN, started : BOOLEAN,
                              netdev : Netdev \cup {NoNetdev}, stat : BOOLEAN]]
    /\ net \in [Netdev -> [state : {"free", "allocated", "registered"},
                           owner : Iface \cup {NoIface}]]
    /\ drv \in [Thread -> [at : Place, netdev : Netdev \cup {NoNetdev}]]
    /\ met \in BOOLEAN /\ refused \subseteq Iface
    /\ \A t \in Thread :
           drv[t].netdev # NoNetdev <=> drv[t].at \in {"register", "unregister"}

WlanInit ==
    /\ Init
    /\ adapter = [i \in Iface |-> NoAdapter]
    /\ net = [n \in Netdev |-> NoNet]
    /\ drv = [t \in Thread |-> Outside]
    /\ met = FALSE
    /\ refused = {}

-----------------------------------------------------------------------------
AdapterOf(t) == IF t = HubThread THEN hub.iface ELSE call[t].iface

At(t, place) == drv[t].at = place
Inside(t) == ~At(t, "out")
Go(t, place) == drv' = [drv EXCEPT ![t].at = place]
Carry(t, place, n) == drv' = [drv EXCEPT ![t] = [at |-> place, netdev |-> n]]
BusStays == UNCHANGED <<registry, block, call, hub, opened, asked, raced>>
HeldElsewhere(t, n) == \E u \in Thread \ {t} : drv[u].netdev = n

-----------------------------------------------------------------------------
(* Bus_Open                                                                *)

(* A failure of Adap_Initialize ends the open.                             *)
AfterInitializeBug(ok) == "setup"
AfterInitialize(ok) == IF ok THEN "setup" ELSE "failed"

Initialize(t, ok) ==
    LET i == AdapterOf(t) IN
    /\ At(t, "initialize")
    /\ adapter' = [adapter EXCEPT ![i].started = @ \/ ok]
    /\ Go(t, AfterInitialize(ok))
    /\ BusStays /\ UNCHANGED <<fault, net, met, refused>>

(* wlan_netdev_setup: refused with EEXIST if the adapter has a net device   *)
(* or with ENOMEM; either leaves the adapter initialised.                   *)
HasNetdevBug(i) == FALSE
HasNetdev(i) == adapter[i].netdev # NoNetdev

SetupFails(t) ==
    /\ At(t, "setup")
    /\ Go(t, "failed")
    /\ BusStays /\ UNCHANGED <<fault, adapter, net, met, refused>>

Setup(t, n) ==
    LET i == AdapterOf(t) IN
    /\ At(t, "setup")
    /\ ~HasNetdev(i)
    /\ net[n].state = "free"
    /\ net' = [net EXCEPT ![n] = [state |-> "allocated", owner |-> i]]
    /\ adapter' = [adapter EXCEPT ![i].stat = TRUE, ![i].netdev = n]
    /\ Carry(t, "register", n)
    /\ BusStays /\ UNCHANGED <<fault, met, refused>>

(* register_netdev; when it fails the net device is freed, and the adapter  *)
(* keeps the pointer.                                                       *)
AfterRegisterBug(ok) == "ok"
AfterRegister(ok) == IF ok THEN "ok" ELSE "failed"

Register(t, ok) ==
    LET n == drv[t].netdev IN
    /\ At(t, "register")
    /\ net' = [net EXCEPT ![n] = IF ok THEN [@ EXCEPT !.state = "registered"] ELSE NoNet]
    /\ refused' = IF ok THEN refused ELSE refused \cup {AdapterOf(t)}
    /\ Carry(t, AfterRegister(ok), NoNetdev)
    /\ Commit("WLAN", IF net[n].state = "free" \/ (~ok /\ HeldElsewhere(t, n))
                      THEN {"freed"} ELSE {})
    /\ BusStays /\ UNCHANGED <<adapter, met>>

-----------------------------------------------------------------------------
(* Bus_Close                                                               *)

Halt(t) ==
    /\ At(t, "halt")
    /\ Go(t, "destroy")
    /\ BusStays /\ UNCHANGED <<fault, adapter, net, met, refused>>

(* wlan_netdev_destroy takes the pointer away from the adapter first.       *)
KeptBug(i) == adapter[i].netdev
Kept(i) == NoNetdev

Taken(i) == adapter[i].netdev

Destroy(t) ==
    LET i == AdapterOf(t) IN
    /\ At(t, "destroy")
    /\ adapter' = [adapter EXCEPT ![i].netdev = Kept(i)]
    /\ IF HasNetdev(i) THEN Carry(t, "unregister", Taken(i))
                       ELSE Go(t, "uninitialize")
    /\ BusStays /\ UNCHANGED <<fault, net, met, refused>>

(* unregister_netdev, free_netdev, and the statistics.                      *)
Unregister(t) ==
    LET i == AdapterOf(t)
        n == drv[t].netdev
    IN
    /\ At(t, "unregister")
    /\ net' = [net EXCEPT ![n] = NoNet]
    /\ adapter' = [adapter EXCEPT ![i].stat = FALSE]
    /\ Carry(t, "uninitialize", NoNetdev)
    /\ Commit("WLAN", IF net[n].state # "registered" \/ HeldElsewhere(t, n)
                      THEN {"freed"} ELSE {})
    /\ BusStays /\ UNCHANGED <<met, refused>>

UnInitialize(t) ==
    /\ At(t, "uninitialize")
    /\ adapter' = [adapter EXCEPT ![AdapterOf(t)].started = FALSE]
    /\ Go(t, "done")
    /\ BusStays /\ UNCHANGED <<fault, net, met, refused>>

-----------------------------------------------------------------------------
(* The ioctl threads.                                                      *)

Meets(t) == met' = (met \/ \E u \in Thread \ {t} : Inside(u))
Called(t, place) == Go(t, place) /\ Meets(t)
Returned(t) == drv' = [drv EXCEPT ![t] = Outside] /\ UNCHANGED met

WlanPlugIn(c) ==
    /\ PlugIn(c, "WLAN") /\ Called(c, "initialize")
    /\ UNCHANGED <<adapter, net, refused>>

WlanPlugInDone(c) ==
    /\ drv[c].at \in {"ok", "failed"}
    /\ PlugInDone(c, At(c, "ok")) /\ Returned(c)
    /\ UNCHANGED <<adapter, net, refused>>

WlanUnPlug(c) ==
    /\ UnPlug(c, "WLAN") /\ Called(c, "halt")
    /\ UNCHANGED <<adapter, net, refused>>

WlanUnPlugDone(c) ==
    /\ At(c, "done")
    /\ UnPlugDone(c) /\ Returned(c)
    /\ UNCHANGED <<adapter, net, refused>>

-----------------------------------------------------------------------------
(* The USB core's thread.  A second card's adapter is refused by the bus    *)
(* and never seen again (lwlan_entry.c:298): no step.                       *)

Probe(i) ==
    /\ Attach("WLAN", i)
    /\ adapter' = [adapter EXCEPT ![i] = NewAdapter]
    /\ refused' = refused \ {i}
    /\ IF Reopens("WLAN") THEN Called(HubThread, "initialize") ELSE UNCHANGED <<drv, met>>
    /\ UNCHANGED net

ProbeDone ==
    /\ drv[HubThread].at \in {"ok", "failed"}
    /\ AttachDone(At(HubThread, "ok")) /\ Returned(HubThread)
    /\ UNCHANGED <<adapter, net, refused>>

(* Bus_closeInterface, and Adap_Destroy once it has returned.               *)
Disconnect ==
    /\ Detach("WLAN")
    /\ IF NeedsClose("WLAN")
       THEN Go(HubThread, "halt") /\ UNCHANGED adapter
       ELSE adapter' = [adapter EXCEPT ![slot["WLAN"]] = NoAdapter] /\ UNCHANGED drv
    /\ Meets(HubThread)
    /\ UNCHANGED <<net, refused>>

DisconnectDone ==
    /\ At(HubThread, "done")
    /\ DetachDone /\ Returned(HubThread)
    /\ adapter' = [adapter EXCEPT ![hub.iface] = NoAdapter]
    /\ UNCHANGED <<net, refused>>

-----------------------------------------------------------------------------
Callback(t) ==
    \/ \E ok \in BOOLEAN : Initialize(t, ok)
    \/ SetupFails(t)
    \/ \E n \in Netdev : Setup(t, n)
    \/ \E ok \in BOOLEAN : Register(t, ok)
    \/ Halt(t)
    \/ Destroy(t)
    \/ Unregister(t)
    \/ UnInitialize(t)

WlanNext ==
    /\ Running
    /\ \/ \E t \in Thread : Callback(t)
       \/ \E c \in Caller : \/ WlanPlugIn(c) \/ WlanPlugInDone(c)
                            \/ WlanUnPlug(c) \/ WlanUnPlugDone(c)
       \/ \E i \in Iface : Probe(i)
       \/ ProbeDone \/ Disconnect \/ DisconnectDone

WlanSpec == WlanInit /\ [][WlanNext]_<<vars, wlanVars>>

-----------------------------------------------------------------------------
(* Properties.                                                             *)

(***************************************************************************)
(* Without overlap, a net device the network stack can use has an          *)
(* initialised adapter that points back to it, and statistics to fill: the *)
(* transmit and statistics calls, which check none of this, are safe       *)
(* (lwlan_netdev.c:80-155; order of tdsp_bus.c:56-67).                     *)
(***************************************************************************)
Usable(i) == adapter[i].live /\ adapter[i].started /\ adapter[i].stat
NetdevUsable ==
    ~met => \A n \in Netdev : net[n].state = "registered" => Usable(net[n].owner)

(***************************************************************************)
(* At rest and without overlap, the bus says Started exactly when the net  *)
(* device exists (tdsp_bus.c:42-67).  Nothing of the kind holds of the     *)
(* adapter: an open that fails after Adap_Initialize does not undo it.     *)
(***************************************************************************)
WlanTracksBus ==
    (~met /\ \A t \in Thread : ~Inside(t)) =>
        \A i \in Iface : block[i].live =>
            (block[i].devstate = "Started"
                <=> \E n \in Netdev : net[n].state = "registered" /\ net[n].owner = i)

(***************************************************************************)
(* Memory is misused only if two threads are in the driver at once or      *)
(* register_netdev has failed (the freed net device is then freed again by *)
(* a close, lwlan_netdev.c:223-232): plugging and pulling in any order is  *)
(* not enough.                                                             *)
(***************************************************************************)
WlanErrorsNeedCause ==
    fault["WLAN"] \cap MemoryError # {} => met \/ refused # {}

(***************************************************************************)
(* Without overlap, an adapter that register_netdev failed for never comes *)
(* up again before the card is pulled: the pointer that stays makes every  *)
(* later open fail with EEXIST (lwlan_netdev.c:188).                       *)
(***************************************************************************)
RefusedStaysOff ==
    [][~met' => \A i \in refused \cap refused' :
           block[i].devstate # "Started" => block'[i].devstate # "Started"]_<<vars, wlanVars>>
=============================================================================
