------------------------------- MODULE Frames -------------------------------
(***************************************************************************)
(* Frames on their way from the kernel to the card: hci_usb_send_frame of  *)
(* the Bluetooth driver and _wlan_netdev_xmit of the WLAN driver.  Either  *)
(* makes one test after another and then hands the frame to the private    *)
(* library, with no lock that would keep what was tested true.             *)
(*                                                                         *)
(* Both drivers are sent one frame at a time (the HCI core's work queue    *)
(* has one worker, the net device one queue and its lock), and both kernel *)
(* layers wait for it before they close or unregister the device.  The     *)
(* Bluetooth disconnect calls hci_usb_close itself and waits for nothing,  *)
(* and a suspend waits for nobody.  Neither layer looks at a frame again   *)
(* that was refused: nobody frees it.                                      *)
(***************************************************************************)
EXTENDS Sequences, SequencesExt

VARIABLES
    link,       \* the driver: "bt" or "wlan"
    dev,        \* the device, as the kernel and the driver see it
    remover,    \* the thread that takes the device away
    frame,      \* the frame that is being sent
    overtaken   \* history: the tests whose condition ended while it was sent

frVars == <<link, dev, remover, frame, overtaken>>

Kind(l) == IF l = "bt" THEN {"command", "data", "unknown"} ELSE {"data", "eapol", "long"}

FirstDev == [registered |-> TRUE, up |-> FALSE, running |-> FALSE, open |-> FALSE,
             asleep |-> FALSE, alive |-> TRUE, joined |-> FALSE, wpa |-> FALSE]
NoFrame == [kind |-> "none", tests |-> <<>>, fate |-> "none"]

FrTypeOK ==
    /\ link \in {"bt", "wlan"}
    /\ DOMAIN dev = DOMAIN FirstDev /\ \A f \in DOMAIN dev : dev[f] \in BOOLEAN
    /\ remover \in {"away", "stop", "stopped", "unregister", "destroy", "done"}
    /\ frame.kind \in Kind(link) \cup {"none"}
    /\ frame.fate \in {"none", "flying", "library", "freed", "kept", "lost"}
    /\ overtaken \subseteq {"running", "open", "awake", "available", "filter"}

FrInit ==
    /\ link \in {"bt", "wlan"}
    /\ dev = FirstDev /\ remover = "away"
    /\ frame = NoFrame /\ overtaken = {}

Idle == frame.fate \notin {"flying", "library"}

-----------------------------------------------------------------------------
(* The tests, in the order of the code, and when a frame k passes one.     *)

BtTestsBug == <<"running", "open">>
BtTests == <<"running", "open", "awake">>
WlanTests == <<"available", "filter", "length">>

Holds(test, d, k) ==
    CASE test = "running"   -> d.running
      [] test = "open"      -> d.open
      [] test = "awake"     -> ~d.asleep
      [] test = "available" -> d.joined
      [] test = "filter"    -> d.wpa => k = "eapol"
      [] test = "length"    -> k # "long"

(* The device changes to d: the frame under way may be overtaken by it.    *)
Becomes(d) ==
    /\ dev' = d
    /\ overtaken' = IF Idle THEN overtaken ELSE overtaken \cup
         {t \in ToSet(BtTests \o WlanTests) :
             Holds(t, dev, frame.kind) /\ ~Holds(t, d, frame.kind)}

-----------------------------------------------------------------------------
(* Sending.                                                                *)
Send(k) ==
    /\ Idle /\ dev.registered /\ dev.up
    /\ frame' = [kind |-> k, fate |-> "flying",
                 tests |-> IF link = "bt" THEN BtTests ELSE WlanTests]
    /\ overtaken' = {}
    /\ UNCHANGED <<link, dev, remover>>

(* Before the keys are agreed on, the filter frees what it stops.          *)
Stopped == IF Head(frame.tests) = "filter" THEN "freed" ELSE "lost"

Test ==
    /\ frame.fate = "flying" /\ frame.tests # <<>>
    /\ frame' = IF Holds(Head(frame.tests), dev, frame.kind)
                THEN [frame EXCEPT !.tests = Tail(@)]
                ELSE [frame EXCEPT !.fate = Stopped]
    /\ UNCHANGED <<link, dev, remover, overtaken>>

(* A packet of no known type is freed; the others go to the library.       *)
HandOver ==
    /\ frame.fate = "flying" /\ frame.tests = <<>>
    /\ frame' = [frame EXCEPT !.fate = IF frame.kind = "unknown" THEN "freed" ELSE "library"]
    /\ UNCHANGED <<link, dev, remover, overtaken>>

(* SendCmd keeps its frame, after SendData and Adap_Send it is freed.      *)
Return ==
    /\ frame.fate = "library"
    /\ frame' = [frame EXCEPT !.fate = IF frame.kind = "command" THEN "kept" ELSE "freed"]
    /\ UNCHANGED <<link, dev, remover, overtaken>>

-----------------------------------------------------------------------------
(* Opening and closing by the kernel's layers.                             *)
OpenBt ==
    /\ link = "bt" /\ dev.registered /\ ~dev.up
    /\ Becomes([dev EXCEPT !.running = TRUE, !.open = @ \/ ~dev.running,
                           !.up = dev.running \/ ~dev.open])
    /\ UNCHANGED <<link, remover, frame>>

ClosedBt(d) == [d EXCEPT !.up = FALSE, !.running = d.running /\ ~d.up,
                         !.open = @ /\ ~(d.up /\ d.running)]

CloseBt ==
    /\ link = "bt" /\ dev.up /\ Idle
    /\ Becomes(ClosedBt(dev))
    /\ UNCHANGED <<link, remover, frame>>

UpOrDownWlan ==
    /\ link = "wlan" /\ dev.registered /\ Idle
    /\ Becomes([dev EXCEPT !.up = ~@])
    /\ UNCHANGED <<link, remover, frame>>

(* What the adapter decides: joined, and joined without keys.              *)
Adapter(j, w) ==
    /\ link = "wlan" /\ dev.alive /\ ~dev.asleep
    /\ Becomes([dev EXCEPT !.joined = j, !.wpa = w])
    /\ UNCHANGED <<link, remover, frame>>

-----------------------------------------------------------------------------
(* Sleep: without an HCI device the Bluetooth driver does nothing.         *)
HasDevice == link = "bt" => dev.registered

Sleep ==
    /\ remover = "away" /\ HasDevice /\ ~dev.asleep
    /\ Becomes([dev EXCEPT !.asleep = TRUE])
    /\ UNCHANGED <<link, remover, frame>>

Awaken ==
    /\ remover = "away" /\ HasDevice /\ dev.asleep
    /\ Becomes([dev EXCEPT !.asleep = FALSE])
    /\ UNCHANGED <<link, remover, frame>>

-----------------------------------------------------------------------------
(* The disconnect: hci_usb_close, of Bluetooth only; unregister; destroy.   *)
Disconnect ==
    /\ remover = "away"
    /\ remover' = IF link = "bt" THEN "stop" ELSE "unregister"
    /\ UNCHANGED <<link, dev, frame, overtaken>>

StopBt ==
    /\ remover = "stop"
    /\ Becomes([dev EXCEPT !.running = FALSE])
    /\ remover' = IF dev.running THEN "stopped" ELSE "unregister"
    /\ UNCHANGED <<link, frame>>

ClearOpenBt ==
    /\ remover = "stopped"
    /\ Becomes([dev EXCEPT !.open = FALSE])
    /\ remover' = "unregister"
    /\ UNCHANGED <<link, frame>>

Unregister ==
    /\ remover = "unregister" /\ Idle
    /\ Becomes([ClosedBt(dev) EXCEPT !.registered = FALSE])
    /\ remover' = "destroy"
    /\ UNCHANGED <<link, frame>>

(* Bluetooth_Adap_Destory, Adap_UnInitialize *)
MayDestroyBug == remover \in {"unregister", "destroy"}
MayDestroy == remover = "destroy"

Destroy ==
    /\ MayDestroy
    /\ Becomes([dev EXCEPT !.alive = FALSE, !.joined = FALSE])
    /\ remover' = "done"
    /\ UNCHANGED <<link, frame>>

(* The next card.                                                          *)
Probe ==
    /\ remover = "done"
    /\ dev' = FirstDev /\ remover' = "away"
    /\ frame' = NoFrame /\ overtaken' = {}
    /\ UNCHANGED link

FrNext ==
    \/ \E k \in Kind(link) : Send(k)
    \/ Test \/ HandOver \/ Return
    \/ OpenBt \/ CloseBt \/ UpOrDownWlan
    \/ \E j, w \in BOOLEAN : Adapter(j, w)
    \/ Sleep \/ Awaken
    \/ Disconnect \/ StopBt \/ ClearOpenBt \/ Unregister \/ Destroy \/ Probe

FrSpec == FrInit /\ [][FrNext]_frVars

-----------------------------------------------------------------------------
(* Properties.                                                             *)

(***************************************************************************)
(* The library never has a frame of an adapter that is destroyed.  What    *)
(* was tested for the frame is still true while it has it, except for what *)
(* ended after the frame set out: a Bluetooth adapter that was asleep, or  *)
(* was closed, before, is never sent a frame, nor is a frame other than    *)
(* 802.1x sent before the keys are agreed on.  And a Bluetooth frame is    *)
(* lost, that is neither freed nor kept, only to sleep or to a disconnect: *)
(* while the card is there and awake, every frame the HCI core sends finds *)
(* an owner (lbluetooth_entry.c:335-374, 745, 782; lwlan_netdev.c:113-146).*)
(***************************************************************************)
FramesMeetTheirDevice ==
    /\ frame.fate = "library" =>
           /\ dev.alive
           /\ \A t \in IF link = "bt" THEN {"running", "open", "awake"} ELSE ToSet(WlanTests) :
                  Holds(t, dev, frame.kind) \/ t \in overtaken
    /\ link = "bt" /\ frame.fate = "lost" =>
           Head(frame.tests) = "awake" \/ remover # "away"
=============================================================================
