------------------------------ MODULE BtDriver ------------------------------
(***************************************************************************)
(* The Bluetooth driver (driver_src/new_bluetooth): probe and disconnect   *)
(* of lbluetooth_entry.c and the open and close callbacks of tdsp_bus.c,   *)
(* which register and unregister the card's HCI device, composed with the  *)
(* bus module.  A thread of the bus (an ioctl, or the USB core's) that     *)
(* calls a callback runs the steps of this module, in drv, and then        *)
(* returns to the bus action that finishes the handler.                    *)
(*                                                                         *)
(* register_HCI_device and unregister_HCI_device work under the semaphore  *)
(* openLock, taken with down_interruptible: a thread that has to wait may  *)
(* be sent away by a signal (the USB core's steps run in the process of    *)
(* insmod or rmmod as well).  The semaphore is modelled with its list of   *)
(* waiting threads, as every probe initialises both again, whoever may be  *)
(* waiting.                                                                *)
(*                                                                         *)
(* The private library is the part of the device extension that is visible *)
(* from outside: whether the device is powered (Open_Dev, Close_Dev) and   *)
(* whether it is open (SetOpen, ClearOpen).  The WLAN function plays no    *)
(* part, and neither does SET_HOTKEY_FLAG: a remembered plug-in makes the  *)
(* next probe open the device as well.                                     *)
(***************************************************************************)
EXTENDS TdspBus

CONSTANTS
    HubThread,      \* the thread in which the USB core probes and disconnects
    Hdev,           \* heap blocks for struct hci_dev (allocation fails beyond them)
    NoHdev,         \* the null pointer
    SecondCard,     \* whether a second card may be plugged in beside the first
    WaitList        \* openLock.wait_list, the head of the list

ASSUME HubThreadAssumption  == HubThread \notin Caller
ASSUME NoHdevAssumption     == NoHdev \notin Hdev
ASSUME SecondCardAssumption == SecondCard \in BOOLEAN
ASSUME WaitListAssumption   == WaitList \notin Caller \cup {HubThread}

VARIABLES
    openLock,       \* openLock.count
    waitNext,       \* the list of waiting threads: next and prev of each list_head;
    waitPrev,       \* a thread that is on no list points to itself
    woken,          \* waiting threads that up() has handed the semaphore to
    ext,            \* the device extension created with each bus interface
    hci,            \* the HCI devices
    drv,            \* what each thread is doing in the driver
    dangling,       \* the second card's interface data points to a destroyed extension
    met,            \* history: two threads have been in the driver at once
    broken          \* history: openLock was released by a thread that did not hold
                    \* it, or initialised while one did

lock   == <<openLock, waitNext, waitPrev, woken>>
btVars == <<lock, ext, hci, drv, dangling, met, broken>>

Thread == Caller \cup {HubThread}
Node   == Thread \cup {WaitList}

NoExt    == [live |-> FALSE, hdev |-> NoHdev, powered |-> FALSE, open |-> FALSE]
NewExt   == [NoExt EXCEPT !.live = TRUE]
NoHci    == [registered |-> FALSE, ext |-> NoIface, running |-> FALSE, up |-> FALSE]
Outside  == [at |-> "out", hdev |-> NoHdev]

Place == {"out", "lock_open", "open_dev", "register", "publish", "ok", "failed",
          "lock_close", "unregister", "close_dev", "forget", "done",
          "lock_gone", "stop", "stopped", "gone"}

BtTypeOK ==
    /\ openLock \in Nat
    /\ waitNext \in [Node -> Node] /\ waitPrev \in [Node -> Node]
    /\ woken \subseteq Thread
    /\ ext \in [Iface -> [live : BOOLEAN, hdev : Hdev \cup {NoHdev},
                          powered : BOOLEAN, open : BOOLEAN]]
    /\ hci \in [Hdev -> [registered : BOOLEAN, ext : Iface \cup {NoIface},
                         running : BOOLEAN, up : BOOLEAN]]
    /\ drv \in [Thread -> [at : Place, hdev : Hdev \cup {NoHdev}]]
    /\ dangling \in BOOLEAN /\ met \in BOOLEAN /\ broken \in BOOLEAN

BtInit ==
    /\ Init
    /\ openLock = 1
    /\ waitNext = [n \in Node |-> n] /\ waitPrev = [n \in Node |-> n]
    /\ woken = {}
    /\ ext = [i \in Iface |-> NoExt]
    /\ hci = [h \in Hdev |-> NoHci]
    /\ drv = [t \in Thread |-> Outside]
    /\ dangling = FALSE /\ met = FALSE /\ broken = FALSE

-----------------------------------------------------------------------------
(* The device extension a thread works on: pIntf->pBtDev, intfdata.        *)
ExtOf(t) == IF t # HubThread THEN call[t].iface
            ELSE IF hub = HubIdle THEN slot["BT"] ELSE hub.iface

At(t, place) == drv[t].at = place
Go(t, place) == drv' = [drv EXCEPT ![t].at = place]
Inside(t) == ~At(t, "out")
Meets(t) == met' = (met \/ \E u \in Thread \ {t} : Inside(u))

(* A driver step by itself: the bus does not move.                         *)
BusStays == UNCHANGED <<registry, block, call, hub, opened, asked, raced>>

(* A pointer to an HCI device other threads hold when it is freed.         *)
HeldElsewhere(t, h) == \E u \in Thread \ {t} : drv[u].hdev = h

-----------------------------------------------------------------------------
(* openLock                                                                *)

Asleep(t) == waitNext[t] # t
First == waitNext[WaitList]

(* list_add_tail and list_del, whatever the list looks like.                *)
ListAdd(t) ==
    LET last == waitPrev[WaitList] IN
    /\ waitNext' = [waitNext EXCEPT ![last] = t, ![t] = WaitList]
    /\ waitPrev' = [waitPrev EXCEPT ![WaitList] = t, ![t] = last]

ListDel(t) ==
    /\ waitNext' = [waitNext EXCEPT ![waitPrev[t]] = waitNext[t], ![t] = t]
    /\ waitPrev' = [waitPrev EXCEPT ![waitNext[t]] = waitPrev[t], ![t] = t]

(* up hands the semaphore to the thread that has waited longest.            *)
UpMissing == UNCHANGED lock
Up ==
    \/ /\ First = WaitList
       /\ openLock' = openLock + 1
       /\ UNCHANGED <<waitNext, waitPrev, woken>>
    \/ /\ First # WaitList
       /\ ListDel(First)
       /\ woken' = woken \cup {First}
       /\ UNCHANGED openLock

(* sema_init: one permit and an empty list, but the threads that were on it *)
(* sleep on, their entries still leading to one another and to the head.    *)
SemaInit ==
    /\ openLock' = 1
    /\ waitNext' = [waitNext EXCEPT ![WaitList] = WaitList]
    /\ waitPrev' = [waitPrev EXCEPT ![WaitList] = WaitList]
    /\ broken' = (broken \/ openLock = 0)
    /\ UNCHANGED woken

(* The places of down_interruptible, and where a thread goes from there.    *)
Waiting == {"lock_open", "lock_close", "lock_gone"}

Critical == [p \in Waiting |-> CASE p = "lock_open"  -> "open_dev"
                                 [] p = "lock_close" -> "unregister"
                                 [] p = "lock_gone"  -> "stop"]

Arriving(t) == drv[t].at \in Waiting /\ ~Asleep(t) /\ t \notin woken

(* down_interruptible, with a permit there ...                             *)
Down(t) ==
    /\ Arriving(t)
    /\ openLock > 0
    /\ openLock' = openLock - 1
    /\ Go(t, Critical[drv[t].at])
    /\ BusStays
    /\ UNCHANGED <<fault, waitNext, waitPrev, woken, ext, hci, dangling, met, broken>>

(* ... and with none: to sleep, ...                                        *)
Sleep(t) ==
    /\ Arriving(t)
    /\ openLock = 0
    /\ ListAdd(t)
    /\ BusStays
    /\ UNCHANGED <<fault, openLock, woken, ext, hci, drv, dangling, met, broken>>

(* ... until up has handed it the semaphore, ...                            *)
Wake(t) ==
    /\ t \in woken
    /\ woken' = woken \ {t}
    /\ Go(t, Critical[drv[t].at])
    /\ BusStays
    /\ UNCHANGED <<fault, openLock, waitNext, waitPrev, ext, hci, dangling, met, broken>>

(***************************************************************************)
(* ... or a signal comes.  The callbacks return; the disconnect goes on as *)
(* if it had the semaphore, and releases it in the end.                    *)
(***************************************************************************)
Interrupted == [p \in Waiting |-> CASE p = "lock_open"  -> "failed"
                                    [] p = "lock_close" -> "done"
                                    [] p = "lock_gone"  -> "stop"]

Signal(t) ==
    /\ Asleep(t)
    /\ ListDel(t)
    /\ Go(t, Interrupted[drv[t].at])
    /\ broken' = (broken \/ At(t, "lock_gone"))
    /\ BusStays /\ UNCHANGED <<fault, openLock, woken, ext, hci, dangling, met>>

-----------------------------------------------------------------------------
(* register_HCI_device                                                     *)

OpenDev(t, ok) ==
    LET i == ExtOf(t) IN
    /\ At(t, "open_dev")
    /\ IF ok THEN /\ ext' = [ext EXCEPT ![i].powered = TRUE]
                  /\ Go(t, "register")
                  /\ UNCHANGED lock
             ELSE Up /\ Go(t, "failed") /\ UNCHANGED ext
    /\ BusStays /\ UNCHANGED <<fault, hci, dangling, met, broken>>

(* hci_alloc_dev and hci_register_dev, either of which may fail.  The       *)
(* device stays powered then.                                              *)
RegisterDev(t, h) ==
    /\ At(t, "register")
    /\ hci[h] = NoHci
    /\ \A u \in Thread : drv[u].hdev # h
    /\ hci' = [hci EXCEPT ![h] = [NoHci EXCEPT !.registered = TRUE, !.ext = ExtOf(t)]]
    /\ drv' = [drv EXCEPT ![t] = [at |-> "publish", hdev |-> h]]
    /\ BusStays /\ UNCHANGED <<fault, lock, ext, dangling, met, broken>>

RegisterFails(t) ==
    /\ At(t, "register")
    /\ Up /\ Go(t, "failed")
    /\ BusStays /\ UNCHANGED <<fault, ext, hci, dangling, met, broken>>

(* Bluetooth_Adap_Set_hdev *)
Publish(t) ==
    /\ At(t, "publish")
    /\ ext' = [ext EXCEPT ![ExtOf(t)].hdev = drv[t].hdev]
    /\ drv' = [drv EXCEPT ![t] = [at |-> "ok", hdev |-> NoHdev]]
    /\ Up
    /\ BusStays /\ UNCHANGED <<fault, hci, dangling, met, broken>>

-----------------------------------------------------------------------------
(* unregister_HCI_device                                                   *)

NothingToUnregister(t) ==
    /\ At(t, "unregister")
    /\ ext[ExtOf(t)].hdev = NoHdev
    /\ Up /\ Go(t, "done")
    /\ BusStays /\ UNCHANGED <<fault, ext, hci, dangling, met, broken>>

(* hci_unregister_dev closes the device first if it is up (hci_usb_close).  *)
StillOpenBug(h, i) == ext[i].open
StillOpen(h, i) == ext[i].open /\ ~(hci[h].up /\ hci[h].running)

UnregisterDev(t) ==
    LET i == ExtOf(t)
        h == ext[i].hdev
    IN
    /\ At(t, "unregister")
    /\ h # NoHdev
    /\ ext' = [ext EXCEPT ![i].open = StillOpen(h, i)]
    /\ hci' = [hci EXCEPT ![h] = [@ EXCEPT !.registered = FALSE, !.up = FALSE,
                                           !.running = @ /\ ~hci[h].up]]
    /\ drv' = [drv EXCEPT ![t] = [at |-> "close_dev", hdev |-> h]]
    /\ Commit("BT", IF hci[h].registered THEN {} ELSE {"freed"})
    /\ BusStays /\ UNCHANGED <<lock, dangling, met, broken>>

CloseDev(t) ==
    /\ At(t, "close_dev")
    /\ ext' = [ext EXCEPT ![ExtOf(t)].powered = FALSE]
    /\ Go(t, "forget")
    /\ BusStays /\ UNCHANGED <<fault, lock, hci, dangling, met, broken>>

(* Bluetooth_Adap_Set_hdev(NULL), hci_free_dev, up.                         *)
PointerBug(i) == ext[i].hdev
Pointer(i) == NoHdev

Forget(t) ==
    LET h == drv[t].hdev IN
    /\ At(t, "forget")
    /\ ext' = [ext EXCEPT ![ExtOf(t)].hdev = Pointer(ExtOf(t))]
    /\ hci' = [hci EXCEPT ![h] = NoHci]
    /\ drv' = [drv EXCEPT ![t] = [at |-> "done", hdev |-> NoHdev]]
    /\ Up
    /\ Commit("BT", IF HeldElsewhere(t, h) THEN {"freed"} ELSE {})
    /\ BusStays /\ UNCHANGED <<dangling, met, broken>>

-----------------------------------------------------------------------------
(* The ioctl threads: PLUGIN and UNPLUG of Bluetooth, and back.            *)

Called(t, place) == drv' = [drv EXCEPT ![t].at = place] /\ Meets(t)
Returned(t) == drv' = [drv EXCEPT ![t] = Outside] /\ UNCHANGED met

BtPlugIn(c) ==
    /\ PlugIn(c, "BT") /\ Called(c, "lock_open")
    /\ UNCHANGED <<lock, ext, hci, dangling, broken>>

(* Bus_Open: non-NULL is success.                                          *)
OpenSucceededBug(t) == TRUE
OpenSucceeded(t) == At(t, "ok")

BtPlugInDone(c) ==
    /\ drv[c].at \in {"ok", "failed"}
    /\ PlugInDone(c, OpenSucceeded(c)) /\ Returned(c)
    /\ UNCHANGED <<lock, ext, hci, dangling, broken>>

BtUnPlug(c) ==
    /\ UnPlug(c, "BT") /\ Called(c, "lock_close")
    /\ UNCHANGED <<lock, ext, hci, dangling, broken>>

(* Bus_Close returns 0 whatever unregister_HCI_device did.                 *)
BtUnPlugDone(c) ==
    /\ At(c, "done")
    /\ UnPlugDone(c) /\ Returned(c)
    /\ UNCHANGED <<lock, ext, hci, dangling, broken>>

-----------------------------------------------------------------------------
(* The USB core's thread.                                                  *)

(* _bluetooth_usb_probe.  Every probe initialises the semaphore.           *)
Probe(i) ==
    /\ At(HubThread, "out")
    /\ Attach("BT", i)
    /\ SemaInit
    /\ ext' = [ext EXCEPT ![i] = NewExt]
    /\ IF Reopens("BT") THEN Called(HubThread, "lock_open") ELSE UNCHANGED <<drv, met>>
    /\ UNCHANGED <<hci, dangling>>

ProbeDone ==
    /\ drv[HubThread].at \in {"ok", "failed"}
    /\ AttachDone(OpenSucceeded(HubThread)) /\ Returned(HubThread)
    /\ UNCHANGED <<lock, ext, hci, dangling, broken>>

(* Any interface of a card may be offered to the driver, when the card is   *)
(* found and whenever a driver is loaded or bound.  Of those that are not   *)
(* Bluetooth's the probe wants none, but has initialised the semaphore.     *)
ProbeOther ==
    /\ hub = HubIdle /\ At(HubThread, "out")
    /\ SemaInit
    /\ Meets(HubThread)
    /\ BusStays /\ UNCHANGED <<fault, ext, hci, drv, dangling>>

(* The bus refuses a second card: its extension is destroyed, its           *)
(* interface data keeps the pointer, and the probe reports success.         *)
ProbeRefused ==
    /\ SecondCard
    /\ hub = HubIdle /\ At(HubThread, "out") /\ ~dangling
    /\ ~Vacant("BT")
    /\ SemaInit
    /\ dangling' = TRUE
    /\ Meets(HubThread)
    /\ BusStays /\ UNCHANGED <<fault, ext, hci, drv>>

DisconnectRefused ==
    /\ dangling
    /\ hub = HubIdle /\ At(HubThread, "out")
    /\ Commit("BT", {"freed"})
    /\ BusStays /\ UNCHANGED btVars

(* _bluetooth_usb_disconnect reads hdev before it asks for openLock.        *)
Disconnect ==
    LET h == ext[slot["BT"]].hdev IN
    /\ hub = HubIdle /\ At(HubThread, "out")
    /\ ~Vacant("BT")
    /\ drv' = [drv EXCEPT ![HubThread] =
                  [at |-> IF h = NoHdev THEN "gone" ELSE "lock_gone", hdev |-> h]]
    /\ Meets(HubThread)
    /\ BusStays /\ UNCHANGED <<fault, lock, ext, hci, dangling, broken>>

(* hci_usb_close, without the HCI core's lock: HCI_RUNNING first, ...       *)
StopHci ==
    LET h == drv[HubThread].hdev IN
    /\ At(HubThread, "stop")
    /\ hci' = [hci EXCEPT ![h].running = FALSE]
    /\ IF hci[h].running THEN Go(HubThread, "stopped") /\ UNCHANGED lock
       ELSE Up /\ drv' = [drv EXCEPT ![HubThread] = [at |-> "gone", hdev |-> NoHdev]]
    /\ BusStays /\ UNCHANGED <<fault, ext, dangling, met, broken>>

(* ... then the open flag of the extension.                                *)
ClearOpen ==
    /\ At(HubThread, "stopped")
    /\ ext' = [ext EXCEPT ![ExtOf(HubThread)].open = FALSE]
    /\ drv' = [drv EXCEPT ![HubThread] = [at |-> "gone", hdev |-> NoHdev]]
    /\ Up
    /\ BusStays /\ UNCHANGED <<fault, hci, dangling, met, broken>>

(* Bus_closeInterface; the extension is destroyed at the end.               *)
Destroy(i) == ext' = [ext EXCEPT ![i] = NoExt]

Leave ==
    /\ At(HubThread, "gone")
    /\ Detach("BT")
    /\ IF NeedsClose("BT") THEN Go(HubThread, "lock_close") /\ UNCHANGED ext
       ELSE drv' = [drv EXCEPT ![HubThread] = Outside] /\ Destroy(slot["BT"])
    /\ UNCHANGED <<lock, hci, dangling, met, broken>>

LeaveDone ==
    /\ At(HubThread, "done")
    /\ DetachDone /\ Returned(HubThread)
    /\ Destroy(hub.iface)
    /\ UNCHANGED <<lock, hci, dangling, broken>>

-----------------------------------------------------------------------------
(* The HCI core: opens and closes a registered device, under its own lock. *)

(* hci_usb_open; a device found open is refused, with HCI_RUNNING left set. *)
HciOpen(h) ==
    LET i == hci[h].ext IN
    /\ hci[h].registered /\ ~hci[h].up
    /\ hci' = [hci EXCEPT ![h] = [@ EXCEPT !.running = TRUE,
                                           !.up = hci[h].running \/ ~ext[i].open]]
    /\ ext' = [ext EXCEPT ![i].open = @ \/ ~hci[h].running]
    /\ Commit("BT", IF ext[i].live THEN {} ELSE {"freed"})
    /\ BusStays /\ UNCHANGED <<lock, drv, dangling, met, broken>>

HciClose(h) ==
    LET i == hci[h].ext IN
    /\ hci[h].registered /\ hci[h].up
    /\ hci' = [hci EXCEPT ![h] = [@ EXCEPT !.running = FALSE, !.up = FALSE]]
    /\ ext' = [ext EXCEPT ![i].open = @ /\ ~hci[h].running]
    /\ Commit("BT", IF ext[i].live THEN {} ELSE {"freed"})
    /\ BusStays /\ UNCHANGED <<lock, drv, dangling, met, broken>>

-----------------------------------------------------------------------------
Proceeds(t) ==
    \/ Down(t) \/ Sleep(t) \/ Wake(t)
    \/ \E ok \in BOOLEAN : OpenDev(t, ok)
    \/ \E h \in Hdev : RegisterDev(t, h)
    \/ RegisterFails(t)
    \/ Publish(t)
    \/ NothingToUnregister(t)
    \/ UnregisterDev(t)
    \/ CloseDev(t)
    \/ Forget(t)

Callback(t) == Proceeds(t) \/ Signal(t)

CallerStep(c) ==
    \/ BtPlugIn(c) \/ BtPlugInDone(c) \/ BtUnPlug(c) \/ BtUnPlugDone(c)

HubThreadStep ==
    \/ \E i \in Iface : Probe(i)
    \/ ProbeDone \/ ProbeOther \/ ProbeRefused \/ DisconnectRefused
    \/ Disconnect \/ StopHci \/ ClearOpen \/ Leave \/ LeaveDone

BtNext ==
    /\ Running
    /\ \/ \E t \in Thread : Callback(t)
       \/ \E c \in Caller : CallerStep(c)
       \/ HubThreadStep
       \/ \E h \in Hdev : HciOpen(h) \/ HciClose(h)

(***************************************************************************)
(* A thread in the driver keeps running, and one that up has woken goes    *)
(* on.  New calls, signals and the card are under no fairness.             *)
(***************************************************************************)
Returning(t) ==
    \/ t \in Caller /\ (BtPlugInDone(t) \/ BtUnPlugDone(t))
    \/ t = HubThread /\ (ProbeDone \/ StopHci \/ ClearOpen \/ Leave \/ LeaveDone)

BtFairness == \A t \in Thread : WF_<<vars, btVars>>(Running /\ (Returning(t) \/ Proceeds(t)))

BtSpec == BtInit /\ [][BtNext]_<<vars, btVars>> /\ BtFairness

-----------------------------------------------------------------------------
(* Properties.                                                             *)

(***************************************************************************)
(* While openLock is free, a device extension points to no HCI device or   *)
(* to a registered one of its own, even if calls overlapped and signals    *)
(* came: what the lock is for (lbluetooth_entry.c:548-583, 592-619).       *)
(***************************************************************************)
PointerGuarded ==
    openLock > 0 /\ ~broken =>
        \A i \in Iface : LET h == ext[i].hdev IN
            h # NoHdev => hci[h].registered /\ hci[h].ext = i

(***************************************************************************)
(* At rest and without overlap, the bus says Started exactly when the      *)
(* card's HCI device is registered: no user of hci0 loses it behind the    *)
(* bus's back, none is left over (tdsp_bus.c:85-98).                       *)
(***************************************************************************)
HciTracksBus ==
    (~met /\ \A t \in Thread : ~Inside(t)) =>
        \A i \in Iface : block[i].live =>
            (block[i].devstate = "Started" <=> ext[i].hdev # NoHdev)

(***************************************************************************)
(* Without overlap, every registered HCI device belongs to an extension    *)
(* that exists and is powered, and nothing is open that is not powered:    *)
(* no HCI user is ever handed a device that was shut down or freed         *)
(* (lbluetooth_entry.c:608-616, 749-763).                                  *)
(***************************************************************************)
HciNeedsPower ==
    ~met =>
        /\ \A h \in Hdev : hci[h].registered =>
               ext[hci[h].ext].live /\ ext[hci[h].ext].powered
        /\ \A i \in Iface : ext[i].open => ext[i].powered

(***************************************************************************)
(* Memory is misused only if two threads are in the driver at once, or a   *)
(* second card was refused: no sequence of calls alone is enough.          *)
(***************************************************************************)
MemoryErrorsNeedOverlap ==
    fault["BT"] \cap MemoryError # {} => met \/ dangling

(***************************************************************************)
(* A thread that enters the driver comes out again, whatever signals and   *)
(* failures it meets, unless memory is corrupted or a probe has torn the   *)
(* wait list apart: every path of lbluetooth_entry.c:543-620 that took     *)
(* openLock releases it, and the list is served in order.  The exception   *)
(* is the defect of line 634: a thread that sleeps while sema_init runs is *)
(* on no list that up looks at, and only a signal helps it (or a chance    *)
(* repair, when another such thread takes itself off).                     *)
(***************************************************************************)
ListIntact ==
    /\ \A n \in Node : waitNext[waitPrev[n]] = n /\ waitPrev[waitNext[n]] = n
    /\ openLock > 0 => First = WaitList

CallsReturn == \A t \in Thread : Inside(t) ~> (~Inside(t) \/ ~ListIntact \/ ~Running)
=============================================================================
