------------------------------- MODULE TdspBus -------------------------------
(***************************************************************************)
(* The 3dspusbbus module (driver_src/bus): a registry of the functions of  *)
(* one combo card (Bluetooth, WLAN, GPS), and the ioctls that start and    *)
(* stop them.  Function drivers register a TDSPBUS_INTERFACE when their    *)
(* USB interface is probed and unregister it when it is disconnected;      *)
(* user programs plug and unplug functions through the character device.   *)
(*                                                                         *)
(* Nothing in the module takes a lock.  The USB core runs probe and        *)
(* disconnect of the functions of one card one at a time (one "hub"        *)
(* process here); any number of threads may be inside an ioctl.  A handler *)
(* runs in a few microseconds except where it calls the open() or close()  *)
(* callback of the function driver, which sleeps, for seconds when it      *)
(* loads firmware.  Handlers are therefore split at the callbacks: one     *)
(* action up to the call, one from its return.                             *)
(*                                                                         *)
(* A behaviour ends with the first memory error (a NULL dereference, a     *)
(* block freed under a callback that goes on using it): what the kernel    *)
(* does after it is undefined.                                             *)
(***************************************************************************)
EXTENDS Integers, FiniteSets

CONSTANTS
    Caller,         \* threads that may be inside tdspbus_unlocked_ioctl
    Iface,          \* heap blocks a TDSPBUS_INTERFACE may be allocated in
    NoIface,        \* the null pointer
    HotkeyValues,   \* values user space passes to SET_HOTKEY_FLAG, after & 0x1
    AntennaValues   \* values user space passes to SET_ANTENNA, after & 0x3

ASSUME NoIfaceAssumption == NoIface \notin Iface
ASSUME HotkeyAssumption  == HotkeyValues \subseteq 0..1
ASSUME AntennaAssumption == AntennaValues \subseteq 0..3

(***************************************************************************)
(* DeviceData[0..2] in slot order.  RfType is always BUS_RF_TYPE_WLAN      *)
(* (TDSP_RF_WLAN_SUPPORT is defined, TDSP_RF_GPS_SUPPORT is not), so the   *)
(* GPS slot exists and is never filled.                                    *)
(***************************************************************************)
SlotOrder == <<"BT", "WLAN", "GPS">>
Serial    == {"BT", "WLAN", "GPS"}
RfRejects == {"GPS"}
DevState  == {"NotStarted", "Started", "Stopped"}

VARIABLES
    slot,       \* DeviceData[s].pDeviceInterface
    old,        \* DeviceData[s].state_old_from_wb
    hotkey,     \* DeviceData[*].uHotKeyPressed, the same in every slot
    antenna,    \* DeviceData[*].uAntennaFlag, the same in every slot
    pnp,        \* FdoData->DevicePnPState
    power,      \* FdoData->BusPowerState
    block,      \* the TDSPBUS_INTERFACE in each heap block
    call,       \* what each ioctl thread is doing
    hub,        \* what the USB core's thread is doing
    opened,     \* of each function, the blocks whose driver returned 0 from open()
                \* and has not returned from close() since
    asked,      \* history: the last decision of the user, and SET_HOTKEY_FLAG since
    raced,      \* history: functions on which two handlers have overlapped
    fault       \* history: the errors handlers have committed on each function

registry == <<slot, old, hotkey, antenna, pnp, power>>
history  == <<asked, raced, fault>>
vars     == <<registry, block, call, hub, opened, history>>

Idle    == [op |-> "none", serial |-> "GPS", iface |-> NoIface, next |-> 4]
Scanning(n) == [op |-> "scan", serial |-> "GPS", iface |-> NoIface, next |-> n]
HubIdle == [op |-> "none", serial |-> "GPS", iface |-> NoIface]

Free      == [live |-> FALSE, serial |-> "GPS", devstate |-> "NotStarted", para |-> 0]
Block     == [live : BOOLEAN, serial : Serial, devstate : DevState, para : 0..7]

(* The slot whose turn comes next in a scan is kept in next.                *)
CallState == [op     : {"none", "scan", "plug", "unplug"},
              serial : Serial,
              iface  : Iface \cup {NoIface},
              next   : 1..4]
HubState  == [op     : {"none", "attach", "detach"},
              serial : Serial,
              iface  : Iface \cup {NoIface}]

Decision == [wb : {"none", "on", "off"}, os : BOOLEAN]

FaultKind   == {"null", "freed", "reopen"}
MemoryError == {"null", "freed"}

TypeOK ==
    /\ slot \in [Serial -> Iface \cup {NoIface}]
    /\ old \in [Serial -> DevState \cup {"StartWithOS"}]
    /\ hotkey \in 0..1
    /\ antenna \in 0..3
    /\ pnp \in {"NotStarted", "Started"}
    /\ power \in {"Off", "On"}
    /\ block \in [Iface -> Block]
    /\ call \in [Caller -> CallState]
    /\ hub \in HubState
    /\ opened \in [Serial -> SUBSET Iface]
    /\ asked \in [Serial -> Decision]
    /\ raced \subseteq Serial
    /\ fault \in [Serial -> SUBSET FaultKind]

(* tdspbus_init_module: the structure is zeroed, the device is in D0. *)
Init ==
    /\ slot = [s \in Serial |-> NoIface]
    /\ old = [s \in Serial |-> "NotStarted"]
    /\ hotkey = 0
    /\ antenna = 0
    /\ pnp = "NotStarted"
    /\ power = "Off"
    /\ block = [i \in Iface |-> Free]
    /\ call = [c \in Caller |-> Idle]
    /\ hub = HubIdle
    /\ opened = [s \in Serial |-> {}]
    /\ asked = [s \in Serial |-> [wb |-> "none", os |-> FALSE]]
    /\ raced = {}
    /\ fault = [s \in Serial |-> {}]

-----------------------------------------------------------------------------
(* A thread is inside the open() or close() callback of function s.        *)
InCallback(c) == call[c].op \in {"plug", "unplug"}
BusyCaller(c, s) == InCallback(c) /\ call[c].serial = s
BusyHub(s) == hub.op # "none" /\ hub.serial = s
Busy(s) == BusyHub(s) \/ \E c \in Caller : BusyCaller(c, s)

(* History: a handler of s begins.  It races if another one is inside s.   *)
Enter(s) == raced' = IF Busy(s) THEN raced \cup {s} ELSE raced
Commit(s, kinds) == fault' = [fault EXCEPT ![s] = @ \cup kinds]

(* open() is called although the driver is open, or still opening or closing. *)
ReopenFault(s, i) == IF i \in opened[s] \/ Busy(s) THEN {"reopen"} ELSE {}

(* The block is freed although some ioctl thread is in a callback on it.    *)
FreeFault(s, i) ==
    IF \E c \in Caller : BusyCaller(c, s) /\ call[c].iface = i THEN {"freed"} ELSE {}

(* ParaFlag: bit 0 is the hotkey, bits 1 and 2 the antenna.                 *)
ParaFlag(h, a)      == h + 2 * a
WithHotkeyBug(p, h) == IF h = 1 THEN 2 * (p \div 2) + h ELSE p
WithHotkey(p, h)    == 2 * (p \div 2) + h
WithAntenna(p, a)   == 8 * (p \div 8) + 2 * a + (p % 2)
HotkeyFlag(p)       == p % 2
AntennaFlag(p)      == (p \div 2) % 4

(***************************************************************************)
(* Tests of the registry that the handlers share.  An operator whose name  *)
(* ends in Bug is the one after it with a slip a maintainer could make;    *)
(* the runs are required to notice each of them.                           *)
(***************************************************************************)
Vacant(s) == slot[s] = NoIface
StartedFn(s) == ~Vacant(s) /\ block[slot[s]].devstate = "Started"

ReopensBug(s) == old[s] # "NotStarted"
Reopens(s) == old[s] \in {"Started", "StartWithOS"}

OnlyOneBug(s) == TRUE
OnlyOne(s) == \A t \in Serial \ {s} : Vacant(t)

NeedsCloseBug(s) == old[s] = "Started"
NeedsClose(s) == StartedFn(s)

MayOpenBug(s) == ~Vacant(s)
MayOpen(s) == ~Vacant(s) /\ ~StartedFn(s)

RememberBug(s, state) == UNCHANGED old
Remember(s, state) == old' = [old EXCEPT ![s] = state]

-----------------------------------------------------------------------------
(* The USB core: probe and disconnect of the function drivers.             *)

(***************************************************************************)
(* The probe allocates the interface (Bus_new_interface) and registers it. *)
(* When the slot is taken (a second card), both tries of Bus_openInterface *)
(* are refused and the block is freed again: nothing changes, no step.     *)
(* With a remembered "Started" or "StartWithOS" the function is opened at  *)
(* once, inside the probe.                                                 *)
(***************************************************************************)
TakeSlotBug(s) == TRUE
TakeSlot(s) == Vacant(s)

Attach(s, i) ==
    /\ hub = HubIdle
    /\ s \notin RfRejects
    /\ TakeSlot(s)
    /\ block[i] = Free
    /\ block' = [block EXCEPT ![i] =
           [live |-> TRUE, serial |-> s, devstate |-> "NotStarted",
            para |-> ParaFlag(hotkey, antenna)]]
    /\ slot' = [slot EXCEPT ![s] = i]
    /\ pnp' = "Started"
    /\ power' = "On"
    /\ IF Reopens(s)
       THEN /\ hub' = [op |-> "attach", serial |-> s, iface |-> i]
            /\ Enter(s)
            /\ Commit(s, ReopenFault(s, i))
       ELSE UNCHANGED <<hub, raced, fault>>
    /\ UNCHANGED <<old, hotkey, antenna, call, opened, asked>>

(* open() returns inside register_tdspbus_usbdev; a failure is swallowed.   *)
AttachDone(ok) ==
    LET s == hub.serial
        i == hub.iface
    IN
    /\ hub.op = "attach"
    /\ hub' = HubIdle
    /\ IF ok
       THEN /\ opened' = [opened EXCEPT ![s] = @ \cup {i}]
            /\ block' = [block EXCEPT ![i].devstate = "Started"]
       ELSE UNCHANGED <<opened, block>>
    /\ UNCHANGED <<registry, call, history>>

(***************************************************************************)
(* The disconnect (Bus_closeInterface): unregister, then free the block.   *)
(* unregister_tdspbus_usbdev empties the slot first, and calls close()     *)
(* afterwards, only if devstate was Started.                               *)
(***************************************************************************)
Release(s, i) ==
    /\ block' = [block EXCEPT ![i] = Free]
    /\ Commit(s, FreeFault(s, i))

Detach(s) ==
    LET i == slot[s] IN
    /\ hub = HubIdle
    /\ ~Vacant(s)
    /\ slot' = [slot EXCEPT ![s] = NoIface]
    /\ pnp' = IF OnlyOne(s) THEN "NotStarted" ELSE pnp
    /\ power' = IF OnlyOne(s) THEN "Off" ELSE power
    /\ Enter(s)
    /\ IF NeedsClose(s)
       THEN /\ hub' = [op |-> "detach", serial |-> s, iface |-> i]
            /\ UNCHANGED <<block, fault>>
       ELSE /\ Release(s, i)
            /\ UNCHANGED hub
    /\ UNCHANGED <<old, hotkey, antenna, call, opened, asked>>

DetachDone ==
    LET s == hub.serial
        i == hub.iface
    IN
    /\ hub.op = "detach"
    /\ opened' = [opened EXCEPT ![s] = @ \ {i}]
    /\ Release(s, i)
    /\ hub' = HubIdle
    /\ UNCHANGED <<registry, call, asked, raced>>

-----------------------------------------------------------------------------
(* The ioctls.  All but SET_HOTKEY_FLAG and SET_ANTENNA are refused with    *)
(* EFAULT unless DevicePnPState is Started.                                 *)
Admitted == pnp = "Started"

(* IOCTL_BUSENUM_PLUGIN_HARDWARE up to the call of open().                  *)
PlugIn(c, s) ==
    /\ call[c] = Idle
    /\ Admitted
    /\ s \notin RfRejects
    /\ MayOpen(s)
    /\ call' = [call EXCEPT ![c] = [op |-> "plug", serial |-> s,
                                    iface |-> slot[s], next |-> 4]]
    /\ Enter(s)
    /\ Commit(s, ReopenFault(s, slot[s]))
    /\ UNCHANGED <<registry, block, hub, opened, asked>>

(***************************************************************************)
(* open() returns 0: the two assignments that follow read the slot again.  *)
(* If the slot was emptied meanwhile the first one dereferences NULL.      *)
(***************************************************************************)
PlugInDone(c, ok) ==
    LET s == call[c].serial
        i == call[c].iface
    IN
    /\ call[c].op = "plug"
    /\ call' = [call EXCEPT ![c] = Idle]
    /\ opened' = IF ok THEN [opened EXCEPT ![s] = @ \cup {i}] ELSE opened
    /\ IF ok /\ ~Vacant(s)
       THEN /\ block' = [block EXCEPT ![slot[s]].devstate = "Started"]
            /\ Remember(s, "Started")
            /\ asked' = [asked EXCEPT ![s] = [wb |-> "on", os |-> FALSE]]
       ELSE UNCHANGED <<block, old, asked>>
    /\ Commit(s, IF ok /\ Vacant(s) THEN {"null"} ELSE {})
    /\ UNCHANGED <<slot, hotkey, antenna, pnp, power, hub, raced>>

(* Bus_UnPlugDevice of one function, up to the call of close().             *)
BeginClose(c, s, next) ==
    /\ ~Vacant(s)
    /\ block[slot[s]].devstate # "NotStarted"
    /\ Remember(s, block[slot[s]].devstate)
    /\ call' = [call EXCEPT ![c] = [op |-> "unplug", serial |-> s,
                                    iface |-> slot[s], next |-> next]]
    /\ Enter(s)
    /\ UNCHANGED <<slot, hotkey, antenna, pnp, power, block, hub, opened, asked, fault>>

(* IOCTL_BUSENUM_UNPLUG_HARDWARE of one serial number.                      *)
UnPlug(c, s) ==
    /\ call[c] = Idle
    /\ Admitted
    /\ BeginClose(c, s, 4)

(* IOCTL_BUSENUM_UNPLUG_HARDWARE of serial 0: all slots, in order.          *)
UnPlugAll(c) ==
    /\ call[c] = Idle
    /\ Admitted
    /\ call' = [call EXCEPT ![c] = Scanning(1)]
    /\ UNCHANGED <<registry, block, hub, opened, history>>

(* What the thread does when it leaves slot next - 1 of the scan.           *)
AfterSlot(next) ==
    IF next = 4 THEN Idle ELSE Scanning(next)

(* One turn of the scan: an empty slot and one that was never started are   *)
(* passed over, any other is closed.                                        *)
ScanSlot(c) ==
    LET s == SlotOrder[call[c].next] IN
    /\ call[c].op = "scan"
    /\ \/ BeginClose(c, s, call[c].next + 1)
       \/ /\ ~Vacant(s) => block[slot[s]].devstate = "NotStarted"
          /\ call' = [call EXCEPT ![c] = AfterSlot(call[c].next + 1)]
          /\ UNCHANGED <<registry, block, hub, opened, history>>

(* close() returns 0, as it always does; the slot is read again.            *)
UnPlugDone(c) ==
    LET s == call[c].serial
        i == call[c].iface
    IN
    /\ call[c].op = "unplug"
    /\ opened' = [opened EXCEPT ![s] = @ \ {i}]
    /\ IF ~Vacant(s)
       THEN /\ block' = [block EXCEPT ![slot[s]].devstate = "Stopped"]
            /\ Remember(s, "Stopped")
            /\ asked' = [asked EXCEPT ![s] = [wb |-> "off", os |-> FALSE]]
            /\ call' = [call EXCEPT ![c] = AfterSlot(call[c].next)]
            /\ UNCHANGED fault
       ELSE /\ Commit(s, {"null"})
            /\ call' = [call EXCEPT ![c] = Idle]
            /\ UNCHANGED <<block, old, asked>>
    /\ UNCHANGED <<slot, hotkey, antenna, pnp, power, hub, raced>>

(* IOCTL_BUSENUM_SET_HOTKEY_FLAG: every slot, present or not.               *)
SetHotkeyFlag(c, h) ==
    /\ call[c] = Idle
    /\ hotkey' = h
    /\ old' = [s \in Serial |-> "StartWithOS"]
    /\ block' = [i \in Iface |-> IF \E s \in Serial : slot[s] = i
                                 THEN [block[i] EXCEPT !.para = WithHotkey(@, h)]
                                 ELSE block[i]]
    /\ asked' = [s \in Serial |-> [wb |-> asked[s].wb, os |-> TRUE]]
    /\ UNCHANGED <<slot, antenna, pnp, power, call, hub, opened, raced, fault>>

(* IOCTL_BUSENUM_SET_ANTENNA: only the WLAN interface is told.              *)
SetAntenna(c, a) ==
    /\ call[c] = Idle
    /\ antenna' = a
    /\ block' = [i \in Iface |-> IF slot["WLAN"] = i
                                 THEN [block[i] EXCEPT !.para = WithAntenna(@, a)]
                                 ELSE block[i]]
    /\ UNCHANGED <<slot, old, hotkey, pnp, power, call, hub, opened, history>>

-----------------------------------------------------------------------------
(* The queries change nothing; they are operators on the state.            *)

SumBits(S) == (IF "BT" \in S THEN 1 ELSE 0)
            + (IF "WLAN" \in S THEN 2 ELSE 0)
            + (IF "GPS" \in S THEN 4 ELSE 0)

NoneStarted == 65535   \* 0xffff, TDSP_SERIAL_NO_NONE
NoCard      == 65536   \* 0x10000, TDSP_SERIAL_NO_NOCARD

(* IOCTL_BUSENUM_DISPLAY_IN_USE_DEVICE                                      *)
DisplayInUse ==
    LET started == {s \in Serial : StartedFn(s)} IN
    IF started # {} THEN SumBits(started)
    ELSE IF \E s \in Serial : ~Vacant(s) THEN NoneStarted ELSE NoCard

(* IOCTL_BUSENUM_READ_ENUM_MODE: (ULONG)-1 stands for "nothing decided".    *)
Undecided == -1
ReportedOnBug(s) == ~Vacant(s) /\ old[s] = "Started"
ReportedOn(s) == StartedFn(s)
ReadEnumMode ==
    LET on    == {s \in {"BT", "WLAN"} : ReportedOn(s)}
        fresh == {s \in {"BT", "WLAN"} \ on : ~Vacant(s) /\ old[s] = "NotStarted"}
    IN IF on # {} THEN SumBits(on)
       ELSE IF fresh # {} THEN Undecided ELSE 0

(* IOCTL_BUSENUM_QUERY_DEVICE_STATE: 1 (Started) or 0xff.                   *)
QueryDeviceState(s) == IF StartedFn(s) THEN 1 ELSE 255

-----------------------------------------------------------------------------
HubNext ==
    \/ \E s \in Serial, i \in Iface : Attach(s, i)
    \/ \E ok \in BOOLEAN : AttachDone(ok)
    \/ \E s \in Serial : Detach(s)
    \/ DetachDone

CallerNext(c) ==
    \/ \E s \in Serial : PlugIn(c, s)
    \/ \E ok \in BOOLEAN : PlugInDone(c, ok)
    \/ \E s \in Serial : UnPlug(c, s)
    \/ UnPlugAll(c)
    \/ ScanSlot(c)
    \/ UnPlugDone(c)
    \/ \E h \in HotkeyValues : SetHotkeyFlag(c, h)
    \/ \E a \in AntennaValues : SetAntenna(c, a)

Running == \A s \in Serial : fault[s] \cap MemoryError = {}

Next == Running /\ (HubNext \/ \E c \in Caller : CallerNext(c))

Spec == Init /\ [][Next]_vars

-----------------------------------------------------------------------------
(* Properties.                                                             *)

(***************************************************************************)
(* A slot never points to a freed block or to the interface of another     *)
(* function, and every allocated block is either registered or being       *)
(* disconnected: the registry neither dangles nor leaks, whatever the      *)
(* ioctl threads do (businit.c:372 and businit.c:436).                     *)
(***************************************************************************)
RegistrySound ==
    /\ \A s \in Serial : ~Vacant(s) =>
           block[slot[s]].live /\ block[slot[s]].serial = s
    /\ \A i \in Iface : block[i].live =>
           slot[block[i].serial] = i \/ (hub.op = "detach" /\ hub.iface = i)

(***************************************************************************)
(* The ioctls are admitted, and the power reported on, exactly while some  *)
(* function is registered: removing one function does not lock the user    *)
(* out of the other (businit.c:440-451).                                   *)
(***************************************************************************)
PnpTracksRegistry ==
    LET present == \E s \in Serial : ~Vacant(s)
    IN /\ pnp = "Started" <=> present
       /\ power = "On" <=> present

(***************************************************************************)
(* A handler commits an error (a NULL dereference, a block freed under a   *)
(* callback, open() on an open device) only on a function where two        *)
(* handlers have overlapped: overlapping calls on different functions are  *)
(* harmless, and so are all calls that do not overlap.                     *)
(***************************************************************************)
FaultsNeedOverlap == \A s \in Serial : fault[s] # {} => s \in raced

(***************************************************************************)
(* On a function without overlap, devstate is Started exactly when its     *)
(* driver is open, and a driver whose block has been freed is closed:      *)
(* nothing stays powered after a disconnect (businit.c:432-454).           *)
(***************************************************************************)
StateTracksRadio ==
    \A s \in Serial \ raced :
        ~Busy(s) => opened[s] = IF StartedFn(s) THEN {slot[s]} ELSE {}

(***************************************************************************)
(* A function is opened during the probe only if the user's last decision  *)
(* was to plug it in, or SET_HOTKEY_FLAG came after that decision          *)
(* (businit.c:380): an unplugged function stays off when the card comes    *)
(* back.                                                                   *)
(***************************************************************************)
AutoOpenJustified ==
    \A s \in Serial :
        hub.op = "attach" /\ hub.serial = s /\ s \notin raced =>
            asked[s].os \/ asked[s].wb = "on"

(***************************************************************************)
(* The flags a registered interface hands to its driver are the configured *)
(* ones, in whatever order configuration and registration came; the        *)
(* antenna is guaranteed to WLAN only (busioctl.c:535-579).                *)
(***************************************************************************)
ParaTracksConfig ==
    \A s \in Serial : ~Vacant(s) =>
        /\ HotkeyFlag(block[slot[s]].para) = hotkey
        /\ s = "WLAN" => AntennaFlag(block[slot[s]].para) = antenna

(***************************************************************************)
(* The three queries the tools combine agree with each other whenever they *)
(* are admitted: DISPLAY_IN_USE never says "no card", it names the mode    *)
(* READ_ENUM_MODE names, and "none" exactly when neither function is       *)
(* reported Started (busioctl.c:206-250, 429-452, 670-711).                *)
(***************************************************************************)
QueriesAgree ==
    Admitted =>
        /\ DisplayInUse # NoCard
        /\ DisplayInUse \in 1..3 => ReadEnumMode = DisplayInUse
        /\ DisplayInUse = NoneStarted <=> ReadEnumMode \in {0, Undecided}
        /\ DisplayInUse = NoneStarted <=> \A s \in Serial : QueryDeviceState(s) = 255

(***************************************************************************)
(* businit.h:194 says of StartWithOS "make driver can work with system,    *)
(* only once. after OS startup, state is decided by WB": a function the    *)
(* user has unplugged is not opened by a later probe.                      *)
(***************************************************************************)
StartWithOSOnlyOnce ==
    \A s \in Serial :
        hub.op = "attach" /\ hub.serial = s /\ s \notin raced => asked[s].wb # "off"
=============================================================================
