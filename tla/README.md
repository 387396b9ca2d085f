# A TLA+ model of the 3DSP combo card's Linux software

The repository holds the Linux software of the 3DSP "BlueW" USB card, which
carries a Bluetooth and a WLAN function (and, in other variants, GPS) behind one
USB device: a bus module, two function drivers, two programs that switch the
card between its modes, a WLAN browser, and scripts.  This directory holds TLA+
modules of that software, the configurations that model-check them, and proofs.

Paths below are relative to `src/`.

## 1. The system

### Components

| Component | Source | State | Operations |
|---|---|---|---|
| **Bus module** `3dspusbbus` | `driver_src/bus` | one `FDO_DEVICE_DATA`: three device slots (interface pointer, `state_old_from_wb`, hotkey, antenna), `DevicePnPState`, `BusPowerState`, `EnumMode`; the registered `TDSPBUS_INTERFACE`s with their `devstate` | `register_/unregister_tdspbus_usbdev`, 30 ioctls of `/dev/tdspusbbus` |
| **Bluetooth driver** `3dspusbbt` | `driver_src/new_bluetooth` | per card a device extension (private library), its `hci_dev`, `HCI_RUNNING`, `openLock` | probe, disconnect, suspend, resume; `Bus_Open/Close` (register/unregister the HCI device); HCI open, close, send |
| **WLAN driver** `3dspusbwlan` | `driver_src/wlan` | per card an adapter (private library), its net device, its bus interface; one `suspend_type` for all cards | probe, disconnect, suspend, resume; `Bus_Open/Close` (create/destroy the net device); net device open, stop, transmit |
| **Wireless extensions** | `driver_src/wlan/lwlan_ioctl.c` | none of its own: what the library keeps (channel, mode, keys, scan list) | standard and private calls: channel, mode, keys, thresholds, scan, authentication |
| **OS primitives** | `tdsp_event.c`, `tdsp_tasklet.c`, `tdsp_work.c`, `tdsp_timer.c`, `tdsp_mutex.c`, `tdsp_usb.c` of both drivers | events, work items, timers, URBs | set, wait, schedule, cancel, submit |
| **Private libraries** | `driver_src/private` | firmware, adapter state machines | binary objects; only the entry points are visible |
| **uwbtool** | `applications/uwbtool` | per process: `g_state`, `g_currentserialno`, configuration; a lock on `wbusb.conf` | `-a bt\|wlan\|combo`, `-r`, `-q`, `-v`, EEPROM and registers |
| **uwb** | `applications/uwb` | the same globals, a tray icon, a 2 s timer; the same lock | menu entries, watchdog, start-up switch |
| **wifi-radar** | `applications/3dsp-wifi-radar` | list of access points, one connection | scan, connect, run DHCP client and supplicant |
| **Scripts** | `Install`, `Uninstall`, `driver_src/tdspusbcardinit`, `btusbcfg.sh` | files, loaded modules | install, load, `uwbtool -a combo` at boot |

### How they interact

```
 uwb / uwbtool --ioctl--> bus module <--register/unregister-- Bluetooth driver, WLAN driver
      |   \                   |                                   ^ probe/disconnect
      |    lock wbusb.conf    +--open()/close() callbacks-------->|
      +--system()--> btusbcfg.sh                                 USB core (one thread per hub)
```

The USB core probes and disconnects the two functions of a card one after the
other.  A probe allocates a `TDSPBUS_INTERFACE` and registers it with the bus
module, which puts it into the slot of its serial number and may call `open()` at
once.  A user program asks the bus module to plug or unplug a function, and the
bus module calls `open()` or `close()` in the thread of the ioctl.

### What is hard

* **The bus module has no lock.** The ioctl is an `unlocked_ioctl`, `open()` and
  `close()` sleep for up to seconds (firmware), and the slot is read again after
  they return.  Two ioctls, or an ioctl and a disconnect, can be in callbacks of
  the same function at once.
* **What a probe does depends on history**: `state_old_from_wb` remembers what
  the user decided, across unplugging, failures and re-insertion, and
  `SET_HOTKEY_FLAG` overwrites it.
* **The same state is reported in three encodings** (`DISPLAY_IN_USE_DEVICE`,
  `READ_ENUM_MODE`, `QUERY_DEVICE_STATE`) and the programs combine them.
* **A switch is a dozen ioctls with sleeps between them**, decided on answers
  that may be stale, with polls of which two are bounded and one is not.
* **The lock of the programs is a POSIX lock** on a file they also open and
  close for reading.
* **The tray program is one thread that re-enters itself**: at the end of a switch,
  and while it starts, it runs the GTK main loop, so handlers begin inside
  handlers; two flags keep apart what the user clicked and what the program's own
  check marks emit.
* **The OS primitives are used by binaries**: threads, work items and interrupt
  handlers nobody can read may make any call at any time.
* **Failure**: `open()` may fail at any point; the card may be pulled at any
  point; probe paths undo only part of what they did; waits in the drivers can be
  interrupted by signals.

### What makes each component correct

* Bus module: slots never dangle or leak; `DevicePnPState` follows the registry;
  `devstate` says whether the driver is open; a closed function stays closed until
  somebody decides otherwise; flags and queries agree with what was configured.
* Programs: one switch at a time; a single mode never has both functions up;
  combo has WLAN up before Bluetooth; a switch ends, and succeeds when nothing
  fails.
* Tray program: it switches only when asked, announces only what is real, and its
  menu is usable again after every switch.
* Wireless extensions: what is granted is what was asked for, what is announced is
  what is granted, and a list of networks is complete or refused for a reason.
* Drivers: every failure path undoes what was done; nothing is used after it is
  destroyed; `openLock` makes registering and unregistering the HCI device
  atomic; no wake-up and no work item is lost.

## 2. The modules

| Module | What it is |
|---|---|
| `TdspBus` | the bus module: registry, probe/disconnect, plug, unplug, flags, queries |
| `FunctionLifecycle` | abstract: the life of one function's radio and when it comes back by itself |
| `TdspBusRefinement` | the mapping under which `TdspBus` implements `FunctionLifecycle`, for each function |
| `EnumQuery` | `READ_ENUM_MODE` and `WRITE_ENUM_MODE`, store by store |
| `WbTool` | processes of `uwbtool` over `TdspBus` |
| `WbGui` | the tray program over `TdspBus` |
| `WbLock` | the lock and the process count of `uwb` and `uwbtool` |
| `BtDriver` | the Bluetooth driver's open and close paths, and the HCI core, over `TdspBus` |
| `WlanDriver` | the WLAN driver's open and close paths and its net device, over `TdspBus` |
| `WlanPower` | suspend and resume of several WLAN cards |
| `Frames` | a frame on its way through either driver, against close, disconnect and suspend |
| `WirelessExt`, `ScanStream` | the wireless extensions; the answer to "get scan results" |
| `DeferredCalls` | worklets, work items, delayed work, tasklets, timers and URBs |
| `OsEvent` | events with a time-out |
| `DownoutClock` | the test whether a second has passed |
| `*_proofs` | theorems |
| `MC*` | values of the constants and symmetries for TLC; `MCDriverParts` puts the small parts that share no state side by side |

`TdspBus` is the module the others are composed with: `WbTool`, `WbGui`, `BtDriver`
and `WlanDriver` extend it, conjoin its actions with steps of their own, and share
its variables.

A definition whose name ends in `Bug` (or `Missing`) is a wrong version of the
definition after it, such as a maintainer could write; it is used nowhere in the
specifications.  For every property of a passing run one of them, put in place of
the right one, makes that run fail.

### TdspBus

One `FDO_DEVICE_DATA`.  `slot`, `old`, `hotkey`, `antenna`, `pnp`, `power` are the
fields of the same role; `uHotKeyPressed` and `uAntennaFlag` are kept per slot in
the code and always written in all three, so one variable holds each.  `block` is
the heap: a block that holds a `TDSPBUS_INTERFACE` has `live`, its `SerialNo`,
`devstate` and `ParaFlag`.  `opened` belongs to the function drivers: on which
blocks `open()` has succeeded and `close()` has not returned.

The grain is the sleep.  A handler runs without sleeping except in the driver's
`open()` and `close()`, so each handler is one action up to the callback and one
from its return: `PlugIn`/`PlugInDone`, `UnPlug`/`UnPlugDone`, `Attach`/`AttachDone`
(register), `Detach`/`DetachDone` (unregister and free).  `UnPlugAll` and
`ScanSlot` are the loop over the slots of serial number 0.  Threads of the ioctl
are `Caller`; the USB core is one more thread, `hub`, because probe and
disconnect of the functions of a card run under the device's lock, one at a time.
Two stores of a handler that another CPU could separate within microseconds are
one step here: the races studied are those of the callbacks, which take seconds.
The exception is the query that computes in a shared field (`EnumQuery`).

Three variables are history and no guard reads them except that behaviours end
with a memory error: `asked` (what the user decided last), `raced` (functions on
which two handlers were inside at once), `fault` (the NULL dereferences, uses of
freed blocks and double opens committed).

### EnumQuery

`READ_ENUM_MODE` clears `EnumMode`, adds the bits of one function after the other,
and copies the field to the caller; `WRITE_ENUM_MODE` stores into the same field.
Each load and store is a step of a `Reader` or `Writer`; the registry's other
handlers appear as changes of what the query sees of a function (`view`).  `met`
remembers whether another query or writer was at work beside one.  Of two queries
that overlap, one may copy out a field the other has just cleared or set to all
ones, which `initial_tdsp_wb` of `uwb` then uses as an index.

### WbTool

A process is a thread of `TdspBus`.  `prog[p].at` is the place in
`main`/`on_*_activate`/`unplugdevices`, one place per ioctl; between two ioctls
other processes and the card act.  `state` is `g_state`, `tries` is `iTimes`,
`verdict` the last line the process prints.  The ioctls are the actions of
`TdspBus`: a process that calls one is asleep until `PlugInDone` or `UnPlugDone`.
Queries (`-q`, `-v`) take no lock and set the hotkey flag like every command.

### WbGui

The program is one thread of `TdspBus`.  `ui` holds its globals and widgets: the
two flags `g_ismenuclicked` (`clicked`) and `g_isclickinginprogress` (`inprogress`),
whether the menu is on the screen and can be clicked, its check marks, the mode
to start with (`g_defaultmode`) and whom the running handler returns to (`caller`).
`switch` is the handler that runs, one place per ioctl as in `WbTool`.  `Boot` steps
are `initial_tdsp_wb` with its own main-loop iterations (`bootPump`); `pump` is
`refresh_gui_and_timeout`, in which other handlers may begin.  `WatchTimeOut` is the
2 s timer.  `g_bDirectlyFlag` is never written, so its branches are dead.  The
program may end, be started again and read another configuration each time.

Setting or clearing a check mark makes GTK emit "activate", which calls the handler
of that entry exactly like a click.  `Mark` is this: wherever the program changes
marks, and the two flags would let a handler in at that moment (`Signals`), the
handler of any entry that changes begins instead of what the program meant to do
next.  What keeps this from ever happening is a property (`SwitchesAreAsked`), not a
guard: the flag of the click has to be taken back before each mark, by the four
handlers (`callbacks.c:23`) and in `main.c:1022` and `1077`.  It is needed although a switch has its own flag: a menu may have been
popped up and dismissed before, and the WLAN entry without a card sets its mark
after it has cleared the switch's flag.

Where the code does something a user may not expect, the model follows the code:
the start-up switch takes the configured default without asking whether it is
allowed, and runs also after a switch that the user chose while the program started
(that handler returns into the main loop run by `main`, which then goes on to the
start-up switch); a click that arrives while the program starts may be lost, though
GTK has turned the entry's mark over; after a failed
switch the tooltip still names the mode asked for (not a property; the tooltip is
left out).

### BtDriver

A thread that calls a callback of the bus (`BtPlugIn`, `BtUnPlug`, `Probe`,
`Leave`) runs `Down` … `Publish` (`register_HCI_device`) or `Down` … `Forget`
(`unregister_HCI_device`) and returns to the bus.  `ext` is the visible part of the
device extension, `hci` the HCI devices.

The semaphore is modelled as the kernel implements it: `openLock` is its count
(`up` without `down` and `sema_init` under a holder occur in the code), `waitNext`
and `waitPrev` are the links of the list of waiting threads, and `woken` are those
that `up` has taken off the list and handed the semaphore to.  `Down` finds a permit,
`Sleep` queues the thread, `Wake` returns from the sleep, `Signal` is an interrupted
`down_interruptible`, possible only for a thread that sleeps.  `SemaInit` initialises
the count *and* the head of the list, as every probe does before it looks at
anything (`lbluetooth_entry.c:634`): `Probe`, `ProbeRefused` (the second card), and
`ProbeOther`, the probe of an interface that is not Bluetooth's, such as the card's
own WLAN interface, which is turned away only afterwards (line 644).  A thread that
sleeps at that moment is on a list that nobody finds any more, and no later `up`
wakes it; only a signal does.  Links that are left over may also join old and new
list when a stranded thread is taken off; the model follows the pointers.

### WlanDriver and WlanPower

`WlanDriver` is built like `BtDriver`, but the driver has no lock.  A callback is
split where it sleeps: `Initialize`, `Setup` (allocate, publish the pointer),
`Register`; `Halt`, `Destroy` (take the pointer), `Unregister`, `UnInitialize`.
`adapter` holds what the entry points of the private library set: initialised, net
device, statistics.  `Register` that fails frees the net device and leaves the
pointer, as the code does.  (`tdsp_bus.c` also dereferences the interface before it
tests it for NULL; the pointer is never NULL there.)

`WlanPower` has several cards and system transitions: `suspend_type` is one static
variable, written by every suspend and cleared by the first resume that reads it.
A transition may be given up half way, and a card may be lost in its sleep.

### Frames

`BtTests` and `WlanTests` are the tests of `hci_usb_send_frame` and
`_wlan_netdev_xmit` in the order of the code; a frame passes them one by one while
the device is closed, taken away or put to sleep.  `fate` is where the frame ends:
with the library, freed, kept by the layer above, or `lost`.  Kernel layers of
Linux 3.8 do not look again at a frame that the driver refuses with `-EBUSY`,
`-EIO` (Bluetooth) or `-1` (WLAN), so a refused frame has no owner.

### WirelessExt and ScanStream

One action per handler of `wlan_ioctl_handler` and of the private table, with its
tests, conversions and errors.  `adapter` is what the library keeps as far as a
handler reads it again; `reply` is the call, its error, what it handed to the
library and what it answered.  Channels and frequencies are computed as the code
computes them, including the byte a channel is squeezed into and the `char` in which
`set_freq` counts an exponent down (`Char`, `Divisions`; the modules are built for
i386, where `char` is signed).  `asked` is the frequency the request *means*, by the
definition of `struct iw_freq` and not by the code's scaling.  `ScanStream` is the
packing of the scan answer, event by event with the sizes of
`<linux/wireless.h>`; its loops are recursive functions, which give the stream after
the first `n` events or networks, so that proofs can speak of every `n`.

Followed as they are, not judged by a property: `get_encode_ext` hands on an index
it has not tested and names the one after it; authentication modes whose mask
matches no value count as "none"; private calls answer a *positive* `EOPNOTSUPP`;
the comment above `set_freq` (`lwlan_ioctl.c:179-185`) says that managed mode answers
an error and ad-hoc mode never, and the code does the reverse.

### DeferredCalls, OsEvent, DownoutClock

`DeferredCalls` is one object of any of seven kinds with the calls of the wrappers:
schedule, start, cancel, disable, kill.  Every call is split where the wrapper has
read the handle and not yet used the block behind it (`Begin`/`Queues`,
`BeginOff`/`CallOff`).  The callers are binary libraries, so every order of calls is
possible: `cause` remembers what a caller did that the wrapper does not stand, and
`FaultsExplained` lists, kind by kind, which of these can lead to a use of freed
memory.  `off` counts the disables of a tasklet (which runs at 0) and the rejects of
an URB; an URB under way is held by the controller too, so freeing it then is safe.

The kernel's side is that of Linux 3.8, for which the modules were built, with one
addition.  `tdsp_delaywork_init` (`tdsp_work.c:40-42`) initialises timer and work one by
one and never sets the timer's function, which kernels before 3.7 did when the work
was queued and later ones do only in the macro this code does not use.  So the
delayed work is two kinds: `delayed` (3.7 and later), where a delay other than 0 that
is not cancelled in time ends in a call through a null pointer, with no misuse by
the caller at all (cause `delay`, fault `unset`); and `oldDelayed` (3.6 and before), where
the delay works but `cancel_delayed_work` leaves an item that has been queued
already, so that a kill then frees a queued item (cause `listed`).  On neither is a
delayed work with a delay what its interface promises; `FaultsExplained` says so.

`OsEvent` is the flag and the wait queue of `tdsp_event.c`; test, sleep, wake-up,
time-out and the reset after the wait are steps of their own.
`wait_event_interruptible_timeout` of Linux 3.8 does not test the flag again when
the time is up, so a late answer is left for the next wait or lost.

`DownoutClock` is `time_downout_duration`: a difference of seconds times 1000 plus a
difference of *microseconds*, compared with a thousand.  (`tdsp_usb_ctrl_msg`,
`wlan/tdsp_usb.c:106`, has a comment that speaks of a time-out of 10 s and passes 0,
that is none; a control message is only handed on and not modelled.)

### WbLock

The lock follows the POSIX rules (owned by the process, dropped when the process
closes any descriptor of the file), `Relock` is `uwb`'s second `maincontrol`, whose
result is ignored, and a process may die at any step.

## 3. What is checked

| Run | Question | Result |
|---|---|---|
| `bus` | What survives when handlers of the bus overlap, and do flags, queries and automatic opens follow what was configured and decided? Two ioctl threads and the USB core, both hotkey flags. | `RegistrySound`, `PnpTracksRegistry`, `FaultsNeedOverlap`, `StateTracksRadio`, `ParaTracksConfig`, `QueriesAgree`, `AutoOpenJustified` hold; each function implements its lifecycle (`EachFunctionLives`) |
| `bus_os_once` | Does "start with OS" act only once, as the header says? | `StartWithOSOnlyOnce` is violated (finding) |
| `tool` | Two commands of any kind, drivers that fail, a card that moves between commands | `CommandsNeverOverlap`, `OpensInOrder`, `SwitchSucceeds` hold |
| `tool_hotplug` | One command against a card that comes and goes at any time | `CommandsEnd` holds, with the exceptions it names |
| `gui` | The tray program, started again and again, against a card that comes and goes | `SwitchesAreAsked`, `AnnouncedIsReal`, `SwitchesEnd`, `MenuComesBack` hold |
| `lock` | Does each program exclude itself? | `OneTool`, `OneGui` hold |
| `lock_gui` | Does a running `uwb` keep `uwbtool` out, as the readme says? | `GuiExcludesTool` is violated (finding) |
| `bt_driver` | Two ioctl threads, the USB core, signals, failures, a second card | `PointerGuarded`, `HciTracksBus`, `HciNeedsPower`, `MemoryErrorsNeedOverlap` hold; `CallsReturn` holds unless a probe has reset the wait list under a sleeper |
| `wlan_driver` | Two ioctl threads and the USB core, every step of an open may fail | `NetdevUsable`, `WlanTracksBus`, `WlanErrorsNeedCause`, `RefusedStaysOff` hold |
| `wireless` | Every wireless call over inputs on both sides of each limit | `ChannelMeansFreq`, `RangeIsHonest`, `ScanComplete`, `ScanFailureExplained` hold |
| `wireless_e2big` | Does `E2BIG` mean that the buffer is full? | `E2bigMeansFull` is violated (finding) |
| `driver_parts` | The small shared parts, each in every interleaving of its callers | `FaultsExplained`, `QuietAfterKill`, `ScheduledRuns` (deferred calls), `NoMissedWakeup`, `LostNeedsRace` (events), `DownoutBounds`, `LoneQueryRight`, `SleepTold`, `FramesMeetTheirDevice` hold |

Read together: the bus module is safe exactly as long as two handlers of one
function do not overlap (`bus`); `uwbtool` guarantees that for the commands
among themselves (`tool`, and proved), but not against a card that is pulled, and not
against `uwb` (`lock_gui`).  The semaphore of the Bluetooth driver keeps its pointer
consistent even in overlaps (`PointerGuarded`), unless a second card or an
interrupted disconnect has destroyed the semaphore itself (history `broken`).  Whoever
sleeps on that semaphore while any interface is probed sleeps for ever, unless a
signal comes: that is what `CallsReturn` excepts (`ListIntact`).  The
WLAN driver survives any order of plugging and pulling, but not a failed
`register_netdev`: the card then stays off until it is pulled (`RefusedStaysOff`), or
the freed net device is freed again by an unplug (`WlanErrorsNeedCause`).  An event
or a deferred call is dependable under conditions the libraries have to keep, which
`LostNeedsRace`, `FaultsExplained` and `ScheduledRuns` name.

Where the code promises little, the property says how little: an answer that arrives
late, a second time, or before a reset may be lost (`LostNeedsRace`); a frequency
outside the two bands may be granted with the number of a channel elsewhere
(`ChannelMeansFreq`); a worklet scheduled while its function runs may never run
(`ScheduledRuns`); a delayed work crashes or may be freed while it is queued,
depending on the kernel (`FaultsExplained`); a second may "have passed" after anything between 1 ms and 1001 s
(`DownoutBounds`).

### Findings

* `businit.h:194` says that `StartWithOS` works "only once", after which the state
  "is decided by WB".  `SET_HOTKEY_FLAG` sets it in every slot again, and every
  command of `uwbtool` begins with that ioctl, so a function that was unplugged is
  opened when the card is inserted the next time.
* `uwbtool/readme` says that `uwbtool -a` and `-r` cannot be used while `uwb` runs.
  `uwb` reads its configuration from the file it has locked; closing it drops the
  lock, and the second attempt to lock ignores failure.
* `lwlan_ioctl.c:674` says of the branch that returns `E2BIG` after the rates "We ran
  out of space in the buffer".  The branch is taken when no rate was added, also
  because a network has none different from 0; no longer buffer helps then.

### Bounds, and why they are enough

* **Blocks (`Iface`)**: at most one interface per function is registered and one
  more is being freed; two blocks let a function come back in another block than
  before, or both functions be present.  `bt_driver` has one block: the card's
  second function does not enter the driver, and a freed block is used again.
* **Threads (`Caller`)**: a handler of one function interacts with another handler
  of it or with the USB core; two threads and the core give every pair and the
  triple.  `uwbtool`: two processes give every pair of commands; a third one adds
  nothing to the lock (`lock` has three).  The tray program is one thread, with
  `Overlaps = FALSE`: no callback of a function begins while another one of it is
  under way (what happens then is the question of `bus`).
* **`Tries`**: 600 and 1200 polls in the code, 2 here: a poll may succeed at once,
  succeed after a wait, and give up.
* **Values**: both hotkey values and the antenna value that makes a difference in
  `bus`; elsewhere no property depends on them.  Two configurations of the tray
  program: `wlan` by default and allowed; `coexist` by default and Bluetooth to choose,
  so that the default is one the menu does not offer.
* **`Hdev`, `Netdev`**: a device leaked by an overlap and one in use (two net
  devices; one HCI device is enough, since one is registered at a time under the
  semaphore).  `SecondCard`: the card whose probe is refused.
* **`wireless`**: values on both sides of every limit (thresholds, key indices and
  lengths), frequencies in MHz, kHz and Hz, off the raster, of 5 GHz, and some between
  and beside the bands whose number fits a channel, one of them only after it has
  gone through a byte; exponents that leave the mantissa undivided or wrap around in
  the `char`, and a negative mantissa; channels 2, 14 (the exception of the formula) and 36; lists
  of up to two networks; buffers that end in every event of them.
* **`driver_parts`**: two threads and the object's own function, so that every call
  can meet every other one and the function; `MaxOff` = 2 disables ahead of the
  enables, or the other way round; two waiters and two senders; clock
  readings on both sides of 1 ms, 1 s and 1001 s; two queries, a writer and one
  change of the registry; three cards, so that one may be lost and two resume.
* `Permutations` symmetry is used where only invariants and step properties are
  checked.

The GPS slot exists and is always refused (`TDSP_RF_WLAN_SUPPORT` is the
compiled variant).  Deadlock is not checked where an error ends the behaviour
(`bus`, `bus_os_once`, `tool_hotplug`, `gui`, `bt_driver`, `wlan_driver`) or where a
part comes to rest (`driver_parts`: all cards gone, the object freed); it is
in `tool`, the `lock` runs and the `wireless` runs.

### Fairness and the environment

* A process or thread that is inside a call, and not asleep, is scheduled; its
  `usleep`s end (weak fairness of `Work(p)` in `WbTool`, of `Work` in `WbGui`, of the
  driver steps in `BtDriver`, of calls begun in `DeferredCalls`).
* `open()` and `close()` return: the drivers' waits have timeouts (weak fairness of
  `HubReturns` and of the `Done` steps; in `BtDriver` the steps are explicit).
* GTK's timer of 2 s fires again and again while the main loop is idle (weak
  fairness of `WatchTimeOut`).
* The semaphore needs no fairness of its own: `up` hands it to the thread at the head
  of the list, so a waiter's turn comes by the weak fairness of the others' steps.
  Nothing is assumed of a thread that is on no list, and no signal is promised.
* The kernel works off its lists and timers expire (weak fairness of `Dispatch`,
  `TimerExpires`, `DelayExpires`, which on Linux 3.8 is the crash), and a deferred function returns however often it
  asks for itself before it does (strong fairness of `FuncReturns`).
* Nothing forces users to start commands or click, the card to move, a signal to
  come or an `open()` to succeed.  `HotPlug = FALSE` states that the card moves only
  while no command runs.  `CommandsEnd` and `SwitchesEnd` except behaviours in which
  the card comes and goes for ever, and the one loop of the programs without a
  bound, which waits for WLAN to come up.

## 4. What is proved

For every value of the constants: any number of threads, blocks, processes, waiters,
cards and HCI or net devices, any lists of requests.  The assumptions are those the
modules declare, and no others: `NoIface`, `NoHdev`, `NoNetdev` and `NoProcess` are
not values of what they are missing from; the USB core's thread is not a caller of the
ioctl, and the head of a wait list is no thread; flag values are masked as the ioctls mask them; the two kinds of process in
`WbLock`, and the readers and writers in `EnumQuery`, are distinct; configurations are
those the parsers let through; `Tries` is positive; clock readings are less than
`MaxGap` seconds apart, within which the code's `int` does not overflow; `MaxOff` is
a number; the library accepts channels in `1..255` (it stores them in a byte), and
users pass what the types of `<linux/wireless.h>` can hold: any s32 with any s16 as
mantissa and exponent of a frequency.

### The bus module (`TdspBus_proofs`)

| Theorem | States | Argument |
|---|---|---|
| `RegistryCorrect` | `TypeOK`, `RegistrySound` | `RInv`: the types, what a thread in a callback knows (`CallOK`), and what the USB core's thread knows (`HubOK`: while it opens, its block is in the slot; while it closes, the slot is empty and the block still allocated). That the core is one thread keeps the slot from being refilled in between. |
| `PnpCorrect` | `PnpTracksRegistry` | from `RInv` |
| `NoFaultWithoutOverlap`, `RadioCorrect` | `FaultsNeedOverlap`, `StateTracksRadio` | `IInv` = `RInv` and, for each function not in `raced`, `Quiet(s)`: at most one handler is inside, its block is the one in the slot, it opens only from a state that is not Started, and `opened` is what `devstate` says. Each action keeps `Quiet(s)` or puts `s` into `raced`. |
| `ParaCorrect` | `ParaTracksConfig` | inductive with `RInv` |
| `QueriesCorrect` | `QueriesAgree` | `NoGps` (the third slot is always empty) and `PnpTracksRegistry` |
| `AutoOpenCorrect` | `AutoOpenJustified` | `WInv`: in every slot, what a probe would open by itself was wanted (`OnlyDesired`); an open under way in the core was justified when it began |
| `LifecycleImplemented` | `Spec => EachFunctionLives` | `LifeInv` = `IInv` and `Remembered` (what the core opens in a probe is a function whose remembered state calls for it), and `RadioMatches` (the mapping's radio state as one mode computed from calls, core and block); then each action of the bus is, under the mapping, a step of the lifecycle or a stutter, function by function |

### The programs (`WbLock_proofs`, `WbTool_proofs`, `WbGui_proofs`)

| Theorem | States | Argument |
|---|---|---|
| `ToolsExcluded`, `GuisExcluded` | `OneTool`, `OneGui` | a command at work owns the lock; of tray programs only one can be past the count, since whoever counts later sees the first one alive |
| `ToolTyped`, `LockSuffices` | `ToolTypeOK`, `CommandsNeverOverlap` | `TInv` = `RInv`, types of the programs, "a process between its lock and its exit owns the lock" (`LockHeld`), "whoever is in a callback holds the lock and is at a place that calls" (`CallsLocked`), "without hot-plugging the core is idle while somebody holds it" (`HubAlone`). Then no handler can begin while another is inside, and `raced` stays empty. |
| `ToolUsesBus`, `GuiUsesBus` | `ToolSpec => Spec`, `GuiSpec => Spec` | every step of a program is one step of the bus, or none: so all that is proved of the bus holds for it |
| `OpensAreOrdered` | `OpensInOrder` | `OInv` = `TInv`, `IInv`, and for each process which callback belongs to its place (`CallFits`), which goals lead there (`GoalAt`) and, while the card stays in, which functions are Started there (`OnAt`: after the removal, none; before the second opening, WLAN alone). Only the holder of the lock is at such a place, so no other process changes what it found; `Told` says that the answers it decides on are what the slots say. |
| `CommandsCauseNoFault` | without hot-plugging no function has a fault | `LockSuffices` and `NoFaultWithoutOverlap`, through `ToolUsesBus`: any number of commands of `uwbtool` never make the bus module commit an error while the card stays in |
| `GuiTyped`, `OnlyAskedSwitches`, `AnnouncementsAreReal` | `GuiTypeOK`, `SwitchesAreAsked`, `AnnouncedIsReal` | `SInv`: the permission a switch began with is used up as long as it runs (`SwitchFlags`), so that none of the marks set on its ways out reaches a handler (`Silent`), nor does one set after the permission has been taken back; the switch that runs was asked for, its callback belongs to its place, and, unless the card has moved since it began, the functions Started are those of its place up to `pump`, where the result is announced |

### The drivers (`BtDriver_proofs`, `WlanDriver_proofs`)

Both have one invariant in parts, because what the code keeps depends on what its
callers do.

| Theorem | States | Argument |
|---|---|---|
| `PointerIsGuarded` | `PointerGuarded` | `PInv`: where each thread of the bus can be in the driver, and that extensions live as long as their interfaces. `LInv`: while nobody has broken the semaphore, its count and its holders agree, one thread at most is between `Down` and `Up`, and only that one may see a pointer that does not lead to a registered HCI device of its own extension. The second part needs nothing about overlaps: the semaphore alone does it. Under both, `LockWell`: whatever probes have done to the wait list, links that lead to a thread lead back and only waiting threads are on it, so that `up` hands the semaphore to a waiting thread, which is one holder for another (`AddKeeps`, `DelKeeps`, `UpKeeps`). |
| `HciFollowsBus`, `HciHasPower`, `SequentialCallsAreSafe` | `HciTracksBus`, `HciNeedsPower`, `MemoryErrorsNeedOverlap` | `CInv`: while no two threads have been inside at once, all work on the one card there is (`Alone`, `OneCard`), every registered HCI device is the card's (`HciOK`), and each place knows how far `devstate` and the pointer have come (`PlaceOK`) |
| `NetdevIsUsable`, `NetdevFollowsBus` | `NetdevUsable`, `WlanTracksBus` | `WlanInv` = `PInv` and `CInv`, of the same kind: which net device is up, allocated or in a thread's hand at each place |
| `ErrorsHaveCause`, `RefusedNeverStarts` | `WlanErrorsNeedCause`, `RefusedStaysOff` | in `CInv`: only an adapter that `register_netdev` has failed for points to a freed net device (`StaleOK`), and such an adapter keeps its pointer, so no later open gets past the test for it (`RefusedOK`) |
| `BtDriverLives`, `WlanDriverLives` | `BtSpec => BT!Spec`, `WlanSpec => WLAN!Spec`: the composition of bus and driver implements `FunctionLifecycle` | every step of a driver is a step of the bus or leaves the bus alone but for `fault` (`BtStepKinds`, `WlanStepKinds`); `LivesOn`, proved once for any such driver: `LifeInv` holds as long as nothing has misused memory, after which nothing runs (`LifeWhileRunning`) |

### The wireless extensions (`WirelessExt_proofs`)

| Theorem | States | Argument |
|---|---|---|
| `ChannelsAreMeant` | `ChannelMeansFreq` | `TwoGhzNumbers`, `FiveGhzNumbers`: what the two conversions do to each other, over all numbers, quotients and the byte included; `Scaled`: exponents 0 to 6 are counted down as they should be; `GrantMeansFreq` puts them together for one request, of any exponent |
| `RangeIsKept` | `RangeIsHonest` | every handler leaves an honest reply (`Honest`): of those that take a threshold or a key index, the error is the one the announced range calls for, and the slot handed on is the one named |
| `ScansAreComplete`, `ScanFailuresAreExplained` | `ScanComplete`, `ScanFailureExplained` | for lists and buffers of any length. `Complete` and `Explained` say of a piece of the stream that it is put whole unless `E2BIG` is met, and that `E2BIG` means that it would not have fitted; `Joined` puts pieces together. By induction over the events of a series (`ManyEvents`) and over the networks of the list (`WholeList`). The hard piece is `RatesAndBeacon`: rates are dropped in silence, but the first that is dropped (`RatesFit`, a count of a set of numbers) leaves less room than the beacon event behind them needs. |

### The small parts (`DriverParts_proofs`)

| Theorem | States | Argument |
|---|---|---|
| `ErrorsAreExplained`, `KilledStaysQuiet` | `FaultsExplained`, `QuietAfterKill` | `DcSafe`: as long as the callers have done nothing the wrapper does not stand, one thread kills the object, and frees a block that is there (`OneKill`), and from then on nobody asks for it and the kernel has it on no list (`GoneIsQuiet`); a timer is started by one caller at a time (`OneStart`) |
| `WakeupCorrect` | `NoMissedWakeup`, `EvTypeOK` | the setter stores before it wakes and the waiter queues itself before it tests |
| `AnswersAreSeen` | `LostNeedsRace` | `AnswersCount`: news nobody has seen keep the flag set; whoever has seen the flag, or could, has been answered; so news that go lost behind a waiter who has seen the flag are its second answer |
| `FramesAreSafe` | `FramesMeetTheirDevice` | `DeviceLasts` (the layers above have a frame only while the device is registered, which ends before the adapter does) and `FrameInv` (each test a frame has passed still holds, or the device has been changed behind its back and the history says so) |
| `SleepCorrect` | `SleepTold`, `PwTypeOK` | `SleepKnown`: while a transition lasts, its sleepers know its event, and the static variable holds it until some sleeper has been told |
| `LoneQueryCorrect` | `LoneQueryRight` | per reader and place, what the field holds for a reader that has met nobody, in terms of states seen since it began |
| `DownoutCorrect` | `DownoutBounds` | the answer is the comparison of the two last readings; arithmetic |

Induction is proved here, not taken from the library, whose theorems take a predicate
as a parameter and cannot be used: `Least` (a set of numbers has a least element) comes
from the well-foundedness of `<`, `Induction` and `BoundedInduction` speak of sets of
numbers instead of predicates, and `Recursion` shows that a function given step by step
exists, so that each recursive function of `ScanStream` is what its definition says
(`SumsStep`, `AdditionsStep`, `PassesStep`, `KindsUpToStep`).

Two attempts at a proof changed what is claimed.  `ChannelMeansFreq` used to be stated
for all frequencies but a few; in the proof others turned up that are granted with the
channel of another band (1307 MHz as channel 36, 4977 MHz as channel 2), and it now
says exactly for which frequencies the conversions undo each other.  `LostNeedsRace`
used to excuse an answer that several waiters wait for; the proof never needed the
excuse, and it is gone.

### Only model-checked

Liveness: `SwitchSucceeds`, `CommandsEnd`, `SwitchesEnd`, `MenuComesBack`,
`CallsReturn`, `ScheduledRuns`.  These rest on fairness and on when an action is
enabled, of which the provers know nothing.  Every safety property of a run that
passes is proved.

## 5. What is not modelled

* Reading the configuration file and the arguments; the commands `-w`, `-g` and `-p`
  of `uwbtool`, which `main` switches off.
* The stand-alone mode of the Bluetooth driver (`combodrv=0`, not the default and set
  by none of the scripts), in which it does not
  use the bus module, and its debug ioctls, which are compiled but not installed.
* The private libraries are binary; only their entry points appear, with the
  outcomes their callers distinguish.
* Of the 30 ioctls of the bus module, those that only copy values in and out
  (versions, EEPROM, registers, reset and diagnostic calls) change nothing the
  properties depend on.
* Wrappers of the drivers that only pass on: memory, files, socket buffers, spin
  locks, control messages, statistics.
* Icon, tooltips, notifications and the about box of `uwb`.
* wifi-radar (a fork of a program of its own that does not touch the bus module), the
  installation and boot scripts, the documentation.

## 6. Plan

Done, in this order: `TdspBus` with `FunctionLifecycle`; `WbTool`; `WbLock`; `BtDriver`;
`WlanDriver`; `WbGui`; `WirelessExt`; the OS primitives; `EnumQuery`; `WlanPower` and
`Frames`; the proofs above, which leave no safety property of a run unproved and carry the
lifecycle from the bus to the drivers.  Left, most
important first:

1. The steps of the liveness arguments that are not temporal: that each round of a
   switch makes its place go forward or its count of tries go down.
2. The types of `Frames`, `DeferredCalls` and `WirelessExt` as theorems of their own;
   the invariants above contain what the proofs need of them.
