--------------------------------- MODULE WbGui ---------------------------------
(***************************************************************************)
(* uwb (applications/uwb): the tray program over the bus module.  It is one *)
(* thread: GTK's main loop calls the handlers of the menu entries, of the   *)
(* tray icon and of a 2 s timer.  A switch is a handler that runs for       *)
(* seconds, through ioctls with sleeps between them; the card moves in      *)
(* between, while events of the user wait.  At the end of a switch the      *)
(* handler runs the main loop itself (refresh_gui_and_timeout), so other    *)
(* handlers may begin inside it.                                            *)
(*                                                                          *)
(* Whoever sets or clears a check mark emits the "activate" signal of the   *)
(* entry, and so calls its handler, as a click does.  Two flags keep the    *)
(* handlers apart: g_ismenuclicked says that a menu was popped up for the   *)
(* user, and g_isclickinginprogress that a switch is going on.              *)
(*                                                                          *)
(* g_bDirectlyFlag is 0 and never written, so the branches under it are     *)
(* dead.  The tray icon, tooltips and notifications are left out, except    *)
(* that a switch announces its mode.                                        *)
(***************************************************************************)
EXTENDS TdspBus

CONSTANTS
    Gui,             \* the thread, one of Caller
    Configs,         \* what wbusb.conf may say: the default and the allowed modes
    ConfiguredHotkey, ConfiguredAntenna,
    Overlaps,        \* two callbacks of a function may overlap
    Tries            \* rounds of the polls of unplugdevices (600 and 1200 in the code)

Mode == {"unplug", "bt", "wlan", "coexist"}
(* A default out of range ends the reading before the allowed modes.        *)
Config == {c \in [default : Mode, allowed : SUBSET (Mode \ {"unplug"})] :
               c.default = "unplug" => c.allowed = {}}

ASSUME GuiAssumption == Gui \in Caller
ASSUME ConfigAssumption ==
    /\ Configs \subseteq Config
    /\ ConfiguredHotkey \in HotkeyValues /\ ConfiguredAntenna \in AntennaValues
ASSUME PollAssumption == Overlaps \in BOOLEAN /\ Tries \in Nat \ {0}

VARIABLES
    ui,       \* the program's globals and widgets
    switch    \* the handler that runs

guiVars == <<vars, ui, switch>>

Handler == {"start", "unplug", "close1", "btPower", "btOff", "close2", "nonePower",
            "none", "add1", "check1", "wlanUp", "wlanPower", "add2", "check2", "pump"}
Boot == {"read", "hotkey", "antenna", "bootPump", "init", "auto"}

UiState == [at        : {"off", "loop"} \cup Boot \cup {"switch"},
            config    : Configs,
            clicked   : BOOLEAN,               \* g_ismenuclicked
            inprogress: BOOLEAN,               \* g_isclickinginprogress
            popup     : BOOLEAN,               \* the menu is on the screen
            sensitive : BOOLEAN,               \* the entries of the modes can be clicked
            marks     : SUBSET Mode,           \* the entries with a check mark
            default   : Mode,                  \* g_defaultmode, while the program starts
            caller    : {"loop", "bootPump", "auto"}]  \* where the handler returns to

SwitchState == [at    : Handler \cup {"over"},
                goal  : Mode,
                state : SUBSET {"BT", "WLAN"}, \* g_state
                tries : 0..Tries,
                asked : BOOLEAN,   \* history: the user clicked, or the program starts
                moved : BOOLEAN]   \* history: the USB core has acted since

GuiTypeOK == TypeOK /\ ui \in UiState /\ switch \in SwitchState

Over == [at |-> "over", goal |-> "unplug", state |-> {}, tries |-> 0,
         asked |-> TRUE, moved |-> FALSE]

Off(c) == [at |-> "off", config |-> c, clicked |-> FALSE, inprogress |-> FALSE,
           popup |-> FALSE, sensitive |-> TRUE, marks |-> {}, default |-> "unplug",
           caller |-> "loop"]

GuiInit ==
    /\ Init
    /\ ui \in {Off(c) : c \in Configs}
    /\ switch = Over

-----------------------------------------------------------------------------
(* What the ioctls answer.  A refused one reads as "no card", "no power".   *)
Queried == IF Admitted THEN DisplayInUse ELSE NoCard
PowerIsOn == Admitted /\ power = "On"
WlanReported == Admitted /\ QueryDeviceState("WLAN") = 1

(* adjust_func_state, from which g_state comes.                             *)
StateOf(answer) == CASE answer = 1 -> {"BT"}
                     [] answer = 2 -> {"WLAN"}
                     [] answer = 3 -> {"BT", "WLAN"}
                     [] OTHER      -> {}

Wanted(mode) == CASE mode = "bt"      -> {"BT"}
                  [] mode = "wlan"    -> {"WLAN"}
                  [] mode = "coexist" -> {"BT", "WLAN"}
                  [] OTHER            -> {}
ModeOf(state) == CHOOSE mode \in Mode : Wanted(mode) = state

Asleep == call[Gui] = Idle
Stay == UNCHANGED ui
Goto(place) == switch' = [switch EXCEPT !.at = place]
Poll(place) == switch' = [switch EXCEPT !.at = place, !.tries = 0]

-----------------------------------------------------------------------------
(* A handler of a menu entry, called when the program is as in now: the two *)
(* flags, then gray_wb_menu, adjust_menu_item(MODE_NULL), whose signals find*)
(* the second flag set, and adjust_func_state.                              *)
MayBegin(clicked, inprogress) == clicked /\ ~inprogress

TakenBug(clicked) == clicked
Taken(clicked) == FALSE

Begin(now, mode, caller, byUser) ==
    /\ ui' = [now EXCEPT !.at = "switch", !.caller = caller, !.clicked = Taken(@),
                         !.inprogress = TRUE, !.sensitive = FALSE, !.marks = {}]
    /\ switch' = [Over EXCEPT !.at = "start", !.goal = mode, !.asked = byUser]

(* adjust_menu_item: the marks there are are cleared and then one is set.   *)
(* Each emits a signal; if the flags let a handler begin, what follows here *)
(* is not looked at any more.                                               *)
Signals(now, marks) == IF MayBegin(now.clicked, now.inprogress) THEN now.marks \cup marks ELSE {}

Mark(now, marks, next) ==
    \/ Signals(now, marks) = {} /\ next
    \/ \E mode \in Signals(now, marks) : Begin(now, mode, ui.caller, FALSE)

(* The ways out of a handler, without a new mark and with one.  It returns  *)
(* to whoever called it: main, gtk_main or the main loop run by main.       *)
ResetBug == ~ui.sensitive
Reset == FALSE

LeaveAs(last) ==
    /\ ui' = [last EXCEPT !.at = ui.caller, !.caller = "loop", !.inprogress = Reset]
    /\ switch' = Over

Leave(sensitive) == LeaveAs([ui EXCEPT !.sensitive = sensitive])

LeaveMarked(now, mode) ==
    Mark(now, {mode}, LeaveAs([now EXCEPT !.marks = {mode}, !.sensitive = TRUE]))

(* adjust_func_state and the tests after it.  Without a card, Bluetooth     *)
(* leaves the menu gray and only WLAN sets a mark, when it has cleared the  *)
(* flag already.                                                            *)
Start ==
    LET mode  == switch.goal
        state == StateOf(Queried)
        out   == Queried = NoCard /\ mode # "unplug"
    IN
    /\ switch.at = "start"
    /\ \/ out /\ mode = "wlan" /\ LeaveMarked([ui EXCEPT !.inprogress = Reset], "unplug")
       \/ out /\ mode # "wlan" /\ Leave(mode # "bt")
       \/ ~out /\ state = Wanted(mode) /\ LeaveMarked(ui, mode)
       \/ ~out /\ state # Wanted(mode)
          /\ switch' = [switch EXCEPT !.at = IF state = {} THEN "add1" ELSE "unplug",
                                      !.state = state]
          /\ Stay
    /\ UNCHANGED vars

(* unplugdevices, as far as it decides what to do.  With nothing plugged it *)
(* succeeds at once.  The reset flag it polls is always 0, and what         *)
(* wait_device_unplug_stable sees after it is not used.                     *)
AfterUnplug(mode) == IF mode = "unplug" THEN "pump" ELSE "add1"

Unplugged == switch' = [switch EXCEPT !.at = AfterUnplug(switch.goal), !.tries = 0,
                                      !.state = {}]

(* adjust_menu_item and enable_wb_menu at the end of a switch.  Coexist has *)
(* run the main loop once before, with the menu still gray.                 *)
Show(next) ==
    Mark(ui, {switch.goal},
         next /\ ui' = [ui EXCEPT !.marks = {switch.goal}, !.sensitive = TRUE])
ShowIfOver(next) == IF AfterUnplug(switch.goal) = "pump" THEN Show(next) ELSE next /\ Stay

UnplugDevices ==
    /\ switch.at = "unplug"
    /\ \/ Queried = NoCard /\ Leave(TRUE)
       \/ Queried = NoneStarted /\ ShowIfOver(Unplugged)
       \/ Queried \in 1..7 /\ Goto("close1") /\ Stay
    /\ UNCHANGED vars

(* Overlapping callbacks of a function are the subject of TdspBus; here     *)
(* they may be left out.                                                    *)
MayEnter(s) == Overlaps \/ ~Busy(s)

(* tdsp_remove_device of s, and then on to next.                            *)
Closes(s) == Admitted /\ ~Vacant(s) /\ block[slot[s]].devstate # "NotStarted"

Remove(s, next) ==
    \/ Asleep /\ ~Closes(s) /\ Poll(next) /\ UNCHANGED vars
    \/ MayEnter(s) /\ UnPlug(Gui, s) /\ UNCHANGED switch
    \/ UnPlugDone(Gui) /\ Poll(next)

RemoveFirst ==
    /\ switch.at = "close1"
    /\ IF "BT" \in switch.state
       THEN Remove("BT", IF "WLAN" \in switch.state THEN "btPower" ELSE "nonePower")
       ELSE Remove("WLAN", "nonePower")
    /\ Stay

RemoveSecond == switch.at = "close2" /\ Remove("WLAN", "nonePower") /\ Stay

(* The polls: for Bluetooth to go, for both to go, for WLAN to come.        *)
PollPower ==
    /\ \/ switch.at = "btPower"   /\ PowerIsOn /\ Goto("btOff") /\ Stay
       \/ switch.at = "nonePower" /\ PowerIsOn /\ Goto("none") /\ Stay
       \/ switch.at = "wlanPower" /\ PowerIsOn /\ Goto("wlanUp") /\ Stay
       \/ switch.at \in {"btPower", "nonePower", "wlanPower"} /\ ~PowerIsOn
          /\ Leave(TRUE)
    /\ UNCHANGED vars

GiveUp == switch.tries + 1 >= Tries
Again(place) == switch' = [switch EXCEPT !.at = place, !.tries = @ + 1]
BtIsOff(answer) == answer = NoneStarted \/ "BT" \notin StateOf(answer)

WaitBtOff ==
    /\ switch.at = "btOff"
    /\ IF BtIsOff(Queried) \/ GiveUp THEN Poll("close2") ELSE Again("btPower")
    /\ Stay
    /\ UNCHANGED vars

WaitNone ==
    /\ switch.at = "none"
    /\ \/ (Queried = NoneStarted \/ GiveUp) /\ ShowIfOver(Unplugged)
       \/ Queried # NoneStarted /\ ~GiveUp /\ Again("nonePower") /\ Stay
    /\ UNCHANGED vars

(* tdsp_add_device of s, and then on to next.                               *)
Opens(s) == Admitted /\ MayOpen(s)

Add(s, next) ==
    \/ Asleep /\ ~Opens(s) /\ Goto(next) /\ UNCHANGED vars
    \/ MayEnter(s) /\ PlugIn(Gui, s) /\ UNCHANGED switch
    \/ \E ok \in BOOLEAN : PlugInDone(Gui, ok) /\ Goto(next)

FirstAdded == IF "WLAN" \in Wanted(switch.goal) THEN "WLAN" ELSE "BT"

AddFirst  == switch.at = "add1" /\ Add(FirstAdded, "check1") /\ Stay
AddSecond == switch.at = "add2" /\ Add("BT", "check2") /\ Stay

(* tdsp_is_download_dspcode_ok: something, whatever it is, is Started.      *)
DownloadOkBug == Queried # NoCard
DownloadOk == Queried \notin {NoCard, NoneStarted}

CheckFirst ==
    /\ switch.at = "check1"
    /\ \/ DownloadOk /\ switch.goal = "coexist" /\ Goto("wlanUp") /\ Stay
       \/ DownloadOk /\ switch.goal # "coexist" /\ Show(Goto("pump"))
       \/ ~DownloadOk /\ LeaveMarked(ui, "unplug")
    /\ UNCHANGED vars

(* The loop of coexist has no bound of its own.                             *)
WaitWlanUp ==
    /\ switch.at = "wlanUp"
    /\ Goto(IF WlanReported THEN "add2" ELSE "wlanPower")
    /\ Stay
    /\ UNCHANGED vars

CheckSecond ==
    /\ switch.at = "check2"
    /\ IF DownloadOk THEN Show(Goto("pump")) ELSE Leave(TRUE)
    /\ UNCHANGED vars

(* refresh_gui_and_timeout has run out of events: the mode is announced and *)
(* the handler returns.                                                     *)
Announce ==
    /\ switch.at = "pump"
    /\ Leave(ui.sensitive)
    /\ UNCHANGED vars

-----------------------------------------------------------------------------
(* main, after the lock and the configuration.  initial_wb_defaultmode      *)
(* takes the mode the card is in, if it is allowed, and the default only    *)
(* when nothing was decided yet or nothing can be read.                     *)
EnumMode == IF Admitted THEN ReadEnumMode ELSE Undecided

StartMode(c) ==
    IF EnumMode = Undecided THEN c.default
    ELSE LET mode == ModeOf(StateOf(EnumMode))
         IN IF mode \in c.allowed THEN mode ELSE "unplug"

Launch(c) ==
    /\ ui.at = "off"
    /\ ui' = [Off(c) EXCEPT !.at = "read"]
    /\ UNCHANGED <<vars, switch>>

InitialMode ==
    /\ ui.at = "read"
    /\ ui' = [ui EXCEPT !.at = "hotkey", !.default = StartMode(ui.config)]
    /\ UNCHANGED <<vars, switch>>

SetHotkey ==
    /\ ui.at = "hotkey"
    /\ SetHotkeyFlag(Gui, ConfiguredHotkey)
    /\ ui' = [ui EXCEPT !.at = "antenna"]
    /\ UNCHANGED switch

SetTheAntenna ==
    /\ ui.at = "antenna"
    /\ SetAntenna(Gui, ConfiguredAntenna)
    /\ ui' = [ui EXCEPT !.at = "bootPump"]
    /\ UNCHANGED switch

BootPumpEnds ==
    /\ ui.at = "bootPump"
    /\ ui' = [ui EXCEPT !.at = "init"]
    /\ UNCHANGED <<vars, switch>>

(* tdsp_init_menu: with power, the start-up switch; main calls the handler, *)
(* whatever the user has chosen while the main loop ran before.  Without,   *)
(* the mark is that of g_rawenummode, which adjust_menu_item_auto replaces. *)
InitMenu ==
    LET forgot == [ui EXCEPT !.default = "unplug"] IN
    /\ ui.at = "init"
    /\ \/ PowerIsOn /\ MayBegin(TRUE, ui.inprogress)
          /\ Begin([forgot EXCEPT !.clicked = TRUE], ui.default, "auto", TRUE)
       \/ ~PowerIsOn
          /\ \E marks \in {{}} \cup {{mode} : mode \in Mode} :
                 LET gray == [forgot EXCEPT !.clicked = FALSE, !.sensitive = FALSE] IN
                 Mark(gray, marks,
                      ui' = [gray EXCEPT !.at = "auto", !.marks = marks] /\ switch' = Over)
    /\ UNCHANGED vars

(* adjust_menu_item_auto: the mark of the mode the card is in.              *)
AutoMark == ModeOf(StateOf(Queried))

AdjustMenuItemAuto(next, popup, clicked) ==
    LET now == [ui EXCEPT !.clicked = FALSE] IN
    Mark(now, {AutoMark},
         /\ ui' = [now EXCEPT !.at = next, !.marks = {AutoMark}, !.popup = popup,
                               !.clicked = clicked]
         /\ UNCHANGED switch)

AutoMenu ==
    /\ ui.at = "auto"
    /\ AdjustMenuItemAuto("loop", ui.popup, FALSE)
    /\ UNCHANGED vars

-----------------------------------------------------------------------------
(* Events.  The main loop runs in gtk_main, and in refresh_gui_and_timeout. *)
Pumping == ui.at \in {"loop", "bootPump"} \/ switch.at = "pump"

(* popup_callback and activate_callback, on a click on the tray icon.       *)
Popup ==
    /\ Pumping /\ ~ui.popup /\ ~ui.inprogress
    /\ AdjustMenuItemAuto(ui.at, TRUE, TRUE)
    /\ UNCHANGED vars

Dismiss ==
    /\ Pumping /\ ui.popup
    /\ ui' = [ui EXCEPT !.popup = FALSE]
    /\ UNCHANGED <<vars, switch>>

Offered(mode) == mode \in ui.config.allowed \cup {"unplug"}

(* A click on an entry: GTK takes the menu away and turns the entry's mark  *)
(* over, before the handler is called.  The start-up switch takes back the  *)
(* permission of a menu that was popped up before it: that click is lost.   *)
Toggled(mode) == (ui.marks \ {mode}) \cup ({mode} \ ui.marks)

Click(mode) ==
    LET now == [ui EXCEPT !.popup = FALSE, !.marks = Toggled(mode)] IN
    /\ Pumping /\ ui.popup /\ ui.sensitive /\ Offered(mode)
    /\ IF MayBegin(ui.clicked, ui.inprogress)
       THEN Begin(now, mode, ui.at, TRUE)
       ELSE ui' = [now EXCEPT !.clicked = Taken(@)] /\ UNCHANGED switch
    /\ UNCHANGED vars

Exit ==
    /\ ui.at = "loop" /\ ui.popup
    /\ ui' = Off(ui.config)
    /\ UNCHANGED <<vars, switch>>

(* watch_time_out_function, every 2 s: entries can be clicked while the     *)
(* card has power.                                                          *)
WatchBug == ui.sensitive /\ PowerIsOn
Watch == PowerIsOn

WatchTimeOut ==
    /\ ui.at = "loop" /\ ~ui.inprogress
    /\ ui.sensitive # Watch
    /\ ui' = [ui EXCEPT !.sensitive = Watch]
    /\ UNCHANGED <<vars, switch>>

-----------------------------------------------------------------------------
Work ==
    \/ Start \/ UnplugDevices \/ RemoveFirst \/ RemoveSecond
    \/ PollPower \/ WaitBtOff \/ WaitNone
    \/ AddFirst \/ CheckFirst \/ WaitWlanUp \/ AddSecond \/ CheckSecond \/ Announce
    \/ InitialMode \/ SetHotkey \/ SetTheAntenna \/ BootPumpEnds \/ InitMenu \/ AutoMenu

User ==
    \/ \E c \in Configs : Launch(c)
    \/ Popup \/ Dismiss \/ Exit
    \/ \E mode \in Mode : Click(mode)

HubReturns ==
    \/ \E ok \in BOOLEAN : AttachDone(ok)
    \/ DetachDone

HubStep ==
    /\ \/ \E s \in Serial, i \in Iface : MayEnter(s) /\ Attach(s, i)
       \/ \E s \in Serial : MayEnter(s) /\ Detach(s)
       \/ HubReturns
    /\ switch' = [switch EXCEPT !.moved = switch.at # "over"]
    /\ Stay

GuiNext == Running /\ (HubStep \/ Work \/ User \/ WatchTimeOut)

(* Fairness: the program is scheduled and its sleeps end, the timer fires,  *)
(* and open() and close() return.                                           *)
GuiFairness ==
    /\ WF_guiVars(Running /\ Work)
    /\ WF_guiVars(Running /\ WatchTimeOut)
    /\ WF_guiVars(Running /\ HubReturns /\ HubStep)

GuiSpec == GuiInit /\ [][GuiNext]_guiVars /\ GuiFairness

-----------------------------------------------------------------------------
(* Properties.                                                             *)

(***************************************************************************)
(* The program switches only when the user has chosen an entry, or at its  *)
(* start: the signals that its own check marks emit, when a menu pops up   *)
(* and when a switch ends, reach no handler that does anything.  They come *)
(* at every such moment, and after the flag of the switch going on has been*)
(* cleared too (callbacks.c:196-201); what stops them is that a permission *)
(* given by popping up a menu is taken back before the next mark is set,   *)
(* even if the menu was dismissed and nothing was chosen                   *)
(* (callbacks.c:17-29, main.c:961-986, 1074-1099, 1402-1438).              *)
(***************************************************************************)
SwitchesAreAsked == switch.at # "over" => switch.asked

(***************************************************************************)
(* The mode a switch announces is the mode the card is in, although the    *)
(* program only looks whether anything at all is Started, as long as the   *)
(* card has not moved since the switch began.  The exception: a coexist    *)
(* switch whose Bluetooth did not open is announced all the same, since    *)
(* WLAN is Started (callbacks.c:526-542).                                  *)
(***************************************************************************)
StartedFns == {s \in {"BT", "WLAN"} : StartedFn(s)}

AnnouncedIsReal ==
    switch.at = "pump" /\ ~switch.moved =>
        \/ StartedFns = Wanted(switch.goal)
        \/ switch.goal = "coexist" /\ StartedFns = {"WLAN"}

(***************************************************************************)
(* A switch ends and clears g_isclickinginprogress on whatever way it      *)
(* takes; otherwise neither icon nor timer would do anything ever after.   *)
(* The exceptions are those of the bus module and of the loop that waits   *)
(* for WLAN (callbacks.c:501-520).                                         *)
(***************************************************************************)
WaitsForWlan ==
    switch.at \in {"wlanUp", "wlanPower"} /\ Admitted /\ ~StartedFn("WLAN")

SwitchesEnd ==
    \/ []<><<HubStep>>_guiVars
    \/ ui.inprogress ~> (~ui.inprogress \/ ~Running \/ []WaitsForWlan)

(***************************************************************************)
(* A menu that was left gray comes back by itself once the card has power: *)
(* handlers leave it gray when the card is out, and only the timer makes   *)
(* it usable again (callbacks.c:36-43, main.c:1440-1510).                  *)
(***************************************************************************)
MenuComesBack ==
    (ui.at = "loop" /\ PowerIsOn) ~>
        (ui.sensitive \/ ui.at # "loop" \/ ~PowerIsOn \/ ~Running)
=============================================================================
