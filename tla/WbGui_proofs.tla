----------------------------- MODULE WbGui_proofs -----------------------------
(***************************************************************************)
(* Proofs about the tray program: it switches only when asked, and what it *)
(* announces at the end of a switch is what the card does, although on the *)
(* way it asks only whether anything at all is Started.                    *)
(***************************************************************************)
EXTENDS WbGui, TdspBus_proofs

(* The program is a user of the bus like any other.                         *)
LEMMA GuiStepsAreBusSteps == [GuiNext]_guiVars => [Next]_vars
<1> SUFFICES ASSUME GuiNext
             PROVE  [Next]_vars
  BY DEF guiVars
<1>1. CASE HubStep
  BY <1>1 DEF HubStep, HubReturns, HubNext, Next, GuiNext
<1>2. CASE Work
  <2>1. ASSUME NEW s \in Serial, NEW next, Remove(s, next)
        PROVE  CallerNext(Gui) \/ UNCHANGED vars
    BY <2>1 DEF Remove, CallerNext
  <2>2. ASSUME NEW s \in Serial, NEW next, Add(s, next)
        PROVE  CallerNext(Gui) \/ UNCHANGED vars
    BY <2>2 DEF Add, CallerNext
  <2>3. ASSUME RemoveFirst \/ RemoveSecond \/ AddFirst \/ AddSecond
        PROVE  CallerNext(Gui) \/ UNCHANGED vars
    BY <2>1, <2>2, <2>3 DEF RemoveFirst, RemoveSecond, AddFirst, AddSecond, FirstAdded, Serial
  <2>4. ASSUME SetHotkey \/ SetTheAntenna
        PROVE  CallerNext(Gui)
    BY <2>4, ConfigAssumption DEF SetHotkey, SetTheAntenna, CallerNext
  <2>5. CallerNext(Gui) \/ UNCHANGED vars
    BY <1>2, <2>3, <2>4, Zenon
       DEF Work, Start, UnplugDevices, PollPower, WaitBtOff, WaitNone, CheckFirst, WaitWlanUp,
           CheckSecond, Announce, InitialMode, BootPumpEnds, InitMenu, AutoMenu
  <2> QED
    BY <2>5, GuiAssumption DEF Next, GuiNext
<1>3. CASE User \/ WatchTimeOut
  BY <1>3 DEF User, Launch, Popup, Dismiss, Exit, Click, WatchTimeOut
<1> QED
  BY <1>1, <1>2, <1>3 DEF GuiNext

(***************************************************************************)
(* Whatever the user and the timer do, the bus sees only steps of its own  *)
(* specification, so that every theorem of the bus holds under the program.*)
(***************************************************************************)
THEOREM GuiUsesBus == GuiSpec => Spec
<1>1. GuiInit => Init
  BY DEF GuiInit
<1> QED
  BY <1>1, GuiStepsAreBusSteps, PTL DEF GuiSpec, Spec

-----------------------------------------------------------------------------
(* The inductive invariant.                                                *)

CallPlace == {"close1", "close2", "add1", "add2"}

FirstRemoved(state) == IF "BT" \in state THEN "BT" ELSE "WLAN"
FirstOf(mode) == IF "WLAN" \in Wanted(mode) THEN "WLAN" ELSE "BT"

(* Which functions are Started at each place of a switch, if the card has   *)
(* not moved since it began.                                                *)
OnAt(a, goal, state, on) ==
    /\ a \in {"unplug", "close1"} => state = on /\ on # {}
    /\ a \in {"btPower", "btOff", "close2"} => on = {"WLAN"}
    /\ a \in {"nonePower", "none", "add1"} => on = {}
    /\ a = "check1" => on \subseteq {FirstOf(goal)}
    /\ a \in {"wlanUp", "wlanPower"} => on \subseteq {"WLAN"}
    /\ a = "add2" => on = {"WLAN"}
    /\ a = "check2" => "WLAN" \in on
    /\ a = "pump" => on = Wanted(goal) \/ (goal = "coexist" /\ on = {"WLAN"})

GoalAt(a, goal) ==
    /\ a \in {"add1", "check1"} => Wanted(goal) # {}
    /\ a \in {"wlanUp", "wlanPower", "add2", "check2"} => goal = "coexist"

(* A callback belongs to the place of the switch, and its function stays in *)
(* the registry unless the card has moved.                                  *)
CallFits ==
    /\ call[Gui].op \in {"none", "plug", "unplug"}
    /\ call[Gui].op = "plug" =>
           \/ switch.at = "add1" /\ call[Gui].serial = FirstAdded
           \/ switch.at = "add2" /\ call[Gui].serial = "BT"
    /\ call[Gui].op = "unplug" =>
           /\ call[Gui].next = 4
           /\ \/ switch.at = "close1" /\ call[Gui].serial = FirstRemoved(switch.state)
              \/ switch.at = "close2" /\ call[Gui].serial = "WLAN"
    /\ call[Gui].op # "none" /\ ~switch.moved => ~Vacant(call[Gui].serial)

(* The permission a switch began with is used up while it goes on.          *)
SwitchFlags == ui.at = "switch" => ui.inprogress /\ ~ui.clicked

BusFacts == RInv /\ PnpTracksRegistry /\ NoGps

SInv ==
    /\ BusFacts
    /\ ui \in UiState /\ switch \in SwitchState
    /\ ui.at = "switch" <=> switch.at # "over"
    /\ switch.asked
    /\ SwitchFlags
    /\ CallFits
    /\ GoalAt(switch.at, switch.goal)
    /\ ~switch.moved => OnAt(switch.at, switch.goal, switch.state, RadiosOn)

LEMMA NextBusFacts == BusFacts /\ [GuiNext]_guiVars => BusFacts'
BY GuiStepsAreBusSteps, NextRegistry, NextPnp, NextNoGps DEF BusFacts

LEMMA Told ==
    ASSUME PnpTracksRegistry, NoGps
    PROVE  /\ RadiosOn # {} => Queried \notin {NoCard, NoneStarted}
           /\ RadiosOn = {} => Queried \in {NoCard, NoneStarted}
           /\ StateOf(Queried) = RadiosOn
<1>1. \/ RadiosOn = {} /\ Queried \in {NoCard, NoneStarted}
      \/ RadiosOn = {"BT"} /\ Queried = 1
      \/ RadiosOn = {"WLAN"} /\ Queried = 2
      \/ RadiosOn = {"BT", "WLAN"} /\ Queried = 3
  <2>1. RadiosOn \in {{}, {"BT"}, {"WLAN"}, {"BT", "WLAN"}}
    BY DEF RadiosOn
  <2> QED
    BY <2>1, RadiosTold DEF Queried
<1> QED
  BY <1>1, SMT DEF StateOf, NoCard, NoneStarted

LEMMA Modes ==
    /\ \A mode \in Mode : Wanted(mode) \in SUBSET {"BT", "WLAN"} /\ FirstOf(mode) \in {"BT", "WLAN"}
    /\ \A x : StateOf(x) \in SUBSET {"BT", "WLAN"}
    /\ AutoMark \in Mode
    /\ \A c \in Config : StartMode(c) \in Mode
<1>1. \A x : StateOf(x) \in SUBSET {"BT", "WLAN"}
  BY DEF StateOf
<1>2. \A mode \in Mode : Wanted(mode) \in SUBSET {"BT", "WLAN"} /\ FirstOf(mode) \in {"BT", "WLAN"}
  BY DEF Wanted, FirstOf
<1>3. \A S \in SUBSET {"BT", "WLAN"} : \E mode \in Mode : Wanted(mode) = S
  <2> SUFFICES ASSUME NEW S \in SUBSET {"BT", "WLAN"}
               PROVE  \E mode \in Mode : Wanted(mode) = S
    OBVIOUS
  <2>1. S \in {{}, {"BT"}, {"WLAN"}, {"BT", "WLAN"}}
    OBVIOUS
  <2>2. /\ Wanted("unplug") = {} /\ Wanted("bt") = {"BT"} /\ Wanted("wlan") = {"WLAN"}
        /\ Wanted("coexist") = {"BT", "WLAN"}
    BY DEF Wanted
  <2> QED
    BY <2>1, <2>2 DEF Mode
<1>4. AutoMark \in Mode
  BY <1>1, <1>3 DEF AutoMark, ModeOf
<1>5. \A c \in Config : StartMode(c) \in Mode
  BY DEF StartMode, Config, Mode
<1> QED
  BY <1>1, <1>2, <1>4, <1>5

-----------------------------------------------------------------------------
(* The switch goes to place a with state S.                                 *)
Shows(a, S) ==
    /\ switch' \in SwitchState
    /\ switch'.at = a /\ switch'.state = S
    /\ switch'.goal = switch.goal /\ switch'.asked = switch.asked /\ switch'.moved = switch.moved

LEMMA Showing ==
    ASSUME switch \in SwitchState, NEW a \in Handler, NEW n \in 0..Tries,
           NEW S \in SUBSET {"BT", "WLAN"}
    PROVE  /\ switch' = [switch EXCEPT !.at = a] => Shows(a, switch.state)
           /\ switch' = [switch EXCEPT !.at = a, !.tries = n] => Shows(a, switch.state)
           /\ switch' = [switch EXCEPT !.at = a, !.state = S] => Shows(a, S)
           /\ switch' = [switch EXCEPT !.at = a, !.tries = n, !.state = S] => Shows(a, S)
<1>1. CASE switch' = [switch EXCEPT !.at = a]
  BY <1>1 DEF Shows, SwitchState
<1>2. CASE switch' = [switch EXCEPT !.at = a, !.tries = n]
  BY <1>2 DEF Shows, SwitchState
<1>3. CASE switch' = [switch EXCEPT !.at = a, !.state = S]
  BY <1>3 DEF Shows, SwitchState
<1>4. CASE switch' = [switch EXCEPT !.at = a, !.tries = n, !.state = S]
  BY <1>4 DEF Shows, SwitchState
<1> QED
  BY <1>1, <1>2, <1>3, <1>4

LEMMA Going ==
    ASSUME switch \in SwitchState, NEW a \in Handler
    PROVE  /\ Goto(a) => Shows(a, switch.state)
           /\ Poll(a) => Shows(a, switch.state)
           /\ Again(a) /\ ~GiveUp => Shows(a, switch.state)
           /\ Unplugged => Shows(AfterUnplug(switch.goal), {})
<1>1. 0 \in 0..Tries /\ switch.tries \in 0..Tries /\ switch.state \in SUBSET {"BT", "WLAN"}
  BY PollAssumption DEF SwitchState
<1>2. Goto(a) => Shows(a, switch.state)
  BY <1>1, Showing DEF Goto
<1>3. Poll(a) => Shows(a, switch.state)
  BY <1>1, Showing DEF Poll
<1>4. ASSUME Again(a), ~GiveUp
      PROVE  Shows(a, switch.state)
  <2>1. switch.tries + 1 \in 0..Tries
    BY <1>1, <1>4, PollAssumption DEF GiveUp
  <2>2. switch' = [switch EXCEPT !.at = a, !.tries = switch.tries + 1]
    BY <1>4 DEF Again, SwitchState
  <2> QED
    BY <1>1, <2>1, <2>2, Showing
<1>5. ASSUME Unplugged
      PROVE  Shows(AfterUnplug(switch.goal), {})
  <2>1. AfterUnplug(switch.goal) \in Handler /\ {} \in SUBSET {"BT", "WLAN"}
    BY DEF AfterUnplug, Handler
  <2> QED
    BY <1>1, <1>5, <2>1, Showing DEF Unplugged
<1> QED
  BY <1>2, <1>3, <1>4, <1>5

(* The widgets may change, where the handler runs does not.                 *)
UiFits == ui' \in UiState /\ ui'.at = ui.at /\ SwitchFlags'

LEMMA Staying == SInv /\ Stay => UiFits
BY DEF SInv, Stay, UiFits, SwitchFlags

(* The switch goes on: it is in no callback after the step.                 *)
LEMMA StepFits ==
    ASSUME SInv, BusFacts', NEW a, NEW S, Shows(a, S), a # "over", switch.at # "over",
           UiFits, call'[Gui].op = "none",
           GoalAt(a, switch.goal),
           ~switch.moved => OnAt(a, switch.goal, S, RadiosOn')
    PROVE  SInv'
<1>1. CallFits'
  BY DEF CallFits
<1>2. GoalAt(switch.at, switch.goal)'
  BY DEF Shows
<1>3. (~switch.moved => OnAt(switch.at, switch.goal, switch.state, RadiosOn))'
  BY DEF Shows
<1> QED
  BY <1>1, <1>2, <1>3 DEF SInv, Shows, UiFits

LEMMA NoCall ==
    ASSUME SInv, switch.at \notin CallPlace \/ Asleep
    PROVE  call[Gui].op = "none"
BY DEF SInv, CallFits, CallPlace, Asleep, Idle

LEMMA LookFits ==
    ASSUME SInv, BusFacts', NEW a, NEW S, Shows(a, S), a # "over", switch.at # "over",
           UiFits, UNCHANGED vars, switch.at \notin CallPlace \/ Asleep,
           GoalAt(a, switch.goal),
           ~switch.moved => OnAt(a, switch.goal, S, RadiosOn)
    PROVE  SInv'
<1>1. RadiosOn' = RadiosOn /\ call' = call
  BY DEF RadiosOn, StartedFn, Vacant, vars, registry
<1> QED
  BY <1>1, NoCall, StepFits

(* A switch ends, or begins because somebody asked for it.                  *)
LEMMA LeaveFits ==
    ASSUME SInv, BusFacts', NEW last \in UiState,
           LeaveAs(last), UNCHANGED vars, switch.at \notin CallPlace
    PROVE  SInv'
<1>1. ui' \in UiState /\ ui'.at # "switch"
  <2>1. ui.caller \in {"loop", "bootPump", "auto"}
    BY DEF SInv, UiState
  <2> QED
    BY <2>1 DEF LeaveAs, Reset, UiState, Boot
<1>2. switch' = Over /\ Over \in SwitchState /\ Over.at = "over" /\ Over.asked
  BY PollAssumption DEF LeaveAs, Over, SwitchState, Mode
<1>3. call'[Gui].op = "none"
  BY NoCall DEF vars
<1>4. CallFits'
  BY <1>3 DEF CallFits
<1>5. GoalAt(switch.at, switch.goal)' /\ OnAt(switch.at, switch.goal, switch.state, RadiosOn)'
  BY <1>2 DEF GoalAt, OnAt
<1> QED
  BY <1>1, <1>2, <1>4, <1>5 DEF SInv, SwitchFlags

LEMMA BeginFits ==
    ASSUME SInv, BusFacts', NEW now \in UiState, NEW mode \in Mode,
           NEW caller \in {"loop", "bootPump", "auto"},
           Begin(now, mode, caller, TRUE), UNCHANGED vars, switch.at \notin CallPlace
    PROVE  SInv'
<1>1. ui' \in UiState /\ ui'.at = "switch" /\ ui'.inprogress /\ ~ui'.clicked
  <2>1. ui' = [now EXCEPT !.at = "switch", !.caller = caller, !.clicked = FALSE,
                          !.inprogress = TRUE, !.sensitive = FALSE, !.marks = {}]
    BY DEF Begin, Taken
  <2> QED
    BY <2>1 DEF UiState
<1>2. switch' \in SwitchState /\ switch'.at = "start" /\ switch'.asked
  <2>1. switch' = [at |-> "start", goal |-> mode, state |-> {}, tries |-> 0,
                   asked |-> TRUE, moved |-> FALSE]
    BY DEF Begin, Over
  <2> QED
    BY <2>1, PollAssumption DEF SwitchState, Handler
<1>3. call'[Gui].op = "none"
  BY NoCall DEF vars
<1>4. CallFits'
  BY <1>3 DEF CallFits
<1>5. GoalAt(switch.at, switch.goal)' /\ OnAt(switch.at, switch.goal, switch.state, RadiosOn)'
  BY <1>2 DEF GoalAt, OnAt
<1> QED
  BY <1>1, <1>2, <1>4, <1>5 DEF SInv, SwitchFlags

(* Without a permission the marks' own signals reach no handler.            *)
LEMMA Silent == \A now, marks : ~now.clicked => Signals(now, marks) = {}
BY DEF Signals, MayBegin

-----------------------------------------------------------------------------
(* The callbacks.                                                          *)

LEMMA PlugInDoneOn ==
    ASSUME SInv, NEW ok \in BOOLEAN, PlugInDone(Gui, ok)
    PROVE  /\ call'[Gui].op = "none"
           /\ ~switch.moved =>
                  RadiosOn' = IF ok THEN RadiosOn \cup {call[Gui].serial} ELSE RadiosOn
<1>1. call'[Gui] = Idle
  BY GuiAssumption DEF PlugInDone, SInv, BusFacts, RInv, TypeOK
<1>2. ASSUME ~switch.moved
      PROVE  RadiosOn' = IF ok THEN RadiosOn \cup {call[Gui].serial} ELSE RadiosOn
  <2>1. ~Vacant(call[Gui].serial) /\ call[Gui].serial \in {"BT", "WLAN"}
    BY <1>2 DEF SInv, CallFits, PlugInDone, FirstAdded
  <2>2. CASE ok
    <3>1. /\ slot' = slot
          /\ block' = [block EXCEPT ![slot[call[Gui].serial]].devstate = "Started"]
      BY <2>1, <2>2 DEF PlugInDone
    <3> QED
      BY <2>1, <2>2, <3>1, RadiosAfter DEF SInv, BusFacts, RInv, DevState
  <2>3. CASE ~ok
    BY <2>3 DEF PlugInDone, RadiosOn, StartedFn, Vacant
  <2> QED
    BY <2>2, <2>3
<1> QED
  BY <1>1, <1>2 DEF Idle

LEMMA UnPlugDoneOn ==
    ASSUME SInv, UnPlugDone(Gui)
    PROVE  /\ call'[Gui].op = "none"
           /\ ~switch.moved => RadiosOn' = RadiosOn \ {call[Gui].serial}
<1>1. call[Gui].next = 4 /\ call[Gui].op = "unplug" /\ call[Gui].serial \in {"BT", "WLAN"}
  BY DEF SInv, CallFits, UnPlugDone, FirstRemoved
<1>2. call'[Gui] = Idle
  BY <1>1, GuiAssumption DEF UnPlugDone, AfterSlot, SInv, BusFacts, RInv, TypeOK
<1>3. ASSUME ~switch.moved
      PROVE  RadiosOn' = RadiosOn \ {call[Gui].serial}
  <2>1. ~Vacant(call[Gui].serial)
    BY <1>1, <1>3 DEF SInv, CallFits
  <2>2. slot' = slot /\ block' = [block EXCEPT ![slot[call[Gui].serial]].devstate = "Stopped"]
    BY <2>1 DEF UnPlugDone
  <2>3. RadiosOn' = IF "Stopped" = "Started" THEN RadiosOn \cup {call[Gui].serial}
                    ELSE RadiosOn \ {call[Gui].serial}
    BY <1>1, <2>1, <2>2, RadiosAfter DEF SInv, BusFacts, RInv, DevState
  <2> QED
    BY <2>3
<1> QED
  BY <1>2, <1>3 DEF Idle

(* A callback begins: nothing moves.                                        *)
LEMMA CallBegins ==
    ASSUME SInv, BusFacts', UNCHANGED <<ui, switch, slot, block>>,
           CallFits'
    PROVE  SInv'
<1>1. RadiosOn' = RadiosOn
  BY DEF RadiosOn, StartedFn, Vacant
<1> QED
  BY <1>1 DEF SInv, SwitchFlags

LEMMA RemoveFits ==
    ASSUME SInv, BusFacts', NEW s \in {"BT", "WLAN"}, NEW next \in Handler, Remove(s, next), Stay,
           \/ switch.at = "close1" /\ s = FirstRemoved(switch.state)
           \/ switch.at = "close2" /\ s = "WLAN",
           GoalAt(next, switch.goal),
           ~switch.moved => s \in RadiosOn,
           ~switch.moved => OnAt(next, switch.goal, switch.state, RadiosOn \ {s})
    PROVE  SInv'
<1>1. /\ next # "over" /\ switch.at # "over" /\ UiFits
      /\ Poll(next) => Shows(next, switch.state)
  BY Going, Staying DEF Handler, SInv
<1>2. CASE Asleep /\ ~Closes(s) /\ Poll(next) /\ UNCHANGED vars
  <2>1. switch.moved
    BY <1>2 DEF Closes, RadiosOn, StartedFn, SInv, BusFacts, PnpTracksRegistry, Admitted, Serial
  <2> QED
    BY <1>1, <1>2, <2>1, LookFits
<1>3. CASE UnPlug(Gui, s) /\ UNCHANGED switch
  <2>1. /\ call'[Gui] = [op |-> "unplug", serial |-> s, iface |-> slot[s], next |-> 4]
        /\ slot' = slot /\ block' = block /\ ~Vacant(s)
    BY <1>3, GuiAssumption DEF UnPlug, BeginClose, SInv, BusFacts, RInv, TypeOK
  <2>2. CallFits'
    BY <1>3, <2>1 DEF CallFits, Vacant
  <2> QED
    BY <1>3, <2>1, <2>2, CallBegins DEF Stay
<1>4. CASE UnPlugDone(Gui) /\ Poll(next)
  <2>1. call[Gui].serial = s
    BY <1>4 DEF SInv, CallFits, UnPlugDone
  <2> QED
    BY <1>1, <1>4, <2>1, UnPlugDoneOn, StepFits
<1> QED
  BY <1>2, <1>3, <1>4 DEF Remove

LEMMA AddFits ==
    ASSUME SInv, BusFacts', NEW s \in {"BT", "WLAN"}, NEW next \in Handler, Add(s, next), Stay,
           \/ switch.at = "add1" /\ s = FirstAdded
           \/ switch.at = "add2" /\ s = "BT",
           GoalAt(next, switch.goal),
           ~switch.moved => OnAt(next, switch.goal, switch.state, RadiosOn),
           ~switch.moved => OnAt(next, switch.goal, switch.state, RadiosOn \cup {s})
    PROVE  SInv'
<1>1. /\ next # "over" /\ switch.at # "over" /\ UiFits
      /\ Goto(next) => Shows(next, switch.state)
  BY Going, Staying DEF Handler, SInv
<1>2. CASE Asleep /\ Goto(next) /\ UNCHANGED vars
  BY <1>1, <1>2, LookFits
<1>3. CASE PlugIn(Gui, s) /\ UNCHANGED switch
  <2>1. /\ call'[Gui] = [op |-> "plug", serial |-> s, iface |-> slot[s], next |-> 4]
        /\ slot' = slot /\ block' = block /\ ~Vacant(s)
    BY <1>3, GuiAssumption DEF PlugIn, MayOpen, registry, SInv, BusFacts, RInv, TypeOK
  <2>2. CallFits'
    BY <1>3, <2>1 DEF CallFits, Vacant, FirstAdded
  <2> QED
    BY <1>3, <2>1, <2>2, CallBegins DEF Stay
<1>4. ASSUME NEW ok \in BOOLEAN, PlugInDone(Gui, ok), Goto(next)
      PROVE  SInv'
  <2>1. call[Gui].serial = s
    BY <1>4 DEF SInv, CallFits, PlugInDone
  <2>2. ~switch.moved => OnAt(next, switch.goal, switch.state, RadiosOn')
    BY <1>4, <2>1, PlugInDoneOn
  <2> QED
    BY <1>1, <1>4, <2>2, PlugInDoneOn, StepFits
<1> QED
  BY <1>2, <1>3, <1>4 DEF Add

LEMMA RemoveSteps ==
    ASSUME SInv, BusFacts', RemoveFirst \/ RemoveSecond
    PROVE  SInv'
<1>1. /\ GoalAt(switch.at, switch.goal) /\ switch.state \in SUBSET {"BT", "WLAN"}
      /\ ~switch.moved => OnAt(switch.at, switch.goal, switch.state, RadiosOn)
  BY DEF SInv, SwitchState
<1>2. ASSUME RemoveFirst
      PROVE  SInv'
  <2> DEFINE s    == FirstRemoved(switch.state)
             next == IF switch.state = {"BT", "WLAN"} THEN "btPower" ELSE "nonePower"
  <2>1. switch.at = "close1" /\ Stay /\ s \in {"BT", "WLAN"} /\ next \in Handler
    BY <1>2 DEF RemoveFirst, FirstRemoved, Handler
  <2>2. Remove(s, next)
    <3>1. CASE switch.state = {"BT", "WLAN"}
      BY <1>2, <3>1 DEF RemoveFirst, FirstRemoved
    <3>2. CASE switch.state # {"BT", "WLAN"}
      BY <1>1, <1>2, <3>2 DEF RemoveFirst, FirstRemoved
    <3> QED
      BY <3>1, <3>2
  <2>3. GoalAt(next, switch.goal)
    BY DEF GoalAt
  <2>4. ASSUME ~switch.moved
        PROVE  s \in RadiosOn /\ OnAt(next, switch.goal, switch.state, RadiosOn \ {s})
    <3>1. switch.state = RadiosOn /\ RadiosOn # {} /\ RadiosOn \subseteq {"BT", "WLAN"}
      BY <1>1, <2>1, <2>4 DEF OnAt, RadiosOn
    <3>2. CASE RadiosOn = {"BT", "WLAN"}
      BY <3>1, <3>2 DEF FirstRemoved, OnAt
    <3>3. CASE RadiosOn # {"BT", "WLAN"}
      BY <3>1, <3>3 DEF FirstRemoved, OnAt
    <3> QED
      BY <3>2, <3>3
  <2> HIDE DEF next
  <2> QED
    BY <2>1, <2>2, <2>3, <2>4, RemoveFits
<1>3. ASSUME RemoveSecond
      PROVE  SInv'
  <2>1. switch.at = "close2" /\ Stay /\ Remove("WLAN", "nonePower") /\ "nonePower" \in Handler
    BY <1>3 DEF RemoveSecond, Handler
  <2>2. GoalAt("nonePower", switch.goal)
    BY DEF GoalAt
  <2>3. ASSUME ~switch.moved
        PROVE  /\ "WLAN" \in RadiosOn
               /\ OnAt("nonePower", switch.goal, switch.state, RadiosOn \ {"WLAN"})
    BY <1>1, <2>1, <2>3 DEF OnAt
  <2> QED
    BY <2>1, <2>2, <2>3, RemoveFits
<1> QED
  BY <1>2, <1>3

LEMMA AddSteps ==
    ASSUME SInv, BusFacts', AddFirst \/ AddSecond
    PROVE  SInv'
<1>1. /\ GoalAt(switch.at, switch.goal)
      /\ ~switch.moved => OnAt(switch.at, switch.goal, switch.state, RadiosOn)
  BY DEF SInv
<1>2. ASSUME AddFirst
      PROVE  SInv'
  <2>1. /\ switch.at = "add1" /\ Stay /\ FirstAdded = FirstOf(switch.goal)
        /\ FirstAdded \in {"BT", "WLAN"} /\ Add(FirstAdded, "check1") /\ "check1" \in Handler
    BY <1>2 DEF AddFirst, FirstAdded, FirstOf, Handler
  <2>2. GoalAt("check1", switch.goal)
    BY <1>1, <2>1 DEF GoalAt
  <2>3. ASSUME ~switch.moved
        PROVE  /\ OnAt("check1", switch.goal, switch.state, RadiosOn)
               /\ OnAt("check1", switch.goal, switch.state, RadiosOn \cup {FirstAdded})
    BY <1>1, <2>1, <2>3 DEF OnAt
  <2> QED
    BY <2>1, <2>2, <2>3, AddFits
<1>3. ASSUME AddSecond
      PROVE  SInv'
  <2>1. switch.at = "add2" /\ Stay /\ Add("BT", "check2") /\ "check2" \in Handler
    BY <1>3 DEF AddSecond, Handler
  <2>2. GoalAt("check2", switch.goal)
    BY <1>1, <2>1 DEF GoalAt
  <2>3. ASSUME ~switch.moved
        PROVE  /\ OnAt("check2", switch.goal, switch.state, RadiosOn)
               /\ OnAt("check2", switch.goal, switch.state, RadiosOn \cup {"BT"})
    BY <1>1, <2>1, <2>3 DEF OnAt
  <2> QED
    BY <2>1, <2>2, <2>3, AddFits
<1> QED
  BY <1>2, <1>3

-----------------------------------------------------------------------------
(* The steps of a switch that only look at the bus.                         *)

LEMMA LookSteps ==
    ASSUME SInv, BusFacts',
           \/ Start \/ UnplugDevices \/ PollPower \/ WaitBtOff \/ WaitNone
           \/ CheckFirst \/ WaitWlanUp \/ CheckSecond \/ Announce
    PROVE  SInv'
<1> DEFINE a == switch.at
           g == switch.goal
           S == switch.state
<1>1. /\ switch \in SwitchState /\ g \in Mode /\ S \in SUBSET {"BT", "WLAN"} /\ ui \in UiState
      /\ GoalAt(a, g) /\ (~switch.moved => OnAt(a, g, S, RadiosOn))
      /\ RadiosOn \subseteq {"BT", "WLAN"}
  BY DEF SInv, SwitchState, RadiosOn
<1>2. /\ RadiosOn # {} => Queried \notin {NoCard, NoneStarted}
      /\ RadiosOn = {} => Queried \in {NoCard, NoneStarted}
      /\ StateOf(Queried) = RadiosOn
  BY Told DEF SInv, BusFacts
<1>3. UNCHANGED vars /\ a \notin CallPlace /\ a # "over"
  BY DEF Start, UnplugDevices, PollPower, WaitBtOff, WaitNone, CheckFirst, WaitWlanUp,
         CheckSecond, Announce, CallPlace
<1>4. ASSUME NEW b \in Handler, NEW T, Shows(b, T), UiFits, GoalAt(b, g),
             ~switch.moved => OnAt(b, g, T, RadiosOn)
      PROVE  SInv'
  BY <1>3, <1>4, LookFits DEF Handler
<1>5. /\ ui.at = "switch" /\ ui.inprogress /\ ~ui.clicked
      /\ Stay => UiFits
      /\ ui' = [ui EXCEPT !.marks = {g}, !.sensitive = TRUE] => UiFits
      /\ Signals(ui, {g}) = {}
  <2>1. ui.at = "switch" /\ ui.inprogress /\ ~ui.clicked
    BY <1>3 DEF SInv, SwitchFlags
  <2>2. ASSUME ui' = [ui EXCEPT !.marks = {g}, !.sensitive = TRUE]
        PROVE  UiFits
    BY <1>1, <2>1, <2>2 DEF UiFits, UiState, SwitchFlags
  <2> QED
    BY <2>1, <2>2, Staying, Silent
<1>6. /\ \A sensitive \in BOOLEAN : Leave(sensitive) => SInv'
      /\ \A mode \in Mode : LeaveMarked(ui, mode) => SInv'
      /\ LeaveMarked([ui EXCEPT !.inprogress = Reset], "unplug") => SInv'
  <2>1. ASSUME NEW last \in UiState, LeaveAs(last)
        PROVE  SInv'
    BY <1>3, <2>1, LeaveFits
  <2>2. ASSUME NEW sensitive \in BOOLEAN, Leave(sensitive)
        PROVE  SInv'
    <3>1. [ui EXCEPT !.sensitive = sensitive] \in UiState
      BY <1>1 DEF UiState
    <3> QED
      BY <2>1, <2>2, <3>1 DEF Leave
  <2>3. ASSUME NEW now \in UiState, ~now.clicked, NEW mode \in Mode, LeaveMarked(now, mode)
        PROVE  SInv'
    <3>1. LeaveAs([now EXCEPT !.marks = {mode}, !.sensitive = TRUE])
      BY <2>3, Silent, Zenon DEF LeaveMarked, Mark
    <3>2. [now EXCEPT !.marks = {mode}, !.sensitive = TRUE] \in UiState
      BY DEF UiState
    <3> QED
      BY <2>1, <3>1, <3>2
  <2>4. LET now == [ui EXCEPT !.inprogress = Reset] IN now \in UiState /\ ~now.clicked
    BY <1>1, <1>5 DEF UiState, Reset
  <2>5. "unplug" \in Mode
    BY DEF Mode
  <2> QED
    BY <1>1, <1>5, <2>2, <2>3, <2>4, <2>5
<1>7. CASE Start
  <2> DEFINE out == Queried = NoCard /\ g # "unplug"
  <2>1. CASE ~out /\ RadiosOn # Wanted(g)
    <3> DEFINE b == IF RadiosOn = {} THEN "add1" ELSE "unplug"
    <3>1. switch' = [switch EXCEPT !.at = b, !.state = RadiosOn] /\ Stay /\ b \in Handler
      BY <1>2, <1>7, <2>1 DEF Start, Handler
    <3>2. Shows(b, RadiosOn)
      <4>1. 0 \in 0..Tries /\ RadiosOn \in SUBSET {"BT", "WLAN"}
        BY <1>1, PollAssumption
      <4> HIDE DEF b
      <4> QED
        BY <1>1, <3>1, <4>1, Showing
    <3>3. GoalAt(b, g) /\ OnAt(b, g, RadiosOn, RadiosOn)
      BY <2>1 DEF GoalAt, OnAt
    <3> HIDE DEF b
    <3> QED
      BY <1>4, <1>5, <3>1, <3>2, <3>3
  <2>2. CASE out \/ RadiosOn = Wanted(g)
    <3>1. \/ LeaveMarked([ui EXCEPT !.inprogress = Reset], "unplug")
          \/ Leave(g # "bt")
          \/ LeaveMarked(ui, g)
      BY <1>2, <1>7, <2>2, Zenon DEF Start
    <3> QED
      BY <1>1, <1>6, <3>1
  <2> QED
    BY <2>1, <2>2
<1> DEFINE Ended == ShowIfOver(Unplugged)
<1>ended. ASSUME Ended, ~switch.moved => RadiosOn = {}
      PROVE  SInv'
  <2>1. AfterUnplug(g) \in Handler /\ Unplugged /\ UiFits
    <3>1. Show(Unplugged) => Unplugged /\ UiFits
      BY <1>5, Zenon DEF Show, Mark
    <3> QED
      BY <1>5, <1>ended, <3>1 DEF ShowIfOver, AfterUnplug, Handler
  <2>2. Shows(AfterUnplug(g), {})
    BY <1>1, <2>1, Going
  <2>3. GoalAt(AfterUnplug(g), g)
    BY <1>1 DEF AfterUnplug, GoalAt, Wanted, Mode
  <2>4. ~switch.moved => OnAt(AfterUnplug(g), g, {}, RadiosOn)
    BY <1>1, <1>ended DEF AfterUnplug, OnAt, Wanted
  <2> QED
    BY <1>4, <2>1, <2>2, <2>3, <2>4
<1>shown. Show(Goto("pump")) => Goto("pump") /\ UiFits
  BY <1>5, Zenon DEF Show, Mark
<1>8. CASE UnplugDevices
  <2>1. a = "unplug"
    BY <1>8 DEF UnplugDevices
  <2>2. CASE Queried = NoCard /\ Leave(TRUE)
    BY <1>6, <2>2
  <2>3. CASE Queried = NoneStarted /\ Ended
    BY <1>2, <1>ended, <2>3
  <2>4. CASE Queried \in 1..7 /\ Goto("close1") /\ Stay
    <3>1. Shows("close1", S) /\ "close1" \in Handler
      BY <1>1, <2>4, Going DEF Handler
    <3>2. GoalAt("close1", g) /\ (~switch.moved => OnAt("close1", g, S, RadiosOn))
      BY <1>1, <2>1 DEF GoalAt, OnAt
    <3> QED
      BY <1>4, <1>5, <2>4, <3>1, <3>2
  <2> QED
    BY <1>8, <2>2, <2>3, <2>4 DEF UnplugDevices
<1>9. CASE PollPower
  <2>1. CASE Leave(TRUE)
    BY <1>6, <2>1
  <2>2. CASE ~Leave(TRUE)
    <3>1. PICK b \in {"btOff", "none", "wlanUp"} :
              /\ Goto(b) /\ Stay
              /\ b = "btOff" => a = "btPower"
              /\ b = "none" => a = "nonePower"
              /\ b = "wlanUp" => a = "wlanPower"
      BY <1>9, <2>2 DEF PollPower
    <3>2. GoalAt(b, g) /\ (~switch.moved => OnAt(b, g, S, RadiosOn))
      BY <1>1, <3>1 DEF GoalAt, OnAt
    <3>3. b \in Handler /\ Shows(b, S)
      BY <1>1, <3>1, Going DEF Handler
    <3> QED
      BY <1>4, <1>5, <3>1, <3>2, <3>3
  <2> QED
    BY <2>1, <2>2
<1>10. CASE WaitBtOff
  <2>1. PICK b \in {"close2", "btPower"} : Shows(b, S) /\ Stay /\ b \in Handler
    <3>1. "close2" \in Handler /\ "btPower" \in Handler
      BY DEF Handler
    <3>2. CASE BtIsOff(Queried) \/ GiveUp
      BY <1>1, <1>10, <3>1, <3>2, Going DEF WaitBtOff
    <3>3. CASE ~(BtIsOff(Queried) \/ GiveUp)
      BY <1>1, <1>10, <3>1, <3>3, Going DEF WaitBtOff
    <3> QED
      BY <3>2, <3>3
  <2>2. GoalAt(b, g) /\ (~switch.moved => OnAt(b, g, S, RadiosOn))
    BY <1>1, <1>10 DEF WaitBtOff, GoalAt, OnAt
  <2> QED
    BY <1>4, <1>5, <2>1, <2>2
<1>11. CASE WaitNone
  <2>1. a = "none"
    BY <1>11 DEF WaitNone
  <2>2. CASE Ended
    BY <1>1, <1>ended, <2>1, <2>2 DEF OnAt
  <2>3. CASE ~GiveUp /\ Again("nonePower") /\ Stay
    <3>1. Shows("nonePower", S) /\ "nonePower" \in Handler
      BY <1>1, <2>3, Going DEF Handler
    <3>2. GoalAt("nonePower", g) /\ (~switch.moved => OnAt("nonePower", g, S, RadiosOn))
      BY <1>1, <2>1 DEF GoalAt, OnAt
    <3> QED
      BY <1>4, <1>5, <2>3, <3>1, <3>2
  <2> QED
    BY <1>11, <2>2, <2>3 DEF WaitNone
<1>12. CASE CheckFirst
  <2>1. a = "check1" /\ Wanted(g) # {}
    BY <1>1, <1>12 DEF CheckFirst, GoalAt
  <2>2. CASE DownloadOk /\ g = "coexist" /\ Goto("wlanUp") /\ Stay
    <3>1. Shows("wlanUp", S) /\ "wlanUp" \in Handler
      BY <1>1, <2>2, Going DEF Handler
    <3>2. GoalAt("wlanUp", g) /\ (~switch.moved => OnAt("wlanUp", g, S, RadiosOn))
      BY <1>1, <2>1, <2>2 DEF GoalAt, OnAt, FirstOf, Wanted
    <3> QED
      BY <1>4, <1>5, <2>2, <3>1, <3>2
  <2>3. CASE DownloadOk /\ g # "coexist" /\ Goto("pump") /\ UiFits
    <3>1. Shows("pump", S) /\ "pump" \in Handler
      BY <1>1, <2>3, Going DEF Handler
    <3>2. GoalAt("pump", g)
      BY DEF GoalAt
    <3>3. ASSUME ~switch.moved
          PROVE  OnAt("pump", g, S, RadiosOn)
      <4>1. RadiosOn = {FirstOf(g)}
        BY <1>1, <1>2, <2>1, <2>3, <3>3 DEF OnAt, DownloadOk
      <4>2. Wanted(g) = {FirstOf(g)}
        BY <1>1, <2>1, <2>3 DEF Wanted, FirstOf, Mode
      <4> QED
        BY <4>1, <4>2 DEF OnAt
    <3> QED
      BY <1>4, <1>5, <2>3, <3>1, <3>2, <3>3
  <2>4. CASE LeaveMarked(ui, "unplug")
    BY <1>6, <2>4 DEF Mode
  <2> QED
    BY <1>12, <1>shown, <2>2, <2>3, <2>4 DEF CheckFirst
<1>13. CASE WaitWlanUp
  <2>1. a = "wlanUp" /\ g = "coexist" /\ Stay
    BY <1>1, <1>13 DEF WaitWlanUp, GoalAt
  <2>2. CASE WlanReported
    <3>1. Goto("add2") /\ "WLAN" \in RadiosOn
      BY <1>13, <2>2, SMT DEF WaitWlanUp, WlanReported, QueryDeviceState, RadiosOn
    <3>2. Shows("add2", S) /\ "add2" \in Handler
      BY <1>1, <3>1, Going DEF Handler
    <3>3. GoalAt("add2", g) /\ (~switch.moved => OnAt("add2", g, S, RadiosOn))
      BY <1>1, <2>1, <3>1 DEF GoalAt, OnAt
    <3> QED
      BY <1>4, <1>5, <2>1, <3>2, <3>3
  <2>3. CASE ~WlanReported
    <3>1. Goto("wlanPower")
      BY <1>13, <2>3 DEF WaitWlanUp
    <3>2. Shows("wlanPower", S) /\ "wlanPower" \in Handler
      BY <1>1, <3>1, Going DEF Handler
    <3>3. GoalAt("wlanPower", g) /\ (~switch.moved => OnAt("wlanPower", g, S, RadiosOn))
      BY <1>1, <2>1 DEF GoalAt, OnAt
    <3> QED
      BY <1>4, <1>5, <2>1, <3>2, <3>3
  <2> QED
    BY <2>2, <2>3
<1>14. CASE CheckSecond
  <2>1. a = "check2" /\ g = "coexist"
    BY <1>1, <1>14 DEF CheckSecond, GoalAt
  <2>2. CASE DownloadOk
    <3>1. Shows("pump", S) /\ "pump" \in Handler /\ UiFits
      BY <1>1, <1>14, <1>shown, <2>2, Going DEF CheckSecond, Handler
    <3>2. GoalAt("pump", g) /\ (~switch.moved => OnAt("pump", g, S, RadiosOn))
      BY <1>1, <2>1 DEF GoalAt, OnAt, Wanted
    <3> QED
      BY <1>4, <3>1, <3>2
  <2>3. CASE ~DownloadOk
    BY <1>6, <1>14, <2>3 DEF CheckSecond
  <2> QED
    BY <2>2, <2>3
<1>15. CASE Announce
  BY <1>1, <1>6, <1>15 DEF Announce, UiState
<1> QED
  BY <1>7, <1>8, <1>9, <1>10, <1>11, <1>12, <1>13, <1>14, <1>15

-----------------------------------------------------------------------------
(* The program's start, the user, the timer and the USB core.               *)

(* Nothing of a switch is under way before and after the step.              *)
LEMMA IdleFits ==
    ASSUME SInv, BusFacts', call'[Gui].op = "none",
           ui' \in UiState, ui'.at # "switch",
           switch' \in SwitchState, switch'.at = "over", switch'.asked
    PROVE  SInv'
<1>1. CallFits'
  BY DEF CallFits
<1>2. GoalAt(switch.at, switch.goal)' /\ OnAt(switch.at, switch.goal, switch.state, RadiosOn)'
  BY DEF GoalAt, OnAt
<1> QED
  BY <1>1, <1>2 DEF SInv, SwitchFlags

(* Only the widgets change.                                                 *)
LEMMA WidgetFits ==
    ASSUME SInv, BusFacts', UiFits, UNCHANGED <<vars, switch>>
    PROVE  SInv'
<1>1. RadiosOn' = RadiosOn /\ switch' = switch
  BY DEF RadiosOn, StartedFn, Vacant, vars, registry
<1>2. CallFits'
  <2>1. call' = call /\ slot' = slot /\ switch' = switch
    BY DEF vars, registry
  <2> QED
    BY <2>1 DEF SInv, CallFits, FirstAdded, Vacant
<1> QED
  BY <1>1, <1>2 DEF SInv, UiFits

LEMMA NothingCalled ==
    ASSUME SInv, ui.at # "switch" \/ switch.at = "pump"
    PROVE  switch.at \notin CallPlace /\ call[Gui].op = "none"
<1>1. switch.at \notin CallPlace
  BY DEF SInv, CallPlace
<1> QED
  BY <1>1, NoCall

(* What adjust_menu_item_auto does when it is called.                       *)
LEMMA AutoMarked ==
    ASSUME ui \in UiState,
           NEW next \in {"loop", "bootPump"}, NEW popup \in BOOLEAN, NEW clicked \in BOOLEAN,
           AdjustMenuItemAuto(next, popup, clicked)
    PROVE  /\ ui' \in UiState /\ switch' = switch
           /\ ui'.at = next /\ ui'.inprogress = ui.inprogress
<1> DEFINE now == [ui EXCEPT !.clicked = FALSE]
<1>1. ~now.clicked
  BY DEF UiState
<1>2. /\ ui' = [now EXCEPT !.at = next, !.marks = {AutoMark}, !.popup = popup,
                           !.clicked = clicked]
      /\ switch' = switch
  BY <1>1, Silent, Zenon DEF AdjustMenuItemAuto, Mark
<1> QED
  BY <1>2, Modes DEF UiState, Boot

LEMMA BootSteps ==
    ASSUME SInv, BusFacts',
           InitialMode \/ SetHotkey \/ SetTheAntenna \/ BootPumpEnds \/ InitMenu \/ AutoMenu
    PROVE  SInv'
<1>1. /\ ui \in UiState /\ switch \in SwitchState /\ switch.asked
      /\ ui.at # "switch" /\ switch.at = "over" /\ switch.goal \in Mode
  BY DEF SInv, SwitchState, InitialMode, SetHotkey, SetTheAntenna, BootPumpEnds, InitMenu, AutoMenu
<1>2. call[Gui].op = "none" /\ switch.at \notin CallPlace
  BY <1>1, NothingCalled
<1>3. Over \in SwitchState /\ Over.at = "over" /\ Over.asked
  BY PollAssumption DEF Over, SwitchState, Mode
<1>4. CASE InitialMode
  <2>1. StartMode(ui.config) \in Mode
    BY <1>1, Modes, ConfigAssumption DEF UiState
  <2>2. ui' \in UiState /\ ui'.at # "switch" /\ UNCHANGED <<vars, switch>>
    BY <1>1, <1>4, <2>1 DEF InitialMode, UiState, Boot
  <2> QED
    BY <1>1, <1>2, <2>2, IdleFits DEF vars
<1>5. CASE SetHotkey \/ SetTheAntenna
  <2>1. ui' \in UiState /\ ui'.at # "switch"
    BY <1>1, <1>5 DEF SetHotkey, SetTheAntenna, UiState, Boot
  <2>2. switch' = switch /\ call' = call
    BY <1>5 DEF SetHotkey, SetTheAntenna, SetHotkeyFlag, SetAntenna
  <2> QED
    BY <1>1, <1>2, <2>1, <2>2, IdleFits
<1>6. CASE BootPumpEnds
  <2>1. ui' \in UiState /\ ui'.at # "switch" /\ UNCHANGED <<vars, switch>>
    BY <1>1, <1>6 DEF BootPumpEnds, UiState, Boot
  <2> QED
    BY <1>1, <1>2, <2>1, IdleFits DEF vars
<1>7. CASE InitMenu
  <2> DEFINE forgot == [ui EXCEPT !.default = "unplug"]
             now == [forgot EXCEPT !.clicked = TRUE]
             gray == [forgot EXCEPT !.clicked = FALSE, !.sensitive = FALSE]
  <2>1. ui.default \in Mode /\ now \in UiState /\ gray \in UiState /\ ~gray.clicked
    BY <1>1 DEF UiState, Mode
  <2>2. CASE Begin(now, ui.default, "auto", TRUE)
    <3>1. UNCHANGED vars
      BY <1>7 DEF InitMenu
    <3> QED
      BY <1>2, <2>1, <2>2, <3>1, BeginFits
  <2>3. ASSUME NEW marks \in {{}} \cup {{mode} : mode \in Mode},
               Mark(gray, marks,
                    ui' = [gray EXCEPT !.at = "auto", !.marks = marks] /\ switch' = Over)
        PROVE  SInv'
    <3>1. ui' = [gray EXCEPT !.at = "auto", !.marks = marks] /\ switch' = Over
      BY <2>1, <2>3, Silent, Zenon DEF Mark
    <3>2. UNCHANGED vars /\ marks \in SUBSET Mode
      BY <1>7 DEF InitMenu
    <3>3. ui' \in UiState /\ ui'.at # "switch"
      <4> HIDE DEF gray
      <4> QED
        BY <2>1, <3>1, <3>2 DEF UiState, Boot
    <3> QED
      BY <1>2, <1>3, <3>1, <3>2, <3>3, IdleFits DEF vars
  <2> QED
    BY <1>7, <2>2, <2>3, Zenon DEF InitMenu
<1>8. CASE AutoMenu
  <2>1. AdjustMenuItemAuto("loop", ui.popup, FALSE) /\ UNCHANGED vars
    BY <1>8 DEF AutoMenu
  <2>2. ui' \in UiState /\ ui'.at = "loop" /\ switch' = switch
    BY <1>1, <2>1, AutoMarked DEF UiState
  <2> QED
    BY <1>1, <1>2, <2>1, <2>2, IdleFits DEF vars
<1> QED
  BY <1>4, <1>5, <1>6, <1>7, <1>8

LEMMA UserSteps ==
    ASSUME SInv, BusFacts', User \/ WatchTimeOut
    PROVE  SInv'
<1>1. ui \in UiState /\ switch \in SwitchState /\ switch.asked
  BY DEF SInv
<1>2. ASSUME NEW c \in Configs, Launch(c)
      PROVE  SInv'
  <2>1. /\ ui' = [at |-> "read", config |-> c, clicked |-> FALSE, inprogress |-> FALSE,
                  popup |-> FALSE, sensitive |-> TRUE, marks |-> {}, default |-> "unplug",
                  caller |-> "loop"]
        /\ UNCHANGED <<vars, switch>> /\ ui.at # "switch"
    BY <1>2 DEF Launch, Off
  <2>2. ui' \in UiState /\ ui'.at # "switch"
    BY <2>1 DEF UiState, Boot, Mode
  <2>3. call[Gui].op = "none" /\ switch.at = "over"
    BY <2>1, NothingCalled DEF SInv
  <2> QED
    BY <1>1, <2>1, <2>2, <2>3, IdleFits DEF vars
<1>3. CASE Exit
  <2>1. /\ ui' = [at |-> "off", config |-> ui.config, clicked |-> FALSE, inprogress |-> FALSE,
                  popup |-> FALSE, sensitive |-> TRUE, marks |-> {}, default |-> "unplug",
                  caller |-> "loop"]
        /\ UNCHANGED <<vars, switch>> /\ ui.at # "switch"
    BY <1>3 DEF Exit, Off
  <2>2. ui' \in UiState /\ ui'.at # "switch"
    BY <1>1, <2>1 DEF UiState, Mode
  <2>3. call[Gui].op = "none" /\ switch.at = "over"
    BY <2>1, NothingCalled DEF SInv
  <2> QED
    BY <1>1, <2>1, <2>2, <2>3, IdleFits DEF vars
<1>4. CASE Popup
  <2>1. /\ AdjustMenuItemAuto(ui.at, TRUE, TRUE) /\ UNCHANGED vars
        /\ Pumping /\ ~ui.inprogress
    BY <1>4 DEF Popup
  <2>2. ui.at \in {"loop", "bootPump"}
    BY <2>1 DEF Pumping, SInv, SwitchFlags
  <2>3. UiFits /\ UNCHANGED switch
    BY <1>1, <2>1, <2>2, AutoMarked DEF UiFits, SwitchFlags
  <2> QED
    BY <2>1, <2>3, WidgetFits
<1>5. CASE Dismiss \/ WatchTimeOut
  <2>1. UNCHANGED <<vars, switch>>
    BY <1>5 DEF Dismiss, WatchTimeOut
  <2>2. UiFits
    <3>1. CASE Dismiss
      <4>1. ui' = [ui EXCEPT !.popup = FALSE]
        BY <3>1 DEF Dismiss
      <4> QED
        BY <1>1, <4>1 DEF UiFits, UiState, SInv, SwitchFlags
    <3>2. CASE WatchTimeOut
      <4>1. Watch \in BOOLEAN
        BY DEF Watch, PowerIsOn, Admitted
      <4>2. ui' = [ui EXCEPT !.sensitive = Watch] /\ ui.at = "loop"
        BY <3>2 DEF WatchTimeOut
      <4> QED
        BY <1>1, <4>1, <4>2 DEF UiFits, UiState, SwitchFlags
    <3> QED
      BY <1>5, <3>1, <3>2
  <2> QED
    BY <2>1, <2>2, WidgetFits
<1>6. ASSUME NEW mode \in Mode, Click(mode)
      PROVE  SInv'
  <2> DEFINE now == [ui EXCEPT !.popup = FALSE, !.marks = Toggled(mode)]
  <2>1. UNCHANGED vars /\ Pumping
    BY <1>6 DEF Click
  <2>2. ui.at # "switch" \/ switch.at = "pump"
    BY <2>1 DEF Pumping
  <2>3. now \in UiState
    <3>1. Toggled(mode) \in SUBSET Mode
      BY <1>1 DEF Toggled, UiState
    <3> QED
      BY <1>1, <3>1 DEF UiState
  <2>4. CASE MayBegin(ui.clicked, ui.inprogress)
    <3>1. Begin(now, mode, ui.at, TRUE)
      BY <1>6, <2>4 DEF Click
    <3>2. ui.at \in {"loop", "bootPump"}
      BY <2>1, <2>4 DEF Pumping, MayBegin, SInv, SwitchFlags
    <3> QED
      BY <2>1, <2>2, <2>3, <3>1, <3>2, NothingCalled, BeginFits
  <2>5. CASE ~MayBegin(ui.clicked, ui.inprogress)
    <3>1. ui' = [now EXCEPT !.clicked = FALSE] /\ UNCHANGED switch
      BY <1>6, <2>5 DEF Click, Taken
    <3>2. UiFits
      BY <2>3, <3>1 DEF UiFits, UiState, SInv, SwitchFlags
    <3> QED
      BY <2>1, <3>1, <3>2, WidgetFits
  <2> QED
    BY <2>4, <2>5
<1> QED
  BY <1>2, <1>3, <1>4, <1>5, <1>6 DEF User

(* When the card moves during a switch, nothing is said of it any more.     *)
LEMMA HubSteps ==
    ASSUME SInv, BusFacts', HubStep
    PROVE  SInv'
<1>1. /\ call' = call /\ ui' = ui
      /\ switch' = [switch EXCEPT !.moved = switch.at # "over"]
  BY DEF HubStep, HubReturns, Attach, AttachDone, Detach, DetachDone, registry, Stay
<1>2. /\ switch' \in SwitchState /\ switch'.moved = (switch.at # "over")
      /\ switch'.at = switch.at /\ switch'.goal = switch.goal /\ switch'.state = switch.state
      /\ switch'.asked = switch.asked
  BY <1>1 DEF SInv, SwitchState
<1>3. FirstAdded' = FirstAdded
  BY <1>2 DEF FirstAdded
<1>4. CallFits'
  <2>1. call[Gui].op # "none" => switch.at # "over"
    BY DEF SInv, CallFits
  <2> QED
    BY <1>1, <1>2, <1>3, <2>1 DEF SInv, CallFits
<1>5. (~switch.moved => OnAt(switch.at, switch.goal, switch.state, RadiosOn))'
  BY <1>2 DEF OnAt
<1>6. GoalAt(switch.at, switch.goal)'
  BY <1>2 DEF SInv
<1> QED
  BY <1>1, <1>2, <1>4, <1>5, <1>6 DEF SInv, SwitchFlags

LEMMA SwitchInvariant == GuiSpec => []SInv
<1>1. GuiInit => SInv
  <2> SUFFICES ASSUME GuiInit
               PROVE  SInv
    OBVIOUS
  <2>1. BusFacts /\ call[Gui].op = "none"
    BY InitRegistry, GuiAssumption DEF GuiInit, Init, BusFacts, NoGps, Vacant, Serial, Idle
  <2>2. switch \in SwitchState /\ switch.at = "over" /\ switch.asked
    BY PollAssumption DEF GuiInit, Over, SwitchState, Mode
  <2>3. ui \in UiState /\ ui.at = "off"
    <3>1. PICK c \in Configs : ui = Off(c)
      BY DEF GuiInit
    <3> QED
      BY <3>1 DEF Off, UiState, Mode
  <2>4. CallFits /\ GoalAt(switch.at, switch.goal)
        /\ OnAt(switch.at, switch.goal, switch.state, RadiosOn)
    BY <2>1, <2>2 DEF CallFits, GoalAt, OnAt
  <2> QED
    BY <2>1, <2>2, <2>3, <2>4 DEF SInv, SwitchFlags
<1>2. SInv /\ [GuiNext]_guiVars => SInv'
  <2> SUFFICES ASSUME SInv, [GuiNext]_guiVars
               PROVE  SInv'
    OBVIOUS
  <2>1. BusFacts'
    BY NextBusFacts DEF SInv
  <2>2. CASE HubStep
    BY <2>1, <2>2, HubSteps
  <2>3. CASE Work
    BY <2>1, <2>3, LookSteps, RemoveSteps, AddSteps, BootSteps DEF Work
  <2>4. CASE User \/ WatchTimeOut
    BY <2>1, <2>4, UserSteps
  <2>5. CASE UNCHANGED guiVars
    <3>1. Stay /\ UNCHANGED <<vars, switch>>
      BY <2>5 DEF guiVars, Stay
    <3> QED
      BY <2>1, <3>1, Staying, WidgetFits
  <2> QED
    BY <2>2, <2>3, <2>4, <2>5 DEF GuiNext
<1> QED
  BY <1>1, <1>2, PTL DEF GuiSpec

(***************************************************************************)
(* The flags, the widgets and the switch of the program keep their types.  *)
(***************************************************************************)
THEOREM GuiTyped == GuiSpec => []GuiTypeOK
<1>1. SInv => GuiTypeOK
  BY DEF SInv, BusFacts, RInv, GuiTypeOK
<1> QED
  BY <1>1, SwitchInvariant, PTL

(***************************************************************************)
(* SwitchesAreAsked of WbGui: with any configurations and any movements of *)
(* the card, every switch was chosen by the user or is the one at the      *)
(* start.  The marks set and cleared on the way begin none, since in no    *)
(* behaviour is one set while a permission is left: a switch has used up   *)
(* its own and no menu is popped up during it (SwitchFlags), and outside   *)
(* of switches the permission is taken back first.                         *)
(***************************************************************************)
THEOREM OnlyAskedSwitches == GuiSpec => []SwitchesAreAsked
<1>1. SInv => SwitchesAreAsked
  BY DEF SInv, SwitchesAreAsked
<1> QED
  BY <1>1, SwitchInvariant, PTL

(***************************************************************************)
(* AnnouncedIsReal of WbGui: after any opens that failed and any polls     *)
(* that were given up, a switch announces the mode the card is in, or a    *)
(* coexist of which Bluetooth is missing, unless the card has moved.       *)
(***************************************************************************)
THEOREM AnnouncementsAreReal == GuiSpec => []AnnouncedIsReal
<1>1. SInv => AnnouncedIsReal
  BY DEF SInv, OnAt, RadiosOn, StartedFns, AnnouncedIsReal
<1> QED
  BY <1>1, SwitchInvariant, PTL
=============================================================================
