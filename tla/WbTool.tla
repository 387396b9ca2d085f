-------------------------------- MODULE WbTool --------------------------------
(***************************************************************************)
(* uwbtool (applications/uwbtool): the command that switches a card between *)
(* Bluetooth, WLAN, both and none.  Any number of its processes run over    *)
(* the bus module of TdspBus, each through a sequence of ioctls with sleeps *)
(* between them; every ioctl is a step of its own, so other processes and   *)
(* the USB core act in between.                                             *)
(*                                                                          *)
(* A process is a thread of TdspBus: Caller is the set of processes.  The   *)
(* query commands (-q, -v) take no lock; the others hold a POSIX lock on    *)
(* wbusb.conf from maincontrol until the process exits.                     *)
(***************************************************************************)
EXTENDS TdspBus

CONSTANTS
    NoProcess,     \* nobody holds the lock
    Goals,         \* command lines in use: "query", "remove", "bt", "wlan", "combo"
    AllowedModes,  \* ALLOWEDMODES of wbusb.conf, as goals
    ConfiguredHotkey,   \* HOTKEYFLAG of wbusb.conf
    HotPlug,       \* the card may come and go while a process runs
    Tries          \* rounds of the polls of unplugdevices (600 and 1200 in the code)

ASSUME ProcessAssumption == NoProcess \notin Caller
ASSUME GoalAssumption ==
    /\ Goals \subseteq {"query", "remove", "bt", "wlan", "combo"}
    /\ AllowedModes \subseteq {"bt", "wlan", "combo"}
ASSUME BoundAssumption ==
    /\ ConfiguredHotkey \in HotkeyValues
    /\ Tries \in Nat \ {0}
    /\ HotPlug \in BOOLEAN

VARIABLES
    prog,  \* each process: where it is, what for, g_state, iTimes, what it printed;
           \* history: an open() of its has failed
    lock   \* the process that has wbusb.conf locked

allVars == <<vars, prog, lock>>

Place == {"idle", "flag", "lock", "adjust", "unplug", "close1", "btPower", "btOff",
          "close2", "nonePower", "none", "add1", "check1", "wlanUp", "wlanPower",
          "add2", "check2", "report"}

Program == [at : Place, goal : Goals, state : SUBSET {"BT", "WLAN"},
            tries : 0..Tries, verdict : {"none", "success", "fail"}, failed : BOOLEAN]

Exited(g, verdict) ==
    [at |-> "idle", goal |-> g, state |-> {}, tries |-> 0, verdict |-> verdict,
     failed |-> FALSE]

ToolTypeOK ==
    /\ TypeOK
    /\ prog \in [Caller -> Program]
    /\ lock \in Caller \cup {NoProcess}

ToolInit ==
    /\ Init
    /\ prog \in [Caller -> {Exited(g, "none") : g \in Goals}]
    /\ lock = NoProcess

-----------------------------------------------------------------------------
(* The functions a command asks for, and the order in which it adds them.   *)
Wanted(goal) == CASE goal = "bt"    -> {"BT"}
                  [] goal = "wlan"  -> {"WLAN"}
                  [] goal = "combo" -> {"BT", "WLAN"}
                  [] OTHER          -> {}

FirstAddedBug(goal) == IF "BT" \in Wanted(goal) THEN "BT" ELSE "WLAN"
FirstAdded(goal) == IF "WLAN" \in Wanted(goal) THEN "WLAN" ELSE "BT"

(* tdsp_query_device: a refused ioctl reads as "no card".                   *)
Queried == IF Admitted THEN DisplayInUse ELSE NoCard

(* g_state, the functions the answer names.                                 *)
StateOf(answer) == CASE answer = 1 -> {"BT"}
                     [] answer = 2 -> {"WLAN"}
                     [] answer = 3 -> {"BT", "WLAN"}
                     [] OTHER      -> {}

(* tdsp_query_power_state, and tdsp_query_pnp_state(2) = Started.           *)
PowerIsOn == Admitted /\ power = "On"
WlanReported == Admitted /\ QueryDeviceState("WLAN") = 1

Asleep(p) == call[p] = Idle
Goto(p, place) == prog' = [prog EXCEPT ![p].at = place]
Poll(p, place) == prog' = [prog EXCEPT ![p].at = place, ![p].tries = 0]

Quiescent == hub = HubIdle /\ \A p \in Caller : prog[p].at = "idle"

-----------------------------------------------------------------------------
(* main: the card must be powered; every command sets the hotkey flag       *)
(* before it locks anything, the queries too.                               *)
Launch(p, goal) ==
    /\ prog[p].at = "idle"
    /\ HotPlug \/ hub = HubIdle
    /\ PowerIsOn
    /\ prog' = [prog EXCEPT ![p] = [Exited(goal, "none") EXCEPT !.at = "flag"]]
    /\ UNCHANGED <<vars, lock>>

SetFlag(p) ==
    /\ prog[p].at = "flag"
    /\ SetHotkeyFlag(p, ConfiguredHotkey)
    /\ IF prog[p].goal = "query"
       THEN prog' = [prog EXCEPT ![p] = Exited("query", "none")]
       ELSE Goto(p, "lock")
    /\ UNCHANGED lock

(* maincontrol: F_SETLK does not wait; a process that loses exits.          *)
LockIsFreeBug == TRUE
LockIsFree == lock = NoProcess

MainControl(p) ==
    /\ prog[p].at = "lock"
    /\ IF LockIsFree
       THEN /\ lock' = p
            /\ Goto(p, IF prog[p].goal \in AllowedModes \cup {"remove"}
                       THEN "adjust" ELSE "report")
       ELSE /\ prog' = [prog EXCEPT ![p] = Exited(prog[p].goal, "none")]
            /\ UNCHANGED lock
    /\ UNCHANGED vars

(* adjust_func_state, and the tests of on_*_activate on its result.         *)
AfterAdjust(goal, answer) ==
    IF answer = NoCard \/ StateOf(answer) = Wanted(goal) THEN "report"
    ELSE IF StateOf(answer) = {} THEN "add1" ELSE "unplug"

AdjustFuncState(p) ==
    /\ prog[p].at = "adjust"
    /\ prog' = [prog EXCEPT ![p].at = AfterAdjust(prog[p].goal, Queried),
                            ![p].state = StateOf(Queried)]
    /\ UNCHANGED <<vars, lock>>

-----------------------------------------------------------------------------
(* unplugdevices.  Which functions it removes was decided by                *)
(* adjust_func_state; here it only asks whether anything is left to do.     *)
(* The reset flag it polls is always 0 (busioctl.c:731), and what           *)
(* wait_device_unplug_stable sees after it is not used: both only take time.*)
AfterUnplugBug(goal) == "report"
AfterUnplug(goal) == IF goal = "remove" THEN "report" ELSE "add1"

UnplugDevices(p) ==
    /\ prog[p].at = "unplug"
    /\ Goto(p, CASE Queried = NoCard      -> "report"
                 [] Queried = NoneStarted -> AfterUnplug(prog[p].goal)
                 [] OTHER                 -> "close1")
    /\ UNCHANGED <<vars, lock>>

(* tdsp_remove_device of s, and then on to next: the ioctl is refused, or   *)
(* close() is called and the process sleeps in it.                          *)
Closes(s) == Admitted /\ ~Vacant(s) /\ block[slot[s]].devstate # "NotStarted"

Remove(p, s, next) ==
    \/ /\ Asleep(p)
       /\ ~Closes(s)
       /\ Poll(p, next)
       /\ UNCHANGED vars
    \/ /\ UnPlug(p, s)
       /\ UNCHANGED prog
    \/ /\ UnPlugDone(p)
       /\ Poll(p, next)

RemoveFirst(p) ==
    /\ prog[p].at = "close1"
    /\ IF "BT" \in prog[p].state
       THEN Remove(p, "BT", IF "WLAN" \in prog[p].state THEN "btPower" ELSE "nonePower")
       ELSE Remove(p, "WLAN", "nonePower")
    /\ UNCHANGED lock

RemoveSecond(p) ==
    /\ prog[p].at = "close2"
    /\ Remove(p, "WLAN", "nonePower")
    /\ UNCHANGED lock

(* The two loops: wait for BT's bit to go, then for every bit to go.        *)
PollPower(p) ==
    /\ prog[p].at \in {"btPower", "nonePower", "wlanPower"}
    /\ Goto(p, CASE ~PowerIsOn                 -> "report"
                 [] prog[p].at = "btPower"   -> "btOff"
                 [] prog[p].at = "nonePower" -> "none"
                 [] OTHER                    -> "wlanUp")
    /\ UNCHANGED <<vars, lock>>

Again(p, place) ==
    prog' = [prog EXCEPT ![p].at = place, ![p].tries = @ + 1]

GiveUp(p) == prog[p].tries + 1 >= Tries

BtIsOff(answer) == answer = NoneStarted \/ "BT" \notin StateOf(answer)

WaitBtOff(p) ==
    /\ prog[p].at = "btOff"
    /\ IF BtIsOff(Queried) \/ GiveUp(p)
       THEN Poll(p, "close2")
       ELSE Again(p, "btPower")
    /\ UNCHANGED <<vars, lock>>

WaitNone(p) ==
    /\ prog[p].at = "none"
    /\ IF Queried = NoneStarted \/ GiveUp(p)
       THEN prog' = [prog EXCEPT ![p].at = AfterUnplug(prog[p].goal),
                                 ![p].tries = 0, ![p].state = {}]
       ELSE Again(p, "nonePower")
    /\ UNCHANGED <<vars, lock>>

-----------------------------------------------------------------------------
(* tdsp_add_device of s, and then on to next.                               *)
Opens(s) == Admitted /\ MayOpen(s)

Add(p, s, next) ==
    \/ /\ Asleep(p)
       /\ ~Opens(s)
       /\ Goto(p, next)
       /\ UNCHANGED vars
    \/ /\ PlugIn(p, s)
       /\ UNCHANGED prog
    \/ \E ok \in BOOLEAN :
           /\ PlugInDone(p, ok)
           /\ prog' = [prog EXCEPT ![p].at = next, ![p].failed = @ \/ ~ok]

AddFirst(p) ==
    /\ prog[p].at = "add1"
    /\ Add(p, FirstAdded(prog[p].goal), "check1")
    /\ UNCHANGED lock

(* tdsp_is_download_dspcode_ok: something, whatever it is, is Started.      *)
DownloadOk == Queried \notin {NoCard, NoneStarted}

CheckFirst(p) ==
    /\ prog[p].at = "check1"
    /\ IF DownloadOk /\ prog[p].goal = "combo"
       THEN Goto(p, "wlanUp")
       ELSE prog' = [prog EXCEPT ![p].at = "report",
                                 ![p].state = IF DownloadOk THEN Wanted(prog[p].goal)
                                              ELSE StateOf(Queried)]
    /\ UNCHANGED <<vars, lock>>

(* The combo loop has no bound: it ends when WLAN is Started or the power   *)
(* is off.                                                                  *)
AfterWlanDownBug == "wlanUp"
AfterWlanDown == "wlanPower"

WaitWlanUp(p) ==
    /\ prog[p].at = "wlanUp"
    /\ Goto(p, IF WlanReported THEN "add2" ELSE AfterWlanDown)
    /\ UNCHANGED <<vars, lock>>

AddSecond(p) ==
    /\ prog[p].at = "add2"
    /\ Add(p, "BT", "check2")
    /\ UNCHANGED lock

CheckSecond(p) ==
    /\ prog[p].at = "check2"
    /\ prog' = [prog EXCEPT ![p].at = "report",
                            ![p].state = IF DownloadOk THEN {"BT", "WLAN"}
                                         ELSE StateOf(Queried)]
    /\ UNCHANGED <<vars, lock>>

(* main prints the verdict of a last tdsp_query_device and exits, which     *)
(* releases the lock.                                                       *)
Answer(goal) == CASE goal = "bt"    -> 1
                  [] goal = "wlan"  -> 2
                  [] goal = "combo" -> 3
                  [] OTHER          -> NoneStarted

Report(p) ==
    /\ prog[p].at = "report"
    /\ prog' = [prog EXCEPT
           ![p] = [Exited(@.goal, IF Queried = Answer(@.goal) THEN "success" ELSE "fail")
                   EXCEPT !.failed = prog[p].failed]]
    /\ lock' = IF lock = p THEN NoProcess ELSE lock
    /\ UNCHANGED vars

-----------------------------------------------------------------------------
Work(p) ==
    \/ SetFlag(p)
    \/ MainControl(p)
    \/ AdjustFuncState(p)
    \/ UnplugDevices(p)
    \/ RemoveFirst(p)
    \/ RemoveSecond(p)
    \/ PollPower(p)
    \/ WaitBtOff(p)
    \/ WaitNone(p)
    \/ AddFirst(p)
    \/ CheckFirst(p)
    \/ WaitWlanUp(p)
    \/ AddSecond(p)
    \/ CheckSecond(p)
    \/ Report(p)

(* The USB core.  Without HotPlug the card comes and goes only while no     *)
(* process runs.                                                            *)
HubReturns ==
    \/ \E ok \in BOOLEAN : AttachDone(ok)
    \/ DetachDone

HubStep ==
    /\ \/ \E s \in Serial, i \in Iface : (HotPlug \/ Quiescent) /\ Attach(s, i)
       \/ \E s \in Serial : (HotPlug \/ Quiescent) /\ Detach(s)
       \/ HubReturns
    /\ UNCHANGED <<prog, lock>>

ToolNext ==
    /\ Running
    /\ \/ HubStep
       \/ \E p \in Caller : Work(p) \/ \E g \in Goals : Launch(p, g)

(* Fairness: a process that is not asleep is scheduled and its sleeps end,  *)
(* and open() and close() return, since every wait in them has a timeout.   *)
ToolFairness ==
    /\ \A p \in Caller : WF_allVars(Running /\ Work(p))
    /\ WF_allVars(Running /\ HubReturns /\ UNCHANGED <<prog, lock>>)

ToolSpec == ToolInit /\ [][ToolNext]_allVars /\ ToolFairness

-----------------------------------------------------------------------------
(* Properties.                                                             *)

Holds(p) == prog[p].at \notin {"idle", "flag", "lock"}

(***************************************************************************)
(* While the card stays in (or comes and goes between commands only), any  *)
(* mixture of uwbtool commands, queries included, never makes two handlers *)
(* of a function overlap: the lock of main.c:61-102 is all the bus module  *)
(* has to protect it, and for these programs it is enough.                 *)
(***************************************************************************)
CommandsNeverOverlap == ~HotPlug => raced = {}

(***************************************************************************)
(* A command for one function opens it only when the other one is off      *)
(* (main.c:618-716 has removed it), and "combo" opens Bluetooth only while *)
(* WLAN is up (callbacks.c:356-375), although open() may fail at any point.*)
(***************************************************************************)
OpensInOrder ==
    ~HotPlug =>
        \A p \in Caller : Holds(p) /\ call[p].op = "plug" =>
            \A s \in {"BT", "WLAN"} \ {call[p].serial} :
                StartedFn(s) <=> (prog[p].goal = "combo" /\ s = "WLAN")

(***************************************************************************)
(* With a card that stays in and whose drivers are loaded, every switch    *)
(* that got the lock ends with the word success, from whatever state the   *)
(* card was left in, unless an open() of its own fails                     *)
(* (main.c:1579-1669).                                                     *)
(***************************************************************************)
SwitchSucceeds ==
    \A p \in Caller :
        (prog[p].at = "adjust" /\ \A s \in Wanted(prog[p].goal) : ~Vacant(s)) ~>
            (prog[p].at = "idle" /\ (prog[p].verdict = "success" \/ prog[p].failed))

(***************************************************************************)
(* Even if the card is pulled and driver opens fail, a command ends; the   *)
(* exceptions are a memory error in the bus module, a card that comes and  *)
(* goes for ever, and the combo loop (callbacks.c:356-375), which waits    *)
(* for WLAN as long as some function is registered.                        *)
(***************************************************************************)
WaitsForWlan(p) ==
    prog[p].at \in {"wlanUp", "wlanPower"} /\ Admitted /\ ~StartedFn("WLAN")

CommandsEnd ==
    \/ []<><<HubStep>>_allVars
    \/ \A p \in Caller :
           (prog[p].at # "idle") ~>
               (prog[p].at = "idle" \/ ~Running \/ []WaitsForWlan(p))
=============================================================================
