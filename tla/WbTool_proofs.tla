---------------------------- MODULE WbTool_proofs ----------------------------
(***************************************************************************)
(* Proof that uwbtool's commands never make two handlers of the bus        *)
(* overlap, however many of them run, while the card stays where it is.    *)
(* The bus module has no lock; this is the theorem it depends on.  Then,   *)
(* that the commands open the functions only in the order they intend.     *)
(***************************************************************************)
EXTENDS WbTool, TdspBus_proofs

(* A process that is past the lock has it, one that is in a callback is past *)
(* the lock, and the USB core moves only while every process is idle.        *)
CallPlace   == {"close1", "close2", "add1", "add2"}
LockHeld    == \A p \in Caller : Holds(p) => lock = p
CallsLocked == \A p \in Caller : InCallback(p) => prog[p].at \in CallPlace
HubAlone    == ~HotPlug /\ hub # HubIdle => \A p \in Caller : prog[p].at = "idle"
ProgTyped   == prog \in [Caller -> Program] /\ lock \in Caller \cup {NoProcess}

TInv ==
    /\ RInv
    /\ ProgTyped
    /\ LockHeld
    /\ CallsLocked
    /\ HubAlone
    /\ CommandsNeverOverlap

-----------------------------------------------------------------------------
(* A process goes to place a; the others stay where they are.               *)
Moved(p, a) ==
    /\ prog' \in [Caller -> Program]
    /\ prog'[p].at = a
    /\ \A q \in Caller \ {p} : prog'[q] = prog[q]

LEMMA Moving ==
    ASSUME ProgTyped, NEW p \in Caller, NEW a \in Place, NEW n \in 0..Tries,
           NEW S \in SUBSET {"BT", "WLAN"}, NEW f \in BOOLEAN
    PROVE  /\ prog' = [prog EXCEPT ![p].at = a] => Moved(p, a)
           /\ prog' = [prog EXCEPT ![p].at = a, ![p].tries = n] => Moved(p, a)
           /\ prog' = [prog EXCEPT ![p].at = a, ![p].state = S] => Moved(p, a)
           /\ prog' = [prog EXCEPT ![p].at = a, ![p].tries = n, ![p].state = S] => Moved(p, a)
           /\ prog' = [prog EXCEPT ![p].at = a, ![p].failed = f] => Moved(p, a)
<1>1. prog[p] \in Program
  BY DEF ProgTyped
<1>2. /\ [prog[p] EXCEPT !.at = a] \in Program
      /\ [prog[p] EXCEPT !.at = a, !.tries = n] \in Program
      /\ [prog[p] EXCEPT !.at = a, !.state = S] \in Program
      /\ [prog[p] EXCEPT !.at = a, !.tries = n, !.state = S] \in Program
      /\ [prog[p] EXCEPT !.at = a, !.failed = f] \in Program
  BY <1>1 DEF Program
<1>3. /\ [prog[p] EXCEPT !.at = a].at = a
      /\ [prog[p] EXCEPT !.at = a, !.tries = n].at = a
      /\ [prog[p] EXCEPT !.at = a, !.state = S].at = a
      /\ [prog[p] EXCEPT !.at = a, !.tries = n, !.state = S].at = a
      /\ [prog[p] EXCEPT !.at = a, !.failed = f].at = a
  BY <1>1 DEF Program
<1>4. ASSUME NEW r \in Program, r.at = a, prog' = [prog EXCEPT ![p] = r]
      PROVE  Moved(p, a)
  BY <1>4 DEF Moved, ProgTyped
<1> QED
  BY <1>2, <1>3, <1>4

LEMMA Leaving ==
    ASSUME ProgTyped, NEW p \in Caller, NEW g \in Goals, NEW v \in {"none", "success", "fail"},
           NEW f \in BOOLEAN
    PROVE  /\ Exited(g, v) \in Program
           /\ prog' = [prog EXCEPT ![p] = Exited(g, v)] => Moved(p, "idle")
           /\ prog' = [prog EXCEPT ![p] = [Exited(g, v) EXCEPT !.failed = f]] => Moved(p, "idle")
           /\ prog' = [prog EXCEPT ![p] = [Exited(g, v) EXCEPT !.at = "flag"]] => Moved(p, "flag")
<1>1. Exited(g, v) \in Program /\ Exited(g, v).at = "idle"
  BY BoundAssumption DEF Exited, Program, Place
<1> DEFINE e == Exited(g, v)
<1> HIDE DEF e
<1>2. /\ [e EXCEPT !.failed = f] \in Program /\ [e EXCEPT !.failed = f].at = "idle"
      /\ [e EXCEPT !.at = "flag"] \in Program /\ [e EXCEPT !.at = "flag"].at = "flag"
  <2>1. e \in Program /\ e.at = "idle"
    BY <1>1 DEF e
  <2> QED
    BY <2>1 DEF Program, Place
<1>3. ASSUME NEW a, NEW r \in Program, r.at = a, prog' = [prog EXCEPT ![p] = r]
      PROVE  Moved(p, a)
  BY <1>3 DEF Moved, ProgTyped
<1> QED
  BY <1>1, <1>2, <1>3 DEF e

-----------------------------------------------------------------------------
(* The steps of a process as the invariant sees them.                      *)

(* The process moves on and leaves the bus alone.                           *)
LEMMA MoveKeeps ==
    ASSUME TInv, NEW p \in Caller, NEW a \in Place, Moved(p, a), UNCHANGED vars,
           lock' \in Caller \cup {NoProcess},
           ~InCallback(p),
           ~HotPlug => hub = HubIdle \/ a = "idle",
           \A q \in Caller \ {p} : Holds(q) => lock' = lock,
           a \in {"idle", "flag", "lock"} \/ lock' = p
    PROVE  TInv'
<1>1. RInv'
  BY NextRegistry DEF TInv
<1>2. ProgTyped'
  BY DEF Moved, ProgTyped
<1>3. LockHeld'
  BY DEF TInv, LockHeld, Holds, Moved
<1>4. CallsLocked'
  BY DEF TInv, CallsLocked, InCallback, Moved, vars
<1>5. HubAlone'
  BY DEF TInv, HubAlone, Moved, vars
<1>6. CommandsNeverOverlap'
  BY DEF TInv, CommandsNeverOverlap, vars, history
<1> QED
  BY <1>1, <1>2, <1>3, <1>4, <1>5, <1>6 DEF TInv

(* The process makes a call, or a call of its returns.                      *)
LEMMA CallKeeps ==
    ASSUME TInv, NEW p \in Caller, NEW a \in Place, Moved(p, a), Running, CallerNext(p),
           lock' = lock,
           \A q \in Caller \ {p} : call'[q] = call[q],
           InCallback(p)' => a \in CallPlace,
           prog[p].at # "idle",
           a \in {"idle", "flag", "lock"} \/ Holds(p),
           ~HotPlug => raced' = raced
    PROVE  TInv'
<1>1. RInv'
  BY NextRegistry DEF TInv, Next
<1>2. hub' = hub
  BY CallerFrame DEF TInv
<1>3. ProgTyped'
  BY DEF Moved, TInv, ProgTyped
<1>4. LockHeld'
  BY DEF TInv, LockHeld, Holds, Moved
<1>5. CallsLocked'
  BY DEF TInv, CallsLocked, InCallback, Moved
<1>6. HubAlone'
  BY <1>2 DEF TInv, HubAlone
<1>7. CommandsNeverOverlap'
  BY DEF TInv, CommandsNeverOverlap
<1> QED
  BY <1>1, <1>3, <1>4, <1>5, <1>6, <1>7 DEF TInv

(* The process that has the lock finds no handler inside.                   *)
LEMMA NobodyInside ==
    ASSUME TInv, NEW p \in Caller, Holds(p), call[p] = Idle, ~HotPlug, NEW s \in Serial
    PROVE  ~Busy(s)
<1>1. hub = HubIdle
  BY DEF TInv, HubAlone, Holds
<1>2. ASSUME NEW q \in Caller, InCallback(q)
      PROVE  q = p
  BY <1>2 DEF TInv, CallsLocked, LockHeld, Holds, CallPlace
<1>3. ~InCallback(p)
  BY DEF InCallback, Idle
<1> QED
  BY <1>1, <1>2, <1>3 DEF Busy, BusyHub, BusyCaller, HubIdle

LEMMA PlugInKeeps ==
    ASSUME TInv, Running, NEW p \in Caller, NEW s \in Serial, PlugIn(p, s),
           prog[p].at \in CallPlace, UNCHANGED <<prog, lock>>
    PROVE  TInv'
<1>1. Holds(p) /\ call[p] = Idle
  BY DEF Holds, CallPlace, PlugIn
<1>2. ~HotPlug => raced' = raced
  BY <1>1, NobodyInside DEF PlugIn, Enter
<1>3. Moved(p, prog[p].at) /\ prog[p].at \in Place
  BY DEF Moved, TInv, ProgTyped, CallPlace, Place
<1>4. \A q \in Caller \ {p} : call'[q] = call[q]
  BY DEF PlugIn, TInv, RInv, TypeOK
<1> QED
  BY <1>1, <1>2, <1>3, <1>4, CallKeeps DEF CallerNext, Holds

LEMMA UnPlugKeeps ==
    ASSUME TInv, Running, NEW p \in Caller, NEW s \in Serial, UnPlug(p, s),
           prog[p].at \in CallPlace, UNCHANGED <<prog, lock>>
    PROVE  TInv'
<1>1. Holds(p) /\ call[p] = Idle
  BY DEF Holds, CallPlace, UnPlug
<1>2. ~HotPlug => raced' = raced
  BY <1>1, NobodyInside DEF UnPlug, BeginClose, Enter
<1>3. Moved(p, prog[p].at) /\ prog[p].at \in Place
  BY DEF Moved, TInv, ProgTyped, CallPlace, Place
<1>4. \A q \in Caller \ {p} : call'[q] = call[q]
  BY DEF UnPlug, BeginClose, TInv, RInv, TypeOK
<1> QED
  BY <1>1, <1>2, <1>3, <1>4, CallKeeps DEF CallerNext, Holds

LEMMA DoneKeeps ==
    ASSUME TInv, Running, NEW p \in Caller, NEW a \in Place,
           UnPlugDone(p) \/ \E ok \in BOOLEAN : PlugInDone(p, ok),
           Moved(p, a), lock' = lock
    PROVE  TInv'
<1>1. InCallback(p)
  BY DEF UnPlugDone, PlugInDone, InCallback
<1>2. prog[p].at \in CallPlace /\ Holds(p)
  BY <1>1 DEF TInv, CallsLocked, CallPlace, Holds
<1>3. raced' = raced
  BY DEF UnPlugDone, PlugInDone
<1>4. \A q \in Caller \ {p} : call'[q] = call[q]
  BY DEF UnPlugDone, PlugInDone, TInv, RInv, TypeOK
<1>5. ~InCallback(p)'
  <2>1. Idle.op \notin {"plug", "unplug"} /\ AfterSlot(call[p].next).op \notin {"plug", "unplug"}
    BY DEF Idle, AfterSlot, Scanning
  <2>2. call'[p] \in {Idle, AfterSlot(call[p].next)}
    BY DEF UnPlugDone, PlugInDone, TInv, RInv, TypeOK
  <2> QED
    BY <2>1, <2>2 DEF InCallback
<1>6. CallerNext(p)
  BY DEF CallerNext
<1> QED
  BY <1>2, <1>3, <1>4, <1>5, <1>6, CallKeeps DEF Holds

(* A process that has the lock goes from one place to the next.             *)
LEMMA GoesOn ==
    ASSUME TInv, NEW p \in Caller, NEW a \in Place, Moved(p, a), UNCHANGED <<vars, lock>>,
           Holds(p), prog[p].at \in CallPlace => call[p] = Idle
    PROVE  TInv'
<1>1. ~InCallback(p)
  BY DEF TInv, CallsLocked, InCallback, Idle
<1>2. ~HotPlug => hub = HubIdle
  BY DEF TInv, HubAlone, Holds
<1>3. lock' = p /\ lock' \in Caller \cup {NoProcess}
  BY DEF TInv, LockHeld
<1> QED
  BY <1>1, <1>2, <1>3, MoveKeeps

LEMMA RemoveKeeps ==
    ASSUME TInv, Running, NEW p \in Caller, NEW s \in Serial, NEW next \in Place,
           Remove(p, s, next), prog[p].at \in CallPlace, lock' = lock
    PROVE  TInv'
<1>1. 0 \in 0..Tries /\ ProgTyped
  BY BoundAssumption DEF TInv
<1>2. Poll(p, next) => Moved(p, next)
  BY <1>1, Moving DEF Poll
<1>3. CASE Asleep(p) /\ Poll(p, next) /\ UNCHANGED vars
  BY <1>2, <1>3, GoesOn DEF Asleep, Holds, CallPlace
<1>4. CASE UnPlug(p, s) /\ UNCHANGED prog
  BY <1>4, UnPlugKeeps
<1>5. CASE UnPlugDone(p) /\ Poll(p, next)
  BY <1>2, <1>5, DoneKeeps
<1> QED
  BY <1>3, <1>4, <1>5 DEF Remove

LEMMA AddKeeps ==
    ASSUME TInv, Running, NEW p \in Caller, NEW s \in Serial, NEW next \in Place,
           Add(p, s, next), prog[p].at \in CallPlace, lock' = lock
    PROVE  TInv'
<1>1. ProgTyped /\ prog[p].failed \in BOOLEAN /\ 0 \in 0..Tries
  BY BoundAssumption DEF TInv, ProgTyped, Program
<1>2. CASE Asleep(p) /\ Goto(p, next) /\ UNCHANGED vars
  <2>1. Moved(p, next)
    BY <1>1, <1>2, Moving DEF Goto
  <2> QED
    BY <1>2, <2>1, GoesOn DEF Asleep, Holds, CallPlace
<1>3. CASE PlugIn(p, s) /\ UNCHANGED prog
  BY <1>3, PlugInKeeps
<1>4. ASSUME NEW ok \in BOOLEAN, PlugInDone(p, ok),
             prog' = [prog EXCEPT ![p].at = next, ![p].failed = @ \/ ~ok]
      PROVE  TInv'
  <2>1. prog' = [prog EXCEPT ![p].at = next, ![p].failed = prog[p].failed \/ ~ok]
    BY <1>1, <1>4 DEF ProgTyped, Program
  <2>2. (prog[p].failed \/ ~ok) \in BOOLEAN
    OBVIOUS
  <2>3. Moved(p, next)
    BY <1>1, <2>1, <2>2, Moving
  <2> QED
    BY <1>4, <2>3, DoneKeeps
<1> QED
  BY <1>2, <1>3, <1>4 DEF Add

-----------------------------------------------------------------------------
(* What the answers of the bus are made of.                                *)
LEMMA Answers ==
    /\ \A g \in Goals : Wanted(g) \in SUBSET {"BT", "WLAN"}
    /\ \A x : StateOf(x) \in SUBSET {"BT", "WLAN"}
    /\ \A g \in Goals : FirstAdded(g) \in Serial
    /\ \A g \in Goals : \A x : AfterAdjust(g, x) \in {"report", "add1", "unplug"}
    /\ \A g \in Goals : AfterUnplug(g) \in {"report", "add1"}
BY DEF Wanted, StateOf, FirstAdded, Serial, AfterAdjust, AfterUnplug

LEMMA LockSteps ==
    ASSUME TInv, NEW p \in Caller, MainControl(p) \/ Report(p)
    PROVE  TInv'
<1>1. ProgTyped /\ 0 \in 0..Tries /\ prog[p].goal \in Goals /\ prog[p].failed \in BOOLEAN
  BY BoundAssumption DEF TInv, ProgTyped, Program
<1>2. ~InCallback(p) /\ (~HotPlug => hub = HubIdle)
  BY DEF TInv, CallsLocked, CallPlace, HubAlone, MainControl, Report
<1>3. CASE MainControl(p) /\ LockIsFree
  <2>1. PICK a \in {"adjust", "report"} : Goto(p, a)
    BY <1>3 DEF MainControl
  <2>2. Moved(p, a) /\ a \in Place
    BY <1>1, <2>1, Moving DEF Goto, Place
  <2>3. lock' = p /\ UNCHANGED vars /\ lock = NoProcess
    BY <1>3 DEF MainControl, LockIsFree
  <2>4. \A q \in Caller : ~Holds(q)
    BY <2>3, ProcessAssumption DEF TInv, LockHeld
  <2> QED
    BY <1>2, <2>2, <2>3, <2>4, MoveKeeps
<1>4. CASE MainControl(p) /\ ~LockIsFree
  <2>1. Moved(p, "idle")
    BY <1>1, <1>4, Leaving DEF MainControl
  <2>2. UNCHANGED <<vars, lock>> /\ "idle" \in Place
    BY <1>4 DEF MainControl, Place
  <2> QED
    BY <1>1, <1>2, <2>1, <2>2, MoveKeeps DEF ProgTyped
<1>5. CASE Report(p)
  <2>1. Moved(p, "idle")
    <3>1. PICK v \in {"success", "fail"} :
              prog' = [prog EXCEPT ![p] = [Exited(prog[p].goal, v) EXCEPT !.failed = prog[p].failed]]
      BY <1>5 DEF Report
    <3> QED
      BY <1>1, <3>1, Leaving
  <2>2. UNCHANGED vars /\ lock = p /\ lock' = NoProcess /\ "idle" \in Place
    BY <1>5 DEF Report, TInv, LockHeld, Holds, Place
  <2>3. \A q \in Caller \ {p} : ~Holds(q)
    BY <2>2 DEF TInv, LockHeld
  <2> QED
    BY <1>2, <2>1, <2>2, <2>3, MoveKeeps
<1> QED
  BY <1>3, <1>4, <1>5

LEMMA StartSteps ==
    ASSUME TInv, Running, NEW p \in Caller, SetFlag(p) \/ \E g \in Goals : Launch(p, g)
    PROVE  TInv'
<1>1. ProgTyped /\ 0 \in 0..Tries /\ prog[p].goal \in Goals /\ lock \in Caller \cup {NoProcess}
  BY BoundAssumption DEF TInv, ProgTyped, Program
<1>2. ~InCallback(p)
  BY DEF TInv, CallsLocked, CallPlace, SetFlag, Launch
<1>3. ASSUME NEW g \in Goals, Launch(p, g)
      PROVE  TInv'
  <2>1. Moved(p, "flag") /\ "flag" \in Place
    BY <1>1, <1>3, Leaving DEF Launch, Place
  <2>2. UNCHANGED <<vars, lock>> /\ (~HotPlug => hub = HubIdle)
    BY <1>3 DEF Launch
  <2> QED
    BY <1>1, <1>2, <2>1, <2>2, MoveKeeps
<1>4. CASE SetFlag(p)
  <2>1. PICK a \in {"idle", "lock"} : Moved(p, a)
    <3>1. CASE prog[p].goal = "query"
      BY <1>1, <1>4, <3>1, Leaving DEF SetFlag
    <3>2. CASE prog[p].goal # "query"
      <4>1. Goto(p, "lock") /\ "lock" \in Place
        BY <1>4, <3>2 DEF SetFlag, Place
      <4> QED
        BY <1>1, <4>1, Moving DEF Goto
    <3> QED
      BY <3>1, <3>2
  <2>2. /\ SetHotkeyFlag(p, ConfiguredHotkey) /\ ConfiguredHotkey \in HotkeyValues
        /\ lock' = lock /\ prog[p].at # "idle" /\ a \in Place
    BY <1>4, BoundAssumption DEF SetFlag, Place
  <2>3. call' = call /\ raced' = raced
    BY <2>2 DEF SetHotkeyFlag
  <2>4. ~InCallback(p)'
    BY <1>2, <2>3 DEF InCallback
  <2>5. CallerNext(p)
    BY <2>2 DEF CallerNext
  <2> QED
    BY <2>1, <2>2, <2>3, <2>4, <2>5, CallKeeps
<1> QED
  BY <1>3, <1>4

(* The steps that only look at the bus.                                     *)
LEMMA LookSteps ==
    ASSUME TInv, NEW p \in Caller,
           \/ AdjustFuncState(p) \/ UnplugDevices(p) \/ PollPower(p) \/ WaitBtOff(p)
           \/ WaitNone(p) \/ CheckFirst(p) \/ WaitWlanUp(p) \/ CheckSecond(p)
    PROVE  TInv'
<1>1. ProgTyped /\ 0 \in 0..Tries /\ prog[p].goal \in Goals /\ prog[p].tries \in 0..Tries
  BY BoundAssumption DEF TInv, ProgTyped, Program
<1>2. Holds(p) /\ prog[p].at \notin CallPlace /\ UNCHANGED <<vars, lock>>
  BY DEF AdjustFuncState, UnplugDevices, PollPower, WaitBtOff, WaitNone, CheckFirst, WaitWlanUp,
         CheckSecond, Holds, CallPlace
<1>3. ASSUME NEW a \in Place, NEW n \in 0..Tries, NEW S \in SUBSET {"BT", "WLAN"},
             \/ prog' = [prog EXCEPT ![p].at = a]
             \/ prog' = [prog EXCEPT ![p].at = a, ![p].tries = n]
             \/ prog' = [prog EXCEPT ![p].at = a, ![p].state = S]
             \/ prog' = [prog EXCEPT ![p].at = a, ![p].tries = n, ![p].state = S]
      PROVE  TInv'
  <2>1. CASE prog' = [prog EXCEPT ![p].at = a]
    BY <1>1, <1>2, <2>1, Moving, GoesOn
  <2>2. CASE prog' = [prog EXCEPT ![p].at = a, ![p].tries = n]
    BY <1>1, <1>2, <2>2, Moving, GoesOn
  <2>3. CASE prog' = [prog EXCEPT ![p].at = a, ![p].state = S]
    BY <1>1, <1>2, <2>3, Moving, GoesOn
  <2>4. CASE prog' = [prog EXCEPT ![p].at = a, ![p].tries = n, ![p].state = S]
    BY <1>1, <1>2, <2>4, Moving, GoesOn
  <2> QED
    BY <1>3, <2>1, <2>2, <2>3, <2>4, Zenon
<1>4. ASSUME NEW a \in Place, Goto(p, a) \/ Poll(p, a)
      PROVE  TInv'
  BY <1>1, <1>3, <1>4 DEF Goto, Poll
<1>5. ASSUME NEW a \in Place, Again(p, a), ~GiveUp(p)
      PROVE  TInv'
  <2>1. prog[p].tries + 1 \in 0..Tries
    BY <1>1, <1>5, BoundAssumption DEF GiveUp
  <2>2. prog' = [prog EXCEPT ![p].at = a, ![p].tries = prog[p].tries + 1]
    BY <1>1, <1>5 DEF Again, ProgTyped, Program
  <2> QED
    BY <1>3, <2>1, <2>2
<1>6. CASE AdjustFuncState(p)
  <2>1. /\ AfterAdjust(prog[p].goal, Queried) \in Place
        /\ StateOf(Queried) \in SUBSET {"BT", "WLAN"}
    BY <1>1, Answers DEF Place
  <2> QED
    BY <1>1, <1>3, <1>6, <2>1 DEF AdjustFuncState
<1>7. CASE UnplugDevices(p)
  <2>1. {"report", AfterUnplug(prog[p].goal), "close1"} \subseteq Place
    BY <1>1, Answers DEF Place
  <2>2. \/ Goto(p, "report")
        \/ Goto(p, AfterUnplug(prog[p].goal))
        \/ Goto(p, "close1")
    BY <1>7, Zenon DEF UnplugDevices
  <2> QED
    BY <1>4, <2>1, <2>2
<1>8. CASE PollPower(p)
  <2>1. \E a \in Place : Goto(p, a)
    BY <1>8 DEF PollPower, Place
  <2> QED
    BY <1>4, <2>1
<1>9. CASE WaitBtOff(p)
  <2>1. "close2" \in Place /\ "btPower" \in Place
    BY DEF Place
  <2> QED
    BY <1>4, <1>5, <1>9, <2>1 DEF WaitBtOff
<1>10. CASE WaitNone(p)
  <2>1. AfterUnplug(prog[p].goal) \in Place /\ "nonePower" \in Place
    BY <1>1, Answers DEF Place
  <2> QED
    <3>1. CASE Again(p, "nonePower") /\ ~GiveUp(p)
      BY <1>5, <2>1, <3>1
    <3>2. CASE prog' = [prog EXCEPT ![p].at = AfterUnplug(prog[p].goal),
                                    ![p].tries = 0, ![p].state = {}]
      <4>1. {} \in SUBSET {"BT", "WLAN"}
        OBVIOUS
      <4> QED
        BY <1>1, <1>3, <2>1, <3>2, <4>1, Zenon
    <3> QED
      BY <1>10, <3>1, <3>2 DEF WaitNone
<1>11. CASE CheckFirst(p)
  <2>1. /\ "wlanUp" \in Place /\ "report" \in Place
        /\ Wanted(prog[p].goal) \in SUBSET {"BT", "WLAN"}
        /\ StateOf(Queried) \in SUBSET {"BT", "WLAN"}
    BY <1>1, Answers DEF Place
  <2>2. CASE DownloadOk /\ prog[p].goal = "combo"
    <3>1. Goto(p, "wlanUp")
      BY <1>11, <2>2 DEF CheckFirst
    <3> QED
      BY <1>4, <2>1, <3>1
  <2>3. CASE ~(DownloadOk /\ prog[p].goal = "combo")
    <3>1. \E S \in SUBSET {"BT", "WLAN"} :
              prog' = [prog EXCEPT ![p].at = "report", ![p].state = S]
      BY <1>11, <2>1, <2>3, Zenon DEF CheckFirst
    <3> QED
      BY <1>1, <1>3, <2>1, <3>1
  <2> QED
    BY <2>2, <2>3
<1>12. CASE WaitWlanUp(p)
  <2>1. \E a \in Place : Goto(p, a)
    BY <1>12 DEF WaitWlanUp, AfterWlanDown, Place
  <2> QED
    BY <1>4, <2>1
<1>13. CASE CheckSecond(p)
  <2>1. "report" \in Place /\ StateOf(Queried) \in SUBSET {"BT", "WLAN"}
    BY Answers DEF Place
  <2>2. \E S \in SUBSET {"BT", "WLAN"} :
            prog' = [prog EXCEPT ![p].at = "report", ![p].state = S]
    BY <1>13, <2>1 DEF CheckSecond
  <2> QED
    BY <1>1, <1>3, <2>1, <2>2
<1> QED
  BY <1>6, <1>7, <1>8, <1>9, <1>10, <1>11, <1>12, <1>13

LEMMA WorkKeeps ==
    ASSUME TInv, Running, NEW p \in Caller, Work(p)
    PROVE  TInv'
<1>1. prog[p].goal \in Goals
  BY DEF TInv, ProgTyped, Program
<1>2. ASSUME RemoveFirst(p)
      PROVE  TInv'
  <2>1. {"btPower", "nonePower"} \subseteq Place /\ {"BT", "WLAN"} \subseteq Serial
    BY DEF Place, Serial
  <2>2. prog[p].at \in CallPlace /\ lock' = lock
    BY <1>2 DEF RemoveFirst, CallPlace
  <2>3. \/ Remove(p, "BT", "btPower")
        \/ Remove(p, "BT", "nonePower")
        \/ Remove(p, "WLAN", "nonePower")
    BY <1>2, Zenon DEF RemoveFirst
  <2> QED
    BY <2>1, <2>2, <2>3, RemoveKeeps
<1>3. ASSUME RemoveSecond(p)
      PROVE  TInv'
  <2>1. "nonePower" \in Place /\ "WLAN" \in Serial
    BY DEF Place, Serial
  <2>2. prog[p].at \in CallPlace /\ lock' = lock /\ Remove(p, "WLAN", "nonePower")
    BY <1>3 DEF RemoveSecond, CallPlace
  <2> QED
    BY <2>1, <2>2, RemoveKeeps
<1>4. ASSUME AddFirst(p)
      PROVE  TInv'
  <2>1. "check1" \in Place /\ FirstAdded(prog[p].goal) \in Serial
    BY <1>1, Answers DEF Place
  <2>2. /\ prog[p].at \in CallPlace /\ lock' = lock
        /\ Add(p, FirstAdded(prog[p].goal), "check1")
    BY <1>4 DEF AddFirst, CallPlace
  <2> QED
    BY <2>1, <2>2, AddKeeps
<1>5. ASSUME AddSecond(p)
      PROVE  TInv'
  <2>1. "check2" \in Place /\ "BT" \in Serial
    BY DEF Place, Serial
  <2>2. prog[p].at \in CallPlace /\ lock' = lock /\ Add(p, "BT", "check2")
    BY <1>5 DEF AddSecond, CallPlace
  <2> QED
    BY <2>1, <2>2, AddKeeps
<1> QED
  BY <1>2, <1>3, <1>4, <1>5, LockSteps, StartSteps, LookSteps DEF Work

(* The USB core moves while nobody works, or somebody may: HotPlug.         *)
LEMMA HubKeeps ==
    ASSUME TInv, Running, HubStep
    PROVE  TInv'
<1>1. /\ HubNext /\ UNCHANGED <<prog, lock>> /\ call' = call
  BY DEF HubStep, HubReturns, HubNext, Attach, AttachDone, Detach, DetachDone, registry
<1>2. RInv'
  BY <1>1, NextRegistry DEF TInv, Next
<1>3. ProgTyped' /\ LockHeld' /\ CallsLocked'
  BY <1>1 DEF TInv, ProgTyped, LockHeld, Holds, CallsLocked, InCallback
<1>4. ASSUME ~HotPlug
      PROVE  /\ hub' # HubIdle => \A p \in Caller : prog[p].at = "idle"
             /\ raced' = raced
  <2>1. CASE HubReturns
    BY <2>1 DEF HubReturns, AttachDone, DetachDone, history
  <2>2. CASE Quiescent
    <3>1. \A s \in Serial : ~Busy(s)
      BY <2>2 DEF Quiescent, TInv, CallsLocked, CallPlace, Busy, BusyHub, BusyCaller, HubIdle
    <3>2. raced' = raced
      BY <1>1, <3>1 DEF HubNext, Attach, AttachDone, Detach, DetachDone, Enter, history
    <3> QED
      BY <2>2, <3>2 DEF Quiescent
  <2> QED
    BY <1>4, <2>1, <2>2 DEF HubStep
<1>5. HubAlone' /\ CommandsNeverOverlap'
  BY <1>1, <1>4 DEF TInv, HubAlone, CommandsNeverOverlap
<1> QED
  BY <1>2, <1>3, <1>5 DEF TInv

LEMMA InitTool == ToolInit => TInv
<1> SUFFICES ASSUME ToolInit
             PROVE  TInv
  OBVIOUS
<1>1. RInv /\ raced = {} /\ \A p \in Caller : ~InCallback(p)
  BY InitRegistry DEF ToolInit, Init, InCallback, Idle
<1>2. /\ \A g \in Goals : Exited(g, "none") \in Program /\ Exited(g, "none").at = "idle"
      /\ lock = NoProcess
  BY BoundAssumption DEF Exited, Program, Place, ToolInit
<1>3. \A p \in Caller : prog[p].at = "idle"
  BY <1>2 DEF ToolInit
<1>4. ProgTyped
  BY <1>2 DEF ToolInit, ProgTyped
<1> QED
  BY <1>1, <1>3, <1>4
     DEF TInv, LockHeld, Holds, CallsLocked, HubAlone, CommandsNeverOverlap

LEMMA NextTool == TInv /\ [ToolNext]_allVars => TInv'
<1> SUFFICES ASSUME TInv, [ToolNext]_allVars
             PROVE  TInv'
  OBVIOUS
<1>1. CASE ToolNext
  BY <1>1, HubKeeps, WorkKeeps, StartSteps DEF ToolNext
<1>2. CASE UNCHANGED allVars
  <2>1. RInv'
    BY <1>2, NextRegistry DEF allVars, TInv
  <2> QED
    BY <1>2, <2>1 DEF allVars, vars, history, TInv, ProgTyped, LockHeld, Holds, CallsLocked,
                      InCallback, HubAlone, CommandsNeverOverlap
<1> QED
  BY <1>1, <1>2

LEMMA ToolInvariant == ToolSpec => []TInv
BY InitTool, NextTool, PTL DEF ToolSpec

(***************************************************************************)
(* The places, states and counts of every process, and the lock, keep      *)
(* their types, and so does the bus under them.                            *)
(***************************************************************************)
THEOREM ToolTyped == ToolSpec => []ToolTypeOK
<1>1. TInv => ToolTypeOK
  BY DEF TInv, RInv, ProgTyped, ToolTypeOK
<1> QED
  BY <1>1, ToolInvariant, PTL

(***************************************************************************)
(* However many commands run, the lock of main.c:61-102 keeps the handlers *)
(* of the bus apart while the card stays in.                               *)
(***************************************************************************)
THEOREM LockSuffices == ToolSpec => []CommandsNeverOverlap
<1>1. TInv => CommandsNeverOverlap
  BY DEF TInv
<1> QED
  BY <1>1, ToolInvariant, PTL

-----------------------------------------------------------------------------
(* The commands are users of the bus like any other: what is proved of the  *)
(* bus holds under them.                                                    *)

LEMMA ToolStepsAreBusSteps == [ToolNext]_allVars => [Next]_vars
<1> SUFFICES ASSUME ToolNext
             PROVE  [Next]_vars
  BY DEF allVars
<1>1. CASE HubStep
  BY <1>1 DEF HubStep, HubReturns, HubNext, Next, ToolNext
<1>2. ASSUME NEW p \in Caller, Work(p)
      PROVE  [Next]_vars
  <2>1. ASSUME NEW s, NEW next, Remove(p, s, next), s \in Serial
        PROVE  CallerNext(p) \/ UNCHANGED vars
    BY <2>1 DEF Remove, CallerNext
  <2>2. ASSUME NEW s, NEW next, Add(p, s, next), s \in Serial
        PROVE  CallerNext(p) \/ UNCHANGED vars
    BY <2>2 DEF Add, CallerNext
  <2>3. ASSUME SetFlag(p)
        PROVE  CallerNext(p)
    BY <2>3, BoundAssumption DEF SetFlag, CallerNext
  <2>4. ASSUME RemoveFirst(p) \/ RemoveSecond(p) \/ AddFirst(p) \/ AddSecond(p)
        PROVE  CallerNext(p) \/ UNCHANGED vars
    BY <2>1, <2>2, <2>4 DEF RemoveFirst, RemoveSecond, AddFirst, AddSecond, FirstAdded, Serial
  <2>5. CallerNext(p) \/ UNCHANGED vars
    BY <1>2, <2>3, <2>4
       DEF Work, MainControl, AdjustFuncState, UnplugDevices, PollPower, WaitBtOff, WaitNone,
           CheckFirst, WaitWlanUp, CheckSecond, Report
  <2> QED
    BY <2>5 DEF Next, ToolNext
<1>3. ASSUME NEW p \in Caller, NEW g \in Goals, Launch(p, g)
      PROVE  [Next]_vars
  BY <1>3 DEF Launch
<1> QED
  BY <1>1, <1>2, <1>3 DEF ToolNext

(***************************************************************************)
(* Whatever commands run, the bus sees only steps of its own specification *)
(* (main.c makes ioctls only), so that every theorem of the bus holds.     *)
(***************************************************************************)
THEOREM ToolUsesBus == ToolSpec => Spec
<1>1. ToolInit => Init
  BY DEF ToolInit
<1> QED
  BY <1>1, ToolStepsAreBusSteps, PTL DEF ToolSpec, Spec

-----------------------------------------------------------------------------
(* Which functions are Started at each place of the process that has the    *)
(* lock, while the card stays in.                                           *)
FirstRemoved(state) == IF "BT" \in state THEN "BT" ELSE "WLAN"

OnAt(a, goal, state, on) ==
    /\ a \in {"unplug", "close1"} => state = on /\ on # {}
    /\ a \in {"btPower", "btOff", "close2"} => on = {"WLAN"}
    /\ a \in {"nonePower", "none", "add1"} => on = {}
    /\ a = "check1" => on \subseteq {FirstAdded(goal)}
    /\ a \in {"wlanUp", "wlanPower"} => on \subseteq {"WLAN"}
    /\ a = "add2" => on = {"WLAN"}

GoalAt(a, goal) ==
    /\ a \notin {"idle", "flag"} => goal # "query"
    /\ a = "add1" => Wanted(goal) # {}
    /\ a \in {"wlanUp", "wlanPower", "add2"} => goal = "combo"

(* A process in a callback opens or closes what its place is for.           *)
CallFits(p) ==
    /\ call[p].op \in {"none", "plug", "unplug"}
    /\ call[p].op = "plug" =>
           \/ prog[p].at = "add1" /\ call[p].serial = FirstAdded(prog[p].goal)
           \/ prog[p].at = "add2" /\ call[p].serial = "BT"
    /\ call[p].op = "unplug" =>
           /\ call[p].next = 4
           /\ \/ prog[p].at = "close1" /\ call[p].serial = FirstRemoved(prog[p].state)
              \/ prog[p].at = "close2" /\ call[p].serial = "WLAN"

Fits(p) ==
    /\ CallFits(p)
    /\ GoalAt(prog[p].at, prog[p].goal)
    /\ ~HotPlug => OnAt(prog[p].at, prog[p].goal, prog[p].state, RadiosOn)

BusFacts == TInv /\ IInv /\ PnpTracksRegistry /\ NoGps
OInv     == BusFacts /\ \A p \in Caller : Fits(p)

(* What a query tells a process.                                            *)
LEMMA Told ==
    ASSUME PnpTracksRegistry, NoGps
    PROVE  /\ RadiosOn # {} => Queried \notin {NoCard, NoneStarted}
           /\ RadiosOn = {} => Queried \in {NoCard, NoneStarted}
           /\ StateOf(Queried) = RadiosOn
<1>1. \/ RadiosOn = {} /\ Queried \in {NoCard, NoneStarted}
      \/ RadiosOn = {"BT"} /\ Queried = 1
      \/ RadiosOn = {"WLAN"} /\ Queried = 2
      \/ RadiosOn = {"BT", "WLAN"} /\ Queried = 3
  <2>1. RadiosOn \in {{}, {"BT"}, {"WLAN"}, {"BT", "WLAN"}}
    BY DEF RadiosOn
  <2> QED
    BY <2>1, RadiosTold DEF Queried
<1> QED
  BY <1>1, SMT DEF StateOf, NoCard, NoneStarted

LEMMA NextBusFacts == BusFacts /\ Running /\ ToolNext => BusFacts'
<1> SUFFICES ASSUME BusFacts, Running, ToolNext
             PROVE  BusFacts'
  OBVIOUS
<1>1. TInv'
  BY HubKeeps, WorkKeeps, StartSteps DEF ToolNext, BusFacts
<1>2. [Next]_vars
  BY ToolStepsAreBusSteps
<1> QED
  BY <1>1, <1>2, NextInvariant, NextPnp, NextNoGps DEF BusFacts, TInv

(* A process goes to place a with state S, for goal g; the others stay.     *)
Shows(p, a, g, S) ==
    /\ prog'[p].at = a /\ prog'[p].goal = g /\ prog'[p].state = S
    /\ \A q \in Caller \ {p} : prog'[q] = prog[q]

LEMMA Showing ==
    ASSUME ProgTyped, NEW p \in Caller, NEW a, NEW n, NEW S, NEW f
    PROVE  LET g == prog[p].goal
               T == prog[p].state
           IN
           /\ prog' = [prog EXCEPT ![p].at = a] => Shows(p, a, g, T)
           /\ prog' = [prog EXCEPT ![p].at = a, ![p].tries = n] => Shows(p, a, g, T)
           /\ prog' = [prog EXCEPT ![p].at = a, ![p].state = S] => Shows(p, a, g, S)
           /\ prog' = [prog EXCEPT ![p].at = a, ![p].tries = n, ![p].state = S] => Shows(p, a, g, S)
           /\ prog' = [prog EXCEPT ![p].at = a, ![p].failed = f] => Shows(p, a, g, T)
<1>1. prog[p] \in Program
  BY DEF ProgTyped
<1>2. ASSUME NEW r, prog' = [prog EXCEPT ![p] = r]
      PROVE  Shows(p, r.at, r.goal, r.state)
  BY <1>2 DEF Shows, ProgTyped
<1> DEFINE r1 == [prog[p] EXCEPT !.at = a]
           r2 == [prog[p] EXCEPT !.at = a, !.tries = n]
           r3 == [prog[p] EXCEPT !.at = a, !.state = S]
           r4 == [prog[p] EXCEPT !.at = a, !.tries = n, !.state = S]
           r5 == [prog[p] EXCEPT !.at = a, !.failed = f]
<1>3. /\ r1.at = a /\ r2.at = a /\ r3.at = a /\ r4.at = a /\ r5.at = a
      /\ \A r \in {r1, r2, r3, r4, r5} : r.goal = prog[p].goal
      /\ \A r \in {r1, r2, r5} : r.state = prog[p].state
      /\ r3.state = S /\ r4.state = S
  BY <1>1 DEF Program
<1>4. /\ [prog EXCEPT ![p].at = a] = [prog EXCEPT ![p] = r1]
      /\ [prog EXCEPT ![p].at = a, ![p].tries = n] = [prog EXCEPT ![p] = r2]
      /\ [prog EXCEPT ![p].at = a, ![p].state = S] = [prog EXCEPT ![p] = r3]
      /\ [prog EXCEPT ![p].at = a, ![p].tries = n, ![p].state = S] = [prog EXCEPT ![p] = r4]
      /\ [prog EXCEPT ![p].at = a, ![p].failed = f] = [prog EXCEPT ![p] = r5]
  BY DEF ProgTyped
<1> HIDE DEF r1, r2, r3, r4, r5
<1> QED
  BY <1>2, <1>3, <1>4

(* Nobody else is past the lock.                                            *)
LEMMA OthersOutside ==
    ASSUME TInv, NEW p \in Caller, Holds(p), NEW q \in Caller \ {p}
    PROVE  ~Holds(q)
BY DEF TInv, LockHeld

LEMMA OutsideFits ==
    ASSUME NEW a, NEW g, NEW S, NEW on, a \in {"idle", "flag", "lock"}
    PROVE  OnAt(a, g, S, on)
BY DEF OnAt

(* A step of p from one place to the next: it is in no callback after it.   *)
LEMMA StepFits ==
    ASSUME OInv, NEW p \in Caller, NEW a, NEW g, NEW S, Shows(p, a, g, S),
           \A q \in Caller \ {p} : call'[q] = call[q],
           RadiosOn' = RadiosOn \/ Holds(p),
           call'[p].op = "none",
           GoalAt(a, g),
           ~HotPlug => OnAt(a, g, S, RadiosOn')
    PROVE  \A q \in Caller : Fits(q)'
<1>1. Fits(p)'
  BY DEF Fits, CallFits, Shows
<1>2. ASSUME NEW q \in Caller \ {p}
      PROVE  Fits(q)'
  <2>1. Fits(q) /\ prog'[q] = prog[q] /\ call'[q] = call[q]
    BY DEF OInv, Shows
  <2>2. CallFits(q)' /\ GoalAt(prog[q].at, prog[q].goal)'
    BY <2>1 DEF Fits, CallFits
  <2>3. OnAt(prog[q].at, prog[q].goal, prog[q].state, RadiosOn') \/ HotPlug
    <3>1. CASE RadiosOn' = RadiosOn
      BY <2>1, <3>1 DEF Fits
    <3>2. CASE Holds(p)
      <4>1. ~Holds(q)
        BY <3>2, OthersOutside DEF OInv, BusFacts
      <4> QED
        BY <4>1, OutsideFits DEF Holds
    <3> QED
      BY <3>1, <3>2
  <2> QED
    BY <2>1, <2>2, <2>3 DEF Fits
<1> QED
  BY <1>1, <1>2

(* A process that only looks stays outside the callbacks and changes no     *)
(* function.                                                                *)
LEMMA LookFits ==
    ASSUME OInv, NEW p \in Caller, NEW a, NEW g, NEW S, Shows(p, a, g, S),
           UNCHANGED vars, prog[p].at \notin CallPlace \/ Asleep(p),
           GoalAt(a, g),
           ~HotPlug => OnAt(a, g, S, RadiosOn)
    PROVE  \A q \in Caller : Fits(q)'
<1>1. RadiosOn' = RadiosOn /\ call' = call
  BY DEF RadiosOn, StartedFn, Vacant, vars, registry
<1>2. call[p].op = "none"
  BY DEF Asleep, Idle, OInv, Fits, CallFits, CallPlace
<1> QED
  BY <1>1, <1>2, StepFits

LEMMA Present ==
    ASSUME BusFacts, ~HotPlug, NEW p \in Caller, InCallback(p)
    PROVE  ~Vacant(call[p].serial) /\ call[p].serial \in Serial
<1>1. raced = {} /\ call[p].serial \in Serial
  BY DEF BusFacts, TInv, CommandsNeverOverlap, RInv, TypeOK, CallState
<1> QED
  BY <1>1 DEF BusFacts, IInv, Quiet, CallsMatchSlot, BusyCaller

(* open() returns.                                                          *)
LEMMA PlugInDoneOn ==
    ASSUME OInv, NEW p \in Caller, NEW ok \in BOOLEAN, PlugInDone(p, ok)
    PROVE  /\ call'[p].op = "none"
           /\ \A q \in Caller \ {p} : call'[q] = call[q]
           /\ ~HotPlug => RadiosOn' = IF ok THEN RadiosOn \cup {call[p].serial} ELSE RadiosOn
<1>1. call' = [call EXCEPT ![p] = Idle] /\ call \in [Caller -> CallState]
  BY DEF PlugInDone, OInv, BusFacts, TInv, RInv, TypeOK
<1>2. ASSUME ~HotPlug
      PROVE  RadiosOn' = IF ok THEN RadiosOn \cup {call[p].serial} ELSE RadiosOn
  <2>1. ~Vacant(call[p].serial)
    BY <1>2, Present DEF OInv, PlugInDone, InCallback
  <2>2. CASE ok
    <3>1. call[p].serial \in {"BT", "WLAN"}
      BY DEF OInv, Fits, CallFits, PlugInDone, FirstAdded
    <3>2. slot' = slot /\ block' = [block EXCEPT ![slot[call[p].serial]].devstate = "Started"]
      BY <2>1, <2>2 DEF PlugInDone
    <3> QED
      BY <2>1, <2>2, <3>1, <3>2, RadiosAfter DEF OInv, BusFacts, TInv, RInv, DevState
  <2>3. CASE ~ok
    BY <2>3 DEF PlugInDone, RadiosOn, StartedFn, Vacant
  <2> QED
    BY <2>2, <2>3
<1> QED
  BY <1>1, <1>2 DEF Idle

(* close() returns.                                                         *)
LEMMA UnPlugDoneOn ==
    ASSUME OInv, NEW p \in Caller, UnPlugDone(p)
    PROVE  /\ call'[p].op = "none"
           /\ \A q \in Caller \ {p} : call'[q] = call[q]
           /\ ~HotPlug => RadiosOn' = RadiosOn \ {call[p].serial}
<1>1. call[p].next = 4 /\ call \in [Caller -> CallState] /\ call[p].op = "unplug"
  BY DEF OInv, BusFacts, TInv, RInv, TypeOK, Fits, CallFits, UnPlugDone
<1>2. call' = [call EXCEPT ![p] = Idle]
  BY <1>1 DEF UnPlugDone, AfterSlot
<1>3. ASSUME ~HotPlug
      PROVE  RadiosOn' = RadiosOn \ {call[p].serial}
  <2>1. ~Vacant(call[p].serial)
    BY <1>1, <1>3, Present DEF OInv, InCallback
  <2>2. call[p].serial \in {"BT", "WLAN"}
    BY <1>1 DEF OInv, Fits, CallFits, FirstRemoved
  <2>3. slot' = slot /\ block' = [block EXCEPT ![slot[call[p].serial]].devstate = "Stopped"]
    BY <2>1 DEF UnPlugDone
  <2>4. RadiosOn' = IF "Stopped" = "Started" THEN RadiosOn \cup {call[p].serial} ELSE RadiosOn \ {call[p].serial}
    BY <2>1, <2>2, <2>3, RadiosAfter DEF OInv, BusFacts, TInv, RInv, DevState
  <2> QED
    BY <2>4
<1> QED
  BY <1>1, <1>2, <1>3 DEF Idle

-----------------------------------------------------------------------------
(* One step of a process, place by place.                                   *)

(* A function that is Started can be closed, and one that is not is opened  *)
(* or refused; either way the next place finds what it expects.             *)
LEMMA RemoveFits ==
    ASSUME OInv, NEW p \in Caller, NEW s \in {"BT", "WLAN"}, NEW next, Remove(p, s, next),
           \/ prog[p].at = "close1" /\ s = FirstRemoved(prog[p].state)
           \/ prog[p].at = "close2" /\ s = "WLAN",
           GoalAt(next, prog[p].goal),
           ~HotPlug => s \in RadiosOn,
           ~HotPlug => OnAt(next, prog[p].goal, prog[p].state, RadiosOn \ {s})
    PROVE  \A q \in Caller : Fits(q)'
<1>1. ProgTyped /\ Holds(p) /\ call \in [Caller -> CallState]
  BY DEF OInv, BusFacts, TInv, RInv, TypeOK, Holds
<1>2. Poll(p, next) => Shows(p, next, prog[p].goal, prog[p].state)
  BY <1>1, Showing DEF Poll
<1>3. CASE Asleep(p) /\ ~Closes(s) /\ Poll(p, next) /\ UNCHANGED vars
  <2>1. HotPlug
    BY <1>3 DEF Closes, RadiosOn, StartedFn, OInv, BusFacts, PnpTracksRegistry, Admitted, Serial
  <2> QED
    BY <1>2, <1>3, <2>1, LookFits
<1>4. CASE UnPlug(p, s) /\ UNCHANGED prog
  <2>1. /\ RadiosOn' = RadiosOn
        /\ call' = [call EXCEPT ![p] = [op |-> "unplug", serial |-> s, iface |-> slot[s], next |-> 4]]
    BY <1>4 DEF UnPlug, BeginClose, RadiosOn, StartedFn, Vacant
  <2>2. CallFits(p)'
    BY <1>1, <1>4, <2>1 DEF CallFits
  <2>3. \A q \in Caller \ {p} : CallFits(q)'
    BY <1>1, <1>4, <2>1 DEF OInv, Fits, CallFits
  <2> QED
    BY <1>4, <2>1, <2>2, <2>3 DEF OInv, Fits
<1>5. CASE UnPlugDone(p) /\ Poll(p, next)
  <2>1. call[p].serial = s
    BY <1>5 DEF OInv, Fits, CallFits, UnPlugDone
  <2> QED
    BY <1>1, <1>2, <1>5, <2>1, UnPlugDoneOn, StepFits
<1> QED
  BY <1>3, <1>4, <1>5 DEF Remove

LEMMA AddFits ==
    ASSUME OInv, NEW p \in Caller, NEW s \in {"BT", "WLAN"}, NEW next, Add(p, s, next),
           \/ prog[p].at = "add1" /\ s = FirstAdded(prog[p].goal)
           \/ prog[p].at = "add2" /\ s = "BT",
           GoalAt(next, prog[p].goal),
           ~HotPlug => OnAt(next, prog[p].goal, prog[p].state, RadiosOn),
           ~HotPlug => OnAt(next, prog[p].goal, prog[p].state, RadiosOn \cup {s})
    PROVE  \A q \in Caller : Fits(q)'
<1>1. ProgTyped /\ Holds(p) /\ call \in [Caller -> CallState]
  BY DEF OInv, BusFacts, TInv, RInv, TypeOK, Holds
<1>2. CASE Asleep(p) /\ ~Opens(s) /\ Goto(p, next) /\ UNCHANGED vars
  <2>1. Shows(p, next, prog[p].goal, prog[p].state)
    BY <1>1, <1>2, Showing DEF Goto
  <2> QED
    BY <1>2, <2>1, LookFits
<1>3. CASE PlugIn(p, s) /\ UNCHANGED prog
  <2>1. /\ RadiosOn' = RadiosOn
        /\ call' = [call EXCEPT ![p] = [op |-> "plug", serial |-> s, iface |-> slot[s], next |-> 4]]
    BY <1>3 DEF PlugIn, RadiosOn, StartedFn, Vacant, registry
  <2>2. CallFits(p)'
    BY <1>1, <1>3, <2>1 DEF CallFits
  <2>3. \A q \in Caller \ {p} : CallFits(q)'
    BY <1>1, <1>3, <2>1 DEF OInv, Fits, CallFits
  <2> QED
    BY <1>3, <2>1, <2>2, <2>3 DEF OInv, Fits
<1>4. ASSUME NEW ok \in BOOLEAN, PlugInDone(p, ok),
             prog' = [prog EXCEPT ![p].at = next, ![p].failed = @ \/ ~ok]
      PROVE  \A q \in Caller : Fits(q)'
  <2>1. prog' = [prog EXCEPT ![p].at = next, ![p].failed = prog[p].failed \/ ~ok]
    BY <1>1, <1>4 DEF ProgTyped, Program
  <2>2. Shows(p, next, prog[p].goal, prog[p].state)
    BY <1>1, <2>1, Showing
  <2>3. call[p].serial = s
    BY <1>4 DEF OInv, Fits, CallFits, PlugInDone
  <2>4. ~HotPlug => OnAt(next, prog[p].goal, prog[p].state, RadiosOn')
    BY <1>4, <2>3, PlugInDoneOn
  <2> QED
    BY <1>1, <1>4, <2>2, <2>4, PlugInDoneOn, StepFits
<1> QED
  BY <1>2, <1>3, <1>4 DEF Add

LEMMA RemoveFirstFits ==
    ASSUME OInv, NEW p \in Caller, RemoveFirst(p)
    PROVE  \A q \in Caller : Fits(q)'
<1> DEFINE s    == FirstRemoved(prog[p].state)
           next == IF prog[p].state = {"BT", "WLAN"} THEN "btPower" ELSE "nonePower"
<1>1. /\ prog[p].at = "close1" /\ s \in {"BT", "WLAN"} /\ prog[p].state \in SUBSET {"BT", "WLAN"}
      /\ GoalAt(prog[p].at, prog[p].goal)
      /\ ~HotPlug => OnAt(prog[p].at, prog[p].goal, prog[p].state, RadiosOn)
  BY DEF RemoveFirst, FirstRemoved, OInv, Fits, BusFacts, TInv, ProgTyped, Program
<1>2. Remove(p, s, next)
  <2>1. CASE prog[p].state = {"BT", "WLAN"}
    BY <2>1 DEF RemoveFirst, FirstRemoved
  <2>2. CASE prog[p].state # {"BT", "WLAN"}
    BY <1>1, <2>2 DEF RemoveFirst, FirstRemoved
  <2> QED
    BY <2>1, <2>2
<1>3. GoalAt(next, prog[p].goal)
  BY <1>1 DEF GoalAt
<1>4. ASSUME ~HotPlug
      PROVE  s \in RadiosOn /\ OnAt(next, prog[p].goal, prog[p].state, RadiosOn \ {s})
  <2>1. prog[p].state = RadiosOn /\ RadiosOn # {} /\ RadiosOn \subseteq {"BT", "WLAN"}
    BY <1>1, <1>4 DEF OnAt, RadiosOn
  <2>2. CASE RadiosOn = {"BT", "WLAN"}
    BY <2>1, <2>2 DEF FirstRemoved, OnAt
  <2>3. CASE RadiosOn # {"BT", "WLAN"}
    BY <2>1, <2>3 DEF FirstRemoved, OnAt
  <2> QED
    BY <2>2, <2>3
<1> HIDE DEF next
<1> QED
  BY <1>1, <1>2, <1>3, <1>4, RemoveFits

LEMMA RemoveSecondFits ==
    ASSUME OInv, NEW p \in Caller, RemoveSecond(p)
    PROVE  \A q \in Caller : Fits(q)'
<1>1. /\ prog[p].at = "close2" /\ Remove(p, "WLAN", "nonePower")
      /\ GoalAt(prog[p].at, prog[p].goal)
      /\ ~HotPlug => OnAt(prog[p].at, prog[p].goal, prog[p].state, RadiosOn)
  BY DEF RemoveSecond, OInv, Fits
<1>2. GoalAt("nonePower", prog[p].goal)
  BY <1>1 DEF GoalAt
<1>3. ASSUME ~HotPlug
      PROVE  "WLAN" \in RadiosOn /\ OnAt("nonePower", prog[p].goal, prog[p].state, RadiosOn \ {"WLAN"})
  BY <1>1, <1>3 DEF OnAt
<1> QED
  BY <1>1, <1>2, <1>3, RemoveFits

LEMMA AddFirstFits ==
    ASSUME OInv, NEW p \in Caller, AddFirst(p)
    PROVE  \A q \in Caller : Fits(q)'
<1> DEFINE s == FirstAdded(prog[p].goal)
<1>1. /\ prog[p].at = "add1" /\ s \in {"BT", "WLAN"} /\ Add(p, s, "check1")
      /\ GoalAt(prog[p].at, prog[p].goal)
      /\ ~HotPlug => OnAt(prog[p].at, prog[p].goal, prog[p].state, RadiosOn)
  BY DEF AddFirst, FirstAdded, OInv, Fits
<1>2. GoalAt("check1", prog[p].goal)
  BY <1>1 DEF GoalAt
<1>3. ASSUME ~HotPlug
      PROVE  /\ OnAt("check1", prog[p].goal, prog[p].state, RadiosOn)
             /\ OnAt("check1", prog[p].goal, prog[p].state, RadiosOn \cup {s})
  BY <1>1, <1>3 DEF OnAt
<1> QED
  BY <1>1, <1>2, <1>3, AddFits

LEMMA AddSecondFits ==
    ASSUME OInv, NEW p \in Caller, AddSecond(p)
    PROVE  \A q \in Caller : Fits(q)'
<1>1. prog[p].at = "add2" /\ Add(p, "BT", "check2") /\ GoalAt(prog[p].at, prog[p].goal)
  BY DEF AddSecond, OInv, Fits
<1>2. /\ GoalAt("check2", prog[p].goal)
      /\ OnAt("check2", prog[p].goal, prog[p].state, RadiosOn)
      /\ OnAt("check2", prog[p].goal, prog[p].state, RadiosOn \cup {"BT"})
  BY <1>1 DEF GoalAt, OnAt
<1> QED
  BY <1>1, <1>2, AddFits

LEMMA LookStepsFit ==
    ASSUME OInv, NEW p \in Caller,
           \/ AdjustFuncState(p) \/ UnplugDevices(p) \/ PollPower(p) \/ WaitBtOff(p)
           \/ WaitNone(p) \/ CheckFirst(p) \/ WaitWlanUp(p) \/ CheckSecond(p)
    PROVE  \A q \in Caller : Fits(q)'
<1> DEFINE a == prog[p].at
           g == prog[p].goal
           S == prog[p].state
<1>1. ProgTyped /\ g \in Goals /\ GoalAt(a, g) /\ (~HotPlug => OnAt(a, g, S, RadiosOn))
  BY DEF OInv, Fits, BusFacts, TInv, ProgTyped, Program
<1>2. /\ RadiosOn # {} => Queried \notin {NoCard, NoneStarted}
      /\ RadiosOn = {} => Queried \in {NoCard, NoneStarted}
      /\ StateOf(Queried) = RadiosOn /\ RadiosOn \subseteq {"BT", "WLAN"}
  BY Told DEF OInv, BusFacts, RadiosOn
<1>3. UNCHANGED vars /\ a \notin CallPlace
  BY DEF AdjustFuncState, UnplugDevices, PollPower, WaitBtOff, WaitNone, CheckFirst, WaitWlanUp,
         CheckSecond, CallPlace
<1>4. ASSUME NEW b, NEW T, Shows(p, b, g, T), GoalAt(b, g), ~HotPlug => OnAt(b, g, T, RadiosOn)
      PROVE  \A q \in Caller : Fits(q)'
  BY <1>3, <1>4, LookFits
<1>5. ASSUME NEW b, Goto(p, b) \/ Poll(p, b) \/ Again(p, b)
      PROVE  Shows(p, b, g, S)
  <2>1. CASE Goto(p, b)
    BY <1>1, <2>1, Showing DEF Goto
  <2>2. CASE Poll(p, b)
    BY <1>1, <2>2, Showing DEF Poll
  <2>3. CASE Again(p, b)
    <3>1. prog' = [prog EXCEPT ![p].at = b, ![p].tries = prog[p].tries + 1]
      BY <1>1, <2>3 DEF Again, ProgTyped, Program
    <3> QED
      BY <1>1, <3>1, Showing
  <2> QED
    BY <1>5, <2>1, <2>2, <2>3
<1>6. CASE AdjustFuncState(p)
  <2> DEFINE b == AfterAdjust(g, Queried)
  <2>1. Shows(p, b, g, StateOf(Queried)) /\ a = "adjust"
    BY <1>1, <1>6, Showing DEF AdjustFuncState
  <2>2. /\ b \in {"report", "add1", "unplug"}
        /\ b = "add1" => RadiosOn = {} /\ Wanted(g) # {}
        /\ b = "unplug" => RadiosOn # {}
    BY <1>2 DEF AfterAdjust
  <2>3. GoalAt(b, g) /\ OnAt(b, g, RadiosOn, RadiosOn)
    BY <1>1, <2>1, <2>2 DEF GoalAt, OnAt
  <2> QED
    BY <1>2, <1>4, <2>1, <2>3
<1>7. CASE UnplugDevices(p)
  <2>1. a = "unplug" /\ UNCHANGED vars
    BY <1>7 DEF UnplugDevices
  <2>2. CASE Queried = NoCard
    <3>1. Goto(p, "report")
      BY <1>7, <2>2, SMT DEF UnplugDevices, NoCard, NoneStarted
    <3>2. GoalAt("report", g) /\ OnAt("report", g, S, RadiosOn)
      BY <1>1, <2>1 DEF GoalAt, OnAt
    <3> QED
      BY <1>4, <1>5, <3>1, <3>2
  <2>3. CASE Queried = NoneStarted
    <3>1. Goto(p, AfterUnplug(g))
      BY <1>7, <2>3, SMT DEF UnplugDevices, NoCard, NoneStarted
    <3>2. GoalAt(AfterUnplug(g), g) /\ OnAt(AfterUnplug(g), g, S, RadiosOn)
      BY <1>1, <1>2, <2>1, <2>3, GoalAssumption DEF GoalAt, OnAt, AfterUnplug, Wanted
    <3> QED
      BY <1>4, <1>5, <3>1, <3>2
  <2>4. CASE Queried \notin {NoCard, NoneStarted}
    <3>1. Goto(p, "close1")
      BY <1>7, <2>4 DEF UnplugDevices
    <3>2. GoalAt("close1", g) /\ (~HotPlug => OnAt("close1", g, S, RadiosOn))
      BY <1>1, <2>1 DEF GoalAt, OnAt
    <3> QED
      BY <1>4, <1>5, <3>1, <3>2
  <2> QED
    BY <2>2, <2>3, <2>4
<1>8. CASE PollPower(p)
  <2>1. PICK b \in {"report", "btOff", "none", "wlanUp"} :
            /\ Goto(p, b)
            /\ b = "btOff" => a = "btPower"
            /\ b = "none" => a = "nonePower"
            /\ b = "wlanUp" => a = "wlanPower"
    BY <1>8 DEF PollPower
  <2>2. GoalAt(b, g) /\ (~HotPlug => OnAt(b, g, S, RadiosOn))
    BY <1>1, <1>8, <2>1 DEF PollPower, GoalAt, OnAt
  <2> QED
    BY <1>4, <1>5, <2>1, <2>2
<1>9. CASE WaitBtOff(p)
  <2>1. PICK b \in {"close2", "btPower"} : Shows(p, b, g, S)
    BY <1>5, <1>9 DEF WaitBtOff
  <2>2. GoalAt(b, g) /\ (~HotPlug => OnAt(b, g, S, RadiosOn))
    BY <1>1, <1>9 DEF WaitBtOff, GoalAt, OnAt
  <2> QED
    BY <1>4, <2>1, <2>2
<1>10. CASE WaitNone(p)
  <2>1. a = "none"
    BY <1>10 DEF WaitNone
  <2>2. CASE Again(p, "nonePower")
    <3>1. GoalAt("nonePower", g) /\ (~HotPlug => OnAt("nonePower", g, S, RadiosOn))
      BY <1>1, <2>1 DEF GoalAt, OnAt
    <3> QED
      BY <1>4, <1>5, <2>2, <3>1
  <2>3. CASE prog' = [prog EXCEPT ![p].at = AfterUnplug(g), ![p].tries = 0, ![p].state = {}]
    <3>1. Shows(p, AfterUnplug(g), g, {})
      BY <1>1, <2>3, Showing
    <3>2. GoalAt(AfterUnplug(g), g) /\ (~HotPlug => OnAt(AfterUnplug(g), g, {}, RadiosOn))
      BY <1>1, <2>1, GoalAssumption DEF GoalAt, OnAt, AfterUnplug, Wanted
    <3> QED
      BY <1>4, <3>1, <3>2
  <2> QED
    BY <1>10, <2>2, <2>3 DEF WaitNone
<1>11. CASE CheckFirst(p)
  <2>1. a = "check1"
    BY <1>11 DEF CheckFirst
  <2>2. CASE DownloadOk /\ g = "combo"
    <3>1. Shows(p, "wlanUp", g, S)
      BY <1>5, <1>11, <2>2 DEF CheckFirst
    <3>2. GoalAt("wlanUp", g) /\ (~HotPlug => OnAt("wlanUp", g, S, RadiosOn))
      BY <1>1, <2>1, <2>2 DEF GoalAt, OnAt, FirstAdded, Wanted
    <3> QED
      BY <1>4, <3>1, <3>2
  <2>3. CASE ~(DownloadOk /\ g = "combo")
    <3>1. PICK T : Shows(p, "report", g, T)
      BY <1>1, <1>11, <2>3, Showing DEF CheckFirst
    <3>2. GoalAt("report", g) /\ OnAt("report", g, T, RadiosOn)
      BY <1>1, <2>1 DEF GoalAt, OnAt
    <3> QED
      BY <1>4, <3>1, <3>2
  <2> QED
    BY <2>2, <2>3
<1>12. CASE WaitWlanUp(p)
  <2>1. a = "wlanUp" /\ g = "combo"
    BY <1>1, <1>12 DEF WaitWlanUp, GoalAt
  <2>2. CASE WlanReported
    <3>1. Goto(p, "add2") /\ "WLAN" \in RadiosOn
      BY <1>12, <2>2, SMT DEF WaitWlanUp, WlanReported, QueryDeviceState, RadiosOn
    <3>2. GoalAt("add2", g) /\ (~HotPlug => OnAt("add2", g, S, RadiosOn))
      BY <1>1, <2>1, <3>1 DEF GoalAt, OnAt
    <3> QED
      BY <1>4, <1>5, <3>1, <3>2
  <2>3. CASE ~WlanReported
    <3>1. Goto(p, "wlanPower")
      BY <1>12, <2>3 DEF WaitWlanUp, AfterWlanDown
    <3>2. GoalAt("wlanPower", g) /\ (~HotPlug => OnAt("wlanPower", g, S, RadiosOn))
      BY <1>1, <2>1 DEF GoalAt, OnAt
    <3> QED
      BY <1>4, <1>5, <3>1, <3>2
  <2> QED
    BY <2>2, <2>3
<1>13. CASE CheckSecond(p)
  <2>1. a = "check2" /\ \E T : Shows(p, "report", g, T)
    BY <1>1, <1>13, Showing DEF CheckSecond
  <2>2. \A T : GoalAt("report", g) /\ OnAt("report", g, T, RadiosOn)
    BY <1>1, <2>1 DEF GoalAt, OnAt
  <2> QED
    BY <1>4, <2>1, <2>2
<1> QED
  BY <1>6, <1>7, <1>8, <1>9, <1>10, <1>11, <1>12, <1>13

(* Starting, locking and ending: the places outside know nothing of the card. *)
LEMMA ExitShows ==
    ASSUME ProgTyped, NEW p \in Caller, NEW g, NEW v, NEW f
    PROVE  /\ prog' = [prog EXCEPT ![p] = Exited(g, v)] => Shows(p, "idle", g, {})
           /\ prog' = [prog EXCEPT ![p] = [Exited(g, v) EXCEPT !.failed = f]]
                  => Shows(p, "idle", g, {})
           /\ prog' = [prog EXCEPT ![p] = [Exited(g, v) EXCEPT !.at = "flag"]]
                  => Shows(p, "flag", g, {})
<1>1. ASSUME NEW r, prog' = [prog EXCEPT ![p] = r]
      PROVE  Shows(p, r.at, r.goal, r.state)
  BY <1>1 DEF Shows, ProgTyped
<1> DEFINE r1 == Exited(g, v)
           r2 == [Exited(g, v) EXCEPT !.failed = f]
           r3 == [Exited(g, v) EXCEPT !.at = "flag"]
<1>2. /\ r1.at = "idle" /\ r2.at = "idle" /\ r3.at = "flag"
      /\ \A r \in {r1, r2, r3} : r.goal = g /\ r.state = {}
  BY DEF Exited
<1> HIDE DEF r1, r2, r3
<1>3. /\ prog' = [prog EXCEPT ![p] = r1] => Shows(p, "idle", g, {})
      /\ prog' = [prog EXCEPT ![p] = r2] => Shows(p, "idle", g, {})
      /\ prog' = [prog EXCEPT ![p] = r3] => Shows(p, "flag", g, {})
  BY <1>1, <1>2
<1> QED
  BY <1>3 DEF r1, r2, r3

LEMMA BoundsFit ==
    ASSUME OInv, NEW p \in Caller,
           \/ SetFlag(p) \/ MainControl(p) \/ Report(p) \/ \E g \in Goals : Launch(p, g)
    PROVE  \A q \in Caller : Fits(q)'
<1>1. /\ ProgTyped /\ GoalAt(prog[p].at, prog[p].goal)
      /\ prog[p].at \notin CallPlace /\ call[p].op = "none"
  BY DEF OInv, Fits, CallFits, BusFacts, TInv, SetFlag, MainControl, Report, Launch, CallPlace
<1>2. \A g, S : /\ GoalAt("idle", g) /\ OnAt("idle", g, S, RadiosOn)
                /\ GoalAt("flag", g) /\ OnAt("flag", g, S, RadiosOn)
                /\ g # "query" => GoalAt("lock", g) /\ OnAt("lock", g, S, RadiosOn)
                /\ g # "query" => GoalAt("adjust", g) /\ OnAt("adjust", g, S, RadiosOn)
                /\ g # "query" => GoalAt("report", g) /\ OnAt("report", g, S, RadiosOn)
  BY DEF GoalAt, OnAt
<1>3. ASSUME NEW b, NEW g, NEW S, Shows(p, b, g, S), GoalAt(b, g), OnAt(b, g, S, RadiosOn), UNCHANGED vars
      PROVE  \A q \in Caller : Fits(q)'
  BY <1>1, <1>3, LookFits
<1>4. ASSUME NEW g \in Goals, Launch(p, g)
      PROVE  \A q \in Caller : Fits(q)'
  <2>1. Shows(p, "flag", g, {}) /\ UNCHANGED vars
    BY <1>1, <1>4, ExitShows DEF Launch
  <2> QED
    BY <1>2, <1>3, <2>1
<1>5. CASE SetFlag(p)
  <2>1. PICK b, g, S : Shows(p, b, g, S) /\ GoalAt(b, g) /\ OnAt(b, g, S, RadiosOn)
    <3>1. CASE prog[p].goal = "query"
      <4>1. Shows(p, "idle", "query", {})
        BY <1>1, <1>5, <3>1, ExitShows DEF SetFlag
      <4> QED
        BY <1>2, <4>1
    <3>2. CASE prog[p].goal # "query"
      <4>1. Shows(p, "lock", prog[p].goal, prog[p].state)
        BY <1>1, <1>5, <3>2, Showing DEF SetFlag, Goto
      <4> QED
        BY <1>2, <3>2, <4>1
    <3> QED
      BY <3>1, <3>2
  <2>2. call' = call /\ RadiosOn' = RadiosOn
    <3>1. SetHotkeyFlag(p, ConfiguredHotkey) /\ TypeOK
      BY <1>5 DEF SetFlag, OInv, BusFacts, TInv, RInv
    <3>2. \A s \in Serial : slot'[s] = slot[s] /\ (StartedFn(s)' <=> StartedFn(s))
      BY <3>1 DEF SetHotkeyFlag, StartedFn, Vacant, TypeOK, Block
    <3> QED
      BY <3>1, <3>2 DEF SetHotkeyFlag, RadiosOn, Serial
  <2> QED
    BY <1>1, <2>1, <2>2, StepFits
<1>6. CASE MainControl(p)
  <2>1. prog[p].goal # "query" /\ UNCHANGED vars
    BY <1>1, <1>6 DEF MainControl, GoalAt
  <2>2. CASE LockIsFree
    <3>1. PICK b \in {"adjust", "report"} : Goto(p, b)
      BY <1>6, <2>2 DEF MainControl
    <3>2. Shows(p, b, prog[p].goal, prog[p].state)
      BY <1>1, <3>1, Showing DEF Goto
    <3> QED
      BY <1>2, <1>3, <2>1, <3>2
  <2>3. CASE ~LockIsFree
    <3>1. Shows(p, "idle", prog[p].goal, {})
      BY <1>1, <1>6, <2>3, ExitShows DEF MainControl
    <3> QED
      BY <1>2, <1>3, <2>1, <3>1
  <2> QED
    BY <2>2, <2>3
<1>7. CASE Report(p)
  <2>1. PICK v : prog' = [prog EXCEPT ![p] = [Exited(prog[p].goal, v) EXCEPT !.failed = prog[p].failed]]
    BY <1>1, <1>7 DEF Report, ProgTyped
  <2>2. Shows(p, "idle", prog[p].goal, {}) /\ UNCHANGED vars
    BY <1>1, <1>7, <2>1, ExitShows DEF Report
  <2> QED
    BY <1>2, <1>3, <2>2
<1> QED
  BY <1>4, <1>5, <1>6, <1>7

(* The USB core moves while every process is idle.                          *)
LEMMA HubFits ==
    ASSUME OInv, HubStep
    PROVE  \A q \in Caller : Fits(q)'
<1>1. call' = call /\ prog' = prog
  BY DEF HubStep, HubReturns, Attach, AttachDone, Detach, DetachDone, registry
<1>2. ASSUME ~HotPlug, NEW q \in Caller
      PROVE  prog[q].at = "idle"
  <2>1. HubReturns => hub # HubIdle
    BY DEF HubReturns, AttachDone, DetachDone, HubIdle
  <2> QED
    BY <1>2, <2>1 DEF HubStep, Quiescent, OInv, BusFacts, TInv, HubAlone
<1>3. \A q \in Caller : CallFits(q)' /\ GoalAt(prog[q].at, prog[q].goal)'
  BY <1>1 DEF OInv, Fits, CallFits
<1>4. \A q \in Caller : ~HotPlug => OnAt(prog[q].at, prog[q].goal, prog[q].state, RadiosOn')
  BY <1>2, OutsideFits
<1> QED
  BY <1>1, <1>3, <1>4 DEF Fits

LEMMA OrderInvariant == ToolSpec => []OInv
<1>1. ToolInit => OInv
  <2> SUFFICES ASSUME ToolInit
               PROVE  OInv
    OBVIOUS
  <2>1. Init /\ IInv /\ PnpTracksRegistry /\ NoGps
    BY InitInvariant, InitRegistry DEF ToolInit, Init, NoGps, Vacant, Serial
  <2>2. \A p \in Caller : prog[p].at = "idle" /\ call[p].op = "none"
    BY <2>1 DEF ToolInit, Exited, Init, Idle
  <2>3. \A p \in Caller : Fits(p)
    BY <2>2 DEF Fits, CallFits, GoalAt, OnAt
  <2> QED
    BY <2>1, <2>3, InitTool DEF OInv, BusFacts
<1>2. OInv /\ [ToolNext]_allVars => OInv'
  <2> SUFFICES ASSUME OInv, [ToolNext]_allVars
               PROVE  OInv'
    OBVIOUS
  <2>1. ASSUME ToolNext
        PROVE  OInv'
    <3>1. BusFacts' /\ Running
      BY <2>1, NextBusFacts DEF OInv, ToolNext
    <3>2. ASSUME NEW p \in Caller, Work(p)
          PROVE  \A q \in Caller : Fits(q)'
      BY <3>2, BoundsFit, LookStepsFit, RemoveFirstFits, RemoveSecondFits, AddFirstFits,
         AddSecondFits DEF Work
    <3>3. \A q \in Caller : Fits(q)'
      BY <2>1, <3>2, BoundsFit, HubFits DEF ToolNext
    <3> QED
      BY <3>1, <3>3 DEF OInv
  <2>2. ASSUME UNCHANGED allVars
        PROVE  OInv'
    <3>1. TInv' /\ IInv' /\ PnpTracksRegistry' /\ NoGps'
      BY <2>2, NextTool, NextInvariant, NextPnp, NextNoGps DEF allVars, OInv, BusFacts, TInv
    <3>2. \A q \in Caller : Fits(q)'
      BY <2>2 DEF allVars, vars, registry, OInv, Fits, CallFits, RadiosOn, StartedFn, Vacant
    <3> QED
      BY <3>1, <3>2 DEF OInv, BusFacts
  <2> QED
    BY <2>1, <2>2
<1> QED
  BY <1>1, <1>2, PTL DEF ToolSpec

(***************************************************************************)
(* OpensInOrder of WbTool: with any number of commands and any outcome of  *)
(* their opens, a single mode is opened only while the other function is   *)
(* off, and Bluetooth joins a combo only while WLAN is up.                 *)
(***************************************************************************)
THEOREM OpensAreOrdered == ToolSpec => []OpensInOrder
<1>1. OInv => OpensInOrder
  <2> SUFFICES ASSUME OInv, ~HotPlug, NEW p \in Caller, Holds(p), call[p].op = "plug",
                      NEW s \in {"BT", "WLAN"} \ {call[p].serial}
               PROVE  StartedFn(s) <=> (prog[p].goal = "combo" /\ s = "WLAN")
    BY DEF OpensInOrder
  <2>1. /\ CallFits(p) /\ GoalAt(prog[p].at, prog[p].goal)
        /\ OnAt(prog[p].at, prog[p].goal, prog[p].state, RadiosOn)
    BY DEF OInv, Fits
  <2>2. StartedFn(s) <=> s \in RadiosOn
    BY DEF RadiosOn
  <2>3. CASE prog[p].at = "add1" /\ call[p].serial = FirstAdded(prog[p].goal)
    <3>1. RadiosOn = {} /\ (prog[p].goal = "combo" => call[p].serial = "WLAN")
      BY <2>1, <2>3 DEF OnAt, FirstAdded, Wanted
    <3> QED
      BY <2>2, <3>1
  <2>4. CASE prog[p].at = "add2" /\ call[p].serial = "BT"
    BY <2>1, <2>2, <2>4 DEF OnAt, GoalAt
  <2> QED
    BY <2>1, <2>3, <2>4 DEF CallFits
<1> QED
  BY <1>1, OrderInvariant, PTL

(***************************************************************************)
(* What the two theorems about overlaps say together: while the card stays *)
(* in, commands cause no NULL dereference, no use of a freed block and no  *)
(* second open() in the bus module, although it has no lock of its own.    *)
(***************************************************************************)
THEOREM CommandsCauseNoFault == ToolSpec => [](~HotPlug => \A s \in Serial : fault[s] = {})
<1>1. OInv => (~HotPlug => \A s \in Serial : fault[s] = {})
  BY DEF OInv, BusFacts, TInv, CommandsNeverOverlap, IInv, Quiet
<1> QED
  BY <1>1, OrderInvariant, PTL
=============================================================================
