---------------------------- MODULE DeferredCalls ----------------------------
(***************************************************************************)
(* The objects through which the private libraries of the two drivers have *)
(* a function of theirs called later: the worklet, tasklet and timer of    *)
(* wlan/tdsp_tasklet.c and tdsp_timer.c, the work item and delayed work of *)
(* new_bluetooth/tdsp_work.c and the URB of the two tdsp_usb.c.  The       *)
(* libraries are binary, so their threads may make any call at any time.   *)
(*                                                                         *)
(* One object, of any kind, after its init.  A call is split where it has  *)
(* read the handle and has not yet used the block the handle points to;    *)
(* a kill also between freeing the block and clearing the handle.  The     *)
(* kernel's side is that of Linux 3.8, for which the modules were built.   *)
(* A delayed work is looked at twice, since the kernel decides what becomes*)
(* of it: tdsp_delaywork_init leaves the function of its timer unset.      *)
(*   "delayed"     Linux 3.7 and later: nobody sets it, so that a delay    *)
(*                 other than 0 ends in a crash; cancelling takes the item *)
(*                 off the queue too;                                      *)
(*   "oldDelayed"  Linux 3.6 and before: queue_delayed_work sets it, and   *)
(*                 cancelling leaves an item that is queued already.       *)
(* A behaviour ends with the first error.                                  *)
(***************************************************************************)

EXTENDS Integers

CONSTANTS
    Thread,  \* threads of the library
    Func,    \* the function called: while it runs it may have itself called again
    Kinds,   \* kinds of object looked at
    MaxOff   \* bound on the distance between disables and enables of a tasklet

Delayed == {"delayed", "oldDelayed"}
AllKinds == Delayed \cup {"worklet", "work", "tasklet", "timer", "urb"}

ASSUME FuncAssumption == Func \notin Thread
ASSUME KindsAssumption == Kinds \subseteq AllKinds
ASSUME MaxOffAssumption == MaxOff \in Nat

VARIABLES
    kind,     \* what the object is
    handle,   \* the library's pointer to it
    block,    \* the memory it points, or pointed, to
    due,      \* its timer runs
    queued,   \* the kernel has it on a list of things to call
    body,     \* the routine is being executed
    running,  \* WORKLET_DATA.running
    off,      \* count of a tasklet, which runs at 0 only; reject of an URB
    at,       \* what each thread, and the function, is in the middle of
    owed,     \* history: a call was asked for and has not begun, nor been called off
    cause,    \* history: what went on beside a kill, see Excuse
    fault     \* history: the errors made

kernel == <<due, queued, body>>
dcVars == <<kind, handle, block, kernel, running, off, at, owed, cause, fault>>

Actor == Thread \cup {Func}
Causes == {"listed", "busy", "used", "selfUsed", "twice", "unstopped", "delay"}
Faults == {"null", "freed", "double", "pending", "unset"}

DcTypeOK ==
    /\ kind \in Kinds
    /\ handle \in {"set", "null"}
    /\ block \in {"live", "freed"}
    /\ {due, queued, body, running, owed} \subseteq BOOLEAN
    /\ off \in Int
    /\ at \in [Actor -> {"idle", "queue", "off", "wait", "kill", "claimed", "clear"}]
    /\ cause \subseteq Causes
    /\ fault \subseteq Faults

DcInit ==
    /\ kind \in Kinds
    /\ handle = "set" /\ block = "live"
    /\ due = FALSE /\ queued = FALSE /\ body = FALSE
    /\ running = FALSE /\ off = 0
    /\ at = [a \in Actor |-> "idle"]
    /\ owed = FALSE
    /\ cause = {} /\ fault = {}

-----------------------------------------------------------------------------
Is(kinds) == kind \in kinds
Someone(places) == \E a \in Actor : at[a] \in places
Killing == Someone({"kill", "claimed", "clear"})
Gone == Killing \/ handle = "null" \/ block = "freed"
Busy == due \/ queued \/ body
InCall == {"queue", "off", "wait"}  \* with the pointer in hand

Went(a, place) == at' = [at EXCEPT ![a] = place]
Blame(causes) == cause' = cause \cup causes
Fail(faults) == fault' = fault \cup faults

(* The block is used.  An URB is counted: while it is under way the         *)
(* controller holds it too.                                                 *)
Held == Is({"urb"}) /\ (queued \/ body)
Touch == IF block = "freed" /\ ~Held THEN {"freed"} ELSE {}

(* A handle that is NULL is dereferenced all the same, after a message or   *)
(* without one; only the functions of the tasklet return.                   *)
NullIsFatal == ~Is({"tasklet"})

(* A completion is given its URB; every other call goes by the handle.      *)
HasPointer(a) == handle = "set" \/ (Is({"urb"}) /\ a = Func)

-----------------------------------------------------------------------------
(* Asking for the call.                                                     *)

(* The worklet's flag is set when the call begins, before the item is       *)
(* queued.                                                                  *)
MarkedBug(place) == place = "idle" /\ ~queued
Marked(place) == place = "idle"
Marks(a) == running' = (running \/ (Is({"worklet"}) /\ Marked(at[a])))

(* tdsp_worklet_schedule and the others, up to the use of the handle.       *)
Begin(a) ==
    /\ at[a] = "idle"
    /\ a = Func => body
    /\ HasPointer(a)
    /\ Went(a, "queue")
    /\ Marks(a)
    /\ owed' = (owed \/ (~Gone /\ ~Is({"urb"}) /\ (Is({"worklet"}) => ~body)))
    /\ Blame((IF ~Gone THEN {} ELSE IF a = Func THEN {"selfUsed"} ELSE {"used"})
             \cup (IF due \/ Someone({"queue"}) THEN {"unstopped"} ELSE {}))
    /\ Fail(IF Is({"worklet"}) THEN Touch ELSE {})
    /\ UNCHANGED <<kind, handle, block, kernel, off>>

(* The same, or tdsp_timer_stop, with a NULL handle.                        *)
BeginOnNull(a) ==
    /\ at[a] = "idle"
    /\ a = Func => body
    /\ ~HasPointer(a) /\ NullIsFatal
    /\ Blame({IF a = Func THEN "selfUsed" ELSE "used"})
    /\ Fail({"null"})
    /\ UNCHANGED <<kind, handle, block, kernel, running, off, at, owed>>

Queue(a) ==
    /\ at[a] = "queue"
    /\ Went(a, "idle")
    /\ Marks(a)
    /\ UNCHANGED <<kind, handle, block, body, off>>

(* schedule_work does nothing if the item is queued already.                *)
ScheduleWorklet(a) ==
    /\ Is({"worklet"}) /\ Queue(a)
    /\ queued' = TRUE
    /\ Fail(Touch)
    /\ UNCHANGED <<due, owed, cause>>

QueueWork(a) ==
    /\ Is({"work"}) /\ Queue(a)
    /\ queued' = TRUE
    /\ Fail(Touch)
    /\ UNCHANGED <<due, owed, cause>>

(* queue_delayed_work does nothing if the work is pending.  Without a delay *)
(* the item is queued at once.                                              *)
Pending == due \/ queued

QueueDelayedWork(a) ==
    /\ Is(Delayed) /\ Queue(a)
    /\ queued' = (queued \/ ~due)
    /\ Fail(Touch)
    /\ UNCHANGED <<due, owed, cause>>

(* With one the timer is started: unless the kernel has set its function,   *)
(* that is what the allocator left there, a NULL, which stops the kernel, or*)
(* an address that is called when the time is up.                           *)
Unset == IF Is({"delayed"}) THEN {"unset"} ELSE {}

DelayWork(a) ==
    /\ Is(Delayed) /\ Queue(a)
    /\ due' = (due \/ ~queued)
    /\ Blame(IF Is({"delayed"}) /\ ~Pending THEN {"delay"} ELSE {})
    /\ \E now \in SUBSET Unset : Fail(Touch \cup IF Pending THEN {} ELSE now)
    /\ UNCHANGED <<queued, owed>>

(* tasklet_kill keeps the mark "scheduled" for itself while it waits.       *)
ScheduleTasklet(a) ==
    /\ Is({"tasklet"}) /\ Queue(a)
    /\ queued' = (queued \/ ~Someone({"claimed"}))
    /\ Fail(Touch)
    /\ UNCHANGED <<due, owed, cause>>

(* add_timer stops the kernel if the timer runs; mod_timer moves it.        *)
StartTimer(a) ==
    /\ Is({"timer"}) /\ Queue(a)
    /\ due' = TRUE
    /\ Fail(Touch \cup IF due THEN {"pending"} ELSE {})
    /\ UNCHANGED <<queued, owed, cause>>

ResetTimer(a) ==
    /\ Is({"timer"}) /\ Queue(a)
    /\ due' = TRUE
    /\ Fail(Touch)
    /\ UNCHANGED <<queued, owed, cause>>

(* usb_submit_urb refuses an URB that is under way, and one being killed.   *)
SubmitUrb(a) ==
    /\ Is({"urb"}) /\ Queue(a)
    /\ queued' = (queued \/ off = 0)
    /\ owed' = (owed \/ (~Gone /\ off = 0 /\ ~queued))
    /\ Fail(Touch)
    /\ UNCHANGED <<due, cause>>

-----------------------------------------------------------------------------
(* Calling it off.                                                          *)

(* Any of the calls below, up to the use of the handle.                     *)
BeginOff(t) ==
    /\ ~Is({"worklet", "work"})
    /\ at[t] = "idle" /\ handle = "set"
    /\ Went(t, "off")
    /\ Blame(IF Gone THEN {"used"} ELSE {})
    /\ UNCHANGED <<kind, handle, block, kernel, running, off, owed, fault>>

CallOff(t, kinds, next) ==
    /\ Is(kinds) /\ at[t] = "off"
    /\ Went(t, next)
    /\ Fail(Touch)
    /\ UNCHANGED <<kind, handle, block, body, running, cause>>

(* del_timer: the handler may be running, and start the timer again.        *)
StopTimer(t) ==
    /\ CallOff(t, {"timer"}, "idle")
    /\ due' = FALSE /\ owed' = FALSE
    /\ UNCHANGED <<queued, off>>

(* del_timer_sync, of the Bluetooth driver: waits for the handler.          *)
StopTimerSync(t) ==
    /\ ~body
    /\ CallOff(t, {"timer"}, "idle")
    /\ due' = FALSE /\ owed' = FALSE
    /\ UNCHANGED <<queued, off>>

(* Whether cancel_delayed_work takes an item off the queue.                 *)
TakesOff == ~Is({"oldDelayed"})

CancelDelayedWork(t) ==
    /\ CallOff(t, Delayed, "idle")
    /\ due' = FALSE
    /\ queued' = (queued /\ ~TakesOff)
    /\ owed' = (owed /\ queued /\ ~TakesOff)
    /\ UNCHANGED off

(* tasklet_disable counts, and then waits for the function; tasklet_enable  *)
(* counts back, below 0 too, where the tasklet does not run either.         *)
DisableTasklet(t) ==
    /\ off < MaxOff
    /\ CallOff(t, {"tasklet"}, "wait")
    /\ off' = off + 1
    /\ UNCHANGED <<due, queued, owed>>

TaskletDisabled(t) ==
    /\ Is({"tasklet"}) /\ at[t] = "wait"
    /\ ~body
    /\ Went(t, "idle")
    /\ Fail(Touch)
    /\ UNCHANGED <<kind, handle, block, kernel, running, off, owed, cause>>

EnableTasklet(t) ==
    /\ off > -MaxOff
    /\ CallOff(t, {"tasklet"}, "idle")
    /\ off' = off - 1
    /\ UNCHANGED <<due, queued, owed>>

(* tdsp_usb_kill_urb: refuse submissions, have the URB completed, wait.     *)
KillUrb(t) ==
    /\ CallOff(t, {"urb"}, "wait")
    /\ off' = off + 1
    /\ UNCHANGED <<due, queued, owed>>

UrbKilled(t) ==
    /\ Is({"urb"}) /\ at[t] = "wait"
    /\ ~queued /\ ~body
    /\ off' = off - 1
    /\ Went(t, "idle")
    /\ Fail(Touch)
    /\ UNCHANGED <<kind, handle, block, kernel, running, owed, cause>>

-----------------------------------------------------------------------------
(* Killing the object: what is called off before the block is freed.        *)
CalledOffFirstBug(k) == k = "timer"
CalledOffFirst(k) == k = "timer" \/ k \in Delayed

(* The tasklet's kill waits, and so clears the queue; the others do not.    *)
WaitsForBodyBug(k) == FALSE
WaitsForBody(k) == k = "tasklet"

Kill(t) ==
    /\ at[t] = "idle" /\ handle = "set"
    /\ Is({"urb"}) => block = "live" /\ ~Killing
    /\ Went(t, "kill")
    /\ due' = (due /\ ~CalledOffFirst(kind))
    /\ queued' = (queued /\ ~(CalledOffFirst(kind) /\ TakesOff))
    /\ owed' = (owed /\ Is({"urb"}))
    /\ Blame((IF Busy THEN {"busy"} ELSE {})
             \cup (IF queued THEN {"listed"} ELSE {})
             \cup (IF Gone THEN {"twice"} ELSE {})
             \cup (IF at[Func] = "queue" THEN {"selfUsed"} ELSE {})
             \cup (IF \E u \in Thread : at[u] \in InCall THEN {"used"} ELSE {}))
    /\ Fail(Touch)
    /\ UNCHANGED <<kind, handle, block, body, running, off>>

(* tasklet_kill: take the mark "scheduled" when the tasklet is not queued.  *)
ClaimTasklet(t) ==
    /\ Is({"tasklet"}) /\ at[t] = "kill"
    /\ ~queued /\ ~Someone({"claimed"})
    /\ Went(t, "claimed")
    /\ UNCHANGED <<kind, handle, block, kernel, running, off, owed, cause, fault>>

(* ... and wait until it does not run.  Every kill then frees the block.    *)
FreeBlock(t) ==
    /\ at[t] = IF Is({"tasklet"}) THEN "claimed" ELSE "kill"
    /\ WaitsForBody(kind) => ~body
    /\ block' = "freed"
    /\ Fail(IF block = "freed" THEN {"double"} ELSE {})
    /\ Went(t, "clear")
    /\ UNCHANGED <<kind, handle, kernel, running, off, owed, cause>>

(* tdsp_delaywork_release leaves the handle as it is.                       *)
ClearHandle(t) ==
    /\ at[t] = "clear"
    /\ handle' = IF Is(Delayed) THEN handle ELSE "null"
    /\ Went(t, "idle")
    /\ UNCHANGED <<kind, block, kernel, running, off, owed, cause, fault>>

-----------------------------------------------------------------------------
(* The kernel.                                                              *)
CallFunc == body' = TRUE /\ owed' = FALSE

TimerExpires ==
    /\ Is({"timer"}) /\ due /\ ~body
    /\ due' = FALSE
    /\ CallFunc
    /\ Fail(Touch)
    /\ UNCHANGED <<kind, handle, block, queued, running, off, at, cause>>

DelayExpires ==
    /\ Is(Delayed) /\ due
    /\ due' = FALSE
    /\ queued' = (queued \/ Unset = {})
    /\ Fail(Touch \cup Unset)
    /\ UNCHANGED <<kind, handle, block, body, running, off, at, owed, cause>>

(* _tdsp_worklet_routine calls the function only if the flag is set.        *)
Calls == ~Is({"worklet"}) \/ running

Dispatch ==
    /\ queued /\ ~body
    /\ Is({"tasklet"}) => off = 0
    /\ queued' = FALSE
    /\ IF Calls THEN CallFunc ELSE UNCHANGED <<body, owed>>
    /\ Fail(Touch)
    /\ UNCHANGED <<kind, handle, block, due, running, off, at, cause>>

(* The flag is cleared when the function has returned.                      *)
FuncReturns ==
    /\ body /\ at[Func] = "idle"
    /\ body' = FALSE
    /\ running' = (running /\ ~Is({"worklet"}))
    /\ Fail(IF Is({"worklet"}) THEN Touch ELSE {})
    /\ UNCHANGED <<kind, handle, block, due, queued, off, at, owed, cause>>

-----------------------------------------------------------------------------
Queues(a) ==
    \/ ScheduleWorklet(a) \/ QueueWork(a) \/ QueueDelayedWork(a) \/ DelayWork(a)
    \/ ScheduleTasklet(a) \/ StartTimer(a) \/ ResetTimer(a) \/ SubmitUrb(a)

CallsOff(t) ==
    \/ StopTimer(t) \/ StopTimerSync(t) \/ CancelDelayedWork(t)
    \/ DisableTasklet(t) \/ EnableTasklet(t) \/ KillUrb(t)

Proceeds(t) ==
    \/ CallsOff(t) \/ TaskletDisabled(t) \/ UrbKilled(t)
    \/ ClaimTasklet(t) \/ FreeBlock(t) \/ ClearHandle(t)

NewCall(t) == BeginOff(t) \/ Kill(t)

Kernel == TimerExpires \/ DelayExpires \/ Dispatch \/ FuncReturns

Sound == fault = {}

DcNext ==
    /\ Sound
    /\ \/ \E a \in Actor : Begin(a) \/ BeginOnNull(a) \/ Queues(a)
       \/ \E t \in Thread : Proceeds(t) \/ NewCall(t)
       \/ Kernel

(* Threads go on with a call they have begun; timers expire, lists are      *)
(* worked off, and a function returns however often it asks for itself.     *)
DcFairness ==
    /\ \A a \in Actor : WF_dcVars(Sound /\ Queues(a))
    /\ \A t \in Thread : WF_dcVars(Sound /\ Proceeds(t))
    /\ WF_dcVars(Sound /\ (TimerExpires \/ DelayExpires))
    /\ WF_dcVars(Sound /\ Dispatch)
    /\ SF_dcVars(Sound /\ FuncReturns)

DcSpec == DcInit /\ [][DcNext]_dcVars /\ DcFairness

-----------------------------------------------------------------------------
(* Properties.                                                             *)

Excuse == [worklet    |-> {"busy", "used", "twice"},
           work       |-> {"listed", "used", "selfUsed", "twice"},
           delayed    |-> {"used", "selfUsed", "twice"},
           oldDelayed |-> {"listed", "used", "selfUsed", "twice"},
           timer      |-> {"used", "selfUsed", "twice", "unstopped"},
           tasklet    |-> {"used", "twice"},
           urb        |-> {"used"}]

(***************************************************************************)
(* What a library must not do, kind by kind, and that nothing else goes    *)
(* wrong: a worklet must not be killed while it is queued or runs (busy), a*)
(* work item, and on Linux 3.6 a delayed work, not while it is queued      *)
(* (listed); no object may be used beside or after its kill, by a thread   *)
(* (used) or by its function (selfUsed), nor killed twice; a timer must not*)
(* be started while it runs (unstopped); and from Linux 3.7 on no work may *)
(* be given a delay (delay), the only way to a timer without a function.   *)
(* A tasklet may even ask for itself while it is killed, and an URB be     *)
(* freed under way (tdsp_tasklet.c:53-104, tdsp_timer.c:63-113,            *)
(* tdsp_work.c:33-136).                                                    *)
(***************************************************************************)
FaultsExplained ==
    /\ fault \ {"unset"} # {} => cause \cap Excuse[kind] # {}
    /\ "unset" \in fault => kind = "delayed" /\ "delay" \in cause

(***************************************************************************)
(* If nobody asks beside or after the kill, a killed timer, delayed work   *)
(* or tasklet is not called again, and a killed tasklet has returned, even *)
(* if it was busy or asking for itself when the kill began, or its delay   *)
(* still ran; only on Linux 3.6 a delayed work must not be queued already  *)
(* (tdsp_timer.c:102-113, tdsp_work.c:82-100, tdsp_tasklet.c:93-104).      *)
(***************************************************************************)
QuietAfterKill ==
    /\ block = "freed" /\ Sound
    /\ kind \in {"timer", "tasklet"} \cup Delayed
    /\ cause \cap (Excuse[kind] \ {"unstopped"}) = {}
    => /\ ~due /\ ~queued
       /\ Is({"tasklet"}) => ~body

(***************************************************************************)
(* A call asked for takes place unless it is called off, the object is     *)
(* disabled or an error ends the run, as every delay does from Linux 3.7   *)
(* on.  Of a worklet this is promised only for a schedule that begins while*)
(* its routine does not run: the routine clears the flag after the function*)
(* and so forgets a later one (tdsp_tasklet.c:31-35, 62-68).               *)
(***************************************************************************)
ScheduledRuns == owed ~> (~owed \/ off # 0 \/ ~Sound)
=============================================================================
