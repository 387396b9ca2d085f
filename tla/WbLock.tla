-------------------------------- MODULE WbLock --------------------------------
(***************************************************************************)
(* Who may switch the card: the tray program uwb (applications/uwb) and the *)
(* command uwbtool (applications/uwbtool) both lock wbusb.conf with         *)
(* fcntl(F_SETLK), and uwb also counts the processes of its own name.       *)
(*                                                                          *)
(* The lock is a POSIX record lock: it belongs to the process, F_SETLK by   *)
(* its owner succeeds again, and the kernel drops it as soon as the owner   *)
(* closes ANY descriptor of the file.  Both programs also read their        *)
(* configuration from the same file, with fopen and fclose.                 *)
(***************************************************************************)
CONSTANTS
    Gui,       \* processes that run uwb
    Tool,      \* processes that run uwbtool -a or uwbtool -r
    Nobody     \* the lock is free

ASSUME KindAssumption == Gui \cap Tool = {} /\ Nobody \notin Gui \cup Tool

Process == Gui \cup Tool

VARIABLES
    at,      \* where each process is; "dead" before it starts and after it exits
    holder   \* the process whose lock the kernel has recorded

vars == <<at, holder>>

Place == {"dead", "config", "lock", "count", "relock", "work"}

(* Type correctness, and no process that is gone owns the lock.             *)
LockTypeOK ==
    /\ at \in [Process -> Place]
    /\ holder \in Process \cup {Nobody}
    /\ holder # Nobody => at[holder] # "dead"

Init ==
    /\ at = [p \in Process |-> "dead"]
    /\ holder = Nobody

-----------------------------------------------------------------------------
Goto(p, place) == at' = [at EXCEPT ![p] = place]

(* What the kernel does when p closes a descriptor of wbusb.conf, or exits. *)
Dropped(p) == holder' = IF holder = p THEN Nobody ELSE holder

MayLock(p) == holder \in {p, Nobody}

Exit(p) == Goto(p, "dead") /\ Dropped(p)

(* uwb locks first; uwbtool reads its configuration first.                  *)
Start(p) ==
    /\ at[p] = "dead"
    /\ Goto(p, IF p \in Gui THEN "lock" ELSE "config")
    /\ UNCHANGED holder

(* maincontrol: whoever fails to lock exits.                                *)
MainControl(p) ==
    /\ at[p] = "lock"
    /\ IF MayLock(p)
       THEN holder' = p /\ Goto(p, IF p \in Gui THEN "count" ELSE "work")
       ELSE Exit(p)

(* query_self_process_num: ps lists the live processes of the same name;    *)
(* the caller goes on if it is the only one.                                *)
SameNameBug(p) == {q \in Gui : at[q] = "work" \/ q = p}
SameName(p) == {q \in Gui : at[q] # "dead"}

QuerySelfProcessNum(p) ==
    /\ at[p] = "count"
    /\ IF SameName(p) # {p}
       THEN Exit(p)
       ELSE Goto(p, "config") /\ UNCHANGED holder

(* get_config_from_file ends with fclose, which drops the caller's lock.    *)
AfterConfigBug(p) == IF p \in Gui THEN "relock" ELSE "work"
AfterConfig(p) == IF p \in Gui THEN "relock" ELSE "lock"

GetConfig(p) ==
    /\ at[p] = "config"
    /\ Goto(p, AfterConfig(p))
    /\ Dropped(p)

(* uwb calls maincontrol a second time and ignores the answer.              *)
Relock(p) ==
    /\ at[p] = "relock"
    /\ holder' = IF MayLock(p) THEN p ELSE holder
    /\ Goto(p, "work")

(* A process exits when its work is done, and may be killed anywhere.       *)
Finish(p) ==
    /\ at[p] # "dead"
    /\ Exit(p)

Next == \E p \in Process :
    \/ Start(p)
    \/ MainControl(p)
    \/ QuerySelfProcessNum(p)
    \/ GetConfig(p)
    \/ Relock(p)
    \/ Finish(p)

Spec == Init /\ [][Next]_vars

-----------------------------------------------------------------------------
(* Properties.                                                             *)

Working(p) == at[p] = "work"

(***************************************************************************)
(* Two uwbtool commands never switch the card at the same time: uwbtool    *)
(* closes wbusb.conf before it locks it, never after (main.c:1533, 1584).  *)
(***************************************************************************)
OneTool == \A p, q \in Tool : Working(p) /\ Working(q) => p = q

(***************************************************************************)
(* Two uwb programs never work at the same time (uwb/README: "Can not be   *)
(* started with two processes at the same time"), although each of them    *)
(* gives its lock up between counting the processes and working: the count *)
(* alone excludes the other one.                                           *)
(***************************************************************************)
OneGui == \A p, q \in Gui : Working(p) /\ Working(q) => p = q

(***************************************************************************)
(* uwbtool/readme, note 2: "The command 'uwbtool -r' and 'uwbtool -a' can  *)
(* not be used during uwb program is running".                             *)
(***************************************************************************)
GuiExcludesTool == \A p \in Gui, q \in Tool : ~(Working(p) /\ Working(q))
=============================================================================
