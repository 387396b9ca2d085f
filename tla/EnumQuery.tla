------------------------------ MODULE EnumQuery ------------------------------
(***************************************************************************)
(* IOCTL_BUSENUM_READ_ENUM_MODE and WRITE_ENUM_MODE (bus/busioctl.c) store *)
(* by store.  The answer is put together in FdoData->EnumMode, one field   *)
(* for all callers, and copied to the caller from there, without a lock.   *)
(* The registry's other handlers appear as changes of what the query reads:*)
(* a function registered or not, started or not, decided on by a program   *)
(* or not.                                                                 *)
(*                                                                         *)
(* A value is its two bytes: the functions started (low) and the functions *)
(* not started that no program has decided on (high).  "rest" stands for   *)
(* the other bits of a byte, all set in (ULONG)(-1).                       *)
(***************************************************************************)
EXTENDS Integers

CONSTANTS
    Reader,   \* threads in READ_ENUM_MODE
    Writer,   \* threads in WRITE_ENUM_MODE
    Changes   \* how many changes of the registry are followed while it is read

ASSUME QueryAssumption == Reader \cap Writer = {} /\ Changes \in Nat

VARIABLES
    EnumMode,   \* FdoData->EnumMode
    view,       \* what the query sees of each function
    reader,     \* the next step of each reader
    met,        \* history: readers beside which another reader or writer was at work
    seen,       \* history: what each reader's functions were since it began
    changed     \* changes of the registry so far

eqVars == <<EnumMode, view, reader, met, seen, changed>>

Fn == {"BT", "WLAN"}
Bits == Fn \cup {"rest"}
Value == [low : SUBSET Bits, high : SUBSET Bits]
Zero == [low |-> {}, high |-> {}]
MinusOne == [low |-> Bits, high |-> Bits]

(* Started; not started and no program has decided; not started otherwise;  *)
(* not registered.                                                          *)
View == {"started", "undecided", "off", "absent"}

Step == {"out", "zero", "BT", "WLAN", "fold", "copy"}

EqTypeOK ==
    /\ EnumMode \in Value
    /\ view \in [Fn -> View]
    /\ reader \in [Reader -> Step]
    /\ met \subseteq Reader
    /\ seen \in [Reader -> [Fn -> SUBSET View]]
    /\ changed \in 0..Changes

Unseen == [f \in Fn |-> {}]

EqInit ==
    /\ EnumMode = Zero
    /\ view \in [Fn -> View]
    /\ reader = [r \in Reader |-> "out"]
    /\ met = {}
    /\ seen = [r \in Reader |-> Unseen]
    /\ changed = 0

Inside(r) == reader[r] # "out"
Go(r, step) == reader' = [reader EXCEPT ![r] = step]

-----------------------------------------------------------------------------
(* A plug, an unplug, a probe or a disconnect of function f.                *)
Change(f, v) ==
    /\ changed < Changes /\ view[f] # v
    /\ view' = [view EXCEPT ![f] = v]
    /\ seen' = [r \in Reader |-> IF Inside(r) THEN [seen[r] EXCEPT ![f] = @ \cup {v}]
                                 ELSE seen[r]]
    /\ changed' = changed + 1
    /\ UNCHANGED <<EnumMode, reader, met>>

EnterRead(r) ==
    /\ ~Inside(r)
    /\ Go(r, "zero")
    /\ met' = IF \E q \in Reader : Inside(q)
              THEN met \cup {r} \cup {q \in Reader : Inside(q)}
              ELSE met
    /\ seen' = [seen EXCEPT ![r] = [f \in Fn |-> {view[f]}]]
    /\ UNCHANGED <<EnumMode, view, changed>>

ZeroMode(r) ==
    /\ reader[r] = "zero"
    /\ EnumMode' = Zero
    /\ Go(r, "BT")
    /\ UNCHANGED <<view, met, seen, changed>>

(* Each function: find it, look at it, store or OR its bit.                 *)
LowBits(f) == IF view[f] = "started" THEN {f} ELSE {}
HighBits(f) == IF view[f] = "undecided" THEN {f} ELSE {}

ReadBt(r) ==
    /\ reader[r] = "BT"
    /\ EnumMode' = IF view["BT"] \in {"started", "undecided"}
                   THEN [low |-> LowBits("BT"), high |-> HighBits("BT")]
                   ELSE EnumMode
    /\ Go(r, "WLAN")
    /\ UNCHANGED <<view, met, seen, changed>>

ReadWlan(r) ==
    /\ reader[r] = "WLAN"
    /\ EnumMode' = [low |-> EnumMode.low \cup LowBits("WLAN"),
                    high |-> EnumMode.high \cup HighBits("WLAN")]
    /\ Go(r, "fold")
    /\ UNCHANGED <<view, met, seen, changed>>

(* Something started hides what is undecided; else that shows as -1.        *)
FoldBug(v) == IF v.high # {} THEN MinusOne ELSE v
Fold(v) == IF v.low # {} THEN [low |-> v.low, high |-> {}]
           ELSE IF v.high # {} THEN MinusOne ELSE v

FoldMode(r) ==
    /\ reader[r] = "fold"
    /\ EnumMode' = Fold(EnumMode)
    /\ Go(r, "copy")
    /\ UNCHANGED <<view, met, seen, changed>>

CopyToUser(r) ==
    /\ reader[r] = "copy"
    /\ Go(r, "out")
    /\ seen' = [seen EXCEPT ![r] = Unseen]
    /\ met' = met \ {r}
    /\ UNCHANGED <<EnumMode, view, changed>>

(* WRITE_ENUM_MODE stores what it is given.                                 *)
WriteMode(w, v) ==
    /\ EnumMode' = v
    /\ met' = met \cup {r \in Reader : Inside(r)}
    /\ UNCHANGED <<view, reader, seen, changed>>

-----------------------------------------------------------------------------
Written == {[low |-> low, high |-> {}] : low \in SUBSET Fn}

EqNext ==
    \/ \E f \in Fn, v \in View : Change(f, v)
    \/ \E r \in Reader : EnterRead(r) \/ ZeroMode(r) \/ ReadBt(r) \/ ReadWlan(r)
                         \/ FoldMode(r) \/ CopyToUser(r)
    \/ \E w \in Writer, v \in Written : WriteMode(w, v)

EqSpec == EqInit /\ [][EqNext]_eqVars

-----------------------------------------------------------------------------
(* Properties.                                                             *)

(* What the ioctl is meant to say of the functions as v has them.           *)
Meant(v) ==
    LET on == {f \in Fn : v[f] = "started"} IN
    IF on # {} THEN [low |-> on, high |-> {}]
    ELSE IF \E f \in Fn : v[f] = "undecided" THEN MinusOne
    ELSE Zero

(***************************************************************************)
(* A query beside which no other query and no WRITE_ENUM_MODE was at work  *)
(* copies out what was meant for states its functions really had while it  *)
(* ran, whatever an earlier or interrupted one left in the shared field    *)
(* and although the registry changes under it (busioctl.c:670-711).        *)
(***************************************************************************)
LoneQueryRight ==
    \A r \in Reader : reader[r] = "copy" /\ r \notin met =>
        \E b \in seen[r]["BT"], w \in seen[r]["WLAN"] :
            EnumMode = Meant([f \in Fn |-> IF f = "BT" THEN b ELSE w])
=============================================================================
