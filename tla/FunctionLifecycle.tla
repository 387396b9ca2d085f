-------------------------- MODULE FunctionLifecycle --------------------------
(***************************************************************************)
(* What the bus promises of one function (Bluetooth or WLAN) of the card,  *)
(* as long as the calls on that function do not overlap: the life of its   *)
(* radio, and when it comes back by itself after the card was away.  An    *)
(* overlap makes the function "lost": nothing is promised of it any more.  *)
(***************************************************************************)
VARIABLES
    st,     \* the radio of the function
    again   \* it is opened by itself the next time the card appears

vars == <<st, again>>

State == {"gone", "off", "opening", "on", "closing", "detaching", "lost"}

TypeOK ==
    /\ st \in State
    /\ again \in BOOLEAN

Init ==
    /\ st = "gone"
    /\ again = FALSE

Appear ==
    /\ st = "gone"
    /\ st' = IF again THEN "opening" ELSE "off"
    /\ UNCHANGED again

Open ==
    /\ st = "off"
    /\ st' = "opening"
    /\ UNCHANGED again

\* A function that was opened is opened again when it comes back.
Opened ==
    /\ st = "opening"
    /\ st' = "on"
    /\ again' = TRUE

\* A failure decides nothing.
OpenFailed ==
    /\ st = "opening"
    /\ st' = "off"
    /\ UNCHANGED again

\* Closing a function that is off already takes back a start with the system.
Close ==
    /\ st \in {"on", "off"}
    /\ st' = "closing"
    /\ again' = (st = "on")

\* A function that was closed stays off when it comes back.
Closed ==
    /\ st = "closing"
    /\ st' = "off"
    /\ again' = FALSE

\* The card goes; an open function is closed before its driver is released.
Vanish ==
    /\ \/ st = "off" /\ st' = "gone"
       \/ st = "on" /\ st' = "detaching"
    /\ UNCHANGED again

Vanished ==
    /\ st = "detaching"
    /\ st' = "gone"
    /\ UNCHANGED again

\* SET_HOTKEY_FLAG.
StartWithOS ==
    /\ st # "lost"
    /\ again' = TRUE
    /\ UNCHANGED st

\* A second call on a function whose driver is being called.
Overlap ==
    /\ st \in {"opening", "closing", "detaching"}
    /\ st' = "lost"
    /\ again' = FALSE

Next ==
    \/ Appear \/ Open \/ Opened \/ OpenFailed \/ Close \/ Closed
    \/ Vanish \/ Vanished \/ StartWithOS \/ Overlap

Spec == Init /\ [][Next]_vars
=============================================================================
