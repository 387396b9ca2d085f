------------------------------ MODULE WlanPower ------------------------------
(***************************************************************************)
(* Suspend and resume of the WLAN driver (wlan/lwlan_entry.c).  A resume   *)
(* has to tell the library what kind of sleep the card comes from, but USB *)
(* does not say; _wlan_suspend_type remembers the last suspend in a static *)
(* variable, one for all cards, which the first resume to look clears.     *)
(*                                                                         *)
(* USB devices are suspended and resumed concurrently.  A system           *)
(* transition may be given up with only some cards asleep, and a card may  *)
(* be lost in its sleep: it is then disconnected without a resume.  An     *)
(* interface that is bound has its adapter, so the early returns for a     *)
(* NULL one are not taken; usbcore never suspends on its own, since the    *)
(* driver does not claim supports_autosuspend.                             *)
(***************************************************************************)
CONSTANT Card

VARIABLES
    suspend_type, \* the static variable; "none" is its -1
    transition,   \* the system's transition: its event and direction
    card,         \* what each card is doing
    own,          \* history: the event of the card's last suspend
    told          \* the type Adap_Resume was given last

pwVars == <<suspend_type, transition, card, own, told>>

Event == {"suspend", "freeze", "hibernate"}
Type == Event \cup {"none"}
Steady == [event |-> "none", way |-> "steady"]

PwTypeOK ==
    /\ suspend_type \in Type
    /\ transition \in [event : Type, way : {"steady", "down", "up"}]
    /\ card \in [Card -> {"gone", "awake", "asleep", "loaded", "resumed"}]
    /\ own \in [Card -> Type] /\ told \in [Card -> Type]

PwInit ==
    /\ suspend_type = "none"
    /\ transition = Steady
    /\ card = [c \in Card |-> "gone"]
    /\ own = [c \in Card |-> "none"]
    /\ told = [c \in Card |-> "none"]

-----------------------------------------------------------------------------
(* The system, and the hub's thread, which is frozen in a transition.       *)
Plug(c) ==
    /\ transition = Steady /\ card[c] = "gone"
    /\ card' = [card EXCEPT ![c] = "awake"]
    /\ UNCHANGED <<suspend_type, transition, own, told>>

Unplug(c) ==
    /\ transition = Steady /\ card[c] # "gone"
    /\ card' = [card EXCEPT ![c] = "gone"]
    /\ UNCHANGED <<suspend_type, transition, own, told>>

GoDown(e) ==
    /\ transition = Steady
    /\ transition' = [event |-> e, way |-> "down"]
    /\ card' = [c \in Card |-> IF card[c] = "gone" THEN "gone" ELSE "awake"]
    /\ UNCHANGED <<suspend_type, own, told>>

GoUp ==
    /\ transition.way = "down"
    /\ transition' = [transition EXCEPT !.way = "up"]
    /\ UNCHANGED <<suspend_type, card, own, told>>

Settle ==
    /\ transition.way = "up"
    /\ \A c \in Card : card[c] \notin {"asleep", "loaded"}
    /\ transition' = Steady
    /\ UNCHANGED <<suspend_type, card, own, told>>

Lose(c) ==
    /\ transition.way = "up" /\ card[c] = "asleep"
    /\ card' = [card EXCEPT ![c] = "gone"]
    /\ UNCHANGED <<suspend_type, transition, own, told>>

-----------------------------------------------------------------------------
(* _wlan_suspend_type, with an event: the last suspend wins.                *)
StoredBug(old, e) == IF old = "none" THEN e ELSE old
Stored(old, e) == e

Suspend(c) ==
    /\ transition.way = "down" /\ card[c] = "awake"
    /\ suspend_type' = Stored(suspend_type, transition.event)
    /\ card' = [card EXCEPT ![c] = "asleep"]
    /\ own' = [own EXCEPT ![c] = transition.event]
    /\ UNCHANGED <<transition, told>>

(* With 0, of _wlan_usb_resume and _wlan_usb_reset_resume: load and test,   *)
(* and then clear, with no lock between.                                    *)
LoadType(c) ==
    /\ transition.way = "up" /\ card[c] = "asleep"
    /\ told' = [told EXCEPT ![c] = suspend_type]
    /\ card' = [card EXCEPT ![c] = IF suspend_type = "none" THEN "resumed" ELSE "loaded"]
    /\ UNCHANGED <<suspend_type, transition, own>>

ClearType(c) ==
    /\ card[c] = "loaded"
    /\ suspend_type' = "none"
    /\ card' = [card EXCEPT ![c] = "resumed"]
    /\ UNCHANGED <<transition, own, told>>

PwNext ==
    \/ \E e \in Event : GoDown(e)
    \/ GoUp \/ Settle
    \/ \E c \in Card : Plug(c) \/ Unplug(c) \/ Lose(c)
                       \/ Suspend(c) \/ LoadType(c) \/ ClearType(c)

PwSpec == PwInit /\ [][PwNext]_pwVars

-----------------------------------------------------------------------------
(* Properties.                                                             *)

(***************************************************************************)
(* A card that resumes is told the event of its own suspend, or nothing    *)
(* because another card has been told already; of the cards that resume in *)
(* a transition at least one is told.  A type left behind by a card lost   *)
(* in an earlier transition is never told to another                       *)
(* (lwlan_entry.c:366-398, 422, 434, 456).                                 *)
(***************************************************************************)
SleepTold ==
    LET Resumed == {c \in Card : card[c] = "resumed"} IN
    transition.way = "up" =>
        /\ \A c \in Resumed : told[c] \in {own[c], "none"}
        /\ Resumed # {} => \E c \in Resumed : told[c] # "none"
=============================================================================
