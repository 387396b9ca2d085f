------------------------------- MODULE OsEvent -------------------------------
(***************************************************************************)
(* The events of the two drivers (wlan/tdsp_event.c and                    *)
(* new_bluetooth/tdsp_event.c): a flag and a wait queue, by which a thread *)
(* of the private library waits for the answer of the card.  Any thread    *)
(* may set, wait, reset and kill at any time.                              *)
(*                                                                         *)
(* wait_event_interruptible_timeout of Linux 3.8, for which the modules    *)
(* were built, tests the flag before it sleeps and when it is woken, but   *)
(* not when the time is up.  A behaviour ends with a use of freed memory.  *)
(***************************************************************************)
EXTENDS Integers

CONSTANTS
    Waiter,    \* threads that wait
    Sender     \* threads, or interrupt handlers, that set, reset and kill

VARIABLES
    flag,     \* SIGNED or UNSIGNED
    context,  \* env->event: the block with flag and queue
    wait,     \* where each waiter is
    send,     \* what each sender is in the middle of
    news,     \* history: set since a waiter last saw the flag
    answers,  \* history: sets since each waiter's wait began, at most 2 counted
    lost,     \* history: how a set that nobody saw has been lost
    misuse    \* history: the block was freed under somebody

evVars == <<flag, context, wait, send, news, answers, lost, misuse>>

Asleep == {"asleep", "woken"}
Ended == {"seen", "timeout", "signal"}
Waiting == Asleep \cup Ended

EvTypeOK ==
    /\ flag \in {"SIGNED", "UNSIGNED"}
    /\ context \in {"live", "null"}
    /\ wait \in [Waiter -> {"out"} \cup Waiting]
    /\ send \in [Sender -> {"idle", "wake"}]
    /\ news \in BOOLEAN /\ misuse \in BOOLEAN
    /\ answers \in [Waiter -> 0..2]
    /\ lost \subseteq {"late", "twice", "reset", "unexplained"}

EvInit ==
    /\ flag = "UNSIGNED"
    /\ context = "live"
    /\ wait = [w \in Waiter |-> "out"]
    /\ send = [s \in Sender |-> "idle"]
    /\ news = FALSE
    /\ answers = [w \in Waiter |-> 0]
    /\ lost = {}
    /\ misuse = FALSE

Waits(w, place) == wait' = [wait EXCEPT ![w] = place]
Woken == [w \in Waiter |-> IF wait[w] = "asleep" THEN "woken" ELSE wait[w]]

-----------------------------------------------------------------------------
(* tdsp_event_set: the flag, and then the wake-up.                          *)
StoreFlag(s) ==
    /\ send[s] = "idle" /\ context = "live"
    /\ flag' = "SIGNED"
    /\ news' = TRUE
    /\ answers' = [w \in Waiter |-> IF wait[w] \in Waiting /\ answers[w] < 2
                                    THEN answers[w] + 1 ELSE answers[w]]
    /\ send' = [send EXCEPT ![s] = "wake"]
    /\ UNCHANGED <<context, wait, lost, misuse>>

WakeUpBug == wait
WakeUp == Woken

Wake(s) ==
    /\ send[s] = "wake"
    /\ send' = [send EXCEPT ![s] = "idle"]
    /\ wait' = WakeUp
    /\ misuse' = (misuse \/ context = "null")
    /\ UNCHANGED <<flag, context, news, answers, lost>>

(* tdsp_event_wait.  A set that came before the wait counts.                *)
FlagAtBeginBug == "UNSIGNED"
FlagAtBegin == flag

BeginWait(w) ==
    /\ wait[w] = "out" /\ context = "live"
    /\ flag' = FlagAtBegin
    /\ Waits(w, IF flag' = "SIGNED" THEN "seen" ELSE "asleep")
    /\ answers' = [answers EXCEPT ![w] = IF flag' = "SIGNED" THEN 1 ELSE 0]
    /\ news' = FALSE
    /\ lost' = lost \cup IF news /\ flag' # "SIGNED" THEN {"unexplained"} ELSE {}
    /\ UNCHANGED <<context, send, misuse>>

TestAgain(w) ==
    /\ wait[w] = "woken"
    /\ Waits(w, IF flag = "SIGNED" THEN "seen" ELSE "asleep")
    /\ news' = (news /\ flag # "SIGNED")
    /\ misuse' = (misuse \/ context = "null")
    /\ UNCHANGED <<flag, context, send, answers, lost>>

(* The time may be up before the waiter gets to test the flag again; a      *)
(* signal is noticed after the test.                                        *)
TimeIsUp(w) ==
    /\ wait[w] \in Asleep
    /\ Waits(w, "timeout")
    /\ misuse' = (misuse \/ context = "null")
    /\ UNCHANGED <<flag, context, send, news, answers, lost>>

Interrupt(w) ==
    /\ wait[w] \in Asleep /\ flag # "SIGNED"
    /\ Waits(w, "signal")
    /\ misuse' = (misuse \/ context = "null")
    /\ UNCHANGED <<flag, context, send, news, answers, lost>>

(* Whatever ended the wait, the flag is cleared; the result is returned.    *)
HowLost(w) == CASE wait[w] # "seen" -> "late"
                [] answers[w] = 2   -> "twice"
                [] OTHER            -> "unexplained"

EndWait(w) ==
    /\ wait[w] \in Ended
    /\ Waits(w, "out")
    /\ flag' = "UNSIGNED"
    /\ news' = FALSE
    /\ lost' = lost \cup IF news THEN {HowLost(w)} ELSE {}
    /\ misuse' = (misuse \/ context = "null")
    /\ UNCHANGED <<context, send, answers>>

(* tdsp_event_reset, of the WLAN driver; it wakes the waiters to no effect. *)
Reset(s) ==
    /\ send[s] = "idle" /\ context = "live"
    /\ flag' = "UNSIGNED"
    /\ wait' = Woken
    /\ news' = FALSE
    /\ lost' = lost \cup IF news THEN {"reset"} ELSE {}
    /\ UNCHANGED <<context, send, answers, misuse>>

(* tdsp_event_flag_set(UNSIGNED), of the Bluetooth driver: only the flag.   *)
ClearFlag(s) ==
    /\ send[s] = "idle" /\ context = "live"
    /\ flag' = "UNSIGNED"
    /\ news' = FALSE
    /\ lost' = lost \cup IF news THEN {"reset"} ELSE {}
    /\ UNCHANGED <<context, wait, send, answers, misuse>>

(* tdsp_event_kill: free, without a wake-up; every later call returns 0.    *)
KillEvent(s) ==
    /\ send[s] = "idle" /\ context = "live"
    /\ context' = "null"
    /\ misuse' = (misuse \/ \E w \in Waiter : wait[w] # "out")
    /\ UNCHANGED <<flag, wait, send, news, answers, lost>>

-----------------------------------------------------------------------------
EvNext ==
    /\ ~misuse
    /\ \/ \E s \in Sender : StoreFlag(s) \/ Wake(s) \/ Reset(s) \/ ClearFlag(s) \/ KillEvent(s)
       \/ \E w \in Waiter : BeginWait(w) \/ TestAgain(w) \/ TimeIsUp(w) \/ Interrupt(w) \/ EndWait(w)

EvSpec == EvInit /\ [][EvNext]_evVars

-----------------------------------------------------------------------------
(* Properties.                                                             *)

(***************************************************************************)
(* No wake-up is missed: whenever the flag is set, either nobody sleeps on *)
(* it or the setter has not got to its wake-up yet, although the waiter's  *)
(* test and its falling asleep, the setter's store and its wake-up, and    *)
(* the resets of other threads interleave (tdsp_event.c:49-59, 62-74).     *)
(***************************************************************************)
NoMissedWakeup ==
    context = "live" /\ flag = "SIGNED" /\ (\E w \in Waiter : wait[w] = "asleep") =>
        \E s \in Sender : send[s] = "wake"

(***************************************************************************)
(* An answer is lost only if a waiter gave up (late; it clears the flag,   *)
(* also of the others that still wait), more than one came in one wait     *)
(* (twice), or somebody reset the event: one answer per wait, in time, is  *)
(* always seen by some waiter, whether it comes before the wait or in it,  *)
(* and although the flag is cleared some time after the wait has ended     *)
(* (tdsp_event.c:72-73).                                                   *)
(***************************************************************************)
LostNeedsRace == "unexplained" \notin lost
=============================================================================
