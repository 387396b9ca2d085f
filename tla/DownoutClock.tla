----------------------------- MODULE DownoutClock -----------------------------
(***************************************************************************)
(* time_downout_duration (wlan/tdsp_timer.c), which the WLAN library asks  *)
(* whether more than a second has passed since it asked last.  It adds the *)
(* difference of the microseconds to a count of milliseconds.              *)
(*                                                                         *)
(* The difference is an int: readings are less than MaxGap seconds apart,  *)
(* within which it does not overflow.                                      *)
(***************************************************************************)
EXTENDS Integers

CONSTANTS
    Sec,    \* seconds the clock is read at
    Usec,   \* and microseconds
    MaxGap  \* seconds within which two readings lie

ASSUME SecAssumption == Sec \subseteq Nat \ {0}
ASSUME UsecAssumption == Usec \subseteq Nat /\ \A u \in Usec : u < 1000000
ASSUME MaxGapAssumption == MaxGap \in Nat \ {0} /\ MaxGap < 2147483

VARIABLES
    st_time,  \* the reading of the last call; 0 before the first
    since,    \* history: the reading of the call before, 0 before the first
    answer    \* what the last call returned

dnVars == <<st_time, since, answer>>

Time == [tv_sec : Sec, tv_usec : Usec]
Never == [tv_sec |-> 0, tv_usec |-> 0]

DnInit == st_time = Never /\ since = Never /\ answer = 0

(* The code's count_ms, and its test.                                       *)
CountBug(st, ct) == (ct.tv_sec - st.tv_sec) * 1000 + (st.tv_usec - ct.tv_usec)
Count(st, ct) == (ct.tv_sec - st.tv_sec) * 1000 + (ct.tv_usec - st.tv_usec)

Expired(st, ct) == ct.tv_sec >= st.tv_sec /\ Count(st, ct) > 1000

(* The clock may also have been set back.                                   *)
TimeDownoutDuration(ct) ==
    /\ st_time # Never => ct.tv_sec - st_time.tv_sec \in -MaxGap..MaxGap
    /\ since' = st_time
    /\ st_time' = ct
    /\ answer' = IF st_time = Never \/ Expired(st_time, ct) THEN 1 ELSE 0

DnNext == \E ct \in Time : TimeDownoutDuration(ct)

DnSpec == DnInit /\ [][DnNext]_dnVars

-----------------------------------------------------------------------------
(* Properties.                                                             *)

(* The microseconds from one reading to a later one.                        *)
Elapsed(st, ct) == (ct.tv_sec - st.tv_sec) * 1000000 + (ct.tv_usec - st.tv_usec)

(***************************************************************************)
(* What the answer is worth (tdsp_timer.c:156-162).  "Expired" means that  *)
(* more than a millisecond has passed, and is certain only after 1001      *)
(* seconds; in between it depends on the microseconds of the two readings. *)
(* Within one second it means exactly that a millisecond has passed.  After*)
(* the clock was set back it is never given.                               *)
(***************************************************************************)
DownoutBounds ==
    since # Never =>
        LET e == Elapsed(since, st_time) IN
        /\ answer = 1 => e > 1000
        /\ e >= 1001000000 => answer = 1
        /\ since.tv_sec = st_time.tv_sec => (answer = 1 <=> e > 1000)
=============================================================================
