---------------------------- MODULE MCDriverParts ----------------------------
(* The small parts of the kernel modules, for TLC.  They share no state, so *)
(* a behaviour follows one of them and leaves the others where they begin.  *)
EXTENDS DeferredCalls, OsEvent, DownoutClock, EnumQuery, WlanPower, Frames, TLC

VARIABLE focus  \* the part that is followed

Part == {"deferred", "event", "clock", "query", "power", "frames"}

PartsInit ==
    /\ focus \in Part
    /\ DcInit /\ EvInit /\ DnInit /\ EqInit /\ PwInit /\ FrInit
    /\ focus # "deferred" => kind = "urb"
    /\ focus # "frames" => link = "bt"
    /\ focus # "query" => view = [f \in Fn |-> "absent"]

PartsNext ==
    /\ UNCHANGED focus
    /\ \/ focus = "deferred" /\ DcNext /\ UNCHANGED <<evVars, dnVars, eqVars, pwVars, frVars>>
       \/ focus = "event" /\ EvNext /\ UNCHANGED <<dcVars, dnVars, eqVars, pwVars, frVars>>
       \/ focus = "clock" /\ DnNext /\ UNCHANGED <<dcVars, evVars, eqVars, pwVars, frVars>>
       \/ focus = "power" /\ PwNext /\ UNCHANGED <<dcVars, evVars, dnVars, eqVars, frVars>>
       \/ focus = "frames" /\ FrNext /\ UNCHANGED <<dcVars, evVars, dnVars, eqVars, pwVars>>
       \/ focus = "query" /\ EqNext /\ UNCHANGED <<dcVars, evVars, dnVars, pwVars, frVars>>

PartsSpec ==
    PartsInit /\ [][PartsNext]_<<focus, dcVars, evVars, dnVars, eqVars, pwVars, frVars>> /\ DcFairness

(* Readings around every edge of the test: a millisecond, a second, 1001 s. *)
MCSec == {1, 2, 3, 1001, 1002, 1003}
MCUsec == {0, 1, 999, 1000, 1001, 2000, 500000, 998999, 999999}
=============================================================================
