----------------------------- MODULE WbLock_proofs -----------------------------
(***************************************************************************)
(* Proofs about WbLock, for any number of processes of both programs.      *)
(*                                                                         *)
(* OneTool follows from the lock: a command that works owns it.  OneGui    *)
(* does not, since uwb drops the lock on its way: once a tray program has  *)
(* passed the count, every other one is dead or has not counted yet, and   *)
(* it will count this one as long as it lives.                             *)
(***************************************************************************)
EXTENDS WbLock, TLAPS

Counted == {"config", "relock", "work"}

IInv ==
    /\ LockTypeOK
    /\ \A p \in Tool : at[p] \in {"dead", "config", "lock", "work"}
    /\ \A p \in Tool : at[p] = "work" => holder = p
    /\ \A p, q \in Gui : at[p] \in Counted /\ at[q] \in Counted => p = q

LEMMA InitIInv == Init => IInv
  BY KindAssumption DEF Init, IInv, LockTypeOK, Process, Place, Counted

LEMMA NextIInv == IInv /\ [Next]_vars => IInv'
<1> SUFFICES ASSUME IInv, [Next]_vars
             PROVE  IInv'
  OBVIOUS
<1> USE KindAssumption DEF IInv, LockTypeOK, Process, Place, Counted
<1>1. CASE UNCHANGED vars
  BY <1>1 DEF vars
<1>2. ASSUME NEW p \in Process, Start(p)
      PROVE  IInv'
  BY <1>2 DEF Start, Goto
<1>3. ASSUME NEW p \in Process, MainControl(p)
      PROVE  IInv'
  BY <1>3 DEF MainControl, MayLock, Exit, Dropped, Goto
<1>4. ASSUME NEW p \in Process, QuerySelfProcessNum(p)
      PROVE  IInv'
  <2>1. CASE SameName(p) # {p}
    BY <1>4, <2>1 DEF QuerySelfProcessNum, Exit, Dropped, Goto
  <2>2. CASE SameName(p) = {p}
    <3>1. p \in Gui
      BY <1>4 DEF QuerySelfProcessNum
    <3>2. \A q \in Gui \ {p} : at[q] = "dead"
      BY <2>2 DEF SameName
    <3>3. Goto(p, "config") /\ UNCHANGED holder
      BY <1>4, <2>2 DEF QuerySelfProcessNum
    <3> QED
      BY <3>1, <3>2, <3>3 DEF Goto
  <2> QED
    BY <2>1, <2>2
<1>5. ASSUME NEW p \in Process, GetConfig(p)
      PROVE  IInv'
  BY <1>5 DEF GetConfig, AfterConfig, Dropped, Goto
<1>6. ASSUME NEW p \in Process, Relock(p)
      PROVE  IInv'
  BY <1>6 DEF Relock, MayLock, Goto
<1>7. ASSUME NEW p \in Process, Finish(p)
      PROVE  IInv'
  BY <1>7 DEF Finish, Exit, Dropped, Goto
<1> QED
  BY <1>1, <1>2, <1>3, <1>4, <1>5, <1>6, <1>7 DEF Next

LEMMA AlwaysIInv == Spec => []IInv
  BY InitIInv, NextIInv, PTL DEF Spec

(* The lock lets one uwbtool through, however many are started or killed.  *)
THEOREM ToolsExcluded == Spec => []OneTool
<1>1. IInv => OneTool
  BY DEF IInv, OneTool, Working
<1> QED
  BY <1>1, AlwaysIInv, PTL

(* The count of processes lets one uwb through, although it drops its lock. *)
THEOREM GuisExcluded == Spec => []OneGui
<1>1. IInv => OneGui
  BY DEF IInv, OneGui, Working, Counted
<1> QED
  BY <1>1, AlwaysIInv, PTL
=============================================================================
