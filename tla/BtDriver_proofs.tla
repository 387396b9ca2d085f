--------------------------- MODULE BtDriver_proofs ---------------------------
(***************************************************************************)
(* Proofs about the Bluetooth driver: what openLock guards even when calls *)
(* overlap, and what holds of the HCI device while they do not, for any    *)
(* number of threads, interfaces and HCI devices.                          *)
(***************************************************************************)
EXTENDS BtDriver, TdspBus_proofs

-----------------------------------------------------------------------------
(* Part zero, the wait list.  Whatever probes have done to it, links that   *)
(* lead to a thread lead back, and only waiting threads are on it.          *)

LockType ==
    /\ openLock \in Nat
    /\ waitNext \in [Node -> Node] /\ waitPrev \in [Node -> Node]
    /\ woken \subseteq Thread

ListOK ==
    /\ \A n \in Node, t \in Thread : n # t /\ waitNext[n] = t => waitPrev[t] = n
    /\ \A n \in Node, t \in Thread : n # t /\ waitPrev[n] = t => waitNext[t] = n
    /\ \A t \in Thread : waitNext[t] = t <=> waitPrev[t] = t

WaitOK ==
    \A t \in Thread : /\ Asleep(t) \/ t \in woken => drv[t].at \in Waiting
                      /\ Asleep(t) => t \notin woken

LockWell == LockType /\ ListOK /\ WaitOK

NoneAsleep == \A t \in Thread : ~Asleep(t)

LEMMA Nodes == Thread \subseteq Node /\ WaitList \in Node \ Thread
BY WaitListAssumption DEF Node, Thread

LEMMA AddKeeps ==
    ASSUME LockType, ListOK, NEW t \in Thread, ~Asleep(t), ListAdd(t)
    PROVE  /\ waitNext' \in [Node -> Node] /\ waitPrev' \in [Node -> Node]
           /\ ListOK'
           /\ \A u \in Thread \ {t} : Asleep(u)' => Asleep(u)
<1> DEFINE last == waitPrev[WaitList]
<1>1. /\ last \in Node /\ last # t /\ waitNext[t] = t /\ waitPrev[t] = t
      /\ last \in Thread => waitNext[last] = WaitList
  BY Nodes DEF LockType, ListOK, Asleep
<1>2. /\ waitNext' = [waitNext EXCEPT ![last] = t, ![t] = WaitList]
      /\ waitPrev' = [waitPrev EXCEPT ![WaitList] = t, ![t] = last]
  BY DEF ListAdd
<1> HIDE DEF last
<1>3. waitNext' \in [Node -> Node] /\ waitPrev' \in [Node -> Node]
  BY <1>1, <1>2, Nodes DEF LockType
<1>4. /\ waitNext'[last] = t /\ waitNext'[t] = WaitList
      /\ \A n \in Node \ {last, t} : waitNext'[n] = waitNext[n]
      /\ waitPrev'[WaitList] = t /\ waitPrev'[t] = last
      /\ \A n \in Node \ {WaitList, t} : waitPrev'[n] = waitPrev[n]
  BY <1>1, <1>2, Nodes DEF LockType
<1>5. ASSUME NEW n \in Node, NEW u \in Thread, n # u, waitNext'[n] = u
      PROVE  waitPrev'[u] = n
  BY <1>1, <1>4, <1>5, Nodes DEF ListOK
<1>6. ASSUME NEW n \in Node, NEW u \in Thread, n # u, waitPrev'[n] = u
      PROVE  waitNext'[u] = n
  BY <1>1, <1>4, <1>6, Nodes DEF ListOK, last
<1>7. ASSUME NEW u \in Thread
      PROVE  waitNext'[u] = u <=> waitPrev'[u] = u
  BY <1>1, <1>4, Nodes DEF ListOK
<1>8. \A u \in Thread \ {t} : Asleep(u)' => Asleep(u)
  BY <1>1, <1>4, Nodes DEF Asleep
<1>9. ListOK'
  BY <1>5, <1>6, <1>7 DEF ListOK
<1> QED
  BY <1>3, <1>8, <1>9

LEMMA DelKeeps ==
    ASSUME LockType, ListOK, NEW t \in Thread, Asleep(t), ListDel(t)
    PROVE  /\ waitNext' \in [Node -> Node] /\ waitPrev' \in [Node -> Node]
           /\ ListOK'
           /\ ~Asleep(t)' /\ \A u \in Thread \ {t} : Asleep(u)' => Asleep(u)
<1> DEFINE a == waitNext[t]
           b == waitPrev[t]
<1>1. /\ a \in Node /\ b \in Node /\ a # t /\ b # t
      /\ a \in Thread => waitPrev[a] = t
      /\ b \in Thread => waitNext[b] = t
  BY Nodes DEF LockType, ListOK, Asleep
<1>2. /\ waitNext' = [waitNext EXCEPT ![b] = a, ![t] = t]
      /\ waitPrev' = [waitPrev EXCEPT ![a] = b, ![t] = t]
      /\ waitNext[t] = a /\ waitPrev[t] = b
  BY DEF ListDel
<1> HIDE DEF a, b
<1>3. waitNext' \in [Node -> Node] /\ waitPrev' \in [Node -> Node]
  BY <1>1, <1>2, Nodes DEF LockType
<1>4. /\ waitNext'[b] = a /\ waitNext'[t] = t
      /\ \A n \in Node \ {b, t} : waitNext'[n] = waitNext[n]
      /\ waitPrev'[a] = b /\ waitPrev'[t] = t
      /\ \A n \in Node \ {a, t} : waitPrev'[n] = waitPrev[n]
  BY <1>1, <1>2, Nodes DEF LockType
<1>5. ASSUME NEW n \in Node, NEW u \in Thread, n # u, waitNext'[n] = u
      PROVE  waitPrev'[u] = n
  <2>1. CASE n = b
    BY <1>1, <1>4, <1>5, <2>1, Nodes
  <2>2. CASE n # b
    <3>1. n # t /\ waitNext[n] = u
      BY <1>4, <1>5, <2>2
    <3>2. waitPrev[u] = n
      BY <1>5, <3>1 DEF ListOK
    <3>3. u # t /\ u # a
      BY <1>1, <1>2, <2>2, <3>1, <3>2
    <3> QED
      BY <1>4, <3>2, <3>3, Nodes
  <2> QED
    BY <2>1, <2>2
<1>6. ASSUME NEW n \in Node, NEW u \in Thread, n # u, waitPrev'[n] = u
      PROVE  waitNext'[u] = n
  <2>1. CASE n = a
    BY <1>1, <1>4, <1>6, <2>1, Nodes
  <2>2. CASE n # a
    <3>1. n # t /\ waitPrev[n] = u
      BY <1>4, <1>6, <2>2
    <3>2. waitNext[u] = n
      BY <1>6, <3>1 DEF ListOK
    <3>3. u # t /\ u # b
      BY <1>1, <1>2, <2>2, <3>1, <3>2
    <3> QED
      BY <1>4, <3>2, <3>3, Nodes
  <2> QED
    BY <2>1, <2>2
<1>7. ASSUME NEW u \in Thread
      PROVE  waitNext'[u] = u <=> waitPrev'[u] = u
  <2>1. waitNext[u] = u <=> waitPrev[u] = u
    BY DEF ListOK
  <2>2. CASE u = t
    BY <1>4, <2>2
  <2>3. CASE u # t /\ u = b
    BY <1>1, <1>4, <2>1, <2>3, Nodes
  <2>4. CASE u # t /\ u # b
    BY <1>1, <1>4, <2>1, <2>4, Nodes
  <2> QED
    BY <2>2, <2>3, <2>4
<1>8. ~Asleep(t)' /\ \A u \in Thread \ {t} : Asleep(u)' => Asleep(u)
  BY <1>1, <1>4, Nodes DEF Asleep
<1>9. ListOK'
  BY <1>5, <1>6, <1>7 DEF ListOK
<1> QED
  BY <1>3, <1>8, <1>9

LEMMA UpKeeps ==
    ASSUME LockType, ListOK, Up
    PROVE  /\ LockType' /\ ListOK'
           /\ \A u \in Thread : Asleep(u)' => Asleep(u)
           /\ \/ openLock' = openLock + 1 /\ woken' = woken
              \/ /\ openLock' = openLock
                 /\ \E v \in Thread : Asleep(v) /\ ~Asleep(v)' /\ woken' = woken \cup {v}
<1>1. CASE First = WaitList
  <2>1. openLock' = openLock + 1 /\ UNCHANGED <<waitNext, waitPrev, woken>>
    BY <1>1 DEF Up
  <2> QED
    BY <2>1 DEF LockType, ListOK, Asleep
<1>2. CASE First # WaitList
  <2>1. First \in Thread
    BY <1>2, Nodes DEF First, LockType, Node, Thread
  <2>2. Asleep(First)
    BY <1>2, <2>1, Nodes DEF First, ListOK, Asleep
  <2>3. ListDel(First) /\ woken' = woken \cup {First} /\ openLock' = openLock
    BY <1>2 DEF Up
  <2>4. /\ waitNext' \in [Node -> Node] /\ waitPrev' \in [Node -> Node] /\ ListOK'
        /\ \A v \in Thread : v = First =>
              ~Asleep(v)' /\ \A u \in Thread \ {v} : Asleep(u)' => Asleep(u)
    BY <2>1, <2>2, <2>3, DelKeeps
  <2> HIDE DEF First
  <2> QED
    BY <2>1, <2>2, <2>3, <2>4 DEF LockType
<1> QED
  BY <1>1, <1>2

LEMMA SemaInitKeeps ==
    ASSUME LockType, ListOK, SemaInit
    PROVE  LockType' /\ ListOK' /\ woken' = woken /\ \A u \in Thread : Asleep(u)' <=> Asleep(u)
<1>1. /\ openLock' = 1 /\ woken' = woken
      /\ waitNext' = [waitNext EXCEPT ![WaitList] = WaitList]
      /\ waitPrev' = [waitPrev EXCEPT ![WaitList] = WaitList]
  BY DEF SemaInit
<1>2. LockType'
  BY <1>1, Nodes DEF LockType
<1>3. \A u \in Thread : waitNext'[u] = waitNext[u] /\ waitPrev'[u] = waitPrev[u]
  BY <1>1, Nodes DEF LockType
<1>4. ListOK'
  BY <1>1, <1>3, Nodes DEF LockType, ListOK
<1> QED
  BY <1>1, <1>2, <1>3, <1>4 DEF Asleep

(* A step that lets nobody fall asleep, of a thread that was not waiting.   *)
LEMMA WaitersStay ==
    ASSUME LockWell, NEW t \in Thread, \A u \in Thread \ {t} : drv'[u] = drv[u],
           drv[t].at \notin Waiting \/ drv'[t] = drv[t],
           UNCHANGED lock \/ Up \/ SemaInit
    PROVE  LockWell'
<1>1. /\ LockType' /\ ListOK'
      /\ \A u \in Thread : Asleep(u)' => Asleep(u)
      /\ \/ woken' = woken
         \/ \E v \in Thread : Asleep(v) /\ ~Asleep(v)' /\ woken' = woken \cup {v}
  <2>1. CASE UNCHANGED lock
    BY <2>1 DEF LockWell, LockType, ListOK, Asleep, lock
  <2>2. CASE Up
    BY <2>2, UpKeeps DEF LockWell
  <2>3. CASE SemaInit
    BY <2>3, SemaInitKeeps DEF LockWell
  <2> QED
    BY <2>1, <2>2, <2>3
<1>2. WaitOK'
  BY <1>1 DEF LockWell, WaitOK
<1> QED
  BY <1>1, <1>2 DEF LockWell

(* The steps of down_interruptible.                                        *)
LEMMA DownKeeps ==
    ASSUME LockWell, NEW t \in Thread, drv \in [Thread -> [at : Place, hdev : Hdev \cup {NoHdev}]],
           Down(t) \/ Sleep(t) \/ Wake(t) \/ Signal(t)
    PROVE  LockWell' /\ drv[t].at \in Waiting
<1>1. drv[t].at \in Waiting
  BY DEF Down, Sleep, Wake, Signal, Arriving, LockWell, WaitOK
<1>2. drv' = drv \/ \E a : Go(t, a)
  BY DEF Down, Sleep, Wake, Signal
<1>3. \A u \in Thread \ {t} : drv'[u] = drv[u]
  BY <1>2 DEF Go
<1>4. CASE Down(t)
  <2>1. /\ openLock' \in Nat /\ UNCHANGED <<waitNext, waitPrev, woken>>
        /\ ~Asleep(t) /\ t \notin woken
    BY <1>4 DEF Down, Arriving, LockWell, LockType
  <2> QED
    BY <1>1, <1>3, <2>1 DEF LockWell, LockType, ListOK, WaitOK, Asleep
<1>5. CASE Sleep(t)
  <2>1. ListAdd(t) /\ ~Asleep(t) /\ t \notin woken /\ UNCHANGED <<openLock, woken, drv>>
    BY <1>5 DEF Sleep, Arriving
  <2>2. /\ waitNext' \in [Node -> Node] /\ waitPrev' \in [Node -> Node] /\ ListOK'
        /\ \A u \in Thread \ {t} : Asleep(u)' => Asleep(u)
    BY <2>1, AddKeeps DEF LockWell
  <2> QED
    BY <1>1, <2>1, <2>2 DEF LockWell, LockType, WaitOK
<1>6. CASE Wake(t)
  <2>1. t \in woken /\ woken' = woken \ {t} /\ UNCHANGED <<openLock, waitNext, waitPrev>>
    BY <1>6 DEF Wake
  <2> QED
    BY <1>3, <2>1 DEF LockWell, LockType, ListOK, WaitOK, Asleep
<1>7. CASE Signal(t)
  <2>1. Asleep(t) /\ ListDel(t) /\ UNCHANGED <<openLock, woken>>
    BY <1>7 DEF Signal
  <2>2. /\ waitNext' \in [Node -> Node] /\ waitPrev' \in [Node -> Node] /\ ListOK'
        /\ ~Asleep(t)' /\ \A u \in Thread \ {t} : Asleep(u)' => Asleep(u)
    BY <2>1, DelKeeps DEF LockWell
  <2> QED
    BY <1>3, <2>1, <2>2 DEF LockWell, LockType, WaitOK
<1> QED
  BY <1>1, <1>4, <1>5, <1>6, <1>7

-----------------------------------------------------------------------------
(* The inductive invariant, part one: where a thread is in the driver and   *)
(* what it is doing in the bus belong together.                            *)

OpenPlace  == {"lock_open", "open_dev", "register", "publish", "ok", "failed"}
ClosePlace == {"lock_close", "unregister", "close_dev", "forget", "done"}
LeavePlace == {"lock_gone", "stop", "stopped", "gone"}

(* Where a thread has an HCI device in hand, and where it has openLock.     *)
Carrying == {"publish", "close_dev", "forget", "lock_gone", "stop", "stopped"}
Holding  == {"open_dev", "register", "publish", "unregister", "close_dev", "forget",
             "stop", "stopped"}

CallerPlace(c) ==
    /\ At(c, "out") => call[c] = Idle
    /\ Inside(c) => call[c].serial = "BT" /\ call[c].next = 4
    /\ drv[c].at \in OpenPlace => call[c].op = "plug"
    /\ drv[c].at \in ClosePlace => call[c].op = "unplug"
    /\ drv[c].at \notin LeavePlace

HubPlace ==
    /\ drv[HubThread].at \in LeavePlace \cup {"out"} => hub = HubIdle
    /\ drv[HubThread].at \in LeavePlace => ~Vacant("BT")
    /\ drv[HubThread].at \in OpenPlace => hub.op = "attach"
    /\ drv[HubThread].at \in ClosePlace => hub.op = "detach"
    /\ hub # HubIdle => hub.serial = "BT"

ExtLives == \A i \in Iface : ext[i].live <=> block[i].live

PInv ==
    /\ RInv
    /\ BtTypeOK
    /\ LockWell
    /\ \A s \in Serial \ {"BT"} : Vacant(s)
    /\ \A c \in Caller : CallerPlace(c)
    /\ HubPlace
    /\ \A t \in Thread : drv[t].hdev # NoHdev <=> drv[t].at \in Carrying
    /\ ExtLives

(* Part two, what openLock is for: while nobody has broken it, one thread   *)
(* at most has it, and only that one may see a pointer that does not lead   *)
(* to a registered HCI device of its extension.                            *)

Holds(t) == drv[t].at \in Holding \/ t \in woken

LockOK ==
    /\ openLock \in 0..1
    /\ openLock = 1 => \A t \in Thread : ~Holds(t)
    /\ \A t, u \in Thread : Holds(t) /\ Holds(u) => t = u

Own(h, i) == hci[h].registered /\ hci[h].ext = i

PointersOK ==
    \A i \in Iface : ext[i].hdev # NoHdev =>
        \/ Own(ext[i].hdev, i)
        \/ \E t \in Thread : /\ drv[t].at \in {"close_dev", "forget"}
                             /\ ExtOf(t) = i /\ drv[t].hdev = ext[i].hdev

PublishOK ==
    \A t \in Thread : At(t, "publish") => Own(drv[t].hdev, ExtOf(t))

(* Whoever frees an HCI device has unregistered it.                        *)
ForgetOK ==
    \A t \in Thread : drv[t].at \in {"close_dev", "forget"} => ~hci[drv[t].hdev].registered

LInv == ForgetOK /\ (~broken => LockOK /\ PointersOK /\ PublishOK)

(* Part three, while no two threads have been inside at once: everybody     *)
(* works on the one card there is, and each place knows how far the bus's   *)
(* word for the function and the pointer to the HCI device have come.       *)

Card   == ExtOf(HubThread)
On     == block[Card].devstate = "Started"
Agree  == On <=> ext[Card].hdev # NoHdev

Alone ==
    /\ ~broken
    /\ \A t, u \in Thread : Inside(t) /\ Inside(u) => t = u
    /\ \A c \in Caller : Inside(c) => call[c].iface = Card
    /\ openLock = 0 => \E t \in Thread : Holds(t)
    /\ NoneAsleep

OneCard == \A i \in Iface \ {Card} : ext[i] = NoExt

AtRest == (\A t \in Thread : ~Inside(t)) /\ Card # NoIface => Agree

PlaceOK(t) ==
    /\ drv[t].at \in OpenPlace => ~On /\ (At(t, "ok") <=> ext[Card].hdev # NoHdev)
    /\ drv[t].at \in {"register", "publish"} => ext[Card].powered
    /\ drv[t].at \in {"lock_close", "unregister", "close_dev", "forget"} \cup LeavePlace => Agree
    /\ drv[t].at \in {"close_dev", "forget", "lock_gone", "stop", "stopped"} =>
          ext[Card].hdev = drv[t].hdev
    /\ drv[t].at \in {"close_dev", "forget"} => ~ext[Card].open
    /\ At(t, "done") => ext[Card].hdev = NoHdev

(* A registered HCI device is the card's, and is published or about to be.  *)
HciOK ==
    \A h \in Hdev : hci[h].registered =>
        /\ Card # NoIface /\ hci[h].ext = Card /\ ext[Card].powered
        /\ \/ ext[Card].hdev = h
           \/ \E t \in Thread : At(t, "publish") /\ drv[t].hdev = h

OpenOK ==
    Card # NoIface /\ ext[Card].open =>
        /\ ext[Card].powered
        /\ \/ At(HubThread, "stopped")
           \/ \E h \in Hdev : hci[h].registered /\ hci[h].up /\ hci[h].running

Single == Alone /\ OneCard /\ AtRest /\ (\A t \in Thread : PlaceOK(t)) /\ HciOK /\ OpenOK

CInv ==
    /\ ~met => Single
    /\ ~met /\ ~dangling => fault["BT"] \cap MemoryError = {}

BtInv == PInv /\ LInv /\ CInv

-----------------------------------------------------------------------------
(* Part one.                                                               *)

ExtType == [live : BOOLEAN, hdev : Hdev \cup {NoHdev}, powered : BOOLEAN, open : BOOLEAN]
HciType == [registered : BOOLEAN, ext : Iface \cup {NoIface}, running : BOOLEAN, up : BOOLEAN]
DrvType == [at : Place, hdev : Hdev \cup {NoHdev}]

(* The extension a thread inside works on is one.                           *)
LEMMA ExtOfIs ==
    ASSUME PInv, NEW t \in Thread, Inside(t)
    PROVE  ExtOf(t) \in Iface
<1>1. CASE t \in Caller
  <2>1. call[t].op \in {"plug", "unplug"}
    BY <1>1 DEF PInv, CallerPlace, BtTypeOK, Place, OpenPlace, ClosePlace, LeavePlace, Inside, At
  <2> QED
    BY <1>1, <2>1, HubThreadAssumption DEF PInv, RInv, CallOK, InCallback, ExtOf
<1>2. CASE t = HubThread
  <2>1. CASE hub = HubIdle
    <3>1. drv[t].at \in LeavePlace
      BY <1>2, <2>1 DEF PInv, HubPlace, HubIdle, BtTypeOK, Place, OpenPlace, ClosePlace, LeavePlace, Inside, At
    <3> QED
      BY <1>2, <2>1, <3>1 DEF PInv, HubPlace, RInv, TypeOK, Serial, Vacant, ExtOf
  <2>2. CASE hub # HubIdle
    BY <1>2, <2>2 DEF PInv, RInv, HubOK, ExtOf
  <2> QED
    BY <2>1, <2>2
<1> QED
  BY <1>1, <1>2 DEF Thread

(* A thread inside stays on its side of the driver, and the bus and the     *)
(* extensions that live stay as they are.                                  *)
SameSide(a, b) == \E S \in {OpenPlace, ClosePlace, LeavePlace} : a \in S /\ b \in S

Moves(t) ==
    /\ BusStays /\ fault' \in [Serial -> SUBSET FaultKind]
    /\ LockWell'
    /\ ext' \in [Iface -> ExtType] /\ \A i \in Iface : ext'[i].live = ext[i].live
    /\ hci' \in [Hdev -> HciType]
    /\ drv' \in [Thread -> DrvType] /\ \A u \in Thread \ {t} : drv'[u] = drv[u]
    /\ SameSide(drv[t].at, drv'[t].at)
    /\ drv'[t].hdev # NoHdev <=> drv'[t].at \in Carrying
    /\ UNCHANGED <<dangling, met>> /\ broken' \in BOOLEAN

LEMMA ExtTypes ==
    ASSUME ext \in [Iface -> ExtType], NEW i \in Iface
    PROVE  /\ \A h \in Hdev \cup {NoHdev} :
                  /\ [ext EXCEPT ![i].hdev = h] \in [Iface -> ExtType]
                  /\ \A j \in Iface : [ext EXCEPT ![i].hdev = h][j].live = ext[j].live
           /\ \A b \in BOOLEAN :
                  /\ [ext EXCEPT ![i].powered = b] \in [Iface -> ExtType]
                  /\ [ext EXCEPT ![i].open = b] \in [Iface -> ExtType]
                  /\ \A j \in Iface : /\ [ext EXCEPT ![i].powered = b][j].live = ext[j].live
                                       /\ [ext EXCEPT ![i].open = b][j].live = ext[j].live
BY DEF ExtType

LEMMA InnerStep ==
    ASSUME PInv, NEW t \in Thread,
           Callback(t) \/ (t = HubThread /\ (StopHci \/ ClearOpen))
    PROVE  Moves(t)
<1> DEFINE i == ExtOf(t)
<1>0. /\ ext \in [Iface -> ExtType] /\ hci \in [Hdev -> HciType]
      /\ drv \in [Thread -> DrvType] /\ broken \in BOOLEAN
      /\ fault \in [Serial -> SUBSET FaultKind]
      /\ drv[t].at \in Place /\ drv[t].hdev \in Hdev \cup {NoHdev}
      /\ drv[t].hdev # NoHdev <=> drv[t].at \in Carrying
  BY DEF PInv, BtTypeOK, RInv, TypeOK, ExtType, HciType, DrvType
<1>1. Inside(t) /\ i \in Iface
  <2>1. Inside(t)
    <3> USE DEF Inside, At
    <3>1. CASE Down(t) \/ Sleep(t) \/ Wake(t) \/ Signal(t)
      BY <1>0, <3>1, DownKeeps DEF PInv, Waiting, DrvType
    <3>3. CASE \E ok \in BOOLEAN : OpenDev(t, ok)
      BY <3>3 DEF OpenDev
    <3>4. CASE (\E h \in Hdev : RegisterDev(t, h)) \/ RegisterFails(t) \/ Publish(t)
      BY <3>4 DEF RegisterDev, RegisterFails, Publish
    <3>5. CASE NothingToUnregister(t) \/ UnregisterDev(t)
      BY <3>5 DEF NothingToUnregister, UnregisterDev
    <3>6. CASE CloseDev(t) \/ Forget(t)
      BY <3>6 DEF CloseDev, Forget
    <3>7. CASE t = HubThread /\ (StopHci \/ ClearOpen)
      BY <3>7 DEF StopHci, ClearOpen
    <3> QED
      BY <3>1, <3>3, <3>4, <3>5, <3>6, <3>7 DEF Callback, Proceeds
  <2> QED
    BY <2>1, ExtOfIs
<1> HIDE DEF i
<1>16. LockWell'
  <2>1. CASE Down(t) \/ Sleep(t) \/ Wake(t) \/ Signal(t)
    BY <1>0, <2>1, DownKeeps DEF PInv, DrvType
  <2>2. CASE ~(Down(t) \/ Sleep(t) \/ Wake(t) \/ Signal(t))
    <3>1. drv[t].at \notin Waiting /\ (UNCHANGED lock \/ Up) /\ \A u \in Thread \ {t} : drv'[u] = drv[u]
      <4> USE DEF At, Waiting, Go
      <4>1. CASE \E ok \in BOOLEAN : OpenDev(t, ok)
        BY <1>0, <4>1 DEF OpenDev
      <4>2. CASE (\E h \in Hdev : RegisterDev(t, h)) \/ RegisterFails(t) \/ Publish(t)
        BY <1>0, <4>2 DEF RegisterDev, RegisterFails, Publish
      <4>3. CASE NothingToUnregister(t) \/ UnregisterDev(t)
        BY <1>0, <4>3 DEF NothingToUnregister, UnregisterDev
      <4>4. CASE CloseDev(t) \/ Forget(t)
        BY <1>0, <4>4 DEF CloseDev, Forget
      <4>5. CASE t = HubThread /\ (StopHci \/ ClearOpen)
        BY <1>0, <4>5 DEF StopHci, ClearOpen
      <4> QED
        BY <2>2, <4>1, <4>2, <4>3, <4>4, <4>5 DEF Callback, Proceeds
    <3> QED
      BY <3>1, WaitersStay DEF PInv
  <2> QED
    BY <2>1, <2>2
<1>2. ASSUME NEW a \in Place, NEW h \in Hdev \cup {NoHdev},
             \/ Go(t, a) /\ h = drv[t].hdev
             \/ drv' = [drv EXCEPT ![t] = [at |-> a, hdev |-> h]],
             SameSide(drv[t].at, a), h # NoHdev <=> a \in Carrying,
             BusStays, fault' \in [Serial -> SUBSET FaultKind],
             ext' \in [Iface -> ExtType], \A j \in Iface : ext'[j].live = ext[j].live,
             hci' \in [Hdev -> HciType], UNCHANGED <<dangling, met>>, broken' \in BOOLEAN
      PROVE  Moves(t)
  <2>1. /\ drv' \in [Thread -> DrvType] /\ drv'[t].at = a /\ drv'[t].hdev = h
        /\ \A u \in Thread \ {t} : drv'[u] = drv[u]
    <3>1. CASE Go(t, a) /\ h = drv[t].hdev
      BY <1>0, <3>1 DEF DrvType, Go
    <3>2. CASE drv' = [drv EXCEPT ![t] = [at |-> a, hdev |-> h]]
      BY <1>0, <3>2 DEF DrvType
    <3> QED
      BY <1>2, <3>1, <3>2
  <2> QED
    BY <1>2, <2>1, <1>16 DEF Moves
<1>3. \A k \in {{}, {"freed"}} : Commit("BT", k) => fault' \in [Serial -> SUBSET FaultKind]
  BY <1>0 DEF Commit, FaultKind, Serial
<1>4. CASE Down(t) \/ Wake(t)
  <2> DEFINE a == Critical[drv[t].at]
  <2>0. drv[t].at \in Waiting
    BY <1>0, <1>4, DownKeeps DEF PInv, DrvType
  <2>1. /\ a \in Place /\ SameSide(drv[t].at, a) /\ Go(t, a)
        /\ drv[t].at \in Carrying <=> a \in Carrying
    BY <1>4, <2>0 DEF Down, Wake, Waiting, Critical, Place, SameSide, OpenPlace, ClosePlace, LeavePlace,
                     Carrying
  <2> HIDE DEF a
  <2>2. UNCHANGED <<fault, ext, hci, dangling, met, broken>> /\ BusStays
    BY <1>0, <1>4 DEF Down, Wake
  <2> QED
    BY <1>0, <1>2, <2>1, <2>2
<1>17. CASE Sleep(t)
  <2>1. UNCHANGED <<fault, ext, hci, drv, dangling, met, broken>> /\ BusStays /\ drv[t].at \in Waiting
    BY <1>17 DEF Sleep, Arriving
  <2>2. SameSide(drv[t].at, drv'[t].at)
    BY <2>1 DEF Waiting, SameSide, OpenPlace, ClosePlace, LeavePlace
  <2> QED
    BY <1>0, <1>16, <2>1, <2>2 DEF Moves
<1>5. CASE Signal(t)
  <2> DEFINE a == Interrupted[drv[t].at]
  <2>0. drv[t].at \in Waiting
    BY <1>0, <1>5, DownKeeps DEF PInv, DrvType
  <2>1. /\ a \in Place /\ SameSide(drv[t].at, a) /\ Go(t, a)
        /\ drv[t].at \in Carrying <=> a \in Carrying
    BY <1>5, <2>0 DEF Signal, Waiting, Interrupted, Place, SameSide, OpenPlace, ClosePlace, LeavePlace,
                     Carrying
  <2> HIDE DEF a
  <2>2. UNCHANGED <<fault, ext, hci, dangling, met>> /\ BusStays /\ broken' \in BOOLEAN
    BY <1>0, <1>5 DEF Signal
  <2> QED
    BY <1>0, <1>2, <2>1, <2>2
<1>6. ASSUME NEW ok \in BOOLEAN, OpenDev(t, ok)
      PROVE  Moves(t)
  <2>1. ext' \in [Iface -> ExtType] /\ \A j \in Iface : ext'[j].live = ext[j].live
    <3>1. ext' = [ext EXCEPT ![i].powered = TRUE] \/ ext' = ext
      BY <1>6 DEF OpenDev, i
    <3>2. CASE ext' = [ext EXCEPT ![i].powered = TRUE]
      BY <1>0, <1>1, <3>2, ExtTypes
    <3> QED
      BY <1>0, <3>1, <3>2
  <2>2. BusStays /\ UNCHANGED <<fault, hci, dangling, met, broken>>
    BY <1>0, <1>6 DEF OpenDev, Up
  <2>3. PICK a \in {"register", "failed"} : Go(t, a) /\ At(t, "open_dev")
    BY <1>6 DEF OpenDev
  <2>4. a \in Place /\ SameSide(drv[t].at, a) /\ drv[t].at \notin Carrying /\ a \notin Carrying
    BY <2>3 DEF At, Place, SameSide, OpenPlace, Carrying
  <2> QED
    BY <1>0, <1>2, <2>1, <2>2, <2>3, <2>4
<1>7. ASSUME NEW h \in Hdev, RegisterDev(t, h)
      PROVE  Moves(t)
  <2>1. hci' \in [Hdev -> HciType]
    BY <1>0, <1>1, <1>7 DEF RegisterDev, HciType, NoHci, i
  <2>2. BusStays /\ UNCHANGED <<fault, ext, dangling, met, broken>>
    BY <1>7 DEF RegisterDev
  <2>3. SameSide(drv[t].at, "publish") /\ "publish" \in Place \cap Carrying /\ h # NoHdev
    BY <1>7, NoHdevAssumption DEF RegisterDev, At, Place, SameSide, OpenPlace, Carrying
  <2>4. drv' = [drv EXCEPT ![t] = [at |-> "publish", hdev |-> h]]
    BY <1>7 DEF RegisterDev
  <2> QED
    BY <1>0, <1>2, <2>1, <2>2, <2>3, <2>4
<1>8. CASE RegisterFails(t)
  <2>1. BusStays /\ UNCHANGED <<fault, ext, hci, dangling, met, broken>>
    BY <1>0, <1>8 DEF RegisterFails, Up
  <2>2. /\ Go(t, "failed") /\ SameSide(drv[t].at, "failed") /\ "failed" \in Place \ Carrying
        /\ drv[t].hdev = NoHdev
    BY <1>0, <1>8 DEF RegisterFails, At, Place, SameSide, OpenPlace, Carrying
  <2> QED
    BY <1>0, <1>2, <2>1, <2>2
<1>9. CASE Publish(t)
  <2>1. ext' \in [Iface -> ExtType] /\ \A j \in Iface : ext'[j].live = ext[j].live
    <3>1. ext' = [ext EXCEPT ![i].hdev = drv[t].hdev]
      BY <1>9 DEF Publish, i
    <3> QED
      BY <1>0, <1>1, <3>1 DEF ExtType
  <2>2. BusStays /\ UNCHANGED <<fault, hci, dangling, met, broken>>
    BY <1>0, <1>9 DEF Publish, Up
  <2>3. /\ drv' = [drv EXCEPT ![t] = [at |-> "ok", hdev |-> NoHdev]]
        /\ SameSide(drv[t].at, "ok") /\ "ok" \in Place \ Carrying
    BY <1>9 DEF Publish, At, Place, SameSide, OpenPlace, Carrying
  <2> QED
    BY <1>0, <1>2, <2>1, <2>2, <2>3
<1>10. CASE NothingToUnregister(t)
  <2>1. BusStays /\ UNCHANGED <<fault, ext, hci, dangling, met, broken>>
    BY <1>0, <1>10 DEF NothingToUnregister, Up
  <2>2. /\ Go(t, "done") /\ SameSide(drv[t].at, "done") /\ "done" \in Place \ Carrying
        /\ drv[t].hdev = NoHdev
    BY <1>0, <1>10 DEF NothingToUnregister, At, Place, SameSide, ClosePlace, Carrying
  <2> QED
    BY <1>0, <1>2, <2>1, <2>2
<1>11. CASE UnregisterDev(t)
  <2> DEFINE h == ext[i].hdev
  <2>1. h \in Hdev /\ h # NoHdev /\ ext[i].open \in BOOLEAN /\ hci[h] \in HciType
    BY <1>0, <1>1, <1>11 DEF UnregisterDev, ExtType, i
  <2>2. StillOpen(h, i) \in BOOLEAN
    BY <2>1 DEF StillOpen, HciType
  <2>3. ext' \in [Iface -> ExtType] /\ \A j \in Iface : ext'[j].live = ext[j].live
    <3>1. PICK b \in BOOLEAN : ext' = [ext EXCEPT ![i].open = b]
      BY <1>11, <2>2 DEF UnregisterDev, i
    <3> QED
      BY <1>0, <1>1, <3>1 DEF ExtType
  <2>4. hci' \in [Hdev -> HciType]
    BY <1>0, <1>11, <2>1 DEF UnregisterDev, HciType, i
  <2>5. fault' \in [Serial -> SUBSET FaultKind]
    BY <1>3, <1>11 DEF UnregisterDev
  <2>6. BusStays /\ UNCHANGED <<dangling, met, broken>>
    BY <1>11 DEF UnregisterDev
  <2>7. /\ drv' = [drv EXCEPT ![t] = [at |-> "close_dev", hdev |-> h]]
        /\ SameSide(drv[t].at, "close_dev") /\ "close_dev" \in Place \cap Carrying
    BY <1>11 DEF UnregisterDev, At, Place, SameSide, ClosePlace, Carrying, i
  <2> QED
    BY <1>0, <1>2, <2>1, <2>3, <2>4, <2>5, <2>6, <2>7
<1>12. CASE CloseDev(t)
  <2>1. ext' \in [Iface -> ExtType] /\ \A j \in Iface : ext'[j].live = ext[j].live
    BY <1>0, <1>1, <1>12, ExtTypes DEF CloseDev, i
  <2>2. BusStays /\ UNCHANGED <<fault, hci, dangling, met, broken>>
    BY <1>12 DEF CloseDev
  <2>3. /\ Go(t, "forget") /\ SameSide(drv[t].at, "forget") /\ "forget" \in Place \cap Carrying
        /\ drv[t].hdev # NoHdev
    BY <1>0, <1>12 DEF CloseDev, At, Place, SameSide, ClosePlace, Carrying
  <2> QED
    BY <1>0, <1>2, <2>1, <2>2, <2>3
<1>13. CASE Forget(t)
  <2>1. ext' \in [Iface -> ExtType] /\ \A j \in Iface : ext'[j].live = ext[j].live
    <3>1. ext' = [ext EXCEPT ![i].hdev = NoHdev]
      BY <1>13 DEF Forget, Pointer, i
    <3> QED
      BY <1>0, <1>1, <3>1 DEF ExtType
  <2>2. hci' \in [Hdev -> HciType]
    BY <1>0, <1>13 DEF Forget, HciType, NoHci
  <2>3. fault' \in [Serial -> SUBSET FaultKind]
    BY <1>0, <1>3, <1>13 DEF Forget, Up
  <2>4. BusStays /\ UNCHANGED <<dangling, met, broken>>
    BY <1>13 DEF Forget
  <2>5. /\ drv' = [drv EXCEPT ![t] = [at |-> "done", hdev |-> NoHdev]]
        /\ SameSide(drv[t].at, "done") /\ "done" \in Place \ Carrying
    BY <1>13 DEF Forget, At, Place, SameSide, ClosePlace, Carrying
  <2> QED
    BY <1>0, <1>2, <2>1, <2>2, <2>3, <2>4, <2>5
<1>14. CASE t = HubThread /\ StopHci
  <2>1. hci' \in [Hdev -> HciType]
    BY <1>0, <1>14 DEF StopHci, HciType
  <2>2. BusStays /\ UNCHANGED <<fault, ext, dangling, met, broken>>
    BY <1>0, <1>14 DEF StopHci, Up
  <2>3. At(t, "stop") /\ drv[t].hdev # NoHdev
    BY <1>0, <1>14 DEF StopHci, At, Carrying
  <2>4. CASE hci[drv[t].hdev].running
    <3>1. Go(t, "stopped") /\ SameSide(drv[t].at, "stopped") /\ "stopped" \in Place \cap Carrying
      BY <1>14, <2>3, <2>4 DEF StopHci, At, Place, SameSide, LeavePlace, Carrying
    <3> QED
      BY <1>0, <1>2, <2>1, <2>2, <2>3, <3>1
  <2>5. CASE ~hci[drv[t].hdev].running
    <3>1. /\ drv' = [drv EXCEPT ![t] = [at |-> "gone", hdev |-> NoHdev]]
          /\ SameSide(drv[t].at, "gone") /\ "gone" \in Place \ Carrying
      BY <1>14, <2>3, <2>5 DEF StopHci, At, Place, SameSide, LeavePlace, Carrying
    <3> QED
      BY <1>0, <1>2, <2>1, <2>2, <3>1
  <2> QED
    BY <2>4, <2>5
<1>15. CASE t = HubThread /\ ClearOpen
  <2>1. ext' \in [Iface -> ExtType] /\ \A j \in Iface : ext'[j].live = ext[j].live
    BY <1>0, <1>1, <1>15, ExtTypes DEF ClearOpen, i
  <2>2. BusStays /\ UNCHANGED <<fault, hci, dangling, met, broken>>
    BY <1>0, <1>15 DEF ClearOpen, Up
  <2>3. /\ drv' = [drv EXCEPT ![t] = [at |-> "gone", hdev |-> NoHdev]]
        /\ SameSide(drv[t].at, "gone") /\ "gone" \in Place \ Carrying
    BY <1>15 DEF ClearOpen, At, Place, SameSide, LeavePlace, Carrying
  <2> QED
    BY <1>0, <1>2, <2>1, <2>2, <2>3
<1> QED
  BY <1>4, <1>17, <1>5, <1>6, <1>7, <1>8, <1>9, <1>10, <1>11, <1>12, <1>13, <1>14, <1>15 DEF Callback, Proceeds

(* A step of the driver alone that changes nothing the bus reads.           *)
LEMMA RegistryStays ==
    ASSUME RInv, BusStays, fault' \in [Serial -> SUBSET FaultKind]
    PROVE  RInv'
BY DEF RInv, TypeOK, CallOK, HubOK, RegistrySound, InCallback, Vacant, BusStays, registry

LEMMA InnerKeeps ==
    ASSUME PInv, NEW t \in Thread, Moves(t)
    PROVE  PInv'
<1>1. RInv'
  BY RegistryStays DEF PInv, Moves
<1>2. BtTypeOK'
  BY DEF PInv, BtTypeOK, Moves, ExtType, HciType, DrvType, LockWell, LockType
<1>3. (\A s \in Serial \ {"BT"} : Vacant(s))' /\ ExtLives'
  BY DEF PInv, Moves, BusStays, registry, Vacant, ExtLives
<1>4. /\ drv[t].at # "out" /\ drv'[t].at # "out"
      /\ drv[t].at \in OpenPlace <=> drv'[t].at \in OpenPlace
      /\ drv[t].at \in ClosePlace <=> drv'[t].at \in ClosePlace
      /\ drv[t].at \in LeavePlace <=> drv'[t].at \in LeavePlace
  BY DEF Moves, SameSide, OpenPlace, ClosePlace, LeavePlace
<1>5. \A u \in Thread : /\ drv[u].at = "out" <=> drv'[u].at = "out"
                        /\ drv[u].at \in OpenPlace <=> drv'[u].at \in OpenPlace
                        /\ drv[u].at \in ClosePlace <=> drv'[u].at \in ClosePlace
                        /\ drv[u].at \in LeavePlace <=> drv'[u].at \in LeavePlace
  BY <1>4 DEF Moves
<1>6. call' = call /\ hub' = hub /\ slot' = slot
  BY DEF Moves, BusStays, registry
<1>7. (\A c \in Caller : CallerPlace(c))'
  BY <1>5, <1>6 DEF PInv, CallerPlace, Thread, Inside, At
<1>8. HubPlace'
  BY <1>5, <1>6 DEF PInv, HubPlace, Thread, Vacant
<1>9. (\A u \in Thread : drv[u].hdev # NoHdev <=> drv[u].at \in Carrying)'
  BY DEF PInv, Moves
<1> QED
  BY <1>1, <1>2, <1>3, <1>7, <1>8, <1>9 DEF PInv, Moves

(* The HCI core and the refused card.                                      *)
LEMMA OtherKeeps ==
    ASSUME PInv, \/ \E h \in Hdev : HciOpen(h) \/ HciClose(h)
                 \/ ProbeOther \/ ProbeRefused \/ DisconnectRefused
    PROVE  PInv' /\ BusStays /\ UNCHANGED drv
<1>0. /\ ext \in [Iface -> ExtType] /\ hci \in [Hdev -> HciType]
      /\ fault \in [Serial -> SUBSET FaultKind]
  BY DEF PInv, BtTypeOK, RInv, TypeOK, ExtType, HciType
<1>1. ASSUME BusStays, fault' \in [Serial -> SUBSET FaultKind], UNCHANGED drv, BtTypeOK',
             \A i \in Iface : ext'[i].live = ext[i].live, UNCHANGED lock \/ SemaInit
      PROVE  PInv'
  <2>1. RInv'
    BY <1>1, RegistryStays DEF PInv
  <2>2. LockWell'
    BY <1>1, WaitersStay, HubThreadAssumption DEF PInv, Thread
  <2> QED
    BY <1>1, <2>1, <2>2 DEF PInv, BusStays, registry, Vacant, CallerPlace, HubPlace, ExtLives, Inside, At
<1>2. \A k \in {{}, {"freed"}} : Commit("BT", k) => fault' \in [Serial -> SUBSET FaultKind]
  BY <1>0 DEF Commit, FaultKind, Serial
<1>3. ASSUME NEW h \in Hdev, HciOpen(h) \/ HciClose(h)
      PROVE  PInv' /\ BusStays /\ UNCHANGED drv
  <2>1. BusStays /\ UNCHANGED <<lock, drv, dangling, met, broken>>
    BY <1>3 DEF HciOpen, HciClose
  <2>2. PICK b : ext' = [ext EXCEPT ![hci[h].ext].open = b] /\ (hci[h].ext \in Iface => b \in BOOLEAN)
    BY <1>0, <1>3 DEF HciOpen, HciClose, ExtType
  <2>3. ext' \in [Iface -> ExtType] /\ \A i \in Iface : ext'[i].live = ext[i].live
    <3>1. CASE hci[h].ext \in Iface
      BY <1>0, <2>2, <3>1 DEF ExtType
    <3>2. CASE hci[h].ext \notin Iface
      BY <1>0, <2>2, <3>2
    <3> QED
      BY <3>1, <3>2
  <2>4. hci' \in [Hdev -> HciType]
    <3>1. CASE HciOpen(h)
      BY <1>0, <3>1 DEF HciOpen, HciType
    <3>2. CASE HciClose(h)
      BY <1>0, <3>2 DEF HciClose, HciType
    <3> QED
      BY <1>3, <3>1, <3>2
  <2>5. fault' \in [Serial -> SUBSET FaultKind]
    BY <1>2, <1>3 DEF HciOpen, HciClose
  <2>6. BtTypeOK'
    BY <2>1, <2>3, <2>4 DEF PInv, BtTypeOK, ExtType, HciType, lock
  <2> QED
    BY <1>1, <2>1, <2>3, <2>5, <2>6
<1>4. CASE ProbeOther \/ ProbeRefused
  <2>1. SemaInit /\ BusStays /\ UNCHANGED <<fault, ext, hci, drv>>
    BY <1>4 DEF ProbeOther, ProbeRefused
  <2>2. LockType' /\ met' \in BOOLEAN /\ dangling' \in BOOLEAN /\ broken' \in BOOLEAN
    BY <1>4, <2>1, SemaInitKeeps DEF ProbeOther, ProbeRefused, SemaInit, PInv, BtTypeOK, LockWell, Meets
  <2>3. BtTypeOK'
    BY <2>1, <2>2 DEF PInv, BtTypeOK, LockType
  <2> QED
    BY <1>0, <1>1, <2>1, <2>3
<1>5. CASE DisconnectRefused
  <2>1. BtTypeOK'
    BY <1>5 DEF DisconnectRefused, btVars, lock, PInv, BtTypeOK
  <2>2. fault' \in [Serial -> SUBSET FaultKind]
    BY <1>2, <1>5 DEF DisconnectRefused
  <2> QED
    BY <1>1, <1>5, <2>1, <2>2 DEF DisconnectRefused, btVars, lock
<1> QED
  BY <1>3, <1>4, <1>5

(* A thread inside is where the bus called it from; in the bus it is inside. *)
LEMMA CallerIsInside ==
    ASSUME PInv, NEW c \in Caller
    PROVE  /\ call[c].op \notin {"plug", "unplug"} => At(c, "out") /\ call[c] = Idle
           /\ call[c].op = "plug" => drv[c].at \in OpenPlace
           /\ call[c].op = "unplug" => drv[c].at \in ClosePlace
           /\ c # HubThread /\ c \in Thread
<1>1. c # HubThread /\ c \in Thread
  BY HubThreadAssumption DEF Thread
<1>2. drv[c].at \in Place /\ CallerPlace(c)
  BY <1>1 DEF PInv, BtTypeOK
<1>3. drv[c].at = "out" => call[c].op = "none"
  BY <1>2 DEF CallerPlace, At, Idle
<1>4. drv[c].at \in {"out"} \cup OpenPlace \cup ClosePlace
  BY <1>2 DEF CallerPlace, Place, OpenPlace, ClosePlace, LeavePlace
<1> QED
  BY <1>1, <1>2, <1>3, <1>4 DEF CallerPlace, At

LEMMA CallerStepKeeps ==
    ASSUME PInv, Running, NEW c \in Caller, CallerStep(c)
    PROVE  PInv' /\ UNCHANGED slot /\ UNCHANGED hub
<1> DEFINE a == drv'[c].at
<1>0. CallerNext(c)
  <2>1. "BT" \in Serial /\ OpenSucceeded(c) \in BOOLEAN
    BY DEF Serial, OpenSucceeded, At
  <2> QED
    BY <2>1 DEF CallerStep, BtPlugIn, BtPlugInDone, BtUnPlug, BtUnPlugDone, CallerNext
<1>1. RInv'
  BY <1>0, NextRegistry DEF PInv, Next
<1>2. /\ UNCHANGED <<slot, hub>>
      /\ \A i \in Iface : block'[i].live = block[i].live
  BY <1>0, CallerFrame DEF PInv
<1>3. /\ drv \in [Thread -> DrvType] /\ c \in Thread /\ c # HubThread
      /\ call \in [Caller -> CallState] /\ drv[c].at \in Place
  BY CallerIsInside DEF PInv, BtTypeOK, DrvType, RInv, TypeOK
<1>4. UNCHANGED <<lock, ext, hci, dangling, broken>>
  BY DEF CallerStep, BtPlugIn, BtPlugInDone, BtUnPlug, BtUnPlugDone
<1>5. /\ drv' \in [Thread -> DrvType] /\ \A u \in Thread \ {c} : drv'[u] = drv[u]
      /\ drv'[c].hdev # NoHdev <=> a \in Carrying
      /\ \A d \in Caller \ {c} : call'[d] = call[d]
      /\ CallerPlace(c)'
  <2>1. CASE BtPlugIn(c) \/ BtUnPlug(c)
    <3>1. drv[c].at = "out" /\ drv[c].hdev = NoHdev
      BY <2>1, CallerIsInside DEF BtPlugIn, BtUnPlug, PlugIn, UnPlug, Idle, At, PInv, Carrying
    <3>2. PICK p \in {"lock_open", "lock_close"} :
             /\ drv' = [drv EXCEPT ![c].at = p]
             /\ call'[c].serial = "BT" /\ call'[c].next = 4
             /\ call'[c].op = IF p = "lock_open" THEN "plug" ELSE "unplug"
             /\ \A d \in Caller \ {c} : call'[d] = call[d]
      BY <1>3, <2>1 DEF BtPlugIn, BtUnPlug, PlugIn, UnPlug, BeginClose, Called
    <3>3. drv' \in [Thread -> DrvType] /\ \A u \in Thread \ {c} : drv'[u] = drv[u]
      BY <1>3, <3>2 DEF DrvType, Place
    <3>4. drv'[c].at = p /\ drv'[c].hdev = NoHdev
      BY <1>3, <3>1, <3>2 DEF DrvType
    <3> QED
      BY <3>2, <3>3, <3>4 DEF CallerPlace, At, Inside, Carrying, OpenPlace, ClosePlace, LeavePlace
  <2>2. CASE BtPlugInDone(c) \/ BtUnPlugDone(c)
    <3>1. drv' = [drv EXCEPT ![c] = Outside]
      BY <2>2 DEF BtPlugInDone, BtUnPlugDone, Returned
    <3>2. Inside(c)
      BY <2>2 DEF BtPlugInDone, BtUnPlugDone, Inside, At
    <3>3. call' = [call EXCEPT ![c] = Idle]
      <4>1. CASE BtPlugInDone(c)
        BY <4>1 DEF BtPlugInDone, PlugInDone
      <4>2. CASE BtUnPlugDone(c)
        <5>1. AfterSlot(call[c].next) = Idle
          BY <3>2 DEF PInv, CallerPlace, AfterSlot
        <5> QED
          BY <4>2, <5>1 DEF BtUnPlugDone, UnPlugDone
      <4> QED
        BY <2>2, <4>1, <4>2
    <3>4. Outside \in DrvType
      BY DEF Outside, DrvType, Place
    <3>5. /\ drv' \in [Thread -> DrvType] /\ \A u \in Thread \ {c} : drv'[u] = drv[u]
          /\ drv'[c] = Outside
      BY <1>3, <3>1, <3>4
    <3>6. call'[c] = Idle /\ \A d \in Caller \ {c} : call'[d] = call[d]
      BY <1>3, <3>3
    <3> QED
      BY <3>5, <3>6 DEF CallerPlace, At, Inside, Carrying, OpenPlace, ClosePlace, LeavePlace, Outside
  <2> QED
    BY <2>1, <2>2 DEF CallerStep
<1>6. met' \in BOOLEAN
  BY DEF CallerStep, BtPlugIn, BtPlugInDone, BtUnPlug, BtUnPlugDone, Called, Returned, Meets, PInv, BtTypeOK
<1>7. BtTypeOK'
  BY <1>4, <1>5, <1>6 DEF PInv, BtTypeOK, DrvType, lock
<1>8. (\A d \in Caller : CallerPlace(d))'
  BY <1>5 DEF PInv, CallerPlace, Thread, At, Inside
<1>9. HubPlace'
  BY <1>2, <1>3, <1>5 DEF PInv, HubPlace, Thread, Vacant
<1>10. (\A u \in Thread : drv[u].hdev # NoHdev <=> drv[u].at \in Carrying)'
  BY <1>5 DEF PInv
<1>11. LockWell'
  <2>1. drv[c].at \notin Waiting
    BY CallerIsInside DEF CallerStep, BtPlugIn, BtPlugInDone, BtUnPlug, BtUnPlugDone, PlugIn, UnPlug, Idle,
                          At, Waiting
  <2> QED
    BY <1>3, <1>4, <1>5, <2>1, WaitersStay DEF PInv
<1> QED
  BY <1>1, <1>2, <1>4, <1>7, <1>8, <1>9, <1>10, <1>11 DEF PInv, Vacant, ExtLives

(* The steps of the USB core's thread that move the bus, and Disconnect.    *)
HubMoves == (\E i \in Iface : Probe(i)) \/ ProbeDone \/ Disconnect \/ Leave \/ LeaveDone

LEMMA HubFrame ==
    ASSUME PInv, HubMoves
    PROVE  /\ UNCHANGED <<call, hci, dangling>>
           /\ drv' \in [Thread -> DrvType]
           /\ \A u \in Thread \ {HubThread} : drv'[u] = drv[u]
           /\ HubThread \in Thread
           /\ UNCHANGED lock \/ SemaInit
           /\ LockWell'
<1> DEFINE H == HubThread
<1>1. H \in Thread /\ drv \in [Thread -> DrvType]
  BY DEF Thread, PInv, BtTypeOK, DrvType
<1>2. UNCHANGED <<call, hci, dangling>>
  BY DEF HubMoves, Probe, ProbeDone, Disconnect, Leave, LeaveDone, Attach, AttachDone, Detach,
         DetachDone, BusStays
<1>3. \/ drv' = drv
      \/ \E p \in {"lock_open", "lock_close"} : drv' = [drv EXCEPT ![H].at = p]
      \/ drv' = [drv EXCEPT ![H] = Outside]
      \/ Disconnect
  BY DEF HubMoves, Probe, ProbeDone, Leave, LeaveDone, Called, Returned, Go
<1>4. /\ drv' \in [Thread -> DrvType]
      /\ \A u \in Thread \ {H} : drv'[u] = drv[u]
  <2>1. CASE drv' = drv
    BY <1>1, <2>1
  <2>2. CASE \E p \in {"lock_open", "lock_close"} : drv' = [drv EXCEPT ![H].at = p]
    BY <1>1, <2>2 DEF DrvType, Place
  <2>3. CASE drv' = [drv EXCEPT ![H] = Outside]
    <3>1. Outside \in DrvType
      BY DEF Outside, DrvType, Place
    <3> QED
      BY <1>1, <2>3, <3>1
  <2>4. CASE Disconnect
    <3> DEFINE h == ext[slot["BT"]].hdev
               d == [at |-> IF h = NoHdev THEN "gone" ELSE "lock_gone", hdev |-> h]
    <3>1. h \in Hdev \cup {NoHdev}
      BY <2>4 DEF Disconnect, Vacant, PInv, BtTypeOK, RInv, TypeOK, Serial
    <3>2. d \in DrvType
      BY <3>1 DEF DrvType, Place
    <3>3. drv' = [drv EXCEPT ![H] = d]
      BY <2>4 DEF Disconnect
    <3> HIDE DEF d
    <3> QED
      BY <1>1, <3>2, <3>3
  <2> QED
    BY <1>3, <2>1, <2>2, <2>3, <2>4
<1>5. UNCHANGED lock \/ SemaInit
  BY DEF HubMoves, Probe, ProbeDone, Disconnect, Leave, LeaveDone
<1>6. LockWell'
  <2>1. drv[H].at \notin Waiting
    BY DEF HubMoves, Probe, ProbeDone, Disconnect, Leave, LeaveDone, At, Waiting
  <2> QED
    BY <1>1, <1>4, <1>5, <2>1, WaitersStay DEF PInv
<1> QED
  BY <1>1, <1>2, <1>4, <1>5, <1>6

LEMMA HubStepKeeps ==
    ASSUME PInv, Running, HubMoves
    PROVE  PInv'
<1> DEFINE H == HubThread
           a == drv'[H].at
<1>0. /\ "BT" \in Serial
      /\ slot \in [Serial -> Iface \cup {NoIface}] /\ block \in [Iface -> Block]
      /\ drv \in [Thread -> DrvType] /\ ext \in [Iface -> ExtType]
      /\ H \in Thread
  BY DEF Serial, PInv, BtTypeOK, RInv, TypeOK, DrvType, ExtType, Thread
<1>1. Disconnect \/ HubNext
  <2>1. OpenSucceeded(H) \in BOOLEAN
    BY DEF OpenSucceeded, At
  <2> QED
    BY <1>0, <2>1 DEF HubMoves, HubNext, Probe, ProbeDone, Leave, LeaveDone
<1>2. RInv'
  <2>1. CASE HubNext
    BY <2>1, NextRegistry DEF PInv, Next
  <2>2. CASE Disconnect
    BY <2>2, RegistryStays DEF Disconnect, PInv, RInv, TypeOK
  <2> QED
    BY <1>1, <2>1, <2>2
<1>3. (\A c \in Caller : CallerPlace(c))'
  BY HubFrame, HubThreadAssumption DEF PInv, CallerPlace, Thread, At, Inside
<1>4. NoExt \in ExtType /\ NewExt \in ExtType /\ NoExt.live = FALSE /\ NewExt.live = TRUE
  BY DEF NoExt, NewExt, ExtType
<1>9. LockWell'
  BY HubFrame
<1>5. ASSUME NEW i \in Iface, Probe(i)
      PROVE  PInv'
  <2>1. /\ slot' = [slot EXCEPT !["BT"] = i] /\ block[i] = Free /\ hub = HubIdle
        /\ \E b : b.live = TRUE /\ block' = [block EXCEPT ![i] = b]
        /\ drv[H].at = "out" /\ drv[H].hdev = NoHdev /\ Vacant("BT")
    BY <1>0, <1>5 DEF Probe, Attach, TakeSlot, At, PInv, Carrying
  <2>2. ext' = [ext EXCEPT ![i] = NewExt] /\ broken' \in BOOLEAN /\ met' \in BOOLEAN
    BY <1>5 DEF Probe, SemaInit, Called, Meets, PInv, BtTypeOK
  <2>3. BtTypeOK'
    BY <1>0, <1>4, <2>2, HubFrame DEF HubMoves, PInv, BtTypeOK, ExtType, DrvType, LockWell, LockType
  <2>4. (\A s \in Serial \ {"BT"} : Vacant(s))'
    BY <1>0, <2>1 DEF PInv, Vacant
  <2>5. ExtLives'
    BY <1>0, <1>4, <2>1, <2>2 DEF PInv, ExtLives
  <2>6. HubPlace' /\ (drv'[H].hdev # NoHdev <=> drv'[H].at \in Carrying)
    <3>1. CASE Reopens("BT")
      <4>1. drv' = [drv EXCEPT ![H].at = "lock_open"] /\ hub'.op = "attach" /\ hub'.serial = "BT"
        BY <1>5, <3>1 DEF Probe, Attach, Called
      <4>2. drv'[H].at = "lock_open" /\ drv'[H].hdev = NoHdev
        BY <1>0, <2>1, <4>1 DEF DrvType
      <4> QED
        BY <4>1, <4>2 DEF HubPlace, Carrying, OpenPlace, ClosePlace, LeavePlace
    <3>2. CASE ~Reopens("BT")
      <4>1. drv' = drv /\ hub' = HubIdle
        BY <1>5, <2>1, <3>2 DEF Probe, Attach
      <4> QED
        BY <2>1, <4>1 DEF HubPlace, HubIdle, Carrying, OpenPlace, ClosePlace, LeavePlace
    <3> QED
      BY <3>1, <3>2
  <2>7. (\A u \in Thread : drv[u].hdev # NoHdev <=> drv[u].at \in Carrying)'
    BY <1>5, <2>6, HubFrame DEF HubMoves, PInv
  <2> QED
    BY <1>2, <1>3, <1>9, <2>3, <2>4, <2>5, <2>6, <2>7 DEF PInv
<1>6. CASE ProbeDone \/ LeaveDone
  <2>1. hub' = HubIdle /\ slot' = slot /\ drv' = [drv EXCEPT ![H] = Outside] /\ met' = met
    BY <1>6 DEF ProbeDone, LeaveDone, AttachDone, DetachDone, Returned, registry
  <2>2. drv'[H] = Outside
    BY <1>0, <2>1
  <2>3. HubPlace' /\ (drv'[H].hdev # NoHdev <=> drv'[H].at \in Carrying)
    BY <2>1, <2>2 DEF HubPlace, HubIdle, Outside, Carrying, OpenPlace, ClosePlace, LeavePlace
  <2>4. (\A u \in Thread : drv[u].hdev # NoHdev <=> drv[u].at \in Carrying)'
    BY <2>3, HubFrame DEF HubMoves, PInv
  <2>5. (\A s \in Serial \ {"BT"} : Vacant(s))'
    BY <2>1 DEF PInv, Vacant
  <2>6. hub.iface \in Iface
    BY <1>6 DEF ProbeDone, LeaveDone, AttachDone, DetachDone, PInv, RInv, HubOK
  <2>7. BtTypeOK' /\ ExtLives'
    <3>1. UNCHANGED broken
      BY <1>6 DEF ProbeDone, LeaveDone
    <3>2. CASE ProbeDone
      <4>1. ext' = ext /\ (block' = block \/ block' = [block EXCEPT ![hub.iface].devstate = "Started"])
        BY <3>2 DEF ProbeDone, AttachDone
      <4>2. \A i \in Iface : block'[i].live = block[i].live
        BY <1>0, <2>6, <4>1 DEF Block
      <4> QED
        BY <2>1, <3>1, <4>1, <4>2, HubFrame DEF HubMoves, PInv, BtTypeOK, ExtLives, DrvType, LockWell, LockType
    <3>3. CASE LeaveDone
      <4>1. ext' = [ext EXCEPT ![hub.iface] = NoExt] /\ block' = [block EXCEPT ![hub.iface] = Free]
        BY <3>3 DEF LeaveDone, DetachDone, Release, Destroy
      <4>2. ext' \in [Iface -> ExtType]
        BY <1>0, <1>4, <4>1
      <4>3. ExtLives'
        BY <1>0, <1>4, <2>6, <4>1 DEF PInv, ExtLives, Free
      <4> QED
        BY <2>1, <3>1, <4>2, <4>3, HubFrame DEF HubMoves, PInv, BtTypeOK, DrvType, ExtType, LockWell, LockType
    <3> QED
      BY <1>6, <3>2, <3>3
  <2> QED
    BY <1>2, <1>3, <1>9, <2>3, <2>4, <2>5, <2>7 DEF PInv
<1>7. CASE Disconnect
  <2> DEFINE h == ext[slot["BT"]].hdev
  <2>1. UNCHANGED <<ext, broken, slot, hub, block>> /\ met' \in BOOLEAN
    BY <1>7 DEF Disconnect, BusStays, registry, Meets, PInv, BtTypeOK
  <2>2. drv' = [drv EXCEPT ![H] = [at |-> IF h = NoHdev THEN "gone" ELSE "lock_gone", hdev |-> h]]
    BY <1>7 DEF Disconnect
  <2>3. a = (IF h = NoHdev THEN "gone" ELSE "lock_gone") /\ drv'[H].hdev = h
    BY <1>0, <2>2
  <2>4. hub = HubIdle /\ ~Vacant("BT")
    BY <1>7 DEF Disconnect
  <2> HIDE DEF h
  <2>5. HubPlace' /\ (drv'[H].hdev # NoHdev <=> a \in Carrying)
    BY <2>1, <2>3, <2>4 DEF HubPlace, Carrying, OpenPlace, ClosePlace, LeavePlace, Vacant
  <2>6. (\A u \in Thread : drv[u].hdev # NoHdev <=> drv[u].at \in Carrying)'
    BY <1>7, <2>5, HubFrame DEF HubMoves, PInv
  <2>7. BtTypeOK' /\ ExtLives' /\ (\A s \in Serial \ {"BT"} : Vacant(s))'
    BY <1>7, <2>1, HubFrame DEF HubMoves, PInv, BtTypeOK, ExtLives, Vacant, DrvType, LockWell, LockType
  <2> QED
    BY <1>2, <1>3, <1>9, <2>5, <2>6, <2>7 DEF PInv
<1>8. CASE Leave
  <2> DEFINE i == slot["BT"]
  <2>1. /\ i \in Iface /\ slot' = [slot EXCEPT !["BT"] = NoIface] /\ drv[H].at = "gone"
        /\ UNCHANGED <<met, broken>> /\ drv[H].hdev = NoHdev
        /\ hub = HubIdle
    BY <1>0, <1>8 DEF Leave, Detach, Vacant, At, PInv, Carrying
  <2>2. (\A s \in Serial \ {"BT"} : Vacant(s))'
    BY <1>0, <2>1 DEF PInv, Vacant
  <2>3. ASSUME ext' \in [Iface -> ExtType], ExtLives', HubPlace',
               drv'[H].hdev # NoHdev <=> drv'[H].at \in Carrying
        PROVE  PInv'
    <3>1. (\A u \in Thread : drv[u].hdev # NoHdev <=> drv[u].at \in Carrying)'
      BY <1>8, <2>3, HubFrame DEF HubMoves, PInv
    <3>2. BtTypeOK'
      BY <1>8, <2>1, <2>3, HubFrame DEF HubMoves, PInv, BtTypeOK, DrvType, ExtType, LockWell, LockType
    <3> QED
      BY <1>2, <1>3, <1>9, <2>2, <2>3, <3>1, <3>2 DEF PInv
  <2>4. CASE NeedsClose("BT")
    <3>1. /\ ext' = ext /\ block' = block /\ drv' = [drv EXCEPT ![H].at = "lock_close"]
          /\ hub'.op = "detach" /\ hub'.serial = "BT"
      BY <1>8, <2>4 DEF Leave, Detach, Go
    <3>2. drv'[H].at = "lock_close" /\ drv'[H].hdev = NoHdev
      BY <1>0, <2>1, <3>1 DEF DrvType
    <3>3. HubPlace' /\ (drv'[H].hdev # NoHdev <=> drv'[H].at \in Carrying)
      BY <3>1, <3>2 DEF HubPlace, Carrying, OpenPlace, ClosePlace, LeavePlace
    <3> QED
      BY <1>0, <2>3, <3>1, <3>3 DEF PInv, ExtLives
  <2>5. CASE ~NeedsClose("BT")
    <3>1. /\ ext' = [ext EXCEPT ![i] = NoExt] /\ block' = [block EXCEPT ![i] = Free]
          /\ drv' = [drv EXCEPT ![H] = Outside] /\ hub' = HubIdle
      BY <1>8, <2>1, <2>5 DEF Leave, Detach, Release, Destroy
    <3>2. drv'[H] = Outside
      BY <1>0, <3>1
    <3>3. HubPlace' /\ (drv'[H].hdev # NoHdev <=> drv'[H].at \in Carrying)
      BY <3>1, <3>2 DEF HubPlace, HubIdle, Outside, Carrying, OpenPlace, ClosePlace, LeavePlace
    <3>4. ext' \in [Iface -> ExtType]
      BY <1>0, <1>4, <3>1
    <3>5. ExtLives'
      BY <1>0, <1>4, <2>1, <3>1 DEF PInv, ExtLives, Free
    <3> QED
      BY <2>3, <3>3, <3>4, <3>5
  <2> QED
    BY <2>4, <2>5
<1> QED
  BY <1>5, <1>6, <1>7, <1>8 DEF HubMoves

(* Every step keeps part one.                                              *)
Inner(t) == Callback(t) \/ (t = HubThread /\ (StopHci \/ ClearOpen))
Aside ==
    \/ \E h \in Hdev : HciOpen(h) \/ HciClose(h)
    \/ ProbeOther \/ ProbeRefused \/ DisconnectRefused

LEMMA StepKinds ==
    ASSUME BtNext
    PROVE  /\ Running
           /\ \/ \E t \in Thread : Inner(t)
              \/ \E c \in Caller : CallerStep(c)
              \/ HubMoves
              \/ Aside
BY DEF BtNext, HubThreadStep, Inner, Aside, HubMoves, Thread

LEMMA NextPlaces == PInv /\ [BtNext]_<<vars, btVars>> => PInv'
<1> SUFFICES ASSUME PInv, [BtNext]_<<vars, btVars>>
             PROVE  PInv'
  OBVIOUS
<1>1. ASSUME NEW t \in Thread, Inner(t)
      PROVE  PInv'
  BY <1>1, InnerStep, InnerKeeps DEF Inner
<1>2. CASE UNCHANGED <<vars, btVars>>
  <2>1. RInv'
    BY <1>2, RegistryStays DEF PInv, vars, registry, history, BusStays, RInv, TypeOK
  <2> QED
    BY <1>2, <2>1 DEF PInv, vars, btVars, lock, registry, BtTypeOK, Vacant, CallerPlace, HubPlace,
           ExtLives, Inside, At, LockWell, LockType, ListOK, WaitOK, Asleep
<1>3. CASE BtNext
  BY <1>1, <1>3, StepKinds, CallerStepKeeps, HubStepKeeps, OtherKeeps DEF Aside
<1> QED
  BY <1>2, <1>3

-----------------------------------------------------------------------------
(* Part two.  A thread takes openLock, gives it back, hands it to one that  *)
(* sleeps or leaves it as it is; otherwise it has broken it.                *)

SameHolders(S) == \A u \in Thread \ S : Holds(u)' <=> Holds(u)

Takes(t)  == ~Holds(t) /\ Holds(t)' /\ openLock > 0 /\ openLock' = openLock - 1 /\ SameHolders({t})
Gives(t)  == Holds(t) /\ ~Holds(t)' /\ openLock' = openLock + 1 /\ SameHolders({t})
Hands(t)  == /\ Holds(t) /\ ~Holds(t)' /\ openLock' = openLock
             /\ \E u \in Thread \ {t} : Asleep(u) /\ SameHolders({t, u})
Leaves(t) == (Holds(t) <=> Holds(t)') /\ openLock' = openLock /\ SameHolders({t})

LEMMA Releases ==
    ASSUME LockWell, NEW t \in Thread, drv[t].at \in Holding, drv'[t].at \notin Holding, Up,
           \A u \in Thread \ {t} : drv'[u] = drv[u]
    PROVE  Gives(t) \/ Hands(t)
<1>1. t \notin woken /\ ~Asleep(t)
  BY DEF LockWell, WaitOK, Waiting, Holding
<1>2. CASE openLock' = openLock + 1 /\ woken' = woken
  BY <1>1, <1>2 DEF Gives, SameHolders, Holds
<1>3. ASSUME NEW v \in Thread, Asleep(v), openLock' = openLock, woken' = woken \cup {v}
      PROVE  Hands(t)
  BY <1>1, <1>3 DEF Hands, SameHolders, Holds
<1> QED
  BY <1>2, <1>3, UpKeeps DEF LockWell

LEMMA InnerTraffic ==
    ASSUME PInv, NEW t \in Thread, Inner(t), ~broken'
    PROVE  (Takes(t) \/ Gives(t) \/ Hands(t) \/ Leaves(t)) /\ ~broken
<1> USE DEF At
<1>0. /\ drv \in [Thread -> DrvType] /\ drv[t].at \in Place /\ LockWell
      /\ \A u \in Thread \ {t} : drv'[u] = drv[u]
  BY InnerStep DEF PInv, BtTypeOK, DrvType, Inner, Moves
<1>1. ASSUME NEW a, Go(t, a) \/ \E h : drv' = [drv EXCEPT ![t] = [at |-> a, hdev |-> h]]
      PROVE  drv'[t].at = a
  BY <1>0, <1>1 DEF DrvType, Go
<1>2. ASSUME UNCHANGED lock, drv[t].at \in Holding <=> drv'[t].at \in Holding
      PROVE  Leaves(t)
  BY <1>0, <1>2 DEF Leaves, SameHolders, Holds, lock
<1>3. CASE Down(t)
  <2> DEFINE a == Critical[drv[t].at]
  <2>1. /\ drv[t].at \in Waiting /\ a \in Holding /\ Go(t, a) /\ t \notin woken /\ woken' = woken
        /\ openLock > 0 /\ openLock' = openLock - 1 /\ broken' = broken
    BY <1>3 DEF Down, Arriving, Waiting, Critical, Holding
  <2> HIDE DEF a
  <2>2. drv'[t].at = a
    BY <1>1, <2>1
  <2> QED
    BY <1>0, <2>1, <2>2 DEF Takes, SameHolders, Holds, Waiting, Holding
<1>4. CASE Sleep(t)
  <2>1. UNCHANGED <<openLock, woken, drv, broken>>
    BY <1>4 DEF Sleep
  <2> QED
    BY <2>1 DEF Leaves, SameHolders, Holds
<1>5. CASE Wake(t)
  <2> DEFINE a == Critical[drv[t].at]
  <2>1. /\ drv[t].at \in Waiting /\ Go(t, a) /\ t \in woken /\ woken' = woken \ {t}
        /\ openLock' = openLock /\ broken' = broken
    BY <1>0, <1>5, DownKeeps DEF Wake, DrvType
  <2>2. a \in Holding
    BY <2>1 DEF Critical, Waiting, Holding
  <2> HIDE DEF a
  <2>3. drv'[t].at = a
    BY <1>1, <2>1
  <2> QED
    BY <1>0, <2>1, <2>2, <2>3 DEF Leaves, SameHolders, Holds
<1>6. CASE Signal(t)
  <2> DEFINE a == Interrupted[drv[t].at]
  <2>1. /\ drv[t].at \in Waiting /\ drv[t].at # "lock_gone" /\ Asleep(t)
        /\ Go(t, a) /\ openLock' = openLock /\ woken' = woken /\ ~broken
    BY <1>0, <1>6, DownKeeps DEF Signal, DrvType
  <2>2. a \notin Holding /\ t \notin woken
    BY <1>0, <2>1 DEF Interrupted, Waiting, Holding, LockWell, WaitOK
  <2> HIDE DEF a
  <2>3. drv'[t].at = a
    BY <1>1, <2>1
  <2> QED
    BY <1>0, <2>1, <2>2, <2>3 DEF Leaves, SameHolders, Holds, Waiting, Holding
<1>7. ASSUME NEW ok \in BOOLEAN, OpenDev(t, ok)
      PROVE  (Gives(t) \/ Hands(t) \/ Leaves(t)) /\ ~broken
  <2>1. drv[t].at = "open_dev" /\ ~broken
    BY <1>7 DEF OpenDev
  <2>2. CASE ok
    BY <1>1, <1>2, <1>7, <2>1, <2>2 DEF OpenDev, Holding
  <2>3. CASE ~ok
    <3>1. Up /\ drv'[t].at = "failed"
      BY <1>1, <1>7, <2>3 DEF OpenDev
    <3> QED
      BY <1>0, <2>1, <3>1, Releases DEF Holding
  <2> QED
    BY <2>2, <2>3
<1>8. ASSUME NEW h \in Hdev, RegisterDev(t, h)
      PROVE  Leaves(t) /\ ~broken
  BY <1>1, <1>2, <1>8 DEF RegisterDev, Holding
<1>9. CASE RegisterFails(t) \/ Publish(t) \/ NothingToUnregister(t) \/ Forget(t)
  <2>1. /\ Up /\ drv[t].at \in {"register", "publish", "unregister", "forget"} /\ ~broken
        /\ drv'[t].at \in {"failed", "ok", "done"}
    BY <1>1, <1>9 DEF RegisterFails, Publish, NothingToUnregister, Forget
  <2> QED
    BY <1>0, <2>1, Releases DEF Holding
<1>10. CASE UnregisterDev(t) \/ CloseDev(t)
  BY <1>1, <1>2, <1>10 DEF UnregisterDev, CloseDev, Holding
<1>11. CASE t = HubThread /\ StopHci
  <2>1. drv[t].at = "stop" /\ ~broken
    BY <1>11 DEF StopHci
  <2>2. CASE hci[drv[t].hdev].running
    BY <1>1, <1>2, <1>11, <2>1, <2>2 DEF StopHci, Holding
  <2>3. CASE ~hci[drv[t].hdev].running
    <3>1. Up /\ drv'[t].at = "gone"
      BY <1>1, <1>11, <2>3 DEF StopHci
    <3> QED
      BY <1>0, <2>1, <3>1, Releases DEF Holding
  <2> QED
    BY <2>2, <2>3
<1>12. CASE t = HubThread /\ ClearOpen
  <2>1. Up /\ drv[t].at = "stopped" /\ drv'[t].at = "gone" /\ ~broken
    BY <1>1, <1>12 DEF ClearOpen
  <2> QED
    BY <1>0, <2>1, Releases DEF Holding
<1> QED
  BY <1>3, <1>4, <1>5, <1>6, <1>7, <1>8, <1>9, <1>10, <1>11, <1>12 DEF Inner, Callback, Proceeds

LEMMA InnerLock ==
    ASSUME LockOK, NEW t \in Thread, Takes(t) \/ Gives(t) \/ Hands(t) \/ Leaves(t)
    PROVE  LockOK'
<1>1. CASE Takes(t)
  BY <1>1 DEF Takes, SameHolders, LockOK
<1>2. CASE Gives(t)
  BY <1>2 DEF Gives, SameHolders, LockOK
<1>3. CASE Hands(t)
  BY <1>3 DEF Hands, SameHolders, LockOK
<1>4. CASE Leaves(t)
  BY <1>4 DEF Leaves, SameHolders, LockOK
<1> QED
  BY <1>1, <1>2, <1>3, <1>4

(* Most steps keep every registration and everybody's part in publishing or *)
(* freeing a device, and change no pointer but to clear it.                *)
Freeing(t) == drv[t].at \in {"close_dev", "forget"}

SameOwners ==
    /\ \A i \in Iface : ext'[i].hdev \in {ext[i].hdev, NoHdev}
    /\ \A h \in Hdev : hci'[h].registered = hci[h].registered /\ hci'[h].ext = hci[h].ext

SamePart(t) ==
    /\ Freeing(t) <=> Freeing(t)'
    /\ At(t, "publish") <=> At(t, "publish")'
    /\ Freeing(t) \/ At(t, "publish") => drv'[t].hdev = drv[t].hdev /\ ExtOf(t)' = ExtOf(t)

SamePointers == SameOwners /\ \A t \in Thread : SamePart(t)

LEMMA SameKept ==
    ASSUME PInv, SamePointers
    PROVE  /\ ForgetOK => ForgetOK'
           /\ PointersOK => PointersOK'
           /\ PublishOK => PublishOK'
<1>0. \A u \in Thread : SamePart(u)
  BY DEF SamePointers
<1>1. \A u \in Thread : drv[u].hdev \in Hdev \cup {NoHdev} /\ (drv[u].hdev # NoHdev <=> drv[u].at \in Carrying)
  BY DEF PInv, BtTypeOK
<1>2. ForgetOK => ForgetOK'
  BY <1>0, <1>1 DEF ForgetOK, Freeing, SamePointers, SameOwners, SamePart, Carrying
<1>3. PublishOK => PublishOK'
  BY <1>0, <1>1 DEF PublishOK, SamePointers, SameOwners, SamePart, Own, Carrying, At
<1>4. ASSUME PointersOK PROVE PointersOK'
  <2>1. \A i \in Iface : ext[i].hdev \in Hdev \cup {NoHdev}
    BY DEF PInv, BtTypeOK
  <2> QED
    BY <1>0, <1>4, <2>1 DEF PointersOK, SamePointers, SameOwners, SamePart, Own, Freeing
<1> QED
  BY <1>2, <1>3, <1>4

LEMMA InnerSame ==
    ASSUME PInv, NEW t \in Thread,
           \/ Down(t) \/ Sleep(t) \/ Wake(t) \/ Signal(t)
           \/ RegisterFails(t) \/ NothingToUnregister(t) \/ CloseDev(t)
           \/ \E ok \in BOOLEAN : OpenDev(t, ok)
           \/ t = HubThread /\ (StopHci \/ ClearOpen)
    PROVE  SamePointers
<1>0. /\ drv \in [Thread -> DrvType] /\ drv[t].at \in Place
      /\ ext \in [Iface -> ExtType] /\ hci \in [Hdev -> HciType]
  BY DEF PInv, BtTypeOK, DrvType, ExtType, HciType
<1>1. Inner(t) /\ Moves(t)
  BY InnerStep DEF Inner, Callback, Proceeds
<1>2. /\ \A u \in Thread \ {t} : SamePart(u)
      /\ ExtOf(t)' = ExtOf(t)
  BY <1>1 DEF Moves, BusStays, registry, ExtOf, SamePart, Freeing, At
<1>3. ASSUME NEW a, \/ Go(t, a)
                    \/ drv' = [drv EXCEPT ![t] = [at |-> a, hdev |-> NoHdev]] /\ ~Freeing(t),
             a # "publish" /\ drv[t].at # "publish",
             Freeing(t) <=> a \in {"close_dev", "forget"}
      PROVE  SamePart(t)
  <2>1. CASE Go(t, a)
    BY <1>0, <1>2, <1>3, <2>1 DEF DrvType, Go, SamePart, Freeing, At
  <2>2. CASE drv' = [drv EXCEPT ![t] = [at |-> a, hdev |-> NoHdev]] /\ ~Freeing(t)
    BY <1>0, <1>2, <1>3, <2>2 DEF DrvType, SamePart, Freeing, At
  <2> QED
    BY <1>3, <2>1, <2>2
<1>4. ASSUME UNCHANGED <<ext, hci>> PROVE SameOwners
  BY <1>4 DEF SameOwners
<1>5. CASE Down(t) \/ Wake(t)
  <2> DEFINE a == Critical[drv[t].at]
  <2>1. /\ drv[t].at \in Waiting /\ a \notin {"close_dev", "forget", "publish"} /\ Go(t, a)
        /\ UNCHANGED <<ext, hci>>
    <3>1. drv[t].at \in Waiting
      BY <1>0, <1>5, DownKeeps DEF PInv, DrvType
    <3> QED
      BY <1>5, <3>1 DEF Down, Wake, Waiting, Critical
  <2> HIDE DEF a
  <2>2. SamePart(t)
    BY <1>3, <2>1 DEF Waiting, Freeing
  <2> QED
    BY <1>2, <1>4, <2>1, <2>2 DEF SamePointers
<1>6. CASE Signal(t)
  <2> DEFINE a == Interrupted[drv[t].at]
  <2>1. /\ drv[t].at \in Waiting /\ a \notin {"close_dev", "forget", "publish"} /\ Go(t, a)
        /\ UNCHANGED <<ext, hci>>
    <3>1. drv[t].at \in Waiting
      BY <1>0, <1>6, DownKeeps DEF PInv, DrvType
    <3> QED
      BY <1>6, <3>1 DEF Signal, Waiting, Interrupted
  <2> HIDE DEF a
  <2>2. SamePart(t)
    BY <1>3, <2>1 DEF Waiting, Freeing
  <2> QED
    BY <1>2, <1>4, <2>1, <2>2 DEF SamePointers
<1>7. CASE RegisterFails(t) \/ NothingToUnregister(t)
  <2>1. /\ drv[t].at \in {"register", "unregister"} /\ UNCHANGED <<ext, hci>>
        /\ Go(t, "failed") \/ Go(t, "done")
    BY <1>7 DEF RegisterFails, NothingToUnregister, At
  <2>2. SamePart(t)
    <3>1. drv[t].at # "publish" /\ ~Freeing(t)
      BY <2>1 DEF Freeing
    <3>2. CASE Go(t, "failed")
      BY <1>3, <3>1, <3>2
    <3>3. CASE Go(t, "done")
      BY <1>3, <3>1, <3>3
    <3> QED
      BY <2>1, <3>2, <3>3
  <2> QED
    BY <1>2, <1>4, <2>1, <2>2 DEF SamePointers
<1>8. CASE CloseDev(t)
  <2>1. /\ drv[t].at = "close_dev" /\ Go(t, "forget") /\ hci' = hci
        /\ ext' = [ext EXCEPT ![ExtOf(t)].powered = FALSE]
    BY <1>8 DEF CloseDev, At
  <2>2. SamePart(t)
    BY <1>3, <2>1 DEF Freeing
  <2>3. SameOwners
    BY <1>0, <2>1 DEF SameOwners, ExtType
  <2> QED
    BY <1>2, <2>2, <2>3 DEF SamePointers
<1>9. ASSUME NEW ok \in BOOLEAN, OpenDev(t, ok)
      PROVE  SamePointers
  <2>1. /\ drv[t].at = "open_dev" /\ (Go(t, "register") \/ Go(t, "failed")) /\ hci' = hci
        /\ ext' = ext \/ ext' = [ext EXCEPT ![ExtOf(t)].powered = TRUE]
    BY <1>9 DEF OpenDev, At
  <2>2. SamePart(t)
    BY <1>3, <2>1 DEF Freeing
  <2>3. SameOwners
    <3>1. CASE ext' = ext
      BY <1>4, <2>1, <3>1
    <3>2. CASE ext' = [ext EXCEPT ![ExtOf(t)].powered = TRUE]
      BY <1>0, <2>1, <3>2 DEF SameOwners, ExtType
    <3> QED
      BY <2>1, <3>1, <3>2
  <2> QED
    BY <1>2, <2>2, <2>3 DEF SamePointers
<1>10. CASE t = HubThread /\ StopHci
  <2>1. /\ drv[t].at = "stop" /\ ext' = ext
        /\ hci' = [hci EXCEPT ![drv[t].hdev].running = FALSE]
        /\ \/ Go(t, "stopped")
           \/ drv' = [drv EXCEPT ![t] = [at |-> "gone", hdev |-> NoHdev]]
    BY <1>10 DEF StopHci, At
  <2>2. SamePart(t)
    BY <1>3, <2>1 DEF Freeing
  <2>3. SameOwners
    BY <1>0, <2>1 DEF SameOwners, HciType
  <2> QED
    BY <1>2, <2>2, <2>3 DEF SamePointers
<1>11. CASE t = HubThread /\ ClearOpen
  <2>1. /\ drv[t].at = "stopped" /\ hci' = hci
        /\ ext' = [ext EXCEPT ![ExtOf(t)].open = FALSE]
        /\ drv' = [drv EXCEPT ![t] = [at |-> "gone", hdev |-> NoHdev]]
    BY <1>11 DEF ClearOpen, At
  <2>2. SamePart(t)
    <3>1. ~Freeing(t) /\ drv[t].at # "publish"
      BY <2>1 DEF Freeing
    <3>2. /\ drv' = [drv EXCEPT ![t] = [at |-> "gone", hdev |-> NoHdev]]
          /\ Freeing(t) <=> "gone" \in {"close_dev", "forget"}
      BY <2>1, <3>1
    <3> QED
      BY <1>3, <3>1, <3>2
  <2>3. SameOwners
    BY <1>0, <2>1 DEF SameOwners, ExtType
  <2> QED
    BY <1>2, <2>2, <2>3 DEF SamePointers
<1>12. CASE Sleep(t)
  <2>1. UNCHANGED <<ext, hci, drv>>
    BY <1>12 DEF Sleep
  <2>2. SamePart(t)
    BY <1>2, <2>1 DEF SamePart, Freeing, At
  <2> QED
    BY <1>2, <1>4, <2>1, <2>2 DEF SamePointers
<1> QED
  BY <1>5, <1>6, <1>7, <1>8, <1>9, <1>10, <1>11, <1>12

(* The four steps that change who owns what.                               *)
Trades(t) == (\E h \in Hdev : RegisterDev(t, h)) \/ Publish(t) \/ UnregisterDev(t) \/ Forget(t)

LEMMA TradesKeep ==
    ASSUME PInv, LInv, NEW t \in Thread, Trades(t)
    PROVE  /\ ForgetOK'
           /\ ~broken => (PointersOK /\ PublishOK)'
<1> DEFINE i == ExtOf(t)
<1>0. /\ drv \in [Thread -> DrvType] /\ ext \in [Iface -> ExtType] /\ hci \in [Hdev -> HciType]
      /\ \A u \in Thread : /\ drv[u].hdev \in Hdev \cup {NoHdev}
                           /\ drv[u].hdev # NoHdev <=> drv[u].at \in Carrying
      /\ \A j \in Iface : ext[j].hdev \in Hdev \cup {NoHdev}
      /\ ForgetOK
  BY DEF PInv, LInv, BtTypeOK, DrvType, ExtType, HciType
<1>1. Inner(t) /\ Moves(t)
  BY InnerStep DEF Trades, Inner, Callback, Proceeds
<1>2. /\ \A u \in Thread \ {t} : drv'[u] = drv[u]
      /\ \A u \in Thread : ExtOf(u)' = ExtOf(u)
  BY <1>1 DEF Moves, BusStays, registry, ExtOf
<1>3. i \in Iface /\ t \in Thread
  <2>1. Inside(t)
    BY DEF Trades, RegisterDev, Publish, UnregisterDev, Forget, Inside, At
  <2> QED
    BY <2>1, ExtOfIs
<1>4. ASSUME ~broken
      PROVE  /\ Holds(t) => \A u \in Thread \ {t} : ~Holds(u)
             /\ PointersOK /\ PublishOK
  BY <1>4 DEF LInv, LockOK
<1> HIDE DEF i
<1>5. ASSUME NEW h \in Hdev, RegisterDev(t, h)
      PROVE  ForgetOK' /\ (~broken => (PointersOK /\ PublishOK)')
  <2>1. /\ drv'[t].at = "publish" /\ drv'[t].hdev = h /\ drv[t].at = "register" /\ ext' = ext
        /\ hci'[h].registered /\ hci'[h].ext = i
        /\ \A g \in Hdev \ {h} : hci'[g] = hci[g]
        /\ \A u \in Thread : drv[u].hdev # h
        /\ ~hci[h].registered
    BY <1>0, <1>5 DEF RegisterDev, DrvType, HciType, NoHci, At, i
  <2>2. ForgetOK'
    BY <1>0, <1>2, <2>1 DEF ForgetOK, Carrying
  <2>3. ASSUME ~broken PROVE PointersOK'
    <3>1. \A j \in Iface : ext[j].hdev # h
      BY <1>4, <2>1, <2>3, NoHdevAssumption DEF PointersOK, Own
    <3> QED
      BY <1>0, <1>2, <1>4, <2>1, <2>3, <3>1 DEF PointersOK, Own
  <2>4. ASSUME ~broken PROVE PublishOK'
    BY <1>0, <1>2, <1>4, <2>1, <2>4 DEF PublishOK, Own, At, Carrying, i
  <2> QED
    BY <2>2, <2>3, <2>4
<1>6. CASE Publish(t)
  <2>1. /\ drv'[t].at = "ok" /\ drv[t].at = "publish" /\ hci' = hci
        /\ ext'[i].hdev = drv[t].hdev /\ \A j \in Iface \ {i} : ext'[j].hdev = ext[j].hdev
    BY <1>0, <1>3, <1>6 DEF Publish, DrvType, ExtType, At, i
  <2>2. ForgetOK'
    BY <1>0, <1>2, <2>1 DEF ForgetOK
  <2>3. ASSUME ~broken PROVE PointersOK'
    <3>1. Own(drv[t].hdev, i)
      BY <1>4, <2>1, <2>3 DEF PublishOK, At, i
    <3> QED
      BY <1>0, <1>2, <1>4, <2>1, <2>3, <3>1 DEF PointersOK, Own
  <2>4. ASSUME ~broken PROVE PublishOK'
    BY <1>2, <1>4, <2>1, <2>4 DEF PublishOK, Own, At
  <2> QED
    BY <2>2, <2>3, <2>4
<1>7. CASE UnregisterDev(t)
  <2> DEFINE h == ext[i].hdev
  <2>1. /\ h \in Hdev /\ drv'[t].at = "close_dev" /\ drv'[t].hdev = h /\ drv[t].at = "unregister"
        /\ \A j \in Iface : ext'[j].hdev = ext[j].hdev
    BY <1>0, <1>3, <1>7 DEF UnregisterDev, DrvType, ExtType, At, i
  <2>2. /\ ~hci'[h].registered
        /\ \A g \in Hdev \ {h} : hci'[g] = hci[g]
    BY <1>0, <1>7, <2>1 DEF UnregisterDev, HciType, i
  <2>3. ForgetOK'
    BY <1>0, <1>2, <2>1, <2>2 DEF ForgetOK, Carrying
  <2>4. ASSUME ~broken PROVE PointersOK'
    <3>1. \A u \in Thread : drv[u].at \notin {"close_dev", "forget"}
      BY <1>4, <2>1, <2>4 DEF Holds, Holding
    <3>2. \A j \in Iface : ext[j].hdev # NoHdev => Own(ext[j].hdev, j)
      BY <1>4, <2>4, <3>1 DEF PointersOK
    <3>3. \A j \in Iface \ {i} : ext[j].hdev # h
      BY <1>3, <2>1, <3>2, NoHdevAssumption DEF Own
    <3>4. ASSUME NEW j \in Iface \ {i}, ext'[j].hdev # NoHdev
          PROVE  Own(ext[j].hdev, j)' /\ ext'[j].hdev = ext[j].hdev
      BY <1>0, <2>1, <2>2, <3>2, <3>3, <3>4 DEF Own
    <3> HIDE DEF h
    <3>5. ext'[i].hdev = h /\ drv'[t].hdev = h /\ ExtOf(t)' = i /\ drv'[t].at = "close_dev"
      BY <1>2, <1>3, <2>1 DEF i, h
    <3> QED
      BY <3>4, <3>5 DEF PointersOK
  <2>5. ASSUME ~broken PROVE PublishOK'
    <3>1. \A u \in Thread : ~At(u, "publish")'
      BY <1>2, <1>4, <2>1, <2>5 DEF Holds, Holding, At
    <3> QED
      BY <3>1 DEF PublishOK
  <2> QED
    BY <2>3, <2>4, <2>5
<1>8. CASE Forget(t)
  <2> DEFINE h == drv[t].hdev
  <2>1. /\ drv'[t].at = "done" /\ drv[t].at = "forget" /\ h \in Hdev
        /\ ext'[i].hdev = NoHdev /\ \A j \in Iface \ {i} : ext'[j].hdev = ext[j].hdev
    BY <1>0, <1>3, <1>8 DEF Forget, Pointer, DrvType, ExtType, At, Carrying, i
  <2>2. ~hci'[h].registered /\ \A g \in Hdev \ {h} : hci'[g] = hci[g]
    BY <1>0, <1>8, <2>1 DEF Forget, NoHci
  <2>3. ~hci[h].registered
    BY <1>0, <2>1 DEF ForgetOK
  <2>4. ForgetOK'
    BY <1>0, <1>2, <2>1, <2>2 DEF ForgetOK, Carrying
  <2>5. ASSUME ~broken PROVE PointersOK'
    <3>1. \A u \in Thread \ {t} : drv[u].at \notin {"close_dev", "forget"}
      BY <1>4, <2>1, <2>5 DEF Holds, Holding
    <3>2. \A j \in Iface \ {i} : ext[j].hdev # NoHdev => Own(ext[j].hdev, j)
      BY <1>4, <2>5, <3>1 DEF PointersOK, i
    <3>3. \A j \in Iface \ {i} : ext[j].hdev # NoHdev => ext[j].hdev # h
      BY <2>3, <3>2 DEF Own
    <3> QED
      BY <1>0, <2>1, <2>2, <3>2, <3>3 DEF PointersOK, Own
  <2>6. ASSUME ~broken PROVE PublishOK'
    <3>1. \A u \in Thread : ~At(u, "publish")'
      BY <1>2, <1>4, <2>1, <2>6 DEF Holds, Holding, At
    <3> QED
      BY <3>1 DEF PublishOK
  <2> QED
    BY <2>4, <2>5, <2>6
<1> QED
  BY <1>5, <1>6, <1>7, <1>8 DEF Trades

LEMMA InnerOwners ==
    ASSUME PInv, LInv, NEW t \in Thread, Inner(t)
    PROVE  LInv'
<1>1. ForgetOK' /\ (~broken => (PointersOK /\ PublishOK)')
  <2>1. CASE Trades(t)
    BY <2>1, TradesKeep
  <2>2. CASE ~Trades(t)
    <3>1. SamePointers
      BY <2>2, InnerSame DEF Inner, Callback, Proceeds, Trades
    <3> QED
      BY <3>1, SameKept DEF LInv
  <2> QED
    BY <2>1, <2>2
<1>2. ~broken' => ~broken /\ LockOK'
  BY InnerTraffic, InnerLock DEF LInv
<1> QED
  BY <1>1, <1>2 DEF LInv

(* A step that moves a thread between places where it has neither the lock  *)
(* nor a part in publishing or freeing.                                    *)
LEMMA OuterOwners ==
    ASSUME PInv, LInv, NEW t \in Thread,
           \A u \in Thread \ {t} : drv'[u] = drv[u],
           \A c \in Caller \ {t} : call'[c] = call[c],
           t # HubThread => ExtOf(HubThread)' = ExtOf(HubThread),
           drv' = drv \/ (~Holds(t) /\ ~Holds(t)'),
           drv' = drv => UNCHANGED <<call, hub, slot>> \/ ~Holds(t),
           SameOwners,
           woken' = woken,
           openLock' = openLock \/ (openLock' = 1 /\ (openLock = 0 => broken')),
           broken => broken'
    PROVE  LInv'
<1>1. \A u \in Thread : Holds(u)' <=> Holds(u)
  BY DEF Holds
<1>2. \A u \in Thread \ {t} : ExtOf(u)' = ExtOf(u)
  BY DEF ExtOf, Thread
<1>3. \A u \in Thread \ {t} : SamePart(u)
  BY <1>2 DEF SamePart, Freeing, At
<1>4. SamePart(t)
  <2>1. CASE Holds(t)
    BY <2>1, <1>1 DEF SamePart, ExtOf, Freeing, At
  <2>2. CASE ~Holds(t)
    BY <1>1, <2>2 DEF SamePart, Holds, Holding, Freeing, At
  <2> QED
    BY <2>1, <2>2
<1>5. ForgetOK' /\ (~broken => (PointersOK /\ PublishOK)')
  BY <1>3, <1>4, SameKept DEF SamePointers, LInv
<1>6. ASSUME ~broken' PROVE LockOK'
  <2>1. LockOK /\ openLock' \in {openLock, 1} /\ (openLock' # openLock => openLock # 0)
    BY <1>6 DEF LInv
  <2>2. openLock' = openLock
    BY <2>1 DEF LockOK
  <2> QED
    BY <1>1, <2>1, <2>2 DEF LockOK
<1> QED
  BY <1>5, <1>6 DEF LInv

LEMMA NextOwners == PInv /\ LInv /\ [BtNext]_<<vars, btVars>> => LInv'
<1> SUFFICES ASSUME PInv, LInv, [BtNext]_<<vars, btVars>>
             PROVE  LInv'
  OBVIOUS
<1>0. /\ drv \in [Thread -> DrvType] /\ ext \in [Iface -> ExtType] /\ hci \in [Hdev -> HciType]
      /\ \A i \in Iface : ext[i].hdev \in Hdev \cup {NoHdev}
      /\ HubThread \in Thread /\ broken \in BOOLEAN /\ LockWell
  BY DEF PInv, BtTypeOK, DrvType, ExtType, HciType, Thread
<1>9. ASSUME SemaInit
      PROVE  /\ woken' = woken
             /\ (openLock' = openLock \/ (openLock' = 1 /\ (openLock = 0 => broken'))) /\ (broken => broken')
  BY <1>0, <1>9 DEF SemaInit
<1>1. ASSUME NEW t \in Thread, Inner(t)
      PROVE  LInv'
  BY <1>1, InnerOwners
<1>2. ASSUME UNCHANGED ext, UNCHANGED hci
      PROVE  SameOwners
  BY <1>2 DEF SameOwners
<1>3. ASSUME UNCHANGED drv, UNCHANGED <<call, hub, slot>>, SameOwners, woken' = woken,
             openLock' = openLock \/ (openLock' = 1 /\ (openLock = 0 => broken')),
             broken => broken'
      PROVE  LInv'
  <2>1. ExtOf(HubThread)' = ExtOf(HubThread)
    BY <1>3 DEF ExtOf
  <2> QED
    BY <1>0, <1>3, <2>1, OuterOwners
<1>4. CASE UNCHANGED <<vars, btVars>>
  BY <1>2, <1>3, <1>4 DEF vars, btVars, lock, registry
<1>5. CASE ProbeOther \/ ProbeRefused \/ DisconnectRefused
  <2>1. UNCHANGED <<ext, hci, drv, call, hub, slot>>
    BY <1>5 DEF ProbeOther, ProbeRefused, DisconnectRefused, btVars, BusStays, registry
  <2>2. /\ woken' = woken
        /\ (openLock' = openLock \/ (openLock' = 1 /\ (openLock = 0 => broken'))) /\ (broken => broken')
    BY <1>5, <1>9 DEF ProbeOther, ProbeRefused, DisconnectRefused, btVars, lock
  <2> QED
    BY <1>2, <1>3, <2>1, <2>2
<1>6. ASSUME NEW h \in Hdev, HciOpen(h) \/ HciClose(h)
      PROVE  LInv'
  <2>1. UNCHANGED <<openLock, woken, drv, broken, call, hub, slot>>
    BY <1>6 DEF HciOpen, HciClose, BusStays, registry, lock
  <2>2. \A i \in Iface : ext'[i].hdev = ext[i].hdev
    BY <1>0, <1>6 DEF HciOpen, HciClose, ExtType
  <2>3. \A g \in Hdev : hci'[g].registered = hci[g].registered /\ hci'[g].ext = hci[g].ext
    <3>1. CASE HciOpen(h)
      BY <1>0, <3>1 DEF HciOpen, HciType
    <3>2. CASE HciClose(h)
      BY <1>0, <3>2 DEF HciClose, HciType
    <3> QED
      BY <1>6, <3>1, <3>2
  <2> QED
    BY <1>3, <2>1, <2>2, <2>3 DEF SameOwners
<1>7. ASSUME NEW c \in Caller, CallerStep(c), Running
      PROVE  LInv'
  <2>1. UNCHANGED <<openLock, woken, ext, hci, broken, slot, hub>>
    BY <1>7, CallerStepKeeps DEF lock, CallerStep, BtPlugIn, BtPlugInDone, BtUnPlug, BtUnPlugDone
  <2>2. c \in Thread /\ c # HubThread
    BY CallerIsInside
  <2>3. call \in [Caller -> CallState]
    BY DEF PInv, RInv, TypeOK
  <2>4. \A d \in Caller \ {c} : call'[d] = call[d]
    BY <1>7, <2>3 DEF CallerStep, BtPlugIn, BtPlugInDone, BtUnPlug, BtUnPlugDone, PlugIn, PlugInDone,
           UnPlug, UnPlugDone, BeginClose
  <2>5. /\ \A u \in Thread \ {c} : drv'[u] = drv[u]
        /\ ~Holds(c) /\ ~Holds(c)'
    <3>0. drv[c].at \notin Waiting => c \notin woken /\ c \notin woken'
      BY <1>0, <2>1, <2>2 DEF LockWell, WaitOK
    <3>1. CASE BtPlugIn(c) \/ BtUnPlug(c)
      <4>1. At(c, "out")
        BY <3>1, CallerIsInside DEF BtPlugIn, BtUnPlug, PlugIn, UnPlug, Idle
      <4>2. PICK p \in {"lock_open", "lock_close"} : drv' = [drv EXCEPT ![c].at = p]
        BY <3>1 DEF BtPlugIn, BtUnPlug, Called
      <4> QED
        BY <1>0, <2>2, <3>0, <4>1, <4>2 DEF DrvType, Holds, Holding, Waiting, At
    <3>2. CASE BtPlugInDone(c) \/ BtUnPlugDone(c)
      <4>1. drv[c].at \in {"ok", "failed", "done"} /\ drv' = [drv EXCEPT ![c] = Outside]
        BY <3>2 DEF BtPlugInDone, BtUnPlugDone, Returned, At
      <4> QED
        BY <1>0, <2>2, <3>0, <4>1 DEF DrvType, Holds, Holding, Waiting, Outside
    <3> QED
      BY <1>7, <3>1, <3>2 DEF CallerStep
  <2>6. ExtOf(HubThread)' = ExtOf(HubThread)
    BY <2>1 DEF ExtOf
  <2> QED
    BY <1>2, <2>1, <2>2, <2>4, <2>5, <2>6, OuterOwners
<1>8. CASE HubMoves
  <2> DEFINE H == HubThread
  <2>1. /\ UNCHANGED <<call, hci>> /\ \A u \in Thread \ {H} : drv'[u] = drv[u]
    BY <1>8, HubFrame
  <2>2. \A i \in Iface : ext'[i].hdev \in {ext[i].hdev, NoHdev}
    <3>1. CASE ext' = ext
      BY <3>1
    <3>2. CASE \E i \in Iface \cup {NoIface} : ext' = [ext EXCEPT ![i] = NoExt] \/ ext' = [ext EXCEPT ![i] = NewExt]
      BY <1>0, <3>2 DEF NoExt, NewExt
    <3>3. ext' = ext \/ \E i \in Iface \cup {NoIface} : ext' = [ext EXCEPT ![i] = NoExt] \/ ext' = [ext EXCEPT ![i] = NewExt]
      <4>1. slot["BT"] \in Iface \cup {NoIface} /\ hub.iface \in Iface \cup {NoIface}
        BY DEF PInv, RInv, TypeOK, Serial, HubState
      <4> QED
        BY <1>8, <4>1 DEF HubMoves, Probe, ProbeDone, Disconnect, Leave, LeaveDone, Destroy
    <3> QED
      BY <3>1, <3>2, <3>3
  <2>3. /\ woken' = woken
        /\ openLock' = openLock \/ (openLock' = 1 /\ (openLock = 0 => broken'))
        /\ broken => broken'
    <3>1. CASE \E i \in Iface : Probe(i)
      BY <1>9, <3>1 DEF Probe
    <3>2. CASE ProbeDone \/ Disconnect \/ Leave \/ LeaveDone
      BY <3>2 DEF ProbeDone, Disconnect, Leave, LeaveDone, lock
    <3> QED
      BY <1>8, <3>1, <3>2 DEF HubMoves
  <2>4. ~Holds(H) /\ ~Holds(H)'
    <3>1. drv[H].at \in {"out", "ok", "failed", "gone", "done"}
      BY <1>8 DEF HubMoves, Probe, ProbeDone, Disconnect, Leave, LeaveDone, At
    <3>7. H \notin woken /\ H \notin woken'
      BY <1>0, <2>3, <3>1 DEF LockWell, WaitOK, Waiting
    <3>2. CASE drv' = drv
      BY <3>1, <3>2, <3>7 DEF Holds, Holding
    <3>3. CASE \E p \in {"lock_open", "lock_close"} : drv' = [drv EXCEPT ![H].at = p]
      BY <1>0, <3>1, <3>3, <3>7 DEF Holds, Holding, DrvType
    <3>4. CASE drv' = [drv EXCEPT ![H] = Outside]
      BY <1>0, <3>1, <3>4, <3>7 DEF Holds, Holding, Outside
    <3>5. CASE Disconnect
      BY <1>0, <3>1, <3>5, <3>7 DEF Disconnect, Holds, Holding
    <3>6. \/ drv' = drv
          \/ \E p \in {"lock_open", "lock_close"} : drv' = [drv EXCEPT ![H].at = p]
          \/ drv' = [drv EXCEPT ![H] = Outside]
          \/ Disconnect
      BY <1>8 DEF HubMoves, Probe, ProbeDone, Leave, LeaveDone, Called, Returned, Go
    <3> QED
      BY <3>2, <3>3, <3>4, <3>5, <3>6
  <2> QED
    BY <1>0, <2>1, <2>2, <2>3, <2>4, OuterOwners DEF SameOwners
<1> QED
  BY <1>1, <1>4, <1>5, <1>6, <1>7, <1>8, StepKinds DEF Aside

-----------------------------------------------------------------------------
(* Part three.  The card is the one interface that lives.                  *)
LEMMA CardFacts ==
    ASSUME PInv
    PROVE  /\ Card \in Iface \cup {NoIface}
           /\ hub = HubIdle => Card = slot["BT"]
           /\ hub # HubIdle => Card = hub.iface
           /\ \A i \in Iface : block[i].live <=> i = Card
<1>1. hub = HubIdle => Card = slot["BT"]
  BY DEF Card, ExtOf
<1>2. hub # HubIdle => Card = hub.iface /\ hub.op \in {"attach", "detach"} /\ hub.serial = "BT"
  BY DEF Card, ExtOf, PInv, HubPlace, RInv, HubOK, TypeOK, HubState
<1>3. "BT" \in Serial /\ slot["BT"] \in Iface \cup {NoIface} /\ block \in [Iface -> Block]
      /\ RegistrySound /\ HubOK
  BY DEF PInv, RInv, TypeOK, Serial
<1>4. ASSUME NEW i \in Iface, block[i].live
      PROVE  i = Card
  <2>1. \/ slot["BT"] = i
        \/ hub.op = "detach" /\ hub.iface = i
    <3>1. block[i].serial # "BT" => slot[block[i].serial] # i
      BY <1>3, NoIfaceAssumption DEF PInv, Vacant, Block
    <3> QED
      BY <1>3, <1>4, <3>1 DEF RegistrySound
  <2>2. CASE hub = HubIdle
    BY <1>1, <2>1, <2>2 DEF HubIdle
  <2>3. CASE hub # HubIdle
    BY <1>2, <1>3, <2>1, <2>3, NoIfaceAssumption DEF HubOK, Vacant
  <2> QED
    BY <2>2, <2>3
<1>5. ASSUME Card \in Iface
      PROVE  block[Card].live
  <2>1. CASE hub.op = "detach"
    BY <1>2, <1>3, <2>1 DEF HubOK, HubIdle
  <2>2. CASE hub.op # "detach"
    <3>1. Card = slot["BT"]
      BY <1>1, <1>2, <1>3, <2>2 DEF HubOK
    <3> QED
      BY <1>3, <1>5, <3>1, NoIfaceAssumption DEF RegistrySound, Vacant
  <2> QED
    BY <2>1, <2>2
<1> QED
  BY <1>1, <1>2, <1>3, <1>4, <1>5 DEF HubOK, PInv, RInv, TypeOK, HubState

LEMMA InsideOnCard ==
    ASSUME PInv, Alone, NEW t \in Thread, Inside(t)
    PROVE  /\ ExtOf(t) = Card /\ Card \in Iface
           /\ \A u \in Thread \ {t} : At(u, "out") /\ drv[u].hdev = NoHdev
<1>1. ExtOf(t) = Card
  BY DEF Alone, Thread, Card, ExtOf
<1>2. \A u \in Thread \ {t} : At(u, "out") /\ drv[u].hdev = NoHdev
  BY DEF Alone, Inside, PInv, Carrying, At
<1> QED
  BY <1>1, <1>2, ExtOfIs

(* What is to be known of the card while t is the only thread inside.       *)
HciAt(t) ==
    \A h \in Hdev : hci[h].registered =>
        /\ hci[h].ext = Card /\ ext[Card].powered
        /\ ext[Card].hdev = h \/ (At(t, "publish") /\ drv[t].hdev = h)

OpenAt(t) ==
    ext[Card].open =>
        /\ ext[Card].powered
        /\ At(t, "stopped") \/ \E h \in Hdev : hci[h].registered /\ hci[h].up /\ hci[h].running

Core(t) == PlaceOK(t) /\ HciAt(t) /\ OpenAt(t)

LEMMA InnerCore ==
    ASSUME PInv, ForgetOK, NEW t \in Thread, Inner(t), ~Signal(t), Moves(t),
           Core(t), ExtOf(t) = Card, Card \in Iface
    PROVE  Core(t)'
<1> DEFINE c == Card
<1>0. /\ drv \in [Thread -> DrvType] /\ ext \in [Iface -> ExtType] /\ hci \in [Hdev -> HciType]
      /\ drv[t].hdev \in Hdev \cup {NoHdev} /\ drv[t].hdev # NoHdev <=> drv[t].at \in Carrying
      /\ ext[c].hdev \in Hdev \cup {NoHdev} /\ drv[t].at \in Place /\ ext[c].open \in BOOLEAN
  BY DEF PInv, BtTypeOK, DrvType, ExtType, HciType
<1>1. Card' = Card /\ (On' <=> On)
  BY DEF Moves, BusStays, registry, Card, ExtOf, On
<1>2. c \in Iface /\ ExtOf(t) = c
  OBVIOUS
<1> USE DEF At
<1>3. ASSUME NEW a, Go(t, a)
      PROVE  drv'[t].at = a /\ drv'[t].hdev = drv[t].hdev
  BY <1>0, <1>3 DEF DrvType, Go
<1>4. ASSUME NEW a, NEW h, drv' = [drv EXCEPT ![t] = [at |-> a, hdev |-> h]]
      PROVE  drv'[t].at = a /\ drv'[t].hdev = h
  BY <1>0, <1>4 DEF DrvType
<1> USE DEF Core, HciAt, OpenAt
<1>5. CASE Down(t) \/ Wake(t)
  <2> DEFINE a == Critical[drv[t].at]
  <2>1. /\ \/ drv[t].at = "lock_open" /\ a = "open_dev"
           \/ drv[t].at = "lock_close" /\ a = "unregister"
           \/ drv[t].at = "lock_gone" /\ a = "stop"
        /\ Go(t, a) /\ UNCHANGED <<ext, hci>>
    <3>1. drv[t].at \in Waiting
      BY <1>0, <1>5, DownKeeps DEF PInv, DrvType
    <3> QED
      BY <1>5, <3>1 DEF Down, Wake, Waiting, Critical
  <2> HIDE DEF a
  <2>2. drv'[t].at = a /\ drv'[t].hdev = drv[t].hdev
    BY <1>3, <2>1
  <2>3. PlaceOK(t)'
    BY <1>1, <2>1, <2>2 DEF PlaceOK, OpenPlace, LeavePlace, Agree
  <2> QED
    BY <1>1, <2>1, <2>2, <2>3
<1>6. ASSUME NEW ok \in BOOLEAN, OpenDev(t, ok)
      PROVE  Core(t)'
  <2>1. /\ drv[t].at = "open_dev" /\ hci' = hci
        /\ ext'[c].hdev = ext[c].hdev /\ ext'[c].open = ext[c].open
        /\ ext[c].powered => ext'[c].powered
    <3>1. drv[t].at = "open_dev" /\ hci' = hci
      BY <1>6 DEF OpenDev
    <3>2. CASE ok
      BY <1>0, <1>2, <1>6, <3>1, <3>2 DEF OpenDev, ExtType
    <3>3. CASE ~ok
      BY <1>6, <3>1, <3>3 DEF OpenDev
    <3> QED
      BY <3>2, <3>3
  <2>2. \/ drv'[t].at = "register" /\ ext'[c].powered
        \/ drv'[t].at = "failed"
    <3>1. CASE ok
      BY <1>0, <1>2, <1>3, <1>6, <3>1 DEF OpenDev, ExtType
    <3>2. CASE ~ok
      BY <1>3, <1>6, <3>2 DEF OpenDev
    <3> QED
      BY <3>1, <3>2
  <2>3. PlaceOK(t)'
    BY <1>1, <2>1, <2>2 DEF PlaceOK, OpenPlace, LeavePlace
  <2> QED
    BY <1>1, <2>1, <2>2, <2>3
<1>7. ASSUME NEW h \in Hdev, RegisterDev(t, h)
      PROVE  Core(t)'
  <2>1. /\ drv[t].at = "register" /\ drv'[t].at = "publish" /\ drv'[t].hdev = h
        /\ ext' = ext
        /\ hci'[h].registered /\ hci'[h].ext = c
        /\ \A g \in Hdev \ {h} : hci'[g] = hci[g]
    BY <1>0, <1>2, <1>4, <1>7 DEF RegisterDev, NoHci
  <2>2. ext[c].hdev = NoHdev /\ ext[c].powered /\ ~On
    BY <2>1 DEF PlaceOK, OpenPlace
  <2>3. \A g \in Hdev : ~hci[g].registered
    BY <2>1, <2>2, NoHdevAssumption
  <2>4. ~ext[c].open
    BY <2>1, <2>3
  <2>5. PlaceOK(t)'
    BY <1>1, <2>1, <2>2 DEF PlaceOK, OpenPlace, LeavePlace
  <2> QED
    BY <1>1, <2>1, <2>2, <2>3, <2>4, <2>5
<1>8. CASE RegisterFails(t)
  <2>1. drv[t].at = "register" /\ drv'[t].at = "failed" /\ UNCHANGED <<ext, hci>>
    BY <1>3, <1>8 DEF RegisterFails
  <2>2. PlaceOK(t)'
    BY <1>1, <2>1 DEF PlaceOK, OpenPlace, LeavePlace
  <2> QED
    BY <1>1, <2>1, <2>2
<1>9. CASE Publish(t)
  <2>1. /\ drv[t].at = "publish" /\ drv'[t].at = "ok" /\ hci' = hci
        /\ ext'[c].hdev = drv[t].hdev /\ ext'[c].powered = ext[c].powered /\ ext'[c].open = ext[c].open
    BY <1>0, <1>2, <1>4, <1>9 DEF Publish, ExtType
  <2>2. ext[c].hdev = NoHdev /\ ~On /\ drv[t].hdev # NoHdev
    BY <1>0, <2>1 DEF PlaceOK, OpenPlace, Carrying
  <2>3. PlaceOK(t)'
    BY <1>1, <2>1, <2>2 DEF PlaceOK, OpenPlace, LeavePlace
  <2> QED
    BY <1>1, <2>1, <2>2, <2>3, NoHdevAssumption
<1>10. CASE NothingToUnregister(t)
  <2>1. /\ drv[t].at = "unregister" /\ drv'[t].at = "done" /\ UNCHANGED <<ext, hci>>
        /\ ext[c].hdev = NoHdev
    BY <1>2, <1>3, <1>10 DEF NothingToUnregister
  <2>2. PlaceOK(t)'
    BY <1>1, <2>1 DEF PlaceOK, OpenPlace, LeavePlace
  <2> QED
    BY <1>1, <2>1, <2>2
<1>11. CASE UnregisterDev(t)
  <2> DEFINE h == ext[c].hdev
  <2>1. /\ drv[t].at = "unregister" /\ drv'[t].at = "close_dev" /\ drv'[t].hdev = h
        /\ h \in Hdev /\ h # NoHdev
        /\ ext'[c].hdev = h /\ ext'[c].open = StillOpen(h, c)
        /\ ~hci'[h].registered
        /\ \A g \in Hdev \ {h} : hci'[g] = hci[g]
    BY <1>0, <1>2, <1>4, <1>11 DEF UnregisterDev, ExtType, HciType
  <2>2. \A g \in Hdev : hci[g].registered => g = h
    BY <2>1
  <2>3. ~StillOpen(h, c)
    BY <2>1, <2>2 DEF StillOpen
  <2>4. Agree
    BY <2>1 DEF PlaceOK
  <2>5. PlaceOK(t)'
    BY <1>1, <2>1, <2>3, <2>4 DEF PlaceOK, OpenPlace, LeavePlace, Agree
  <2> QED
    BY <1>1, <2>1, <2>2, <2>3, <2>5
<1>12. CASE CloseDev(t) \/ Forget(t)
  <2>1. /\ drv[t].at \in {"close_dev", "forget"} /\ ext[c].hdev = drv[t].hdev /\ ~ext[c].open
        /\ Agree
    BY <1>12 DEF CloseDev, Forget, PlaceOK
  <2>2. \A g \in Hdev : ~hci[g].registered
    BY <2>1 DEF ForgetOK
  <2>3. ext'[c].open = ext[c].open /\ \A g \in Hdev : ~hci'[g].registered
    BY <1>0, <1>2, <1>12, <2>2 DEF CloseDev, Forget, ExtType, NoHci
  <2>4. PlaceOK(t)'
    <3>1. CASE CloseDev(t)
      <4>1. drv'[t].at = "forget" /\ drv'[t].hdev = drv[t].hdev /\ ext'[c].hdev = ext[c].hdev
        BY <1>0, <1>2, <1>3, <3>1 DEF CloseDev, ExtType
      <4> QED
        BY <1>1, <2>1, <2>3, <4>1 DEF PlaceOK, OpenPlace, LeavePlace, Agree
    <3>2. CASE Forget(t)
      <4>1. drv'[t].at = "done" /\ ext'[c].hdev = NoHdev
        BY <1>0, <1>2, <1>4, <3>2 DEF Forget, Pointer, ExtType
      <4> QED
        BY <1>1, <4>1 DEF PlaceOK, OpenPlace, LeavePlace
    <3> QED
      BY <1>12, <3>1, <3>2
  <2> QED
    BY <1>1, <2>1, <2>3, <2>4
<1>13. CASE t = HubThread /\ StopHci
  <2> DEFINE h == drv[t].hdev
  <2>1. /\ drv[t].at = "stop" /\ h \in Hdev /\ ext' = ext
        /\ \A g \in Hdev : /\ hci'[g].registered = hci[g].registered /\ hci'[g].ext = hci[g].ext
                           /\ hci'[g].up = hci[g].up
                           /\ g # h => hci'[g].running = hci[g].running
        /\ ext[c].hdev = h /\ Agree
    BY <1>0, <1>13 DEF StopHci, HciType, Carrying, PlaceOK, LeavePlace
  <2>2. CASE hci[h].running
    <3>1. drv'[t].at = "stopped" /\ drv'[t].hdev = h
      BY <1>3, <1>13, <2>2 DEF StopHci
    <3>2. PlaceOK(t)'
      BY <1>1, <2>1, <3>1 DEF PlaceOK, OpenPlace, LeavePlace, Agree
    <3> QED
      BY <1>1, <2>1, <3>1, <3>2
  <2>3. CASE ~hci[h].running
    <3>1. drv'[t].at = "gone"
      BY <1>4, <1>13, <2>3 DEF StopHci
    <3>2. PlaceOK(t)'
      BY <1>1, <2>1, <3>1 DEF PlaceOK, OpenPlace, LeavePlace, Agree
    <3>3. \A g \in Hdev : hci[g].running => hci'[g].running
      BY <2>1, <2>3
    <3> QED
      BY <1>1, <2>1, <3>1, <3>2, <3>3
  <2> QED
    BY <2>2, <2>3
<1>14. CASE t = HubThread /\ ClearOpen
  <2>1. /\ drv[t].at = "stopped" /\ drv'[t].at = "gone" /\ hci' = hci
        /\ ~ext'[c].open /\ ext'[c].hdev = ext[c].hdev /\ ext'[c].powered = ext[c].powered
        /\ Agree
    BY <1>0, <1>2, <1>4, <1>14 DEF ClearOpen, ExtType, PlaceOK, LeavePlace
  <2>2. PlaceOK(t)'
    BY <1>1, <2>1 DEF PlaceOK, OpenPlace, LeavePlace, Agree
  <2> QED
    BY <1>1, <2>1, <2>2
<1>15. CASE Sleep(t)
  <2>1. UNCHANGED <<ext, hci, drv>>
    BY <1>15 DEF Sleep
  <2> QED
    BY <1>1, <2>1 DEF PlaceOK, Agree
<1> QED
  BY <1>5, <1>6, <1>7, <1>8, <1>9, <1>10, <1>11, <1>12, <1>13, <1>14, <1>15 DEF Inner, Callback, Proceeds

(* While t alone is inside, that is all there is to know.                  *)
AllOf == (\A t \in Thread : PlaceOK(t)) /\ HciOK /\ OpenOK
OnlyInside(t) == Card \in Iface /\ Inside(t) /\ \A u \in Thread \ {t} : At(u, "out")

LEMMA CoreIsAll == PInv => \A t \in Thread : OnlyInside(t) => (Core(t) <=> AllOf)
<1> SUFFICES ASSUME PInv, NEW t \in Thread, OnlyInside(t)
             PROVE  Core(t) <=> AllOf
  OBVIOUS
<1>1. \A u \in Thread \ {t} : PlaceOK(u)
  BY DEF OnlyInside, PlaceOK, At, OpenPlace, LeavePlace
<1>2. \A u \in Thread \ {t} : ~At(u, "publish") /\ ~At(u, "stopped")
  BY DEF OnlyInside, At
<1>3. At(t, "stopped") <=> At(HubThread, "stopped")
  <2>1. t \in Caller => ~At(t, "stopped")
    BY DEF PInv, CallerPlace, LeavePlace, At
  <2>2. HubThread \in Thread
    BY DEF Thread
  <2> QED
    BY <1>2, <2>1, <2>2 DEF Thread
<1>4. Card # NoIface
  BY NoIfaceAssumption DEF OnlyInside
<1>5. HciAt(t) <=> HciOK
  BY <1>2, <1>4 DEF HciAt, HciOK
<1>6. OpenAt(t) <=> OpenOK
  BY <1>3, <1>4 DEF OpenAt, OpenOK
<1> QED
  BY <1>1, <1>5, <1>6 DEF Core, AllOf

LEMMA CoreIsAllNext == (PInv => \A t \in Thread : OnlyInside(t) => (Core(t) <=> AllOf))'
BY CoreIsAll, PTL

LEMMA InnerSingle ==
    ASSUME PInv, LInv, Single, NEW t \in Thread, Inner(t)
    PROVE  /\ Single'
           /\ fault["BT"] \cap MemoryError = {} => fault'["BT"] \cap MemoryError = {}
<1>1. Moves(t) /\ PInv'
  BY InnerStep, InnerKeeps DEF Inner
<1>2. Inside(t) /\ Inside(t)'
  <2>1. drv[t].at # "out" /\ drv'[t].at # "out"
    BY <1>1 DEF Moves, SameSide, OpenPlace, ClosePlace, LeavePlace
  <2> QED
    BY <2>1 DEF Inside, At
<1>3. /\ ExtOf(t) = Card /\ Card \in Iface
      /\ \A u \in Thread \ {t} : At(u, "out") /\ drv[u].hdev = NoHdev
  BY <1>2, InsideOnCard DEF Single
<1>4. Card' = Card /\ UNCHANGED call
  BY <1>1 DEF Moves, BusStays, registry, Card, ExtOf
<1>5. /\ \A u \in Thread \ {t} : drv'[u] = drv[u]
      /\ \A u \in Thread \ {t} : At(u, "out")' /\ ~Holds(u) /\ ~Holds(u)'
  BY <1>1, <1>3 DEF Moves, At, Holds, Holding, PInv, LockWell, WaitOK, Waiting
<1>6. ~Signal(t)
  BY DEF Signal, Single, Alone, NoneAsleep
<1>7. ~broken'
  <2>1. broken' = broken
    BY <1>6 DEF Inner, Callback, Proceeds, Down, Sleep, Wake, OpenDev, RegisterDev, RegisterFails, Publish, NothingToUnregister,
           UnregisterDev, CloseDev, Forget, StopHci, ClearOpen
  <2> QED
    BY <2>1 DEF Single, Alone
<1>8. OnlyInside(t) /\ OnlyInside(t)'
  BY <1>2, <1>3, <1>4, <1>5 DEF OnlyInside
<1>9. Core(t)'
  <2>1. Core(t)
    BY <1>8, CoreIsAll DEF Single, AllOf
  <2> QED
    BY <1>1, <1>3, <1>6, <2>1, InnerCore DEF LInv
<1>10. AllOf'
  BY <1>1, <1>8, <1>9, CoreIsAllNext
<1>11. Alone'
  <2>1. \A u, v \in Thread : Inside(u)' /\ Inside(v)' => u = v
    BY <1>5 DEF Inside
  <2>2. \A d \in Caller : Inside(d)' => call'[d].iface = Card'
    <3>1. \A d \in Caller : d \in Thread /\ (Inside(d)' => d = t)
      BY <1>5 DEF Inside, Thread
    <3>2. t \in Caller => call[t].iface = Card
      BY <1>2 DEF Single, Alone
    <3> QED
      BY <1>4, <3>1, <3>2
  <2>3. openLock' = 0 => Holds(t)'
    <3>1. openLock = 0 => Holds(t)
      BY <1>5 DEF Single, Alone
    <3>2. openLock \in Nat
      BY DEF PInv, BtTypeOK
    <3>3. Takes(t) \/ Gives(t) \/ Hands(t) \/ Leaves(t)
      BY <1>7, InnerTraffic
    <3>4. ~Hands(t)
      BY DEF Hands, Single, Alone, NoneAsleep
    <3> QED
      BY <3>1, <3>2, <3>3, <3>4 DEF Takes, Gives, Leaves
  <2>4. NoneAsleep'
    <3>1. ~Sleep(t)
      BY <1>5 DEF Sleep, Arriving, Waiting, Single, Alone, Holds, Holding
    <3>2. UNCHANGED <<waitNext, waitPrev>> \/ Up
      BY <1>6, <3>1 DEF Inner, Callback, Proceeds, Down, Wake, OpenDev, RegisterDev, RegisterFails, Publish,
             NothingToUnregister, UnregisterDev, CloseDev, Forget, StopHci, ClearOpen, lock
    <3> QED
      BY <3>2, UpKeeps DEF Single, Alone, NoneAsleep, Asleep, PInv, LockWell
  <2> QED
    BY <1>7, <2>1, <2>2, <2>3, <2>4 DEF Alone
<1>12. OneCard'
  <2>0. ext \in [Iface -> ExtType]
    BY DEF PInv, BtTypeOK, ExtType
  <2>1. \A i \in Iface \ {Card} : ext'[i] = ext[i]
    <3>1. CASE ext' = ext
      BY <3>1
    <3>2. CASE OpenDev(t, TRUE)
      BY <1>3, <2>0, <3>2 DEF OpenDev
    <3>3. CASE Publish(t) \/ CloseDev(t) \/ Forget(t)
      BY <1>3, <2>0, <3>3 DEF Publish, CloseDev, Forget
    <3>4. CASE UnregisterDev(t)
      BY <1>3, <2>0, <3>4 DEF UnregisterDev
    <3>5. CASE t = HubThread /\ ClearOpen
      BY <1>3, <2>0, <3>5 DEF ClearOpen
    <3>6. ext' = ext \/ OpenDev(t, TRUE)
      \/ Publish(t) \/ CloseDev(t) \/ Forget(t) \/ UnregisterDev(t) \/ (t = HubThread /\ ClearOpen)
      BY DEF Inner, Callback, Proceeds, Down, Sleep, Wake, Signal, OpenDev, RegisterDev, RegisterFails, NothingToUnregister,
             StopHci
    <3> QED
      BY <3>1, <3>2, <3>3, <3>4, <3>5, <3>6
  <2> QED
    BY <1>4, <2>1 DEF Single, OneCard
<1>13. AtRest'
  BY <1>2 DEF AtRest
<1>14. fault["BT"] \cap MemoryError = {} => fault'["BT"] \cap MemoryError = {}
  <2>0. fault \in [Serial -> SUBSET FaultKind] /\ "BT" \in Serial
    BY DEF PInv, RInv, TypeOK, Serial
  <2>1. Commit("BT", {}) => fault'["BT"] = fault["BT"]
    BY <2>0 DEF Commit
  <2>2. CASE UnregisterDev(t)
    <3>1. Own(ext[Card].hdev, Card)
      <4>1. PointersOK
        BY DEF LInv, Single, Alone
      <4>2. \A u \in Thread : drv[u].at \notin {"close_dev", "forget"}
        BY <1>3, <2>2 DEF UnregisterDev, At
      <4> QED
        BY <1>3, <2>2, <4>1, <4>2 DEF PointersOK, UnregisterDev
    <3> QED
      BY <1>3, <2>1, <2>2, <3>1 DEF UnregisterDev, Own
  <2>3. CASE Forget(t)
    <3>1. drv[t].hdev # NoHdev
      BY <2>3 DEF Forget, At, PInv, Carrying
    <3>2. ~HeldElsewhere(t, drv[t].hdev)
      BY <1>3, <3>1 DEF HeldElsewhere
    <3> QED
      BY <2>1, <2>3, <3>2 DEF Forget
  <2>4. CASE fault' = fault
    BY <2>4
  <2>5. fault' = fault \/ UnregisterDev(t) \/ Forget(t)
    BY DEF Inner, Callback, Proceeds, Down, Sleep, Wake, Signal, OpenDev, RegisterDev, RegisterFails, Publish,
           NothingToUnregister, CloseDev, StopHci, ClearOpen
  <2> QED
    BY <2>2, <2>3, <2>4, <2>5
<1> QED
  BY <1>10, <1>11, <1>12, <1>13, <1>14 DEF Single, AllOf

(* While nobody is inside, openLock is free, and the HCI device is known.   *)
Calm == \A t \in Thread : At(t, "out")

HciCalm ==
    \A h \in Hdev : hci[h].registered =>
        Card # NoIface /\ hci[h].ext = Card /\ ext[Card].powered /\ ext[Card].hdev = h

OpenCalm ==
    Card # NoIface /\ ext[Card].open =>
        /\ ext[Card].powered
        /\ \E h \in Hdev : hci[h].registered /\ hci[h].up /\ hci[h].running

LEMMA CalmFacts ==
    ASSUME PInv, Single, Calm
    PROVE  openLock # 0 /\ NoneAsleep /\ ~broken /\ HciCalm /\ OpenCalm /\ (Card # NoIface => Agree)
<1>1. openLock # 0 /\ NoneAsleep /\ ~broken
  BY DEF Single, Alone, Calm, Holds, Holding, At, PInv, LockWell, WaitOK, Waiting
<1>2. HciCalm
  BY DEF Single, HciOK, HciCalm, Calm, At
<1>3. OpenCalm
  BY DEF Single, OpenOK, OpenCalm, Calm, At, Thread
<1>4. Card # NoIface => Agree
  BY DEF Single, AtRest, Calm, Inside
<1> QED
  BY <1>1, <1>2, <1>3, <1>4

LEMMA CalmSingle == Calm /\ openLock # 0 /\ NoneAsleep /\ ~broken /\ OneCard /\ HciCalm /\ OpenCalm /\ (Card # NoIface => Agree) => Single
<1> SUFFICES ASSUME Calm, openLock # 0, NoneAsleep, ~broken, OneCard, HciCalm, OpenCalm, Card # NoIface => Agree
             PROVE  Single
  OBVIOUS
<1>1. Alone
  BY DEF Alone, Calm, Inside, Thread
<1>2. \A t \in Thread : PlaceOK(t)
  BY DEF Calm, PlaceOK, At, OpenPlace, LeavePlace
<1> QED
  BY <1>1, <1>2 DEF Single, AtRest, HciOK, HciCalm, OpenOK, OpenCalm

LEMMA CalmSingleNext == (Calm /\ openLock # 0 /\ NoneAsleep /\ ~broken /\ OneCard /\ HciCalm /\ OpenCalm /\ (Card # NoIface => Agree) => Single)'
BY CalmSingle, PTL

(* A thread comes in while nobody is inside.                               *)
LEMMA ComesIn ==
    ASSUME PInv, PInv', Single, Calm, NEW t \in Thread,
           Card \in Iface, Card' = Card, On' <=> On,
           UNCHANGED <<ext, hci, lock, broken>>,
           \A u \in Thread \ {t} : drv'[u] = drv[u],
           t \in Caller => call'[t].iface = Card,
           \/ drv'[t].at = "lock_open" /\ ~On
           \/ drv'[t].at = "lock_close"
           \/ drv'[t].at = "gone"
           \/ drv'[t].at = "lock_gone" /\ drv'[t].hdev = ext[Card].hdev
    PROVE  Single'
<1>0. openLock # 0 /\ NoneAsleep /\ ~broken /\ HciCalm /\ OpenCalm /\ Agree
  BY CalmFacts, NoIfaceAssumption
<1>1. OnlyInside(t)'
  BY DEF OnlyInside, Calm, Inside, At
<1>2. Core(t)'
  <2>1. PlaceOK(t)'
    BY <1>0 DEF PlaceOK, OpenPlace, LeavePlace, Agree, At
  <2>2. HciAt(t)'
    BY <1>0 DEF HciAt, HciCalm
  <2>3. OpenAt(t)'
    BY <1>0, NoIfaceAssumption DEF OpenAt, OpenCalm
  <2> QED
    BY <2>1, <2>2, <2>3 DEF Core
<1>3. AllOf'
  BY <1>1, <1>2, CoreIsAllNext
<1>4. Alone'
  <2>1. openLock' # 0 /\ NoneAsleep' /\ ~broken'
    BY <1>0 DEF NoneAsleep, Asleep, lock
  <2> QED
    BY <1>1, <2>1 DEF Alone, OnlyInside, Inside, At, Thread
<1>5. OneCard' /\ AtRest'
  BY <1>1 DEF Single, OneCard, AtRest, OnlyInside
<1> QED
  BY <1>3, <1>4, <1>5 DEF Single, AllOf

(* The only thread inside goes out again, the card staying or going.        *)
LEMMA GoesOut ==
    ASSUME PInv, Single, NEW t \in Thread, OnlyInside(t), drv[t].at \in {"ok", "failed", "done", "gone"},
           drv'[t].at = "out", \A u \in Thread \ {t} : drv'[u] = drv[u],
           UNCHANGED <<hci, lock, broken>>,
           \/ Card' = Card /\ ext' = ext /\ Agree'
           \/ Card' = NoIface /\ ext' = [ext EXCEPT ![Card] = NoExt] /\ ext[Card].hdev = NoHdev
    PROVE  Single'
<1>0. AllOf /\ Core(t)
  BY CoreIsAll DEF Single, AllOf
<1>1. Calm'
  BY DEF Calm, OnlyInside, At
<1>2. openLock' # 0 /\ NoneAsleep' /\ ~broken'
  <2>1. openLock # 0 /\ NoneAsleep /\ ~broken
    BY DEF Single, Alone, Holds, Holding, OnlyInside, At, PInv, LockWell, WaitOK, Waiting
  <2> QED
    BY <2>1 DEF NoneAsleep, Asleep, lock
<1>3. \A h \in Hdev : hci[h].registered => hci[h].ext = Card /\ ext[Card].powered /\ ext[Card].hdev = h
  BY <1>0 DEF Core, HciAt, At
<1>4. ext[Card].open => /\ ext[Card].powered
                        /\ \E h \in Hdev : hci[h].registered /\ hci[h].up /\ hci[h].running
  BY <1>0 DEF Core, OpenAt, At
<1>5. Card \in Iface /\ Card # NoIface
  BY NoIfaceAssumption DEF OnlyInside
<1>6. CASE Card' = Card /\ ext' = ext /\ Agree'
  <2>1. OneCard'
    BY <1>6 DEF Single, OneCard
  <2>2. HciCalm' /\ OpenCalm'
    BY <1>3, <1>4, <1>5, <1>6 DEF HciCalm, OpenCalm
  <2> QED
    BY <1>1, <1>2, <1>6, <2>1, <2>2, CalmSingleNext
<1>7. CASE Card' = NoIface /\ ext' = [ext EXCEPT ![Card] = NoExt] /\ ext[Card].hdev = NoHdev
  <2>0. ext \in [Iface -> ExtType]
    BY DEF PInv, BtTypeOK, ExtType
  <2>1. OneCard'
    BY <1>5, <1>7, <2>0 DEF Single, OneCard
  <2>2. HciCalm' /\ OpenCalm'
    BY <1>3, <1>7, NoHdevAssumption DEF HciCalm, OpenCalm
  <2> QED
    BY <1>1, <1>2, <1>7, <2>1, <2>2, CalmSingleNext
<1> QED
  BY <1>6, <1>7

NoMemoryError == fault["BT"] \cap MemoryError = {}

LEMMA BusFaults ==
    ASSUME PInv, NoMemoryError, NEW i
    PROVE  /\ Commit("BT", {}) => NoMemoryError'
           /\ Commit("BT", ReopenFault("BT", i)) => NoMemoryError'
           /\ UNCHANGED fault => NoMemoryError'
<1>1. fault \in [Serial -> SUBSET FaultKind] /\ "BT" \in Serial
  BY DEF PInv, RInv, TypeOK, Serial
<1>2. ASSUME NEW k, k \subseteq {"reopen"}, Commit("BT", k)
      PROVE  NoMemoryError'
  <2>1. fault'["BT"] = fault["BT"] \cup k
    BY <1>1, <1>2 DEF Commit
  <2> QED
    BY <1>2, <2>1 DEF NoMemoryError, MemoryError
<1>3. ReopenFault("BT", i) \subseteq {"reopen"} /\ {} \subseteq {"reopen"}
  BY DEF ReopenFault
<1> QED
  BY <1>2, <1>3 DEF NoMemoryError

LEMMA CallerSingle ==
    ASSUME PInv, Single, Running, NEW c \in Caller, CallerStep(c), ~met'
    PROVE  Single' /\ (NoMemoryError => NoMemoryError')
<1>0. /\ c \in Thread /\ c # HubThread /\ HubThread \in Thread
      /\ drv \in [Thread -> DrvType] /\ call \in [Caller -> CallState]
      /\ block \in [Iface -> Block] /\ "BT" \in Serial
      /\ slot["BT"] \in Iface \cup {NoIface}
  BY CallerIsInside DEF PInv, BtTypeOK, DrvType, RInv, TypeOK, Thread, Serial
<1>1. PInv' /\ UNCHANGED <<slot, hub, lock, ext, hci, broken>>
  BY CallerStepKeeps DEF CallerStep, BtPlugIn, BtPlugInDone, BtUnPlug, BtUnPlugDone
<1>2. Card' = Card
  BY <1>1 DEF Card, ExtOf
<1>3. CASE BtPlugIn(c) \/ BtUnPlug(c)
  <2>1. Calm
    <3>1. At(c, "out")
      BY <1>3, CallerIsInside DEF BtPlugIn, BtUnPlug, PlugIn, UnPlug, Idle
    <3>2. \A u \in Thread \ {c} : At(u, "out")
      BY <1>3 DEF BtPlugIn, BtUnPlug, Called, Meets, Inside
    <3> QED
      BY <3>1, <3>2 DEF Calm
  <2>2. hub = HubIdle /\ Card = slot["BT"]
    BY <1>0, <2>1, CardFacts DEF Calm, PInv, HubPlace, At
  <2>3. Card \in Iface
    BY <1>0, <1>3, <2>2 DEF BtPlugIn, BtUnPlug, PlugIn, UnPlug, BeginClose, MayOpen, Vacant
  <2>4. /\ block' = block /\ call'[c].iface = Card /\ \A u \in Thread \ {c} : drv'[u] = drv[u]
    BY <1>0, <1>3, <2>2 DEF BtPlugIn, BtUnPlug, PlugIn, UnPlug, BeginClose, Called
  <2>5. \/ drv'[c].at = "lock_open" /\ ~On
        \/ drv'[c].at = "lock_close"
    <3>1. CASE BtPlugIn(c)
      BY <1>0, <2>2, <3>1 DEF BtPlugIn, PlugIn, Called, DrvType, MayOpen, StartedFn, On
    <3>2. CASE BtUnPlug(c)
      BY <1>0, <3>2 DEF BtUnPlug, Called, DrvType
    <3> QED
      BY <1>3, <3>1, <3>2
  <2>6. On' <=> On
    BY <1>2, <2>4 DEF On
  <2>7. Single'
    BY <1>0, <1>1, <1>2, <2>1, <2>3, <2>4, <2>5, <2>6, ComesIn
  <2>8. NoMemoryError => NoMemoryError'
    <3>1. CASE BtPlugIn(c)
      BY <3>1, BusFaults DEF BtPlugIn, PlugIn
    <3>2. CASE BtUnPlug(c)
      BY <3>2 DEF BtUnPlug, UnPlug, BeginClose, NoMemoryError
    <3> QED
      BY <1>3, <3>1, <3>2
  <2> QED
    BY <2>7, <2>8
<1>4. CASE BtPlugInDone(c) \/ BtUnPlugDone(c)
  <2>1. /\ drv[c].at \in {"ok", "failed", "done"} /\ drv' = [drv EXCEPT ![c] = Outside]
        /\ Inside(c)
    BY <1>4 DEF BtPlugInDone, BtUnPlugDone, Returned, At, Inside
  <2>2. drv'[c].at = "out" /\ \A u \in Thread \ {c} : drv'[u] = drv[u]
    BY <1>0, <2>1 DEF Outside
  <2>3. Card \in Iface /\ ExtOf(c) = Card /\ \A u \in Thread \ {c} : At(u, "out")
    BY <1>0, <2>1, InsideOnCard DEF Single
  <2>4. OnlyInside(c) /\ PlaceOK(c)
    BY <1>0, <2>1, <2>3 DEF OnlyInside, Single
  <2>5. hub = HubIdle /\ Card = slot["BT"] /\ call[c].serial = "BT"
    BY <1>0, <2>1, <2>3, CardFacts DEF PInv, HubPlace, CallerPlace, At
  <2>6. ~Vacant("BT")
    BY <2>3, <2>5, NoIfaceAssumption DEF Vacant
  <2>7. Agree' /\ (NoMemoryError => NoMemoryError')
    <3>1. CASE BtPlugInDone(c) /\ At(c, "ok")
      <4>1. block' = [block EXCEPT ![Card].devstate = "Started"] /\ Commit("BT", {})
        BY <2>5, <2>6, <3>1 DEF BtPlugInDone, PlugInDone, OpenSucceeded
      <4>2. On' /\ ext[Card].hdev # NoHdev
        BY <1>0, <1>2, <2>3, <2>4, <3>1, <4>1 DEF On, PlaceOK, OpenPlace, At, Block
      <4> QED
        BY <1>1, <1>2, <4>1, <4>2, BusFaults DEF Agree
    <3>2. CASE BtPlugInDone(c) /\ ~At(c, "ok")
      <4>1. drv[c].at = "failed" /\ block' = block /\ Commit("BT", {})
        BY <2>5, <3>2 DEF BtPlugInDone, PlugInDone, OpenSucceeded, At
      <4>2. ~On' /\ ext[Card].hdev = NoHdev
        BY <1>2, <2>4, <4>1 DEF On, PlaceOK, OpenPlace, At
      <4> QED
        BY <1>1, <1>2, <4>1, <4>2, BusFaults DEF Agree
    <3>3. CASE BtUnPlugDone(c)
      <4>1. block' = [block EXCEPT ![Card].devstate = "Stopped"] /\ UNCHANGED fault /\ At(c, "done")
        BY <2>5, <2>6, <3>3 DEF BtUnPlugDone, UnPlugDone
      <4>2. ~On' /\ ext[Card].hdev = NoHdev
        BY <1>0, <1>2, <2>3, <2>4, <4>1 DEF On, PlaceOK, Block
      <4> QED
        BY <1>1, <1>2, <4>1, <4>2, BusFaults DEF Agree
    <3> QED
      BY <1>4, <3>1, <3>2, <3>3
  <2>8. Single'
    BY <1>0, <1>1, <1>2, <2>1, <2>2, <2>4, <2>7, GoesOut
  <2> QED
    BY <2>7, <2>8
<1> QED
  BY <1>3, <1>4 DEF CallerStep

(* No block is freed under a callback while every caller is outside.        *)
LEMMA QuietRelease ==
    ASSUME PInv, NoMemoryError, \A c \in Caller : At(c, "out"), NEW i, Release("BT", i)
    PROVE  NoMemoryError'
<1>1. \A c \in Caller : ~BusyCaller(c, "BT")
  BY DEF PInv, CallerPlace, BusyCaller, InCallback, Idle
<1>2. FreeFault("BT", i) = {}
  BY <1>1 DEF FreeFault
<1> QED
  BY <1>2, BusFaults DEF Release

LEMMA ProbeSingle ==
    ASSUME PInv, PInv', Single, NEW i \in Iface, Probe(i)
    PROVE  Single' /\ (NoMemoryError => NoMemoryError')
<1> DEFINE H == HubThread
<1>0. /\ H \in Thread /\ drv \in [Thread -> DrvType] /\ slot \in [Serial -> Iface \cup {NoIface}]
      /\ "BT" \in Serial /\ block \in [Iface -> Block] /\ ext \in [Iface -> ExtType]
      /\ \A u \in Thread \ {H} : drv'[u] = drv[u]
      /\ hci' = hci
  BY HubFrame DEF HubMoves, Thread, PInv, BtTypeOK, DrvType, RInv, TypeOK, Serial, ExtType
<1>1. At(H, "out") /\ hub = HubIdle /\ Vacant("BT")
  BY DEF Probe, Attach, TakeSlot
<1>2. Card = NoIface
  BY <1>1, CardFacts DEF Vacant
<1>3. Calm
  <2>1. \A c \in Caller : At(c, "out")
    <3>1. \A c \in Caller : c \in Thread
      BY DEF Thread
    <3> QED
      BY <1>2, <3>1, InsideOnCard, NoIfaceAssumption DEF Single, Inside
  <2> QED
    BY <1>1, <2>1 DEF Calm, Thread
<1>4. openLock' = 1 /\ NoneAsleep' /\ ~broken' /\ HciCalm
  <2>1. openLock # 0 /\ NoneAsleep /\ ~broken /\ HciCalm /\ SemaInit
    BY <1>3, CalmFacts DEF Probe
  <2> QED
    BY <2>1, SemaInitKeeps DEF SemaInit, NoneAsleep, PInv, LockWell
<1>5. ext' = [ext EXCEPT ![i] = NewExt] /\ slot' = [slot EXCEPT !["BT"] = i]
  BY DEF Probe, Attach
<1>6. block'[i].devstate = "NotStarted"
  BY <1>0 DEF Probe, Attach
<1>7. NewExt.hdev = NoHdev /\ NewExt.open = FALSE
  BY DEF NewExt, NoExt
<1>8. Card' = i
  <2>1. CASE Reopens("BT")
    BY <2>1 DEF Probe, Attach, Card, ExtOf, HubIdle
  <2>2. CASE ~Reopens("BT")
    BY <1>0, <1>1, <1>5, <2>2 DEF Probe, Attach, Card, ExtOf
  <2> QED
    BY <2>1, <2>2
<1>9. OneCard'
  BY <1>0, <1>2, <1>5, <1>8, NoIfaceAssumption DEF Single, OneCard
<1>10. ~On' /\ ext'[i].hdev = NoHdev /\ ~ext'[i].open /\ \A h \in Hdev : ~hci'[h].registered
  BY <1>0, <1>2, <1>4, <1>5, <1>6, <1>7, <1>8 DEF On, HciCalm
<1>11. Single'
  <2>1. CASE Reopens("BT")
    <3>1. drv'[H].at = "lock_open"
      BY <1>0, <2>1 DEF Probe, Called, DrvType
    <3>2. OnlyInside(H)'
      BY <1>0, <1>3, <1>8, <3>1 DEF OnlyInside, Calm, Inside, At
    <3>3. PlaceOK(H)'
      BY <1>8, <1>10, <3>1 DEF PlaceOK, OpenPlace, LeavePlace, At
    <3>4. HciAt(H)' /\ OpenAt(H)'
      BY <1>8, <1>10 DEF HciAt, OpenAt
    <3>5. AllOf'
      BY <1>0, <3>2, <3>3, <3>4, CoreIsAllNext DEF Core
    <3>6. Alone' /\ AtRest'
      BY <1>0, <1>4, <3>2, HubThreadAssumption DEF Alone, AtRest, OnlyInside, Inside, At, Thread
    <3> QED
      BY <1>9, <3>5, <3>6 DEF Single, AllOf
  <2>2. CASE ~Reopens("BT")
    <3>1. Calm'
      BY <1>3, <2>2 DEF Probe, Calm, At
    <3>2. HciCalm' /\ OpenCalm' /\ Agree'
      BY <1>8, <1>10 DEF HciCalm, OpenCalm, Agree
    <3> QED
      BY <1>4, <1>9, <3>1, <3>2, CalmSingleNext
  <2> QED
    BY <2>1, <2>2
<1>12. NoMemoryError => NoMemoryError'
  <2>1. Commit("BT", ReopenFault("BT", i)) \/ UNCHANGED fault
    BY DEF Probe, Attach
  <2> QED
    BY <2>1, BusFaults
<1> QED
  BY <1>11, <1>12

LEMMA HubSingle ==
    ASSUME PInv, PInv', Single, HubMoves, ~met'
    PROVE  Single' /\ (NoMemoryError => NoMemoryError')
<1> DEFINE H == HubThread
<1>0. /\ H \in Thread /\ drv \in [Thread -> DrvType] /\ slot \in [Serial -> Iface \cup {NoIface}]
      /\ "BT" \in Serial /\ block \in [Iface -> Block] /\ ext \in [Iface -> ExtType]
      /\ \A u \in Thread \ {H} : drv'[u] = drv[u]
      /\ hci' = hci /\ H \notin Caller
  BY HubFrame, HubThreadAssumption DEF HubMoves, Thread, PInv, BtTypeOK, DrvType, RInv, TypeOK, Serial, ExtType
<1>1. CASE \E i \in Iface : Probe(i)
  BY <1>1, ProbeSingle
<1>2. ASSUME Inside(H)
      PROVE  /\ OnlyInside(H) /\ PlaceOK(H) /\ \A c \in Caller : At(c, "out")
             /\ Card \in Iface
  BY <1>0, <1>2, InsideOnCard DEF OnlyInside, Single, Thread
<1>3. CASE ProbeDone
  <2>1. /\ drv[H].at \in {"ok", "failed"} /\ Inside(H) /\ drv'[H].at = "out"
        /\ UNCHANGED <<lock, ext, hci, broken, slot>> /\ hub.op = "attach" /\ hub' = HubIdle
    BY <1>0, <1>3 DEF ProbeDone, AttachDone, Returned, Outside, Inside, At, registry
  <2>2. Card = hub.iface /\ slot["BT"] = Card
    BY <2>1, CardFacts DEF PInv, HubPlace, RInv, HubOK, HubIdle
  <2>3. Card' = Card
    BY <2>1, <2>2 DEF Card, ExtOf
  <2>4. Agree'
    <3>1. CASE At(H, "ok")
      <4>1. block' = [block EXCEPT ![Card].devstate = "Started"]
        BY <1>3, <2>2, <3>1 DEF ProbeDone, AttachDone, OpenSucceeded
      <4>2. On' /\ ext[Card].hdev # NoHdev
        BY <1>0, <1>2, <2>1, <2>3, <3>1, <4>1 DEF On, PlaceOK, OpenPlace, At, Block
      <4> QED
        BY <2>1, <2>3, <4>2 DEF Agree
    <3>2. CASE ~At(H, "ok")
      <4>1. block' = block /\ drv[H].at = "failed"
        BY <1>3, <2>1, <3>2 DEF ProbeDone, AttachDone, OpenSucceeded, At
      <4>2. ~On' /\ ext[Card].hdev = NoHdev
        BY <1>2, <2>1, <2>3, <4>1 DEF On, PlaceOK, OpenPlace, At
      <4> QED
        BY <2>1, <2>3, <4>2 DEF Agree
    <3> QED
      BY <3>1, <3>2
  <2>5. Single'
    BY <1>0, <1>2, <2>1, <2>3, <2>4, GoesOut
  <2>6. UNCHANGED fault
    BY <1>3 DEF ProbeDone, AttachDone, history
  <2> QED
    BY <2>5, <2>6 DEF NoMemoryError
<1>4. CASE Disconnect
  <2>1. Calm
    BY <1>4 DEF Disconnect, Meets, Calm, Inside
  <2>2. /\ hub = HubIdle /\ ~Vacant("BT") /\ UNCHANGED <<lock, ext, hci, broken, slot, hub, block, fault>>
    BY <1>4 DEF Disconnect, BusStays, registry
  <2>3. Card = slot["BT"] /\ Card \in Iface /\ Card' = Card /\ (On' <=> On)
    BY <1>0, <2>2 DEF Card, ExtOf, Vacant, On
  <2>4. \/ drv'[H].at = "gone"
        \/ drv'[H].at = "lock_gone" /\ drv'[H].hdev = ext[Card].hdev
    BY <1>0, <1>4, <2>3 DEF Disconnect
  <2>5. Single'
    BY <1>0, <2>1, <2>2, <2>3, <2>4, ComesIn
  <2> QED
    BY <2>2, <2>5 DEF NoMemoryError
<1>5. CASE Leave
  <2>1. drv[H].at = "gone" /\ Inside(H) /\ hub = HubIdle /\ UNCHANGED <<lock, hci, broken>>
    BY <1>5 DEF Leave, Detach, Inside, At
  <2>2. Card = slot["BT"] /\ Card \in Iface /\ Agree
    BY <1>2, <2>1, CardFacts DEF PlaceOK, LeavePlace
  <2>3. CASE NeedsClose("BT")
    <3>1. /\ UNCHANGED <<block, fault, ext>> /\ drv'[H].at = "lock_close"
          /\ hub'.op = "detach" /\ hub'.iface = slot["BT"]
      BY <1>0, <1>5, <2>3 DEF Leave, Detach, Go, DrvType
    <3>2. Card' = Card /\ (On' <=> On)
      BY <2>2, <3>1 DEF Card, ExtOf, HubIdle, On
    <3>3. /\ OnlyInside(H) /\ OnlyInside(H)' /\ Core(H) /\ AllOf
      BY <1>0, <1>2, <2>1, <2>2, <3>1, <3>2, CoreIsAll DEF OnlyInside, Inside, At, Single, AllOf
    <3>4. PlaceOK(H)'
      BY <2>2, <3>1, <3>2 DEF PlaceOK, OpenPlace, LeavePlace, Agree, At
    <3>5. HciAt(H)' /\ OpenAt(H)'
      BY <2>1, <3>1, <3>2, <3>3 DEF Core, HciAt, OpenAt, At
    <3>6. AllOf'
      BY <1>0, <3>3, <3>4, <3>5, CoreIsAllNext DEF Core
    <3>7. Alone' /\ OneCard' /\ AtRest'
      <4>1. openLock' # 0 /\ NoneAsleep'
        BY <2>1, <3>3 DEF Single, Alone, OnlyInside, Holds, Holding, At, PInv, LockWell, WaitOK, Waiting,
                          NoneAsleep, Asleep, lock
      <4> QED
        BY <1>0, <2>1, <3>1, <3>2, <3>3, <4>1 DEF Single, Alone, OneCard, AtRest, OnlyInside, Inside, At, Thread
    <3> QED
      BY <3>1, <3>6, <3>7 DEF Single, AllOf, NoMemoryError
  <2>4. CASE ~NeedsClose("BT")
    <3>1. /\ ext' = [ext EXCEPT ![Card] = NoExt] /\ drv'[H].at = "out" /\ hub' = HubIdle
          /\ slot' = [slot EXCEPT !["BT"] = NoIface] /\ Release("BT", slot["BT"])
      BY <1>0, <1>5, <2>1, <2>2, <2>4 DEF Leave, Detach, Destroy, Outside
    <3>2. Card' = NoIface
      BY <1>0, <3>1 DEF Card, ExtOf
    <3>3. ext[Card].hdev = NoHdev
      BY <2>2, <2>4, NoIfaceAssumption DEF NeedsClose, StartedFn, Vacant, Agree, On
    <3>4. Single'
      BY <1>0, <1>2, <2>1, <3>1, <3>2, <3>3, GoesOut
    <3> QED
      BY <1>2, <2>1, <3>1, <3>4, QuietRelease
  <2> QED
    BY <2>3, <2>4
<1>6. CASE LeaveDone
  <2>1. /\ drv[H].at = "done" /\ Inside(H) /\ drv'[H].at = "out" /\ hub.op = "detach" /\ hub' = HubIdle
        /\ UNCHANGED <<lock, hci, broken, slot>> /\ Release(hub.serial, hub.iface)
        /\ ext' = [ext EXCEPT ![hub.iface] = NoExt]
    BY <1>0, <1>6 DEF LeaveDone, DetachDone, Returned, Outside, Inside, At, registry, Destroy
  <2>2. Card = hub.iface /\ slot["BT"] = NoIface /\ hub.serial = "BT"
    BY <2>1, CardFacts DEF PInv, HubPlace, RInv, HubOK, HubIdle, Vacant
  <2>3. Card' = NoIface /\ ext[Card].hdev = NoHdev
    BY <1>2, <2>1, <2>2 DEF Card, ExtOf, PlaceOK, At
  <2>4. Single'
    BY <1>0, <1>2, <2>1, <2>2, <2>3, GoesOut
  <2> QED
    BY <1>2, <2>1, <2>2, <2>4, QuietRelease
<1> QED
  BY <1>1, <1>3, <1>4, <1>5, <1>6 DEF HubMoves

(* There is one registered HCI device at most.                             *)
LEMMA OneHci ==
    ASSUME PInv, Single, NEW g \in Hdev, NEW h \in Hdev, hci[g].registered, hci[h].registered
    PROVE  g = h
<1>1. ASSUME NEW t \in Thread, At(t, "publish")
      PROVE  ext[Card].hdev = NoHdev
  BY <1>1 DEF Single, PlaceOK, OpenPlace, At
<1>2. \A t, u \in Thread : At(t, "publish") /\ At(u, "publish") => t = u
  BY DEF Single, Alone, Inside, At
<1> QED
  BY <1>1, <1>2, NoHdevAssumption DEF Single, HciOK

LEMMA HciSingle ==
    ASSUME PInv, ForgetOK, Single, NEW h \in Hdev, HciOpen(h) \/ HciClose(h)
    PROVE  Single' /\ (NoMemoryError => NoMemoryError')
<1>0. /\ ext \in [Iface -> ExtType] /\ hci \in [Hdev -> HciType]
      /\ hci[h].running \in BOOLEAN
  BY DEF PInv, BtTypeOK, ExtType, HciType
<1>1. /\ hci[h].registered /\ hci[h].ext = Card /\ Card \in Iface /\ ext[Card].powered
      /\ ext[Card].open \in BOOLEAN
  BY <1>0, CardFacts DEF HciOpen, HciClose, Single, HciOK, ExtType
<1>2. ext[Card].live
  BY <1>1, CardFacts DEF PInv, ExtLives
<1>3. UNCHANGED <<lock, drv, met, broken, call, hub, slot, block>>
  BY DEF HciOpen, HciClose, BusStays, registry
<1>4. Card' = Card /\ (On' <=> On) /\ \A t \in Thread : Inside(t)' <=> Inside(t)
  BY <1>3 DEF Card, ExtOf, On, Inside, At
<1>5. /\ \A g \in Hdev \ {h} : hci'[g] = hci[g]
      /\ hci'[h].registered = hci[h].registered /\ hci'[h].ext = hci[h].ext
  <2>1. CASE HciOpen(h)
    BY <1>0, <2>1 DEF HciOpen, HciType
  <2>2. CASE HciClose(h)
    BY <1>0, <2>2 DEF HciClose, HciType
  <2> QED
    BY <2>1, <2>2
<1>6. /\ \A i \in Iface \ {Card} : ext'[i] = ext[i]
      /\ ext'[Card].hdev = ext[Card].hdev /\ ext'[Card].powered = ext[Card].powered
  <2>1. PICK b : ext' = [ext EXCEPT ![Card].open = b]
    BY <1>1 DEF HciOpen, HciClose
  <2> QED
    BY <1>0, <1>1, <2>1 DEF ExtType
<1>7. ext[Card].open => At(HubThread, "stopped") \/ (hci[h].up /\ hci[h].running)
  <2>1. \A g \in Hdev : hci[g].registered => g = h
    BY <1>1, OneHci
  <2> QED
    BY <1>1, <2>1, NoIfaceAssumption DEF Single, OpenOK
<1>8. ext'[Card].open => At(HubThread, "stopped") \/ (hci'[h].up /\ hci'[h].running)
  <2>1. CASE HciOpen(h)
    <3>1. /\ hci'[h].running /\ hci'[h].up = (hci[h].running \/ ~ext[Card].open)
          /\ ext'[Card].open = (ext[Card].open \/ ~hci[h].running)
      BY <1>0, <1>1, <2>1 DEF HciOpen, HciType, ExtType
    <3> QED
      BY <1>7, <2>1, <3>1 DEF HciOpen
  <2>2. CASE HciClose(h)
    <3>1. ext'[Card].open = (ext[Card].open /\ ~hci[h].running)
      BY <1>0, <1>1, <2>2 DEF HciClose, ExtType
    <3> QED
      BY <1>7, <3>1
  <2> QED
    BY <2>1, <2>2
<1>9. \A t \in Thread : ~Freeing(t)
  <2> SUFFICES ASSUME NEW t \in Thread, Freeing(t)
               PROVE  FALSE
    OBVIOUS
  <2>1. ext[Card].hdev = drv[t].hdev /\ ~hci[drv[t].hdev].registered
    BY DEF Single, PlaceOK, Freeing, ForgetOK
  <2>2. \A u \in Thread : ~At(u, "publish")
    BY DEF Single, Alone, Freeing, Inside, At
  <2> QED
    BY <1>1, <2>1, <2>2 DEF Single, HciOK
<1>10. Alone' /\ OneCard' /\ AtRest'
  BY <1>3, <1>4, <1>6 DEF Single, Alone, OneCard, AtRest, Agree, Holds, Inside, At, NoneAsleep, Asleep, lock
<1>11. (\A t \in Thread : PlaceOK(t))'
  BY <1>3, <1>4, <1>6, <1>9 DEF Single, PlaceOK, Agree, Freeing, At
<1>12. HciOK'
  <2>1. \A g \in Hdev : hci'[g].registered = hci[g].registered /\ hci'[g].ext = hci[g].ext
    BY <1>1, <1>5
  <2>2. Card # NoIface => ext'[Card].powered = ext[Card].powered /\ ext'[Card].hdev = ext[Card].hdev
    BY <1>6
  <2>3. drv' = drv /\ HciOK
    BY <1>3 DEF Single
  <2> QED
    BY <1>4, <2>1, <2>2, <2>3 DEF HciOK, At
<1>13. OpenOK'
  BY <1>1, <1>3, <1>4, <1>5, <1>6, <1>8 DEF OpenOK, At
<1>14. Commit("BT", {}) \/ UNCHANGED fault
  BY <1>1, <1>2 DEF HciOpen, HciClose
<1> QED
  BY <1>10, <1>11, <1>12, <1>13, <1>14, BusFaults DEF Single

LEMMA NextCard == PInv /\ LInv /\ CInv /\ [BtNext]_<<vars, btVars>> => CInv'
<1> SUFFICES ASSUME PInv, LInv, CInv, [BtNext]_<<vars, btVars>>, ~met'
             PROVE  Single' /\ (~dangling' => NoMemoryError')
  BY DEF CInv, NoMemoryError
<1>0. PInv'
  BY NextPlaces
<1>1. CASE UNCHANGED <<vars, btVars>>
  BY <1>1 DEF vars, btVars, lock, registry, history, CInv, NoMemoryError, Single, Alone, OneCard, AtRest,
         PlaceOK, HciOK, OpenOK, Card, ExtOf, On, Agree, Holds, Inside, At, NoneAsleep, Asleep
<1>2. ASSUME ~met, Single, ~dangling' => ~dangling, NoMemoryError => NoMemoryError', Single'
      PROVE  Single' /\ (~dangling' => NoMemoryError')
  BY <1>2 DEF CInv, NoMemoryError
<1>3. ASSUME NEW t \in Thread, Inner(t)
      PROVE  Single' /\ (~dangling' => NoMemoryError')
  <2>1. ~met /\ dangling' = dangling /\ Single
    BY <1>3, InnerStep DEF Inner, Moves, CInv
  <2> QED
    BY <1>2, <1>3, <2>1, InnerSingle DEF NoMemoryError
<1>4. ASSUME NEW c \in Caller, CallerStep(c), Running
      PROVE  Single' /\ (~dangling' => NoMemoryError')
  <2>1. dangling' = dangling /\ met \in BOOLEAN
    BY <1>4 DEF CallerStep, BtPlugIn, BtPlugInDone, BtUnPlug, BtUnPlugDone, PInv, BtTypeOK
  <2>2. met' = met \/ Meets(c)
    BY <1>4 DEF CallerStep, BtPlugIn, BtPlugInDone, BtUnPlug, BtUnPlugDone, Called, Returned
  <2>3. ~met /\ Single
    BY <2>1, <2>2 DEF Meets, CInv
  <2> QED
    BY <1>2, <1>4, <2>1, <2>3, CallerSingle
<1>5. CASE HubMoves
  <2>1. dangling' = dangling /\ met \in BOOLEAN
    BY <1>5, HubFrame DEF PInv, BtTypeOK
  <2>2. met' = met \/ Meets(HubThread)
    BY <1>5 DEF HubMoves, Probe, ProbeDone, Disconnect, Leave, LeaveDone, Called, Returned
  <2>3. ~met /\ Single
    BY <2>1, <2>2 DEF Meets, CInv
  <2> QED
    BY <1>0, <1>2, <1>5, <2>1, <2>3, HubSingle
<1>6. ASSUME NEW h \in Hdev, HciOpen(h) \/ HciClose(h)
      PROVE  Single' /\ (~dangling' => NoMemoryError')
  <2>1. ~met /\ dangling' = dangling /\ Single
    BY <1>6 DEF HciOpen, HciClose, CInv
  <2> QED
    BY <1>2, <1>6, <2>1, HciSingle DEF LInv
<1>7. CASE ProbeOther \/ ProbeRefused
  <2>0. At(HubThread, "out") /\ Meets(HubThread) /\ SemaInit
    BY <1>7 DEF ProbeOther, ProbeRefused
  <2>1. Calm /\ Single /\ ~met
    BY <2>0 DEF Meets, Calm, Inside, CInv
  <2>2. UNCHANGED <<fault, ext, hci, drv, call, hub, slot, block>>
    BY <1>7 DEF ProbeOther, ProbeRefused, BusStays, registry
  <2>3. openLock # 0 /\ NoneAsleep /\ ~broken /\ HciCalm /\ OpenCalm /\ (Card # NoIface => Agree) /\ OneCard
    BY <2>1, CalmFacts DEF Single
  <2>4. Card' = Card
    BY <2>2 DEF Card, ExtOf
  <2>5. openLock' # 0 /\ NoneAsleep' /\ ~broken'
    <3>1. NoneAsleep'
      BY <2>0, <2>3, SemaInitKeeps DEF NoneAsleep, PInv, LockWell
    <3>2. openLock' = 1 /\ broken' = (broken \/ openLock = 0)
      BY <2>0 DEF SemaInit
    <3>3. ~broken'
      BY <2>3, <3>2
    <3>4. openLock' # 0
      BY <3>2
    <3> QED
      BY <3>1, <3>3, <3>4
  <2>6. Calm' /\ HciCalm' /\ OpenCalm' /\ (Card # NoIface => Agree)' /\ OneCard'
    BY <2>1, <2>2, <2>3, <2>4 DEF Calm, At, HciCalm, OpenCalm, Agree, On, OneCard
  <2>7. Single'
    BY <2>5, <2>6, CalmSingleNext
  <2>8. ~dangling' => NoMemoryError'
    BY <1>7, <2>1, <2>2 DEF CInv, NoMemoryError, ProbeOther, ProbeRefused
  <2> QED
    BY <2>7, <2>8
<1>8. CASE DisconnectRefused
  <2>1. UNCHANGED btVars /\ UNCHANGED <<call, hub, slot, block>> /\ dangling /\ Single
    BY <1>8 DEF DisconnectRefused, BusStays, registry, btVars, CInv
  <2> QED
    BY <2>1 DEF btVars, lock, Single, Alone, OneCard, AtRest, PlaceOK, HciOK, OpenOK, Card, ExtOf, On,
           Agree, Holds, Inside, At, NoneAsleep, Asleep
<1> QED
  BY <1>1, <1>3, <1>4, <1>5, <1>6, <1>7, <1>8, StepKinds DEF Aside

-----------------------------------------------------------------------------
LEMMA BtInitInv == BtInit => BtInv
<1> SUFFICES ASSUME BtInit
             PROVE  BtInv
  OBVIOUS
<1>1. /\ Init /\ openLock = 1 /\ ext = [i \in Iface |-> NoExt] /\ hci = [h \in Hdev |-> NoHci]
      /\ drv = [t \in Thread |-> Outside]
      /\ waitNext = [n \in Node |-> n] /\ waitPrev = [n \in Node |-> n] /\ woken = {}
      /\ dangling = FALSE /\ met = FALSE /\ broken = FALSE
  BY DEF BtInit
<1>2. RInv
  BY <1>1, InitRegistry
<1>3. BtTypeOK
  BY <1>1 DEF BtTypeOK, NoExt, NoHci, Outside, Place
<1>4. /\ \A t \in Thread : drv[t].at = "out" /\ drv[t].hdev = NoHdev
      /\ \A i \in Iface : ext[i] = NoExt
      /\ \A h \in Hdev : ~hci[h].registered
      /\ HubThread \in Thread /\ Caller \subseteq Thread
  BY <1>1 DEF Outside, NoHci, Thread
<1>5. /\ hub = HubIdle /\ \A s \in Serial : Vacant(s)
      /\ \A c \in Caller : call[c] = Idle
      /\ \A i \in Iface : ~block[i].live
      /\ fault["BT"] = {}
  BY <1>1 DEF Init, Vacant, Free, Serial
<1>6. PInv
  <2>1. \A c \in Caller : CallerPlace(c)
    BY <1>4, <1>5 DEF CallerPlace, At, Inside, OpenPlace, ClosePlace, LeavePlace
  <2>2. HubPlace
    BY <1>4, <1>5 DEF HubPlace, OpenPlace, ClosePlace, LeavePlace
  <2>3. \A t \in Thread : drv[t].hdev # NoHdev <=> drv[t].at \in Carrying
    BY <1>4 DEF Carrying
  <2>4. ExtLives
    BY <1>4, <1>5 DEF ExtLives, NoExt
  <2>5. LockWell
    BY <1>1, Nodes DEF LockWell, LockType, ListOK, WaitOK, Asleep
  <2> QED
    BY <1>2, <1>3, <1>5, <2>1, <2>2, <2>3, <2>4, <2>5 DEF PInv
<1>7. LInv
  BY <1>1, <1>4 DEF LInv, ForgetOK, LockOK, PointersOK, PublishOK, Holds, Holding, At, NoExt
<1>8. CInv
  <2>1. Card = NoIface
    BY <1>5, <1>6, CardFacts DEF Vacant, Serial
  <2>2. Calm /\ HciCalm /\ OpenCalm /\ OneCard
    BY <1>4, <2>1 DEF Calm, At, HciCalm, OpenCalm, OneCard
  <2>3. NoneAsleep
    BY <1>1, Nodes DEF NoneAsleep, Asleep
  <2> QED
    BY <1>1, <1>5, <2>1, <2>2, <2>3, CalmSingle DEF CInv
<1> QED
  BY <1>6, <1>7, <1>8 DEF BtInv

LEMMA BtInvariant == BtSpec => []BtInv
<1>1. BtInv /\ [BtNext]_<<vars, btVars>> => BtInv'
  BY NextPlaces, NextOwners, NextCard DEF BtInv
<1> QED
  BY BtInitInv, <1>1, PTL DEF BtSpec

(***************************************************************************)
(* PointerGuarded of BtDriver: the pointer to the HCI device is guarded by *)
(* openLock as long as only holders release it, with any number of threads *)
(* in the driver.                                                          *)
(***************************************************************************)
THEOREM PointerIsGuarded == BtSpec => []PointerGuarded
<1>1. BtInv => PointerGuarded
  BY DEF BtInv, LInv, LockOK, PointersOK, PointerGuarded, Own, Holds, Holding
<1> QED
  BY <1>1, BtInvariant, PTL

(***************************************************************************)
(* HciTracksBus of BtDriver: at rest, and if no two calls ever overlapped, *)
(* the bus reports Started exactly for a card whose HCI device exists.     *)
(***************************************************************************)
THEOREM HciFollowsBus == BtSpec => []HciTracksBus
<1>1. BtInv => HciTracksBus
  BY CardFacts, NoIfaceAssumption DEF BtInv, CInv, Single, AtRest, Agree, On, HciTracksBus
<1> QED
  BY <1>1, BtInvariant, PTL

(***************************************************************************)
(* HciNeedsPower of BtDriver: without overlap a registered HCI device      *)
(* always leads to a live, powered extension, whatever the HCI core does   *)
(* at the same time, and nothing is open that is not powered.              *)
(***************************************************************************)
THEOREM HciHasPower == BtSpec => []HciNeedsPower
<1>1. BtInv => HciNeedsPower
  <2> SUFFICES ASSUME BtInv, ~met
               PROVE  /\ \A h \in Hdev : hci[h].registered =>
                             ext[hci[h].ext].live /\ ext[hci[h].ext].powered
                      /\ \A i \in Iface : ext[i].open => ext[i].powered
    BY DEF HciNeedsPower
  <2>1. PInv /\ Single
    BY DEF BtInv, CInv
  <2>2. Card # NoIface => ext[Card].live
    BY <2>1, CardFacts DEF PInv, ExtLives
  <2>3. \A i \in Iface \ {Card} : ~ext[i].open
    BY <2>1 DEF Single, OneCard, NoExt
  <2> QED
    BY <2>1, <2>2, <2>3, NoIfaceAssumption DEF Single, HciOK, OpenOK
<1> QED
  BY <1>1, BtInvariant, PTL

(***************************************************************************)
(* MemoryErrorsNeedOverlap of BtDriver: no sequence of calls, one after    *)
(* the other and each with any outcome, touches freed memory or NULL on    *)
(* one card.                                                               *)
(***************************************************************************)
THEOREM SequentialCallsAreSafe == BtSpec => []MemoryErrorsNeedOverlap
<1>1. BtInv => MemoryErrorsNeedOverlap
  BY DEF BtInv, CInv, MemoryErrorsNeedOverlap
<1> QED
  BY <1>1, BtInvariant, PTL

-----------------------------------------------------------------------------
(* The driver under the bus lives the bus's lifecycle.                     *)

(* A step of the driver is one of the bus, or leaves the bus alone.         *)
LEMMA BtStepKinds == BtNext => Running /\ (Next \/ DriverAlone)
<1> SUFFICES ASSUME BtNext
             PROVE  Running /\ (Next \/ DriverAlone)
  OBVIOUS
<1>0. Running /\ {} \in SUBSET MemoryError /\ {"freed"} \in SUBSET MemoryError /\ "BT" \in Serial
  BY DEF BtNext, MemoryError, Serial
<1>1. ASSUME NEW t \in Thread, Callback(t)
      PROVE  DriverAlone
  <2>1. BusStays
    BY <1>1 DEF Callback, Proceeds, Down, Sleep, Wake, Signal, OpenDev, RegisterDev, RegisterFails, Publish,
                NothingToUnregister, UnregisterDev, CloseDev, Forget
  <2>2. CASE UnregisterDev(t)
    <3>1. \E kinds \in SUBSET MemoryError : Commit("BT", kinds)
      BY <1>0, <2>2 DEF UnregisterDev
    <3> QED
      BY <1>0, <2>1, <3>1 DEF BusStays, DriverAlone
  <2>3. CASE Forget(t)
    <3>1. \E kinds \in SUBSET MemoryError : Commit("BT", kinds)
      BY <1>0, <2>3 DEF Forget
    <3> QED
      BY <1>0, <2>1, <3>1 DEF BusStays, DriverAlone
  <2>4. CASE ~UnregisterDev(t) /\ ~Forget(t)
    <3>1. fault' = fault
      BY <1>1, <2>4 DEF Callback, Proceeds, Down, Sleep, Wake, Signal, OpenDev, RegisterDev, RegisterFails, Publish,
                        NothingToUnregister, CloseDev
    <3> QED
      BY <2>1, <3>1 DEF BusStays, DriverAlone
  <2> QED
    BY <2>2, <2>3, <2>4
<1>2. ASSUME NEW c \in Caller, CallerStep(c)
      PROVE  Next
  <2>1. At(c, "ok") \in BOOLEAN
    BY DEF At
  <2>2. CallerNext(c)
    BY <1>0, <1>2, <2>1 DEF CallerStep, BtPlugIn, BtPlugInDone, BtUnPlug, BtUnPlugDone, CallerNext,
                            OpenSucceeded
  <2> QED
    BY <1>0, <2>2 DEF Next
<1>3. ASSUME HubMoves
      PROVE  Next \/ DriverAlone
  <2>1. At(HubThread, "ok") \in BOOLEAN
    BY DEF At
  <2>2. CASE (\E i \in Iface : Probe(i)) \/ ProbeDone \/ Leave \/ LeaveDone
    <3>1. HubNext
      BY <1>0, <2>1, <2>2 DEF Probe, ProbeDone, Leave, LeaveDone, HubNext, OpenSucceeded
    <3> QED
      BY <1>0, <3>1 DEF Next
  <2>3. CASE Disconnect
    BY <2>3 DEF Disconnect, BusStays, DriverAlone
  <2> QED
    BY <1>3, <2>2, <2>3 DEF HubMoves
<1>4. ASSUME StopHci \/ ClearOpen \/ ProbeOther \/ ProbeRefused
      PROVE  DriverAlone
  BY <1>4 DEF StopHci, ClearOpen, ProbeOther, ProbeRefused, BusStays, DriverAlone
<1>5. ASSUME DisconnectRefused \/ \E h \in Hdev : HciOpen(h) \/ HciClose(h)
      PROVE  DriverAlone
  <2>1. \E kinds \in SUBSET MemoryError : Commit("BT", kinds)
    BY <1>0, <1>5 DEF DisconnectRefused, HciOpen, HciClose
  <2>2. BusStays
    BY <1>5 DEF DisconnectRefused, HciOpen, HciClose
  <2> QED
    BY <1>0, <2>1, <2>2 DEF BusStays, DriverAlone
<1> QED
  BY <1>0, <1>1, <1>2, <1>3, <1>4, <1>5 DEF BtNext, HubThreadStep, HubMoves

(***************************************************************************)
(* BT!Spec, the half of EachFunctionLives that is about Bluetooth, of the  *)
(* driver itself: with the semaphore, the signals, the failures and the    *)
(* HCI core between the bus's calls and their returns, the radio goes      *)
(* through the lifecycle of FunctionLifecycle, and comes back by itself    *)
(* exactly when that says so.                                              *)
(***************************************************************************)
THEOREM BtDriverLives == BtSpec => BT!Spec
<1>1. BtInit => LifeWhileRunning /\ BT!Init
  BY LifeStarts DEF BtInit
<1>2. LifeWhileRunning /\ [BtNext]_<<vars, btVars>> => LifeWhileRunning' /\ [BT!Next]_(BT!vars)
  <2>1. CASE BtNext
    BY <2>1, BtStepKinds, LivesOn
  <2>2. CASE UNCHANGED <<vars, btVars>>
    BY <2>2, LifeStays
  <2> QED
    BY <2>1, <2>2
<1> QED
  BY <1>1, <1>2, PTL DEF BtSpec, BT!Spec
=============================================================================
