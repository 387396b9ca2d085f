-------------------------- MODULE WlanDriver_proofs --------------------------
(***************************************************************************)
(* Proofs about the WLAN driver: what a net device may rely on, what the   *)
(* bus knows of it, and what a failed register_netdev leads to, as long as *)
(* no two threads have been in the driver at once; for any number of       *)
(* threads, interfaces and net devices.                                    *)
(***************************************************************************)
EXTENDS WlanDriver, TdspBus_proofs

-----------------------------------------------------------------------------
(* The inductive invariant, part one: where a thread is in the driver and   *)
(* what it is doing in the bus belong together.                            *)

OpenPlace  == {"initialize", "setup", "register", "ok", "failed"}
ClosePlace == {"halt", "destroy", "unregister", "uninitialize", "done"}
Carrying   == {"register", "unregister"}

CallerPlace(c) ==
    /\ At(c, "out") => call[c] = Idle
    /\ Inside(c) => call[c].serial = "WLAN" /\ call[c].next = 4
    /\ drv[c].at \in OpenPlace => call[c].op = "plug"
    /\ drv[c].at \in ClosePlace => call[c].op = "unplug"

HubPlace ==
    /\ At(HubThread, "out") => hub = HubIdle
    /\ drv[HubThread].at \in OpenPlace => hub.op = "attach"
    /\ drv[HubThread].at \in ClosePlace => hub.op = "detach"
    /\ hub # HubIdle => hub.serial = "WLAN"

AdapterLives == \A i \in Iface : adapter[i].live <=> block[i].live

PInv ==
    /\ RInv
    /\ WlanTypeOK
    /\ \A s \in Serial \ {"WLAN"} : Vacant(s)
    /\ \A c \in Caller : CallerPlace(c)
    /\ HubPlace
    /\ AdapterLives

(* Part two, while no two threads have been inside at once: everybody works *)
(* on the one card there is, every net device is the card's, and each place *)
(* knows whether one is up.                                                *)

Card == IF hub = HubIdle THEN slot["WLAN"] ELSE hub.iface
On   == block[Card].devstate = "Started"
Up(n) == net[n].state = "registered"
SomeUp == \E n \in Netdev : Up(n)

Alone ==
    /\ \A t, u \in Thread : Inside(t) /\ Inside(u) => t = u
    /\ \A c \in Caller : Inside(c) => call[c].iface = Card

OneCard == \A i \in Iface \ {Card} : adapter[i] = NoAdapter

(* The card's adapter points to a net device that is not free, or the       *)
(* thread that unregisters it has it in hand.                              *)
NetsOK ==
    \A n \in Netdev : net[n].state # "free" =>
        /\ Card # NoIface /\ net[n].owner = Card
        /\ \/ adapter[Card].netdev = n
           \/ \E t \in Thread : At(t, "unregister") /\ drv[t].netdev = n
        /\ Up(n) => adapter[Card].started /\ adapter[Card].stat
        /\ ~Up(n) => \E t \in Thread : At(t, "register") /\ drv[t].netdev = n

AtRest == (\A t \in Thread : ~Inside(t)) /\ Card # NoIface => (On <=> SomeUp)

PlaceOK(t) ==
    /\ drv[t].at \in OpenPlace => ~On
    /\ drv[t].at \in {"initialize", "setup", "register", "failed", "uninitialize", "done"} => ~SomeUp
    /\ drv[t].at \in {"setup", "register"} => adapter[Card].started
    /\ At(t, "register") =>
          /\ adapter[Card].netdev = drv[t].netdev /\ adapter[Card].stat
          /\ net[drv[t].netdev].state = "allocated" /\ net[drv[t].netdev].owner = Card
    /\ At(t, "ok") => SomeUp
    /\ drv[t].at \in {"halt", "destroy", "unregister"} => (On <=> SomeUp)
    /\ drv[t].at \in {"unregister", "uninitialize", "done"} => adapter[Card].netdev = NoNetdev

Single == Alone /\ OneCard /\ NetsOK /\ AtRest /\ \A t \in Thread : PlaceOK(t)

(* Part three: an adapter that register_netdev has failed for keeps its     *)
(* pointer, and only such an adapter points to a freed net device.         *)
NoMemoryError == fault["WLAN"] \cap MemoryError = {}

RefusedPlace == {"out", "initialize", "setup", "failed", "halt", "destroy", "unregister"}

RefusedOK ==
    Card \in refused =>
        /\ ~On /\ ~SomeUp
        /\ \A t \in Thread : drv[t].at \in RefusedPlace
        /\ adapter[Card].netdev # NoNetdev \/ \E t \in Thread : At(t, "unregister")

StaleOK ==
    /\ Card # NoIface /\ adapter[Card].netdev # NoNetdev =>
          net[adapter[Card].netdev].state # "free" \/ Card \in refused
    /\ \A t \in Thread : At(t, "unregister") =>
          net[drv[t].netdev].state # "free" \/ Card \in refused

CInv ==
    ~met => /\ Single
            /\ NoMemoryError => RefusedOK /\ StaleOK
            /\ ~NoMemoryError => refused # {}

WlanInv == PInv /\ CInv

-----------------------------------------------------------------------------
(* Part one.                                                               *)

AdapterType == [live : BOOLEAN, started : BOOLEAN, netdev : Netdev \cup {NoNetdev}, stat : BOOLEAN]
NetType == [state : {"free", "allocated", "registered"}, owner : Iface \cup {NoIface}]
DrvType == [at : Place, netdev : Netdev \cup {NoNetdev}]

LEMMA WlanTypes ==
    ASSUME PInv
    PROVE  /\ adapter \in [Iface -> AdapterType] /\ net \in [Netdev -> NetType]
           /\ drv \in [Thread -> DrvType] /\ met \in BOOLEAN /\ refused \in SUBSET Iface
           /\ fault \in [Serial -> SUBSET FaultKind]
           /\ slot \in [Serial -> Iface \cup {NoIface}] /\ block \in [Iface -> Block]
           /\ call \in [Caller -> CallState] /\ hub \in HubState
           /\ "WLAN" \in Serial /\ HubThread \in Thread
           /\ \A t \in Thread : /\ drv[t].at \in Place /\ drv[t].netdev \in Netdev \cup {NoNetdev}
                                /\ drv[t].netdev # NoNetdev <=> drv[t].at \in Carrying
BY DEF PInv, RInv, TypeOK, WlanTypeOK, AdapterType, NetType, DrvType, Serial, Thread, Carrying

(* A thread inside is where the bus called it from; in the bus it is inside. *)
LEMMA CallerIsInside ==
    ASSUME PInv, NEW c \in Caller
    PROVE  /\ call[c].op \notin {"plug", "unplug"} => At(c, "out") /\ call[c] = Idle
           /\ call[c].op = "plug" => drv[c].at \in OpenPlace
           /\ call[c].op = "unplug" => drv[c].at \in ClosePlace
           /\ c # HubThread /\ c \in Thread
<1>1. c # HubThread /\ c \in Thread
  BY HubThreadAssumption DEF Thread
<1>2. drv[c].at \in Place /\ CallerPlace(c)
  BY <1>1, WlanTypes DEF PInv
<1>3. drv[c].at = "out" => call[c].op = "none"
  BY <1>2 DEF CallerPlace, At, Idle
<1>4. drv[c].at \in {"out"} \cup OpenPlace \cup ClosePlace
  BY <1>2 DEF Place, OpenPlace, ClosePlace
<1> QED
  BY <1>1, <1>2, <1>3, <1>4 DEF CallerPlace, At

LEMMA HubIsInside ==
    ASSUME PInv
    PROVE  /\ hub = HubIdle <=> At(HubThread, "out")
           /\ hub.op = "none" <=> At(HubThread, "out")
           /\ hub.op = "attach" <=> drv[HubThread].at \in OpenPlace
           /\ hub.op = "detach" <=> drv[HubThread].at \in ClosePlace
           /\ hub # HubIdle => hub.serial = "WLAN" /\ hub.iface \in Iface
<1>1. drv[HubThread].at \in Place /\ HubPlace /\ HubOK /\ hub \in HubState
  BY WlanTypes DEF PInv, RInv
<1>2. drv[HubThread].at \in {"out"} \cup OpenPlace \cup ClosePlace
  BY <1>1 DEF Place, OpenPlace, ClosePlace
<1>3. hub = HubIdle => hub.op = "none"
  BY DEF HubIdle
<1>4. At(HubThread, "out") <=> drv[HubThread].at = "out"
  BY DEF At
<1>5. "out" \notin OpenPlace \cup ClosePlace /\ OpenPlace \cap ClosePlace = {}
  BY DEF OpenPlace, ClosePlace
<1> QED
  BY <1>1, <1>2, <1>3, <1>4, <1>5 DEF HubPlace, HubOK, HubState

(* The adapter a thread inside works on is one.                            *)
LEMMA AdapterOfIs ==
    ASSUME PInv, NEW t \in Thread, Inside(t)
    PROVE  AdapterOf(t) \in Iface
<1>1. CASE t \in Caller
  BY <1>1, CallerIsInside DEF PInv, RInv, CallOK, InCallback, AdapterOf, Inside
<1>2. CASE t = HubThread
  BY <1>2, HubIsInside DEF AdapterOf, Inside
<1> QED
  BY <1>1, <1>2 DEF Thread

(* A thread inside stays on its side of the driver, and the bus and the     *)
(* adapters that live stay as they are.                                    *)
SameSide(a, b) == \E S \in {OpenPlace, ClosePlace} : a \in S /\ b \in S

Moves(t) ==
    /\ BusStays /\ fault' \in [Serial -> SUBSET FaultKind]
    /\ adapter' \in [Iface -> AdapterType] /\ \A i \in Iface : adapter'[i].live = adapter[i].live
    /\ net' \in [Netdev -> NetType]
    /\ drv' \in [Thread -> DrvType] /\ \A u \in Thread \ {t} : drv'[u] = drv[u]
    /\ SameSide(drv[t].at, drv'[t].at)
    /\ drv'[t].netdev # NoNetdev <=> drv'[t].at \in Carrying
    /\ UNCHANGED met /\ refused' \subseteq Iface

LEMMA CallbackIsInside ==
    ASSUME NEW t \in Thread, Callback(t)
    PROVE  Inside(t)
<1> USE DEF Inside, At
<1>1. CASE \E ok \in BOOLEAN : Initialize(t, ok)
  BY <1>1 DEF Initialize
<1>2. CASE SetupFails(t) \/ \E n \in Netdev : Setup(t, n)
  BY <1>2 DEF SetupFails, Setup
<1>3. CASE \E ok \in BOOLEAN : Register(t, ok)
  BY <1>3 DEF Register
<1>4. CASE Halt(t) \/ Destroy(t)
  BY <1>4 DEF Halt, Destroy
<1>5. CASE Unregister(t) \/ UnInitialize(t)
  BY <1>5 DEF Unregister, UnInitialize
<1> QED
  BY <1>1, <1>2, <1>3, <1>4, <1>5 DEF Callback

LEMMA InnerStep ==
    ASSUME PInv, NEW t \in Thread, Callback(t)
    PROVE  Moves(t)
<1> DEFINE i == AdapterOf(t)
<1>0. /\ adapter \in [Iface -> AdapterType] /\ net \in [Netdev -> NetType]
      /\ drv \in [Thread -> DrvType] /\ refused \in SUBSET Iface
      /\ fault \in [Serial -> SUBSET FaultKind]
      /\ drv[t].at \in Place /\ drv[t].netdev \in Netdev \cup {NoNetdev}
      /\ drv[t].netdev # NoNetdev <=> drv[t].at \in Carrying
  BY WlanTypes
<1>1. i \in Iface
  BY CallbackIsInside, AdapterOfIs
<1> HIDE DEF i
<1>2. ASSUME NEW a \in Place, NEW n \in Netdev \cup {NoNetdev},
             \/ Go(t, a) /\ n = drv[t].netdev
             \/ Carry(t, a, n),
             SameSide(drv[t].at, a), n # NoNetdev <=> a \in Carrying,
             BusStays, fault' \in [Serial -> SUBSET FaultKind],
             adapter' \in [Iface -> AdapterType],
             \A j \in Iface : adapter'[j].live = adapter[j].live,
             net' \in [Netdev -> NetType], UNCHANGED met, refused' \subseteq Iface
      PROVE  Moves(t)
  <2>1. /\ drv' \in [Thread -> DrvType] /\ drv'[t].at = a /\ drv'[t].netdev = n
        /\ \A u \in Thread \ {t} : drv'[u] = drv[u]
    <3>1. CASE Go(t, a) /\ n = drv[t].netdev
      BY <1>0, <3>1 DEF DrvType, Go
    <3>2. CASE Carry(t, a, n)
      BY <1>0, <3>2 DEF DrvType, Carry
    <3> QED
      BY <1>2, <3>1, <3>2
  <2> QED
    BY <1>2, <2>1 DEF Moves
<1>3. \A k \in {{}, {"freed"}} : Commit("WLAN", k) => fault' \in [Serial -> SUBSET FaultKind]
  BY <1>0 DEF Commit, FaultKind, Serial
<1>4. ASSUME NEW ok \in BOOLEAN, Initialize(t, ok)
      PROVE  Moves(t)
  <2>1. PICK b \in BOOLEAN : adapter' = [adapter EXCEPT ![i].started = b]
    BY <1>0, <1>1, <1>4 DEF Initialize, AdapterType, i
  <2>2. adapter' \in [Iface -> AdapterType] /\ \A j \in Iface : adapter'[j].live = adapter[j].live
    BY <1>0, <1>1, <2>1 DEF AdapterType
  <2>3. BusStays /\ UNCHANGED <<fault, net, met, refused>>
    BY <1>4 DEF Initialize
  <2>4. PICK a \in {"setup", "failed"} : Go(t, a) /\ At(t, "initialize")
    BY <1>4 DEF Initialize, AfterInitialize
  <2>5. a \in Place /\ SameSide(drv[t].at, a) /\ drv[t].at \notin Carrying /\ a \notin Carrying
    BY <2>4 DEF At, Place, SameSide, OpenPlace, Carrying
  <2> QED
    BY <1>0, <1>2, <2>2, <2>3, <2>4, <2>5
<1>5. CASE SetupFails(t)
  <2>1. BusStays /\ UNCHANGED <<fault, adapter, net, met, refused>>
    BY <1>5 DEF SetupFails
  <2>2. /\ Go(t, "failed") /\ SameSide(drv[t].at, "failed") /\ "failed" \in Place \ Carrying
        /\ drv[t].netdev = NoNetdev
    BY <1>0, <1>5 DEF SetupFails, At, Place, SameSide, OpenPlace, Carrying
  <2> QED
    BY <1>0, <1>2, <2>1, <2>2
<1>6. ASSUME NEW n \in Netdev, Setup(t, n)
      PROVE  Moves(t)
  <2>1. adapter' \in [Iface -> AdapterType] /\ \A j \in Iface : adapter'[j].live = adapter[j].live
    <3>1. adapter' = [adapter EXCEPT ![i].stat = TRUE, ![i].netdev = n]
      BY <1>6 DEF Setup, i
    <3> QED
      BY <1>0, <1>1, <3>1 DEF AdapterType
  <2>2. net' \in [Netdev -> NetType]
    BY <1>0, <1>1, <1>6 DEF Setup, NetType, i
  <2>3. BusStays /\ UNCHANGED <<fault, met, refused>>
    BY <1>6 DEF Setup
  <2>4. /\ Carry(t, "register", n) /\ SameSide(drv[t].at, "register")
        /\ "register" \in Place \cap Carrying /\ n # NoNetdev
    BY <1>6, NoNetdevAssumption DEF Setup, At, Place, SameSide, OpenPlace, Carrying
  <2> QED
    BY <1>0, <1>2, <2>1, <2>2, <2>3, <2>4
<1>7. ASSUME NEW ok \in BOOLEAN, Register(t, ok)
      PROVE  Moves(t)
  <2>1. net' \in [Netdev -> NetType]
    <3>1. CASE ok
      <4>1. net' = [net EXCEPT ![drv[t].netdev].state = "registered"]
        BY <1>7, <3>1 DEF Register
      <4> QED
        BY <1>0, <4>1 DEF NetType
    <3>2. CASE ~ok
      <4>1. net' = [net EXCEPT ![drv[t].netdev] = NoNet]
        BY <1>7, <3>2 DEF Register
      <4> QED
        BY <1>0, <4>1 DEF NetType, NoNet
    <3> QED
      BY <3>1, <3>2
  <2>2. BusStays /\ UNCHANGED <<adapter, met>> /\ refused' \subseteq Iface
    BY <1>0, <1>1, <1>7 DEF Register, i
  <2>3. fault' \in [Serial -> SUBSET FaultKind]
    BY <1>3, <1>7 DEF Register
  <2>4. PICK a \in {"ok", "failed"} : Carry(t, a, NoNetdev) /\ At(t, "register")
    BY <1>7 DEF Register, AfterRegister
  <2>5. a \in Place /\ SameSide(drv[t].at, a) /\ a \notin Carrying
    BY <2>4 DEF At, Place, SameSide, OpenPlace, Carrying
  <2> QED
    BY <1>0, <1>2, <2>1, <2>2, <2>3, <2>4, <2>5
<1>8. CASE Halt(t)
  <2>1. BusStays /\ UNCHANGED <<fault, adapter, net, met, refused>>
    BY <1>8 DEF Halt
  <2>2. /\ Go(t, "destroy") /\ SameSide(drv[t].at, "destroy") /\ "destroy" \in Place \ Carrying
        /\ drv[t].netdev = NoNetdev
    BY <1>0, <1>8 DEF Halt, At, Place, SameSide, ClosePlace, Carrying
  <2> QED
    BY <1>0, <1>2, <2>1, <2>2
<1>9. CASE Destroy(t)
  <2>1. adapter' \in [Iface -> AdapterType] /\ \A j \in Iface : adapter'[j].live = adapter[j].live
    <3>1. adapter' = [adapter EXCEPT ![i].netdev = NoNetdev]
      BY <1>9 DEF Destroy, Kept, i
    <3> QED
      BY <1>0, <1>1, <3>1 DEF AdapterType
  <2>2. BusStays /\ UNCHANGED <<fault, net, met, refused>> /\ At(t, "destroy")
    BY <1>9 DEF Destroy
  <2>3. CASE HasNetdev(i)
    <3>1. Carry(t, "unregister", adapter[i].netdev) /\ adapter[i].netdev \in Netdev \cup {NoNetdev}
      BY <1>0, <1>1, <1>9, <2>3 DEF Destroy, Taken, AdapterType, i
    <3>2. /\ SameSide(drv[t].at, "unregister") /\ "unregister" \in Place \cap Carrying
          /\ adapter[i].netdev # NoNetdev
      BY <2>2, <2>3 DEF HasNetdev, At, Place, SameSide, ClosePlace, Carrying
    <3> QED
      BY <1>0, <1>2, <2>1, <2>2, <3>1, <3>2
  <2>4. CASE ~HasNetdev(i)
    <3>1. /\ Go(t, "uninitialize") /\ SameSide(drv[t].at, "uninitialize")
          /\ "uninitialize" \in Place \ Carrying /\ drv[t].netdev = NoNetdev
      BY <1>0, <1>9, <2>2, <2>4 DEF Destroy, At, Place, SameSide, ClosePlace, Carrying, i
    <3> QED
      BY <1>0, <1>2, <2>1, <2>2, <3>1
  <2> QED
    BY <2>3, <2>4
<1>10. CASE Unregister(t)
  <2>1. adapter' \in [Iface -> AdapterType] /\ \A j \in Iface : adapter'[j].live = adapter[j].live
    <3>1. adapter' = [adapter EXCEPT ![i].stat = FALSE]
      BY <1>10 DEF Unregister, i
    <3> QED
      BY <1>0, <1>1, <3>1 DEF AdapterType
  <2>2. net' \in [Netdev -> NetType]
    BY <1>0, <1>10 DEF Unregister, NetType, NoNet
  <2>3. BusStays /\ UNCHANGED <<met, refused>> /\ fault' \in [Serial -> SUBSET FaultKind]
    BY <1>3, <1>10 DEF Unregister
  <2>4. /\ Carry(t, "uninitialize", NoNetdev) /\ SameSide(drv[t].at, "uninitialize")
        /\ "uninitialize" \in Place \ Carrying
    BY <1>10 DEF Unregister, At, Place, SameSide, ClosePlace, Carrying
  <2> QED
    BY <1>0, <1>2, <2>1, <2>2, <2>3, <2>4
<1>11. CASE UnInitialize(t)
  <2>1. adapter' \in [Iface -> AdapterType] /\ \A j \in Iface : adapter'[j].live = adapter[j].live
    <3>1. adapter' = [adapter EXCEPT ![i].started = FALSE]
      BY <1>11 DEF UnInitialize, i
    <3> QED
      BY <1>0, <1>1, <3>1 DEF AdapterType
  <2>2. BusStays /\ UNCHANGED <<fault, net, met, refused>>
    BY <1>11 DEF UnInitialize
  <2>3. /\ Go(t, "done") /\ SameSide(drv[t].at, "done") /\ "done" \in Place \ Carrying
        /\ drv[t].netdev = NoNetdev
    BY <1>0, <1>11 DEF UnInitialize, At, Place, SameSide, ClosePlace, Carrying
  <2> QED
    BY <1>0, <1>2, <2>1, <2>2, <2>3
<1> QED
  BY <1>4, <1>5, <1>6, <1>7, <1>8, <1>9, <1>10, <1>11 DEF Callback

(* A step of the driver alone that changes nothing the bus reads.           *)
LEMMA RegistryStays ==
    ASSUME RInv, BusStays, fault' \in [Serial -> SUBSET FaultKind]
    PROVE  RInv'
BY DEF RInv, TypeOK, CallOK, HubOK, RegistrySound, InCallback, Vacant, BusStays, registry

LEMMA InnerKeeps ==
    ASSUME PInv, NEW t \in Thread, Moves(t)
    PROVE  PInv'
<1>1. RInv'
  BY RegistryStays DEF PInv, Moves
<1>2. WlanTypeOK'
  <2>1. \A u \in Thread : drv'[u].netdev # NoNetdev <=> drv'[u].at \in Carrying
    BY WlanTypes DEF Moves
  <2> QED
    BY <2>1 DEF PInv, WlanTypeOK, Moves, AdapterType, NetType, DrvType, Carrying
<1>3. (\A s \in Serial \ {"WLAN"} : Vacant(s))' /\ AdapterLives'
  BY DEF PInv, Moves, BusStays, registry, Vacant, AdapterLives
<1>4. /\ drv[t].at # "out" /\ drv'[t].at # "out"
      /\ drv[t].at \in OpenPlace <=> drv'[t].at \in OpenPlace
      /\ drv[t].at \in ClosePlace <=> drv'[t].at \in ClosePlace
  BY DEF Moves, SameSide, OpenPlace, ClosePlace
<1>5. \A u \in Thread : /\ drv[u].at = "out" <=> drv'[u].at = "out"
                        /\ drv[u].at \in OpenPlace <=> drv'[u].at \in OpenPlace
                        /\ drv[u].at \in ClosePlace <=> drv'[u].at \in ClosePlace
  BY <1>4 DEF Moves
<1>6. call' = call /\ hub' = hub
  BY DEF Moves, BusStays
<1>7. (\A c \in Caller : CallerPlace(c))'
  BY <1>5, <1>6 DEF PInv, CallerPlace, Thread, Inside, At
<1>8. HubPlace'
  BY <1>5, <1>6 DEF PInv, HubPlace, Thread, At
<1> QED
  BY <1>1, <1>2, <1>3, <1>7, <1>8 DEF PInv

(* The ioctl threads.                                                      *)
CallerStep(c) == WlanPlugIn(c) \/ WlanPlugInDone(c) \/ WlanUnPlug(c) \/ WlanUnPlugDone(c)

LEMMA CallerStepKeeps ==
    ASSUME PInv, Running, NEW c \in Caller, CallerStep(c)
    PROVE  PInv' /\ UNCHANGED <<slot, hub, adapter, net, refused>>
<1> DEFINE a == drv'[c].at
<1>0. CallerNext(c)
  <2>1. "WLAN" \in Serial /\ At(c, "ok") \in BOOLEAN
    BY DEF Serial, At
  <2> QED
    BY <2>1 DEF CallerStep, WlanPlugIn, WlanPlugInDone, WlanUnPlug, WlanUnPlugDone, CallerNext
<1>1. RInv'
  BY <1>0, NextRegistry DEF PInv, Next
<1>2. /\ UNCHANGED <<slot, hub>>
      /\ \A i \in Iface : block'[i].live = block[i].live
  BY <1>0, CallerFrame DEF PInv
<1>3. /\ drv \in [Thread -> DrvType] /\ c \in Thread /\ c # HubThread
      /\ call \in [Caller -> CallState] /\ drv[c].at \in Place
  BY CallerIsInside, WlanTypes
<1>4. UNCHANGED <<adapter, net, refused>>
  BY DEF CallerStep, WlanPlugIn, WlanPlugInDone, WlanUnPlug, WlanUnPlugDone
<1>5. /\ drv' \in [Thread -> DrvType] /\ \A u \in Thread \ {c} : drv'[u] = drv[u]
      /\ drv'[c].netdev # NoNetdev <=> a \in Carrying
      /\ \A d \in Caller \ {c} : call'[d] = call[d]
      /\ CallerPlace(c)'
  <2>1. CASE WlanPlugIn(c) \/ WlanUnPlug(c)
    <3>1. drv[c].at = "out" /\ drv[c].netdev = NoNetdev
      BY <2>1, CallerIsInside, WlanTypes DEF WlanPlugIn, WlanUnPlug, PlugIn, UnPlug, Idle, At, Carrying
    <3>2. PICK p \in {"initialize", "halt"} :
             /\ drv' = [drv EXCEPT ![c].at = p]
             /\ call'[c].serial = "WLAN" /\ call'[c].next = 4
             /\ call'[c].op = IF p = "initialize" THEN "plug" ELSE "unplug"
             /\ \A d \in Caller \ {c} : call'[d] = call[d]
      BY <1>3, <2>1 DEF WlanPlugIn, WlanUnPlug, PlugIn, UnPlug, BeginClose, Called, Go
    <3>3. drv' \in [Thread -> DrvType] /\ \A u \in Thread \ {c} : drv'[u] = drv[u]
      BY <1>3, <3>2 DEF DrvType, Place
    <3>4. drv'[c].at = p /\ drv'[c].netdev = NoNetdev
      BY <1>3, <3>1, <3>2 DEF DrvType
    <3> QED
      BY <3>2, <3>3, <3>4 DEF CallerPlace, At, Inside, Carrying, OpenPlace, ClosePlace
  <2>2. CASE WlanPlugInDone(c) \/ WlanUnPlugDone(c)
    <3>1. drv' = [drv EXCEPT ![c] = Outside]
      BY <2>2 DEF WlanPlugInDone, WlanUnPlugDone, Returned
    <3>2. Inside(c)
      BY <2>2 DEF WlanPlugInDone, WlanUnPlugDone, Inside, At
    <3>3. call' = [call EXCEPT ![c] = Idle]
      <4>1. CASE WlanPlugInDone(c)
        BY <4>1 DEF WlanPlugInDone, PlugInDone
      <4>2. CASE WlanUnPlugDone(c)
        <5>1. AfterSlot(call[c].next) = Idle
          BY <3>2 DEF PInv, CallerPlace, AfterSlot
        <5> QED
          BY <4>2, <5>1 DEF WlanUnPlugDone, UnPlugDone
      <4> QED
        BY <2>2, <4>1, <4>2
    <3>4. Outside \in DrvType
      BY DEF Outside, DrvType, Place
    <3>5. /\ drv' \in [Thread -> DrvType] /\ \A u \in Thread \ {c} : drv'[u] = drv[u]
          /\ drv'[c] = Outside
      BY <1>3, <3>1, <3>4
    <3>6. call'[c] = Idle /\ \A d \in Caller \ {c} : call'[d] = call[d]
      BY <1>3, <3>3
    <3> QED
      BY <3>5, <3>6 DEF CallerPlace, At, Inside, Carrying, OpenPlace, ClosePlace, Outside
  <2> QED
    BY <2>1, <2>2 DEF CallerStep
<1>6. met' \in BOOLEAN
  BY WlanTypes DEF CallerStep, WlanPlugIn, WlanPlugInDone, WlanUnPlug, WlanUnPlugDone, Called, Returned, Meets
<1>7. WlanTypeOK'
  <2>1. \A u \in Thread : drv'[u].netdev # NoNetdev <=> drv'[u].at \in Carrying
    BY <1>5, WlanTypes
  <2> QED
    BY <1>4, <1>5, <1>6, <2>1 DEF PInv, WlanTypeOK, DrvType, Carrying
<1>8. (\A d \in Caller : CallerPlace(d))'
  BY <1>5 DEF PInv, CallerPlace, Thread, At, Inside
<1>9. HubPlace'
  BY <1>2, <1>3, <1>5, WlanTypes DEF PInv, HubPlace, Thread, At
<1> QED
  BY <1>1, <1>2, <1>4, <1>7, <1>8, <1>9 DEF PInv, Vacant, AdapterLives

(* The steps of the USB core's thread.                                      *)
HubMoves == (\E i \in Iface : Probe(i)) \/ ProbeDone \/ Disconnect \/ DisconnectDone

LEMMA HubFrame ==
    ASSUME PInv, HubMoves
    PROVE  /\ UNCHANGED <<call, net>> /\ met' \in BOOLEAN
           /\ drv' \in [Thread -> DrvType]
           /\ \A u \in Thread \ {HubThread} : drv'[u] = drv[u]
<1> DEFINE H == HubThread
<1>1. H \in Thread /\ drv \in [Thread -> DrvType]
  BY WlanTypes
<1>2. UNCHANGED <<call, net>>
  BY DEF HubMoves, Probe, ProbeDone, Disconnect, DisconnectDone, Attach, AttachDone, Detach, DetachDone
<1>3. met' \in BOOLEAN
  BY WlanTypes DEF HubMoves, Probe, ProbeDone, Disconnect, DisconnectDone, Called, Returned, Meets
<1>4. \/ drv' = drv
      \/ \E p \in {"initialize", "halt"} : drv' = [drv EXCEPT ![H].at = p]
      \/ drv' = [drv EXCEPT ![H] = Outside]
  BY DEF HubMoves, Probe, ProbeDone, Disconnect, DisconnectDone, Called, Returned, Go
<1>5. CASE \E p \in {"initialize", "halt"} : drv' = [drv EXCEPT ![H].at = p]
  BY <1>1, <1>2, <1>3, <1>5 DEF DrvType, Place
<1>6. CASE drv' = [drv EXCEPT ![H] = Outside]
  <2>1. Outside \in DrvType
    BY DEF Outside, DrvType, Place
  <2> QED
    BY <1>1, <1>2, <1>3, <1>6, <2>1
<1> QED
  BY <1>1, <1>2, <1>3, <1>4, <1>5, <1>6

LEMMA HubStepKeeps ==
    ASSUME PInv, Running, HubMoves
    PROVE  PInv'
<1> DEFINE H == HubThread
           a == drv'[H].at
<1>0. /\ "WLAN" \in Serial
      /\ slot \in [Serial -> Iface \cup {NoIface}] /\ block \in [Iface -> Block]
      /\ drv \in [Thread -> DrvType] /\ adapter \in [Iface -> AdapterType]
      /\ H \in Thread
  BY WlanTypes
<1>1. RInv'
  <2>1. At(H, "ok") \in BOOLEAN
    BY DEF At
  <2>2. HubNext
    BY <1>0, <2>1 DEF HubMoves, HubNext, Probe, ProbeDone, Disconnect, DisconnectDone
  <2> QED
    BY <2>2, NextRegistry DEF PInv, Next
<1>2. (\A c \in Caller : CallerPlace(c))'
  BY HubFrame, HubThreadAssumption DEF PInv, CallerPlace, Thread, At, Inside
<1>3. /\ NoAdapter \in AdapterType /\ NewAdapter \in AdapterType
      /\ NoAdapter.live = FALSE /\ NewAdapter.live = TRUE
  BY DEF NoAdapter, NewAdapter, AdapterType
<1>4. ASSUME adapter' \in [Iface -> AdapterType], refused' \subseteq Iface, AdapterLives', HubPlace',
             drv'[H].netdev # NoNetdev <=> drv'[H].at \in Carrying,
             \A s \in Serial \ {"WLAN"} : slot'[s] = slot[s]
      PROVE  PInv'
  <2>1. \A u \in Thread : drv'[u].netdev # NoNetdev <=> drv'[u].at \in Carrying
    BY <1>4, HubFrame, WlanTypes
  <2>2. WlanTypeOK'
    BY <1>4, <2>1, HubFrame DEF PInv, WlanTypeOK, DrvType, AdapterType, Carrying
  <2>3. (\A s \in Serial \ {"WLAN"} : Vacant(s))'
    BY <1>4 DEF PInv, Vacant
  <2> QED
    BY <1>1, <1>2, <1>4, <2>2, <2>3 DEF PInv
<1>5. ASSUME NEW i \in Iface, Probe(i)
      PROVE  PInv'
  <2>1. /\ slot' = [slot EXCEPT !["WLAN"] = i] /\ block[i] = Free /\ hub = HubIdle
        /\ \E b : b.live = TRUE /\ block' = [block EXCEPT ![i] = b]
        /\ Vacant("WLAN")
    BY <1>5 DEF Probe, Attach, TakeSlot
  <2>2. drv[H].at = "out" /\ drv[H].netdev = NoNetdev
    BY <2>1, HubIsInside, WlanTypes DEF At, Carrying
  <2>3. adapter' = [adapter EXCEPT ![i] = NewAdapter] /\ refused' \subseteq Iface
    BY <1>5, WlanTypes DEF Probe
  <2>4. AdapterLives' /\ adapter' \in [Iface -> AdapterType]
    BY <1>0, <1>3, <2>1, <2>3 DEF PInv, AdapterLives
  <2>5. HubPlace' /\ (drv'[H].netdev # NoNetdev <=> drv'[H].at \in Carrying)
    <3>1. CASE Reopens("WLAN")
      <4>1. drv' = [drv EXCEPT ![H].at = "initialize"] /\ hub'.op = "attach" /\ hub'.serial = "WLAN"
        BY <1>5, <3>1 DEF Probe, Attach, Called, Go
      <4>2. drv'[H].at = "initialize" /\ drv'[H].netdev = NoNetdev
        BY <1>0, <2>2, <4>1 DEF DrvType
      <4> QED
        BY <4>1, <4>2 DEF HubPlace, Carrying, OpenPlace, ClosePlace, At
    <3>2. CASE ~Reopens("WLAN")
      <4>1. drv' = drv /\ hub' = HubIdle
        BY <1>5, <2>1, <3>2 DEF Probe, Attach
      <4> QED
        BY <2>2, <4>1 DEF HubPlace, HubIdle, Carrying, OpenPlace, ClosePlace, At
    <3> QED
      BY <3>1, <3>2
  <2>6. \A s \in Serial \ {"WLAN"} : slot'[s] = slot[s]
    BY <1>0, <2>1
  <2> QED
    BY <1>4, <2>3, <2>4, <2>5, <2>6
<1>6. CASE ProbeDone \/ DisconnectDone
  <2>1. hub' = HubIdle /\ slot' = slot /\ drv' = [drv EXCEPT ![H] = Outside] /\ refused' = refused
    BY <1>6 DEF ProbeDone, DisconnectDone, AttachDone, DetachDone, Returned, registry
  <2>2. drv'[H] = Outside
    BY <1>0, <2>1
  <2>3. HubPlace' /\ (drv'[H].netdev # NoNetdev <=> drv'[H].at \in Carrying)
    BY <2>1, <2>2 DEF HubPlace, HubIdle, Outside, Carrying, OpenPlace, ClosePlace, At
  <2>4. hub.iface \in Iface
    BY <1>6 DEF ProbeDone, DisconnectDone, AttachDone, DetachDone, PInv, RInv, HubOK
  <2>5. adapter' \in [Iface -> AdapterType] /\ AdapterLives'
    <3>1. CASE ProbeDone
      <4>1. adapter' = adapter /\ (block' = block \/ block' = [block EXCEPT ![hub.iface].devstate = "Started"])
        BY <3>1 DEF ProbeDone, AttachDone
      <4>2. \A i \in Iface : block'[i].live = block[i].live
        BY <1>0, <2>4, <4>1 DEF Block
      <4> QED
        BY <1>0, <4>1, <4>2 DEF PInv, AdapterLives
    <3>2. CASE DisconnectDone
      <4>1. adapter' = [adapter EXCEPT ![hub.iface] = NoAdapter] /\ block' = [block EXCEPT ![hub.iface] = Free]
        BY <3>2 DEF DisconnectDone, DetachDone, Release
      <4> QED
        BY <1>0, <1>3, <2>4, <4>1 DEF PInv, AdapterLives, Free
    <3> QED
      BY <1>6, <3>1, <3>2
  <2> QED
    BY <1>4, <2>1, <2>3, <2>5, WlanTypes
<1>7. CASE Disconnect
  <2> DEFINE i == slot["WLAN"]
  <2>1. /\ i \in Iface /\ slot' = [slot EXCEPT !["WLAN"] = NoIface] /\ hub = HubIdle
        /\ refused' = refused
    BY <1>0, <1>7 DEF Disconnect, Detach, Vacant
  <2>2. drv[H].at = "out" /\ drv[H].netdev = NoNetdev
    BY <2>1, HubIsInside, WlanTypes DEF At, Carrying
  <2>3. \A s \in Serial \ {"WLAN"} : slot'[s] = slot[s]
    BY <1>0, <2>1
  <2>4. CASE NeedsClose("WLAN")
    <3>1. /\ adapter' = adapter /\ block' = block /\ drv' = [drv EXCEPT ![H].at = "halt"]
          /\ hub'.op = "detach" /\ hub'.serial = "WLAN"
      BY <1>7, <2>4 DEF Disconnect, Detach, Go
    <3>2. drv'[H].at = "halt" /\ drv'[H].netdev = NoNetdev
      BY <1>0, <2>2, <3>1 DEF DrvType
    <3>3. HubPlace' /\ (drv'[H].netdev # NoNetdev <=> drv'[H].at \in Carrying)
      BY <3>1, <3>2 DEF HubPlace, Carrying, OpenPlace, ClosePlace, At
    <3> QED
      BY <1>0, <1>4, <2>1, <2>3, <3>1, <3>3, WlanTypes DEF PInv, AdapterLives
  <2>5. CASE ~NeedsClose("WLAN")
    <3>1. /\ adapter' = [adapter EXCEPT ![i] = NoAdapter] /\ block' = [block EXCEPT ![i] = Free]
          /\ drv' = drv /\ hub' = HubIdle
      BY <1>7, <2>1, <2>5 DEF Disconnect, Detach, Release
    <3>2. HubPlace' /\ (drv'[H].netdev # NoNetdev <=> drv'[H].at \in Carrying)
      BY <2>2, <3>1 DEF HubPlace, HubIdle, Carrying, OpenPlace, ClosePlace, At
    <3>3. adapter' \in [Iface -> AdapterType] /\ AdapterLives'
      BY <1>0, <1>3, <2>1, <3>1 DEF PInv, AdapterLives, Free
    <3> QED
      BY <1>4, <2>1, <2>3, <3>2, <3>3, WlanTypes
  <2> QED
    BY <2>4, <2>5
<1> QED
  BY <1>5, <1>6, <1>7 DEF HubMoves

(* Every step keeps part one.                                              *)
LEMMA StepKinds ==
    ASSUME WlanNext
    PROVE  /\ Running
           /\ \/ \E t \in Thread : Callback(t)
              \/ \E c \in Caller : CallerStep(c)
              \/ HubMoves
BY DEF WlanNext, CallerStep, HubMoves

LEMMA NextPlaces == PInv /\ [WlanNext]_<<vars, wlanVars>> => PInv'
<1> SUFFICES ASSUME PInv, [WlanNext]_<<vars, wlanVars>>
             PROVE  PInv'
  OBVIOUS
<1>1. CASE UNCHANGED <<vars, wlanVars>>
  <2>1. RInv'
    BY <1>1, RegistryStays DEF PInv, vars, registry, history, BusStays, RInv, TypeOK
  <2> QED
    BY <1>1, <2>1 DEF PInv, vars, wlanVars, registry, WlanTypeOK, Vacant, CallerPlace, HubPlace, AdapterLives,
           Inside, At
<1>2. CASE WlanNext
  BY <1>2, StepKinds, InnerStep, InnerKeeps, CallerStepKeeps, HubStepKeeps
<1> QED
  BY <1>1, <1>2

-----------------------------------------------------------------------------
(* Parts two and three.  The card is the one interface that lives.          *)
LEMMA CardFacts ==
    ASSUME PInv
    PROVE  /\ Card \in Iface \cup {NoIface}
           /\ hub = HubIdle => Card = slot["WLAN"]
           /\ hub # HubIdle => Card = hub.iface /\ Card \in Iface
           /\ \A i \in Iface : block[i].live <=> i = Card
<1>1. hub = HubIdle => Card = slot["WLAN"]
  BY DEF Card
<1>2. hub # HubIdle => /\ Card = hub.iface /\ Card \in Iface
                       /\ hub.op \in {"attach", "detach"} /\ hub.serial = "WLAN"
  BY HubIsInside, WlanTypes DEF Card, HubState
<1>3. "WLAN" \in Serial /\ slot["WLAN"] \in Iface \cup {NoIface} /\ block \in [Iface -> Block]
      /\ RegistrySound /\ HubOK
  BY WlanTypes DEF PInv, RInv
<1>4. ASSUME NEW i \in Iface, block[i].live
      PROVE  i = Card
  <2>1. \/ slot["WLAN"] = i
        \/ hub.op = "detach" /\ hub.iface = i
    <3>1. block[i].serial # "WLAN" => slot[block[i].serial] # i
      BY <1>3, NoIfaceAssumption DEF PInv, Vacant, Block
    <3> QED
      BY <1>3, <1>4, <3>1 DEF RegistrySound
  <2>2. CASE hub = HubIdle
    BY <1>1, <2>1, <2>2 DEF HubIdle
  <2>3. CASE hub # HubIdle
    BY <1>2, <1>3, <2>1, <2>3, NoIfaceAssumption DEF HubOK, Vacant
  <2> QED
    BY <2>2, <2>3
<1>5. ASSUME Card \in Iface
      PROVE  block[Card].live
  <2>1. CASE hub.op = "detach"
    BY <1>2, <1>3, <2>1 DEF HubOK, HubIdle
  <2>2. CASE hub.op # "detach"
    <3>1. Card = slot["WLAN"]
      BY <1>1, <1>2, <1>3, <2>2 DEF HubOK
    <3> QED
      BY <1>3, <1>5, <3>1, NoIfaceAssumption DEF RegistrySound, Vacant
  <2> QED
    BY <2>1, <2>2
<1> QED
  BY <1>1, <1>2, <1>3, <1>4, <1>5

LEMMA InsideOnCard ==
    ASSUME PInv, Alone, NEW t \in Thread, Inside(t)
    PROVE  /\ AdapterOf(t) = Card /\ Card \in Iface
           /\ \A u \in Thread \ {t} : At(u, "out") /\ drv[u].netdev = NoNetdev
<1>1. AdapterOf(t) = Card
  <2>1. CASE t \in Caller
    BY <2>1, HubThreadAssumption DEF Alone, AdapterOf
  <2>2. CASE t = HubThread
    BY <2>2, HubIsInside DEF AdapterOf, Card, Inside
  <2> QED
    BY <2>1, <2>2 DEF Thread
<1>2. \A u \in Thread \ {t} : At(u, "out") /\ drv[u].netdev = NoNetdev
  BY WlanTypes DEF Alone, Inside, Carrying, At
<1> QED
  BY <1>1, <1>2, AdapterOfIs

(* What is to be known of the card while t is the only thread inside.       *)
NetsAt(t) ==
    \A n \in Netdev : net[n].state # "free" =>
        /\ net[n].owner = Card
        /\ adapter[Card].netdev = n \/ (At(t, "unregister") /\ drv[t].netdev = n)
        /\ Up(n) => adapter[Card].started /\ adapter[Card].stat
        /\ ~Up(n) => At(t, "register") /\ drv[t].netdev = n

Core(t) == PlaceOK(t) /\ NetsAt(t)

RefusedAt(t) ==
    Card \in refused =>
        /\ ~On /\ ~SomeUp /\ drv[t].at \in RefusedPlace
        /\ adapter[Card].netdev # NoNetdev \/ At(t, "unregister")

StaleAt(t) ==
    /\ adapter[Card].netdev # NoNetdev =>
          net[adapter[Card].netdev].state # "free" \/ Card \in refused
    /\ At(t, "unregister") => net[drv[t].netdev].state # "free" \/ Card \in refused

Marks(t) == RefusedAt(t) /\ StaleAt(t)

(* Away from register, a net device that is not up is free.                 *)
LEMMA UpOrFree ==
    ASSUME NEW t, NetsAt(t), ~At(t, "register"), NEW n \in Netdev
    PROVE  net[n].state = "free" \/ Up(n)
BY DEF NetsAt

LEMMA InnerCore ==
    ASSUME PInv, NEW t \in Thread, Callback(t), Moves(t), NoMemoryError,
           \A u \in Thread \ {t} : drv[u].netdev = NoNetdev,
           Core(t), Marks(t), AdapterOf(t) = Card, Card \in Iface
    PROVE  Core(t)' /\ ((NoMemoryError /\ Marks(t))' \/ (~NoMemoryError' /\ refused' # {}))
<1> DEFINE c == Card
<1>0. /\ adapter \in [Iface -> AdapterType] /\ net \in [Netdev -> NetType] /\ drv \in [Thread -> DrvType]
      /\ drv[t].netdev \in Netdev \cup {NoNetdev} /\ drv[t].netdev # NoNetdev <=> drv[t].at \in Carrying
      /\ adapter[c].netdev \in Netdev \cup {NoNetdev} /\ adapter[c].started \in BOOLEAN
      /\ fault \in [Serial -> SUBSET FaultKind] /\ "WLAN" \in Serial /\ NoNetdev \notin Netdev
  BY WlanTypes, NoNetdevAssumption DEF AdapterType
<1>1. Card' = Card /\ (On' <=> On)
  BY DEF Moves, BusStays, registry, Card, On
<1>2. c \in Iface /\ AdapterOf(t) = c
  OBVIOUS
<1> USE DEF At
<1>3. ASSUME NEW a, Go(t, a)
      PROVE  drv'[t].at = a /\ drv'[t].netdev = drv[t].netdev
  BY <1>0, <1>3 DEF DrvType, Go
<1>4. ASSUME NEW a, NEW n, Carry(t, a, n)
      PROVE  drv'[t].at = a /\ drv'[t].netdev = n
  BY <1>0, <1>4 DEF DrvType, Carry
<1>5. fault' = fault \/ Commit("WLAN", {}) => NoMemoryError'
  BY <1>0 DEF Commit, NoMemoryError
<1>6. (UNCHANGED net => (SomeUp' <=> SomeUp)) /\ \A n : Up(n)' <=> net'[n].state = "registered"
  BY DEF SomeUp, Up
<1> USE DEF Core, NetsAt, Marks, RefusedAt, StaleAt, RefusedPlace
<1>7. ASSUME NEW ok \in BOOLEAN, Initialize(t, ok)
      PROVE  Core(t)' /\ NoMemoryError' /\ Marks(t)'
  <2>1. /\ drv[t].at = "initialize" /\ UNCHANGED <<net, refused, fault>>
        /\ adapter'[c].netdev = adapter[c].netdev /\ adapter'[c].stat = adapter[c].stat
        /\ adapter'[c].started = (adapter[c].started \/ ok)
    BY <1>0, <1>2, <1>7 DEF Initialize, AdapterType
  <2>2. \/ drv'[t].at = "setup" /\ ok
        \/ drv'[t].at = "failed"
    BY <1>3, <1>7 DEF Initialize, AfterInitialize
  <2>3. ~On /\ ~SomeUp /\ \A n \in Netdev : net[n].state = "free"
    BY <2>1 DEF PlaceOK, OpenPlace, SomeUp, Up
  <2>4. PlaceOK(t)'
    BY <1>1, <1>6, <2>1, <2>2, <2>3 DEF PlaceOK, OpenPlace
  <2>5. NetsAt(t)' /\ Marks(t)'
    BY <1>1, <1>6, <2>1, <2>2, <2>3
  <2> QED
    BY <1>5, <2>1, <2>4, <2>5
<1>8. CASE SetupFails(t)
  <2>1. drv[t].at = "setup" /\ drv'[t].at = "failed" /\ UNCHANGED <<adapter, net, refused, fault>>
    BY <1>3, <1>8 DEF SetupFails
  <2>2. ~On /\ ~SomeUp /\ \A n \in Netdev : net[n].state = "free"
    BY <2>1 DEF PlaceOK, OpenPlace, SomeUp, Up
  <2>3. PlaceOK(t)'
    BY <1>1, <1>6, <2>1, <2>2 DEF PlaceOK, OpenPlace
  <2>4. NetsAt(t)' /\ Marks(t)'
    BY <1>1, <1>6, <2>1, <2>2
  <2> QED
    BY <1>5, <2>1, <2>3, <2>4
<1>9. ASSUME NEW n \in Netdev, Setup(t, n)
      PROVE  Core(t)' /\ NoMemoryError' /\ Marks(t)'
  <2>1. /\ drv[t].at = "setup" /\ drv'[t].at = "register" /\ drv'[t].netdev = n
        /\ UNCHANGED <<refused, fault>> /\ adapter[c].netdev = NoNetdev
        /\ net'[n].state = "allocated" /\ net'[n].owner = c
        /\ \A m \in Netdev \ {n} : net'[m] = net[m]
    BY <1>0, <1>2, <1>4, <1>9 DEF Setup, HasNetdev
  <2>2. adapter'[c].netdev = n /\ adapter'[c].stat /\ adapter'[c].started = adapter[c].started
    <3>1. adapter' = [adapter EXCEPT ![c].stat = TRUE, ![c].netdev = n]
      BY <1>2, <1>9 DEF Setup
    <3> QED
      BY <1>0, <1>2, <3>1 DEF AdapterType
  <2>3. /\ ~On /\ adapter[c].started /\ Card \notin refused
        /\ \A m \in Netdev : net[m].state = "free"
    BY <2>1 DEF PlaceOK, OpenPlace, SomeUp, Up
  <2>4. \A m \in Netdev \ {n} : net'[m].state = "free"
    BY <2>1, <2>3
  <2>5. ~SomeUp'
    BY <2>1, <2>4 DEF SomeUp, Up
  <2>6. PlaceOK(t)'
    BY <1>1, <2>1, <2>2, <2>3, <2>5 DEF PlaceOK, OpenPlace
  <2>7. NetsAt(t)' /\ Marks(t)'
    BY <1>1, <1>6, <2>1, <2>2, <2>3, <2>4
  <2> QED
    BY <1>5, <2>1, <2>6, <2>7
<1>10. ASSUME NEW ok \in BOOLEAN, Register(t, ok)
      PROVE  Core(t)' /\ NoMemoryError' /\ Marks(t)'
  <2> DEFINE n == drv[t].netdev
  <2>1. /\ drv[t].at = "register" /\ adapter' = adapter /\ n \in Netdev
        /\ drv'[t].at = IF ok THEN "ok" ELSE "failed"
    BY <1>0, <1>4, <1>10 DEF Register, AfterRegister, Carrying
  <2>2. /\ ~On /\ ~SomeUp /\ adapter[c].started /\ adapter[c].stat /\ adapter[c].netdev = n
        /\ net[n].state = "allocated" /\ net[n].owner = c /\ Card \notin refused
    BY <2>1 DEF PlaceOK, OpenPlace
  <2>3. \A m \in Netdev \ {n} : net[m].state = "free"
    BY <2>1, <2>2
  <2>4. ~HeldElsewhere(t, n)
    BY <1>0, <2>1 DEF HeldElsewhere
  <2>5. NoMemoryError'
    BY <1>5, <1>10, <2>2, <2>4 DEF Register
  <2>6. CASE ok
    <3>1. net' = [net EXCEPT ![n].state = "registered"] /\ refused' = refused
      BY <1>10, <2>6 DEF Register
    <3>2. net'[n].state = "registered" /\ net'[n].owner = c /\ \A m \in Netdev \ {n} : net'[m] = net[m]
      BY <1>0, <2>1, <2>2, <3>1 DEF NetType
    <3>3. SomeUp'
      BY <2>1, <3>2 DEF SomeUp, Up
    <3>4. PlaceOK(t)'
      BY <1>1, <2>1, <2>2, <2>6, <3>3 DEF PlaceOK, OpenPlace
    <3>5. NetsAt(t)' /\ Marks(t)'
      BY <1>1, <1>6, <2>1, <2>2, <2>3, <2>6, <3>1, <3>2
    <3> QED
      BY <2>5, <3>4, <3>5
  <2>7. CASE ~ok
    <3>1. net' = [net EXCEPT ![n] = NoNet] /\ refused' = refused \cup {c}
      BY <1>2, <1>10, <2>7 DEF Register
    <3>2. \A m \in Netdev : net'[m].state = "free"
      BY <1>0, <2>1, <2>3, <3>1 DEF NoNet
    <3>3. ~SomeUp'
      BY <3>2 DEF SomeUp, Up
    <3>4. PlaceOK(t)'
      BY <1>1, <2>1, <2>2, <2>7, <3>3 DEF PlaceOK, OpenPlace
    <3>5. NetsAt(t)' /\ Marks(t)'
      BY <1>0, <1>1, <1>6, <2>1, <2>2, <2>7, <3>1, <3>2, <3>3
    <3> QED
      BY <2>5, <3>4, <3>5
  <2> QED
    BY <2>6, <2>7
<1>11. CASE Halt(t)
  <2>1. drv[t].at = "halt" /\ drv'[t].at = "destroy" /\ UNCHANGED <<adapter, net, refused, fault>>
    BY <1>3, <1>11 DEF Halt
  <2>2. PlaceOK(t)'
    BY <1>1, <1>6, <2>1 DEF PlaceOK, OpenPlace
  <2>3. NetsAt(t)'
    BY <1>1, <2>1 DEF Up
  <2>4. RefusedAt(t)'
    BY <1>1, <1>6, <2>1
  <2>5. StaleAt(t)'
    BY <1>1, <2>1
  <2> QED
    BY <1>5, <2>1, <2>2, <2>3, <2>4, <2>5
<1>12. CASE Destroy(t)
  <2>1. /\ drv[t].at = "destroy" /\ UNCHANGED <<net, refused, fault>> /\ (On <=> SomeUp)
        /\ adapter'[c].netdev = NoNetdev /\ adapter'[c].started = adapter[c].started
        /\ adapter'[c].stat = adapter[c].stat
    BY <1>0, <1>2, <1>12 DEF Destroy, Kept, PlaceOK, AdapterType
  <2>2. CASE adapter[c].netdev # NoNetdev
    <3>1. drv'[t].at = "unregister" /\ drv'[t].netdev = adapter[c].netdev
      BY <1>2, <1>4, <1>12, <2>2 DEF Destroy, HasNetdev, Taken
    <3>2. PlaceOK(t)'
      BY <1>1, <1>6, <2>1, <3>1 DEF PlaceOK, OpenPlace
    <3>3. NetsAt(t)'
      BY <1>1, <2>1, <2>2, <3>1 DEF Up
    <3>4. RefusedAt(t)'
      BY <1>1, <1>6, <2>1, <2>2, <3>1
    <3>5. StaleAt(t)'
      BY <1>1, <2>1, <2>2, <3>1
    <3> QED
      BY <1>5, <2>1, <3>2, <3>3, <3>4, <3>5
  <2>3. CASE adapter[c].netdev = NoNetdev
    <3>1. drv'[t].at = "uninitialize"
      BY <1>2, <1>3, <1>12, <2>3 DEF Destroy, HasNetdev
    <3>2. \A n \in Netdev : net[n].state = "free"
      BY <1>0, <2>1, <2>3
    <3>3. ~SomeUp /\ ~On /\ Card \notin refused
      BY <2>1, <2>3, <3>2 DEF SomeUp, Up
    <3>4. PlaceOK(t)'
      BY <1>1, <1>6, <2>1, <3>1, <3>3 DEF PlaceOK, OpenPlace
    <3>5. NetsAt(t)' /\ Marks(t)'
      BY <1>1, <1>6, <2>1, <3>1, <3>2, <3>3
    <3> QED
      BY <1>5, <2>1, <3>4, <3>5
  <2> QED
    BY <2>2, <2>3
<1>13. CASE Unregister(t)
  <2> DEFINE n == drv[t].netdev
  <2>1. /\ drv[t].at = "unregister" /\ drv'[t].at = "uninitialize" /\ n \in Netdev
        /\ adapter'[c].netdev = adapter[c].netdev /\ refused' = refused
        /\ net' = [net EXCEPT ![n] = NoNet]
    BY <1>0, <1>2, <1>4, <1>13 DEF Unregister, Carrying, AdapterType
  <2>2. adapter[c].netdev = NoNetdev
    BY <2>1 DEF PlaceOK
  <2>3. \A m \in Netdev : net'[m].state = "free"
    <3>1. \A m \in Netdev : net[m].state # "free" => m = n
      BY <1>0, <2>1, <2>2
    <3>2. \A m \in Netdev : m # n => net'[m] = net[m]
      BY <1>0, <2>1
    <3>3. net'[n].state = "free"
      BY <1>0, <2>1 DEF NoNet
    <3> QED
      BY <3>1, <3>2, <3>3
  <2>4. ~SomeUp'
    BY <2>3 DEF SomeUp, Up
  <2>5. PlaceOK(t)'
    BY <1>1, <2>1, <2>2, <2>4 DEF PlaceOK, OpenPlace
  <2>6. NetsAt(t)'
    BY <2>3
  <2>7. CASE net[n].state = "free"
    <3>1. Commit("WLAN", {"freed"})
      BY <1>13, <2>7 DEF Unregister
    <3>2. ~NoMemoryError'
      BY <1>0, <3>1 DEF Commit, NoMemoryError, MemoryError
    <3> QED
      BY <2>1, <2>5, <2>6, <2>7, <3>2
  <2>8. CASE net[n].state # "free"
    <3>1. Up(n)
      BY <2>1, <2>8, UpOrFree
    <3>2. Card \notin refused
      BY <2>1, <3>1 DEF SomeUp
    <3>3. ~HeldElsewhere(t, n)
      BY <1>0, <2>1 DEF HeldElsewhere
    <3>4. NoMemoryError'
      BY <1>5, <1>13, <3>1, <3>3 DEF Unregister, Up
    <3>5. Marks(t)'
      BY <1>1, <2>1, <2>2, <3>2
    <3> QED
      BY <2>5, <2>6, <3>4, <3>5
  <2> QED
    BY <2>7, <2>8
<1>14. CASE UnInitialize(t)
  <2>1. /\ drv[t].at = "uninitialize" /\ drv'[t].at = "done" /\ UNCHANGED <<net, refused, fault>>
        /\ adapter'[c].netdev = adapter[c].netdev
    BY <1>0, <1>2, <1>3, <1>14 DEF UnInitialize, AdapterType
  <2>2. ~SomeUp /\ adapter[c].netdev = NoNetdev /\ Card \notin refused
        /\ \A n \in Netdev : net[n].state = "free"
    BY <2>1 DEF PlaceOK, SomeUp, Up
  <2>3. PlaceOK(t)'
    BY <1>1, <1>6, <2>1, <2>2 DEF PlaceOK, OpenPlace
  <2>4. NetsAt(t)' /\ Marks(t)'
    BY <1>1, <1>6, <2>1, <2>2
  <2> QED
    BY <1>5, <2>1, <2>3, <2>4
<1> QED
  BY <1>7, <1>8, <1>9, <1>10, <1>11, <1>12, <1>13, <1>14 DEF Callback

(* While t alone is inside, that is all there is to know.                  *)
AllOf == (\A t \in Thread : PlaceOK(t)) /\ NetsOK
AllMarks == RefusedOK /\ StaleOK
OnlyInside(t) == Card \in Iface /\ Inside(t) /\ \A u \in Thread \ {t} : At(u, "out")

LEMMA CoreIsAll ==
    PInv => \A t \in Thread : OnlyInside(t) => (Core(t) <=> AllOf) /\ (Marks(t) <=> AllMarks)
<1> SUFFICES ASSUME PInv, NEW t \in Thread, OnlyInside(t)
             PROVE  (Core(t) <=> AllOf) /\ (Marks(t) <=> AllMarks)
  OBVIOUS
<1>1. \A u \in Thread \ {t} : PlaceOK(u) /\ drv[u].at \in RefusedPlace
  BY DEF OnlyInside, PlaceOK, At, OpenPlace, RefusedPlace
<1>2. \A u \in Thread \ {t} : ~At(u, "unregister") /\ ~At(u, "register")
  BY DEF OnlyInside, At
<1>3. Card # NoIface
  BY NoIfaceAssumption DEF OnlyInside
<1>4. NetsAt(t) <=> NetsOK
  BY <1>2, <1>3 DEF NetsAt, NetsOK
<1>5. RefusedAt(t) <=> RefusedOK
  BY <1>1, <1>2 DEF RefusedAt, RefusedOK
<1>6. StaleAt(t) <=> StaleOK
  BY <1>2, <1>3 DEF StaleAt, StaleOK
<1> QED
  BY <1>1, <1>4, <1>5, <1>6 DEF Core, AllOf, Marks, AllMarks

LEMMA CoreIsAllNext ==
    (PInv => \A t \in Thread : OnlyInside(t) => (Core(t) <=> AllOf) /\ (Marks(t) <=> AllMarks))'
BY CoreIsAll, PTL

LEMMA InnerSingle ==
    ASSUME PInv, Single, NoMemoryError, AllMarks, NEW t \in Thread, Callback(t)
    PROVE  Single' /\ ((NoMemoryError /\ AllMarks)' \/ (~NoMemoryError' /\ refused' # {}))
<1>1. Moves(t) /\ PInv'
  BY InnerStep, InnerKeeps
<1>2. Inside(t) /\ Inside(t)'
  <2>1. drv[t].at # "out" /\ drv'[t].at # "out"
    BY <1>1 DEF Moves, SameSide, OpenPlace, ClosePlace
  <2> QED
    BY <2>1 DEF Inside, At
<1>3. /\ AdapterOf(t) = Card /\ Card \in Iface
      /\ \A u \in Thread \ {t} : At(u, "out") /\ drv[u].netdev = NoNetdev
  BY <1>2, InsideOnCard DEF Single
<1>4. Card' = Card /\ UNCHANGED call
  BY <1>1 DEF Moves, BusStays, registry, Card
<1>5. \A u \in Thread \ {t} : drv'[u] = drv[u] /\ At(u, "out")'
  BY <1>1, <1>3 DEF Moves, At
<1>6. OnlyInside(t) /\ OnlyInside(t)'
  BY <1>2, <1>3, <1>4, <1>5 DEF OnlyInside
<1>7. Core(t)' /\ ((NoMemoryError /\ Marks(t))' \/ (~NoMemoryError' /\ refused' # {}))
  <2>1. Core(t) /\ Marks(t)
    BY <1>6, CoreIsAll DEF Single, AllOf
  <2> QED
    BY <1>1, <1>3, <2>1, InnerCore
<1>8. AllOf' /\ ((NoMemoryError /\ AllMarks)' \/ (~NoMemoryError' /\ refused' # {}))
  BY <1>1, <1>6, <1>7, CoreIsAllNext
<1>9. Alone'
  <2>1. \A u, v \in Thread : Inside(u)' /\ Inside(v)' => u = v
    BY <1>5 DEF Inside
  <2>2. \A d \in Caller : d \in Thread /\ (Inside(d)' => d = t)
    BY <1>5 DEF Inside, Thread
  <2>3. t \in Caller => call[t].iface = Card
    BY <1>2 DEF Single, Alone
  <2> QED
    BY <1>4, <2>1, <2>2, <2>3 DEF Alone
<1>10. OneCard'
  <2>0. adapter \in [Iface -> AdapterType]
    BY WlanTypes
  <2>1. \A i \in Iface \ {Card} : adapter'[i] = adapter[i]
    <3>1. CASE adapter' = adapter
      BY <3>1
    <3>2. CASE \E ok \in BOOLEAN : Initialize(t, ok)
      BY <1>3, <2>0, <3>2 DEF Initialize
    <3>3. CASE \E n \in Netdev : Setup(t, n)
      <4>1. PICK n \in Netdev : adapter' = [adapter EXCEPT ![Card].stat = TRUE, ![Card].netdev = n]
        BY <1>3, <3>3 DEF Setup
      <4> QED
        BY <1>3, <2>0, <4>1
    <3>4. CASE Destroy(t) \/ Unregister(t) \/ UnInitialize(t)
      BY <1>3, <2>0, <3>4 DEF Destroy, Unregister, UnInitialize
    <3> QED
      BY <3>1, <3>2, <3>3, <3>4 DEF Callback, SetupFails, Register, Halt
  <2> QED
    BY <1>4, <2>1 DEF Single, OneCard
<1>11. AtRest'
  BY <1>2 DEF AtRest
<1> QED
  BY <1>8, <1>9, <1>10, <1>11 DEF Single, AllOf

(* While nobody is inside.                                                 *)
Calm == \A t \in Thread : At(t, "out")

NetsCalm ==
    \A n \in Netdev : net[n].state # "free" =>
        /\ Card # NoIface /\ net[n].owner = Card /\ adapter[Card].netdev = n /\ Up(n)
        /\ adapter[Card].started /\ adapter[Card].stat

MarksCalm ==
    Card # NoIface =>
        /\ Card \in refused => ~On /\ ~SomeUp /\ adapter[Card].netdev # NoNetdev
        /\ adapter[Card].netdev # NoNetdev =>
              net[adapter[Card].netdev].state # "free" \/ Card \in refused

CardCalm == NetsCalm /\ (Card # NoIface => (On <=> SomeUp))

LEMMA CalmFacts ==
    ASSUME Single, Calm
    PROVE  CardCalm /\ (AllMarks => MarksCalm)
<1>1. NetsCalm
  BY DEF Single, NetsOK, NetsCalm, Calm, At
<1>2. Card # NoIface => (On <=> SomeUp)
  BY DEF Single, AtRest, Calm, Inside
<1>3. AllMarks => MarksCalm
  BY DEF AllMarks, RefusedOK, StaleOK, MarksCalm, Calm, At
<1> QED
  BY <1>1, <1>2, <1>3 DEF CardCalm

LEMMA CalmSingle ==
    PInv /\ Calm /\ OneCard /\ CardCalm => Single /\ (MarksCalm => AllMarks)
<1> SUFFICES ASSUME PInv, Calm, OneCard, CardCalm
             PROVE  Single /\ (MarksCalm => AllMarks)
  OBVIOUS
<1>1. Alone
  BY DEF Alone, Calm, Inside, Thread
<1>2. \A t \in Thread : PlaceOK(t)
  BY DEF Calm, PlaceOK, At, OpenPlace
<1>3. NetsOK /\ AtRest
  BY DEF NetsOK, AtRest, CardCalm, NetsCalm
<1>4. ASSUME MarksCalm PROVE AllMarks
  <2>1. Card \in refused => Card # NoIface
    BY WlanTypes, NoIfaceAssumption
  <2>2. RefusedOK
    BY <1>4, <2>1 DEF MarksCalm, RefusedOK, Calm, At, RefusedPlace
  <2>3. StaleOK
    BY <1>4 DEF MarksCalm, StaleOK, Calm, At
  <2> QED
    BY <2>2, <2>3 DEF AllMarks
<1> QED
  BY <1>1, <1>2, <1>3, <1>4 DEF Single

LEMMA CalmSingleNext ==
    (PInv /\ Calm /\ OneCard /\ CardCalm => Single /\ (MarksCalm => AllMarks))'
BY CalmSingle, PTL

(* A thread comes in while nobody is inside.                               *)
LEMMA ComesIn ==
    ASSUME PInv, PInv', Single, AllMarks, Calm, NEW t \in Thread,
           Card \in Iface, Card' = Card, On' <=> On,
           UNCHANGED <<adapter, net, refused>>,
           \A u \in Thread \ {t} : drv'[u] = drv[u],
           t \in Caller => call'[t].iface = Card,
           \/ drv'[t].at = "initialize" /\ ~On
           \/ drv'[t].at = "halt"
    PROVE  Single' /\ AllMarks'
<1>0. CardCalm /\ MarksCalm /\ Card # NoIface
  BY CalmFacts, NoIfaceAssumption
<1>1. OnlyInside(t)'
  BY DEF OnlyInside, Calm, Inside, At
<1>2. SomeUp' <=> SomeUp
  BY DEF SomeUp, Up
<1>3. PlaceOK(t)'
  BY <1>0, <1>2 DEF PlaceOK, OpenPlace, CardCalm, At
<1>4. NetsAt(t)'
  BY <1>0 DEF NetsAt, CardCalm, NetsCalm, Up
<1>5. Marks(t)'
  <2>1. RefusedAt(t)'
    BY <1>0, <1>2 DEF RefusedAt, MarksCalm, RefusedPlace
  <2>2. StaleAt(t)'
    BY <1>0 DEF StaleAt, MarksCalm, At
  <2> QED
    BY <2>1, <2>2 DEF Marks
<1>6. AllOf' /\ AllMarks'
  BY <1>1, <1>3, <1>4, <1>5, CoreIsAllNext DEF Core
<1>7. Alone'
  BY <1>1 DEF Alone, OnlyInside, Inside, At, Thread
<1>8. OneCard' /\ AtRest'
  BY <1>1 DEF Single, OneCard, AtRest, OnlyInside
<1> QED
  BY <1>6, <1>7, <1>8 DEF Single, AllOf

(* The only thread inside goes out again, the card staying or going.        *)
LEMMA GoesOut ==
    ASSUME PInv, PInv', Single, AllMarks, NEW t \in Thread, OnlyInside(t),
           drv[t].at \in {"ok", "failed", "done"},
           drv'[t].at = "out", \A u \in Thread \ {t} : drv'[u] = drv[u],
           UNCHANGED <<net, refused>>,
           \/ Card' = Card /\ adapter' = adapter /\ (On' <=> SomeUp)
           \/ Card' = NoIface /\ adapter' = [adapter EXCEPT ![Card] = NoAdapter] /\ ~SomeUp
    PROVE  Single' /\ AllMarks'
<1>0. Core(t) /\ Marks(t) /\ Card \in Iface /\ Card # NoIface
  BY CoreIsAll, NoIfaceAssumption DEF Single, AllOf, OnlyInside
<1>1. Calm' /\ (SomeUp' <=> SomeUp)
  BY DEF Calm, OnlyInside, At, SomeUp, Up
<1>2. /\ drv[t].at \in {"ok", "done"} => Card \notin refused
      /\ drv[t].at \in {"failed", "done"} => ~SomeUp
  BY <1>0 DEF Marks, RefusedAt, RefusedPlace, Core, PlaceOK
<1>3. \A n \in Netdev : net[n].state # "free" =>
          /\ net[n].owner = Card /\ adapter[Card].netdev = n /\ Up(n)
          /\ adapter[Card].started /\ adapter[Card].stat
  BY <1>0 DEF Core, NetsAt, At
<1>4. CASE Card' = Card /\ adapter' = adapter /\ (On' <=> SomeUp)
  <2>1. OneCard'
    BY <1>4 DEF Single, OneCard
  <2>2. CardCalm'
    BY <1>0, <1>1, <1>3, <1>4 DEF CardCalm, NetsCalm, Up
  <2>3. MarksCalm'
    BY <1>0, <1>1, <1>2, <1>4 DEF MarksCalm, Marks, RefusedAt, StaleAt, At
  <2> QED
    BY <1>1, <2>1, <2>2, <2>3, CalmSingleNext
<1>5. CASE Card' = NoIface /\ adapter' = [adapter EXCEPT ![Card] = NoAdapter] /\ ~SomeUp
  <2>1. OneCard'
    BY <1>0, <1>5, WlanTypes DEF Single, OneCard
  <2>2. CardCalm' /\ MarksCalm'
    BY <1>3, <1>5 DEF CardCalm, NetsCalm, MarksCalm, SomeUp
  <2> QED
    BY <1>1, <2>1, <2>2, CalmSingleNext
<1> QED
  BY <1>4, <1>5

LEMMA BusFaults ==
    ASSUME PInv, NoMemoryError, NEW i
    PROVE  /\ Commit("WLAN", {}) => NoMemoryError'
           /\ Commit("WLAN", ReopenFault("WLAN", i)) => NoMemoryError'
           /\ UNCHANGED fault => NoMemoryError'
<1>1. fault \in [Serial -> SUBSET FaultKind] /\ "WLAN" \in Serial
  BY WlanTypes
<1>2. ASSUME NEW k, k \subseteq {"reopen"}, Commit("WLAN", k)
      PROVE  NoMemoryError'
  <2>1. fault'["WLAN"] = fault["WLAN"] \cup k
    BY <1>1, <1>2 DEF Commit
  <2> QED
    BY <1>2, <2>1 DEF NoMemoryError, MemoryError
<1>3. ReopenFault("WLAN", i) \subseteq {"reopen"} /\ {} \subseteq {"reopen"}
  BY DEF ReopenFault
<1> QED
  BY <1>2, <1>3 DEF NoMemoryError

(* No block is freed under a callback while every caller is outside.        *)
LEMMA QuietRelease ==
    ASSUME PInv, NoMemoryError, \A c \in Caller : At(c, "out"), NEW i, Release("WLAN", i)
    PROVE  NoMemoryError'
<1>1. \A c \in Caller : ~BusyCaller(c, "WLAN")
  BY DEF PInv, CallerPlace, BusyCaller, InCallback, Idle
<1>2. FreeFault("WLAN", i) = {}
  BY <1>1 DEF FreeFault
<1> QED
  BY <1>2, BusFaults DEF Release

LEMMA CallerSingle ==
    ASSUME PInv, Single, NoMemoryError, AllMarks, Running, NEW c \in Caller, CallerStep(c), ~met'
    PROVE  Single' /\ AllMarks' /\ NoMemoryError'
<1>0. /\ c \in Thread /\ c # HubThread /\ HubThread \in Thread
      /\ drv \in [Thread -> DrvType] /\ call \in [Caller -> CallState]
      /\ block \in [Iface -> Block] /\ "WLAN" \in Serial
      /\ slot["WLAN"] \in Iface \cup {NoIface}
  BY CallerIsInside, WlanTypes
<1>1. PInv' /\ UNCHANGED <<slot, hub, adapter, net, refused>>
  BY CallerStepKeeps
<1>2. Card' = Card /\ (SomeUp' <=> SomeUp)
  BY <1>1 DEF Card, SomeUp, Up
<1>3. CASE WlanPlugIn(c) \/ WlanUnPlug(c)
  <2>1. Calm
    <3>1. At(c, "out")
      BY <1>3, CallerIsInside DEF WlanPlugIn, WlanUnPlug, PlugIn, UnPlug, Idle
    <3>2. \A u \in Thread \ {c} : At(u, "out")
      BY <1>3 DEF WlanPlugIn, WlanUnPlug, Called, Meets, Inside
    <3> QED
      BY <3>1, <3>2 DEF Calm
  <2>2. hub = HubIdle /\ Card = slot["WLAN"]
    BY <1>0, <2>1, CardFacts, HubIsInside DEF Calm
  <2>3. Card \in Iface
    BY <1>0, <1>3, <2>2 DEF WlanPlugIn, WlanUnPlug, PlugIn, UnPlug, BeginClose, MayOpen, Vacant
  <2>4. /\ block' = block /\ call'[c].iface = Card /\ \A u \in Thread \ {c} : drv'[u] = drv[u]
    BY <1>0, <1>3, <2>2 DEF WlanPlugIn, WlanUnPlug, PlugIn, UnPlug, BeginClose, Called, Go
  <2>5. \/ drv'[c].at = "initialize" /\ ~On
        \/ drv'[c].at = "halt"
    <3>1. CASE WlanPlugIn(c)
      BY <1>0, <2>2, <3>1 DEF WlanPlugIn, PlugIn, Called, Go, DrvType, MayOpen, StartedFn, On
    <3>2. CASE WlanUnPlug(c)
      BY <1>0, <3>2 DEF WlanUnPlug, Called, Go, DrvType
    <3> QED
      BY <1>3, <3>1, <3>2
  <2>6. On' <=> On
    BY <1>2, <2>4 DEF On
  <2>7. Single' /\ AllMarks'
    BY <1>0, <1>1, <1>2, <2>1, <2>3, <2>4, <2>5, <2>6, ComesIn
  <2>8. NoMemoryError'
    <3>1. CASE WlanPlugIn(c)
      BY <3>1, BusFaults DEF WlanPlugIn, PlugIn
    <3>2. CASE WlanUnPlug(c)
      BY <3>2, BusFaults DEF WlanUnPlug, UnPlug, BeginClose
    <3> QED
      BY <1>3, <3>1, <3>2
  <2> QED
    BY <2>7, <2>8
<1>4. CASE WlanPlugInDone(c) \/ WlanUnPlugDone(c)
  <2>1. /\ drv[c].at \in {"ok", "failed", "done"} /\ drv' = [drv EXCEPT ![c] = Outside]
        /\ Inside(c)
    BY <1>4 DEF WlanPlugInDone, WlanUnPlugDone, Returned, At, Inside
  <2>2. drv'[c].at = "out" /\ \A u \in Thread \ {c} : drv'[u] = drv[u]
    BY <1>0, <2>1 DEF Outside
  <2>3. Card \in Iface /\ \A u \in Thread \ {c} : At(u, "out")
    BY <1>0, <2>1, InsideOnCard DEF Single
  <2>4. OnlyInside(c) /\ PlaceOK(c)
    BY <1>0, <2>1, <2>3 DEF OnlyInside, Single
  <2>5. hub = HubIdle /\ Card = slot["WLAN"] /\ call[c].serial = "WLAN"
    BY <1>0, <2>1, <2>3, CardFacts, HubIsInside DEF PInv, CallerPlace
  <2>6. ~Vacant("WLAN")
    BY <2>3, <2>5, NoIfaceAssumption DEF Vacant
  <2>7. (On' <=> SomeUp) /\ NoMemoryError'
    <3>1. CASE WlanPlugInDone(c) /\ At(c, "ok")
      <4>1. block' = [block EXCEPT ![Card].devstate = "Started"] /\ Commit("WLAN", {})
        BY <2>5, <2>6, <3>1 DEF WlanPlugInDone, PlugInDone
      <4>2. On' /\ SomeUp
        BY <1>0, <1>2, <2>3, <2>4, <3>1, <4>1 DEF On, PlaceOK, At, Block
      <4> QED
        BY <4>1, <4>2, BusFaults
    <3>2. CASE WlanPlugInDone(c) /\ ~At(c, "ok")
      <4>1. drv[c].at = "failed" /\ block' = block /\ Commit("WLAN", {})
        BY <2>5, <3>2 DEF WlanPlugInDone, PlugInDone, At
      <4>2. ~On' /\ ~SomeUp
        BY <1>2, <2>4, <4>1 DEF On, PlaceOK, OpenPlace
      <4> QED
        BY <4>1, <4>2, BusFaults
    <3>3. CASE WlanUnPlugDone(c)
      <4>1. block' = [block EXCEPT ![Card].devstate = "Stopped"] /\ UNCHANGED fault /\ drv[c].at = "done"
        BY <2>5, <2>6, <3>3 DEF WlanUnPlugDone, UnPlugDone, At
      <4>2. ~On' /\ ~SomeUp
        BY <1>0, <1>2, <2>3, <2>4, <4>1 DEF On, PlaceOK, Block
      <4> QED
        BY <4>1, <4>2, BusFaults
    <3> QED
      BY <1>4, <3>1, <3>2, <3>3
  <2>8. Single' /\ AllMarks'
    BY <1>0, <1>1, <1>2, <2>1, <2>2, <2>4, <2>7, GoesOut
  <2> QED
    BY <2>7, <2>8
<1> QED
  BY <1>3, <1>4 DEF CallerStep

LEMMA ProbeSingle ==
    ASSUME PInv, PInv', Single, NoMemoryError, NEW i \in Iface, Probe(i)
    PROVE  Single' /\ AllMarks' /\ NoMemoryError'
<1> DEFINE H == HubThread
<1>0. /\ H \in Thread /\ drv \in [Thread -> DrvType] /\ slot \in [Serial -> Iface \cup {NoIface}]
      /\ "WLAN" \in Serial /\ block \in [Iface -> Block] /\ adapter \in [Iface -> AdapterType]
      /\ \A u \in Thread \ {H} : drv'[u] = drv[u]
      /\ net' = net
  BY HubFrame, WlanTypes DEF HubMoves
<1>1. At(H, "out") /\ hub = HubIdle /\ Vacant("WLAN")
  BY HubIsInside DEF Probe, Attach, TakeSlot
<1>2. Card = NoIface
  BY <1>1, CardFacts DEF Vacant
<1>3. Calm
  <2>1. \A c \in Caller : c \in Thread
    BY DEF Thread
  <2>2. \A c \in Caller : At(c, "out")
    BY <1>2, <2>1, InsideOnCard, NoIfaceAssumption DEF Single, Inside
  <2> QED
    BY <1>1, <2>2 DEF Calm, Thread
<1>4. \A n \in Netdev : net'[n].state = "free"
  BY <1>0, <1>2, <1>3, CalmFacts DEF CardCalm, NetsCalm
<1>5. /\ adapter' = [adapter EXCEPT ![i] = NewAdapter] /\ slot' = [slot EXCEPT !["WLAN"] = i]
      /\ i \notin refused'
  BY DEF Probe, Attach
<1>6. block'[i].devstate = "NotStarted"
  BY <1>0 DEF Probe, Attach
<1>7. adapter'[i].netdev = NoNetdev
  BY <1>0, <1>5 DEF NewAdapter, NoAdapter
<1>8. Card' = i
  <2>1. CASE Reopens("WLAN")
    BY <2>1 DEF Probe, Attach, Card, HubIdle
  <2>2. CASE ~Reopens("WLAN")
    BY <1>0, <1>1, <1>5, <2>2 DEF Probe, Attach, Card
  <2> QED
    BY <2>1, <2>2
<1>9. OneCard'
  BY <1>0, <1>2, <1>5, <1>8, NoIfaceAssumption DEF Single, OneCard
<1>10. ~On' /\ ~SomeUp'
  BY <1>4, <1>6, <1>8 DEF On, SomeUp, Up
<1>11. Single' /\ AllMarks'
  <2>1. CASE Reopens("WLAN")
    <3>1. drv'[H].at = "initialize"
      BY <1>0, <2>1 DEF Probe, Called, Go, DrvType
    <3>2. OnlyInside(H)'
      BY <1>0, <1>3, <1>8, <3>1 DEF OnlyInside, Calm, Inside, At
    <3>3. PlaceOK(H)'
      BY <1>10, <3>1 DEF PlaceOK, OpenPlace, At
    <3>4. NetsAt(H)' /\ Marks(H)'
      BY <1>4, <1>5, <1>7, <1>8, <3>1 DEF NetsAt, Marks, RefusedAt, StaleAt, At
    <3>5. AllOf' /\ AllMarks'
      BY <1>0, <3>2, <3>3, <3>4, CoreIsAllNext DEF Core
    <3>6. Alone' /\ AtRest'
      BY <1>0, <3>2, HubThreadAssumption DEF Alone, AtRest, OnlyInside, Inside, At, Thread
    <3> QED
      BY <1>9, <3>5, <3>6 DEF Single, AllOf
  <2>2. CASE ~Reopens("WLAN")
    <3>1. Calm'
      BY <1>3, <2>2 DEF Probe, Calm, At
    <3>2. CardCalm' /\ MarksCalm'
      BY <1>4, <1>5, <1>7, <1>8, <1>10 DEF CardCalm, NetsCalm, MarksCalm
    <3> QED
      BY <1>9, <3>1, <3>2, CalmSingleNext
  <2> QED
    BY <2>1, <2>2
<1>12. NoMemoryError'
  <2>1. Commit("WLAN", ReopenFault("WLAN", i)) \/ UNCHANGED fault
    BY DEF Probe, Attach
  <2> QED
    BY <2>1, BusFaults
<1> QED
  BY <1>11, <1>12

LEMMA HubSingle ==
    ASSUME PInv, PInv', Single, NoMemoryError, AllMarks, HubMoves, ~met'
    PROVE  Single' /\ AllMarks' /\ NoMemoryError'
<1> DEFINE H == HubThread
<1>0. /\ H \in Thread /\ drv \in [Thread -> DrvType] /\ slot \in [Serial -> Iface \cup {NoIface}]
      /\ "WLAN" \in Serial /\ block \in [Iface -> Block] /\ adapter \in [Iface -> AdapterType]
      /\ \A u \in Thread \ {H} : drv'[u] = drv[u]
      /\ net' = net /\ H \notin Caller
  BY HubFrame, HubThreadAssumption, WlanTypes
<1>1. CASE \E i \in Iface : Probe(i)
  BY <1>1, ProbeSingle
<1>2. ASSUME Inside(H)
      PROVE  /\ OnlyInside(H) /\ PlaceOK(H) /\ \A c \in Caller : At(c, "out")
             /\ Card \in Iface
  BY <1>0, <1>2, InsideOnCard DEF OnlyInside, Single, Thread
<1>3. CASE ProbeDone
  <2>1. /\ drv[H].at \in {"ok", "failed"} /\ Inside(H) /\ drv'[H].at = "out"
        /\ UNCHANGED <<adapter, refused, slot, fault>> /\ hub.op = "attach" /\ hub' = HubIdle
    BY <1>0, <1>3 DEF ProbeDone, AttachDone, Returned, Outside, Inside, At, registry, history
  <2>2. Card = hub.iface /\ slot["WLAN"] = Card
    BY <2>1, CardFacts, HubIsInside DEF PInv, RInv, HubOK, HubIdle
  <2>3. Card' = Card
    BY <2>1, <2>2 DEF Card
  <2>4. On' <=> SomeUp
    <3>1. CASE At(H, "ok")
      <4>1. block' = [block EXCEPT ![Card].devstate = "Started"]
        BY <1>3, <2>2, <3>1 DEF ProbeDone, AttachDone
      <4> QED
        BY <1>0, <1>2, <2>1, <2>3, <3>1, <4>1 DEF On, PlaceOK, Block
    <3>2. CASE ~At(H, "ok")
      <4>1. block' = block /\ drv[H].at = "failed"
        BY <1>3, <2>1, <3>2 DEF ProbeDone, AttachDone, At
      <4> QED
        BY <1>2, <2>1, <2>3, <4>1 DEF On, PlaceOK, OpenPlace
    <3> QED
      BY <3>1, <3>2
  <2>5. Single' /\ AllMarks'
    BY <1>0, <1>2, <2>1, <2>3, <2>4, GoesOut
  <2> QED
    BY <2>1, <2>5, BusFaults
<1>4. CASE Disconnect
  <2>1. Calm /\ hub = HubIdle /\ ~Vacant("WLAN") /\ refused' = refused
    BY <1>4, HubIsInside DEF Disconnect, Detach, Meets, Calm, Inside
  <2>2. Card = slot["WLAN"] /\ Card \in Iface /\ Card # NoIface
    BY <1>0, <2>1, NoIfaceAssumption DEF Card, Vacant
  <2>3. CASE NeedsClose("WLAN")
    <3>1. /\ UNCHANGED <<block, fault, adapter>> /\ drv'[H].at = "halt"
          /\ hub'.op = "detach" /\ hub'.iface = slot["WLAN"]
      BY <1>0, <1>4, <2>3 DEF Disconnect, Detach, Go, DrvType
    <3>2. Card' = Card /\ (On' <=> On)
      BY <2>2, <3>1 DEF Card, HubIdle, On
    <3>3. Single' /\ AllMarks'
      BY <1>0, <2>1, <2>2, <3>1, <3>2, ComesIn
    <3> QED
      BY <3>1, <3>3, BusFaults
  <2>4. CASE ~NeedsClose("WLAN")
    <3>1. /\ adapter' = [adapter EXCEPT ![Card] = NoAdapter] /\ drv' = drv /\ hub' = HubIdle
          /\ slot' = [slot EXCEPT !["WLAN"] = NoIface] /\ Release("WLAN", slot["WLAN"])
      BY <1>4, <2>1, <2>2, <2>4 DEF Disconnect, Detach
    <3>2. Card' = NoIface
      BY <1>0, <3>1 DEF Card
    <3>3. ~SomeUp /\ \A n \in Netdev : net[n].state = "free"
      <4>1. ~On
        BY <2>1, <2>2, <2>4 DEF NeedsClose, StartedFn, On
      <4> QED
        BY <2>1, <2>2, <4>1, CalmFacts DEF CardCalm, NetsCalm, SomeUp
    <3>4. Calm' /\ OneCard'
      BY <1>0, <2>1, <2>2, <3>1, <3>2 DEF Calm, At, Single, OneCard
    <3>5. CardCalm' /\ MarksCalm'
      BY <1>0, <3>2, <3>3 DEF CardCalm, NetsCalm, MarksCalm
    <3>6. NoMemoryError'
      <4>1. \A c \in Caller : At(c, "out")
        BY <2>1 DEF Calm, Thread
      <4> QED
        BY <3>1, <4>1, QuietRelease
    <3> QED
      BY <3>4, <3>5, <3>6, CalmSingleNext
  <2> QED
    BY <2>3, <2>4
<1>5. CASE DisconnectDone
  <2>1. /\ drv[H].at = "done" /\ Inside(H) /\ drv'[H].at = "out" /\ hub.op = "detach" /\ hub' = HubIdle
        /\ UNCHANGED <<refused, slot>> /\ Release(hub.serial, hub.iface)
        /\ adapter' = [adapter EXCEPT ![hub.iface] = NoAdapter]
    BY <1>0, <1>5 DEF DisconnectDone, DetachDone, Returned, Outside, Inside, At, registry
  <2>2. Card = hub.iface /\ slot["WLAN"] = NoIface /\ hub.serial = "WLAN"
    BY <2>1, CardFacts, HubIsInside DEF PInv, RInv, HubOK, HubIdle, Vacant
  <2>3. Card' = NoIface /\ ~SomeUp
    BY <1>2, <2>1, <2>2 DEF Card, PlaceOK
  <2>4. Single' /\ AllMarks'
    BY <1>0, <1>2, <2>1, <2>2, <2>3, GoesOut
  <2> QED
    BY <1>2, <2>1, <2>2, <2>4, QuietRelease
<1> QED
  BY <1>1, <1>3, <1>4, <1>5 DEF HubMoves

(* A step that leaves no overlap behind starts from the one card, in the    *)
(* state parts two and three describe.                                     *)
LEMMA StartsSingle ==
    ASSUME PInv, CInv, WlanNext, ~met'
    PROVE  Single /\ NoMemoryError /\ AllMarks
<1>0. met \in BOOLEAN /\ Running /\ "WLAN" \in Serial
  BY WlanTypes DEF WlanNext
<1>1. ~met
  <2>1. CASE \E t \in Thread : Callback(t)
    BY <2>1, InnerStep DEF Moves
  <2>2. CASE \E c \in Caller : CallerStep(c)
    BY <1>0, <2>2 DEF CallerStep, WlanPlugIn, WlanPlugInDone, WlanUnPlug, WlanUnPlugDone, Called,
           Returned, Meets
  <2>3. CASE HubMoves
    BY <1>0, <2>3 DEF HubMoves, Probe, ProbeDone, Disconnect, DisconnectDone, Called, Returned, Meets
  <2> QED
    BY <2>1, <2>2, <2>3, StepKinds
<1> QED
  BY <1>0, <1>1 DEF CInv, AllMarks, NoMemoryError, Running

LEMMA NextCard == PInv /\ CInv /\ [WlanNext]_<<vars, wlanVars>> => CInv'
<1> SUFFICES ASSUME PInv, CInv, [WlanNext]_<<vars, wlanVars>>, ~met'
             PROVE  Single' /\ ((NoMemoryError /\ AllMarks)' \/ (~NoMemoryError' /\ refused' # {}))
  BY DEF CInv, AllMarks
<1>0. PInv'
  BY NextPlaces
<1>1. CASE UNCHANGED <<vars, wlanVars>>
  <2>1. UNCHANGED <<slot, block, call, hub, fault, adapter, net, drv, met, refused>>
    BY <1>1 DEF vars, wlanVars, registry, history
  <2>2. Card' = Card /\ (On' <=> On) /\ (SomeUp' <=> SomeUp) /\ (NoMemoryError' <=> NoMemoryError)
    BY <2>1 DEF Card, On, SomeUp, Up, NoMemoryError
  <2>3. Single' <=> Single
    BY <2>1, <2>2 DEF Single, Alone, OneCard, NetsOK, AtRest, PlaceOK, Inside, At, Up
  <2>4. AllMarks' <=> AllMarks
    BY <2>1, <2>2 DEF AllMarks, RefusedOK, StaleOK, At
  <2> QED
    BY <2>1, <2>2, <2>3, <2>4 DEF CInv, AllMarks
<1>2. CASE WlanNext
  <2>1. Single /\ NoMemoryError /\ AllMarks
    BY <1>2, StartsSingle
  <2>2. CASE \E t \in Thread : Callback(t)
    BY <2>1, <2>2, InnerSingle
  <2>3. ASSUME NEW c \in Caller, CallerStep(c), Running
        PROVE  Single' /\ (NoMemoryError /\ AllMarks)'
    BY <2>1, <2>3, CallerSingle
  <2>4. CASE HubMoves
    BY <1>0, <2>1, <2>4, HubSingle
  <2> QED
    BY <1>2, <2>2, <2>3, <2>4, StepKinds
<1> QED
  BY <1>1, <1>2

-----------------------------------------------------------------------------
LEMMA WlanInitInv == WlanInit => WlanInv
<1> SUFFICES ASSUME WlanInit
             PROVE  WlanInv
  OBVIOUS
<1>1. /\ Init /\ adapter = [i \in Iface |-> NoAdapter] /\ net = [n \in Netdev |-> NoNet]
      /\ drv = [t \in Thread |-> Outside] /\ met = FALSE /\ refused = {}
  BY DEF WlanInit
<1>2. RInv
  BY <1>1, InitRegistry
<1>3. /\ \A t \in Thread : drv[t].at = "out" /\ drv[t].netdev = NoNetdev
      /\ \A i \in Iface : adapter[i] = NoAdapter
      /\ \A n \in Netdev : net[n].state = "free"
      /\ HubThread \in Thread /\ Caller \subseteq Thread
  BY <1>1 DEF Outside, NoNet, Thread
<1>4. WlanTypeOK
  BY <1>1, <1>3 DEF WlanTypeOK, NoAdapter, NoNet, Outside, Place
<1>5. /\ hub = HubIdle /\ \A s \in Serial : Vacant(s)
      /\ \A c \in Caller : call[c] = Idle
      /\ \A i \in Iface : ~block[i].live
      /\ fault["WLAN"] = {}
  BY <1>1 DEF Init, Vacant, Free, Serial
<1>6. PInv
  <2>1. \A c \in Caller : CallerPlace(c)
    BY <1>3, <1>5 DEF CallerPlace, At, Inside, OpenPlace, ClosePlace
  <2>2. HubPlace
    BY <1>3, <1>5 DEF HubPlace, OpenPlace, ClosePlace, At
  <2>3. AdapterLives
    BY <1>3, <1>5 DEF AdapterLives, NoAdapter
  <2> QED
    BY <1>2, <1>4, <1>5, <2>1, <2>2, <2>3 DEF PInv
<1>7. CInv
  <2>1. Card = NoIface
    BY <1>5, <1>6, CardFacts, WlanTypes DEF Vacant
  <2>2. Calm /\ CardCalm /\ MarksCalm /\ OneCard
    BY <1>3, <2>1 DEF Calm, At, CardCalm, NetsCalm, MarksCalm, OneCard
  <2> QED
    BY <1>1, <1>5, <1>6, <2>1, <2>2, CalmSingle DEF CInv, AllMarks, NoMemoryError
<1> QED
  BY <1>6, <1>7 DEF WlanInv

LEMMA WlanInvariant == WlanSpec => []WlanInv
<1>1. WlanInv /\ [WlanNext]_<<vars, wlanVars>> => WlanInv'
  BY NextPlaces, NextCard DEF WlanInv
<1> QED
  BY WlanInitInv, <1>1, PTL DEF WlanSpec

(***************************************************************************)
(* NetdevUsable of WlanDriver: as long as no two calls have overlapped,    *)
(* whatever fails, a net device the network stack knows leads to a live,   *)
(* initialised adapter that has its statistics.                            *)
(***************************************************************************)
THEOREM NetdevIsUsable == WlanSpec => []NetdevUsable
<1>1. WlanInv => NetdevUsable
  <2> SUFFICES ASSUME WlanInv, ~met, NEW n \in Netdev, Up(n)
               PROVE  Usable(net[n].owner)
    BY DEF NetdevUsable, Up
  <2>1. PInv /\ Single
    BY DEF WlanInv, CInv
  <2>2. /\ Card \in Iface /\ net[n].owner = Card
        /\ adapter[Card].started /\ adapter[Card].stat
    BY <2>1, CardFacts DEF Single, NetsOK, Up
  <2>3. adapter[Card].live
    BY <2>1, <2>2, CardFacts DEF PInv, AdapterLives
  <2> QED
    BY <2>2, <2>3 DEF Usable
<1> QED
  BY <1>1, WlanInvariant, PTL

(***************************************************************************)
(* WlanTracksBus of WlanDriver: at rest, and if no two calls overlapped,   *)
(* the bus reports Started exactly for a card whose net device exists.     *)
(***************************************************************************)
THEOREM NetdevFollowsBus == WlanSpec => []WlanTracksBus
<1>1. WlanInv => WlanTracksBus
  <2> SUFFICES ASSUME WlanInv, ~met, \A t \in Thread : ~Inside(t),
                      NEW i \in Iface, block[i].live
               PROVE  block[i].devstate = "Started"
                          <=> \E n \in Netdev : net[n].state = "registered" /\ net[n].owner = i
    BY DEF WlanTracksBus
  <2>1. PInv /\ Single
    BY DEF WlanInv, CInv
  <2>2. i = Card /\ Card # NoIface
    BY <2>1, CardFacts, NoIfaceAssumption
  <2>3. On <=> SomeUp
    BY <2>1, <2>2 DEF Single, AtRest
  <2>4. \A n \in Netdev : net[n].state = "registered" => net[n].owner = Card
    BY <2>1 DEF Single, NetsOK
  <2> QED
    BY <2>2, <2>3, <2>4 DEF On, SomeUp, Up
<1> QED
  BY <1>1, WlanInvariant, PTL

(***************************************************************************)
(* WlanErrorsNeedCause of WlanDriver: plugging and pulling one after the   *)
(* other, with any outcome but a failed register_netdev, never touches     *)
(* freed memory or NULL.                                                   *)
(***************************************************************************)
THEOREM ErrorsHaveCause == WlanSpec => []WlanErrorsNeedCause
<1>1. WlanInv => WlanErrorsNeedCause
  BY DEF WlanInv, CInv, WlanErrorsNeedCause, NoMemoryError
<1> QED
  BY <1>1, WlanInvariant, PTL

(***************************************************************************)
(* RefusedStaysOff of WlanDriver: without overlap, no step brings up an    *)
(* adapter that register_netdev failed for while its card stays in.        *)
(***************************************************************************)
THEOREM RefusedNeverStarts == WlanSpec => RefusedStaysOff
<1> DEFINE A == ~met' => \A i \in refused \cap refused' :
                   block[i].devstate # "Started" => block'[i].devstate # "Started"
<1>1. ASSUME WlanInv, WlanNext
      PROVE  A
  <2> SUFFICES ASSUME ~met', NEW i \in refused, block[i].devstate # "Started"
               PROVE  block'[i].devstate # "Started"
    OBVIOUS
  <2>0. i \in Iface /\ block \in [Iface -> Block] /\ PInv /\ CInv
    BY <1>1, WlanTypes DEF WlanInv
  <2>1. Single /\ AllMarks
    BY <1>1, <2>0, StartsSingle
  <2>2. ASSUME NEW t \in Thread, At(t, "ok")
        PROVE  Card # i
    BY <2>1, <2>2 DEF AllMarks, RefusedOK, RefusedPlace, At
  <2>3. CASE \E t \in Thread : Callback(t)
    BY <2>0, <2>3, InnerStep DEF Moves, BusStays
  <2>4. ASSUME NEW c \in Caller, CallerStep(c)
        PROVE  block'[i].devstate # "Started"
    <3>1. \/ c \in Thread /\ ~Vacant("WLAN") /\ hub = HubIdle
          \/ block' = block
      <4>1. CASE WlanPlugIn(c) \/ WlanUnPlug(c)
        BY <4>1 DEF WlanPlugIn, WlanUnPlug, PlugIn, UnPlug, BeginClose
      <4>2. CASE WlanPlugInDone(c) \/ WlanUnPlugDone(c)
        <5>1. Inside(c) /\ c \in Thread /\ c # HubThread
          BY <2>0, <4>2, CallerIsInside DEF WlanPlugInDone, WlanUnPlugDone, Inside, At
        <5>2. hub = HubIdle /\ Card \in Iface /\ HubThread \in Thread
          BY <2>0, <2>1, <5>1, InsideOnCard, HubIsInside, WlanTypes DEF Single
        <5>3. ~Vacant("WLAN")
          BY <2>0, <5>2, CardFacts, NoIfaceAssumption DEF Vacant
        <5> QED
          BY <5>1, <5>2, <5>3
      <4> QED
        BY <2>4, <4>1, <4>2 DEF CallerStep
    <3>2. CASE block' = block
      BY <3>2
    <3>3. CASE c \in Thread /\ ~Vacant("WLAN") /\ hub = HubIdle /\ block' # block
      <4>1. Card = slot["WLAN"]
        BY <3>3 DEF Card
      <4>2. CASE WlanPlugInDone(c)
        <5>1. call[c].serial = "WLAN" /\ At(c, "ok")
          BY <2>0, <3>3, <4>2 DEF WlanPlugInDone, PlugInDone, PInv, CallerPlace, Inside, At
        <5>2. block' = [block EXCEPT ![Card].devstate = "Started"] /\ Card # i
          BY <2>2, <3>3, <4>1, <4>2, <5>1 DEF WlanPlugInDone, PlugInDone
        <5> QED
          BY <2>0, <5>2
      <4>3. CASE WlanUnPlugDone(c)
        <5>1. \E j : block' = [block EXCEPT ![j].devstate = "Stopped"]
          BY <3>3, <4>3 DEF WlanUnPlugDone, UnPlugDone
        <5> QED
          BY <2>0, <5>1 DEF Block
      <4> QED
        BY <2>4, <3>3, <4>2, <4>3 DEF CallerStep, WlanPlugIn, WlanUnPlug, PlugIn, UnPlug, BeginClose
    <3> QED
      BY <3>1, <3>2, <3>3
  <2>5. CASE HubMoves
    <3>1. ASSUME NEW j \in Iface, Probe(j)
          PROVE  block'[i].devstate # "Started"
      BY <2>0, <3>1 DEF Probe, Attach
    <3>2. CASE ProbeDone
      <4>1. CASE At(HubThread, "ok")
        <5>1. hub # HubIdle
          BY <3>2 DEF ProbeDone, AttachDone, HubIdle
        <5>2. Card = hub.iface
          BY <5>1 DEF Card
        <5>3. block' = [block EXCEPT ![Card].devstate = "Started"] /\ Card # i
          BY <2>0, <2>2, <3>2, <4>1, <5>2, WlanTypes DEF ProbeDone, AttachDone
        <5> QED
          BY <2>0, <5>3
      <4>2. CASE ~At(HubThread, "ok")
        BY <3>2, <4>2 DEF ProbeDone, AttachDone
      <4> QED
        BY <4>1, <4>2
    <3>3. CASE Disconnect
      BY <2>0, <3>3 DEF Disconnect, Detach, Release, Free
    <3>4. CASE DisconnectDone
      BY <2>0, <3>4 DEF DisconnectDone, DetachDone, Release, Free
    <3> QED
      BY <2>5, <3>1, <3>2, <3>3, <3>4 DEF HubMoves
  <2> QED
    BY <1>1, <2>3, <2>4, <2>5, StepKinds
<1>2. WlanInv /\ [WlanNext]_<<vars, wlanVars>> => [A]_<<vars, wlanVars>>
  BY <1>1
<1> QED
  BY <1>2, WlanInvariant, PTL DEF WlanSpec, RefusedStaysOff

-----------------------------------------------------------------------------
(* The driver under the bus lives the bus's lifecycle.                     *)

(* A step of the driver is one of the bus, or leaves the bus alone.         *)
LEMMA WlanStepKinds == WlanNext => Running /\ (Next \/ DriverAlone)
<1> SUFFICES ASSUME WlanNext
             PROVE  Running /\ (Next \/ DriverAlone)
  OBVIOUS
<1>0. Running /\ {} \in SUBSET MemoryError /\ {"freed"} \in SUBSET MemoryError /\ "WLAN" \in Serial
  BY DEF WlanNext, MemoryError, Serial
<1>1. ASSUME NEW t \in Thread, Callback(t)
      PROVE  DriverAlone
  <2>1. BusStays
    BY <1>1 DEF Callback, Initialize, SetupFails, Setup, Register, Halt, Destroy, Unregister,
                UnInitialize
  <2>2. CASE Unregister(t)
    <3>1. \E kinds \in SUBSET MemoryError : Commit("WLAN", kinds)
      BY <1>0, <2>2 DEF Unregister
    <3> QED
      BY <1>0, <2>1, <3>1 DEF BusStays, DriverAlone
  <2>3. ASSUME NEW ok \in BOOLEAN, Register(t, ok)
        PROVE  DriverAlone
    <3>1. \E kinds \in SUBSET MemoryError : Commit("WLAN", kinds)
      BY <1>0, <2>3 DEF Register
    <3> QED
      BY <1>0, <2>1, <3>1 DEF BusStays, DriverAlone
  <2>4. CASE ~Unregister(t) /\ ~\E ok \in BOOLEAN : Register(t, ok)
    <3>1. fault' = fault
      BY <1>1, <2>4 DEF Callback, Initialize, SetupFails, Setup, Halt, Destroy, UnInitialize
    <3> QED
      BY <2>1, <3>1 DEF BusStays, DriverAlone
  <2> QED
    BY <2>2, <2>3, <2>4
<1>2. ASSUME NEW c \in Caller, CallerStep(c)
      PROVE  Next
  <2>1. At(c, "ok") \in BOOLEAN
    BY DEF At
  <2>2. CallerNext(c)
    BY <1>0, <1>2, <2>1 DEF CallerStep, WlanPlugIn, WlanPlugInDone, WlanUnPlug, WlanUnPlugDone,
                            CallerNext
  <2> QED
    BY <1>0, <2>2 DEF Next
<1>3. ASSUME HubMoves
      PROVE  Next
  <2>1. At(HubThread, "ok") \in BOOLEAN
    BY DEF At
  <2>2. HubNext
    BY <1>0, <1>3, <2>1 DEF HubMoves, Probe, ProbeDone, Disconnect, DisconnectDone, HubNext
  <2> QED
    BY <1>0, <2>2 DEF Next
<1> QED
  BY <1>0, <1>1, <1>2, <1>3 DEF WlanNext, CallerStep, HubMoves

(***************************************************************************)
(* WLAN!Spec, the half of EachFunctionLives that is about the WLAN, of the *)
(* driver itself: whichever of the steps of Bus_Open fails and whatever it *)
(* leaves behind, the radio goes through the lifecycle of                  *)
(* FunctionLifecycle, and comes back by itself exactly when that says so.  *)
(***************************************************************************)
THEOREM WlanDriverLives == WlanSpec => WLAN!Spec
<1>1. WlanInit => LifeWhileRunning /\ WLAN!Init
  BY LifeStarts DEF WlanInit
<1>2. LifeWhileRunning /\ [WlanNext]_<<vars, wlanVars>> =>
          LifeWhileRunning' /\ [WLAN!Next]_(WLAN!vars)
  <2>1. CASE WlanNext
    BY <2>1, WlanStepKinds, LivesOn
  <2>2. CASE UNCHANGED <<vars, wlanVars>>
    BY <2>2, LifeStays
  <2> QED
    BY <2>1, <2>2
<1> QED
  BY <1>1, <1>2, PTL DEF WlanSpec, WLAN!Spec
=============================================================================
