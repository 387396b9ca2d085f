--------------------------- MODULE TdspBus_proofs ---------------------------
(***************************************************************************)
(* Proofs about the bus: the registry stays sound under any number of      *)
(* threads, and a function on which no two handlers have overlapped has    *)
(* suffered no error and has its radio in the state the bus reports.       *)
(* Then what the bus tells the function drivers and the programs (flags    *)
(* and queries), when it opens a function by itself, and last that it      *)
(* implements FunctionLifecycle.                                           *)
(***************************************************************************)
EXTENDS TdspBusRefinement, TLAPS

-----------------------------------------------------------------------------
(* The inductive invariant, part one: the registry.                        *)

CallOK ==
    \A c \in Caller :
        /\ call[c].op = "scan" => call[c].next \in 1..3
        /\ InCallback(c) => call[c].iface \in Iface

HubOK ==
    /\ hub.op = "none" => hub = HubIdle
    /\ hub.op # "none" => hub.iface \in Iface
    /\ hub.op = "attach" => slot[hub.serial] = hub.iface
    /\ hub.op = "detach" =>
           /\ Vacant(hub.serial)
           /\ block[hub.iface].live
           /\ block[hub.iface].serial = hub.serial

RInv == TypeOK /\ CallOK /\ HubOK /\ RegistrySound

(* Part two: a function s on which no two handlers have overlapped.         *)

SoleHandler(s) ==
    /\ \A c, d \in Caller : BusyCaller(c, s) /\ BusyCaller(d, s) => c = d
    /\ \A c \in Caller : BusyCaller(c, s) => ~BusyHub(s)

CallsMatchSlot(s) ==
    \A c \in Caller : BusyCaller(c, s) => ~Vacant(s) /\ call[c].iface = slot[s]

OpensFromOff(s) ==
    /\ hub.op = "attach" /\ hub.serial = s => ~StartedFn(s)
    /\ \A c \in Caller : call[c].op = "plug" /\ call[c].serial = s => ~StartedFn(s)

RadioKnown(s) ==
    opened[s] = IF StartedFn(s) THEN {slot[s]}
                ELSE IF hub.op = "detach" /\ hub.serial = s THEN {hub.iface} ELSE {}

Quiet(s) ==
    /\ SoleHandler(s)
    /\ CallsMatchSlot(s)
    /\ OpensFromOff(s)
    /\ RadioKnown(s)
    /\ fault[s] = {}

IInv == RInv /\ \A s \in Serial \ raced : Quiet(s)

-----------------------------------------------------------------------------
(* The flag arithmetic stays within three bits.                            *)
LEMMA ParaType ==
    /\ \A h \in 0..1, a \in 0..3 : ParaFlag(h, a) \in 0..7
    /\ \A h \in 0..1, p \in 0..7 : WithHotkey(p, h) \in 0..7
    /\ \A a \in 0..3, p \in 0..7 : WithAntenna(p, a) \in 0..7
BY SMT DEF ParaFlag, WithHotkey, WithAntenna

(* Every allocated type of value is what its name says.                    *)
LEMMA Constants ==
    /\ Free \in Block
    /\ HubIdle \in HubState
    /\ Idle \in CallState
    /\ \A n \in 1..3 : SlotOrder[n] \in Serial
BY SMT DEF Free, Block, HubIdle, HubState, Idle, CallState, Serial, DevState, SlotOrder

-----------------------------------------------------------------------------
(* Type correctness is kept by every action; the scan bound is needed by   *)
(* the turns of the scan.                                                  *)

LEMMA FaultTypes ==
    ASSUME TypeOK, NEW s \in Serial, NEW i \in Iface
    PROVE  /\ Commit(s, ReopenFault(s, i)) => fault' \in [Serial -> SUBSET FaultKind]
           /\ Commit(s, FreeFault(s, i)) => fault' \in [Serial -> SUBSET FaultKind]
           /\ Commit(s, {"null"}) => fault' \in [Serial -> SUBSET FaultKind]
           /\ Commit(s, {}) => fault' \in [Serial -> SUBSET FaultKind]
           /\ Enter(s) => raced' \subseteq Serial
<1>1. ASSUME NEW kinds \in SUBSET FaultKind, Commit(s, kinds)
      PROVE  fault' \in [Serial -> SUBSET FaultKind]
  BY <1>1 DEF Commit, TypeOK
<1>2. /\ ReopenFault(s, i) \in SUBSET FaultKind
      /\ FreeFault(s, i) \in SUBSET FaultKind
      /\ {"null"} \in SUBSET FaultKind
      /\ {} \in SUBSET FaultKind
  BY DEF ReopenFault, FreeFault, FaultKind
<1>3. Enter(s) => raced' \subseteq Serial
  BY DEF Enter, TypeOK
<1> QED
  BY <1>1, <1>2, <1>3

LEMMA UpdateTypes ==
    ASSUME TypeOK, NEW s \in Serial, NEW i \in Iface
    PROVE  /\ [opened EXCEPT ![s] = @ \cup {i}] \in [Serial -> SUBSET Iface]
           /\ [opened EXCEPT ![s] = @ \ {i}] \in [Serial -> SUBSET Iface]
           /\ [block EXCEPT ![i] = Free] \in [Iface -> Block]
           /\ \A d \in DevState : [block EXCEPT ![i].devstate = d] \in [Iface -> Block]
           /\ \A w \in {"none", "on", "off"} :
                  [asked EXCEPT ![s] = [wb |-> w, os |-> FALSE]] \in [Serial -> Decision]
<1>1. opened[s] \cup {i} \in SUBSET Iface /\ opened[s] \ {i} \in SUBSET Iface
  BY DEF TypeOK
<1>2. ASSUME NEW S \in SUBSET Iface
      PROVE  [opened EXCEPT ![s] = S] \in [Serial -> SUBSET Iface]
  BY DEF TypeOK
<1>3. [block EXCEPT ![i] = Free] \in [Iface -> Block]
  BY Constants DEF TypeOK
<1>4. ASSUME NEW d \in DevState
      PROVE  [block EXCEPT ![i].devstate = d] \in [Iface -> Block]
  BY DEF TypeOK, Block
<1>5. ASSUME NEW r \in Decision
      PROVE  [asked EXCEPT ![s] = r] \in [Serial -> Decision]
  BY DEF TypeOK
<1>6. \A w \in {"none", "on", "off"} : [wb |-> w, os |-> FALSE] \in Decision
  BY DEF Decision
<1> QED
  BY <1>1, <1>2, <1>3, <1>4, <1>5, <1>6

LEMMA HubTypes ==
    ASSUME TypeOK, HubOK, HubNext
    PROVE  TypeOK'
<1> USE Constants, ParaType DEF TypeOK, HubOK, HubState, Block, registry, history
<1>1. ASSUME NEW s \in Serial, NEW i \in Iface, Attach(s, i)
      PROVE  TypeOK'
  <2>1. ParaFlag(hotkey, antenna) \in 0..7
    OBVIOUS
  <2>2. block' \in [Iface -> Block]
    BY <1>1, <2>1 DEF Attach, DevState
  <2>3. hub' \in HubState
    BY <1>1 DEF Attach
  <2>4. raced' \subseteq Serial /\ fault' \in [Serial -> SUBSET FaultKind]
    BY <1>1, FaultTypes DEF Attach
  <2> QED
    BY <1>1, <2>2, <2>3, <2>4 DEF Attach
<1>2. ASSUME NEW ok \in BOOLEAN, AttachDone(ok)
      PROVE  TypeOK'
  <2>1. hub.iface \in Iface /\ hub.serial \in Serial
    BY <1>2 DEF AttachDone
  <2>2. /\ [block EXCEPT ![hub.iface].devstate = "Started"] \in [Iface -> Block]
        /\ [opened EXCEPT ![hub.serial] = @ \cup {hub.iface}] \in [Serial -> SUBSET Iface]
    BY <2>1, UpdateTypes DEF DevState
  <2>3. /\ block' \in [Iface -> Block]
        /\ opened' \in [Serial -> SUBSET Iface]
    BY <1>2, <2>2 DEF AttachDone
  <2> QED
    BY <1>2, <2>3 DEF AttachDone
<1>3. ASSUME NEW s \in Serial, Detach(s)
      PROVE  TypeOK'
  <2>0. slot[s] \in Iface
    BY <1>3 DEF Detach, Vacant
  <2>1. /\ block' \in [Iface -> Block]
        /\ fault' \in [Serial -> SUBSET FaultKind]
        /\ raced' \subseteq Serial
    <3>1. [block EXCEPT ![slot[s]] = Free] \in [Iface -> Block]
      BY <2>0, UpdateTypes
    <3>2. raced' \subseteq Serial
      BY <1>3, <2>0, FaultTypes DEF Detach
    <3>3. CASE NeedsClose(s)
      BY <1>3, <3>2, <3>3 DEF Detach
    <3>4. CASE ~NeedsClose(s)
      BY <1>3, <2>0, <3>1, <3>2, <3>4, FaultTypes DEF Detach, Release
    <3> QED
      BY <3>3, <3>4
  <2>2. hub' \in HubState
    BY <1>3, <2>0 DEF Detach
  <2> QED
    BY <1>3, <2>1, <2>2 DEF Detach
<1>4. ASSUME DetachDone
      PROVE  TypeOK'
  <2>1. hub.iface \in Iface /\ hub.serial \in Serial
    BY <1>4 DEF DetachDone
  <2>2. block' \in [Iface -> Block] /\ fault' \in [Serial -> SUBSET FaultKind]
    BY <1>4, <2>1, FaultTypes, UpdateTypes DEF DetachDone, Release
  <2> QED
    BY <1>4, <2>1, <2>2 DEF DetachDone
<1> QED
  BY <1>1, <1>2, <1>3, <1>4 DEF HubNext

LEMMA CallTypes ==
    ASSUME TypeOK, NEW c \in Caller, NEW r \in CallState
    PROVE  [call EXCEPT ![c] = r] \in [Caller -> CallState]
BY DEF TypeOK

LEMMA CloseTypes ==
    ASSUME TypeOK, NEW c \in Caller, NEW s \in Serial, NEW n \in 1..4, BeginClose(c, s, n)
    PROVE  TypeOK'
<1>1. slot[s] \in Iface
  BY DEF BeginClose, Vacant, TypeOK
<1>2. block[slot[s]].devstate \in DevState
  BY <1>1 DEF TypeOK, Block
<1>3. [op |-> "unplug", serial |-> s, iface |-> slot[s], next |-> n] \in CallState
  BY <1>1 DEF CallState
<1>4. call' \in [Caller -> CallState]
  BY <1>3, CallTypes DEF BeginClose
<1>5. raced' \subseteq Serial
  BY <1>1, FaultTypes DEF BeginClose
<1>6. old' \in [Serial -> DevState \cup {"StartWithOS"}]
  BY <1>2 DEF BeginClose, Remember, TypeOK
<1> QED
  BY <1>4, <1>5, <1>6 DEF BeginClose, TypeOK

LEMMA CallerTypes ==
    ASSUME TypeOK, CallOK, NEW c \in Caller, CallerNext(c)
    PROVE  TypeOK'
<1> USE Constants
<1>0. call[c] \in CallState
  BY DEF TypeOK
<1>1. ASSUME NEW s \in Serial, PlugIn(c, s)
      PROVE  TypeOK'
  <2>1. slot[s] \in Iface
    BY <1>1 DEF PlugIn, MayOpen, Vacant, TypeOK
  <2>2. [op |-> "plug", serial |-> s, iface |-> slot[s], next |-> 4] \in CallState
    BY <2>1 DEF CallState
  <2>3. call' \in [Caller -> CallState]
    BY <1>1, <2>2, CallTypes DEF PlugIn
  <2>4. raced' \subseteq Serial /\ fault' \in [Serial -> SUBSET FaultKind]
    BY <1>1, <2>1, FaultTypes DEF PlugIn
  <2> QED
    BY <1>1, <2>3, <2>4 DEF PlugIn, TypeOK, registry
<1>2. ASSUME NEW ok \in BOOLEAN, PlugInDone(c, ok)
      PROVE  TypeOK'
  <2> DEFINE s == call[c].serial
             i == call[c].iface
  <2>1. s \in Serial /\ i \in Iface
    BY <1>0, <1>2 DEF CallState, CallOK, InCallback, PlugInDone
  <2>2. opened' \in [Serial -> SUBSET Iface]
    BY <1>2, <2>1, UpdateTypes DEF PlugInDone, TypeOK
  <2>3. ~Vacant(s) => slot[s] \in Iface
    BY <2>1 DEF Vacant, TypeOK
  <2>4. block' \in [Iface -> Block]
    <3>1. block \in [Iface -> Block]
      BY DEF TypeOK
    <3>2. ~Vacant(s) => [block EXCEPT ![slot[s]].devstate = "Started"] \in [Iface -> Block]
      BY <2>1, <2>3, UpdateTypes DEF DevState
    <3> QED
      BY <1>2, <3>1, <3>2 DEF PlugInDone
  <2>5. old' \in [Serial -> DevState \cup {"StartWithOS"}]
    BY <1>2, <2>1 DEF PlugInDone, Remember, TypeOK, DevState
  <2>6. asked' \in [Serial -> Decision]
    <3>1. asked \in [Serial -> Decision]
      BY DEF TypeOK
    <3>2. [asked EXCEPT ![s] = [wb |-> "on", os |-> FALSE]] \in [Serial -> Decision]
      BY <2>1, UpdateTypes
    <3> QED
      BY <1>2, <3>1, <3>2 DEF PlugInDone
  <2>7. fault' \in [Serial -> SUBSET FaultKind]
    BY <1>2, <2>1, FaultTypes DEF PlugInDone
  <2>8. call' \in [Caller -> CallState]
    BY <1>2, CallTypes DEF PlugInDone
  <2> QED
    BY <1>2, <2>2, <2>4, <2>5, <2>6, <2>7, <2>8 DEF PlugInDone, TypeOK
<1>3. ASSUME NEW s \in Serial, UnPlug(c, s)
      PROVE  TypeOK'
  BY <1>3, CloseTypes DEF UnPlug
<1>4. ASSUME UnPlugAll(c)
      PROVE  TypeOK'
  <2>1. Scanning(1) \in CallState
    BY DEF CallState, Scanning, Serial
  <2> QED
    BY <1>4, <2>1, CallTypes DEF UnPlugAll, TypeOK, registry, history
<1>5. ASSUME ScanSlot(c)
      PROVE  TypeOK'
  <2>1. call[c].next \in 1..3
    BY <1>5 DEF ScanSlot, CallOK
  <2>2. call[c].next + 1 \in 1..4 /\ SlotOrder[call[c].next] \in Serial
    BY <2>1
  <2>3. AfterSlot(call[c].next + 1) \in CallState
    BY <2>1, <2>2 DEF AfterSlot, CallState, Scanning, Serial
  <2>4. CASE BeginClose(c, SlotOrder[call[c].next], call[c].next + 1)
    BY <2>2, <2>4, CloseTypes
  <2>5. CASE /\ call' = [call EXCEPT ![c] = AfterSlot(call[c].next + 1)]
             /\ UNCHANGED <<registry, block, hub, opened, history>>
    BY <2>3, <2>5, CallTypes DEF TypeOK, registry, history
  <2> QED
    BY <1>5, <2>4, <2>5 DEF ScanSlot
<1>6. ASSUME UnPlugDone(c)
      PROVE  TypeOK'
  <2> DEFINE s == call[c].serial
             i == call[c].iface
  <2>1. s \in Serial /\ i \in Iface /\ call[c].next \in 1..4
    BY <1>0, <1>6 DEF CallState, CallOK, InCallback, UnPlugDone
  <2>2. opened' \in [Serial -> SUBSET Iface]
    BY <1>6, <2>1, UpdateTypes DEF UnPlugDone, TypeOK
  <2>3. ~Vacant(s) => slot[s] \in Iface
    BY <2>1 DEF Vacant, TypeOK
  <2>4. block' \in [Iface -> Block]
    <3>1. block \in [Iface -> Block]
      BY DEF TypeOK
    <3>2. ~Vacant(s) => [block EXCEPT ![slot[s]].devstate = "Stopped"] \in [Iface -> Block]
      BY <2>1, <2>3, UpdateTypes DEF DevState
    <3> QED
      BY <1>6, <3>1, <3>2 DEF UnPlugDone
  <2>5. old' \in [Serial -> DevState \cup {"StartWithOS"}]
    BY <1>6, <2>1 DEF UnPlugDone, Remember, TypeOK, DevState
  <2>6. asked' \in [Serial -> Decision]
    <3>1. asked \in [Serial -> Decision]
      BY DEF TypeOK
    <3>2. [asked EXCEPT ![s] = [wb |-> "off", os |-> FALSE]] \in [Serial -> Decision]
      BY <2>1, UpdateTypes
    <3> QED
      BY <1>6, <3>1, <3>2 DEF UnPlugDone
  <2>7. fault' \in [Serial -> SUBSET FaultKind]
    BY <1>6, <2>1, FaultTypes DEF UnPlugDone, TypeOK
  <2>8. AfterSlot(call[c].next) \in CallState
    BY <2>1 DEF AfterSlot, CallState, Scanning, Serial
  <2>9. call' \in [Caller -> CallState]
    BY <1>6, <2>8, CallTypes DEF UnPlugDone
  <2> QED
    BY <1>6, <2>2, <2>4, <2>5, <2>6, <2>7, <2>9 DEF UnPlugDone, TypeOK
<1>7. ASSUME NEW h \in HotkeyValues, SetHotkeyFlag(c, h)
      PROVE  TypeOK'
  <2>1. h \in 0..1
    BY HotkeyAssumption
  <2>2. block' \in [Iface -> Block]
    BY <1>7, <2>1, ParaType DEF SetHotkeyFlag, TypeOK, Block
  <2>3. asked' \in [Serial -> Decision]
    BY <1>7 DEF SetHotkeyFlag, TypeOK, Decision
  <2> QED
    BY <1>7, <2>1, <2>2, <2>3 DEF SetHotkeyFlag, TypeOK
<1>8. ASSUME NEW a \in AntennaValues, SetAntenna(c, a)
      PROVE  TypeOK'
  <2>1. a \in 0..3
    BY AntennaAssumption
  <2>2. block' \in [Iface -> Block]
    BY <1>8, <2>1, ParaType DEF SetAntenna, TypeOK, Block
  <2> QED
    BY <1>8, <2>1, <2>2 DEF SetAntenna, TypeOK, history
<1> QED
  BY <1>1, <1>2, <1>3, <1>4, <1>5, <1>6, <1>7, <1>8 DEF CallerNext

-----------------------------------------------------------------------------
(* The rest of the registry invariant.                                     *)

LEMMA HubKeepsRegistry ==
    ASSUME RInv, HubNext
    PROVE  (CallOK /\ HubOK /\ RegistrySound)'
<1> USE NoIfaceAssumption DEF RInv, TypeOK, HubOK, RegistrySound, Vacant, HubIdle, CallOK, InCallback
<1>1. ASSUME NEW s \in Serial, NEW i \in Iface, Attach(s, i)
      PROVE  (CallOK /\ HubOK /\ RegistrySound)'
  <2>1. slot[s] = NoIface /\ ~block[i].live
    BY <1>1 DEF Attach, TakeSlot, Free
  <2>2. \A t \in Serial : slot[t] # i
    BY <2>1
  <2>3. \A j \in Iface : block[j].live => block[j].serial # s /\ j # i
    BY <1>1, <2>1 DEF Attach
  <2>4. RegistrySound'
    BY <1>1, <2>1, <2>2, <2>3 DEF Attach, Block
  <2>5. HubOK'
    BY <1>1, <2>1 DEF Attach
  <2> QED
    BY <1>1, <2>4, <2>5 DEF Attach
<1>2. ASSUME NEW ok \in BOOLEAN, AttachDone(ok)
      PROVE  (CallOK /\ HubOK /\ RegistrySound)'
  <2>1. \A j \in Iface : block'[j].live = block[j].live /\ block'[j].serial = block[j].serial
    BY <1>2 DEF AttachDone, Block
  <2> QED
    BY <1>2, <2>1 DEF AttachDone, registry
<1>3. ASSUME NEW s \in Serial, Detach(s)
      PROVE  (CallOK /\ HubOK /\ RegistrySound)'
  <2>1. slot[s] \in Iface /\ block[slot[s]].live /\ block[slot[s]].serial = s
    BY <1>3 DEF Detach
  <2>2. \A t \in Serial \ {s} : slot[t] # slot[s]
    BY <2>1
  <2>3. CASE NeedsClose(s)
    BY <1>3, <2>1, <2>2, <2>3 DEF Detach
  <2>4. CASE ~NeedsClose(s)
    <3>1. block' = [block EXCEPT ![slot[s]] = Free] /\ hub' = hub
      BY <1>3, <2>4 DEF Detach, Release
    <3> QED
      BY <1>3, <2>1, <2>2, <3>1 DEF Detach, Free
  <2> QED
    BY <2>3, <2>4
<1>4. ASSUME DetachDone
      PROVE  (CallOK /\ HubOK /\ RegistrySound)'
  <2>1. /\ hub.serial \in Serial /\ hub.iface \in Iface
        /\ block' = [block EXCEPT ![hub.iface] = Free]
    BY <1>4 DEF DetachDone, Release, HubState
  <2>2. \A t \in Serial : slot[t] # hub.iface
    BY <1>4, <2>1 DEF DetachDone
  <2> QED
    BY <1>4, <2>1, <2>2 DEF DetachDone, Free, registry
<1> QED
  BY <1>1, <1>2, <1>3, <1>4 DEF HubNext

(* The ioctls leave the slots and the owner of every block alone.           *)
LEMMA CallerFrame ==
    ASSUME RInv, NEW c \in Caller, CallerNext(c)
    PROVE  /\ UNCHANGED <<slot, pnp, power, hub>>
           /\ \A i \in Iface : /\ block'[i].live = block[i].live
                              /\ block'[i].serial = block[i].serial
<1> USE DEF RInv, TypeOK, registry
<1>1. UNCHANGED <<slot, pnp, power, hub>>
  BY DEF CallerNext, PlugIn, PlugInDone, UnPlug, UnPlugAll, ScanSlot, BeginClose,
         UnPlugDone, SetHotkeyFlag, SetAntenna
<1>2. ASSUME NEW j \in Iface, NEW d \in DevState, block' = [block EXCEPT ![j].devstate = d]
      PROVE  \A i \in Iface : /\ block'[i].live = block[i].live
                            /\ block'[i].serial = block[i].serial
  BY <1>2 DEF Block
<1>3. ASSUME NEW ok \in BOOLEAN, PlugInDone(c, ok)
      PROVE  \/ block' = block
             \/ \E j \in Iface : block' = [block EXCEPT ![j].devstate = "Started"]
  BY <1>3 DEF PlugInDone, Vacant, CallState
<1>4. ASSUME UnPlugDone(c)
      PROVE  \/ block' = block
             \/ \E j \in Iface : block' = [block EXCEPT ![j].devstate = "Stopped"]
  BY <1>4 DEF UnPlugDone, Vacant, CallState
<1>5. ASSUME \/ \E h \in HotkeyValues : SetHotkeyFlag(c, h)
             \/ \E a \in AntennaValues : SetAntenna(c, a)
      PROVE  \A i \in Iface : /\ block'[i].live = block[i].live
                            /\ block'[i].serial = block[i].serial
  BY <1>5 DEF SetHotkeyFlag, SetAntenna, Block
<1>6. ASSUME \/ \E s \in Serial : PlugIn(c, s) \/ UnPlug(c, s)
             \/ UnPlugAll(c)
             \/ ScanSlot(c)
      PROVE  block' = block
  BY <1>6 DEF PlugIn, UnPlug, UnPlugAll, ScanSlot, BeginClose
<1> QED
  BY <1>1, <1>2, <1>3, <1>4, <1>5, <1>6 DEF CallerNext, DevState

LEMMA CallerKeepsRegistry ==
    ASSUME RInv, NEW c \in Caller, CallerNext(c)
    PROVE  (CallOK /\ HubOK /\ RegistrySound)'
<1>1. HubOK'
  BY CallerFrame DEF RInv, HubOK, Vacant, HubIdle
<1>2. RegistrySound'
  <2>1. slot \in [Serial -> Iface \cup {NoIface}] /\ block \in [Iface -> Block]
    BY DEF RInv, TypeOK
  <2> QED
    BY <2>1, CallerFrame DEF RInv, RegistrySound, Vacant, Block
<1>3. CallOK'
  <2> SUFFICES ASSUME NEW d \in Caller
               PROVE  /\ call'[d].op = "scan" => call'[d].next \in 1..3
                      /\ InCallback(d)' => call'[d].iface \in Iface
    BY DEF CallOK
  <2>1. CASE d # c
    BY <2>1 DEF RInv, TypeOK, CallOK, InCallback, CallerNext, PlugIn, PlugInDone, UnPlug, UnPlugAll,
            ScanSlot, BeginClose, UnPlugDone, SetHotkeyFlag, SetAntenna, registry
  <2>2. CASE d = c
    <3>1. \A n \in 2..4 : AfterSlot(n) = Idle \/ (n \in 2..3 /\ AfterSlot(n) = Scanning(n))
      BY DEF AfterSlot
    <3>2. ASSUME NEW s \in Serial, NEW n, BeginClose(c, s, n)
          PROVE  call'[c].op = "unplug" /\ call'[c].iface \in Iface
      BY <3>2 DEF BeginClose, RInv, TypeOK, Vacant
    <3>3. ASSUME NEW s \in Serial, PlugIn(c, s)
          PROVE  call'[c].op = "plug" /\ call'[c].iface \in Iface
      BY <3>3 DEF PlugIn, MayOpen, RInv, TypeOK, Vacant
    <3>4. ASSUME UnPlugAll(c)
          PROVE  call'[c] = Scanning(1)
      BY <3>4 DEF UnPlugAll, RInv, TypeOK
    <3>5. ASSUME ScanSlot(c), call' = [call EXCEPT ![c] = AfterSlot(call[c].next + 1)]
          PROVE  call'[c] = Idle \/ \E n \in 2..3 : call'[c] = Scanning(n)
      BY <3>1, <3>5 DEF ScanSlot, RInv, TypeOK, CallOK
    <3>6. ASSUME UnPlugDone(c)
          PROVE  call'[c] = Idle \/ \E n \in 1..3 : call'[c] = Scanning(n)
      BY <3>6 DEF UnPlugDone, AfterSlot, RInv, TypeOK, CallState
    <3>7. ASSUME NEW ok \in BOOLEAN, PlugInDone(c, ok)
          PROVE  call'[c] = Idle
      BY <3>7 DEF PlugInDone, RInv, TypeOK
    <3>8. ASSUME \/ \E h \in HotkeyValues : SetHotkeyFlag(c, h)
                 \/ \E a \in AntennaValues : SetAntenna(c, a)
          PROVE  call'[c] = call[c]
      BY <3>8 DEF SetHotkeyFlag, SetAntenna
    <3>9. \/ call'[c].op = "unplug" /\ call'[c].iface \in Iface
          \/ call'[c].op = "plug" /\ call'[c].iface \in Iface
          \/ call'[c] = Idle
          \/ \E n \in 1..3 : call'[c] = Scanning(n)
          \/ call'[c] = call[c]
      <4>1. ASSUME NEW s \in Serial, UnPlug(c, s)
            PROVE  BeginClose(c, s, 4)
        BY <4>1 DEF UnPlug
      <4>2. ASSUME ScanSlot(c)
            PROVE  \/ BeginClose(c, SlotOrder[call[c].next], call[c].next + 1)
                   \/ call' = [call EXCEPT ![c] = AfterSlot(call[c].next + 1)]
        BY <4>2 DEF ScanSlot
      <4>3. ScanSlot(c) => SlotOrder[call[c].next] \in Serial
        BY Constants DEF ScanSlot, RInv, CallOK
      <4> QED
        BY <3>2, <3>3, <3>4, <3>5, <3>6, <3>7, <3>8, <4>1, <4>2, <4>3 DEF CallerNext
    <3>10. ASSUME NEW n \in 1..3, call'[c] = Scanning(n)
           PROVE  call'[c].op = "scan" /\ call'[c].next \in 1..3
      BY <3>10 DEF Scanning
    <3> QED
      BY <2>2, <3>9, <3>10 DEF Idle, InCallback, RInv, CallOK
  <2> QED
    BY <2>1, <2>2
<1> QED
  BY <1>1, <1>2, <1>3

-----------------------------------------------------------------------------
(* Part one of the invariant is inductive.                                 *)

LEMMA InitRegistry == Init => RInv /\ PnpTracksRegistry
<1>1. ASSUME Init
      PROVE  TypeOK
  BY <1>1, Constants DEF Init, TypeOK, DevState, FaultKind, Decision, CallState, HubState
<1>2. Init => CallOK /\ HubOK /\ RegistrySound /\ PnpTracksRegistry
  BY NoIfaceAssumption
     DEF Init, CallOK, InCallback, Idle, HubOK, HubIdle, RegistrySound, Vacant, Free, PnpTracksRegistry
<1> QED
  BY <1>1, <1>2 DEF RInv

LEMMA NextRegistry == RInv /\ [Next]_vars => RInv'
<1> SUFFICES ASSUME RInv, [Next]_vars
             PROVE  RInv'
  OBVIOUS
<1>1. ASSUME HubNext
      PROVE  RInv'
  BY <1>1, HubTypes, HubKeepsRegistry DEF RInv
<1>2. ASSUME NEW c \in Caller, CallerNext(c)
      PROVE  RInv'
  BY <1>2, CallerTypes, CallerKeepsRegistry DEF RInv
<1>3. CASE UNCHANGED vars
  BY <1>3 DEF vars, registry, history, RInv, TypeOK, CallOK, InCallback, HubOK, Vacant, RegistrySound
<1> QED
  BY <1>1, <1>2, <1>3 DEF Next

(* The state of the device follows the registry in every step.              *)
LEMMA NextPnp == RInv /\ PnpTracksRegistry /\ [Next]_vars => PnpTracksRegistry'
<1> SUFFICES ASSUME RInv, PnpTracksRegistry, [Next]_vars
             PROVE  PnpTracksRegistry'
  OBVIOUS
<1> USE NoIfaceAssumption DEF PnpTracksRegistry, Vacant, RInv, TypeOK
<1>1. ASSUME NEW s \in Serial, NEW i \in Iface, Attach(s, i)
      PROVE  PnpTracksRegistry'
  BY <1>1 DEF Attach
<1>2. ASSUME NEW s \in Serial, Detach(s)
      PROVE  PnpTracksRegistry'
  BY <1>2 DEF Detach, OnlyOne
<1>3. ASSUME DetachDone \/ \E ok \in BOOLEAN : AttachDone(ok)
      PROVE  PnpTracksRegistry'
  BY <1>3 DEF DetachDone, AttachDone, registry
<1>4. ASSUME NEW c \in Caller, CallerNext(c)
      PROVE  PnpTracksRegistry'
  BY <1>4, CallerFrame
<1>5. CASE UNCHANGED vars
  BY <1>5 DEF vars, registry
<1> QED
  BY <1>1, <1>2, <1>3, <1>4, <1>5 DEF Next, HubNext

(***************************************************************************)
(* The structures of the bus keep their types, and the slots neither       *)
(* dangle nor leak, whatever threads and drivers do.                       *)
(***************************************************************************)
THEOREM RegistryCorrect == Spec => [](TypeOK /\ RegistrySound)
<1>1. RInv => TypeOK /\ RegistrySound
  BY DEF RInv
<1> QED
  BY <1>1, InitRegistry, NextRegistry, PTL DEF Spec

(***************************************************************************)
(* The ioctls are admitted exactly while some function is registered.      *)
(***************************************************************************)
THEOREM PnpCorrect == Spec => []PnpTracksRegistry
BY InitRegistry, NextRegistry, NextPnp, PTL DEF Spec

-----------------------------------------------------------------------------
(* Part two: a function without overlap.  First, what leaves it alone.      *)

LEMMA QuietFrame ==
    ASSUME NEW s \in Serial, Quiet(s),
           slot'[s] = slot[s],
           StartedFn(s)' <=> StartedFn(s),
           opened'[s] = opened[s],
           fault'[s] = fault[s],
           \A c \in Caller : BusyCaller(c, s)' => call'[c] = call[c],
           hub' = hub \/ (~BusyHub(s) /\ ~BusyHub(s)')
    PROVE  Quiet(s)'
<1> USE DEF Quiet, BusyCaller, BusyHub, InCallback
<1>1. \A c \in Caller : BusyCaller(c, s)' => BusyCaller(c, s)
  OBVIOUS
<1>2. SoleHandler(s)'
  BY <1>1 DEF SoleHandler
<1>3. CallsMatchSlot(s)'
  BY <1>1 DEF CallsMatchSlot, Vacant
<1>4. OpensFromOff(s)'
  BY <1>1 DEF OpensFromOff
<1>5. RadioKnown(s)'
  BY DEF RadioKnown
<1> QED
  BY <1>2, <1>3, <1>4, <1>5

LEMMA SlotsDiffer ==
    ASSUME RInv, NEW s \in Serial, NEW t \in Serial, s # t, ~Vacant(s)
    PROVE  slot[s] # slot[t]
BY DEF RInv, RegistrySound, Vacant

(* A function on which nobody is busy: what its driver is in.               *)
LEMMA QuietIdle ==
    ASSUME NEW s \in Serial, Quiet(s), ~Busy(s)
    PROVE  opened[s] = IF StartedFn(s) THEN {slot[s]} ELSE {}
BY DEF Quiet, RadioKnown, Busy, BusyHub

(* A function emptied of its interface, with no disconnect under way, is    *)
(* idle and its driver is closed.                                           *)
LEMMA QuietVacant ==
    ASSUME NEW s \in Serial, Quiet(s), Vacant(s), hub = HubIdle
    PROVE  ~Busy(s) /\ opened[s] = {}
BY DEF Quiet, CallsMatchSlot, RadioKnown, Busy, BusyHub, HubIdle, StartedFn

LEMMA NoFault ==
    ASSUME NEW s \in Serial, NEW i \in Iface
    PROVE  /\ ~Busy(s) /\ i \notin opened[s] => ReopenFault(s, i) = {}
           /\ (\A c \in Caller : ~BusyCaller(c, s)) => FreeFault(s, i) = {}
BY DEF ReopenFault, FreeFault

LEMMA AttachQuiet ==
    ASSUME IInv, NEW t \in Serial, NEW i \in Iface, Attach(t, i), NEW s \in Serial \ raced'
    PROVE  Quiet(s)'
<1>1. s \notin raced /\ Quiet(s)
  BY DEF Attach, Enter, IInv
<1>2. TypeOK /\ RInv
  BY DEF IInv, RInv
<1>3. ~block[i].live
  BY DEF Attach, Free
<1>4. CASE t # s
  <2>1. slot'[s] = slot[s] /\ opened'[s] = opened[s] /\ call' = call
    BY <1>2, <1>4 DEF Attach, TypeOK
  <2>2. ~Vacant(s) => slot[s] # i
    BY <1>2, <1>3 DEF RInv, RegistrySound
  <2>3. StartedFn(s)' <=> StartedFn(s)
    BY <1>2, <2>1, <2>2 DEF Attach, StartedFn, Vacant, TypeOK
  <2>4. fault'[s] = fault[s]
    BY <1>2, <1>4 DEF Attach, Commit, TypeOK
  <2>5. hub' = hub \/ (~BusyHub(s) /\ ~BusyHub(s)')
    BY <1>4 DEF Attach, BusyHub, HubIdle
  <2> QED
    BY <1>1, <2>1, <2>3, <2>4, <2>5, QuietFrame
<1>5. CASE t = s
  <2>1. Vacant(s) /\ hub = HubIdle
    BY <1>5 DEF Attach, TakeSlot
  <2>2. ~Busy(s) /\ opened[s] = {}
    BY <1>1, <2>1, QuietVacant
  <2>3. /\ slot'[s] = i /\ opened' = opened /\ call' = call
        /\ block'[i].devstate = "NotStarted"
    BY <1>2, <1>5 DEF Attach, TypeOK
  <2>4. ~StartedFn(s)'
    BY <2>3 DEF StartedFn
  <2>5. fault'[s] = {}
    BY <1>1, <1>2, <1>5, <2>2, NoFault DEF Attach, Commit, Quiet, TypeOK
  <2>6. \A c \in Caller : ~BusyCaller(c, s)'
    BY <2>2, <2>3 DEF Busy, BusyCaller, InCallback
  <2>7. hub'.op \in {"none", "attach"}
    BY <2>1 DEF Attach, HubIdle
  <2>8. SoleHandler(s)' /\ CallsMatchSlot(s)'
    BY <2>6 DEF SoleHandler, CallsMatchSlot
  <2>9. OpensFromOff(s)' /\ RadioKnown(s)'
    BY <2>2, <2>3, <2>4, <2>7 DEF OpensFromOff, RadioKnown
  <2> QED
    BY <2>5, <2>8, <2>9 DEF Quiet
<1> QED
  BY <1>4, <1>5

LEMMA AttachDoneQuiet ==
    ASSUME IInv, NEW ok \in BOOLEAN, AttachDone(ok), NEW s \in Serial \ raced'
    PROVE  Quiet(s)'
<1>1. s \notin raced /\ Quiet(s)
  BY DEF AttachDone, history, IInv
<1>2. TypeOK /\ RInv
  BY DEF IInv, RInv
<1>3. /\ hub.op = "attach" /\ hub.serial \in Serial /\ hub.iface \in Iface
      /\ slot[hub.serial] = hub.iface
  BY <1>2 DEF AttachDone, RInv, HubOK, TypeOK, HubState
<1>4. /\ slot' = slot /\ call' = call /\ fault' = fault /\ hub' = HubIdle
  BY DEF AttachDone, registry, history
<1>5. CASE hub.serial # s
  <2>1. opened'[s] = opened[s]
    BY <1>2, <1>3, <1>5 DEF AttachDone, TypeOK
  <2>2. ~Vacant(s) => slot[s] # hub.iface
    BY <1>2, <1>3, <1>5, SlotsDiffer
  <2>3. StartedFn(s)' <=> StartedFn(s)
    BY <1>2, <1>4, <2>2 DEF AttachDone, StartedFn, Vacant, TypeOK
  <2>4. ~BusyHub(s) /\ ~BusyHub(s)'
    BY <1>4, <1>5 DEF BusyHub, HubIdle
  <2> QED
    BY <1>1, <1>4, <2>1, <2>3, <2>4, QuietFrame
<1>6. CASE hub.serial = s
  <2>1. \A c \in Caller : ~BusyCaller(c, s)
    BY <1>1, <1>3, <1>6 DEF Quiet, SoleHandler, BusyHub
  <2>2. ~StartedFn(s) /\ opened[s] = {}
    BY <1>1, <1>3, <1>6 DEF Quiet, OpensFromOff, RadioKnown
  <2>3. \A c \in Caller : ~BusyCaller(c, s)'
    BY <1>4, <2>1 DEF BusyCaller, InCallback
  <2>4. SoleHandler(s)' /\ CallsMatchSlot(s)' /\ OpensFromOff(s)'
    BY <1>4, <2>3 DEF SoleHandler, CallsMatchSlot, OpensFromOff, HubIdle, BusyCaller, InCallback
  <2>5. CASE ok
    <3>1. StartedFn(s)' /\ opened'[s] = {slot[s]}
      BY <1>2, <1>3, <1>4, <1>6, <2>2, <2>5, NoIfaceAssumption
         DEF AttachDone, StartedFn, Vacant, TypeOK, Block
    <3> QED
      BY <1>1, <1>4, <2>4, <3>1 DEF Quiet, RadioKnown
  <2>6. CASE ~ok
    <3>1. ~StartedFn(s)' /\ opened'[s] = {}
      BY <1>4, <2>2, <2>6 DEF AttachDone, StartedFn, Vacant
    <3> QED
      BY <1>1, <1>4, <2>4, <3>1 DEF Quiet, RadioKnown, HubIdle
  <2> QED
    BY <2>5, <2>6
<1> QED
  BY <1>5, <1>6

LEMMA DetachQuiet ==
    ASSUME IInv, NEW t \in Serial, Detach(t), NEW s \in Serial \ raced'
    PROVE  Quiet(s)'
<1>1. s \notin raced /\ Quiet(s)
  BY DEF Detach, Enter, IInv
<1>2. TypeOK /\ RInv /\ hub = HubIdle /\ ~Vacant(t)
  BY DEF IInv, RInv, Detach
<1>3. slot[t] \in Iface /\ call' = call /\ opened' = opened
  BY <1>2 DEF Detach, TypeOK, Vacant
<1>4. CASE t # s
  <2>1. slot'[s] = slot[s]
    BY <1>2, <1>4 DEF Detach, TypeOK
  <2>2. StartedFn(s)' <=> StartedFn(s)
    <3>1. ~Vacant(s) => slot[s] # slot[t]
      BY <1>2, <1>4, SlotsDiffer
    <3>2. block' = block \/ block' = [block EXCEPT ![slot[t]] = Free]
      BY DEF Detach, Release
    <3> QED
      BY <1>2, <2>1, <3>1, <3>2 DEF StartedFn, Vacant, TypeOK
  <2>3. fault'[s] = fault[s]
    BY <1>2, <1>4 DEF Detach, Release, Commit, TypeOK
  <2>4. hub' = hub \/ (~BusyHub(s) /\ ~BusyHub(s)')
    BY <1>2, <1>4 DEF Detach, BusyHub, HubIdle
  <2> QED
    BY <1>1, <1>3, <2>1, <2>2, <2>3, <2>4, QuietFrame
<1>5. CASE t = s
  <2>1. ~Busy(s)
    BY <1>5 DEF Detach, Enter
  <2>2. opened[s] = IF StartedFn(s) THEN {slot[s]} ELSE {}
    BY <1>1, <2>1, QuietIdle
  <2>3. slot'[s] = NoIface /\ ~StartedFn(s)'
    BY <1>2, <1>5 DEF Detach, StartedFn, Vacant, TypeOK
  <2>4. \A c \in Caller : ~BusyCaller(c, s) /\ ~BusyCaller(c, s)'
    BY <1>3, <2>1 DEF Busy, BusyCaller, InCallback
  <2>5. SoleHandler(s)' /\ CallsMatchSlot(s)' /\ OpensFromOff(s)'
    BY <2>3, <2>4 DEF SoleHandler, CallsMatchSlot, OpensFromOff
  <2>6. CASE NeedsClose(s)
    <3>1. /\ hub' = [op |-> "detach", serial |-> s, iface |-> slot[s]]
          /\ fault' = fault
      BY <1>5, <2>6 DEF Detach
    <3>2. RadioKnown(s)'
      BY <1>3, <2>2, <2>3, <2>6, <3>1 DEF RadioKnown, NeedsClose
    <3> QED
      BY <1>1, <2>5, <3>1, <3>2 DEF Quiet
  <2>7. CASE ~NeedsClose(s)
    <3>1. /\ hub' = HubIdle
          /\ Commit(s, FreeFault(s, slot[s]))
      BY <1>2, <1>5, <2>7 DEF Detach, Release
    <3>2. FreeFault(s, slot[s]) = {}
      BY <1>3, <1>5, <2>4, NoFault
    <3>3. fault'[s] = fault[s]
      BY <1>2, <3>1, <3>2 DEF Commit, TypeOK
    <3>4. RadioKnown(s)'
      BY <1>3, <2>2, <2>3, <2>7, <3>1 DEF RadioKnown, NeedsClose, HubIdle
    <3> QED
      BY <1>1, <2>5, <3>3, <3>4 DEF Quiet
  <2> QED
    BY <2>6, <2>7
<1> QED
  BY <1>4, <1>5

LEMMA DetachDoneQuiet ==
    ASSUME IInv, DetachDone, NEW s \in Serial \ raced'
    PROVE  Quiet(s)'
<1>1. s \notin raced /\ Quiet(s)
  BY DEF DetachDone, IInv
<1>2. TypeOK /\ RInv
  BY DEF IInv, RInv
<1>3. /\ hub.op = "detach" /\ hub.serial \in Serial /\ hub.iface \in Iface
      /\ Vacant(hub.serial) /\ block[hub.iface].serial = hub.serial
  BY <1>2 DEF DetachDone, RInv, HubOK, TypeOK, HubState
<1>4. /\ slot' = slot /\ call' = call /\ hub' = HubIdle
      /\ block' = [block EXCEPT ![hub.iface] = Free]
      /\ Commit(hub.serial, FreeFault(hub.serial, hub.iface))
  BY DEF DetachDone, Release, registry
<1>5. CASE hub.serial # s
  <2>1. opened'[s] = opened[s]
    BY <1>2, <1>3, <1>5 DEF DetachDone, TypeOK
  <2>2. StartedFn(s)' <=> StartedFn(s)
    <3>1. ~Vacant(s) => slot[s] # hub.iface
      BY <1>2, <1>3, <1>5 DEF RInv, RegistrySound
    <3> QED
      BY <1>2, <1>4, <3>1 DEF StartedFn, Vacant, TypeOK
  <2>3. fault'[s] = fault[s]
    BY <1>2, <1>4, <1>5 DEF Commit, TypeOK
  <2>4. ~BusyHub(s) /\ ~BusyHub(s)'
    BY <1>4, <1>5 DEF BusyHub, HubIdle
  <2> QED
    BY <1>1, <1>4, <2>1, <2>2, <2>3, <2>4, QuietFrame
<1>6. CASE hub.serial = s
  <2>1. \A c \in Caller : ~BusyCaller(c, s) /\ ~BusyCaller(c, s)'
    BY <1>1, <1>3, <1>4, <1>6 DEF Quiet, SoleHandler, BusyHub, BusyCaller, InCallback
  <2>2. ~StartedFn(s) /\ ~StartedFn(s)'
    BY <1>3, <1>4, <1>6 DEF StartedFn, Vacant
  <2>3. opened'[s] = {}
    BY <1>1, <1>2, <1>3, <1>6, <2>2 DEF DetachDone, Quiet, RadioKnown, TypeOK
  <2>4. FreeFault(s, hub.iface) = {}
    BY <1>3, <1>6, <2>1, NoFault
  <2>5. fault'[s] = fault[s]
    BY <1>2, <1>4, <1>6, <2>4 DEF Commit, TypeOK
  <2>6. SoleHandler(s)' /\ CallsMatchSlot(s)' /\ OpensFromOff(s)'
    BY <2>1, <2>2 DEF SoleHandler, CallsMatchSlot, OpensFromOff
  <2>7. RadioKnown(s)'
    BY <1>4, <2>2, <2>3 DEF RadioKnown, HubIdle
  <2> QED
    BY <1>1, <2>5, <2>6, <2>7 DEF Quiet
<1> QED
  BY <1>5, <1>6

LEMMA PlugInQuiet ==
    ASSUME IInv, NEW c \in Caller, NEW t \in Serial, PlugIn(c, t), NEW s \in Serial \ raced'
    PROVE  Quiet(s)'
<1>1. s \notin raced /\ Quiet(s)
  BY DEF PlugIn, Enter, IInv
<1>2. TypeOK /\ ~Vacant(t) /\ ~StartedFn(t) /\ slot[t] \in Iface
  BY DEF IInv, RInv, PlugIn, MayOpen, Vacant, TypeOK
<1>3. /\ slot' = slot /\ block' = block /\ opened' = opened /\ hub' = hub
      /\ call' = [call EXCEPT ![c] = [op |-> "plug", serial |-> t,
                                      iface |-> slot[t], next |-> 4]]
      /\ Commit(t, ReopenFault(t, slot[t]))
  BY DEF PlugIn, registry
<1>4. \A d \in Caller : d # c => call'[d] = call[d]
  BY <1>2, <1>3 DEF TypeOK
<1>5. call'[c] = [op |-> "plug", serial |-> t, iface |-> slot[t], next |-> 4]
  BY <1>2, <1>3 DEF TypeOK
<1>6. StartedFn(s)' <=> StartedFn(s)
  BY <1>3 DEF StartedFn, Vacant
<1>7. CASE t # s
  <2>1. fault'[s] = fault[s]
    BY <1>2, <1>3, <1>7 DEF Commit, TypeOK
  <2>2. \A d \in Caller : BusyCaller(d, s)' => call'[d] = call[d]
    BY <1>4, <1>5, <1>7 DEF BusyCaller
  <2> QED
    BY <1>1, <1>3, <1>6, <2>1, <2>2, QuietFrame
<1>8. CASE t = s
  <2>1. ~Busy(s)
    BY <1>8 DEF PlugIn, Enter
  <2>2. opened[s] = {}
    BY <1>1, <1>2, <1>8, <2>1, QuietIdle
  <2>3. fault'[s] = fault[s]
    BY <1>2, <1>3, <1>8, <2>1, <2>2, NoFault DEF Commit, TypeOK
  <2>4. \A d \in Caller : BusyCaller(d, s)' => d = c
    BY <1>4, <2>1 DEF Busy, BusyCaller, InCallback
  <2>5. ~BusyHub(s) /\ ~BusyHub(s)'
    BY <1>3, <2>1 DEF Busy, BusyHub
  <2>6. SoleHandler(s)'
    BY <2>4, <2>5 DEF SoleHandler
  <2>7. CallsMatchSlot(s)'
    BY <1>2, <1>3, <1>5, <1>8, <2>4 DEF CallsMatchSlot, Vacant
  <2>8. OpensFromOff(s)'
    BY <1>2, <1>6, <1>8 DEF OpensFromOff
  <2>9. RadioKnown(s)'
    BY <1>2, <1>3, <1>6, <1>8, <2>2, <2>5 DEF RadioKnown, BusyHub
  <2> QED
    BY <1>1, <2>3, <2>6, <2>7, <2>8, <2>9 DEF Quiet
<1> QED
  BY <1>7, <1>8

(* A thread that ends its callback is no longer busy; the others are as     *)
(* they were.                                                               *)
LEMMA CallerEnds ==
    ASSUME TypeOK, NEW c \in Caller, NEW r \in CallState, call' = [call EXCEPT ![c] = r],
           r.op \notin {"plug", "unplug"}
    PROVE  /\ \A d \in Caller, s \in Serial : BusyCaller(d, s)' => d # c /\ call'[d] = call[d]
           /\ \A d \in Caller, s \in Serial : BusyCaller(d, s)' => BusyCaller(d, s)
BY DEF TypeOK, BusyCaller, InCallback

LEMMA PlugInDoneQuiet ==
    ASSUME IInv, NEW c \in Caller, NEW ok \in BOOLEAN, PlugInDone(c, ok),
           NEW s \in Serial \ raced'
    PROVE  Quiet(s)'
<1> DEFINE t == call[c].serial
           i == call[c].iface
<1>1. s \notin raced /\ Quiet(s)
  BY DEF PlugInDone, IInv
<1>2. TypeOK /\ RInv /\ call[c].op = "plug" /\ t \in Serial /\ i \in Iface
  BY DEF IInv, RInv, PlugInDone, CallOK, InCallback, TypeOK, CallState
<1>3. /\ slot' = slot /\ hub' = hub
      /\ call' = [call EXCEPT ![c] = Idle]
      /\ opened' = IF ok THEN [opened EXCEPT ![t] = @ \cup {i}] ELSE opened
      /\ block' = IF ok /\ ~Vacant(t) THEN [block EXCEPT ![slot[t]].devstate = "Started"] ELSE block
      /\ Commit(t, IF ok /\ Vacant(t) THEN {"null"} ELSE {})
  BY DEF PlugInDone
<1>4. /\ \A d \in Caller : BusyCaller(d, s)' => d # c /\ call'[d] = call[d]
      /\ \A d \in Caller : BusyCaller(d, s)' => BusyCaller(d, s)
  BY <1>2, <1>3, Constants, CallerEnds DEF Idle
<1>5. CASE t # s
  <2>1. opened'[s] = opened[s] /\ fault'[s] = fault[s]
    BY <1>2, <1>3, <1>5 DEF Commit, TypeOK
  <2>2. StartedFn(s)' <=> StartedFn(s)
    <3>1. ~Vacant(s) => slot[s] # slot[t]
      BY <1>2, <1>5, SlotsDiffer
    <3> QED
      BY <1>2, <1>3, <3>1 DEF StartedFn, Vacant, TypeOK
  <2> QED
    BY <1>1, <1>3, <1>4, <2>1, <2>2, QuietFrame
<1>6. CASE t = s
  <2>1. BusyCaller(c, s)
    BY <1>2, <1>6 DEF BusyCaller, InCallback
  <2>2. /\ \A d \in Caller : BusyCaller(d, s) => d = c
        /\ ~BusyHub(s) /\ ~Vacant(s) /\ slot[s] = i /\ ~StartedFn(s)
    BY <1>1, <1>2, <1>6, <2>1 DEF Quiet, SoleHandler, CallsMatchSlot, OpensFromOff
  <2>3. opened[s] = {}
    BY <1>1, <2>2 DEF Quiet, RadioKnown, BusyHub
  <2>4. ~BusyHub(s)'
    BY <1>3, <2>2 DEF BusyHub
  <2>5. \A d \in Caller : ~BusyCaller(d, s)'
    BY <1>4, <2>2
  <2>6. fault'[s] = fault[s]
    BY <1>2, <1>3, <1>6, <2>2 DEF Commit, TypeOK
  <2>7. opened'[s] = IF StartedFn(s)' THEN {slot'[s]} ELSE {}
    <3>1. CASE ok
      BY <1>2, <1>3, <1>6, <2>2, <2>3, <3>1 DEF StartedFn, Vacant, TypeOK, Block
    <3>2. CASE ~ok
      BY <1>3, <2>2, <2>3, <3>2 DEF StartedFn, Vacant
    <3> QED
      BY <3>1, <3>2
  <2>8. SoleHandler(s)' /\ CallsMatchSlot(s)'
    BY <2>5 DEF SoleHandler, CallsMatchSlot
  <2>9. OpensFromOff(s)' /\ RadioKnown(s)'
    BY <2>4, <2>5, <2>7 DEF OpensFromOff, RadioKnown, BusyHub, BusyCaller, InCallback
  <2> QED
    BY <1>1, <2>6, <2>8, <2>9 DEF Quiet
<1> QED
  BY <1>5, <1>6

LEMMA CloseQuiet ==
    ASSUME IInv, NEW c \in Caller, NEW t \in Serial, NEW n, BeginClose(c, t, n),
           NEW s \in Serial \ raced'
    PROVE  Quiet(s)'
<1>1. s \notin raced /\ Quiet(s)
  BY DEF BeginClose, Enter, IInv
<1>2. TypeOK /\ ~Vacant(t)
  BY DEF IInv, RInv, BeginClose
<1>3. /\ slot' = slot /\ block' = block /\ opened' = opened /\ hub' = hub /\ fault' = fault
      /\ \A d \in Caller : d # c => call'[d] = call[d]
      /\ call'[c] = [op |-> "unplug", serial |-> t, iface |-> slot[t], next |-> n]
  BY <1>2 DEF BeginClose, TypeOK
<1>4. StartedFn(s)' <=> StartedFn(s)
  BY <1>3 DEF StartedFn, Vacant
<1>5. CASE t # s
  <2>1. \A d \in Caller : BusyCaller(d, s)' => call'[d] = call[d]
    BY <1>3, <1>5 DEF BusyCaller
  <2> QED
    BY <1>1, <1>3, <1>4, <2>1, QuietFrame
<1>6. CASE t = s
  <2>1. ~Busy(s)
    BY <1>6 DEF BeginClose, Enter
  <2>2. opened[s] = IF StartedFn(s) THEN {slot[s]} ELSE {}
    BY <1>1, <2>1, QuietIdle
  <2>3. \A d \in Caller : BusyCaller(d, s)' => d = c
    BY <1>3, <2>1 DEF Busy, BusyCaller, InCallback
  <2>4. ~BusyHub(s)'
    BY <1>3, <2>1 DEF Busy, BusyHub
  <2>5. SoleHandler(s)'
    BY <2>3, <2>4 DEF SoleHandler
  <2>6. CallsMatchSlot(s)'
    BY <1>2, <1>3, <1>6, <2>3 DEF CallsMatchSlot, Vacant
  <2>7. OpensFromOff(s)'
    BY <1>3, <2>3, <2>4 DEF OpensFromOff, BusyHub, BusyCaller, InCallback
  <2>8. RadioKnown(s)'
    BY <1>3, <1>4, <2>2, <2>4 DEF RadioKnown, BusyHub
  <2> QED
    BY <1>1, <1>3, <2>5, <2>6, <2>7, <2>8 DEF Quiet
<1> QED
  BY <1>5, <1>6

LEMMA UnPlugDoneQuiet ==
    ASSUME IInv, NEW c \in Caller, UnPlugDone(c), NEW s \in Serial \ raced'
    PROVE  Quiet(s)'
<1> DEFINE t == call[c].serial
           i == call[c].iface
<1>1. s \notin raced /\ Quiet(s)
  BY DEF UnPlugDone, IInv
<1>2. /\ TypeOK /\ RInv /\ call[c].op = "unplug" /\ t \in Serial /\ i \in Iface
      /\ call[c].next \in 1..4
  BY DEF IInv, RInv, UnPlugDone, CallOK, InCallback, TypeOK, CallState
<1>3. /\ slot' = slot /\ hub' = hub
      /\ opened' = [opened EXCEPT ![t] = @ \ {i}]
      /\ block' = IF ~Vacant(t) THEN [block EXCEPT ![slot[t]].devstate = "Stopped"] ELSE block
      /\ ~Vacant(t) => fault' = fault
      /\ fault' = fault \/ Commit(t, {"null"})
  BY DEF UnPlugDone
<1>4. \E r \in CallState : call' = [call EXCEPT ![c] = r] /\ r.op \notin {"plug", "unplug"}
  <2>1. AfterSlot(call[c].next) \in CallState /\ AfterSlot(call[c].next).op \notin {"plug", "unplug"}
    BY <1>2, Constants DEF AfterSlot, CallState, Scanning, Idle, Serial
  <2>2. Idle \in CallState /\ Idle.op \notin {"plug", "unplug"}
    BY Constants DEF Idle
  <2> QED
    BY <2>1, <2>2 DEF UnPlugDone
<1>5. /\ \A d \in Caller : BusyCaller(d, s)' => d # c /\ call'[d] = call[d]
      /\ \A d \in Caller : BusyCaller(d, s)' => BusyCaller(d, s)
  BY <1>2, <1>4, CallerEnds
<1>6. CASE t # s
  <2>1. opened'[s] = opened[s] /\ fault'[s] = fault[s]
    BY <1>2, <1>3, <1>6 DEF Commit, TypeOK
  <2>2. StartedFn(s)' <=> StartedFn(s)
    <3>1. ~Vacant(s) => slot[s] # slot[t]
      BY <1>2, <1>6, SlotsDiffer
    <3> QED
      BY <1>2, <1>3, <3>1 DEF StartedFn, Vacant, TypeOK
  <2> QED
    BY <1>1, <1>3, <1>5, <2>1, <2>2, QuietFrame
<1>7. CASE t = s
  <2>1. BusyCaller(c, s)
    BY <1>2, <1>7 DEF BusyCaller, InCallback
  <2>2. /\ \A d \in Caller : BusyCaller(d, s) => d = c
        /\ ~BusyHub(s) /\ ~Vacant(s) /\ slot[s] = i
    BY <1>1, <1>7, <2>1 DEF Quiet, SoleHandler, CallsMatchSlot
  <2>3. opened[s] = IF StartedFn(s) THEN {slot[s]} ELSE {}
    BY <1>1, <2>2 DEF Quiet, RadioKnown, BusyHub
  <2>4. ~BusyHub(s)'
    BY <1>3, <2>2 DEF BusyHub
  <2>5. \A d \in Caller : ~BusyCaller(d, s)'
    BY <1>5, <2>2
  <2>6. ~StartedFn(s)' /\ opened'[s] = {}
    BY <1>2, <1>3, <1>7, <2>2, <2>3 DEF StartedFn, Vacant, TypeOK, Block
  <2>7. SoleHandler(s)' /\ CallsMatchSlot(s)'
    BY <2>5 DEF SoleHandler, CallsMatchSlot
  <2>8. OpensFromOff(s)' /\ RadioKnown(s)'
    BY <2>4, <2>5, <2>6 DEF OpensFromOff, RadioKnown, BusyHub, BusyCaller, InCallback
  <2> QED
    BY <1>1, <1>3, <1>7, <2>2, <2>7, <2>8 DEF Quiet
<1> QED
  BY <1>6, <1>7

(* The calls that reach no driver leave every function alone.               *)
LEMMA OtherCallsQuiet ==
    ASSUME IInv, NEW c \in Caller, NEW s \in Serial \ raced',
           \/ UnPlugAll(c)
           \/ ScanSlot(c) /\ call' = [call EXCEPT ![c] = AfterSlot(call[c].next + 1)]
                          /\ UNCHANGED <<registry, block, hub, opened, history>>
           \/ \E h \in HotkeyValues : SetHotkeyFlag(c, h)
           \/ \E a \in AntennaValues : SetAntenna(c, a)
    PROVE  Quiet(s)'
<1>1. TypeOK /\ CallOK
  BY DEF IInv, RInv
<1>2. slot' = slot /\ hub' = hub /\ opened' = opened /\ fault' = fault /\ raced' = raced
  BY DEF UnPlugAll, ScanSlot, SetHotkeyFlag, SetAntenna, registry, history
<1>3. Quiet(s)
  BY <1>2 DEF IInv
<1>4. \A i \in Iface : block'[i].devstate = block[i].devstate
  BY <1>1 DEF UnPlugAll, SetHotkeyFlag, SetAntenna, TypeOK, Block
<1>5. StartedFn(s)' <=> StartedFn(s)
  BY <1>1, <1>2, <1>4 DEF StartedFn, Vacant, TypeOK
<1>6. \A d \in Caller : BusyCaller(d, s)' => call'[d] = call[d]
  <2>1. CASE call' = call
    BY <2>1
  <2>2. CASE UnPlugAll(c)
    BY <1>1, <2>2 DEF UnPlugAll, Scanning, BusyCaller, InCallback, TypeOK
  <2>3. CASE ScanSlot(c) /\ call' = [call EXCEPT ![c] = AfterSlot(call[c].next + 1)]
    <3>1. AfterSlot(call[c].next + 1).op \notin {"plug", "unplug"}
      BY DEF AfterSlot, Scanning, Idle
    <3> QED
      BY <1>1, <2>3, <3>1 DEF BusyCaller, InCallback, TypeOK
  <2> QED
    BY <2>1, <2>2, <2>3 DEF SetHotkeyFlag, SetAntenna
<1> QED
  BY <1>2, <1>3, <1>5, <1>6, QuietFrame

-----------------------------------------------------------------------------
LEMMA NextInvariant == IInv /\ [Next]_vars => IInv'
<1> SUFFICES ASSUME IInv, [Next]_vars
             PROVE  IInv'
  OBVIOUS
<1>1. RInv'
  BY NextRegistry DEF IInv
<1>2. ASSUME NEW s \in Serial \ raced'
      PROVE  Quiet(s)'
  <2>1. ASSUME HubNext
        PROVE  Quiet(s)'
    BY <2>1, AttachQuiet, AttachDoneQuiet, DetachQuiet, DetachDoneQuiet DEF HubNext
  <2>2. ASSUME NEW c \in Caller, CallerNext(c)
        PROVE  Quiet(s)'
    <3>1. ASSUME NEW t \in Serial, UnPlug(c, t)
          PROVE  Quiet(s)'
      BY <3>1, CloseQuiet DEF UnPlug
    <3>2. ASSUME ScanSlot(c)
          PROVE  Quiet(s)'
      <4>1. SlotOrder[call[c].next] \in Serial
        BY <3>2, Constants DEF ScanSlot, IInv, RInv, CallOK
      <4>2. CASE BeginClose(c, SlotOrder[call[c].next], call[c].next + 1)
        BY <4>1, <4>2, CloseQuiet
      <4>3. CASE /\ call' = [call EXCEPT ![c] = AfterSlot(call[c].next + 1)]
                 /\ UNCHANGED <<registry, block, hub, opened, history>>
        BY <3>2, <4>3, OtherCallsQuiet
      <4> QED
        BY <3>2, <4>2, <4>3 DEF ScanSlot
    <3> QED
      BY <2>2, <3>1, <3>2, PlugInQuiet, PlugInDoneQuiet, UnPlugDoneQuiet, OtherCallsQuiet
         DEF CallerNext
  <2>3. CASE UNCHANGED vars
    <3>1. /\ slot' = slot /\ block' = block /\ opened' = opened /\ fault' = fault
          /\ call' = call /\ hub' = hub /\ Quiet(s)
      BY <2>3 DEF vars, registry, history, IInv
    <3>2. StartedFn(s)' <=> StartedFn(s)
      BY <3>1 DEF StartedFn, Vacant
    <3> QED
      BY <3>1, <3>2, QuietFrame
  <2> QED
    BY <2>1, <2>2, <2>3 DEF Next
<1> QED
  BY <1>1, <1>2 DEF IInv

LEMMA InitInvariant == Init => IInv
<1> SUFFICES ASSUME Init
             PROVE  IInv
  OBVIOUS
<1>1. ASSUME NEW s \in Serial
      PROVE  Quiet(s)
  BY <1>1 DEF Init, Quiet, SoleHandler, CallsMatchSlot, OpensFromOff, RadioKnown, BusyCaller,
              BusyHub, InCallback, StartedFn, Vacant, Idle, HubIdle
<1> QED
  BY <1>1, InitRegistry DEF IInv

(***************************************************************************)
(* However many threads call into the bus, a handler commits an error only *)
(* on a function where two handlers have overlapped.                       *)
(***************************************************************************)
THEOREM NoFaultWithoutOverlap == Spec => []FaultsNeedOverlap
<1>1. IInv => FaultsNeedOverlap
  BY DEF IInv, Quiet, FaultsNeedOverlap
<1> QED
  BY <1>1, InitInvariant, NextInvariant, PTL DEF Spec

(***************************************************************************)
(* On a function without overlap the bus knows the state of the radio: it  *)
(* is on exactly when devstate is Started, and off once the interface is   *)
(* gone.                                                                   *)
(***************************************************************************)
THEOREM RadioCorrect == Spec => []StateTracksRadio
<1>1. IInv => StateTracksRadio
  BY QuietIdle DEF IInv, StateTracksRadio
<1> QED
  BY <1>1, InitInvariant, NextInvariant, PTL DEF Spec

-----------------------------------------------------------------------------
(* The flags.                                                              *)

LEMMA ParaFields ==
    /\ \A h \in 0..1, a \in 0..3 :
           HotkeyFlag(ParaFlag(h, a)) = h /\ AntennaFlag(ParaFlag(h, a)) = a
    /\ \A h \in 0..1, p \in 0..7 :
           HotkeyFlag(WithHotkey(p, h)) = h /\ AntennaFlag(WithHotkey(p, h)) = AntennaFlag(p)
    /\ \A a \in 0..3, p \in 0..7 :
           HotkeyFlag(WithAntenna(p, a)) = HotkeyFlag(p) /\ AntennaFlag(WithAntenna(p, a)) = a
BY SMT DEF ParaFlag, WithHotkey, WithAntenna, HotkeyFlag, AntennaFlag

(* A step that changes neither the slots nor the flags keeps them in step.  *)
LEMMA ParaFrame ==
    ASSUME RInv, ParaTracksConfig,
           \A s \in Serial : slot'[s] = slot[s] \/ slot'[s] = NoIface,
           hotkey' = hotkey, antenna' = antenna,
           \A s \in Serial : ~Vacant(s)' => block'[slot[s]].para = block[slot[s]].para
    PROVE  ParaTracksConfig'
BY DEF ParaTracksConfig, Vacant

LEMMA HubKeepsPara ==
    ASSUME RInv, ParaTracksConfig, HubNext
    PROVE  ParaTracksConfig'
<1>1. TypeOK
  BY DEF RInv
<1>2. ASSUME NEW t \in Serial, NEW i \in Iface, Attach(t, i)
      PROVE  ParaTracksConfig'
  <2>1. ~block[i].live /\ hotkey' = hotkey /\ antenna' = antenna
    BY <1>2 DEF Attach, Free
  <2>2. /\ slot'[t] = i /\ block'[i].para = ParaFlag(hotkey, antenna)
        /\ \A s \in Serial \ {t} : slot'[s] = slot[s]
        /\ \A j \in Iface \ {i} : block'[j] = block[j]
    BY <1>1, <1>2 DEF Attach, TypeOK
  <2>3. \A s \in Serial \ {t} : ~Vacant(s) => slot[s] \in Iface \ {i}
    BY <1>1, <2>1 DEF RInv, RegistrySound, Vacant, TypeOK
  <2>4. HotkeyFlag(block'[i].para) = hotkey /\ AntennaFlag(block'[i].para) = antenna
    BY <1>1, <2>2, ParaFields DEF TypeOK
  <2> QED
    BY <2>1, <2>2, <2>3, <2>4 DEF ParaTracksConfig, Vacant
<1>3. ASSUME NEW ok \in BOOLEAN, AttachDone(ok)
      PROVE  ParaTracksConfig'
  <2>1. \A j \in Iface : block'[j].para = block[j].para
    BY <1>1, <1>3 DEF AttachDone, TypeOK, Block
  <2> QED
    BY <1>1, <1>3, <2>1, ParaFrame DEF AttachDone, registry, Vacant, TypeOK
<1>4. ASSUME NEW t \in Serial, Detach(t)
      PROVE  ParaTracksConfig'
  <2>1. /\ slot' = [slot EXCEPT ![t] = NoIface] /\ hotkey' = hotkey /\ antenna' = antenna
        /\ block' = block \/ block' = [block EXCEPT ![slot[t]] = Free]
        /\ ~Vacant(t)
    BY <1>4 DEF Detach, Release
  <2>2. \A s \in Serial : ~Vacant(s)' => s # t /\ ~Vacant(s)
    BY <1>1, <2>1 DEF Vacant, TypeOK
  <2>3. \A s \in Serial : ~Vacant(s)' => block'[slot[s]] = block[slot[s]]
    BY <1>1, <2>1, <2>2, SlotsDiffer DEF Vacant, TypeOK
  <2> QED
    BY <1>1, <2>1, <2>3, ParaFrame DEF TypeOK
<1>5. ASSUME DetachDone
      PROVE  ParaTracksConfig'
  <2>1. /\ hub.iface \in Iface /\ hub.serial \in Serial /\ hub.op = "detach"
        /\ Vacant(hub.serial) /\ block[hub.iface].serial = hub.serial
    BY <1>1, <1>5 DEF DetachDone, RInv, HubOK, TypeOK, HubState
  <2>2. /\ slot' = slot /\ hotkey' = hotkey /\ antenna' = antenna
        /\ block' = [block EXCEPT ![hub.iface] = Free]
    BY <1>5 DEF DetachDone, Release, registry
  <2>3. \A s \in Serial : ~Vacant(s) => slot[s] \in Iface /\ slot[s] # hub.iface
    BY <1>1, <2>1 DEF RInv, RegistrySound, Vacant, TypeOK
  <2> QED
    BY <1>1, <2>2, <2>3, ParaFrame DEF Vacant, TypeOK
<1> QED
  BY <1>2, <1>3, <1>4, <1>5 DEF HubNext

LEMMA CallerKeepsPara ==
    ASSUME RInv, ParaTracksConfig, NEW c \in Caller, CallerNext(c)
    PROVE  ParaTracksConfig'
<1>1. TypeOK /\ slot' = slot
  BY CallerFrame DEF RInv
<1>2. \A s \in Serial : ~Vacant(s) => slot[s] \in Iface /\ block[slot[s]].para \in 0..7
  BY <1>1 DEF Vacant, TypeOK, Block
<1>3. ASSUME NEW h \in HotkeyValues, SetHotkeyFlag(c, h)
      PROVE  ParaTracksConfig'
  <2>1. h \in 0..1 /\ hotkey' = h /\ antenna' = antenna
    BY <1>3, HotkeyAssumption DEF SetHotkeyFlag
  <2>2. \A s \in Serial : ~Vacant(s) =>
            block'[slot[s]].para = WithHotkey(block[slot[s]].para, h)
    BY <1>1, <1>2, <1>3 DEF SetHotkeyFlag, TypeOK, Block
  <2> QED
    BY <1>1, <1>2, <2>1, <2>2, ParaFields DEF ParaTracksConfig, Vacant
<1>4. ASSUME NEW a \in AntennaValues, SetAntenna(c, a)
      PROVE  ParaTracksConfig'
  <2>1. a \in 0..3 /\ antenna' = a /\ hotkey' = hotkey
    BY <1>4, AntennaAssumption DEF SetAntenna
  <2>2. \A s \in Serial : ~Vacant(s) =>
            block'[slot[s]].para = IF s = "WLAN" THEN WithAntenna(block[slot[s]].para, a)
                                                 ELSE block[slot[s]].para
    BY <1>1, <1>2, <1>4, SlotsDiffer DEF SetAntenna, TypeOK, Block, Vacant, Serial
  <2> QED
    BY <1>1, <1>2, <2>1, <2>2, ParaFields DEF ParaTracksConfig, Vacant
<1>5. ASSUME UNCHANGED <<hotkey, antenna>>, \A j \in Iface : block'[j].para = block[j].para
      PROVE  ParaTracksConfig'
  BY <1>1, <1>2, <1>5, ParaFrame DEF Vacant
<1>6. ASSUME \/ \E s \in Serial : PlugIn(c, s) \/ UnPlug(c, s)
             \/ \E ok \in BOOLEAN : PlugInDone(c, ok)
             \/ UnPlugAll(c) \/ ScanSlot(c) \/ UnPlugDone(c)
      PROVE  UNCHANGED <<hotkey, antenna>> /\ \A j \in Iface : block'[j].para = block[j].para
  BY <1>1, <1>6 DEF PlugIn, UnPlug, PlugInDone, UnPlugAll, ScanSlot, UnPlugDone, BeginClose,
                    registry, TypeOK, Block
<1> QED
  BY <1>3, <1>4, <1>5, <1>6 DEF CallerNext

(***************************************************************************)
(* Whatever order probes, disconnects and flag ioctls come in, a driver is *)
(* handed the flags that are configured.                                   *)
(***************************************************************************)
THEOREM ParaCorrect == Spec => []ParaTracksConfig
<1>1. Init => ParaTracksConfig
  BY DEF Init, ParaTracksConfig, Vacant
<1>2. RInv /\ ParaTracksConfig /\ [Next]_vars => ParaTracksConfig'
  <2> SUFFICES ASSUME RInv, ParaTracksConfig, [Next]_vars
               PROVE  ParaTracksConfig'
    OBVIOUS
  <2>1. CASE UNCHANGED vars
    BY <2>1 DEF vars, registry, ParaTracksConfig, Vacant
  <2> QED
    BY <2>1, HubKeepsPara, CallerKeepsPara DEF Next
<1> QED
  BY <1>1, <1>2, InitRegistry, NextRegistry, PTL DEF Spec

-----------------------------------------------------------------------------
(* The queries.                                                            *)

(* RfRejects keeps the GPS slot empty.                                      *)
NoGps == Vacant("GPS")

LEMMA NextNoGps == RInv /\ NoGps /\ [Next]_vars => NoGps'
<1> SUFFICES ASSUME RInv, NoGps, [Next]_vars
             PROVE  NoGps'
  OBVIOUS
<1>1. ASSUME NEW s \in Serial, NEW i \in Iface, Attach(s, i)
      PROVE  NoGps'
  BY <1>1 DEF Attach, RfRejects, NoGps, Vacant, RInv, TypeOK
<1>2. ASSUME NEW s \in Serial, Detach(s)
      PROVE  NoGps'
  BY <1>2 DEF Detach, NoGps, Vacant, RInv, TypeOK
<1>3. ASSUME DetachDone \/ \E ok \in BOOLEAN : AttachDone(ok)
      PROVE  NoGps'
  BY <1>3 DEF DetachDone, AttachDone, registry, NoGps, Vacant
<1>4. ASSUME NEW c \in Caller, CallerNext(c)
      PROVE  NoGps'
  BY <1>4, CallerFrame DEF NoGps, Vacant
<1>5. CASE UNCHANGED vars
  BY <1>5 DEF vars, registry, NoGps, Vacant
<1> QED
  BY <1>1, <1>2, <1>3, <1>4, <1>5 DEF Next, HubNext

(* The masks of the functions tell the sets apart.                          *)
LEMMA Masks ==
    ASSUME NEW S \in SUBSET {"BT", "WLAN"}, S # {}
    PROVE  SumBits(S) \in 1..3
<1>1. "GPS" \notin S /\ ("BT" \in S \/ "WLAN" \in S)
  OBVIOUS
<1> QED
  BY <1>1, SMT DEF SumBits

LEMMA QueriesFollow ==
    ASSUME NoGps, PnpTracksRegistry, Admitted
    PROVE  QueriesAgree
<1> DEFINE on == {s \in Serial : StartedFn(s)}
<1>1. on = {s \in {"BT", "WLAN"} : ReportedOn(s)}
  BY DEF NoGps, StartedFn, ReportedOn, Serial
<1>2. \E s \in Serial : ~Vacant(s)
  BY DEF PnpTracksRegistry, Admitted
<1>3. \A s \in Serial : QueryDeviceState(s) = 255 <=> s \notin on
  BY SMT DEF QueryDeviceState
<1>4. CASE on = {}
  <2>1. DisplayInUse = NoneStarted
    BY <1>2, <1>4 DEF DisplayInUse
  <2>2. ReadEnumMode \in {0, Undecided}
    BY <1>1, <1>4 DEF ReadEnumMode
  <2>3. \A s \in Serial : QueryDeviceState(s) = 255
    BY <1>3, <1>4
  <2>4. NoneStarted # NoCard /\ NoneStarted \notin 1..3
    BY SMT DEF NoneStarted, NoCard
  <2> QED
    BY <2>1, <2>2, <2>3, <2>4, Zenon DEF QueriesAgree
<1>5. CASE on # {}
  <2>1. DisplayInUse = SumBits(on) /\ ReadEnumMode = SumBits(on)
    BY <1>1, <1>5 DEF DisplayInUse, ReadEnumMode
  <2>2. SumBits(on) \in 1..3
    BY <1>1, <1>5, Masks
  <2>3. ~\A s \in Serial : QueryDeviceState(s) = 255
    BY <1>3, <1>5
  <2>4. /\ SumBits(on) # NoCard /\ SumBits(on) # NoneStarted
        /\ SumBits(on) \notin {0, Undecided}
    BY <2>2, SMT DEF NoneStarted, NoCard, Undecided
  <2> QED
    BY <2>1, <2>2, <2>3, <2>4, Zenon DEF QueriesAgree
<1> QED
  BY <1>4, <1>5

(* The functions that are Started, and what DISPLAY_IN_USE says of them.    *)
RadiosOn == {s \in {"BT", "WLAN"} : StartedFn(s)}

LEMMA RadiosTold ==
    ASSUME NoGps, PnpTracksRegistry
    PROVE  /\ RadiosOn # {} => Admitted
           /\ RadiosOn = {} => DisplayInUse \in {NoCard, NoneStarted}
           /\ RadiosOn = {"BT"} => DisplayInUse = 1
           /\ RadiosOn = {"WLAN"} => DisplayInUse = 2
           /\ RadiosOn = {"BT", "WLAN"} => DisplayInUse = 3
<1>1. RadiosOn = {s \in Serial : StartedFn(s)}
  BY DEF RadiosOn, NoGps, StartedFn, Serial
<1>2. RadiosOn # {} => Admitted
  BY DEF RadiosOn, StartedFn, PnpTracksRegistry, Admitted, Serial
<1>3. RadiosOn = {} => DisplayInUse \in {NoCard, NoneStarted}
  BY <1>1 DEF DisplayInUse
<1>4. RadiosOn # {} => DisplayInUse = SumBits(RadiosOn)
  BY <1>1 DEF DisplayInUse
<1>5. SumBits({"BT"}) = 1 /\ SumBits({"WLAN"}) = 2 /\ SumBits({"BT", "WLAN"}) = 3
  BY SMT DEF SumBits
<1> QED
  BY <1>2, <1>3, <1>4, <1>5

(* When open() or close() returns, the function of one block changes.       *)
LEMMA RadiosAfter ==
    ASSUME TypeOK, RegistrySound, NEW s \in {"BT", "WLAN"}, ~Vacant(s), slot' = slot,
           NEW d \in DevState, block' = [block EXCEPT ![slot[s]].devstate = d]
    PROVE  RadiosOn' = IF d = "Started" THEN RadiosOn \cup {s} ELSE RadiosOn \ {s}
<1>1. slot[s] \in Iface /\ s \in Serial
  BY DEF TypeOK, Vacant, Serial
<1>2. \A t \in Serial \ {s} : ~Vacant(t) => slot[t] # slot[s]
  BY <1>1 DEF RegistrySound
<1>3. \A t \in {"BT", "WLAN"} : StartedFn(t)' <=> IF t = s THEN d = "Started" ELSE StartedFn(t)
  <2> TAKE t \in {"BT", "WLAN"}
  <2>1. CASE t = s
    BY <1>1, <2>1 DEF StartedFn, Vacant, TypeOK, Block
  <2>2. CASE t # s
    BY <1>1, <1>2, <2>2 DEF StartedFn, Vacant, TypeOK, Block, Serial
  <2> QED
    BY <2>1, <2>2
<1> QED
  BY <1>3 DEF RadiosOn

(***************************************************************************)
(* The three queries the programs combine never contradict each other.     *)
(***************************************************************************)
THEOREM QueriesCorrect == Spec => []QueriesAgree
<1>1. Init => NoGps
  BY DEF Init, NoGps, Vacant, Serial
<1>2. NoGps /\ PnpTracksRegistry => QueriesAgree
  BY QueriesFollow DEF QueriesAgree
<1> QED
  BY <1>1, <1>2, InitRegistry, NextRegistry, NextPnp, NextNoGps, PTL DEF Spec

-----------------------------------------------------------------------------
(* Opening by itself.                                                      *)

(* The user wants s on, or has configured a start with the system since.    *)
Desired(s) == asked[s].os \/ asked[s].wb = "on"

(* Whatever may lead to an automatic open of s was wanted: a remembered     *)
(* state, a running function (its state is remembered when it is closed),   *)
(* and the open itself.                                                     *)
OnlyDesired(s) ==
    /\ Reopens(s) => Desired(s)
    /\ StartedFn(s) => Desired(s)
    /\ hub.op = "attach" /\ hub.serial = s => Desired(s)

WInv == IInv /\ \A s \in Serial \ raced : OnlyDesired(s)

(* What leaves the decisions of s alone and starts nothing.                 *)
LEMMA DesiredFrame ==
    ASSUME NEW s \in Serial, OnlyDesired(s),
           asked'[s] = asked[s], old'[s] = old[s],
           StartedFn(s)' => StartedFn(s),
           hub'.op = "attach" /\ hub'.serial = s =>
               Reopens(s) \/ (hub.op = "attach" /\ hub.serial = s)
    PROVE  OnlyDesired(s)'
BY DEF OnlyDesired, Desired, Reopens

LEMMA HubDesired ==
    ASSUME WInv, HubNext, NEW s \in Serial \ raced'
    PROVE  OnlyDesired(s)'
<1>1. /\ s \notin raced /\ OnlyDesired(s) /\ IInv /\ RInv /\ TypeOK
      /\ asked' = asked /\ old' = old
  BY DEF WInv, IInv, RInv, HubNext, Attach, AttachDone, Detach, DetachDone, Enter, registry, history
<1>2. ASSUME NEW t \in Serial, NEW i \in Iface, Attach(t, i)
      PROVE  OnlyDesired(s)'
  <2>1. ~block[i].live /\ Vacant(t)
    BY <1>2 DEF Attach, TakeSlot, Free
  <2>2. StartedFn(s)' => StartedFn(s)
    <3>1. CASE s = t
      BY <1>1, <1>2, <3>1 DEF Attach, StartedFn, TypeOK
    <3>2. CASE s # t
      BY <1>1, <1>2, <2>1, <3>2 DEF Attach, StartedFn, Vacant, RInv, RegistrySound, TypeOK
    <3> QED
      BY <3>1, <3>2
  <2>3. hub'.op = "attach" /\ hub'.serial = s => Reopens(s)
    BY <1>2 DEF Attach, HubIdle
  <2> QED
    BY <1>1, <2>2, <2>3, DesiredFrame
<1>3. ASSUME NEW ok \in BOOLEAN, AttachDone(ok)
      PROVE  OnlyDesired(s)'
  <2>1. /\ hub' = HubIdle /\ slot' = slot
        /\ hub.op = "attach" /\ hub.serial \in Serial /\ slot[hub.serial] = hub.iface
    BY <1>1, <1>3 DEF AttachDone, registry, RInv, HubOK, TypeOK, HubState
  <2>2. CASE hub.serial = s
    BY <1>1, <2>1, <2>2 DEF OnlyDesired, Desired, Reopens, HubIdle
  <2>3. CASE hub.serial # s
    <3>1. ~Vacant(s) => slot[s] # hub.iface
      BY <1>1, <2>1, <2>3, SlotsDiffer
    <3>2. StartedFn(s)' => StartedFn(s)
      BY <1>1, <1>3, <2>1, <3>1 DEF AttachDone, StartedFn, Vacant, TypeOK
    <3> QED
      BY <1>1, <2>1, <3>2, DesiredFrame DEF HubIdle
  <2> QED
    BY <2>2, <2>3
<1>4. ASSUME NEW t \in Serial, Detach(t)
      PROVE  OnlyDesired(s)'
  <2>1. /\ slot' = [slot EXCEPT ![t] = NoIface] /\ ~Vacant(t)
        /\ block' = block \/ block' = [block EXCEPT ![slot[t]] = Free]
    BY <1>4 DEF Detach, Release
  <2>2. StartedFn(s)' => StartedFn(s)
    BY <1>1, <2>1, SlotsDiffer DEF StartedFn, Vacant, TypeOK
  <2>3. hub'.op # "attach"
    BY <1>4 DEF Detach, HubIdle
  <2> QED
    BY <1>1, <2>2, <2>3, DesiredFrame
<1>5. ASSUME DetachDone
      PROVE  OnlyDesired(s)'
  <2>1. /\ slot' = slot /\ hub' = HubIdle /\ hub.iface \in Iface
        /\ block' = [block EXCEPT ![hub.iface] = Free]
    BY <1>1, <1>5 DEF DetachDone, Release, registry, RInv, HubOK
  <2>2. StartedFn(s)' => StartedFn(s)
    BY <1>1, <2>1 DEF StartedFn, Vacant, TypeOK, Free
  <2> QED
    BY <1>1, <2>1, <2>2, DesiredFrame DEF HubIdle
<1> QED
  BY <1>2, <1>3, <1>4, <1>5 DEF HubNext

LEMMA PlugInDoneDesired ==
    ASSUME WInv, NEW c \in Caller, NEW ok \in BOOLEAN, PlugInDone(c, ok),
           NEW s \in Serial \ raced'
    PROVE  OnlyDesired(s)'
<1> DEFINE t == call[c].serial
<1>1. s \notin raced /\ OnlyDesired(s) /\ RInv /\ TypeOK
  BY DEF WInv, IInv, RInv, PlugInDone
<1>2. slot' = slot /\ hub' = hub /\ t \in Serial
  BY <1>1 DEF PlugInDone, TypeOK, CallState
<1>3. CASE ok /\ ~Vacant(t)
  <2>1. /\ block' = [block EXCEPT ![slot[t]].devstate = "Started"]
        /\ old' = [old EXCEPT ![t] = "Started"]
        /\ asked' = [asked EXCEPT ![t] = [wb |-> "on", os |-> FALSE]]
    BY <1>3 DEF PlugInDone, Remember
  <2>2. CASE t = s
    <3>1. Desired(s)'
      BY <1>1, <2>1, <2>2 DEF Desired, TypeOK
    <3> QED
      BY <3>1 DEF OnlyDesired
  <2>3. CASE t # s
    <3>1. ~Vacant(s) => slot[s] # slot[t]
      BY <1>1, <1>2, <2>3, SlotsDiffer
    <3>2. StartedFn(s)' => StartedFn(s)
      BY <1>1, <1>2, <2>1, <3>1 DEF StartedFn, Vacant, TypeOK
    <3>3. asked'[s] = asked[s] /\ old'[s] = old[s]
      BY <1>1, <2>1, <2>3 DEF TypeOK
    <3> QED
      BY <1>1, <1>2, <3>2, <3>3, DesiredFrame
  <2> QED
    BY <2>2, <2>3
<1>4. CASE ~(ok /\ ~Vacant(t))
  <2>1. UNCHANGED <<block, old, asked>>
    BY <1>4 DEF PlugInDone
  <2> QED
    BY <1>1, <1>2, <2>1, DesiredFrame DEF StartedFn, Vacant
<1> QED
  BY <1>3, <1>4

LEMMA CloseDesired ==
    ASSUME WInv, NEW c \in Caller, NEW t \in Serial, NEW n, BeginClose(c, t, n),
           NEW s \in Serial \ raced'
    PROVE  OnlyDesired(s)'
<1>1. s \notin raced /\ OnlyDesired(s) /\ TypeOK
  BY DEF WInv, IInv, RInv, BeginClose, Enter
<1>2. /\ slot' = slot /\ block' = block /\ hub' = hub /\ asked' = asked
      /\ old' = [old EXCEPT ![t] = block[slot[t]].devstate]
      /\ ~Vacant(t)
  BY DEF BeginClose, Remember
<1>3. StartedFn(s)' <=> StartedFn(s)
  BY <1>2 DEF StartedFn, Vacant
<1>4. CASE t = s
  <2>1. block[slot[s]].devstate \in DevState
    BY <1>1, <1>2, <1>4 DEF TypeOK, Vacant, Block
  <2>2. Reopens(s)' => StartedFn(s)
    BY <1>1, <1>2, <1>4, <2>1 DEF Reopens, StartedFn, TypeOK, DevState
  <2> QED
    BY <1>1, <1>2, <1>3, <2>2 DEF OnlyDesired, Desired
<1>5. CASE t # s
  <2>1. old'[s] = old[s]
    BY <1>1, <1>2, <1>5 DEF TypeOK
  <2> QED
    BY <1>1, <1>2, <1>3, <2>1, DesiredFrame
<1> QED
  BY <1>4, <1>5

LEMMA UnPlugDoneDesired ==
    ASSUME WInv, NEW c \in Caller, UnPlugDone(c), NEW s \in Serial \ raced'
    PROVE  OnlyDesired(s)'
<1> DEFINE t == call[c].serial
<1>1. s \notin raced /\ OnlyDesired(s) /\ Quiet(s) /\ RInv /\ TypeOK
  BY DEF WInv, IInv, RInv, UnPlugDone
<1>2. slot' = slot /\ hub' = hub /\ t \in Serial /\ call[c].op = "unplug"
  BY <1>1 DEF UnPlugDone, TypeOK, CallState
<1>3. CASE ~Vacant(t)
  <2>1. /\ block' = [block EXCEPT ![slot[t]].devstate = "Stopped"]
        /\ old' = [old EXCEPT ![t] = "Stopped"]
        /\ asked' = [asked EXCEPT ![t] = [wb |-> "off", os |-> FALSE]]
    BY <1>3 DEF UnPlugDone, Remember
  <2>2. CASE t = s
    <3>1. ~BusyHub(s)
      BY <1>1, <1>2, <2>2 DEF Quiet, SoleHandler, BusyCaller, InCallback
    <3>2. ~StartedFn(s)' /\ ~Reopens(s)'
      BY <1>1, <1>2, <1>3, <2>1, <2>2 DEF StartedFn, Reopens, Vacant, TypeOK, Block
    <3> QED
      BY <1>2, <3>1, <3>2 DEF OnlyDesired, BusyHub
  <2>3. CASE t # s
    <3>1. ~Vacant(s) => slot[s] # slot[t]
      BY <1>1, <1>2, <2>3, SlotsDiffer
    <3>2. StartedFn(s)' => StartedFn(s)
      BY <1>1, <1>2, <2>1, <3>1 DEF StartedFn, Vacant, TypeOK
    <3>3. asked'[s] = asked[s] /\ old'[s] = old[s]
      BY <1>1, <2>1, <2>3 DEF TypeOK
    <3> QED
      BY <1>1, <1>2, <3>2, <3>3, DesiredFrame
  <2> QED
    BY <2>2, <2>3
<1>4. CASE Vacant(t)
  <2>1. UNCHANGED <<block, old, asked>>
    BY <1>4 DEF UnPlugDone
  <2> QED
    BY <1>1, <1>2, <2>1, DesiredFrame DEF StartedFn, Vacant
<1> QED
  BY <1>3, <1>4

LEMMA CallerDesired ==
    ASSUME WInv, NEW c \in Caller, CallerNext(c), NEW s \in Serial \ raced'
    PROVE  OnlyDesired(s)'
<1>1. RInv /\ TypeOK /\ CallOK
  BY DEF WInv, IInv, RInv
<1>2. ASSUME NEW t \in Serial, UnPlug(c, t)
      PROVE  OnlyDesired(s)'
  BY <1>2, CloseDesired DEF UnPlug
<1>3. ASSUME NEW h \in HotkeyValues, SetHotkeyFlag(c, h)
      PROVE  OnlyDesired(s)'
  BY <1>3 DEF SetHotkeyFlag, OnlyDesired, Desired
<1>4. ASSUME \/ \E t \in Serial : PlugIn(c, t)
             \/ UnPlugAll(c)
             \/ \E a \in AntennaValues : SetAntenna(c, a)
      PROVE  OnlyDesired(s)'
  <2>1. s \notin raced /\ slot' = slot /\ old' = old /\ asked' = asked /\ hub' = hub
    BY <1>4 DEF PlugIn, UnPlugAll, SetAntenna, Enter, registry, history
  <2>2. \A i \in Iface : block'[i].devstate = block[i].devstate
    BY <1>1, <1>4 DEF PlugIn, UnPlugAll, SetAntenna, registry, TypeOK, Block
  <2>3. StartedFn(s)' <=> StartedFn(s)
    BY <1>1, <2>1, <2>2 DEF StartedFn, Vacant, TypeOK
  <2> QED
    BY <2>1, <2>3, DesiredFrame DEF WInv
<1>5. ASSUME ScanSlot(c)
      PROVE  OnlyDesired(s)'
  <2>1. SlotOrder[call[c].next] \in Serial
    BY <1>1, <1>5, Constants DEF ScanSlot, CallOK
  <2>2. CASE BeginClose(c, SlotOrder[call[c].next], call[c].next + 1)
    BY <2>1, <2>2, CloseDesired
  <2>3. CASE UNCHANGED <<registry, block, hub, opened, history>>
    BY <2>3, DesiredFrame DEF WInv, registry, history, StartedFn, Vacant
  <2> QED
    BY <1>5, <2>2, <2>3 DEF ScanSlot
<1> QED
  BY <1>2, <1>3, <1>4, <1>5, PlugInDoneDesired, UnPlugDoneDesired DEF CallerNext

(***************************************************************************)
(* A function is opened during the probe only if the user wanted it: what  *)
(* was unplugged stays off, however often the card is pulled and inserted. *)
(***************************************************************************)
THEOREM AutoOpenCorrect == Spec => []AutoOpenJustified
<1>1. Init => WInv
  <2>1. Init => \A s \in Serial : OnlyDesired(s)
    BY DEF Init, OnlyDesired, Reopens, StartedFn, Vacant, HubIdle
  <2> QED
    BY <2>1, InitInvariant DEF WInv
<1>2. WInv /\ [Next]_vars => WInv'
  <2> SUFFICES ASSUME WInv, [Next]_vars
               PROVE  WInv'
    OBVIOUS
  <2>1. IInv'
    BY NextInvariant DEF WInv
  <2>2. ASSUME NEW s \in Serial \ raced'
        PROVE  OnlyDesired(s)'
    <3>1. CASE UNCHANGED vars
      BY <3>1, DesiredFrame DEF vars, registry, history, WInv, StartedFn, Vacant
    <3> QED
      BY <3>1, HubDesired, CallerDesired DEF Next
  <2> QED
    BY <2>1, <2>2 DEF WInv
<1>3. WInv => AutoOpenJustified
  BY DEF WInv, OnlyDesired, Desired, AutoOpenJustified
<1> QED
  BY <1>1, <1>2, <1>3, PTL DEF Spec

-----------------------------------------------------------------------------
(***************************************************************************)
(* The bus implements module FunctionLifecycle for each function.  The     *)
(* relation of a step of the lifecycle is stated once, for the values      *)
(* before and after, and instantiated for the two functions at the end.    *)
(***************************************************************************)
(* The radio of a function without overlap, by what devstate says of it.    *)
RadioMode(s) ==
    IF OpeningNow(s) THEN "opening"
    ELSE IF ClosingNow(s) THEN "closing"
    ELSE IF DetachingNow(s) THEN "detaching"
    ELSE IF Vacant(s) THEN "gone"
    ELSE IF StartedFn(s) THEN "on" ELSE "off"

LEMMA BusyIs ==
    ASSUME TypeOK, NEW s \in Serial
    PROVE  Busy(s) <=> OpeningNow(s) \/ ClosingNow(s) \/ DetachingNow(s)
BY DEF Busy, BusyHub, BusyCaller, InCallback, OpeningNow, ClosingNow, DetachingNow, TypeOK, HubState

RadioMatches == \A s \in Serial \ raced : Radio(s) = RadioMode(s)

LEMMA RadioIs == IInv => RadioMatches
<1> SUFFICES ASSUME IInv, NEW s \in Serial \ raced
             PROVE  Radio(s) = RadioMode(s)
  BY DEF RadioMatches
<1>1. TypeOK /\ Quiet(s)
  BY DEF IInv, RInv
<1>2. ~(OpeningNow(s) /\ ClosingNow(s)) /\ ~(OpeningNow(s) /\ DetachingNow(s))
      /\ ~(ClosingNow(s) /\ DetachingNow(s))
  BY <1>1 DEF Quiet, SoleHandler, BusyCaller, BusyHub, InCallback, OpeningNow, ClosingNow,
              DetachingNow
<1>3. ~Busy(s) => (StartedFn(s) <=> ~Vacant(s) /\ slot[s] \in opened[s])
  BY <1>1, QuietIdle DEF StartedFn, Vacant
<1>4. Busy(s) <=> OpeningNow(s) \/ ClosingNow(s) \/ DetachingNow(s)
  BY <1>1, BusyIs
<1> HIDE DEF OpeningNow, ClosingNow, DetachingNow, Busy, Vacant, StartedFn
<1> QED
  BY <1>2, <1>3, <1>4 DEF Radio, RadioMode

(* Of two busy handlers one kind only: the value of RadioMode on a busy function. *)
LEMMA ModeBusy ==
    ASSUME NEW s \in Serial, TypeOK, Busy(s)
    PROVE  RadioMode(s) \in {"opening", "closing", "detaching"}
BY BusyIs DEF RadioMode

LEMMA ModeIdle ==
    ASSUME NEW s \in Serial, TypeOK, ~Busy(s)
    PROVE  RadioMode(s) = IF Vacant(s) THEN "gone" ELSE IF StartedFn(s) THEN "on" ELSE "off"
BY BusyIs DEF RadioMode

-----------------------------------------------------------------------------
(* The steps of the lifecycle, from radio x and automatic opening f to      *)
(* radio y and g.                                                           *)
Step(x, f, y, g) ==
    \/ x = "gone" /\ y = (IF f THEN "opening" ELSE "off") /\ g = f
    \/ x = "off" /\ y = "opening" /\ g = f
    \/ x = "opening" /\ y = "on" /\ g = TRUE
    \/ x = "opening" /\ y = "off" /\ g = f
    \/ x \in {"on", "off"} /\ y = "closing" /\ g = (x = "on")
    \/ x = "closing" /\ y = "off" /\ g = FALSE
    \/ x = "off" /\ y = "gone" /\ g = f
    \/ x = "on" /\ y = "detaching" /\ g = f
    \/ x = "detaching" /\ y = "gone" /\ g = f
    \/ x # "lost" /\ y = x /\ g = TRUE
    \/ x \in {"opening", "closing", "detaching"} /\ y = "lost" /\ g = FALSE
    \/ y = x /\ g = f

(* While the probe opens a function by itself, it is remembered as one to   *)
(* be opened.                                                               *)
Remembered == hub.op = "attach" /\ hub.serial \notin raced => Reopens(hub.serial)

LifeInv == IInv /\ Remembered

(* What does not concern s leaves its mode as it is.                        *)
LEMMA ModeFrame ==
    ASSUME NEW s \in Serial,
           OpeningNow(s)' <=> OpeningNow(s),
           ClosingNow(s)' <=> ClosingNow(s),
           DetachingNow(s)' <=> DetachingNow(s),
           slot'[s] = slot[s],
           StartedFn(s)' <=> StartedFn(s)
    PROVE  RadioMode(s)' = RadioMode(s)
BY DEF RadioMode, Vacant

LEMMA AttachStep ==
    ASSUME LifeInv, NEW t \in Serial, NEW i \in Iface, Attach(t, i), NEW s \in Serial \ raced'
    PROVE  Step(RadioMode(s), Reopens(s), RadioMode(s)', Reopens(s)')
<1>1. s \notin raced /\ Quiet(s) /\ RInv /\ TypeOK
  BY DEF Attach, Enter, LifeInv, IInv, RInv
<1>2. /\ hub = HubIdle /\ Vacant(t) /\ ~block[i].live /\ call' = call
      /\ slot' = [slot EXCEPT ![t] = i]
      /\ old' = old
  BY DEF Attach, TakeSlot, Free
<1>3. (Reopens(s)' <=> Reopens(s)) /\ Reopens(s) \in BOOLEAN /\ Reopens(s)' \in BOOLEAN
  BY <1>2 DEF Reopens
<1>4. CASE t = s
  <2>1. ~Busy(s)
    BY <1>1, <1>2, <1>4, QuietVacant
  <2>2. RadioMode(s) = "gone"
    BY <1>1, <1>2, <1>4, <2>1, ModeIdle
  <2>3. ~OpeningNow(s) /\ ~ClosingNow(s) /\ ~DetachingNow(s)
    BY <1>1, <2>1, BusyIs
  <2>4. ~Vacant(s)' /\ ~StartedFn(s)'
    BY <1>1, <1>4, NoIfaceAssumption DEF Attach, Vacant, StartedFn, TypeOK
  <2>5. RadioMode(s)' = IF Reopens(s) THEN "opening" ELSE "off"
    <3>1. CASE Reopens(s)
      BY <1>4, <3>1 DEF Attach, RadioMode, OpeningNow
    <3>2. CASE ~Reopens(s)
      <4>1. hub' = hub
        BY <1>4, <3>2 DEF Attach
      <4>2. ~OpeningNow(s)' /\ ~ClosingNow(s)' /\ ~DetachingNow(s)'
        BY <1>2, <2>3, <4>1 DEF OpeningNow, ClosingNow, DetachingNow
      <4> QED
        BY <2>4, <3>2, <4>2 DEF RadioMode
    <3> QED
      BY <3>1, <3>2
  <2> QED
    BY <1>3, <2>2, <2>5 DEF Step
<1>5. CASE t # s
  <2>1. ~Vacant(s) => slot[s] \in Iface /\ slot[s] # i
    BY <1>1, <1>2 DEF RInv, RegistrySound, Vacant, TypeOK
  <2>2. slot'[s] = slot[s] /\ (StartedFn(s)' <=> StartedFn(s))
    BY <1>1, <1>2, <1>5, <2>1 DEF Attach, StartedFn, Vacant, TypeOK
  <2>3. /\ OpeningNow(s)' <=> OpeningNow(s)
        /\ ClosingNow(s)' <=> ClosingNow(s)
        /\ DetachingNow(s)' <=> DetachingNow(s)
    BY <1>2, <1>5 DEF Attach, OpeningNow, ClosingNow, DetachingNow, HubIdle
  <2>4. RadioMode(s)' = RadioMode(s)
    BY <2>2, <2>3, ModeFrame
  <2> QED
    BY <1>3, <2>4 DEF Step
<1> QED
  BY <1>4, <1>5

LEMMA AttachDoneStep ==
    ASSUME LifeInv, NEW ok \in BOOLEAN, AttachDone(ok), NEW s \in Serial \ raced'
    PROVE  Step(RadioMode(s), Reopens(s), RadioMode(s)', Reopens(s)')
<1>1. s \notin raced /\ Quiet(s) /\ RInv /\ TypeOK
  BY DEF AttachDone, history, LifeInv, IInv, RInv
<1>2. /\ hub.op = "attach" /\ hub.serial \in Serial /\ hub.iface \in Iface
      /\ slot[hub.serial] = hub.iface
      /\ slot' = slot /\ call' = call /\ hub' = HubIdle /\ old' = old
  BY <1>1 DEF AttachDone, registry, RInv, HubOK, TypeOK, HubState
<1>3. (Reopens(s)' <=> Reopens(s)) /\ Reopens(s) \in BOOLEAN /\ Reopens(s)' \in BOOLEAN
  BY <1>2 DEF Reopens
<1>4. CASE hub.serial = s
  <2>1. RadioMode(s) = "opening" /\ Reopens(s)
    BY <1>1, <1>2, <1>4 DEF RadioMode, OpeningNow, LifeInv, Remembered
  <2>2. ~OpeningNow(s)' /\ ~ClosingNow(s)' /\ ~DetachingNow(s)'
    BY <1>1, <1>2, <1>4 DEF Quiet, SoleHandler, BusyHub, BusyCaller, InCallback, OpeningNow,
                            ClosingNow, DetachingNow, HubIdle
  <2>3. ~Vacant(s)' /\ (StartedFn(s)' <=> ok)
    <3>1. ~StartedFn(s) /\ slot[s] # NoIface
      BY <1>1, <1>2, <1>4, NoIfaceAssumption DEF Quiet, OpensFromOff
    <3>2. CASE ok
      BY <1>1, <1>2, <1>4, <3>1, <3>2 DEF AttachDone, StartedFn, Vacant, TypeOK, Block
    <3>3. CASE ~ok
      BY <1>2, <3>1, <3>3 DEF AttachDone, StartedFn, Vacant
    <3> QED
      BY <3>2, <3>3
  <2>4. RadioMode(s)' = IF ok THEN "on" ELSE "off"
    BY <2>2, <2>3 DEF RadioMode
  <2> QED
    BY <1>3, <2>1, <2>4 DEF Step
<1>5. CASE hub.serial # s
  <2>1. ~Vacant(s) => slot[s] # hub.iface
    BY <1>1, <1>2, <1>5, SlotsDiffer
  <2>2. StartedFn(s)' <=> StartedFn(s)
    BY <1>1, <1>2, <2>1 DEF AttachDone, StartedFn, Vacant, TypeOK
  <2>3. /\ OpeningNow(s)' <=> OpeningNow(s)
        /\ ClosingNow(s)' <=> ClosingNow(s)
        /\ DetachingNow(s)' <=> DetachingNow(s)
    BY <1>2, <1>5 DEF OpeningNow, ClosingNow, DetachingNow, HubIdle
  <2>4. RadioMode(s)' = RadioMode(s)
    BY <1>2, <2>2, <2>3, ModeFrame
  <2> QED
    BY <1>3, <2>4 DEF Step
<1> QED
  BY <1>4, <1>5

LEMMA DetachStep ==
    ASSUME LifeInv, NEW t \in Serial, Detach(t), NEW s \in Serial \ raced'
    PROVE  Step(RadioMode(s), Reopens(s), RadioMode(s)', Reopens(s)')
<1>1. s \notin raced /\ Quiet(s) /\ RInv /\ TypeOK
  BY DEF Detach, Enter, LifeInv, IInv, RInv
<1>2. /\ hub = HubIdle /\ ~Vacant(t) /\ call' = call /\ old' = old
      /\ slot' = [slot EXCEPT ![t] = NoIface]
      /\ block' = block \/ block' = [block EXCEPT ![slot[t]] = Free]
  BY DEF Detach, Release
<1>3. (Reopens(s)' <=> Reopens(s)) /\ Reopens(s) \in BOOLEAN /\ Reopens(s)' \in BOOLEAN
  BY <1>2 DEF Reopens
<1>4. CASE t = s
  <2>1. ~Busy(s)
    BY <1>4 DEF Detach, Enter
  <2>2. RadioMode(s) = IF NeedsClose(s) THEN "on" ELSE "off"
    BY <1>1, <1>2, <1>4, <2>1, ModeIdle DEF NeedsClose
  <2>3. ~OpeningNow(s) /\ ~ClosingNow(s) /\ ~DetachingNow(s)
    BY <1>1, <2>1, BusyIs
  <2>4. ~OpeningNow(s)' /\ ~ClosingNow(s)'
    BY <1>2, <2>3 DEF Detach, OpeningNow, ClosingNow, HubIdle
  <2>5. DetachingNow(s)' <=> NeedsClose(s)
    BY <1>2, <1>4 DEF Detach, DetachingNow, HubIdle
  <2>6. Vacant(s)'
    BY <1>1, <1>2, <1>4 DEF Vacant, TypeOK
  <2>7. RadioMode(s)' = IF NeedsClose(s) THEN "detaching" ELSE "gone"
    BY <2>4, <2>5, <2>6 DEF RadioMode
  <2> QED
    BY <1>3, <2>2, <2>7 DEF Step
<1>5. CASE t # s
  <2>1. ~Vacant(s) => slot[s] # slot[t]
    BY <1>1, <1>5, SlotsDiffer
  <2>2. slot'[s] = slot[s] /\ (StartedFn(s)' <=> StartedFn(s))
    BY <1>1, <1>2, <1>5, <2>1 DEF StartedFn, Vacant, TypeOK
  <2>3. /\ OpeningNow(s)' <=> OpeningNow(s)
        /\ ClosingNow(s)' <=> ClosingNow(s)
        /\ DetachingNow(s)' <=> DetachingNow(s)
    BY <1>2, <1>5 DEF Detach, OpeningNow, ClosingNow, DetachingNow, HubIdle
  <2>4. RadioMode(s)' = RadioMode(s)
    BY <2>2, <2>3, ModeFrame
  <2> QED
    BY <1>3, <2>4 DEF Step
<1> QED
  BY <1>4, <1>5

LEMMA DetachDoneStep ==
    ASSUME LifeInv, DetachDone, NEW s \in Serial \ raced'
    PROVE  Step(RadioMode(s), Reopens(s), RadioMode(s)', Reopens(s)')
<1>1. s \notin raced /\ Quiet(s) /\ RInv /\ TypeOK
  BY DEF DetachDone, LifeInv, IInv, RInv
<1>2. /\ hub.op = "detach" /\ hub.serial \in Serial /\ hub.iface \in Iface
      /\ Vacant(hub.serial) /\ block[hub.iface].serial = hub.serial
      /\ slot' = slot /\ call' = call /\ hub' = HubIdle /\ old' = old
      /\ block' = [block EXCEPT ![hub.iface] = Free]
  BY <1>1 DEF DetachDone, Release, registry, RInv, HubOK, TypeOK, HubState
<1>3. (Reopens(s)' <=> Reopens(s)) /\ Reopens(s) \in BOOLEAN /\ Reopens(s)' \in BOOLEAN
  BY <1>2 DEF Reopens
<1>4. CASE hub.serial = s
  <2>1. BusyHub(s) /\ ~OpeningNow(s) /\ ~ClosingNow(s) /\ DetachingNow(s)
    BY <1>1, <1>2, <1>4 DEF Quiet, SoleHandler, BusyHub, BusyCaller, InCallback, OpeningNow,
                            ClosingNow, DetachingNow
  <2>2. RadioMode(s) = "detaching"
    BY <2>1 DEF RadioMode
  <2>3. ~OpeningNow(s)' /\ ~ClosingNow(s)' /\ ~DetachingNow(s)' /\ Vacant(s)'
    BY <1>2, <1>4, <2>1 DEF OpeningNow, ClosingNow, DetachingNow, HubIdle, Vacant
  <2>4. RadioMode(s)' = "gone"
    BY <2>3 DEF RadioMode
  <2> QED
    BY <1>3, <2>2, <2>4 DEF Step
<1>5. CASE hub.serial # s
  <2>1. ~Vacant(s) => slot[s] # hub.iface
    BY <1>1, <1>2, <1>5 DEF RInv, RegistrySound
  <2>2. StartedFn(s)' <=> StartedFn(s)
    BY <1>1, <1>2, <2>1 DEF StartedFn, Vacant, TypeOK
  <2>3. /\ OpeningNow(s)' <=> OpeningNow(s)
        /\ ClosingNow(s)' <=> ClosingNow(s)
        /\ DetachingNow(s)' <=> DetachingNow(s)
    BY <1>2, <1>5 DEF OpeningNow, ClosingNow, DetachingNow, HubIdle
  <2>4. RadioMode(s)' = RadioMode(s)
    BY <1>2, <2>2, <2>3, ModeFrame
  <2> QED
    BY <1>3, <2>4 DEF Step
<1> QED
  BY <1>4, <1>5

(* A thread that enters or leaves a callback of t changes only t's mode.    *)
LEMMA CallerElsewhere ==
    ASSUME TypeOK, NEW c \in Caller, NEW t \in Serial, NEW s \in Serial, s # t, NEW r \in CallState,
           hub' = hub, call' = [call EXCEPT ![c] = r],
           InCallback(c) => call[c].serial = t,
           r.op \in {"plug", "unplug"} => r.serial = t
    PROVE  /\ OpeningNow(s)' <=> OpeningNow(s)
           /\ ClosingNow(s)' <=> ClosingNow(s)
           /\ DetachingNow(s)' <=> DetachingNow(s)
<1>1. call'[c] = r /\ \A d \in Caller \ {c} : call'[d] = call[d]
  BY DEF TypeOK
<1>2. /\ ~(call[c].op = "plug" /\ call[c].serial = s) /\ ~(r.op = "plug" /\ r.serial = s)
      /\ ~(call[c].op = "unplug" /\ call[c].serial = s) /\ ~(r.op = "unplug" /\ r.serial = s)
  BY DEF InCallback
<1>3. \A d \in Caller : /\ call'[d].op = "plug" /\ call'[d].serial = s <=>
                              call[d].op = "plug" /\ call[d].serial = s
                        /\ call'[d].op = "unplug" /\ call'[d].serial = s <=>
                              call[d].op = "unplug" /\ call[d].serial = s
  BY <1>1, <1>2
<1> QED
  BY <1>3 DEF OpeningNow, ClosingNow, DetachingNow

LEMMA PlugInStep ==
    ASSUME LifeInv, NEW c \in Caller, NEW t \in Serial, PlugIn(c, t), NEW s \in Serial \ raced'
    PROVE  Step(RadioMode(s), Reopens(s), RadioMode(s)', Reopens(s)')
<1> DEFINE r == [op |-> "plug", serial |-> t, iface |-> slot[t], next |-> 4]
<1>1. s \notin raced /\ Quiet(s) /\ RInv /\ TypeOK
  BY DEF PlugIn, Enter, LifeInv, IInv, RInv
<1>2. /\ ~Vacant(t) /\ ~StartedFn(t) /\ slot[t] \in Iface /\ call[c] = Idle
      /\ slot' = slot /\ block' = block /\ hub' = hub /\ old' = old
      /\ call' = [call EXCEPT ![c] = r]
  BY <1>1 DEF PlugIn, MayOpen, Vacant, TypeOK, registry
<1>3. (Reopens(s)' <=> Reopens(s)) /\ Reopens(s) \in BOOLEAN /\ Reopens(s)' \in BOOLEAN
  BY <1>2 DEF Reopens
<1>4. StartedFn(s)' <=> StartedFn(s)
  BY <1>2 DEF StartedFn, Vacant
<1>5. CASE t = s
  <2>1. ~Busy(s)
    BY <1>5 DEF PlugIn, Enter
  <2>2. RadioMode(s) = "off"
    BY <1>1, <1>2, <1>5, <2>1, ModeIdle
  <2>3. OpeningNow(s)'
    BY <1>1, <1>2, <1>5 DEF OpeningNow, TypeOK
  <2>4. RadioMode(s)' = "opening"
    BY <2>3 DEF RadioMode
  <2> QED
    BY <1>3, <2>2, <2>4 DEF Step
<1>6. CASE t # s
  <2>1. r \in CallState /\ r.serial = t /\ ~InCallback(c)
    BY <1>2 DEF CallState, InCallback, Idle
  <2>2. /\ OpeningNow(s)' <=> OpeningNow(s)
        /\ ClosingNow(s)' <=> ClosingNow(s)
        /\ DetachingNow(s)' <=> DetachingNow(s)
    BY <1>1, <1>2, <1>6, <2>1, CallerElsewhere
  <2>3. RadioMode(s)' = RadioMode(s)
    BY <1>2, <1>4, <2>2, ModeFrame
  <2> QED
    BY <1>3, <2>3 DEF Step
<1> QED
  BY <1>5, <1>6

LEMMA PlugInDoneStep ==
    ASSUME LifeInv, NEW c \in Caller, NEW ok \in BOOLEAN, PlugInDone(c, ok),
           NEW s \in Serial \ raced'
    PROVE  Step(RadioMode(s), Reopens(s), RadioMode(s)', Reopens(s)')
<1> DEFINE t == call[c].serial
<1>1. s \notin raced /\ Quiet(s) /\ RInv /\ TypeOK
  BY DEF PlugInDone, LifeInv, IInv, RInv
<1>2. /\ call[c].op = "plug" /\ t \in Serial
      /\ slot' = slot /\ hub' = hub /\ call' = [call EXCEPT ![c] = Idle]
      /\ block' = IF ok /\ ~Vacant(t) THEN [block EXCEPT ![slot[t]].devstate = "Started"] ELSE block
      /\ old' = IF ok /\ ~Vacant(t) THEN [old EXCEPT ![t] = "Started"] ELSE old
  BY <1>1 DEF PlugInDone, Remember, TypeOK, CallState
<1>3. Reopens(s) \in BOOLEAN /\ Reopens(s)' \in BOOLEAN
  BY DEF Reopens
<1>4. CASE t = s
  <2>1. BusyCaller(c, s) /\ OpeningNow(s)
    BY <1>2, <1>4 DEF BusyCaller, InCallback, OpeningNow
  <2>2. RadioMode(s) = "opening"
    BY <2>1 DEF RadioMode
  <2>3. /\ \A d \in Caller : BusyCaller(d, s) => d = c
        /\ ~BusyHub(s) /\ ~Vacant(s) /\ ~StartedFn(s)
    BY <1>1, <1>2, <1>4, <2>1 DEF Quiet, SoleHandler, CallsMatchSlot, OpensFromOff
  <2>4. ~OpeningNow(s)' /\ ~ClosingNow(s)' /\ ~DetachingNow(s)'
    <3>1. \A d \in Caller : ~BusyCaller(d, s)'
      BY <1>1, <1>2, <2>3 DEF BusyCaller, InCallback, Idle, TypeOK
    <3> QED
      BY <1>2, <2>3, <3>1 DEF BusyCaller, InCallback, BusyHub, OpeningNow, ClosingNow, DetachingNow
  <2>5. ~Vacant(s)' /\ (StartedFn(s)' <=> ok)
    <3>1. CASE ok
      BY <1>1, <1>2, <1>4, <2>3, <3>1 DEF StartedFn, Vacant, TypeOK, Block
    <3>2. CASE ~ok
      BY <1>2, <2>3, <3>2 DEF StartedFn, Vacant
    <3> QED
      BY <3>1, <3>2
  <2>6. RadioMode(s)' = IF ok THEN "on" ELSE "off"
    BY <2>4, <2>5 DEF RadioMode
  <2>7. Reopens(s)' = IF ok THEN TRUE ELSE Reopens(s)
    BY <1>1, <1>2, <1>4, <2>3 DEF Reopens, TypeOK
  <2> QED
    BY <1>3, <2>2, <2>6, <2>7 DEF Step
<1>5. CASE t # s
  <2>1. ~Vacant(s) => slot[s] # slot[t]
    BY <1>1, <1>2, <1>5, SlotsDiffer
  <2>2. StartedFn(s)' <=> StartedFn(s)
    BY <1>1, <1>2, <2>1 DEF StartedFn, Vacant, TypeOK
  <2>3. /\ OpeningNow(s)' <=> OpeningNow(s)
        /\ ClosingNow(s)' <=> ClosingNow(s)
        /\ DetachingNow(s)' <=> DetachingNow(s)
    BY <1>1, <1>2, <1>5, Constants, CallerElsewhere DEF Idle
  <2>4. RadioMode(s)' = RadioMode(s)
    BY <1>2, <2>2, <2>3, ModeFrame
  <2>5. Reopens(s)' = Reopens(s)
    BY <1>1, <1>2, <1>5 DEF Reopens, TypeOK
  <2> QED
    BY <1>3, <2>4, <2>5 DEF Step
<1> QED
  BY <1>4, <1>5

LEMMA CloseStep ==
    ASSUME LifeInv, NEW c \in Caller, NEW t \in Serial, NEW n \in 1..4, BeginClose(c, t, n),
           ~InCallback(c), NEW s \in Serial \ raced'
    PROVE  Step(RadioMode(s), Reopens(s), RadioMode(s)', Reopens(s)')
<1> DEFINE r == [op |-> "unplug", serial |-> t, iface |-> slot[t], next |-> n]
<1>1. s \notin raced /\ Quiet(s) /\ RInv /\ TypeOK
  BY DEF BeginClose, Enter, LifeInv, IInv, RInv
<1>2. /\ ~Vacant(t) /\ slot[t] \in Iface /\ block[slot[t]].devstate \in DevState
      /\ slot' = slot /\ block' = block /\ hub' = hub
      /\ old' = [old EXCEPT ![t] = block[slot[t]].devstate]
      /\ call' = [call EXCEPT ![c] = r]
  BY <1>1 DEF BeginClose, Remember, Vacant, TypeOK, Block
<1>3. Reopens(s) \in BOOLEAN /\ Reopens(s)' \in BOOLEAN
  BY DEF Reopens
<1>4. StartedFn(s)' <=> StartedFn(s)
  BY <1>2 DEF StartedFn, Vacant
<1>5. CASE t = s
  <2>1. ~Busy(s)
    BY <1>5 DEF BeginClose, Enter
  <2>2. RadioMode(s) = IF StartedFn(s) THEN "on" ELSE "off"
    BY <1>1, <1>2, <1>5, <2>1, ModeIdle
  <2>3. ~OpeningNow(s) /\ ClosingNow(s)'
    BY <1>1, <1>2, <1>5, <2>1, BusyIs DEF ClosingNow, TypeOK
  <2>4. ~OpeningNow(s)'
    BY <1>1, <1>2, <2>3 DEF OpeningNow, TypeOK
  <2>5. RadioMode(s)' = "closing"
    BY <2>3, <2>4 DEF RadioMode
  <2>6. Reopens(s)' <=> StartedFn(s)
    BY <1>1, <1>2, <1>5 DEF Reopens, StartedFn, DevState, TypeOK
  <2> QED
    BY <1>3, <2>2, <2>5, <2>6 DEF Step
<1>6. CASE t # s
  <2>1. r \in CallState /\ r.serial = t
    BY <1>2 DEF CallState
  <2>2. /\ OpeningNow(s)' <=> OpeningNow(s)
        /\ ClosingNow(s)' <=> ClosingNow(s)
        /\ DetachingNow(s)' <=> DetachingNow(s)
    BY <1>1, <1>2, <1>6, <2>1, CallerElsewhere
  <2>3. RadioMode(s)' = RadioMode(s)
    BY <1>2, <1>4, <2>2, ModeFrame
  <2>4. Reopens(s)' = Reopens(s)
    BY <1>1, <1>2, <1>6 DEF Reopens, TypeOK
  <2> QED
    BY <1>3, <2>3, <2>4 DEF Step
<1> QED
  BY <1>5, <1>6

LEMMA UnPlugDoneStep ==
    ASSUME LifeInv, NEW c \in Caller, UnPlugDone(c), NEW s \in Serial \ raced'
    PROVE  Step(RadioMode(s), Reopens(s), RadioMode(s)', Reopens(s)')
<1> DEFINE t == call[c].serial
<1>1. s \notin raced /\ Quiet(s) /\ RInv /\ TypeOK
  BY DEF UnPlugDone, LifeInv, IInv, RInv
<1>2. /\ call[c].op = "unplug" /\ t \in Serial /\ call[c].next \in 1..4
      /\ slot' = slot /\ hub' = hub
      /\ block' = IF ~Vacant(t) THEN [block EXCEPT ![slot[t]].devstate = "Stopped"] ELSE block
      /\ old' = IF ~Vacant(t) THEN [old EXCEPT ![t] = "Stopped"] ELSE old
  BY <1>1 DEF UnPlugDone, Remember, TypeOK, CallState
<1>3. PICK r \in CallState : call' = [call EXCEPT ![c] = r] /\ r.op \notin {"plug", "unplug"}
  <2>1. AfterSlot(call[c].next) \in CallState /\ AfterSlot(call[c].next).op \notin {"plug", "unplug"}
    BY <1>2, Constants DEF AfterSlot, CallState, Scanning, Idle, Serial
  <2>2. Idle \in CallState /\ Idle.op \notin {"plug", "unplug"}
    BY Constants DEF Idle
  <2> QED
    BY <2>1, <2>2 DEF UnPlugDone
<1>4. Reopens(s) \in BOOLEAN /\ Reopens(s)' \in BOOLEAN
  BY DEF Reopens
<1>5. CASE t = s
  <2>1. BusyCaller(c, s) /\ ClosingNow(s)
    BY <1>2, <1>5 DEF BusyCaller, InCallback, ClosingNow
  <2>2. /\ \A d \in Caller : BusyCaller(d, s) => d = c
        /\ ~BusyHub(s) /\ ~Vacant(s)
    BY <1>1, <2>1 DEF Quiet, SoleHandler, CallsMatchSlot
  <2>3. ~OpeningNow(s)
    BY <1>2, <2>2 DEF OpeningNow, BusyHub, BusyCaller, InCallback
  <2>4. RadioMode(s) = "closing"
    BY <2>1, <2>3 DEF RadioMode
  <2>5. ~OpeningNow(s)' /\ ~ClosingNow(s)' /\ ~DetachingNow(s)'
    <3>1. \A d \in Caller : ~BusyCaller(d, s)'
      BY <1>1, <1>3, <2>2 DEF BusyCaller, InCallback, TypeOK
    <3> QED
      BY <1>2, <2>2, <3>1 DEF BusyCaller, InCallback, BusyHub, OpeningNow, ClosingNow, DetachingNow
  <2>6. ~Vacant(s)' /\ ~StartedFn(s)' /\ ~Reopens(s)'
    BY <1>1, <1>2, <1>5, <2>2 DEF StartedFn, Vacant, Reopens, TypeOK, Block
  <2>7. RadioMode(s)' = "off"
    BY <2>5, <2>6 DEF RadioMode
  <2> QED
    BY <1>4, <2>4, <2>6, <2>7 DEF Step
<1>6. CASE t # s
  <2>1. ~Vacant(s) => slot[s] # slot[t]
    BY <1>1, <1>2, <1>6, SlotsDiffer
  <2>2. StartedFn(s)' <=> StartedFn(s)
    BY <1>1, <1>2, <2>1 DEF StartedFn, Vacant, TypeOK
  <2>3. /\ OpeningNow(s)' <=> OpeningNow(s)
        /\ ClosingNow(s)' <=> ClosingNow(s)
        /\ DetachingNow(s)' <=> DetachingNow(s)
    BY <1>1, <1>2, <1>3, <1>6, CallerElsewhere
  <2>4. RadioMode(s)' = RadioMode(s)
    BY <1>2, <2>2, <2>3, ModeFrame
  <2>5. Reopens(s)' = Reopens(s)
    BY <1>1, <1>2, <1>6 DEF Reopens, TypeOK
  <2> QED
    BY <1>4, <2>4, <2>5 DEF Step
<1> QED
  BY <1>5, <1>6

(* The calls that reach no driver move no radio; SET_HOTKEY_FLAG lets every *)
(* function come back by itself.                                            *)
LEMMA OtherStep ==
    ASSUME LifeInv, NEW c \in Caller, NEW s \in Serial \ raced',
           \/ UnPlugAll(c)
           \/ ScanSlot(c) /\ call' = [call EXCEPT ![c] = AfterSlot(call[c].next + 1)]
                          /\ UNCHANGED <<registry, block, hub, opened, history>>
           \/ \E h \in HotkeyValues : SetHotkeyFlag(c, h)
           \/ \E a \in AntennaValues : SetAntenna(c, a)
    PROVE  Step(RadioMode(s), Reopens(s), RadioMode(s)', Reopens(s)')
<1>1. s \notin raced /\ RInv /\ TypeOK /\ slot' = slot /\ hub' = hub
  BY DEF LifeInv, IInv, RInv, UnPlugAll, ScanSlot, SetHotkeyFlag, SetAntenna, registry, history
<1>2. \A i \in Iface : block'[i].devstate = block[i].devstate
  <2>1. block \in [Iface -> Block]
    BY <1>1 DEF TypeOK
  <2>2. CASE block' = block
    BY <2>2
  <2>3. ASSUME NEW h \in HotkeyValues, SetHotkeyFlag(c, h)
        PROVE  \A i \in Iface : block'[i].devstate = block[i].devstate
    BY <2>1, <2>3 DEF SetHotkeyFlag, Block
  <2>4. ASSUME NEW a \in AntennaValues, SetAntenna(c, a)
        PROVE  \A i \in Iface : block'[i].devstate = block[i].devstate
    BY <2>1, <2>4 DEF SetAntenna, Block
  <2> QED
    BY <2>2, <2>3, <2>4 DEF UnPlugAll
<1>3. StartedFn(s)' <=> StartedFn(s)
  BY <1>1, <1>2 DEF StartedFn, Vacant, TypeOK
<1>4. \A d \in Caller : InCallback(d) \/ InCallback(d)' => call'[d] = call[d]
  <2>1. AfterSlot(call[c].next + 1).op \notin {"plug", "unplug"}
    BY DEF AfterSlot, Scanning, Idle
  <2>2. CASE call' = call
    BY <2>2
  <2>3. CASE UnPlugAll(c)
    BY <1>1, <2>3 DEF UnPlugAll, Scanning, InCallback, Idle, TypeOK
  <2>4. CASE ScanSlot(c) /\ call' = [call EXCEPT ![c] = AfterSlot(call[c].next + 1)]
    BY <1>1, <2>1, <2>4 DEF ScanSlot, InCallback, TypeOK
  <2> QED
    BY <2>2, <2>3, <2>4 DEF SetHotkeyFlag, SetAntenna
<1>5. /\ OpeningNow(s)' <=> OpeningNow(s)
      /\ ClosingNow(s)' <=> ClosingNow(s)
      /\ DetachingNow(s)' <=> DetachingNow(s)
  BY <1>1, <1>4 DEF OpeningNow, ClosingNow, DetachingNow, InCallback
<1>6. RadioMode(s)' = RadioMode(s)
  BY <1>1, <1>3, <1>5, ModeFrame
<1>7. RadioMode(s) # "lost"
  BY DEF RadioMode
<1>8. CASE \E h \in HotkeyValues : SetHotkeyFlag(c, h)
  <2>1. Reopens(s)' = TRUE
    BY <1>8 DEF SetHotkeyFlag, Reopens
  <2> QED
    BY <1>6, <1>7, <2>1 DEF Step
<1>9. CASE UNCHANGED old
  <2>1. Reopens(s)' = Reopens(s)
    BY <1>9 DEF Reopens
  <2> QED
    BY <1>6, <2>1 DEF Step
<1> QED
  BY <1>8, <1>9 DEF UnPlugAll, SetAntenna, registry

LEMMA QuietStep ==
    ASSUME LifeInv, [Next]_vars, NEW s \in Serial \ raced'
    PROVE  Step(RadioMode(s), Reopens(s), RadioMode(s)', Reopens(s)')
<1>1. ASSUME HubNext
      PROVE  Step(RadioMode(s), Reopens(s), RadioMode(s)', Reopens(s)')
  BY <1>1, AttachStep, AttachDoneStep, DetachStep, DetachDoneStep DEF HubNext
<1>2. ASSUME NEW c \in Caller, CallerNext(c)
      PROVE  Step(RadioMode(s), Reopens(s), RadioMode(s)', Reopens(s)')
  <2>1. ASSUME NEW t \in Serial, UnPlug(c, t)
        PROVE  Step(RadioMode(s), Reopens(s), RadioMode(s)', Reopens(s)')
    BY <2>1, CloseStep DEF UnPlug, InCallback, Idle
  <2>2. ASSUME ScanSlot(c)
        PROVE  Step(RadioMode(s), Reopens(s), RadioMode(s)', Reopens(s)')
    <3>1. /\ SlotOrder[call[c].next] \in Serial /\ call[c].next + 1 \in 1..4
          /\ ~InCallback(c)
      BY <2>2, Constants DEF ScanSlot, LifeInv, IInv, RInv, CallOK, InCallback
    <3>2. CASE BeginClose(c, SlotOrder[call[c].next], call[c].next + 1)
      BY <3>1, <3>2, CloseStep
    <3>3. CASE /\ call' = [call EXCEPT ![c] = AfterSlot(call[c].next + 1)]
               /\ UNCHANGED <<registry, block, hub, opened, history>>
      BY <2>2, <3>3, OtherStep
    <3> QED
      BY <2>2, <3>2, <3>3 DEF ScanSlot
  <2> QED
    BY <1>2, <2>1, <2>2, PlugInStep, PlugInDoneStep, UnPlugDoneStep, OtherStep DEF CallerNext
<1>3. CASE UNCHANGED vars
  <2>1. StartedFn(s)' <=> StartedFn(s)
    BY <1>3 DEF vars, registry, StartedFn, Vacant
  <2>2. RadioMode(s)' = RadioMode(s)
    BY <1>3, <2>1, ModeFrame DEF vars, registry, OpeningNow, ClosingNow, DetachingNow
  <2>3. Reopens(s)' = Reopens(s)
    BY <1>3 DEF vars, registry, Reopens
  <2> QED
    BY <2>2, <2>3 DEF Step
<1> QED
  BY <1>1, <1>2, <1>3 DEF Next

-----------------------------------------------------------------------------
(* The invariant.                                                          *)

LEMMA InitRefinement == Init => LifeInv
BY InitInvariant DEF Init, LifeInv, Remembered, HubIdle

LEMMA NextRefinement == LifeInv /\ [Next]_vars => LifeInv'
<1> SUFFICES ASSUME LifeInv, [Next]_vars
             PROVE  LifeInv'
  OBVIOUS
<1>1. IInv'
  BY NextInvariant DEF LifeInv
<1>2. /\ IInv /\ RInv /\ TypeOK /\ Remembered /\ hub.serial \in Serial
  BY DEF LifeInv, IInv, RInv, TypeOK, HubState
<1>3. ASSUME hub' = hub, hub.op = "attach", hub.serial \notin raced'
      PROVE  Reopens(hub.serial)'
  <2> DEFINE s == hub.serial
  <2>1. RadioMode(s) = "opening"
    BY <1>2, <1>3 DEF RadioMode, OpeningNow
  <2>2. RadioMode(s)' = "opening"
    BY <1>3 DEF RadioMode, OpeningNow
  <2>3. Step(RadioMode(s), Reopens(s), RadioMode(s)', Reopens(s)')
    BY <1>2, <1>3, QuietStep
  <2>4. Reopens(s)' = TRUE \/ Reopens(s)' = Reopens(s)
    BY <2>1, <2>2, <2>3 DEF Step
  <2>5. Reopens(s)
    <3>1. s \notin raced
      BY <1>3 DEF Next, HubNext, Attach, AttachDone, Detach, DetachDone, CallerNext, PlugIn, UnPlug,
                  PlugInDone, UnPlugAll, ScanSlot, UnPlugDone, BeginClose, SetHotkeyFlag, SetAntenna,
                  Enter, history, vars
    <3> QED
      BY <1>2, <1>3, <3>1 DEF Remembered
  <2> QED
    BY <2>4, <2>5
<1>4. ASSUME hub' # hub
      PROVE  Remembered'
  <2>1. ASSUME NEW s \in Serial, NEW i \in Iface, Attach(s, i)
        PROVE  Remembered'
    BY <1>4, <2>1 DEF Attach, Remembered, Reopens
  <2>2. ASSUME hub'.op # "attach"
        PROVE  Remembered'
    BY <2>2 DEF Remembered
  <2>3. HubNext
    BY <1>2, <1>4, CallerFrame DEF Next, vars
  <2> QED
    BY <1>4, <2>1, <2>2, <2>3 DEF HubNext, AttachDone, Detach, DetachDone, HubIdle
<1> QED
  BY <1>1, <1>3, <1>4 DEF LifeInv, Remembered

-----------------------------------------------------------------------------
(* Every step of the bus is one of the lifecycle, or none, for every        *)
(* function; an overlap loses the function for good.                        *)

LEMMA RacedStays == [Next]_vars => raced \subseteq raced'
BY DEF Next, HubNext, Attach, AttachDone, Detach, DetachDone, CallerNext, PlugIn, UnPlug,
       PlugInDone, UnPlugAll, ScanSlot, UnPlugDone, BeginClose, SetHotkeyFlag, SetAntenna,
       Enter, history, vars

(* A function is lost only while one of its handlers is inside.             *)
LEMMA RacedBusy ==
    ASSUME [Next]_vars, NEW s \in Serial, s \notin raced, s \in raced'
    PROVE  Busy(s)
BY DEF Next, HubNext, Attach, AttachDone, Detach, DetachDone, CallerNext, PlugIn, UnPlug,
       PlugInDone, UnPlugAll, ScanSlot, UnPlugDone, BeginClose, SetHotkeyFlag, SetAntenna,
       Enter, history, vars

LEMMA LifecycleStep ==
    ASSUME LifeInv, RadioMatches, RadioMatches', [Next]_vars, NEW s \in Serial
    PROVE  Step(Radio(s), Returns(s), Radio(s)', Returns(s)')
<1>1. TypeOK
  BY DEF LifeInv, IInv, RInv
<1>4. CASE s \in raced
  <2>1. s \in raced'
    BY <1>4, RacedStays
  <2>2. Radio(s) = "lost" /\ Radio(s)' = "lost"
    BY <1>4, <2>1 DEF Radio
  <2>3. Returns(s) = FALSE /\ Returns(s)' = FALSE
    BY <1>4, <2>1 DEF Returns
  <2> QED
    BY <2>2, <2>3 DEF Step
<1>5. CASE s \notin raced /\ s \in raced'
  <2>1. RadioMode(s) \in {"opening", "closing", "detaching"}
    BY <1>1, <1>5, RacedBusy, ModeBusy
  <2>2. Radio(s) \in {"opening", "closing", "detaching"} /\ Radio(s)' = "lost"
    BY <1>5, <2>1 DEF RadioMatches, Radio
  <2>3. Returns(s)' = FALSE
    BY <1>5 DEF Returns
  <2> QED
    BY <2>2, <2>3 DEF Step
<1>6. CASE s \notin raced'
  <2>1. s \notin raced
    BY <1>6, RacedStays
  <2>2. Radio(s) = RadioMode(s) /\ Radio(s)' = RadioMode(s)'
    BY <1>6, <2>1 DEF RadioMatches
  <2>3. Returns(s) = Reopens(s) /\ Returns(s)' = Reopens(s)'
    BY <1>6, <2>1 DEF Returns, Reopens
  <2> QED
    BY <1>6, <2>2, <2>3, QuietStep
<1> QED
  BY <1>4, <1>5, <1>6

LEMMA LifecycleStart ==
    ASSUME Init, NEW s \in Serial
    PROVE  Radio(s) = "gone" /\ Returns(s) = FALSE
<1>1. /\ s \notin raced /\ ~Busy(s) /\ Vacant(s)
      /\ ~OpeningNow(s) /\ ~ClosingNow(s) /\ ~DetachingNow(s)
  BY DEF Init, Busy, BusyHub, BusyCaller, InCallback, Idle, HubIdle, Vacant, OpeningNow, ClosingNow,
         DetachingNow
<1>2. ~Reopens(s)
  BY DEF Init, Reopens
<1> QED
  BY <1>1, <1>2 DEF Radio, Returns

(* Every step of the bus is one of the lifecycles or changes nothing.       *)
LEMMA BtLives == LifeInv /\ RadioMatches /\ RadioMatches' /\ [Next]_vars => [BT!Next]_(BT!vars)
<1> SUFFICES ASSUME LifeInv, RadioMatches, RadioMatches', [Next]_vars
             PROVE  [BT!Next]_(BT!vars)
  OBVIOUS
<1>1. Step(Radio("BT"), Returns("BT"), Radio("BT")', Returns("BT")')
  BY LifecycleStep DEF Serial
<1>2. Returns("BT") \in BOOLEAN /\ Returns("BT")' \in BOOLEAN
  BY DEF Returns, Reopens
<1> QED
  BY <1>1, <1>2
     DEF Step, BT!Next, BT!vars, BT!Appear, BT!Open, BT!Opened, BT!OpenFailed, BT!Close, BT!Closed,
         BT!Vanish, BT!Vanished, BT!StartWithOS, BT!Overlap

LEMMA WlanLives == LifeInv /\ RadioMatches /\ RadioMatches' /\ [Next]_vars => [WLAN!Next]_(WLAN!vars)
<1> SUFFICES ASSUME LifeInv, RadioMatches, RadioMatches', [Next]_vars
             PROVE  [WLAN!Next]_(WLAN!vars)
  OBVIOUS
<1>1. Step(Radio("WLAN"), Returns("WLAN"), Radio("WLAN")', Returns("WLAN")')
  BY LifecycleStep DEF Serial
<1>2. Returns("WLAN") \in BOOLEAN /\ Returns("WLAN")' \in BOOLEAN
  BY DEF Returns, Reopens
<1> QED
  BY <1>1, <1>2
     DEF Step, WLAN!Next, WLAN!vars, WLAN!Appear, WLAN!Open, WLAN!Opened, WLAN!OpenFailed,
         WLAN!Close, WLAN!Closed, WLAN!Vanish, WLAN!Vanished, WLAN!StartWithOS, WLAN!Overlap

LEMMA RadioMatchesNext == (LifeInv => RadioMatches)'
<1>1. LifeInv => RadioMatches
  BY RadioIs DEF LifeInv
<1> QED
  BY <1>1, PTL

(***************************************************************************)
(* The bus implements the lifecycle of each function: whatever threads     *)
(* call, and whatever happens to the other functions, a function opens     *)
(* only from off, closes before it goes, and comes back by itself exactly  *)
(* when the lifecycle says so - until two of its handlers overlap.         *)
(***************************************************************************)
THEOREM LifecycleImplemented == Spec => EachFunctionLives
<1>1. Init => BT!Init /\ WLAN!Init
  BY LifecycleStart DEF BT!Init, WLAN!Init, Serial
<1>2. LifeInv => RadioMatches
  BY RadioIs DEF LifeInv
<1> QED
  BY <1>1, <1>2, BtLives, WlanLives, InitRefinement, NextRefinement, PTL
     DEF Spec, EachFunctionLives, BT!Spec, WLAN!Spec

-----------------------------------------------------------------------------
(* A function driver under the bus: its own steps leave the bus alone, but  *)
(* may misuse memory, after which nothing runs any more.  So the lifecycles *)
(* live on, whatever the driver does between the bus's calls.               *)

DriverAlone ==
    /\ UNCHANGED <<registry, block, call, hub, opened, asked, raced>>
    /\ fault' = fault \/ \E s \in Serial, kinds \in SUBSET MemoryError : Commit(s, kinds)

LifeWhileRunning == (Running => LifeInv) /\ RadioMatches

LEMMA DriverAloneKeeps ==
    ASSUME LifeInv, RadioMatches, DriverAlone
    PROVE  LifeWhileRunning' /\ UNCHANGED <<BT!vars, WLAN!vars>>
<1>0. UNCHANGED <<registry, block, call, hub, opened, raced>>
  BY DEF DriverAlone
<1>1. RadioMatches' /\ UNCHANGED <<BT!vars, WLAN!vars>>
  <2>1. /\ RadioMatches' <=> RadioMatches
        /\ UNCHANGED <<BT!vars, WLAN!vars>>
    BY <1>0 DEF registry, RadioMatches, Radio, RadioMode, Returns, Reopens, OpeningNow, ClosingNow,
                DetachingNow, Busy, BusyHub, BusyCaller, InCallback, Vacant, StartedFn,
                BT!vars, WLAN!vars
  <2> QED
    BY <2>1
<1>2. CASE fault' = fault
  <2>1. UNCHANGED vars
    BY <1>2 DEF DriverAlone, vars, history, registry
  <2> QED
    BY <1>1, <2>1, NextRefinement DEF LifeWhileRunning
<1>3. ASSUME NEW s \in Serial, NEW kinds \in SUBSET MemoryError, Commit(s, kinds), fault' # fault
      PROVE  ~Running'
  <2>1. fault \in [Serial -> SUBSET FaultKind]
    BY DEF LifeInv, IInv, RInv, TypeOK
  <2>2. kinds # {}
    BY <1>3, <2>1 DEF Commit
  <2>3. fault'[s] = fault[s] \cup kinds
    BY <1>3, <2>1 DEF Commit
  <2> QED
    BY <1>3, <2>2, <2>3 DEF Running
<1> QED
  BY <1>1, <1>2, <1>3 DEF DriverAlone, LifeWhileRunning

LEMMA LivesOn ==
    ASSUME LifeWhileRunning, Running, Next \/ DriverAlone
    PROVE  LifeWhileRunning' /\ [BT!Next]_(BT!vars) /\ [WLAN!Next]_(WLAN!vars)
<1>1. LifeInv /\ RadioMatches
  BY DEF LifeWhileRunning
<1>2. CASE Next
  <2>1. LifeInv'
    BY <1>1, <1>2, NextRefinement
  <2>2. RadioMatches'
    BY <2>1, RadioMatchesNext
  <2> QED
    BY <1>1, <1>2, <2>1, <2>2, BtLives, WlanLives DEF LifeWhileRunning
<1>3. CASE DriverAlone
  BY <1>1, <1>3, DriverAloneKeeps
<1> QED
  BY <1>2, <1>3

LEMMA LifeStarts == Init => LifeWhileRunning /\ BT!Init /\ WLAN!Init
<1>1. Init => BT!Init /\ WLAN!Init
  BY LifecycleStart DEF BT!Init, WLAN!Init, Serial
<1> QED
  BY <1>1, InitRefinement, RadioIs DEF LifeWhileRunning, LifeInv

(* Nothing changed.                                                         *)
LEMMA LifeStays ==
    LifeWhileRunning /\ UNCHANGED vars =>
        LifeWhileRunning' /\ UNCHANGED <<BT!vars, WLAN!vars>>
<1> SUFFICES ASSUME LifeWhileRunning, UNCHANGED vars
             PROVE  LifeWhileRunning' /\ UNCHANGED <<BT!vars, WLAN!vars>>
  OBVIOUS
<1>1. /\ Running' <=> Running
      /\ RadioMatches' <=> RadioMatches
      /\ UNCHANGED <<BT!vars, WLAN!vars>>
  BY DEF vars, history, registry, Running, RadioMatches, Radio, RadioMode, Returns, Reopens,
         OpeningNow, ClosingNow, DetachingNow, Busy, BusyHub, BusyCaller, InCallback, Vacant,
         StartedFn, BT!vars, WLAN!vars
<1>2. LifeInv => LifeInv'
  BY NextRefinement
<1> QED
  BY <1>1, <1>2 DEF LifeWhileRunning
=============================================================================
