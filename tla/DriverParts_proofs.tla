-------------------------- MODULE DriverParts_proofs --------------------------
(***************************************************************************)
(* Theorems about the small parts of the kernel modules, for any sets of   *)
(* threads, cards and clock readings: the one-second clock, the events,    *)
(* the suspend type that all cards share, a query of the functions, frames *)
(* on their way to the card, and the calls that are made later.            *)
(***************************************************************************)
EXTENDS DownoutClock, OsEvent, WlanPower, EnumQuery, Frames, DeferredCalls, TLAPS

-----------------------------------------------------------------------------
(* The clock.                                                              *)

(* The last two readings and the answer belong together.                    *)
DnInv ==
    /\ st_time \in Time \cup {Never}
    /\ since \in Time \cup {Never}
    /\ answer \in 0..1
    /\ since # Never =>
          /\ since \in Time /\ st_time \in Time
          /\ answer = 1 <=> Expired(since, st_time)

(* A reading is never the mark for "not yet asked".                         *)
LEMMA TimeFacts ==
    ASSUME NEW t \in Time
    PROVE  /\ t # Never
           /\ t.tv_sec \in Nat \ {0} /\ t.tv_usec \in Nat /\ t.tv_usec < 1000000
<1> DEFINE u == t.tv_usec
<1>1. t.tv_sec \in Sec /\ u \in Usec
  BY SMT DEF Time
<1>2. t.tv_sec \in Nat \ {0}
  BY <1>1, SecAssumption
<1>3. u \in Nat /\ u < 1000000
  <2> HIDE DEF u
  <2> QED
    BY <1>1, UsecAssumption, SMT
<1>4. Never.tv_sec = 0
  BY SMT DEF Never
<1> QED
  BY <1>2, <1>3, <1>4, SMT

(* The bounds follow from the readings alone: less than a second of         *)
(* microseconds is worth less than a thousand of the code's milliseconds.   *)
LEMMA CountBounds ==
    ASSUME NEW s \in Nat, NEW c \in Nat, NEW u \in Nat, NEW v \in Nat,
           u < 1000000, v < 1000000
    PROVE  LET n == (c - s) * 1000 + (v - u)
               e == (c - s) * 1000000 + (v - u)
               expired == c >= s /\ n > 1000
           IN  /\ expired => e > 1000
               /\ e >= 1001000000 => expired
               /\ s = c => (expired <=> e > 1000)
<1> DEFINE d == c - s
<1>1. d \in Int
  BY SMT
<1>2. d = 0 \/ d >= 1 \/ d <= -1
  BY <1>1, SMT
<1>3. d >= 1 => d * 1000000 >= d * 1000
  BY <1>1, SMT
<1> QED
  BY <1>1, <1>2, <1>3, SMT

(* The answers of time_downout_duration mean what DownoutBounds says, for   *)
(* all clock readings (tdsp_timer.c:141-169).                               *)
THEOREM DownoutCorrect == DnSpec => []DownoutBounds
<1>1. DnInit => DnInv
  BY SMT DEF DnInit, DnInv, Never
<1>2. DnInv /\ [DnNext]_dnVars => DnInv'
  <2> SUFFICES ASSUME DnInv, [DnNext]_dnVars
               PROVE  DnInv'
    OBVIOUS
  <2>1. ASSUME NEW ct \in Time, TimeDownoutDuration(ct)
        PROVE  DnInv'
    BY <2>1, TimeFacts, SMT DEF DnInv, TimeDownoutDuration, Expired
  <2>2. CASE UNCHANGED dnVars
    BY <2>2, SMT DEF DnInv, dnVars, Expired
  <2> QED
    BY <2>1, <2>2 DEF DnNext
<1>3. DnInv => DownoutBounds
  <2> SUFFICES ASSUME DnInv, since # Never
               PROVE  LET e == Elapsed(since, st_time) IN
                      /\ answer = 1 => e > 1000
                      /\ e >= 1001000000 => answer = 1
                      /\ since.tv_sec = st_time.tv_sec => (answer = 1 <=> e > 1000)
    BY SMT DEF DownoutBounds
  <2>1. /\ since.tv_sec \in Nat /\ since.tv_usec \in Nat /\ since.tv_usec < 1000000
        /\ st_time.tv_sec \in Nat /\ st_time.tv_usec \in Nat /\ st_time.tv_usec < 1000000
    BY TimeFacts, SMT DEF DnInv
  <2>2. answer = 1 <=> Expired(since, st_time)
    BY DEF DnInv
  <2> QED
    BY <2>1, <2>2, CountBounds, SMT DEF Expired, Count, Elapsed
<1> QED
  BY <1>1, <1>2, <1>3, PTL DEF DnSpec

-----------------------------------------------------------------------------
(* The events.                                                             *)

EvInv == EvTypeOK /\ NoMissedWakeup

(* No wake-up is missed, for any number of waiters and senders: the waiter  *)
(* tests the flag when it is already in the queue, and a setter that has    *)
(* stored the flag has its wake-up before it (tdsp_event.c:49-74).          *)
THEOREM WakeupCorrect == EvSpec => [](EvTypeOK /\ NoMissedWakeup)
<1>1. EvInit => EvInv
  <2>1. EvInit => EvTypeOK
    <3>1. EvInit => answers \in [Waiter -> 0..2]
      BY DEF EvInit
    <3>2. EvInit => wait \in [Waiter -> {"out"} \cup Waiting] /\ send \in [Sender -> {"idle", "wake"}]
      BY DEF EvInit
    <3> QED
      BY <3>1, <3>2, Zenon DEF EvInit, EvTypeOK
  <2>2. EvInit => NoMissedWakeup
    BY DEF EvInit, NoMissedWakeup
  <2> QED
    BY <2>1, <2>2 DEF EvInv
<1>2. EvInv /\ [EvNext]_evVars => EvInv'
  <2> SUFFICES ASSUME EvInv, [EvNext]_evVars
               PROVE  EvInv'
    OBVIOUS
  <2> USE DEF EvInv, EvTypeOK, NoMissedWakeup, Waiting, Asleep, Ended, Waits
  <2>1. ASSUME NEW s \in Sender, StoreFlag(s)
        PROVE  EvInv'
    <3>1. send'[s] = "wake"
      BY <2>1 DEF StoreFlag
    <3>2. answers' \in [Waiter -> 0..2]
      BY <2>1 DEF StoreFlag
    <3> QED
      BY <2>1, <3>1, <3>2 DEF StoreFlag
  <2>2. ASSUME NEW s \in Sender, Wake(s)
        PROVE  EvInv'
    BY <2>2 DEF Wake, WakeUp, Woken
  <2>3. ASSUME NEW s \in Sender, Reset(s)
        PROVE  EvInv'
    BY <2>3 DEF Reset, Woken
  <2>4. ASSUME NEW s \in Sender, ClearFlag(s)
        PROVE  EvInv'
    BY <2>4 DEF ClearFlag
  <2>5. ASSUME NEW s \in Sender, KillEvent(s)
        PROVE  EvInv'
    BY <2>5 DEF KillEvent
  <2>6. ASSUME NEW w \in Waiter, BeginWait(w)
        PROVE  EvInv'
    <3>1. /\ answers' \in [Waiter -> 0..2]
          /\ lost' \subseteq {"late", "twice", "reset", "unexplained"}
      BY <2>6 DEF BeginWait, FlagAtBegin
    <3>2. /\ wait' \in [Waiter -> {"out"} \cup Waiting]
          /\ flag' = "SIGNED" => \A u \in Waiter : wait'[u] = "asleep" => wait[u] = "asleep"
      BY <2>6 DEF BeginWait, FlagAtBegin
    <3> QED
      BY <2>6, <3>1, <3>2 DEF BeginWait, FlagAtBegin
  <2>7. ASSUME NEW w \in Waiter, TestAgain(w)
        PROVE  EvInv'
    BY <2>7 DEF TestAgain
  <2>8. ASSUME NEW w \in Waiter, TimeIsUp(w)
        PROVE  EvInv'
    BY <2>8 DEF TimeIsUp
  <2>9. ASSUME NEW w \in Waiter, Interrupt(w)
        PROVE  EvInv'
    BY <2>9 DEF Interrupt
  <2>10. ASSUME NEW w \in Waiter, EndWait(w)
         PROVE  EvInv'
    BY <2>10 DEF EndWait, HowLost
  <2>11. CASE UNCHANGED evVars
    BY <2>11 DEF evVars
  <2> QED
    BY <2>1, <2>2, <2>3, <2>4, <2>5, <2>6, <2>7, <2>8, <2>9, <2>10, <2>11 DEF EvNext
<1> QED
  BY <1>1, <1>2, PTL DEF EvSpec, EvInv

(* What the counts of answers say: news nobody has seen keep the flag set,  *)
(* whoever has seen the flag, or could, has been answered, and news behind  *)
(* its back are a second answer.                                            *)
AnswersCount ==
    /\ news => flag = "SIGNED"
    /\ \A w \in Waiter : wait[w] = "seen" \/ (wait[w] \in Asleep /\ flag = "SIGNED") => answers[w] > 0
    /\ \A w \in Waiter : wait[w] = "seen" /\ news => answers[w] = 2

EvLossInv == EvTypeOK /\ AnswersCount /\ LostNeedsRace

LEMMA EvNextLossInv == EvTypeOK' /\ EvLossInv /\ [EvNext]_evVars => EvLossInv'
<1> SUFFICES ASSUME EvTypeOK', EvLossInv, [EvNext]_evVars
             PROVE  EvLossInv'
  OBVIOUS
<1> USE DEF EvLossInv, EvTypeOK, AnswersCount, LostNeedsRace, Waiting, Asleep, Ended, Waits
<1>1. ASSUME NEW s \in Sender, StoreFlag(s)
      PROVE  EvLossInv'
  <2>1. \A w \in Waiter :
            /\ wait[w] \in Waiting => answers'[w] > 0
            /\ wait[w] \in Waiting /\ answers[w] > 0 => answers'[w] = 2
    BY <1>1 DEF StoreFlag
  <2> QED
    BY <1>1, <2>1 DEF StoreFlag
<1>2. ASSUME NEW s \in Sender, Wake(s)
      PROVE  EvLossInv'
  BY <1>2 DEF Wake, WakeUp, Woken
<1>3. ASSUME NEW s \in Sender, Reset(s)
      PROVE  EvLossInv'
  BY <1>3 DEF Reset, Woken
<1>4. ASSUME NEW s \in Sender, ClearFlag(s)
      PROVE  EvLossInv'
  BY <1>4 DEF ClearFlag
<1>5. ASSUME NEW s \in Sender, KillEvent(s)
      PROVE  EvLossInv'
  BY <1>5 DEF KillEvent
<1>6. ASSUME NEW w \in Waiter, BeginWait(w)
      PROVE  EvLossInv'
  BY <1>6 DEF BeginWait, FlagAtBegin
<1>7. ASSUME NEW w \in Waiter, TestAgain(w)
      PROVE  EvLossInv'
  BY <1>7 DEF TestAgain
<1>8. ASSUME NEW w \in Waiter, TimeIsUp(w)
      PROVE  EvLossInv'
  BY <1>8 DEF TimeIsUp
<1>9. ASSUME NEW w \in Waiter, Interrupt(w)
      PROVE  EvLossInv'
  BY <1>9 DEF Interrupt
<1>10. ASSUME NEW w \in Waiter, EndWait(w)
       PROVE  EvLossInv'
  <2>1. news => HowLost(w) # "unexplained"
    BY <1>10 DEF EndWait, HowLost
  <2> QED
    BY <1>10, <2>1 DEF EndWait
<1>11. CASE UNCHANGED evVars
  BY <1>11 DEF evVars
<1> QED
  BY <1>1, <1>2, <1>3, <1>4, <1>5, <1>6, <1>7, <1>8, <1>9, <1>10, <1>11 DEF EvNext

(* A single answer in time is always seen, for any number of waiters and    *)
(* senders: the flag is cleared only by a waiter that was answered, so what *)
(* is cleared unseen came second (tdsp_event.c:62-74).                      *)
THEOREM AnswersAreSeen == EvSpec => []LostNeedsRace
<1>1. EvTypeOK /\ EvInit => EvLossInv
  BY SMT DEF EvInit, EvLossInv, AnswersCount, LostNeedsRace, Asleep
<1> QED
  BY <1>1, EvNextLossInv, WakeupCorrect, PTL DEF EvSpec, EvLossInv

-----------------------------------------------------------------------------
(* Sleep and resume.                                                       *)

(* The cards of the transition: those that went to sleep in it.             *)
Sleeper == {c \in Card : card[c] \in {"asleep", "loaded", "resumed"}}

(* While a transition lasts, its sleepers know its event, and the static    *)
(* variable holds it until some sleeper has been told.                      *)
SleepKnown ==
    /\ \A c \in Sleeper : own[c] = transition.event
    /\ \A c \in Sleeper : card[c] # "asleep" => told[c] \in {transition.event, "none"}
    /\ \A c \in Sleeper : card[c] = "loaded" => told[c] = transition.event
    /\ Sleeper # {} => \/ suspend_type = transition.event
                       \/ /\ suspend_type = "none"
                          /\ \E c \in Sleeper : card[c] = "resumed" /\ told[c] = transition.event
    /\ (\E c \in Sleeper : card[c] = "resumed" /\ told[c] = "none") =>
           \E c \in Sleeper : card[c] = "resumed" /\ told[c] = transition.event

PwInv ==
    /\ PwTypeOK
    /\ transition.way # "steady" => transition.event # "none"
    /\ transition.way = "steady" => \A c \in Card : card[c] \in {"gone", "awake", "resumed"}
    /\ transition.way = "down" => \A c \in Card : card[c] \in {"gone", "awake", "asleep"}
    /\ transition.way # "steady" => SleepKnown

LEMMA PwNextInv == PwInv /\ [PwNext]_pwVars => PwInv'
<1> SUFFICES ASSUME PwInv, [PwNext]_pwVars
             PROVE  PwInv'
  OBVIOUS
<1> USE DEF PwInv, PwTypeOK, SleepKnown, Sleeper, Steady, Type, Event
<1>1. ASSUME NEW e \in Event, GoDown(e)
      PROVE  PwInv'
  BY <1>1 DEF GoDown
<1>2. CASE GoUp
  BY <1>2 DEF GoUp
<1>3. CASE Settle
  BY <1>3 DEF Settle
<1>4. ASSUME NEW c \in Card, Plug(c)
      PROVE  PwInv'
  BY <1>4 DEF Plug
<1>5. ASSUME NEW c \in Card, Unplug(c)
      PROVE  PwInv'
  BY <1>5 DEF Unplug
<1>6. ASSUME NEW c \in Card, Lose(c)
      PROVE  PwInv'
  BY <1>6 DEF Lose
<1>7. ASSUME NEW c \in Card, Suspend(c)
      PROVE  PwInv'
  BY <1>7 DEF Suspend, Stored
<1>8. ASSUME NEW c \in Card, LoadType(c)
      PROVE  PwInv'
  BY <1>8 DEF LoadType
<1>9. ASSUME NEW c \in Card, ClearType(c)
      PROVE  PwInv'
  BY <1>9 DEF ClearType
<1>10. CASE UNCHANGED pwVars
  BY <1>10 DEF pwVars
<1> QED
  BY <1>1, <1>2, <1>3, <1>4, <1>5, <1>6, <1>7, <1>8, <1>9, <1>10 DEF PwNext

(* A card that resumes hears of its own sleep or of none, and somebody      *)
(* hears of it, for any number of cards (lwlan_entry.c:366-463).            *)
THEOREM SleepCorrect == PwSpec => [](PwTypeOK /\ SleepTold)
<1>1. PwInit => PwInv
  BY DEF PwInit, PwInv, PwTypeOK, Steady, Type, Event
<1>2. PwInv => PwTypeOK /\ SleepTold
  BY DEF PwInv, PwTypeOK, SleepKnown, Sleeper, SleepTold, Type, Event
<1> QED
  BY <1>1, <1>2, PwNextInv, PTL DEF PwSpec

-----------------------------------------------------------------------------
(* READ_ENUM_MODE.                                                         *)

(* What the field holds when the query has looked at a function that was    *)
(* as b says, and then at one that was as w says.                           *)
Low(f, v) == IF v = "started" THEN {f} ELSE {}
High(f, v) == IF v = "undecided" THEN {f} ELSE {}
AfterBt(b) == [low |-> Low("BT", b), high |-> High("BT", b)]
AfterBoth(b, w) == [low |-> Low("BT", b) \cup Low("WLAN", w),
                    high |-> High("BT", b) \cup High("WLAN", w)]
Pair(b, w) == [f \in Fn |-> IF f = "BT" THEN b ELSE w]

(* A reader that nobody met is the only one, and knows what the field holds.*)
Alone(r) == r \notin met
Field(r) ==
    /\ reader[r] = "BT" => EnumMode = Zero
    /\ reader[r] = "WLAN" => \E b \in seen[r]["BT"] : EnumMode = AfterBt(b)
    /\ reader[r] = "fold" => \E b \in seen[r]["BT"], w \in seen[r]["WLAN"] :
                                 EnumMode = AfterBoth(b, w)
    /\ reader[r] = "copy" => \E b \in seen[r]["BT"], w \in seen[r]["WLAN"] :
                                 EnumMode = Meant(Pair(b, w))

EqInv ==
    /\ view \in [Fn -> View]
    /\ reader \in [Reader -> Step]
    /\ seen \in [Reader -> [Fn -> SUBSET View]]
    /\ met \subseteq Reader
    /\ \A r \in Reader : Inside(r) => \A f \in Fn : view[f] \in seen[r][f]
    /\ \A r, q \in Reader : r # q /\ Inside(r) /\ Inside(q) => r \in met
    /\ \A r \in Reader : Alone(r) => Field(r)

(* Folding the two bytes gives what is meant.                              *)
LEMMA FoldMeant ==
    ASSUME NEW b \in View, NEW w \in View
    PROVE  Fold(AfterBoth(b, w)) = Meant(Pair(b, w))
<1> DEFINE on == {f \in Fn : Pair(b, w)[f] = "started"}
           low == Low("BT", b) \cup Low("WLAN", w)
           high == High("BT", b) \cup High("WLAN", w)
<1>1. Pair(b, w)["BT"] = b /\ Pair(b, w)["WLAN"] = w
  BY DEF Pair, Fn
<1>2. on = low
  BY <1>1 DEF Low, Fn
<1>3. (\E f \in Fn : Pair(b, w)[f] = "undecided") <=> high # {}
  BY <1>1 DEF High, Fn
<1>4. /\ AfterBoth(b, w).low = low
      /\ AfterBoth(b, w).high = high
  BY DEF AfterBoth
<1>5. CASE low # {}
  BY <1>2, <1>4, <1>5 DEF Fold, Meant
<1>6. CASE low = {} /\ high # {}
  BY <1>2, <1>3, <1>4, <1>6 DEF Fold, Meant
<1>7. CASE low = {} /\ high = {}
  <2>1. AfterBoth(b, w) = Zero
    BY <1>7 DEF AfterBoth, Zero
  <2> QED
    BY <2>1, <1>2, <1>3, <1>4, <1>7 DEF Fold, Meant
<1> QED
  BY <1>5, <1>6, <1>7

(* A step of one reader leaves what another lone one knows: there is none.  *)
LEMMA Mover ==
    ASSUME EqInv, NEW r \in Reader, Inside(r), NEW q \in Reader, q # r, Alone(q)
    PROVE  reader[q] = "out"
BY DEF EqInv, Inside, Alone

(* What a reader's own step from "step" to "next" has to show.              *)
LEMMA ReaderStep ==
    ASSUME EqInv, NEW r \in Reader, Inside(r), NEW next \in Step \ {"out"}, Go(r, next),
           UNCHANGED <<view, met, seen>>, Alone(r) => Field(r)'
    PROVE  EqInv'
<1>1. /\ view' \in [Fn -> View]
      /\ reader' \in [Reader -> Step]
      /\ seen' \in [Reader -> [Fn -> SUBSET View]]
      /\ met' \subseteq Reader
  BY DEF EqInv, Go
<1>2. \A q \in Reader : Inside(q)' <=> Inside(q)
  BY DEF EqInv, Go, Inside
<1>3. \A q \in Reader : Inside(q)' => \A f \in Fn : view'[f] \in seen'[q][f]
  BY <1>2 DEF EqInv
<1>4. \A p, q \in Reader : p # q /\ Inside(p)' /\ Inside(q)' => p \in met'
  BY <1>2 DEF EqInv
<1>5. ASSUME NEW q \in Reader, Alone(q)'
      PROVE  Field(q)'
  <2>1. CASE q = r
    BY <1>5, <2>1 DEF Alone
  <2>2. CASE q # r
    <3>1. reader'[q] = "out"
      BY <1>5, <2>2, Mover DEF Alone, Go, EqInv
    <3> QED
      BY <3>1 DEF Field
  <2> QED
    BY <2>1, <2>2
<1> QED
  BY <1>1, <1>3, <1>4, <1>5 DEF EqInv

LEMMA EqNextInv == EqInv /\ [EqNext]_eqVars => EqInv'
<1> SUFFICES ASSUME EqInv, [EqNext]_eqVars
             PROVE  EqInv'
  OBVIOUS
<1>1. ASSUME NEW f \in Fn, NEW v \in View, Change(f, v)
      PROVE  EqInv'
  <2>1. /\ view' \in [Fn -> View]
        /\ reader' \in [Reader -> Step]
        /\ seen' \in [Reader -> [Fn -> SUBSET View]]
        /\ met' \subseteq Reader
    BY <1>1 DEF EqInv, Change
  <2>2. \A r \in Reader : Inside(r)' => Inside(r)
    BY <1>1 DEF Change, Inside
  <2>3. \A r \in Reader, g \in Fn : seen[r][g] \subseteq seen'[r][g]
    BY <1>1 DEF EqInv, Change
  <2>4. \A r \in Reader : Inside(r)' => \A g \in Fn : view'[g] \in seen'[r][g]
    <3> SUFFICES ASSUME NEW r \in Reader, Inside(r), NEW g \in Fn
                 PROVE  view'[g] \in seen'[r][g]
      BY <2>2
    <3>1. CASE g = f
      BY <1>1, <3>1 DEF EqInv, Change
    <3>2. CASE g # f
      BY <1>1, <3>2 DEF EqInv, Change
    <3> QED
      BY <3>1, <3>2
  <2>5. \A r, q \in Reader : r # q /\ Inside(r)' /\ Inside(q)' => r \in met'
    BY <1>1, <2>2 DEF EqInv, Change
  <2>6. ASSUME NEW r \in Reader, Alone(r)'
        PROVE  Field(r)'
    <3>1. Field(r)
      BY <1>1, <2>6 DEF EqInv, Alone, Change
    <3>2. seen[r]["BT"] \subseteq seen'[r]["BT"] /\ seen[r]["WLAN"] \subseteq seen'[r]["WLAN"]
      BY <2>3 DEF Fn
    <3> QED
      BY <1>1, <3>1, <3>2 DEF Change, Field
  <2> QED
    BY <2>1, <2>4, <2>5, <2>6 DEF EqInv
<1>2. ASSUME NEW r \in Reader, EnterRead(r)
      PROVE  EqInv'
  <2>1. /\ view' \in [Fn -> View]
        /\ reader' \in [Reader -> Step]
        /\ seen' \in [Reader -> [Fn -> SUBSET View]]
        /\ met' \subseteq Reader
    BY <1>2 DEF EqInv, EnterRead, Go, Step, Inside
  <2>2. \A q \in Reader \ {r} : (Inside(q)' <=> Inside(q)) /\ seen'[q] = seen[q]
    BY <1>2 DEF EqInv, EnterRead, Go, Inside
  <2>3. \A q \in Reader : Inside(q)' => \A f \in Fn : view'[f] \in seen'[q][f]
    <3> SUFFICES ASSUME NEW q \in Reader, Inside(q)', NEW f \in Fn
                 PROVE  view'[f] \in seen'[q][f]
      OBVIOUS
    <3>1. CASE q = r
      BY <1>2, <3>1 DEF EqInv, EnterRead
    <3>2. CASE q # r
      BY <1>2, <2>2, <3>2 DEF EqInv, EnterRead
    <3> QED
      BY <3>1, <3>2
  <2>4. \A p, q \in Reader : p # q /\ Inside(p)' /\ Inside(q)' => p \in met'
    BY <1>2, <2>2 DEF EqInv, EnterRead
  <2>5. ASSUME NEW q \in Reader, Alone(q)'
        PROVE  Field(q)'
    <3>1. CASE q = r
      BY <1>2, <3>1 DEF EqInv, EnterRead, Go, Field
    <3>2. CASE q # r
      <4>1. Alone(q) /\ reader'[q] = reader[q]
        BY <1>2, <2>5, <3>2 DEF EqInv, EnterRead, Go, Alone
      <4>2. Field(q)
        BY <4>1 DEF EqInv
      <4> QED
        BY <1>2, <2>2, <3>2, <4>1, <4>2 DEF EnterRead, Field
    <3> QED
      BY <3>1, <3>2
  <2> QED
    BY <2>1, <2>3, <2>4, <2>5 DEF EqInv
<1>3. ASSUME NEW r \in Reader, ZeroMode(r)
      PROVE  EqInv'
  <2>1. Field(r)'
    BY <1>3 DEF EqInv, ZeroMode, Go, Field
  <2> QED
    BY <1>3, <2>1, ReaderStep DEF ZeroMode, Inside, Step
<1>4. ASSUME NEW r \in Reader, ReadBt(r)
      PROVE  EqInv'
  <2>1. Inside(r)
    BY <1>4 DEF ReadBt, Inside
  <2>2. view["BT"] \in seen[r]["BT"] /\ view["BT"] \in View
    BY <2>1 DEF EqInv, Fn
  <2>3. Alone(r) => EnumMode' = AfterBt(view["BT"])
    <3> SUFFICES ASSUME Alone(r)
                 PROVE  EnumMode' = AfterBt(view["BT"])
      OBVIOUS
    <3>1. EnumMode = [low |-> {}, high |-> {}]
      BY <1>4 DEF EqInv, ReadBt, Field, Zero
    <3>2. CASE view["BT"] \in {"started", "undecided"}
      BY <1>4, <3>2 DEF ReadBt, AfterBt, Low, High, LowBits, HighBits
    <3>3. CASE view["BT"] \notin {"started", "undecided"}
      BY <1>4, <3>1, <3>3 DEF ReadBt, AfterBt, Low, High
    <3> QED
      BY <3>2, <3>3
  <2>4. Alone(r) => Field(r)'
    BY <1>4, <2>2, <2>3 DEF EqInv, ReadBt, Go, Field
  <2> QED
    BY <1>4, <2>1, <2>4, ReaderStep DEF ReadBt, Step
<1>5. ASSUME NEW r \in Reader, ReadWlan(r)
      PROVE  EqInv'
  <2>1. Inside(r)
    BY <1>5 DEF ReadWlan, Inside
  <2>2. view["WLAN"] \in seen[r]["WLAN"] /\ view["WLAN"] \in View
    BY <2>1 DEF EqInv, Fn
  <2>3. Alone(r) => \E b \in seen[r]["BT"] : EnumMode' = AfterBoth(b, view["WLAN"])
    <3> SUFFICES ASSUME Alone(r)
                 PROVE  \E b \in seen[r]["BT"] : EnumMode' = AfterBoth(b, view["WLAN"])
      OBVIOUS
    <3>1. PICK b \in seen[r]["BT"] : EnumMode = AfterBt(b)
      BY <1>5 DEF EqInv, ReadWlan, Field
    <3>2. EnumMode.low = Low("BT", b) /\ EnumMode.high = High("BT", b)
      BY <3>1 DEF AfterBt
    <3>3. EnumMode' = AfterBoth(b, view["WLAN"])
      BY <1>5, <3>2 DEF ReadWlan, AfterBoth, Low, High, LowBits, HighBits
    <3> QED
      BY <3>3
  <2>4. Alone(r) => Field(r)'
    BY <1>5, <2>2, <2>3 DEF EqInv, ReadWlan, Go, Field
  <2> QED
    BY <1>5, <2>1, <2>4, ReaderStep DEF ReadWlan, Step
<1>6. ASSUME NEW r \in Reader, FoldMode(r)
      PROVE  EqInv'
  <2>1. Inside(r)
    BY <1>6 DEF FoldMode, Inside
  <2>2. Alone(r) => \E b \in seen[r]["BT"], w \in seen[r]["WLAN"] :
                        EnumMode' = Meant(Pair(b, w))
    <3> SUFFICES ASSUME Alone(r)
                 PROVE  \E b \in seen[r]["BT"], w \in seen[r]["WLAN"] :
                            EnumMode' = Meant(Pair(b, w))
      OBVIOUS
    <3>1. PICK b \in seen[r]["BT"], w \in seen[r]["WLAN"] : EnumMode = AfterBoth(b, w)
      BY <1>6 DEF EqInv, FoldMode, Field
    <3>2. b \in View /\ w \in View
      BY <3>1 DEF EqInv, Fn
    <3>3. EnumMode' = Meant(Pair(b, w))
      BY <1>6, <3>1, <3>2, FoldMeant DEF FoldMode
    <3> QED
      BY <3>3
  <2>3. Alone(r) => Field(r)'
    BY <1>6, <2>2 DEF EqInv, FoldMode, Go, Field
  <2> QED
    BY <1>6, <2>1, <2>3, ReaderStep DEF FoldMode, Step
<1>7. ASSUME NEW r \in Reader, CopyToUser(r)
      PROVE  EqInv'
  <2>1. /\ view' \in [Fn -> View]
        /\ reader' \in [Reader -> Step]
        /\ seen' \in [Reader -> [Fn -> SUBSET View]]
        /\ met' \subseteq Reader
    BY <1>7 DEF EqInv, CopyToUser, Go, Step, Unseen
  <2>2. reader'[r] = "out" /\ ~Inside(r)'
    BY <1>7 DEF EqInv, CopyToUser, Go, Inside
  <2>3. \A q \in Reader \ {r} : reader'[q] = reader[q] /\ seen'[q] = seen[q]
    BY <1>7 DEF EqInv, CopyToUser, Go
  <2>4. \A q \in Reader : Inside(q)' => q # r /\ Inside(q)
    BY <2>2, <2>3 DEF Inside
  <2>5. \A q \in Reader : Inside(q)' => \A f \in Fn : view'[f] \in seen'[q][f]
    BY <1>7, <2>3, <2>4 DEF EqInv, CopyToUser
  <2>6. \A p, q \in Reader : p # q /\ Inside(p)' /\ Inside(q)' => p \in met'
    BY <1>7, <2>4 DEF EqInv, CopyToUser
  <2>7. ASSUME NEW q \in Reader, Alone(q)'
        PROVE  Field(q)'
    <3>1. CASE q = r
      BY <2>2, <3>1 DEF Field
    <3>2. CASE q # r
      <4>1. Field(q)
        BY <1>7, <2>7, <3>2 DEF EqInv, CopyToUser, Alone
      <4> QED
        BY <1>7, <2>3, <3>2, <4>1 DEF CopyToUser, Field
    <3> QED
      BY <3>1, <3>2
  <2> QED
    BY <2>1, <2>5, <2>6, <2>7 DEF EqInv
<1>8. ASSUME NEW w \in Writer, NEW v \in Written, WriteMode(w, v)
      PROVE  EqInv'
  <2>1. \A r \in Reader : Alone(r)' => reader'[r] = "out"
    BY <1>8 DEF WriteMode, Alone, Inside
  <2>2. \A r \in Reader : Alone(r)' => Field(r)'
    BY <2>1 DEF Field
  <2> QED
    BY <1>8, <2>2 DEF EqInv, WriteMode, Inside
<1>9. CASE UNCHANGED eqVars
  BY <1>9 DEF eqVars, EqInv, Inside, Alone, Field
<1> QED
  BY <1>1, <1>2, <1>3, <1>4, <1>5, <1>6, <1>7, <1>8, <1>9 DEF EqNext

(* A query nobody disturbs answers what was meant, however many others ask  *)
(* and write before and after it (busioctl.c:670-726).                      *)
THEOREM LoneQueryCorrect == EqSpec => []LoneQueryRight
<1>1. EqInit => EqInv
  BY DEF EqInit, EqInv, Step, Unseen, Inside, Alone, Field
<1>2. EqInv => LoneQueryRight
  BY DEF EqInv, LoneQueryRight, Alone, Field, Pair
<1> QED
  BY <1>1, <1>2, EqNextInv, PTL DEF EqSpec

-----------------------------------------------------------------------------
(* Frames.                                                                 *)

BtTest == {"running", "open", "awake"}
WlanTest == {"available", "filter", "length"}
LinkTests == IF link = "bt" THEN BtTest ELSE WlanTest

(* The tests a frame has passed, by those it has before it.                 *)
Passed(tests) ==
    CASE tests = <<"open", "awake">>    -> {"running"}
      [] tests = <<"awake">>            -> {"running", "open"}
      [] tests = <<"filter", "length">> -> {"available"}
      [] tests = <<"length">>           -> {"available", "filter"}
      [] tests = <<>>                   -> LinkTests
      [] OTHER                          -> {}

AheadBt == {BtTests, <<"open", "awake">>, <<"awake">>, <<>>}
AheadWlan == {WlanTests, <<"filter", "length">>, <<"length">>, <<>>}

(* The kernel's layers have a frame only while their device is registered,  *)
(* which ends before the adapter does; and up to a disconnect a Bluetooth   *)
(* device that is up is also running and open for the driver.               *)
DeviceLasts ==
    /\ dev.registered <=> remover \notin {"destroy", "done"}
    /\ dev.alive <=> remover # "done"
    /\ ~Idle => dev.registered
    /\ link = "bt" /\ remover = "away" =>
           /\ dev.running => dev.open
           /\ dev.up => dev.running
           /\ ~Idle => dev.up

StillTrue(test) == Holds(test, dev, frame.kind) \/ test \in overtaken

FrameInv ==
    /\ ~Idle => frame.tests \in IF link = "bt" THEN AheadBt ELSE AheadWlan
    /\ frame.fate = "library" => frame.tests = <<>>
    /\ ~Idle => \A test \in Passed(frame.tests) : StillTrue(test)
    /\ link = "bt" /\ frame.fate = "lost" => Head(frame.tests) = "awake" \/ remover # "away"

Device == [registered : BOOLEAN, up : BOOLEAN, running : BOOLEAN, open : BOOLEAN,
           asleep : BOOLEAN, alive : BOOLEAN, joined : BOOLEAN, wpa : BOOLEAN]
FrameType == [kind : {"none", "command", "data", "unknown", "eapol", "long"},
              tests : AheadBt \cup AheadWlan,
              fate : {"none", "flying", "library", "freed", "kept", "lost"}]

FrInv ==
    /\ link \in {"bt", "wlan"} /\ dev \in Device /\ frame \in FrameType
    /\ remover \in {"away", "stop", "stopped", "unregister", "destroy", "done"}
    /\ DeviceLasts
    /\ FrameInv

LEMMA TestsAre ==
    /\ ToSet(BtTests) = BtTest /\ ToSet(WlanTests) = WlanTest
    /\ ToSet(BtTests \o WlanTests) = BtTest \cup WlanTest
<1>1. ToSet(BtTests) = BtTest
  BY DEF ToSet, BtTests, BtTest
<1>2. ToSet(WlanTests) = WlanTest
  BY DEF ToSet, WlanTests, WlanTest
<1>3. ToSet(BtTests \o WlanTests) = BtTest \cup WlanTest
  BY DEF ToSet, BtTests, WlanTests, BtTest, WlanTest
<1> QED
  BY <1>1, <1>2, <1>3

LEMMA TestsGoBy ==
    ASSUME NEW tests \in (IF link = "bt" THEN AheadBt ELSE AheadWlan) \ {<<>>}
    PROVE  /\ Head(tests) \in LinkTests
           /\ Tail(tests) \in IF link = "bt" THEN AheadBt ELSE AheadWlan
           /\ Passed(Tail(tests)) = Passed(tests) \cup {Head(tests)}
<1> USE DEF AheadBt, AheadWlan, BtTests, WlanTests, BtTest, WlanTest, LinkTests
<1>1. CASE tests = <<"running", "open", "awake">>
  <2>1. Head(tests) = "running" /\ Tail(tests) = <<"open", "awake">>
    BY <1>1
  <2>2. Passed(tests) = {} /\ Passed(<<"open", "awake">>) = {"running"}
    BY <1>1 DEF Passed
  <2> QED
    BY <1>1, <2>1, <2>2
<1>2. CASE tests = <<"open", "awake">>
  <2>1. Head(tests) = "open" /\ Tail(tests) = <<"awake">>
    BY <1>2
  <2>2. Passed(tests) = {"running"} /\ Passed(<<"awake">>) = {"running", "open"}
    BY <1>2 DEF Passed
  <2> QED
    BY <1>2, <2>1, <2>2
<1>3. CASE tests = <<"awake">>
  <2>1. Head(tests) = "awake" /\ Tail(tests) = <<>>
    BY <1>3
  <2>2. Passed(tests) = {"running", "open"} /\ Passed(<<>>) = LinkTests
    BY <1>3 DEF Passed
  <2> QED
    BY <1>3, <2>1, <2>2
<1>4. CASE tests = <<"available", "filter", "length">>
  <2>1. Head(tests) = "available" /\ Tail(tests) = <<"filter", "length">>
    BY <1>4
  <2>2. Passed(tests) = {} /\ Passed(<<"filter", "length">>) = {"available"}
    BY <1>4 DEF Passed
  <2> QED
    BY <1>4, <2>1, <2>2
<1>5. CASE tests = <<"filter", "length">>
  <2>1. Head(tests) = "filter" /\ Tail(tests) = <<"length">>
    BY <1>5
  <2>2. Passed(tests) = {"available"} /\ Passed(<<"length">>) = {"available", "filter"}
    BY <1>5 DEF Passed
  <2> QED
    BY <1>5, <2>1, <2>2
<1>6. CASE tests = <<"length">>
  <2>1. Head(tests) = "length" /\ Tail(tests) = <<>>
    BY <1>6
  <2>2. Passed(tests) = {"available", "filter"} /\ Passed(<<>>) = LinkTests
    BY <1>6 DEF Passed
  <2> QED
    BY <1>6, <2>1, <2>2
<1> QED
  BY <1>1, <1>2, <1>3, <1>4, <1>5, <1>6

(* What is true of a frame stays true, or its end is noted.                 *)
LEMMA BecomesNotes ==
    ASSUME NEW d, Becomes(d), UNCHANGED frame, ~Idle,
           NEW test \in BtTest \cup WlanTest, StillTrue(test)
    PROVE  StillTrue(test)'
<1>1. Holds(test, dev', frame'.kind) = Holds(test, d, frame.kind)
  BY DEF Becomes
<1>2. overtaken' = overtaken \cup {t \in BtTest \cup WlanTest :
                       Holds(t, dev, frame.kind) /\ ~Holds(t, d, frame.kind)}
  BY TestsAre DEF Becomes
<1>3. CASE Holds(test, d, frame.kind)
  BY <1>1, <1>3 DEF StillTrue
<1>4. CASE test \in overtaken
  BY <1>2, <1>4 DEF StillTrue
<1>5. CASE Holds(test, dev, frame.kind) /\ ~Holds(test, d, frame.kind)
  BY <1>2, <1>5, Zenon DEF StillTrue
<1> QED
  BY <1>3, <1>4, <1>5 DEF StillTrue

(* A step of the device that takes it to d, and leaves the frame alone.     *)
LEMMA DeviceStep ==
    ASSUME FrInv, NEW d \in Device, Becomes(d), UNCHANGED <<link, frame>>,
           remover' \in {"away", "stop", "stopped", "unregister", "destroy", "done"},
           remover' = "away" => remover = "away"
    PROVE  /\ FrameInv'
           /\ link' \in {"bt", "wlan"} /\ dev' \in Device /\ frame' \in FrameType
<1>1. dev' = d /\ Idle' = Idle
  BY DEF Becomes, Idle
<1>2. ASSUME ~Idle
      PROVE  \A test \in Passed(frame.tests)' : StillTrue(test)'
  <2>1. Passed(frame.tests)' = Passed(frame.tests)
    BY DEF Passed, LinkTests
  <2>2. Passed(frame.tests) \subseteq BtTest \cup WlanTest
    BY DEF Passed, LinkTests, BtTest, WlanTest
  <2>3. \A test \in Passed(frame.tests) : StillTrue(test)
    BY <1>2 DEF FrInv, FrameInv
  <2> QED
    BY <1>2, <2>1, <2>2, <2>3, BecomesNotes
<1>3. (~Idle => \A test \in Passed(frame.tests) : StillTrue(test))'
  BY <1>1, <1>2
<1> QED
  BY <1>1, <1>3, SMT DEF FrInv, FrameInv

LEMMA FrameSteps ==
    ASSUME FrInv,
           \/ \E k \in Kind(link) : Send(k)
           \/ Test \/ HandOver \/ Return
    PROVE  FrInv'
<1>1. UNCHANGED <<link, dev, remover>>
  BY DEF Send, Test, HandOver, Return
<1> USE DEF FrInv
<1>2. ASSUME NEW k \in Kind(link), Send(k)
      PROVE  FrInv'
  <2> DEFINE tests == IF link = "bt" THEN BtTests ELSE WlanTests
  <2>1. frame' = [kind |-> k, fate |-> "flying", tests |-> tests]
    BY <1>2 DEF Send
  <2>2. Passed(tests) = {} /\ tests # <<>> /\ tests \in IF link = "bt" THEN AheadBt ELSE AheadWlan
    BY DEF Passed, BtTests, WlanTests, AheadBt, AheadWlan
  <2>3. k \in {"command", "data", "unknown", "eapol", "long"}
    BY DEF Kind
  <2>4. frame' \in FrameType
    BY <2>1, <2>2, <2>3 DEF FrameType
  <2>5. DeviceLasts'
    BY <1>1, <1>2 DEF DeviceLasts, Send
  <2>6. Passed(frame.tests)' = {}
    BY <1>1, <2>1, <2>2 DEF Passed, LinkTests
  <2> HIDE DEF tests
  <2>7. FrameInv'
    BY <1>1, <2>1, <2>2, <2>6 DEF FrameInv
  <2> QED
    BY <1>1, <2>4, <2>5, <2>7
<1>3. ASSUME Test
      PROVE  FrInv'
  <2>1. frame.fate = "flying" /\ frame.tests # <<>> /\ ~Idle
    BY <1>3 DEF Test, Idle
  <2>2. frame.tests \in (IF link = "bt" THEN AheadBt ELSE AheadWlan) \ {<<>>}
    BY <2>1 DEF FrameInv
  <2> DEFINE first == Head(frame.tests)
             rest == Tail(frame.tests)
  <2>3. /\ first \in LinkTests
        /\ rest \in IF link = "bt" THEN AheadBt ELSE AheadWlan
        /\ Passed(rest) = Passed(frame.tests) \cup {first}
    BY <2>2, TestsGoBy
  <2>4. overtaken' = overtaken
    BY <1>3 DEF Test
  <2> HIDE DEF first, rest
  <2>5. CASE Holds(first, dev, frame.kind)
    <3>1. frame' = [frame EXCEPT !.tests = rest]
      BY <1>3, <2>5 DEF Test, first, rest
    <3>2. /\ frame'.kind = frame.kind /\ frame'.fate = "flying" /\ frame'.tests = rest
          /\ frame' \in FrameType
      BY <2>1, <2>3, <3>1 DEF FrameType
    <3>3. Idle' = Idle
      BY <2>1, <3>2 DEF Idle
    <3>4. DeviceLasts'
      BY <1>1, <3>3 DEF DeviceLasts
    <3>5. Passed(frame.tests)' = Passed(rest)
      BY <1>1, <3>2 DEF Passed, LinkTests
    <3>6. \A test \in Passed(rest) : StillTrue(test)
      BY <2>1, <2>3, <2>5 DEF FrameInv, StillTrue
    <3>7. ASSUME NEW test, StillTrue(test)
          PROVE  StillTrue(test)'
      BY <1>1, <2>4, <3>2, <3>7 DEF StillTrue, Holds
    <3>8. \A test \in Passed(frame.tests)' : StillTrue(test)'
      BY <3>5, <3>6, <3>7
    <3>9. FrameInv'
      BY <1>1, <2>3, <3>2, <3>8 DEF FrameInv
    <3> QED
      BY <1>1, <3>2, <3>4, <3>9
  <2>6. CASE ~Holds(first, dev, frame.kind)
    <3>1. frame' = [frame EXCEPT !.fate = Stopped]
      BY <1>3, <2>6 DEF Test, first
    <3>2. /\ frame'.tests = frame.tests /\ frame'.fate \in {"freed", "lost"}
          /\ frame' \in FrameType
      BY <2>1, <3>1 DEF FrameType, Stopped
    <3>3. Idle'
      BY <3>2 DEF Idle
    <3>4. DeviceLasts'
      BY <1>1, <3>3 DEF DeviceLasts
    <3>5. link = "bt" /\ remover = "away" => first = "awake"
      BY <2>1, <2>3, <2>6 DEF DeviceLasts, Holds, LinkTests, BtTest
    <3>6. FrameInv'
      BY <1>1, <3>2, <3>3, <3>5 DEF FrameInv, first
    <3> QED
      BY <1>1, <3>2, <3>4, <3>6
  <2> QED
    BY <2>5, <2>6
<1>4. ASSUME HandOver \/ Return
      PROVE  FrInv'
  <2>1. frame'.kind = frame.kind /\ frame'.tests = frame.tests /\ frame' \in FrameType
    BY <1>4 DEF HandOver, Return, FrameType
  <2>2. /\ ~Idle' => ~Idle
        /\ frame'.fate \notin {"flying", "lost"}
        /\ frame'.fate = "library" => frame.tests = <<>>
        /\ overtaken' = overtaken
    BY <1>4 DEF HandOver, Return, FrameType, Idle
  <2>3. DeviceLasts'
    BY <1>1, <2>2 DEF DeviceLasts
  <2>4. Passed(frame.tests)' = Passed(frame.tests)
    BY <1>1, <2>1 DEF Passed, LinkTests
  <2>5. ASSUME NEW test, StillTrue(test)
        PROVE  StillTrue(test)'
    BY <1>1, <2>1, <2>2, <2>5 DEF StillTrue, Holds
  <2>6. FrameInv'
    BY <1>1, <2>1, <2>2, <2>4, <2>5 DEF FrameInv
  <2> QED
    BY <1>1, <2>1, <2>3, <2>6
<1> QED
  BY <1>2, <1>3, <1>4

LEMMA DeviceSteps ==
    ASSUME FrInv,
           \/ OpenBt \/ CloseBt \/ UpOrDownWlan
           \/ \E j, w \in BOOLEAN : Adapter(j, w)
           \/ Sleep \/ Awaken
           \/ StopBt \/ ClearOpenBt \/ Unregister \/ Destroy
    PROVE  FrInv'
<1>1. dev \in Device /\ link \in {"bt", "wlan"} /\ DeviceLasts
  BY DEF FrInv
<1> DEFINE Alters(d) ==
             /\ d \in Device /\ Becomes(d) /\ UNCHANGED <<link, frame>> /\ DeviceLasts'
             /\ remover' \in {"away", "stop", "stopped", "unregister", "destroy", "done"}
             /\ remover' = "away" => remover = "away"
<1>0. remover \in {"away", "stop", "stopped", "unregister", "destroy", "done"}
  BY DEF FrInv
<1>2. ASSUME OpenBt
      PROVE  \E d : Alters(d)
  <2> DEFINE d == [dev EXCEPT !.running = TRUE, !.open = @ \/ ~dev.running,
                              !.up = dev.running \/ ~dev.open]
  <2>1. Becomes(d) /\ UNCHANGED <<link, frame>>
    BY <1>2 DEF OpenBt
  <2>2. d \in Device /\ dev' = d
    BY <1>1, <2>1 DEF Device, Becomes
  <2>3. DeviceLasts'
    BY <1>1, <1>2, <2>1, <2>2 DEF DeviceLasts, OpenBt, Idle, Device
  <2>4. /\ remover' \in {"away", "stop", "stopped", "unregister", "destroy", "done"}
        /\ remover' = "away" => remover = "away"
    BY <1>0, <1>2 DEF OpenBt
  <2> QED
    BY <2>1, <2>2, <2>3, <2>4
<1>3. ASSUME CloseBt
      PROVE  \E d : Alters(d)
  <2> DEFINE d == ClosedBt(dev)
  <2>1. Becomes(d) /\ UNCHANGED <<link, frame>>
    BY <1>3 DEF CloseBt
  <2>2. d \in Device /\ dev' = d
    BY <1>1, <2>1 DEF Device, Becomes, ClosedBt
  <2>3. DeviceLasts'
    BY <1>1, <1>3, <2>1, <2>2 DEF DeviceLasts, CloseBt, Idle, Device, ClosedBt
  <2>4. /\ remover' \in {"away", "stop", "stopped", "unregister", "destroy", "done"}
        /\ remover' = "away" => remover = "away"
    BY <1>0, <1>3 DEF CloseBt
  <2> QED
    BY <2>1, <2>2, <2>3, <2>4
<1>4. ASSUME UpOrDownWlan
      PROVE  \E d : Alters(d)
  <2> DEFINE d == [dev EXCEPT !.up = ~@]
  <2>1. Becomes(d) /\ UNCHANGED <<link, frame>>
    BY <1>4 DEF UpOrDownWlan
  <2>2. d \in Device /\ dev' = d
    BY <1>1, <2>1 DEF Device, Becomes
  <2>3. DeviceLasts'
    BY <1>1, <1>4, <2>1, <2>2 DEF DeviceLasts, UpOrDownWlan, Idle, Device
  <2>4. /\ remover' \in {"away", "stop", "stopped", "unregister", "destroy", "done"}
        /\ remover' = "away" => remover = "away"
    BY <1>0, <1>4 DEF UpOrDownWlan
  <2> QED
    BY <2>1, <2>2, <2>3, <2>4
<1>5. ASSUME NEW j \in BOOLEAN, NEW w \in BOOLEAN, Adapter(j, w)
      PROVE  \E d : Alters(d)
  <2> DEFINE d == [dev EXCEPT !.joined = j, !.wpa = w]
  <2>1. Becomes(d) /\ UNCHANGED <<link, frame>>
    BY <1>5 DEF Adapter
  <2>2. d \in Device /\ dev' = d
    BY <1>1, <2>1 DEF Device, Becomes
  <2>3. DeviceLasts'
    BY <1>1, <1>5, <2>1, <2>2 DEF DeviceLasts, Adapter, Idle, Device
  <2>4. /\ remover' \in {"away", "stop", "stopped", "unregister", "destroy", "done"}
        /\ remover' = "away" => remover = "away"
    BY <1>0, <1>5 DEF Adapter
  <2> QED
    BY <2>1, <2>2, <2>3, <2>4
<1>6. ASSUME Sleep
      PROVE  \E d : Alters(d)
  <2> DEFINE d == [dev EXCEPT !.asleep = TRUE]
  <2>1. Becomes(d) /\ UNCHANGED <<link, frame>>
    BY <1>6 DEF Sleep
  <2>2. d \in Device /\ dev' = d
    BY <1>1, <2>1 DEF Device, Becomes
  <2>3. DeviceLasts'
    BY <1>1, <1>6, <2>1, <2>2 DEF DeviceLasts, Sleep, Idle, Device
  <2>4. /\ remover' \in {"away", "stop", "stopped", "unregister", "destroy", "done"}
        /\ remover' = "away" => remover = "away"
    BY <1>0, <1>6 DEF Sleep
  <2> QED
    BY <2>1, <2>2, <2>3, <2>4
<1>7. ASSUME Awaken
      PROVE  \E d : Alters(d)
  <2> DEFINE d == [dev EXCEPT !.asleep = FALSE]
  <2>1. Becomes(d) /\ UNCHANGED <<link, frame>>
    BY <1>7 DEF Awaken
  <2>2. d \in Device /\ dev' = d
    BY <1>1, <2>1 DEF Device, Becomes
  <2>3. DeviceLasts'
    BY <1>1, <1>7, <2>1, <2>2 DEF DeviceLasts, Awaken, Idle, Device
  <2>4. /\ remover' \in {"away", "stop", "stopped", "unregister", "destroy", "done"}
        /\ remover' = "away" => remover = "away"
    BY <1>0, <1>7 DEF Awaken
  <2> QED
    BY <2>1, <2>2, <2>3, <2>4
<1>8. ASSUME StopBt
      PROVE  \E d : Alters(d)
  <2> DEFINE d == [dev EXCEPT !.running = FALSE]
  <2>1. Becomes(d) /\ UNCHANGED <<link, frame>>
    BY <1>8 DEF StopBt
  <2>2. d \in Device /\ dev' = d
    BY <1>1, <2>1 DEF Device, Becomes
  <2>3. DeviceLasts'
    BY <1>1, <1>8, <2>1, <2>2 DEF DeviceLasts, StopBt, Idle, Device
  <2>4. /\ remover' \in {"away", "stop", "stopped", "unregister", "destroy", "done"}
        /\ remover' = "away" => remover = "away"
    BY <1>0, <1>8 DEF StopBt
  <2> QED
    BY <2>1, <2>2, <2>3, <2>4
<1>9. ASSUME ClearOpenBt
      PROVE  \E d : Alters(d)
  <2> DEFINE d == [dev EXCEPT !.open = FALSE]
  <2>1. Becomes(d) /\ UNCHANGED <<link, frame>>
    BY <1>9 DEF ClearOpenBt
  <2>2. d \in Device /\ dev' = d
    BY <1>1, <2>1 DEF Device, Becomes
  <2>3. DeviceLasts'
    BY <1>1, <1>9, <2>1, <2>2 DEF DeviceLasts, ClearOpenBt, Idle, Device
  <2>4. /\ remover' \in {"away", "stop", "stopped", "unregister", "destroy", "done"}
        /\ remover' = "away" => remover = "away"
    BY <1>0, <1>9 DEF ClearOpenBt
  <2> QED
    BY <2>1, <2>2, <2>3, <2>4
<1>10. ASSUME Unregister
      PROVE  \E d : Alters(d)
  <2> DEFINE d == [ClosedBt(dev) EXCEPT !.registered = FALSE]
  <2>1. Becomes(d) /\ UNCHANGED <<link, frame>>
    BY <1>10 DEF Unregister
  <2>2. d \in Device /\ dev' = d
    BY <1>1, <2>1 DEF Device, Becomes, ClosedBt
  <2>3. DeviceLasts'
    BY <1>1, <1>10, <2>1, <2>2 DEF DeviceLasts, Unregister, Idle, Device, ClosedBt
  <2>4. /\ remover' \in {"away", "stop", "stopped", "unregister", "destroy", "done"}
        /\ remover' = "away" => remover = "away"
    BY <1>0, <1>10 DEF Unregister
  <2> QED
    BY <2>1, <2>2, <2>3, <2>4
<1>11. ASSUME Destroy
      PROVE  \E d : Alters(d)
  <2> DEFINE d == [dev EXCEPT !.alive = FALSE, !.joined = FALSE]
  <2>1. Becomes(d) /\ UNCHANGED <<link, frame>>
    BY <1>11 DEF Destroy
  <2>2. d \in Device /\ dev' = d
    BY <1>1, <2>1 DEF Device, Becomes
  <2>3. DeviceLasts'
    BY <1>1, <1>11, <2>1, <2>2 DEF DeviceLasts, Destroy, Idle, Device, MayDestroy
  <2>4. /\ remover' \in {"away", "stop", "stopped", "unregister", "destroy", "done"}
        /\ remover' = "away" => remover = "away"
    BY <1>0, <1>11 DEF Destroy
  <2> QED
    BY <2>1, <2>2, <2>3, <2>4
<1>12. ASSUME NEW d, Alters(d)
      PROVE  FrInv'
  BY <1>12, DeviceStep DEF FrInv
<1> HIDE DEF Alters
<1> QED
  BY <1>2, <1>3, <1>4, <1>5, <1>6, <1>7, <1>8, <1>9, <1>10, <1>11, <1>12

(* The remover sets out, and the next card comes.                           *)
LEMMA RemoverSteps == FrInv /\ (Disconnect \/ Probe \/ UNCHANGED frVars) => FrInv'
<1>1. ASSUME FrInv, Disconnect
      PROVE  FrInv'
  BY <1>1 DEF FrInv, Disconnect, DeviceLasts, FrameInv, Idle, StillTrue, Passed, LinkTests
<1>2. ASSUME FrInv, Probe
      PROVE  FrInv'
  BY <1>2 DEF FrInv, Probe, DeviceLasts, FrameInv, Idle, FirstDev, NoFrame, Device, FrameType,
              AheadBt, AheadWlan
<1>3. ASSUME FrInv, UNCHANGED frVars
      PROVE  FrInv'
  BY <1>3 DEF FrInv, frVars, DeviceLasts, FrameInv, Idle, StillTrue, Passed, LinkTests
<1> QED
  BY <1>1, <1>2, <1>3

(* The library only meets live adapters, a frame it has met the tests it    *)
(* was to pass unless they ended behind its back, and a Bluetooth frame is  *)
(* lost only to sleep or a disconnect (lbluetooth_entry.c:335-374, 745,     *)
(* 782; lwlan_netdev.c:113-146).                                            *)
THEOREM FramesAreSafe == FrSpec => []FramesMeetTheirDevice
<1>1. FrInit => FrInv
  BY DEF FrInit, FrInv, DeviceLasts, FrameInv, Idle, FirstDev, NoFrame, Device, FrameType,
         AheadBt, AheadWlan
<1>2. FrInv /\ [FrNext]_frVars => FrInv'
  BY FrameSteps, DeviceSteps, RemoverSteps, Zenon DEF FrNext
<1>3. FrInv => FramesMeetTheirDevice
  <2> SUFFICES ASSUME FrInv
               PROVE  FramesMeetTheirDevice
    OBVIOUS
  <2>1. ASSUME frame.fate = "library"
        PROVE  dev.alive /\ \A test \in LinkTests : StillTrue(test)
    <3>1. ~Idle
      BY <2>1 DEF Idle
    <3>2. dev.alive
      BY <3>1 DEF FrInv, DeviceLasts
    <3>3. Passed(frame.tests) = LinkTests
      BY <2>1 DEF FrInv, FrameInv, Passed
    <3> QED
      BY <3>1, <3>2, <3>3 DEF FrInv, FrameInv
  <2> QED
    BY <2>1, TestsAre DEF FrInv, FrameInv, FramesMeetTheirDevice, LinkTests, StillTrue, BtTest
<1> QED
  BY <1>1, <1>2, <1>3, PTL DEF FrSpec

-----------------------------------------------------------------------------
(* Deferred calls.                                                         *)

(* What of a kind's excuses is about the kill.                              *)
Blamed ==
    \/ "used" \in cause
    \/ "twice" \in cause /\ kind # "urb"
    \/ "busy" \in cause /\ kind = "worklet"
    \/ "listed" \in cause /\ kind \in {"work", "oldDelayed"}
    \/ "selfUsed" \in cause /\ kind \in Delayed \cup {"work", "timer"}

StartedTwice == kind = "timer" /\ "unstopped" \in cause

LEMMA ExcuseIs ==
    ASSUME kind \in AllKinds
    PROVE  Blamed \/ StartedTwice <=> cause \cap Excuse[kind] # {}
<1>1. CASE kind = "worklet"
  BY <1>1 DEF Blamed, StartedTwice, Excuse, Delayed
<1>2. CASE kind = "work"
  BY <1>2 DEF Blamed, StartedTwice, Excuse, Delayed
<1>3. CASE kind = "delayed"
  BY <1>3 DEF Blamed, StartedTwice, Excuse, Delayed
<1>7. CASE kind = "oldDelayed"
  BY <1>7 DEF Blamed, StartedTwice, Excuse, Delayed
<1>4. CASE kind = "timer"
  BY <1>4 DEF Blamed, StartedTwice, Excuse, Delayed
<1>5. CASE kind = "tasklet"
  BY <1>5 DEF Blamed, StartedTwice, Excuse, Delayed
<1>6. CASE kind = "urb"
  BY <1>6 DEF Blamed, StartedTwice, Excuse, Delayed
<1> QED
  BY <1>1, <1>2, <1>3, <1>4, <1>5, <1>6, <1>7 DEF AllKinds, Delayed

(* A timer and a delayed work are due, from Linux 3.7 on only by a delay;   *)
(* all but a timer are queued; the function asks for itself while it runs.  *)
ListsFit ==
    /\ due => kind \in Delayed \cup {"timer"}
    /\ due /\ kind = "delayed" => "delay" \in cause
    /\ queued => kind # "timer"
    /\ at[Func] \in {"idle", "queue"}
    /\ at[Func] = "queue" => body

KillPlace == {"kill", "claimed", "clear"}

(* One thread kills the object, and frees a block that is there.            *)
OneKill ==
    /\ \A t, u \in Thread : at[t] \in KillPlace /\ at[u] \in KillPlace => t = u
    /\ \A t \in Thread : at[t] \in {"kill", "claimed"} => block = "live" /\ handle = "set"
    /\ \A t \in Thread : at[t] = "claimed" => kind = "tasklet" /\ ~queued
    /\ \A t \in Thread : at[t] = "clear" => block = "freed"
    /\ handle = "null" => block = "freed"

(* From the kill on no thread is in a call, and the kernel has the object   *)
(* on no list.  Of a tasklet this holds when its kill has waited.           *)
GoneIsQuiet ==
    Gone => /\ \A t \in Thread : at[t] \notin InCall
            /\ kind = "worklet" => ~Busy
            /\ kind \in Delayed \cup {"work", "timer"} => ~due /\ ~queued /\ at[Func] # "queue"
            /\ kind = "tasklet" /\ block = "freed" => ~queued /\ ~body

(* A timer is started by one caller at a time, and only when it is not due. *)
OneStart ==
    kind = "timer" /\ "unstopped" \notin cause =>
        \A a \in Actor : at[a] = "queue" => ~due /\ \A b \in Actor : at[b] = "queue" => a = b

Stage == {"idle", "queue", "off", "wait", "kill", "claimed", "clear"}

DcTyped ==
    /\ kind \in AllKinds
    /\ handle \in {"set", "null"} /\ block \in {"live", "freed"}
    /\ at \in [Actor -> Stage]

DcInv == DcTyped /\ ListsFit /\ (~Blamed => OneKill /\ GoneIsQuiet) /\ OneStart

(* What every step of a sound object must do.                               *)
Explained ==
    /\ fault \ {"unset"} # {} => Blamed \/ StartedTwice
    /\ "unset" \in fault => kind = "delayed" /\ "delay" \in cause

DcGoal == DcInv' /\ Explained'

(* Blame stays.                                                             *)
LEMMA BlameStays ==
    ASSUME kind' = kind, cause \subseteq cause'
    PROVE  Blamed => Blamed'
BY DEF Blamed

LEMMA BeginGoal ==
    ASSUME DcInv, Sound, NEW a \in Actor, Begin(a)
    PROVE  DcGoal
<1> USE FuncAssumption DEF Actor, Stage, KillPlace, InCall, Delayed
<1>1. /\ kind' = kind /\ cause \subseteq cause' /\ UNCHANGED <<handle, block, due, queued, body>>
      /\ at' = [at EXCEPT ![a] = "queue"] /\ at[a] = "idle" /\ (a = Func => body)
  BY DEF Begin, Blame, Went, kernel
<1>2. DcTyped' /\ ListsFit'
  BY <1>1 DEF DcInv, DcTyped, ListsFit
<1>3. Gone' = Gone
  BY <1>1 DEF DcInv, DcTyped, Gone, Killing, Someone
<1>4. ASSUME Gone, ~Blamed'
      PROVE  a = Func /\ kind \in {"tasklet", "urb"} /\ body
  <2>1. a \in Thread => "used" \in cause'
    BY <1>4 DEF Begin, Blame
  <2>2. a = Func => body /\ "selfUsed" \in cause'
    BY <1>4 DEF Begin, Blame
  <2>3. ~Blamed
    BY <1>1, <1>4, BlameStays
  <2>4. kind = "worklet" => ~body
    BY <1>4, <2>3 DEF DcInv, GoneIsQuiet, Busy
  <2> QED
    BY <1>1, <1>4, <2>1, <2>2, <2>4 DEF Blamed, DcInv, DcTyped, AllKinds
<1>5. ASSUME ~Blamed'
      PROVE  OneKill' /\ GoneIsQuiet'
  <2>1. OneKill /\ GoneIsQuiet
    BY <1>1, <1>5, BlameStays DEF DcInv
  <2>2. OneKill'
    BY <1>1, <2>1 DEF OneKill, DcInv, DcTyped
  <2>3. GoneIsQuiet'
    BY <1>1, <1>3, <1>4, <1>5, <2>1 DEF GoneIsQuiet, DcInv, DcTyped, Busy
  <2> QED
    BY <2>2, <2>3
<1>6. OneStart'
  <2> SUFFICES ASSUME kind = "timer", "unstopped" \notin cause'
               PROVE  \A b \in Actor : at'[b] = "queue" =>
                          ~due /\ \A c \in Actor : at'[c] = "queue" => b = c
    BY <1>1 DEF OneStart
  <2>1. ~due /\ \A b \in Actor : at[b] # "queue"
    BY DEF Begin, Blame, Someone
  <2> QED
    BY <1>1, <2>1 DEF DcInv, DcTyped
<1>7. Explained'
  <2>1. fault' \subseteq {"freed"} /\ (fault' # {} => kind = "worklet" /\ block = "freed")
    BY DEF Begin, Fail, Sound, Touch, Is
  <2>2. fault' # {} => Blamed'
    BY <1>4, <2>1 DEF Gone
  <2> QED
    BY <2>1, <2>2 DEF Explained
<1> QED
  BY <1>2, <1>5, <1>6, <1>7 DEF DcGoal, DcInv

LEMMA BeginOnNullGoal ==
    ASSUME DcInv, Sound, NEW a \in Actor, BeginOnNull(a)
    PROVE  DcGoal
<1> USE FuncAssumption DEF Actor, Stage, KillPlace, InCall, Delayed
<1>1. /\ UNCHANGED <<kind, handle, block, due, queued, body, at>> /\ cause \subseteq cause'
      /\ kind # "tasklet" /\ handle = "null" /\ fault' = {"null"}
  BY DEF BeginOnNull, Blame, Fail, Sound, kernel, NullIsFatal, Is, HasPointer, DcInv, DcTyped
<1>2. DcTyped' /\ ListsFit' /\ OneStart'
  BY <1>1 DEF DcInv, DcTyped, ListsFit, OneStart
<1>3. Blamed'
  <2>1. CASE a \in Thread
    BY <2>1 DEF BeginOnNull, Blame, Blamed
  <2>2. CASE a = Func /\ kind \in Delayed \cup {"work", "timer"}
    BY <1>1, <2>2 DEF BeginOnNull, Blame, Blamed
  <2>3. CASE a = Func /\ kind = "worklet"
    <3>1. Gone /\ Busy
      BY <1>1, <2>3 DEF BeginOnNull, Gone, Busy
    <3>2. Blamed
      BY <2>3, <3>1 DEF DcInv, GoneIsQuiet
    <3> QED
      BY <1>1, <3>2, BlameStays
  <2>4. CASE a = Func /\ kind = "urb"
    BY <2>4 DEF BeginOnNull, HasPointer, Is
  <2> QED
    BY <1>1, <2>1, <2>2, <2>3, <2>4 DEF DcInv, DcTyped, AllKinds
<1> QED
  BY <1>1, <1>2, <1>3 DEF DcGoal, DcInv, Explained

(* Who has read the handle meets the block.                                 *)
LEMMA QueueMeetsBlock ==
    ASSUME DcInv, ~Blamed, NEW a \in Actor, at[a] = "queue"
    PROVE  /\ Gone => a = Func /\ kind \in {"tasklet", "urb"}
           /\ Touch = {}
<1>1. a # Func => a \in Thread
  BY DEF Actor, InCall
<1>2. a = Func => body
  BY DEF DcInv, ListsFit
<1>3. Gone => a = Func /\ kind \in {"tasklet", "urb"}
  BY <1>1, <1>2 DEF DcInv, DcTyped, AllKinds, Delayed, GoneIsQuiet, Busy, InCall
<1>4. block = "freed" => Held
  BY <1>2, <1>3 DEF DcInv, GoneIsQuiet, Gone, Held, Is
<1> QED
  BY <1>3, <1>4 DEF Touch

LEMMA OffMeetsBlock ==
    ASSUME DcInv, ~Blamed, NEW t \in Thread, at[t] \in InCall
    PROVE  ~Gone /\ Touch = {}
<1>1. ~Gone
  BY DEF DcInv, GoneIsQuiet
<1> QED
  BY <1>1 DEF Gone, Touch

LEMMA QueuesGoal ==
    ASSUME DcInv, Sound, NEW a \in Actor, Queues(a)
    PROVE  DcGoal
<1> USE FuncAssumption DEF Actor, Stage, KillPlace, InCall, Delayed
<1>1. /\ UNCHANGED <<kind, handle, block, body>> /\ at[a] = "queue"
      /\ at' = [at EXCEPT ![a] = "idle"]
  BY DEF Queues, Queue, Went, ScheduleWorklet, QueueWork, QueueDelayedWork, DelayWork,
         ScheduleTasklet, StartTimer, ResetTimer, SubmitUrb
<1>2. /\ due' => due \/ kind \in {"oldDelayed", "timer"} \/ (kind = "delayed" /\ "delay" \in cause')
      /\ queued' => queued \/ kind \in Delayed \cup {"worklet", "work", "urb"}
                           \/ (kind = "tasklet" /\ ~Someone({"claimed"}))
      /\ fault' \ {"unset"} # {} => Touch # {} \/ (kind = "timer" /\ due)
      /\ "unset" \in fault' => kind = "delayed" /\ "delay" \in cause'
      /\ cause' = cause \/ (cause' = cause \cup {"delay"} /\ kind = "delayed")
  <2>1. CASE ScheduleWorklet(a)
    BY <2>1 DEF ScheduleWorklet, Is, Fail, Sound, Touch
  <2>2. CASE QueueWork(a)
    BY <2>2 DEF QueueWork, Is, Fail, Sound, Touch
  <2>3. CASE QueueDelayedWork(a)
    BY <2>3 DEF QueueDelayedWork, Is, Fail, Sound, Touch
  <2>4. CASE ScheduleTasklet(a)
    BY <2>4 DEF ScheduleTasklet, Is, Fail, Sound, Touch
  <2>5. CASE StartTimer(a)
    BY <2>5 DEF StartTimer, Is, Fail, Sound, Touch
  <2>6. CASE ResetTimer(a)
    BY <2>6 DEF ResetTimer, Is, Fail, Sound, Touch
  <2>7. CASE SubmitUrb(a)
    BY <2>7 DEF SubmitUrb, Is, Fail, Sound, Touch
  <2>8. CASE DelayWork(a)
    <3>1. CASE kind = "delayed"
      BY <2>8, <3>1 DEF DelayWork, Is, Fail, Sound, Touch, Blame, Pending, Unset
    <3>2. CASE kind = "oldDelayed"
      <4>1. Unset = {}
        BY <3>2 DEF Unset, Is
      <4>2. \E now \in SUBSET {} : fault' = fault \cup (Touch \cup IF Pending THEN {} ELSE now)
        BY <2>8, <4>1 DEF DelayWork, Fail
      <4>3. fault' \subseteq Touch
        BY <4>2 DEF Sound
      <4> QED
        BY <2>8, <3>2, <4>3 DEF DelayWork, Is, Touch, Blame
    <3> QED
      BY <2>8, <3>1, <3>2 DEF DelayWork, Is
  <2> QED
    BY <2>1, <2>2, <2>3, <2>4, <2>5, <2>6, <2>7, <2>8 DEF Queues
<1>3. DcTyped' /\ ListsFit'
  BY <1>1, <1>2 DEF DcInv, DcTyped, ListsFit
<1>4. Gone' = Gone /\ Blamed' = Blamed
  BY <1>1, <1>2 DEF DcInv, DcTyped, Gone, Killing, Someone, Blamed
<1>5. ASSUME ~Blamed
      PROVE  OneKill' /\ GoneIsQuiet'
  <2>1. OneKill /\ GoneIsQuiet
    BY <1>5 DEF DcInv
  <2>2. OneKill'
    BY <1>1, <1>2, <2>1 DEF OneKill, DcInv, DcTyped, Someone
  <2>3. Gone => a = Func /\ kind \in {"tasklet", "urb"} /\ (kind = "tasklet" => body)
    BY <1>1, <1>5, QueueMeetsBlock DEF DcInv, ListsFit
  <2>4. GoneIsQuiet'
    BY <1>1, <1>4, <2>1, <2>3 DEF GoneIsQuiet, DcInv, DcTyped, Busy
  <2> QED
    BY <2>2, <2>4
<1>6. OneStart'
  BY <1>1, <1>2 DEF OneStart, DcInv, DcTyped
<1>7. fault' \ {"unset"} # {} => Blamed \/ StartedTwice
  BY <1>1, <1>2, QueueMeetsBlock DEF DcInv, OneStart, StartedTwice
<1>8. Explained'
  BY <1>1, <1>2, <1>4, <1>7 DEF Explained, StartedTwice
<1> QED
  BY <1>3, <1>4, <1>5, <1>6, <1>8 DEF DcGoal, DcInv

(* Calling off: a library that begins it beside a kill is to blame.         *)
LEMMA BeginOffGoal ==
    ASSUME DcInv, Sound, NEW t \in Thread, BeginOff(t)
    PROVE  DcGoal
<1> USE FuncAssumption DEF Actor, Stage, KillPlace, InCall, Delayed
<1>1. /\ UNCHANGED <<kind, handle, block, due, queued, body, fault>> /\ at[t] = "idle"
      /\ at' = [at EXCEPT ![t] = "off"]
      /\ cause' = cause \cup IF Gone THEN {"used"} ELSE {}
  BY DEF BeginOff, Went, Blame, kernel
<1>2. DcTyped' /\ ListsFit' /\ OneStart'
  BY <1>1 DEF DcInv, DcTyped, ListsFit, OneStart
<1>3. Gone' = Gone
  BY <1>1 DEF DcInv, DcTyped, Gone, Killing, Someone
<1>4. Gone => Blamed'
  BY <1>1 DEF Blamed
<1>5. ASSUME ~Blamed'
      PROVE  OneKill' /\ GoneIsQuiet'
  <2>1. OneKill
    BY <1>1, <1>5, BlameStays DEF DcInv
  <2>2. OneKill'
    BY <1>1, <2>1 DEF OneKill, DcInv, DcTyped
  <2> QED
    BY <1>3, <1>4, <1>5, <2>2 DEF GoneIsQuiet
<1>6. Explained'
  BY <1>1 DEF Explained, Sound
<1> QED
  BY <1>2, <1>5, <1>6 DEF DcGoal, DcInv

LEMMA CallsOffGoal ==
    ASSUME DcInv, Sound, NEW t \in Thread, CallsOff(t) \/ TaskletDisabled(t) \/ UrbKilled(t)
    PROVE  DcGoal
<1> USE FuncAssumption DEF Actor, Stage, KillPlace, InCall, Delayed
<1>1. /\ UNCHANGED <<kind, handle, block, body, cause>> /\ at[t] \in {"off", "wait"}
      /\ at' = [at EXCEPT ![t] = "idle"] \/ at' = [at EXCEPT ![t] = "wait"]
      /\ due' => due
      /\ queued' => queued
      /\ fault' = Touch
  <2>1. CASE StopTimer(t) \/ StopTimerSync(t)
    BY <2>1 DEF StopTimer, StopTimerSync, CallOff, Went, Fail, Sound
  <2>4. CASE CancelDelayedWork(t)
    <3>1. (due' => due) /\ (queued' => queued)
      BY <2>4, Zenon DEF CancelDelayedWork
    <3> QED
      BY <2>4, <3>1 DEF CancelDelayedWork, CallOff, Went, Fail, Sound
  <2>2. CASE DisableTasklet(t) \/ EnableTasklet(t) \/ KillUrb(t)
    BY <2>2 DEF DisableTasklet, EnableTasklet, KillUrb, CallOff, Went, Fail, Sound
  <2>3. CASE TaskletDisabled(t) \/ UrbKilled(t)
    BY <2>3 DEF TaskletDisabled, UrbKilled, Went, Fail, Sound, kernel
  <2> QED
    BY <2>1, <2>2, <2>3, <2>4 DEF CallsOff
<1>2. DcTyped' /\ ListsFit' /\ OneStart'
  BY <1>1 DEF DcInv, DcTyped, ListsFit, OneStart
<1>3. Gone' = Gone /\ Blamed' = Blamed
  BY <1>1 DEF DcInv, DcTyped, Gone, Killing, Someone, Blamed
<1>4. ~Blamed => ~Gone /\ Touch = {}
  BY <1>1, OffMeetsBlock
<1>5. ~Blamed => OneKill' /\ GoneIsQuiet'
  <2>1. OneKill => OneKill'
    BY <1>1 DEF OneKill, DcInv, DcTyped
  <2> QED
    BY <1>3, <1>4, <2>1 DEF GoneIsQuiet, DcInv
<1>6. Explained'
  <2>1. fault' \subseteq {"freed"}
    BY <1>1 DEF Touch
  <2> QED
    BY <1>1, <1>3, <1>4, <2>1 DEF Explained
<1> QED
  BY <1>2, <1>3, <1>5, <1>6 DEF DcGoal, DcInv

LEMMA KillGoal ==
    ASSUME DcInv, Sound, NEW t \in Thread, Kill(t)
    PROVE  DcGoal
<1> USE FuncAssumption DEF Actor, Stage, KillPlace, InCall, Delayed
<1>1. /\ UNCHANGED <<kind, handle, block, body>> /\ at[t] = "idle" /\ handle = "set"
      /\ at' = [at EXCEPT ![t] = "kill"] /\ cause \subseteq cause'
      /\ due' = (due /\ ~CalledOffFirst(kind))
      /\ queued' = (queued /\ ~(CalledOffFirst(kind) /\ TakesOff))
      /\ fault' = Touch
  BY DEF Kill, Went, Blame, Fail, Sound
<1>2. ASSUME ~Blamed'
      PROVE  /\ ~Gone
             /\ \A u \in Thread : at[u] \notin InCall
             /\ kind = "worklet" => ~Busy
             /\ kind \in {"work", "oldDelayed"} => ~queued
             /\ kind \in Delayed \cup {"work", "timer"} => at[Func] # "queue"
  <2>1. Gone => kind = "urb"
    BY <1>1, <1>2 DEF Kill, Blame, Blamed
  <2>2. kind = "urb" => ~Gone
    BY <1>1 DEF Kill, Is, Gone
  <2>3. \A u \in Thread : at[u] \notin InCall
    BY <1>2 DEF Kill, Blame, Blamed
  <2>4. kind = "worklet" => ~Busy
    BY <1>1, <1>2 DEF Kill, Blame, Blamed
  <2>5. kind \in {"work", "oldDelayed"} => ~queued
    BY <1>1, <1>2 DEF Kill, Blame, Blamed
  <2>6. kind \in Delayed \cup {"work", "timer"} => at[Func] # "queue"
    BY <1>1, <1>2 DEF Kill, Blame, Blamed
  <2> QED
    BY <2>1, <2>2, <2>3, <2>4, <2>5, <2>6
<1>3. DcTyped' /\ ListsFit'
  BY <1>1 DEF DcInv, DcTyped, ListsFit
<1>4. ASSUME ~Blamed'
      PROVE  OneKill' /\ GoneIsQuiet'
  <2>1. block = "live" /\ \A u \in Actor : at[u] \notin KillPlace
    BY <1>2, <1>4 DEF Gone, Killing, Someone, DcInv, DcTyped
  <2>2. OneKill'
    BY <1>1, <2>1 DEF OneKill, DcInv, DcTyped
  <2>3. GoneIsQuiet'
    BY <1>1, <1>2, <1>4, <2>1
       DEF GoneIsQuiet, DcInv, DcTyped, ListsFit, Busy, CalledOffFirst, TakesOff, Is
  <2> QED
    BY <2>2, <2>3
<1>5. OneStart'
  BY <1>1 DEF OneStart, DcInv, DcTyped
<1>6. Explained'
  <2>1. Touch \subseteq {"freed"} /\ (Touch # {} => Gone)
    BY DEF Touch, Gone
  <2> QED
    BY <1>1, <1>2, <2>1 DEF Explained
<1> QED
  BY <1>3, <1>4, <1>5, <1>6 DEF DcGoal, DcInv

LEMMA ProceedsGoal ==
    ASSUME DcInv, Sound, NEW t \in Thread, ClaimTasklet(t) \/ FreeBlock(t) \/ ClearHandle(t)
    PROVE  DcGoal
<1> USE FuncAssumption DEF Actor, Stage, KillPlace, InCall, Delayed
<1>1. UNCHANGED <<kind, due, queued, body, cause>>
  BY DEF ClaimTasklet, FreeBlock, ClearHandle, kernel
<1>2. Blamed' = Blamed
  BY <1>1 DEF Blamed
<1>4. CASE ClaimTasklet(t)
  <2>1. /\ UNCHANGED <<handle, block, fault>> /\ at[t] = "kill" /\ at' = [at EXCEPT ![t] = "claimed"]
        /\ kind = "tasklet" /\ ~queued
    BY <1>4 DEF ClaimTasklet, Went, Is
  <2>2. DcTyped' /\ ListsFit'
    BY <1>1, <2>1 DEF DcInv, DcTyped, ListsFit
  <2>3. Gone
    BY <2>1 DEF Gone, Killing, Someone
  <2>4. OneKill => OneKill'
    BY <1>1, <2>1 DEF OneKill, DcInv, DcTyped
  <2>5. GoneIsQuiet => GoneIsQuiet'
    BY <1>1, <2>1, <2>3 DEF GoneIsQuiet, DcInv, DcTyped, Busy
  <2>6. OneStart'
    BY <1>1, <2>1 DEF OneStart
  <2> QED
    BY <1>2, <2>1, <2>2, <2>4, <2>5, <2>6 DEF DcGoal, DcInv, Sound, Explained
<1>5. CASE FreeBlock(t)
  <2>1. /\ handle' = handle /\ block' = "freed" /\ at' = [at EXCEPT ![t] = "clear"]
        /\ at[t] = IF kind = "tasklet" THEN "claimed" ELSE "kill"
        /\ kind = "tasklet" => ~body
        /\ fault' \subseteq {"double"} /\ (fault' # {} => block = "freed")
    BY <1>5 DEF FreeBlock, Went, Is, WaitsForBody, Fail, Sound
  <2>2. DcTyped' /\ ListsFit'
    BY <1>1, <2>1 DEF DcInv, DcTyped, ListsFit
  <2>3. Gone
    BY <2>1 DEF Gone, Killing, Someone
  <2>4. OneKill => OneKill' /\ block = "live" /\ (kind = "tasklet" => ~queued)
    BY <1>1, <2>1 DEF OneKill, DcInv, DcTyped
  <2>5. OneKill /\ GoneIsQuiet => GoneIsQuiet'
    BY <1>1, <2>1, <2>3, <2>4 DEF GoneIsQuiet, DcInv, DcTyped, Busy
  <2>6. OneStart'
    BY <1>1, <2>1 DEF OneStart, DcInv, DcTyped
  <2> QED
    BY <1>2, <2>1, <2>2, <2>4, <2>5, <2>6 DEF DcGoal, DcInv, Explained
<1>6. CASE ClearHandle(t)
  <2>1. /\ UNCHANGED <<block, fault>> /\ at[t] = "clear" /\ at' = [at EXCEPT ![t] = "idle"]
        /\ handle' \in {handle, "null"}
    BY <1>6 DEF ClearHandle, Went
  <2>2. DcTyped' /\ ListsFit'
    BY <1>1, <2>1 DEF DcInv, DcTyped, ListsFit
  <2>3. Gone
    BY <2>1 DEF Gone, Killing, Someone
  <2>4. OneKill => OneKill'
    BY <1>1, <2>1 DEF OneKill, DcInv, DcTyped
  <2>5. GoneIsQuiet => GoneIsQuiet'
    BY <1>1, <2>1, <2>3 DEF GoneIsQuiet, DcInv, DcTyped, Busy
  <2>6. OneStart'
    BY <1>1, <2>1 DEF OneStart, DcInv, DcTyped
  <2> QED
    BY <1>2, <2>1, <2>2, <2>4, <2>5, <2>6 DEF DcGoal, DcInv, Sound, Explained
<1> QED
  BY <1>4, <1>5, <1>6

LEMMA KernelGoal ==
    ASSUME DcInv, Sound, Kernel
    PROVE  DcGoal
<1> USE FuncAssumption DEF Actor, Stage, KillPlace, InCall, Delayed
<1>1. UNCHANGED <<kind, handle, block, at, cause>>
  BY DEF Kernel, TimerExpires, DelayExpires, Dispatch, FuncReturns
<1>2. DcTyped' /\ Blamed' = Blamed /\ Gone' = Gone
  BY <1>1 DEF DcInv, DcTyped, Blamed, Gone, Killing, Someone
<1>3. Touch \subseteq {"freed"} /\ (Touch # {} => block = "freed" /\ Gone /\ ~Held)
  BY DEF Touch, Gone
<1>4. CASE TimerExpires
  <2>1. kind = "timer" /\ due /\ ~due' /\ queued' = queued /\ body' /\ fault' = Touch
    BY <1>4 DEF TimerExpires, CallFunc, Is, Fail, Sound
  <2>2. ~Blamed => ~Gone
    BY <2>1 DEF DcInv, GoneIsQuiet
  <2>3. ListsFit' /\ (OneKill => OneKill') /\ OneStart'
    BY <1>1, <2>1 DEF DcInv, ListsFit, OneKill, OneStart
  <2> QED
    BY <1>2, <1>3, <2>1, <2>2, <2>3 DEF DcGoal, DcInv, GoneIsQuiet, Explained
<1>5. CASE DelayExpires
  <2>1. /\ kind \in Delayed /\ due /\ ~due' /\ body' = body
        /\ fault' \subseteq Touch \cup {"unset"} /\ ("unset" \in fault' => kind = "delayed")
    BY <1>3, <1>5 DEF DelayExpires, Is, Fail, Sound, Unset
  <2>2. ~Blamed => ~Gone
    BY <2>1 DEF DcInv, GoneIsQuiet
  <2>3. ListsFit' /\ (OneKill => OneKill') /\ OneStart'
    BY <1>1, <2>1 DEF DcInv, ListsFit, OneKill, OneStart
  <2> QED
    BY <1>1, <1>2, <1>3, <2>1, <2>2, <2>3 DEF DcGoal, DcInv, ListsFit, GoneIsQuiet, Explained
<1>6. CASE Dispatch
  <2>1. queued /\ ~queued' /\ due' = due /\ ~body /\ fault' = Touch
    BY <1>6 DEF Dispatch, Fail, Sound
  <2>2. ~Blamed /\ Gone => kind = "urb" \/ (kind = "tasklet" /\ block # "freed")
    BY <2>1 DEF DcInv, DcTyped, AllKinds, GoneIsQuiet, Busy
  <2>5. kind = "urb" => Held
    BY <2>1 DEF Held, Is
  <2>3. ListsFit' /\ (OneKill => OneKill') /\ OneStart'
    BY <1>1, <2>1 DEF DcInv, ListsFit, OneKill, OneStart
  <2>4. ~Blamed => GoneIsQuiet'
    BY <1>1, <1>2, <2>2 DEF DcInv, GoneIsQuiet
  <2> QED
    BY <1>2, <1>3, <2>1, <2>2, <2>3, <2>4, <2>5 DEF DcGoal, DcInv, Explained
<1>7. CASE FuncReturns
  <2>1. /\ body /\ ~body' /\ due' = due /\ queued' = queued /\ at[Func] = "idle"
        /\ fault' \subseteq Touch /\ (fault' # {} => kind = "worklet")
    BY <1>7 DEF FuncReturns, Is, Fail, Sound
  <2>2. ~Blamed /\ Gone => kind # "worklet"
    BY <2>1 DEF DcInv, GoneIsQuiet, Busy
  <2>3. ListsFit' /\ (OneKill => OneKill') /\ OneStart'
    BY <1>1, <2>1 DEF DcInv, ListsFit, OneKill, OneStart
  <2>4. ~Blamed => GoneIsQuiet'
    BY <1>1, <1>2, <2>1 DEF DcInv, GoneIsQuiet, Busy
  <2> QED
    BY <1>2, <1>3, <2>1, <2>2, <2>3, <2>4 DEF DcGoal, DcInv, Explained
<1> QED
  BY <1>4, <1>5, <1>6, <1>7 DEF Kernel

-----------------------------------------------------------------------------
(* An error comes with its explanation, which stays.                        *)
DcSafe == DcInv /\ Explained

LEMMA DcNextSafe == DcSafe /\ [DcNext]_dcVars => DcSafe'
<1>1. ASSUME DcSafe, DcNext
      PROVE  DcSafe'
  <2>1. DcInv /\ Sound
    BY <1>1 DEF DcSafe, DcNext
  <2>2. DcGoal
    BY <1>1, <2>1, BeginGoal, BeginOnNullGoal, QueuesGoal, BeginOffGoal, CallsOffGoal, KillGoal,
       ProceedsGoal, KernelGoal DEF DcNext, NewCall, Proceeds
  <2> QED
    BY <2>2 DEF DcGoal, DcSafe
<1>2. ASSUME DcSafe, UNCHANGED dcVars
      PROVE  DcSafe'
  BY <1>2 DEF dcVars, kernel, DcSafe, DcInv, DcTyped, ListsFit, OneKill, GoneIsQuiet, Gone, Killing,
              Someone, Busy, OneStart, Blamed, StartedTwice, Explained
<1> QED
  BY <1>1, <1>2

LEMMA DcAlways == DcSpec => []DcSafe
<1>1. DcInit => DcSafe
  BY FuncAssumption, KindsAssumption
     DEF DcInit, DcSafe, DcInv, DcTyped, ListsFit, OneKill, GoneIsQuiet, Gone, Killing, Someone,
         OneStart, Stage, Actor, KillPlace, Explained
<1> QED
  BY <1>1, DcNextSafe, PTL DEF DcSpec

(* What can go wrong with a deferred call goes wrong only for the reasons   *)
(* listed, kind by kind and on either side of Linux 3.7, for any number of  *)
(* threads; and a timer without a function is met only through a delay      *)
(* (tdsp_tasklet.c:53-104, tdsp_timer.c:63-113, tdsp_work.c:33-136).        *)
THEOREM ErrorsAreExplained == DcSpec => []FaultsExplained
<1>1. DcSafe => FaultsExplained
  BY ExcuseIs DEF DcSafe, DcInv, DcTyped, Explained, FaultsExplained
<1> QED
  BY <1>1, DcAlways, PTL

(* A killed timer, delayed work or tasklet stays quiet, although nothing    *)
(* but the tasklet's kill waits for the function (tdsp_timer.c:102-113,     *)
(* tdsp_work.c:82-100, tdsp_tasklet.c:93-104).                              *)
THEOREM KilledStaysQuiet == DcSpec => []QuietAfterKill
<1>1. DcSafe => QuietAfterKill
  <2> SUFFICES ASSUME DcSafe, block = "freed", kind \in {"timer", "tasklet"} \cup Delayed,
                      cause \cap (Excuse[kind] \ {"unstopped"}) = {}
               PROVE  ~due /\ ~queued /\ (Is({"tasklet"}) => ~body)
    BY DEF QuietAfterKill
  <2>1. ~Blamed
    BY DEF Blamed, Excuse, Delayed
  <2>2. Gone
    BY DEF Gone
  <2> QED
    BY <2>1, <2>2 DEF DcSafe, DcInv, ListsFit, GoneIsQuiet, Is
<1> QED
  BY <1>1, DcAlways, PTL
=============================================================================
