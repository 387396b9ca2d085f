-------------------------- MODULE WirelessExt_proofs --------------------------
(***************************************************************************)
(* Proofs about the wireless extensions, for any channels the library      *)
(* accepts and any requests: the arithmetic of channels and frequencies,   *)
(* and that the driver keeps to what it announces.                         *)
(***************************************************************************)
EXTENDS WirelessExt, WellFoundedInduction, FiniteSetTheorems, SequenceTheorems, TLAPS

-----------------------------------------------------------------------------
(* Channels and frequencies.                                               *)

LEMMA TwoGhzNumbers ==
    ASSUME NEW f \in Nat, f > 1000, f <= 5000, FreqToChannel(f) \in 1..255
    PROVE  Near(f, ChannelToFreq(FreqToChannel(f))) <=> InBand(f)
<1>1. CASE f = 2484
  BY <1>1, SMT DEF FreqToChannel, ChannelToFreq, Near, InBand
<1>2. CASE f # 2484 /\ f >= 2407
  <2> DEFINE q == (f - 2407) \div 5
  <2>1. q \in 0..518 /\ f - 2407 - 5 * q \in 0..4
    BY <1>2, SMT
  <2>2. FreqToChannel(f) = q % 256
    BY <1>2, SMT DEF FreqToChannel, Divide
  <2> HIDE DEF q
  <2>3. FreqToChannel(f) \in {q, q - 256, q - 512}
    BY <2>1, <2>2, SMT
  <2>4. ASSUME NEW c \in 1..255, c \in {q, q - 256, q - 512}
        PROVE  Near(f, ChannelToFreq(c)) <=> InBand(f)
    <3>1. CASE c = q
      BY <1>2, <2>1, <3>1, SMT DEF ChannelToFreq, Near, InBand
    <3>2. CASE c = q - 256
      BY <1>2, <2>1, <3>2, SMT DEF ChannelToFreq, Near, InBand
    <3>3. CASE c = q - 512
      BY <1>2, <2>1, <3>3, SMT DEF ChannelToFreq, Near, InBand
    <3> QED
      BY <2>4, <3>1, <3>2, <3>3
  <2> DEFINE n == FreqToChannel(f)
  <2>5. n \in 1..255 /\ n \in {q, q - 256, q - 512}
    BY <2>3
  <2> HIDE DEF n
  <2>6. Near(f, ChannelToFreq(n)) <=> InBand(f)
    BY <2>4, <2>5
  <2> QED
    BY <2>6 DEF n
<1>3. CASE f < 2407
  <2> DEFINE q == (2407 - f) \div 5
  <2>1. q \in 0..281 /\ 2407 - f - 5 * q \in 0..4
    BY <1>3, SMT
  <2>2. FreqToChannel(f) = (-q) % 256
    BY <1>3, SMT DEF FreqToChannel, Divide
  <2> HIDE DEF q
  <2>3. FreqToChannel(f) \in {256 - q, 512 - q}
    BY <2>1, <2>2, SMT
  <2> QED
    BY <1>3, <2>1, <2>3, SMT DEF ChannelToFreq, Near, InBand
<1> QED
  BY <1>1, <1>2, <1>3, SMT

LEMMA FiveGhzNumbers ==
    ASSUME NEW f \in Nat, f > 5000, FreqToChannel(f) \in 1..255
    PROVE  Near(f, ChannelToFreq(FreqToChannel(f))) <=> InBand(f)
<1> DEFINE c == (f - 5000) \div 5
<1>1. FreqToChannel(f) = c
  BY SMT DEF FreqToChannel, Divide
<1>2. c \in 1..255 /\ f - 5000 - 5 * c \in 0..4
  BY <1>1, SMT
<1> HIDE DEF c
<1> QED
  BY <1>1, <1>2, SMT DEF ChannelToFreq, Near, InBand

(* Exponents 0..6 are counted down as they should be.                       *)
LEMMA Scaled ==
    ASSUME NEW r \in FreqRequests, r.e \in 0..6, r.m \in Nat
    PROVE  /\ Megahertz(r) = r.m \div PowerOfTen(6 - r.e)
           /\ Megahertz(r) \in Nat
<1>1. Divisions(r) = 6 - r.e
  BY SMT DEF Divisions, Char
<1> DEFINE k == PowerOfTen(6 - r.e)
<1>2. k \in Nat \ {0}
  <2>1. r.e \in {0, 1, 2, 3, 4, 5, 6}
    BY SMT
  <2> QED
    BY <2>1, SMT DEF PowerOfTen
<1>3. Megahertz(r) = Divide(r.m, k)
  BY <1>1, SMT DEF Megahertz
<1> HIDE DEF k
<1>4. Megahertz(r) = r.m \div k
  BY <1>3, SMT DEF Divide
<1>5. r.m \div k \in Nat
  BY <1>2, SMT
<1> QED
  BY <1>4, <1>5 DEF k

LEMMA GrantMeansFreq ==
    ASSUME NEW r \in FreqRequests, ChannelAsked(r) \in AllowedChannels,
           IsChannel(r) \/ Megahertz(r) > 1000
    PROVE  /\ ChannelAsked(r) \in 1..255 /\ Meant(r) \in Nat
           /\ Near(Meant(r), ChannelToFreq(ChannelAsked(r))) <=> InBand(Meant(r))
<1>1. ChannelAsked(r) \in 1..255 /\ r.m \in Int /\ r.e \in Int
  <2>1. r.m \in Signed(2147483647) /\ r.e \in Signed(32767)
    BY FreqAssumption, SMT
  <2>2. \A max \in Int : Signed(max) \subseteq Int
    BY SMT DEF Signed
  <2>3. r.m \in Int /\ r.e \in Int
    BY <2>1, <2>2, SMT
  <2> QED
    BY <2>3, ChannelAssumption
<1>2. CASE IsChannel(r)
  BY <1>1, <1>2, SMT DEF ChannelAsked, Meant, ChannelToFreq, Near, InBand
<1>3. CASE ~IsChannel(r) /\ r.e \in 0..6
  <2>1. r.m \in Nat
    <3>1. SUFFICES ASSUME r.m < 0
                   PROVE  FALSE
      BY <1>1
    <3>2. Divisions(r) \in 0..6
      BY <1>3, SMT DEF Divisions, Char
    <3> DEFINE k == PowerOfTen(Divisions(r))
    <3>3. k \in Nat \ {0}
      <4>1. Divisions(r) \in {0, 1, 2, 3, 4, 5, 6}
        BY <3>2, SMT
      <4> QED
        BY <4>1, SMT DEF PowerOfTen
    <3>4. Megahertz(r) = -((-r.m) \div k)
      BY <1>1, <3>1, <3>2, SMT DEF Megahertz, Divide
    <3> HIDE DEF k
    <3>5. (-r.m) \div k >= 0
      BY <1>1, <3>1, <3>3, SMT
    <3> QED
      BY <1>1, <1>3, <3>1, <3>3, <3>4, <3>5, SMT
  <2>2. Megahertz(r) = Meant(r) /\ Megahertz(r) \in Nat
    BY <1>3, <2>1, Scaled DEF Meant
  <2>3. ChannelAsked(r) = FreqToChannel(Megahertz(r)) /\ Megahertz(r) > 1000
    BY <1>3 DEF ChannelAsked
  <2> QED
    BY <1>1, <1>3, <2>2, <2>3, TwoGhzNumbers, FiveGhzNumbers, SMT
<1>4. CASE ~IsChannel(r) /\ r.e \notin 0..6
  <2>1. Meant(r) \in {0, 10000}
    BY <1>1, <1>4, SMT DEF Meant
  <2> QED
    BY <1>1, <2>1, SMT DEF ChannelToFreq, Near, InBand
<1> QED
  BY <1>2, <1>3, <1>4

-----------------------------------------------------------------------------
(* Induction over numbers, as a fact about sets of numbers.                 *)
LEMMA Least ==
    ASSUME NEW T \in SUBSET Nat, T # {}
    PROVE  \E x \in T : \A y \in T : x <= y
<1> DEFINE R == OpToRel(<, Nat)
<1>1. IsWellFoundedOn(R, Nat)
  BY NatLessThanWellFounded
<1>2. \A x, y \in Nat : y < x => <<y, x>> \in R
  BY DEF OpToRel
<1> HIDE DEF R
<1>3. PICK x \in T : \A y \in T : ~(<<y, x>> \in R)
  BY <1>1, WFMin
<1>4. ASSUME NEW y \in T
      PROVE  x <= y
  <2>1. ~(y < x)
    BY <1>2, <1>3
  <2> QED
    BY <2>1
<1> QED
  BY <1>4

LEMMA Induction ==
    ASSUME NEW T \in SUBSET Nat, 0 \in T, \A n \in T : n + 1 \in T
    PROVE  T = Nat
<1> SUFFICES ASSUME T # Nat
             PROVE  FALSE
  OBVIOUS
<1>1. PICK x \in Nat \ T : \A y \in Nat \ T : x <= y
  BY Least
<1>2. x # 0 /\ x - 1 \in T
  <2>1. x # 0
    BY <1>1
  <2>2. x - 1 \in Nat
    BY <2>1
  <2> QED
    BY <1>1, <2>1, <2>2
<1>3. x - 1 + 1 = x
  OBVIOUS
<1> QED
  BY <1>1, <1>2, <1>3

(* The same up to a bound.                                                  *)
LEMMA BoundedInduction ==
    ASSUME NEW N \in Nat, NEW T, 0 \in T,
           \A n \in 0..N : n < N /\ n \in T => n + 1 \in T
    PROVE  0..N \subseteq T
<1> DEFINE U == {n \in Nat : n <= N => n \in T}
<1>1. 0 \in U
  OBVIOUS
<1>2. ASSUME NEW n \in U
      PROVE  n + 1 \in U
  OBVIOUS
<1>3. U = Nat
  <2> HIDE DEF U
  <2>1. U \in SUBSET Nat
    BY DEF U
  <2> QED
    BY <1>1, <1>2, <2>1, Induction
<1> QED
  BY <1>3

(* A function can be defined by saying how each value comes from the one    *)
(* before.                                                                 *)
DefinedFrom(base, N, step, f) ==
    f[0] = base /\ \A n \in 1..N : f[n] = step[<<n, f[n - 1]>>]

LEMMA Recursion ==
    ASSUME NEW S, NEW N \in Nat, NEW base \in S, NEW step \in [(1..N) \X S -> S]
    PROVE  \E f \in [0..N -> S] : DefinedFrom(base, N, step, f)
<1> DEFINE Upto(m) == \E f \in [0..m -> S] : DefinedFrom(base, m, step, f)
           T == {m \in 0..N : Upto(m)}
<1>1. 0 \in T
  <2> DEFINE f == [n \in 0..0 |-> base]
  <2>1. f \in [0..0 -> S] /\ f[0] = base /\ 1..0 = {}
    OBVIOUS
  <2> HIDE DEF f
  <2>2. Upto(0)
    BY <2>1 DEF DefinedFrom
  <2> QED
    BY <2>2
<1>2. ASSUME NEW m \in 0..N, m < N, m \in T
      PROVE  m + 1 \in T
  <2>1. PICK f \in [0..m -> S] : DefinedFrom(base, m, step, f)
    BY <1>2
  <2> DEFINE g == [n \in 0..m + 1 |-> IF n <= m THEN f[n] ELSE step[<<m + 1, f[m]>>]]
  <2>2. step[<<m + 1, f[m]>>] \in S
    BY <1>2
  <2>3. g \in [0..m + 1 -> S]
    BY <2>2
  <2>4. \A n \in 0..m : g[n] = f[n]
    OBVIOUS
  <2>5. g[m + 1] = step[<<m + 1, f[m]>>]
    OBVIOUS
  <2> HIDE DEF g
  <2>6. ASSUME NEW n \in 1..m + 1
        PROVE  g[n] = step[<<n, g[n - 1]>>]
    <3>1. CASE n = m + 1
      BY <2>4, <2>5, <3>1
    <3>2. CASE n # m + 1
      BY <2>1, <2>4, <3>2 DEF DefinedFrom
    <3> QED
      BY <3>1, <3>2
  <2>7. g[0] = base
    BY <2>1, <2>4 DEF DefinedFrom
  <2> QED
    BY <1>2, <2>3, <2>6, <2>7 DEF DefinedFrom
<1>3. 0..N \subseteq T
  <2> HIDE DEF T
  <2> QED
    BY <1>1, <1>2, BoundedInduction
<1>4. Upto(N)
  <2>1. N \in T
    <3> HIDE DEF T
    <3> QED
      BY <1>3
  <2> QED
    BY <2>1
<1> QED
  BY <1>4

-----------------------------------------------------------------------------
(* The recursive functions of ScanStream are what their definitions say.    *)

LEMMA SumsStep ==
    ASSUME NEW numbers \in Seq(Nat)
    PROVE  /\ Sums(numbers) \in [0..Len(numbers) -> Nat]
           /\ Sums(numbers)[0] = 0
           /\ \A n \in 1..Len(numbers) :
                 Sums(numbers)[n] = Sums(numbers)[n - 1] + numbers[n]
<1> DEFINE N == Len(numbers)
           step == [p \in (1..N) \X Nat |-> p[2] + numbers[p[1]]]
           s == Sums(numbers)
<1>1. 0 \in Nat
  OBVIOUS
<1>2. ASSUME NEW n \in 1..N, NEW x \in Nat
      PROVE  x + numbers[n] \in Nat
  OBVIOUS
<1>3. N \in Nat
  OBVIOUS
<1>4. step \in [(1..N) \X Nat -> Nat]
  <2> HIDE DEF N
  <2> QED
    BY <1>2
<1>5. \A n \in 1..N, x \in Nat : step[<<n, x>>] = x + numbers[n]
  <2> HIDE DEF N
  <2> QED
    OBVIOUS
<1> HIDE DEF step
<1>6. PICK f \in [0..N -> Nat] : DefinedFrom(0, N, step, f)
  <2> HIDE DEF N
  <2> QED
    BY <1>1, <1>3, <1>4, Recursion
<1>7. f = [n \in 0..N |-> IF n = 0 THEN 0 ELSE f[n - 1] + numbers[n]]
  <2> HIDE DEF N
  <2>1. ASSUME NEW n \in 1..N
        PROVE  f[n] = f[n - 1] + numbers[n]
    <3>1. f[n - 1] \in Nat
      BY <1>3
    <3> QED
      BY <1>5, <1>6, <3>1 DEF DefinedFrom
  <2> QED
    BY <1>6, <2>1 DEF DefinedFrom
<1>8. s = [n \in 0..N |-> IF n = 0 THEN 0 ELSE s[n - 1] + numbers[n]]
  BY <1>7 DEF Sums
<1> HIDE DEF s, N
<1>9. s[0] = 0 /\ \A n \in 1..N : s[n] = s[n - 1] + numbers[n]
  BY <1>3, <1>8
<1>10. \A n \in 0..N : s[n] \in Nat
  <2> DEFINE T == {n \in 0..N : s[n] \in Nat}
  <2>1. 0 \in T
    BY <1>1, <1>3, <1>9
  <2>2. ASSUME NEW n \in 0..N, n < N, n \in T
        PROVE  n + 1 \in T
    <3> DEFINE m == n + 1
    <3>1. m \in 1..N /\ m - 1 = n
      BY <1>3, <2>2
    <3> HIDE DEF m
    <3>2. s[m] = s[n] + numbers[m] /\ s[n] \in Nat
      BY <1>9, <2>2, <3>1
    <3>3. s[m] \in Nat
      BY <1>2, <3>1, <3>2
    <3>4. m \in T
      BY <3>1, <3>3
    <3> QED
      BY <3>4 DEF m
  <2>3. 0..N \subseteq T
    <3> HIDE DEF T
    <3> QED
      BY <1>3, <2>1, <2>2, BoundedInduction
  <2> QED
    BY <2>3
<1>11. s \in [0..N -> Nat]
  BY <1>8, <1>10
<1> QED
  BY <1>9, <1>11 DEF s, N

Events == [kind : Kind, len : Nat]

LEMMA AddType ==
    ASSUME NEW x \in Stream, NEW end, NEW kind \in Kind, NEW len \in Nat
    PROVE  Add(x, end, kind, len) \in Stream
<1>1. Append(x.put, kind) \in Seq(Kind)
  BY AppendProperties DEF Stream
<1>2. x.pos + len \in Nat
  BY DEF Stream
<1> QED
  BY <1>1, <1>2 DEF Add, Put, Failed, Stream

LEMMA AdditionsStep ==
    ASSUME NEW st \in Stream, NEW end, NEW events \in Seq(Events)
    PROVE  /\ Additions(st, end, events) \in [0..Len(events) -> Stream]
           /\ Additions(st, end, events)[0] = st
           /\ \A n \in 1..Len(events) :
                 Additions(st, end, events)[n] = Add(Additions(st, end, events)[n - 1], end, events[n].kind, events[n].len)
<1> DEFINE N == Len(events)
           step == [p \in (1..N) \X Stream |-> Add(p[2], end, events[p[1]].kind, events[p[1]].len)]
           s == Additions(st, end, events)
<1>1. st \in Stream
  OBVIOUS
<1>2. ASSUME NEW n \in 1..N, NEW x \in Stream
      PROVE  Add(x, end, events[n].kind, events[n].len) \in Stream
  <2>1. events[n] \in Events
    BY ElementOfSeq
  <2>2. events[n].kind \in Kind /\ events[n].len \in Nat
    BY <2>1 DEF Events
  <2> QED
    BY <1>2, <2>2, AddType
<1>3. N \in Nat
  OBVIOUS
<1>4. step \in [(1..N) \X Stream -> Stream]
  <2> HIDE DEF N
  <2> QED
    BY <1>2
<1>5. \A n \in 1..N, x \in Stream : step[<<n, x>>] = Add(x, end, events[n].kind, events[n].len)
  <2> HIDE DEF N
  <2> QED
    OBVIOUS
<1> HIDE DEF step
<1>6. PICK f \in [0..N -> Stream] : DefinedFrom(st, N, step, f)
  <2> HIDE DEF N
  <2> QED
    BY <1>1, <1>3, <1>4, Recursion
<1>7. f = [n \in 0..N |-> IF n = 0 THEN st ELSE Add(f[n - 1], end, events[n].kind, events[n].len)]
  <2> HIDE DEF N
  <2>1. ASSUME NEW n \in 1..N
        PROVE  f[n] = Add(f[n - 1], end, events[n].kind, events[n].len)
    <3>1. f[n - 1] \in Stream
      BY <1>3
    <3> QED
      BY <1>5, <1>6, <3>1 DEF DefinedFrom
  <2> QED
    BY <1>6, <2>1 DEF DefinedFrom
<1>8. s = [n \in 0..N |-> IF n = 0 THEN st ELSE Add(s[n - 1], end, events[n].kind, events[n].len)]
  BY <1>7 DEF Additions
<1> HIDE DEF s, N
<1>9. s[0] = st /\ \A n \in 1..N : s[n] = Add(s[n - 1], end, events[n].kind, events[n].len)
  BY <1>3, <1>8
<1>10. \A n \in 0..N : s[n] \in Stream
  <2> DEFINE T == {n \in 0..N : s[n] \in Stream}
  <2>1. 0 \in T
    BY <1>1, <1>3, <1>9
  <2>2. ASSUME NEW n \in 0..N, n < N, n \in T
        PROVE  n + 1 \in T
    <3> DEFINE m == n + 1
    <3>1. m \in 1..N /\ m - 1 = n
      BY <1>3, <2>2
    <3> HIDE DEF m
    <3>2. s[m] = Add(s[n], end, events[m].kind, events[m].len) /\ s[n] \in Stream
      BY <1>9, <2>2, <3>1
    <3>3. s[m] \in Stream
      BY <1>2, <3>1, <3>2
    <3>4. m \in T
      BY <3>1, <3>3
    <3> QED
      BY <3>4 DEF m
  <2>3. 0..N \subseteq T
    <3> HIDE DEF T
    <3> QED
      BY <1>3, <2>1, <2>2, BoundedInduction
  <2> QED
    BY <2>3
<1>11. s \in [0..N -> Stream]
  BY <1>8, <1>10
<1> QED
  BY <1>9, <1>11 DEF s, N

LEMMA AddAllType ==
    ASSUME NEW st \in Stream, NEW end, NEW events \in Seq(Events)
    PROVE  AddAll(st, end, events) \in Stream
BY AdditionsStep DEF AddAll


(* What the rates do: those that fit are the first ones, so that if one is  *)
(* missing, the next one does not fit.                                     *)
LEMMA RatesFit ==
    ASSUME NEW st \in Stream, NEW end \in Nat, NEW N \in Nat
    PROVE  LET n == RatesThatFit(st, end, N) IN
           /\ n \in 0..N
           /\ n < N => ~Fits(st.pos + LcpLen + n * RateLen, RateLen, end)
<1> DEFINE F == {k \in 1..N : Fits(st.pos + LcpLen + (k - 1) * RateLen, RateLen, end)}
<1>1. st.pos \in Nat
  BY DEF Stream
<1>2. \A k \in 1..N : k \in F <=> st.pos + 4 + (k - 1) * 8 + 8 < end
  BY <1>1 DEF Fits, LcpLen, RateLen, ParamLen
<1>3. RatesThatFit(st, end, N) = Cardinality(F)
  BY DEF RatesThatFit
<1>4. CASE F = 1..N
  <2>1. Cardinality(1..N) = N
    BY FS_Interval
  <2>2. RatesThatFit(st, end, N) = N
    BY <1>3, <1>4, <2>1
  <2> QED
    BY <2>2
<1>5. CASE F # 1..N
  <2> DEFINE T == {k \in 1..N : k \notin F}
  <2>1. T # {} /\ T \in SUBSET Nat
    BY <1>5
  <2>2. PICK k \in T : \A j \in T : k <= j
    <3> HIDE DEF T
    <3> QED
      BY <2>1, Least
  <2>3. k \in 1..N /\ k \notin F
    BY <2>2
  <2>4. ASSUME NEW j \in 1..N
        PROVE  j \in F <=> j < k
    <3>1. CASE j < k
      BY <2>2, <2>3, <3>1
    <3>2. CASE j >= k
      <4>1. ~(st.pos + 4 + (k - 1) * 8 + 8 < end)
        BY <1>2, <2>3
      <4>2. ~(st.pos + 4 + (j - 1) * 8 + 8 < end)
        BY <1>1, <2>3, <3>2, <4>1
      <4> QED
        BY <1>2, <2>3, <3>2, <4>2
    <3> QED
      BY <2>3, <3>1, <3>2
  <2>5. F = 1..k - 1
    <3> HIDE DEF T
    <3>1. \A j : j \in F <=> j \in 1..N /\ j < k
      BY <2>4
    <3> HIDE DEF F
    <3>2. \A j : j \in F <=> j \in 1..k - 1
      BY <2>3, <3>1
    <3> QED
      BY <3>2
  <2>6. Cardinality(1..k - 1) = k - 1
    BY <2>3, FS_Interval
  <2>7. RatesThatFit(st, end, N) = k - 1
    BY <1>3, <2>5, <2>6
  <2>8. ~(st.pos + 4 + (k - 1) * 8 + 8 < end)
    BY <1>2, <2>3
  <2> QED
    BY <2>3, <2>7, <2>8 DEF Fits, LcpLen, RateLen, ParamLen
<1> QED
  BY <1>4, <1>5

LEMMA RateKindsType ==
    ASSUME NEW n \in Nat
    PROVE  RateKinds(n) \in Seq(Kind)
BY DEF RateKinds, Kind

LEMMA AddRatesType ==
    ASSUME NEW st \in Stream, NEW end \in Nat, NEW b \in Bss
    PROVE  AddRates(st, end, b) \in Stream
<1> DEFINE n == RatesThatFit(st, end, b.rates)
<1>1. b.rates \in Nat
  BY DEF Bss
<1>2. n \in Nat
  <2>1. n \in 0..b.rates
    BY <1>1, RatesFit
  <2> QED
    BY <1>1, <2>1
<1>3. AddRates(st, end, b) =
        IF st.err THEN st
        ELSE IF n > 0
        THEN [st EXCEPT !.pos = @ + LcpLen + n * RateLen, !.put = @ \o RateKinds(n)]
        ELSE Failed(st)
  BY DEF AddRates
<1> HIDE DEF n
<1>4. st.put \o RateKinds(n) \in Seq(Kind)
  BY <1>2, RateKindsType, ConcatProperties DEF Stream
<1>5. st.pos + LcpLen + n * RateLen \in Nat
  BY <1>2 DEF Stream, LcpLen, RateLen, ParamLen
<1> QED
  BY <1>3, <1>4, <1>5 DEF Stream, Failed

LEMMA AddIeType ==
    ASSUME NEW st \in Stream, NEW end, NEW kind \in Kind, NEW ie \in IeLength
    PROVE  AddIe(st, end, kind, ie) \in Stream
<1>1. CASE st.err \/ ie = NoIe \/ ie + 2 > MaxIeLen
  BY <1>1 DEF AddIe, Failed, Stream
<1>2. CASE ~(st.err \/ ie = NoIe \/ ie + 2 > MaxIeLen)
  <2>1. PointLen(ie + 2) \in Nat
    BY <1>2 DEF IeLength, PointLen, NoIe
  <2> QED
    BY <1>2, <2>1, AddType DEF AddIe
<1> QED
  BY <1>1, <1>2

LEMMA IeEventsTyped ==
    ASSUME NEW kind \in Kind, NEW ie \in IeLength
    PROVE  IeEvents(kind, ie) \in Seq(Events)
<1>1. CASE ie = NoIe
  BY <1>1, EmptySeq DEF IeEvents
<1>2. CASE ie # NoIe
  <2>1. PointLen(ie + 2) \in Nat
    BY <1>2 DEF IeLength, NoIe, PointLen
  <2>2. Event(kind, PointLen(ie + 2)) \in Events
    BY <2>1 DEF Event, Events
  <2> QED
    BY <1>2, <2>2 DEF IeEvents
<1> QED
  BY <1>1, <1>2

LEMMA EventsTyped ==
    ASSUME NEW b \in Bss
    PROVE  /\ HeadEvents(b) \in Seq(Events)
           /\ BeaconEvent \in Seq(Events)
           /\ IeEvents("rsn", b.rsn) \in Seq(Events)
           /\ IeEvents("wpa", b.wpa) \in Seq(Events)
<1>1. ASSUME NEW kind \in Kind, NEW len \in Nat
      PROVE  Event(kind, len) \in Events
  BY DEF Event, Events
<1>2. ASSUME NEW e \in Events
      PROVE  <<e>> \in Seq(Events)
  OBVIOUS
<1>3. /\ {"ap", "essid", "mode", "name", "freq", "qual", "encode", "beacon", "rsn", "wpa"} \subseteq Kind
      /\ AddrLen \in Nat /\ UintLen \in Nat /\ CharLen \in Nat /\ FreqLen \in Nat /\ QualLen \in Nat
      /\ \A n \in Nat : PointLen(n) \in Nat
      /\ BeaconText \in Nat /\ b.ssid \in Nat
  BY DEF Kind, AddrLen, UintLen, CharLen, FreqLen, QualLen, PointLen, BeaconText, Bss
<1>4. BeaconEvent \in Seq(Events)
  BY <1>1, <1>2, <1>3 DEF BeaconEvent
<1>5. ASSUME NEW kind \in Kind, NEW ie \in IeLength
      PROVE  IeEvents(kind, ie) \in Seq(Events)
  BY IeEventsTyped
<1>6. HeadEvents(b) \in Seq(Events)
  <2> DEFINE s1 == <<Event("ap", AddrLen), Event("essid", PointLen(b.ssid))>>
             s2 == IF b.typed THEN <<Event("mode", UintLen)>> ELSE <<>>
             s3 == <<Event("name", CharLen), Event("freq", FreqLen),
                     Event("qual", QualLen), Event("encode", PointLen(0))>>
  <2>1. s1 \in Seq(Events)
    <3>1. Event("ap", AddrLen) \in Events /\ Event("essid", PointLen(b.ssid)) \in Events
      BY <1>1, <1>3
    <3> QED
      BY <3>1
  <2>2. s2 \in Seq(Events)
    <3>1. <<Event("mode", UintLen)>> \in Seq(Events)
      BY <1>1, <1>2, <1>3
    <3> QED
      BY <3>1, EmptySeq
  <2>3. s3 \in Seq(Events)
    <3>1. /\ Event("name", CharLen) \in Events /\ Event("freq", FreqLen) \in Events
          /\ Event("qual", QualLen) \in Events /\ Event("encode", PointLen(0)) \in Events
      BY <1>1, <1>3
    <3> QED
      BY <3>1
  <2>4. HeadEvents(b) = s1 \o s2 \o s3
    BY DEF HeadEvents
  <2> HIDE DEF s1, s2, s3
  <2> QED
    BY <2>1, <2>2, <2>3, <2>4, ConcatProperties
<1>7. "rsn" \in Kind /\ "wpa" \in Kind /\ b.rsn \in IeLength /\ b.wpa \in IeLength
  BY DEF Kind, Bss
<1> QED
  BY <1>4, <1>5, <1>6, <1>7

LEMMA BssSteps ==
    ASSUME NEW st \in Stream, NEW end \in Nat, NEW b \in Bss
    PROVE  LET head   == AddAll(st, end, HeadEvents(b))
               rated  == AddRates(head, end, b)
               beacon == AddAll(rated, end, BeaconEvent)
               rsn    == AddIe(beacon, end, "rsn", b.rsn)
           IN  /\ head \in Stream /\ rated \in Stream /\ beacon \in Stream /\ rsn \in Stream
               /\ AddBss(st, end, b) = AddIe(rsn, end, "wpa", b.wpa)
               /\ AddBss(st, end, b) \in Stream
<1> DEFINE head   == AddAll(st, end, HeadEvents(b))
           rated  == AddRates(head, end, b)
           beacon == AddAll(rated, end, BeaconEvent)
           rsn    == AddIe(beacon, end, "rsn", b.rsn)
<1>1. AddBss(st, end, b) = AddIe(rsn, end, "wpa", b.wpa)
  BY DEF AddBss
<1>2. head \in Stream
  BY EventsTyped, AddAllType
<1>3. rated \in Stream
  <2> HIDE DEF head
  <2> QED
    BY <1>2, AddRatesType
<1>4. beacon \in Stream
  <2> HIDE DEF rated
  <2> QED
    BY <1>3, EventsTyped, AddAllType
<1>5. "rsn" \in Kind /\ "wpa" \in Kind /\ b.rsn \in IeLength /\ b.wpa \in IeLength
  BY DEF Kind, Bss
<1>6. rsn \in Stream
  <2> HIDE DEF beacon
  <2> QED
    BY <1>4, <1>5, AddIeType
<1>7. AddIe(rsn, end, "wpa", b.wpa) \in Stream
  <2> HIDE DEF rsn
  <2> QED
    BY <1>5, <1>6, AddIeType
<1> QED
  BY <1>1, <1>2, <1>3, <1>4, <1>6, <1>7

LEMMA NextBssType ==
    ASSUME NEW st \in Stream, NEW end \in Nat, NEW b \in Bss
    PROVE  NextBss(st, end, b) \in Stream
<1>1. AddBss(st, end, b) \in Stream
  BY BssSteps
<1>2. Failed(st) \in Stream
  BY DEF Failed, Stream
<1> QED
  BY <1>1, <1>2 DEF NextBss

LEMMA KindsTyped ==
    ASSUME NEW events \in Seq(Events)
    PROVE  KindsIn(events) \in Seq(Kind) /\ Len(KindsIn(events)) = Len(events)
<1> DEFINE N == Len(events)
<1>1. N \in Nat /\ DOMAIN events = 1..N
  BY LenProperties
<1>2. ASSUME NEW k \in 1..N
      PROVE  events[k].kind \in Kind
  <2>1. events[k] \in Events
    BY ElementOfSeq
  <2> QED
    BY <2>1 DEF Events
<1>3. KindsIn(events) = [k \in 1..N |-> events[k].kind]
  BY <1>1 DEF KindsIn
<1> HIDE DEF N
<1>4. KindsIn(events) \in Seq(Kind) /\ Len(KindsIn(events)) = N
  BY <1>1, <1>2, <1>3
<1> QED
  BY <1>4 DEF N

LEMMA KindsOfBssType ==
    ASSUME NEW b \in Bss
    PROVE  KindsOfBss(b) \in Seq(Kind)
<1>1. /\ KindsIn(HeadEvents(b)) \in Seq(Kind)
      /\ KindsIn(BeaconEvent) \in Seq(Kind)
      /\ KindsIn(IeEvents("rsn", b.rsn)) \in Seq(Kind)
      /\ KindsIn(IeEvents("wpa", b.wpa)) \in Seq(Kind)
  BY EventsTyped, KindsTyped
<1>2. RateKinds(b.rates) \in Seq(Kind)
  BY RateKindsType DEF Bss
<1> QED
  BY <1>1, <1>2, ConcatProperties DEF KindsOfBss

LEMMA PassesStep ==
    ASSUME NEW end \in Nat, NEW list \in Seq(Bss)
    PROVE  /\ Passes(list, end) \in [0..Len(list) -> Stream]
           /\ Passes(list, end)[0] = Empty
           /\ \A n \in 1..Len(list) :
                 Passes(list, end)[n] = NextBss(Passes(list, end)[n - 1], end, list[n])
<1> DEFINE N == Len(list)
           step == [p \in (1..N) \X Stream |-> NextBss(p[2], end, list[p[1]])]
           s == Passes(list, end)
<1>1. Empty \in Stream
  BY EmptySeq DEF Empty, Stream
<1>2. ASSUME NEW n \in 1..N, NEW x \in Stream
      PROVE  NextBss(x, end, list[n]) \in Stream
  BY NextBssType, ElementOfSeq
<1>3. N \in Nat
  OBVIOUS
<1>4. step \in [(1..N) \X Stream -> Stream]
  <2> HIDE DEF N
  <2> QED
    BY <1>2
<1>5. \A n \in 1..N, x \in Stream : step[<<n, x>>] = NextBss(x, end, list[n])
  <2> HIDE DEF N
  <2> QED
    OBVIOUS
<1> HIDE DEF step
<1>6. PICK f \in [0..N -> Stream] : DefinedFrom(Empty, N, step, f)
  <2> HIDE DEF N
  <2> QED
    BY <1>1, <1>3, <1>4, Recursion
<1>7. f = [n \in 0..N |-> IF n = 0 THEN Empty ELSE NextBss(f[n - 1], end, list[n])]
  <2> HIDE DEF N
  <2>1. ASSUME NEW n \in 1..N
        PROVE  f[n] = NextBss(f[n - 1], end, list[n])
    <3>1. f[n - 1] \in Stream
      BY <1>3
    <3> QED
      BY <1>5, <1>6, <3>1 DEF DefinedFrom
  <2> QED
    BY <1>6, <2>1 DEF DefinedFrom
<1>8. s = [n \in 0..N |-> IF n = 0 THEN Empty ELSE NextBss(s[n - 1], end, list[n])]
  BY <1>7 DEF Passes
<1> HIDE DEF s, N
<1>9. s[0] = Empty /\ \A n \in 1..N : s[n] = NextBss(s[n - 1], end, list[n])
  BY <1>3, <1>8
<1>10. \A n \in 0..N : s[n] \in Stream
  <2> DEFINE T == {n \in 0..N : s[n] \in Stream}
  <2>1. 0 \in T
    BY <1>1, <1>3, <1>9
  <2>2. ASSUME NEW n \in 0..N, n < N, n \in T
        PROVE  n + 1 \in T
    <3> DEFINE m == n + 1
    <3>1. m \in 1..N /\ m - 1 = n
      BY <1>3, <2>2
    <3> HIDE DEF m
    <3>2. s[m] = NextBss(s[n], end, list[m]) /\ s[n] \in Stream
      BY <1>9, <2>2, <3>1
    <3>3. s[m] \in Stream
      BY <1>2, <3>1, <3>2
    <3>4. m \in T
      BY <3>1, <3>3
    <3> QED
      BY <3>4 DEF m
  <2>3. 0..N \subseteq T
    <3> HIDE DEF T
    <3> QED
      BY <1>3, <2>1, <2>2, BoundedInduction
  <2> QED
    BY <2>3
<1>11. s \in [0..N -> Stream]
  BY <1>8, <1>10
<1> QED
  BY <1>9, <1>11 DEF s, N

None == <<>>
Longer(kinds, b) == kinds \o KindsOfBss(b)

LEMMA KindsUpToStep ==
    ASSUME NEW list \in Seq(Bss)
    PROVE  /\ KindsUpTo(list) \in [0..Len(list) -> Seq(Kind)]
           /\ KindsUpTo(list)[0] = None
           /\ \A n \in 1..Len(list) :
                 KindsUpTo(list)[n] = Longer(KindsUpTo(list)[n - 1], list[n])
<1> DEFINE N == Len(list)
           step == [p \in (1..N) \X Seq(Kind) |-> Longer(p[2], list[p[1]])]
           s == KindsUpTo(list)
<1>1. None \in Seq(Kind)
  BY EmptySeq DEF None
<1>2. ASSUME NEW n \in 1..N, NEW x \in Seq(Kind)
      PROVE  Longer(x, list[n]) \in Seq(Kind)
  <2>1. KindsOfBss(list[n]) \in Seq(Kind)
    BY KindsOfBssType, ElementOfSeq
  <2> QED
    BY <1>2, <2>1, ConcatProperties DEF Longer
<1>3. N \in Nat
  OBVIOUS
<1>4. step \in [(1..N) \X Seq(Kind) -> Seq(Kind)]
  <2> HIDE DEF N
  <2> QED
    BY <1>2
<1>5. \A n \in 1..N, x \in Seq(Kind) : step[<<n, x>>] = Longer(x, list[n])
  <2> HIDE DEF N
  <2> QED
    OBVIOUS
<1> HIDE DEF step
<1>6. PICK f \in [0..N -> Seq(Kind)] : DefinedFrom(None, N, step, f)
  <2> HIDE DEF N
  <2> QED
    BY <1>1, <1>3, <1>4, Recursion
<1>7. f = [n \in 0..N |-> IF n = 0 THEN None ELSE Longer(f[n - 1], list[n])]
  <2> HIDE DEF N
  <2>1. ASSUME NEW n \in 1..N
        PROVE  f[n] = Longer(f[n - 1], list[n])
    <3>1. f[n - 1] \in Seq(Kind)
      BY <1>3
    <3> QED
      BY <1>5, <1>6, <3>1 DEF DefinedFrom
  <2> QED
    BY <1>6, <2>1 DEF DefinedFrom
<1>8. s = [n \in 0..N |-> IF n = 0 THEN None ELSE Longer(s[n - 1], list[n])]
  BY <1>7 DEF KindsUpTo, None, Longer
<1> HIDE DEF s, N
<1>9. s[0] = None /\ \A n \in 1..N : s[n] = Longer(s[n - 1], list[n])
  BY <1>3, <1>8
<1>10. \A n \in 0..N : s[n] \in Seq(Kind)
  <2> DEFINE T == {n \in 0..N : s[n] \in Seq(Kind)}
  <2>1. 0 \in T
    BY <1>1, <1>3, <1>9
  <2>2. ASSUME NEW n \in 0..N, n < N, n \in T
        PROVE  n + 1 \in T
    <3> DEFINE m == n + 1
    <3>1. m \in 1..N /\ m - 1 = n
      BY <1>3, <2>2
    <3> HIDE DEF m
    <3>2. s[m] = Longer(s[n], list[m]) /\ s[n] \in Seq(Kind)
      BY <1>9, <2>2, <3>1
    <3>3. s[m] \in Seq(Kind)
      BY <1>2, <3>1, <3>2
    <3>4. m \in T
      BY <3>1, <3>3
    <3> QED
      BY <3>4 DEF m
  <2>3. 0..N \subseteq T
    <3> HIDE DEF T
    <3> QED
      BY <1>3, <2>1, <2>2, BoundedInduction
  <2> QED
    BY <2>3
<1>11. s \in [0..N -> Seq(Kind)]
  BY <1>8, <1>10
<1> QED
  BY <1>9, <1>11 DEF s, N

-----------------------------------------------------------------------------
(* What one event, one BSS and the whole list do to a stream: unless E2BIG  *)
(* is met, everything is put, and the position moves by its size; if E2BIG  *)
(* is met, everything together would not have fitted.                       *)
Complete(x, y, kinds, size) ==
    ~y.err => ~x.err /\ y.pos = x.pos + size /\ y.put = x.put \o kinds

Explained(x, y, size, end) == y.err => x.err \/ x.pos + size >= end

LEMMA KindsAssociate ==
    ASSUME NEW p \in Seq(Kind), NEW q \in Seq(Kind), NEW r \in Seq(Kind)
    PROVE  (p \o q) \o r = p \o (q \o r)
BY ConcatAssociative

LEMMA Joined ==
    ASSUME NEW x \in Stream, NEW y \in Stream, NEW z \in Stream, NEW end \in Nat,
           NEW k1 \in Seq(Kind), NEW k2 \in Seq(Kind), NEW n1 \in Nat, NEW n2 \in Nat,
           Complete(x, y, k1, n1), Complete(y, z, k2, n2)
    PROVE  /\ Complete(x, z, k1 \o k2, n1 + n2)
           /\ Explained(x, y, n1, end) /\ Explained(y, z, n2, end) =>
                 Explained(x, z, n1 + n2, end)
<1>1. x.pos \in Nat /\ y.pos \in Nat /\ z.pos \in Nat /\ x.put \in Seq(Kind)
  BY DEF Stream
<1>2. (x.put \o k1) \o k2 = x.put \o (k1 \o k2)
  BY <1>1, KindsAssociate
<1>3. ASSUME ~z.err
      PROVE  ~x.err /\ z.pos = x.pos + (n1 + n2) /\ z.put = x.put \o (k1 \o k2)
  <2>1. ~y.err /\ z.pos = y.pos + n2 /\ z.put = y.put \o k2
    BY <1>3 DEF Complete
  <2>2. ~x.err /\ y.pos = x.pos + n1 /\ y.put = x.put \o k1
    BY <2>1 DEF Complete
  <2>3. z.put = x.put \o (k1 \o k2)
    BY <1>2, <2>1, <2>2
  <2>4. z.pos = x.pos + (n1 + n2)
    BY <1>1, <2>1, <2>2
  <2> QED
    BY <2>2, <2>3, <2>4
<1>4. ASSUME Explained(x, y, n1, end), Explained(y, z, n2, end), z.err, ~x.err
      PROVE  x.pos + (n1 + n2) >= end
  <2>1. CASE y.err
    BY <1>1, <1>4, <2>1 DEF Explained
  <2>2. CASE ~y.err
    <3>1. y.pos = x.pos + n1
      BY <2>2 DEF Complete
    <3>2. y.pos + n2 >= end
      BY <1>4, <2>2 DEF Explained
    <3> QED
      BY <1>1, <3>1, <3>2
  <2> QED
    BY <2>1, <2>2
<1> QED
  BY <1>3, <1>4 DEF Complete, Explained

LEMMA OneEvent ==
    ASSUME NEW x \in Stream, NEW end \in Nat, NEW kind \in Kind, NEW len \in Nat
    PROVE  /\ Complete(x, Add(x, end, kind, len), <<kind>>, len)
           /\ Explained(x, Add(x, end, kind, len), len, end)
<1> DEFINE y == Add(x, end, kind, len)
<1>1. x.pos \in Nat /\ x.put \in Seq(Kind) /\ x.err \in BOOLEAN
  BY DEF Stream
<1>2. Append(x.put, kind) = x.put \o <<kind>>
  BY <1>1, AppendIsConcat
<1>3. CASE x.err
  <2>1. y = x
    BY <1>3 DEF Add
  <2> QED
    BY <1>3, <2>1 DEF Complete, Explained
<1>4. CASE ~x.err /\ x.pos + len < end
  <2>1. y = [x EXCEPT !.pos = x.pos + len, !.put = Append(x.put, kind)]
    BY <1>4 DEF Add, Fits, Put
  <2>2. y.pos = x.pos + len /\ y.put = Append(x.put, kind) /\ y.err = x.err
    BY <2>1 DEF Stream
  <2> HIDE DEF y
  <2>3. y.put = x.put \o <<kind>>
    BY <1>2, <2>2
  <2>4. Complete(x, y, <<kind>>, len)
    BY <1>4, <2>2, <2>3 DEF Complete
  <2>5. Explained(x, y, len, end)
    BY <1>4, <2>2 DEF Explained
  <2> QED
    BY <2>4, <2>5 DEF y
<1>5. CASE ~x.err /\ ~(x.pos + len < end)
  <2>1. y = [x EXCEPT !.err = TRUE]
    BY <1>5 DEF Add, Fits, Failed
  <2>2. y.err
    BY <2>1 DEF Stream
  <2>3. x.pos + len >= end
    BY <1>1, <1>5
  <2> HIDE DEF y
  <2>4. Complete(x, y, <<kind>>, len) /\ Explained(x, y, len, end)
    BY <2>2, <2>3 DEF Complete, Explained
  <2> QED
    BY <2>4 DEF y
<1> QED
  BY <1>3, <1>4, <1>5

Lengths(events) == [k \in DOMAIN events |-> events[k].len]

LEMMA LengthsTyped ==
    ASSUME NEW events \in Seq(Events)
    PROVE  /\ Lengths(events) \in Seq(Nat) /\ Len(Lengths(events)) = Len(events)
           /\ \A k \in 1..Len(events) : Lengths(events)[k] = events[k].len
<1> DEFINE N == Len(events)
<1>1. N \in Nat /\ DOMAIN events = 1..N
  BY LenProperties
<1>2. ASSUME NEW k \in 1..N
      PROVE  events[k].len \in Nat
  <2>1. events[k] \in Events
    BY ElementOfSeq
  <2> QED
    BY <2>1 DEF Events
<1>3. Lengths(events) = [k \in 1..N |-> events[k].len]
  BY <1>1 DEF Lengths
<1> HIDE DEF N
<1>4. Lengths(events) \in Seq(Nat) /\ Len(Lengths(events)) = N
  BY <1>1, <1>2, <1>3
<1> QED
  BY <1>3, <1>4 DEF N

LEMMA TotalType ==
    ASSUME NEW events \in Seq(Events)
    PROVE  Total(events) \in Nat
<1>1. Total(events) = Sums(Lengths(events))[Len(Lengths(events))]
  BY DEF Total, SumOf, Lengths
<1>2. Len(Lengths(events)) \in Nat /\ Lengths(events) \in Seq(Nat)
  BY LengthsTyped, LenProperties
<1> QED
  BY <1>1, <1>2, SumsStep

(* A series of events, by induction over how many have been looked at.      *)
LEMMA ManyEvents ==
    ASSUME NEW st \in Stream, NEW end \in Nat, NEW events \in Seq(Events)
    PROVE  /\ Complete(st, AddAll(st, end, events), KindsIn(events), Total(events))
           /\ Explained(st, AddAll(st, end, events), Total(events), end)
<1> DEFINE N == Len(events)
           x == Additions(st, end, events)
           kinds == KindsIn(events)
           sums == Sums(Lengths(events))
           Good(n) == /\ Complete(st, x[n], SubSeq(kinds, 1, n), sums[n])
                      /\ Explained(st, x[n], sums[n], end)
           T == {n \in 0..N : Good(n)}
<1>1. N \in Nat /\ kinds \in Seq(Kind) /\ Len(kinds) = N
  BY LenProperties, KindsTyped
<1>2. /\ x \in [0..N -> Stream] /\ x[0] = st
      /\ \A n \in 1..N : x[n] = Add(x[n - 1], end, events[n].kind, events[n].len)
  BY AdditionsStep
<1>3. /\ sums \in [0..N -> Nat] /\ sums[0] = 0
      /\ \A n \in 1..N : sums[n] = sums[n - 1] + events[n].len
  BY SumsStep, LengthsTyped
<1>4. \A n \in 1..N : events[n].kind \in Kind /\ events[n].len \in Nat /\ kinds[n] = events[n].kind
  <2> SUFFICES ASSUME NEW n \in 1..N
               PROVE  events[n].kind \in Kind /\ events[n].len \in Nat /\ kinds[n] = events[n].kind
    OBVIOUS
  <2>1. events[n] \in Events
    BY ElementOfSeq
  <2>2. n \in DOMAIN events
    BY LenProperties
  <2>3. kinds[n] = events[n].kind
    BY <2>2 DEF KindsIn
  <2> QED
    BY <2>1, <2>3 DEF Events
<1> HIDE DEF N, x, kinds, sums
<1>5. 0 \in T
  <2>1. SubSeq(kinds, 1, 0) = <<>>
    BY SubSeqEmpty
  <2>2. st.put \o <<>> = st.put /\ st.pos + 0 = st.pos
    BY ConcatEmptySeq DEF Stream
  <2>3. Good(0)
    BY <1>2, <1>3, <2>1, <2>2 DEF Complete, Explained
  <2> QED
    BY <1>1, <2>3
<1>6. ASSUME NEW n \in 0..N, n < N, n \in T
      PROVE  n + 1 \in T
  <2> DEFINE m == n + 1
  <2>1. m \in 1..N /\ m - 1 = n
    BY <1>1, <1>6
  <2> HIDE DEF m
  <2>2. Good(n)
    BY <1>6
  <2>3. /\ x[m] = Add(x[n], end, events[m].kind, events[m].len)
        /\ sums[m] = sums[n] + events[m].len
        /\ x[n] \in Stream /\ x[m] \in Stream /\ sums[n] \in Nat
    <3>1. m \in 0..N
      BY <1>1, <2>1
    <3> QED
      BY <1>2, <1>3, <2>1, <3>1
  <2>4. /\ Complete(x[n], x[m], <<kinds[m]>>, events[m].len)
        /\ Explained(x[n], x[m], events[m].len, end)
    BY <1>4, <2>1, <2>3, OneEvent
  <2>5. SubSeq(kinds, 1, n) \in Seq(Kind)
    BY <1>1, SubSeqProperties, ElementOfSeq
  <2>6. SubSeq(kinds, 1, m) = SubSeq(kinds, 1, n) \o <<kinds[m]>>
    <3>1. 1 \in 1..Len(kinds) /\ m \in 1..Len(kinds)
      BY <1>1, <2>1
    <3> QED
      BY <1>1, <2>1, <3>1, SubSeqRecursiveSecond
  <2>7. <<kinds[m]>> \in Seq(Kind) /\ events[m].len \in Nat
    BY <1>4, <2>1
  <2>8. /\ Complete(st, x[m], SubSeq(kinds, 1, n) \o <<kinds[m]>>, sums[n] + events[m].len)
        /\ Explained(st, x[m], sums[n] + events[m].len, end)
    BY <2>2, <2>3, <2>4, <2>5, <2>7, Joined
  <2>9. Good(m)
    BY <2>3, <2>6, <2>8
  <2> QED
    BY <1>1, <2>1, <2>9 DEF m
<1>7. Good(N)
  <2>1. 0..N \subseteq T
    <3> HIDE DEF T
    <3> QED
      BY <1>1, <1>5, <1>6, BoundedInduction
  <2> QED
    BY <1>1, <2>1
<1>8. SubSeq(kinds, 1, N) = kinds
  BY <1>1, SubSeqFull
<1>9. AddAll(st, end, events) = x[N] /\ Total(events) = sums[N]
  <2>1. Len(Lengths(events)) = Len(events)
    BY LengthsTyped
  <2> QED
    BY <2>1 DEF AddAll, Total, SumOf, Lengths, x, sums, N
<1> QED
  BY <1>7, <1>8, <1>9 DEF kinds


(* A series of one event.                                                   *)
LEMMA OneAddition ==
    ASSUME NEW st \in Stream, NEW end, NEW kind \in Kind, NEW len \in Nat
    PROVE  /\ AddAll(st, end, <<Event(kind, len)>>) = Add(st, end, kind, len)
           /\ Total(<<Event(kind, len)>>) = len
           /\ KindsIn(<<Event(kind, len)>>) = <<kind>>
<1> DEFINE events == <<Event(kind, len)>>
<1>1. /\ events \in Seq(Events) /\ Len(events) = 1
      /\ events[1].kind = kind /\ events[1].len = len /\ DOMAIN events = 1..1
  BY DEF Event, Events
<1> HIDE DEF events
<1>2. AddAll(st, end, events) = Add(st, end, kind, len)
  <2>1. Additions(st, end, events)[1 - 1] = st /\ 1 \in 1..1
    BY <1>1, AdditionsStep
  <2>2. Additions(st, end, events)[1] =
          Add(Additions(st, end, events)[1 - 1], end, events[1].kind, events[1].len)
    BY <1>1, <2>1, AdditionsStep
  <2> QED
    BY <1>1, <2>1, <2>2 DEF AddAll
<1>3. Total(events) = len
  <2> DEFINE sums == Sums(Lengths(events))
  <2>1. /\ Len(Lengths(events)) = 1 /\ Lengths(events) \in Seq(Nat)
        /\ Lengths(events)[1] = len
    BY <1>1, LengthsTyped
  <2>2. sums[0] = 0 /\ sums[1] = sums[1 - 1] + Lengths(events)[1]
    BY <2>1, SumsStep
  <2>3. Total(events) = sums[1]
    BY <2>1 DEF Total, SumOf, Lengths
  <2> HIDE DEF sums
  <2> QED
    BY <2>1, <2>2, <2>3
<1>4. KindsIn(events) = <<kind>>
  <2>1. KindsIn(events) = [k \in 1..1 |-> kind]
    BY <1>1 DEF KindsIn
  <2>2. [k \in 1..1 |-> kind] = <<kind>>
    OBVIOUS
  <2> QED
    BY <2>1, <2>2
<1> QED
  BY <1>2, <1>3, <1>4 DEF events

-----------------------------------------------------------------------------
(* The rates and the beacon event behind them: a rate that was passed over  *)
(* leaves less room than the beacon event needs.                           *)
LEMMA RatesAndBeacon ==
    ASSUME NEW x \in Stream, NEW end \in Nat, NEW b \in Bss
    PROVE  LET z == AddAll(AddRates(x, end, b), end, BeaconEvent)
               size == LcpLen + b.rates * (ParamLen - LcpLen) + Total(BeaconEvent)
           IN  /\ Complete(x, z, RateKinds(b.rates) \o KindsIn(BeaconEvent), size)
               /\ b.rates > 0 => Explained(x, z, size, end)
<1> DEFINE r == AddRates(x, end, b)
           z == AddAll(r, end, BeaconEvent)
           n == RatesThatFit(x, end, b.rates)
           kinds == KindsIn(BeaconEvent)
           size == LcpLen + b.rates * (ParamLen - LcpLen) + Total(BeaconEvent)
<1>1. b.rates \in Nat /\ x.pos \in Nat /\ x.put \in Seq(Kind) /\ x.err \in BOOLEAN
  BY DEF Bss, Stream
<1>2. n \in 0..b.rates /\ (n < b.rates => ~(x.pos + 4 + n * 8 + 8 < end))
  <2>1. n \in 0..b.rates /\ (n < b.rates => ~Fits(x.pos + LcpLen + n * RateLen, RateLen, end))
    BY <1>1, RatesFit
  <2> HIDE DEF n
  <2> QED
    BY <2>1 DEF Fits, LcpLen, RateLen, ParamLen
<1>3. r \in Stream
  BY AddRatesType
<1>4. Total(BeaconEvent) = 28
  <2>1. BeaconEvent = <<Event("beacon", 28)>> /\ "beacon" \in Kind
    BY DEF BeaconEvent, PointLen, BeaconText, Kind
  <2> QED
    BY <1>3, <2>1, OneAddition
<1>5. Complete(r, z, kinds, 28) /\ Explained(r, z, 28, end) /\ (~z.err => r.pos + 28 < end)
  <2> HIDE DEF r
  <2>1. Complete(r, z, kinds, 28) /\ Explained(r, z, 28, end)
    BY <1>3, <1>4, EventsTyped, ManyEvents
  <2>2. z = Add(r, end, "beacon", 28)
    <3>1. BeaconEvent = <<Event("beacon", 28)>> /\ "beacon" \in Kind
      BY DEF BeaconEvent, PointLen, BeaconText, Kind
    <3> QED
      BY <1>3, <3>1, OneAddition
  <2>3. ~z.err => r.pos + 28 < end
    BY <2>2 DEF Add, Failed, Fits, Stream
  <2> QED
    BY <2>1, <2>3
<1>6. size = b.rates * 8 + 32
  BY <1>1, <1>4 DEF LcpLen, ParamLen
<1>7. r = IF x.err THEN x
          ELSE IF n > 0
          THEN [x EXCEPT !.pos = x.pos + 4 + n * 8, !.put = x.put \o RateKinds(n)]
          ELSE [x EXCEPT !.err = TRUE]
  BY DEF AddRates, Failed, LcpLen, RateLen, ParamLen
<1>8. /\ x.err => r.err
      /\ ~x.err /\ n > 0 => ~r.err /\ r.pos = x.pos + 4 + n * 8 /\ r.put = x.put \o RateKinds(n)
      /\ ~x.err /\ n = 0 => r.err
  <2> HIDE DEF n
  <2> QED
    BY <1>2, <1>7 DEF Stream
<1>9. z.pos \in Nat
  <2> HIDE DEF r
  <2>1. z \in Stream
    BY <1>3, EventsTyped, AddAllType
  <2> QED
    BY <2>1 DEF Stream
<1> HIDE DEF r, z, n
<1>10. ASSUME ~z.err
       PROVE  ~x.err /\ z.pos = x.pos + size /\ z.put = x.put \o (RateKinds(b.rates) \o kinds)
  <2>1. ~r.err /\ z.pos = r.pos + 28 /\ z.put = r.put \o kinds
    BY <1>5, <1>10 DEF Complete
  <2>2. ~x.err /\ n > 0 /\ r.pos = x.pos + 4 + n * 8 /\ r.put = x.put \o RateKinds(n)
    BY <1>2, <1>8, <2>1
  <2>3. n = b.rates
    <3>1. r.pos + 28 < end
      BY <1>5, <1>10
    <3> QED
      BY <1>1, <1>2, <2>2, <3>1
  <2>4. z.pos = x.pos + size
    BY <1>1, <1>2, <1>6, <2>1, <2>2, <2>3
  <2>5. (x.put \o RateKinds(b.rates)) \o kinds = x.put \o (RateKinds(b.rates) \o kinds)
    <3>1. RateKinds(b.rates) \in Seq(Kind) /\ kinds \in Seq(Kind)
      BY <1>1, RateKindsType, EventsTyped, KindsTyped
    <3> HIDE DEF kinds
    <3> QED
      BY <1>1, <3>1, KindsAssociate
  <2> QED
    BY <2>1, <2>2, <2>3, <2>4, <2>5
<1>11. ASSUME b.rates > 0, z.err, ~x.err
       PROVE  x.pos + size >= end
  <2>1. CASE n = 0
    BY <1>1, <1>2, <1>6, <1>11, <2>1
  <2>2. CASE n > 0
    <3>1. r.pos + 28 >= end
      BY <1>5, <1>8, <1>11, <2>2 DEF Explained
    <3>2. r.pos = x.pos + 4 + n * 8
      BY <1>8, <1>11, <2>2
    <3> QED
      BY <1>1, <1>2, <1>6, <3>1, <3>2
  <2> QED
    BY <1>2, <2>1, <2>2
<1> QED
  BY <1>10, <1>11 DEF Complete, Explained, r, z

(* An information element.                                                  *)
LEMMA OneIe ==
    ASSUME NEW x \in Stream, NEW end \in Nat, NEW kind \in Kind, NEW ie \in IeLength
    PROVE  LET z == AddIe(x, end, kind, ie)
               events == IeEvents(kind, ie)
           IN  /\ Complete(x, z, KindsIn(events), Total(events))
               /\ ie + 2 <= MaxIeLen => Explained(x, z, Total(events), end)
<1> DEFINE z == AddIe(x, end, kind, ie)
           events == IeEvents(kind, ie)
<1>1. x.pos \in Nat /\ x.put \in Seq(Kind) /\ x.err \in BOOLEAN
  BY DEF Stream
<1>2. events \in Seq(Events)
  BY IeEventsTyped
<1>3. CASE x.err
  <2>1. z = x
    BY <1>3 DEF AddIe
  <2> QED
    BY <1>3, <2>1 DEF Complete, Explained
<1>4. CASE ~x.err /\ ie = NoIe
  <2>1. z = x /\ events = <<>>
    BY <1>4 DEF AddIe, IeEvents
  <2>2. AddAll(x, end, <<>>) = x
    <3>1. <<>> \in Seq(Events) /\ Len(<<>>) = 0
      BY EmptySeq
    <3>2. Additions(x, end, <<>>)[0] = x
      BY <3>1, AdditionsStep
    <3> QED
      BY <3>1, <3>2 DEF AddAll
  <2>3. z = AddAll(x, end, events)
    BY <2>1, <2>2
  <2> HIDE DEF events, z
  <2> QED
    BY <1>2, <2>3, ManyEvents DEF events, z
<1>5. CASE ~x.err /\ ie # NoIe /\ ie + 2 > MaxIeLen
  <2>1. z = [x EXCEPT !.err = TRUE]
    BY <1>5 DEF AddIe, Failed
  <2>2. z.err
    BY <2>1 DEF Stream
  <2>3. ~(ie + 2 <= MaxIeLen)
    BY <1>5 DEF IeLength, NoIe, MaxIeLen
  <2> QED
    BY <2>2, <2>3 DEF Complete
<1>6. CASE ~x.err /\ ie # NoIe /\ ~(ie + 2 > MaxIeLen)
  <2>1. PointLen(ie + 2) \in Nat
    BY <1>6 DEF PointLen, IeLength, NoIe
  <2>2. z = Add(x, end, kind, PointLen(ie + 2)) /\ events = <<Event(kind, PointLen(ie + 2))>>
    BY <1>6 DEF AddIe, IeEvents
  <2>3. KindsIn(events) = <<kind>> /\ Total(events) = PointLen(ie + 2)
    BY <2>1, <2>2, OneAddition
  <2> HIDE DEF z, events
  <2>4. Complete(x, z, <<kind>>, PointLen(ie + 2)) /\ Explained(x, z, PointLen(ie + 2), end)
    BY <2>1, <2>2, OneEvent
  <2> QED
    BY <2>3, <2>4 DEF z, events
<1> QED
  BY <1>1, <1>3, <1>4, <1>5, <1>6

(* One BSS: the parts joined.                                               *)
LEMMA OneBssPut ==
    ASSUME NEW x \in Stream, NEW end \in Nat, NEW b \in Bss
    PROVE  /\ Complete(x, AddBss(x, end, b), KindsOfBss(b), SizeOfBss(b))
           /\ Reportable(b) => Explained(x, AddBss(x, end, b), SizeOfBss(b), end)
<1> DEFINE head   == AddAll(x, end, HeadEvents(b))
           beacon == AddAll(AddRates(head, end, b), end, BeaconEvent)
           rsn    == AddIe(beacon, end, "rsn", b.rsn)
           wpa    == AddIe(rsn, end, "wpa", b.wpa)
           kh == KindsIn(HeadEvents(b))
           kr == RateKinds(b.rates)
           kb == KindsIn(BeaconEvent)
           k1 == KindsIn(IeEvents("rsn", b.rsn))
           k2 == KindsIn(IeEvents("wpa", b.wpa))
           nh == Total(HeadEvents(b))
           nb == LcpLen + b.rates * (ParamLen - LcpLen) + Total(BeaconEvent)
           n1 == Total(IeEvents("rsn", b.rsn))
           n2 == Total(IeEvents("wpa", b.wpa))
<1>1. /\ head \in Stream /\ beacon \in Stream /\ rsn \in Stream
      /\ wpa = AddBss(x, end, b) /\ wpa \in Stream
  BY BssSteps
<1>2. /\ kh \in Seq(Kind) /\ kb \in Seq(Kind) /\ k1 \in Seq(Kind) /\ k2 \in Seq(Kind)
      /\ nh \in Nat /\ n1 \in Nat /\ n2 \in Nat /\ Total(BeaconEvent) \in Nat
  BY EventsTyped, KindsTyped, TotalType
<1>3. b.rates \in Nat /\ b.rsn \in IeLength /\ b.wpa \in IeLength /\ "rsn" \in Kind /\ "wpa" \in Kind
  BY DEF Bss, Kind
<1>4. kr \in Seq(Kind)
  BY <1>3, RateKindsType
<1>5. nb \in Nat
  BY <1>2, <1>3 DEF LcpLen, ParamLen
<1>6. Complete(x, head, kh, nh) /\ Explained(x, head, nh, end)
  BY EventsTyped, ManyEvents
<1>7. Complete(head, beacon, kr \o kb, nb) /\ (b.rates > 0 => Explained(head, beacon, nb, end))
  <2> HIDE DEF head
  <2> QED
    BY <1>1, RatesAndBeacon
<1>8. Complete(beacon, rsn, k1, n1) /\ (b.rsn + 2 <= MaxIeLen => Explained(beacon, rsn, n1, end))
  <2> HIDE DEF beacon
  <2> QED
    BY <1>1, <1>3, OneIe
<1>9. Complete(rsn, wpa, k2, n2) /\ (b.wpa + 2 <= MaxIeLen => Explained(rsn, wpa, n2, end))
  <2> HIDE DEF rsn
  <2> QED
    BY <1>1, <1>3, OneIe
<1>10. KindsOfBss(b) = (((kh \o kr) \o kb) \o k1) \o k2 /\ SizeOfBss(b) = nh + nb + n1 + n2
  <2>1. KindsOfBss(b) = (((kh \o kr) \o kb) \o k1) \o k2
    BY DEF KindsOfBss
  <2>2. SizeOfBss(b) = nh + LcpLen + b.rates * (ParamLen - LcpLen) + Total(BeaconEvent) + n1 + n2
    BY DEF SizeOfBss
  <2>3. SizeOfBss(b) = nh + nb + n1 + n2
    <3> DEFINE nt == Total(BeaconEvent)
               rates == b.rates
    <3>1. nt \in Nat /\ rates \in Nat /\ nh \in Nat /\ n1 \in Nat /\ n2 \in Nat
      BY <1>2, <1>3
    <3>2. /\ SizeOfBss(b) = nh + 4 + rates * 8 + nt + n1 + n2
          /\ nb = 4 + rates * 8 + nt
      BY <2>2 DEF LcpLen, ParamLen
    <3> HIDE DEF nh, nb, n1, n2, nt, rates
    <3> QED
      BY <3>1, <3>2
  <2> QED
    BY <2>1, <2>3
<1> HIDE DEF head, beacon, rsn, wpa, kh, kr, kb, k1, k2, nh, nb, n1, n2
<1>11. kr \o kb \in Seq(Kind) /\ kh \o (kr \o kb) = (kh \o kr) \o kb
  BY <1>2, <1>4, ConcatProperties, KindsAssociate
<1>12. /\ Complete(x, beacon, (kh \o kr) \o kb, nh + nb)
       /\ b.rates > 0 => Explained(x, beacon, nh + nb, end)
  BY <1>1, <1>2, <1>5, <1>6, <1>7, <1>11, Joined
<1>13. (kh \o kr) \o kb \in Seq(Kind) /\ nh + nb \in Nat
  BY <1>2, <1>4, <1>5, ConcatProperties
<1>14. /\ Complete(x, rsn, ((kh \o kr) \o kb) \o k1, nh + nb + n1)
       /\ b.rates > 0 /\ b.rsn + 2 <= MaxIeLen => Explained(x, rsn, nh + nb + n1, end)
  BY <1>1, <1>2, <1>8, <1>12, <1>13, Joined
<1>15. ((kh \o kr) \o kb) \o k1 \in Seq(Kind) /\ nh + nb + n1 \in Nat
  BY <1>2, <1>13, ConcatProperties
<1>16. /\ Complete(x, wpa, (((kh \o kr) \o kb) \o k1) \o k2, nh + nb + n1 + n2)
       /\ Reportable(b) => Explained(x, wpa, nh + nb + n1 + n2, end)
  BY <1>1, <1>2, <1>9, <1>14, <1>15, Joined DEF Reportable
<1> QED
  BY <1>1, <1>10, <1>16

LEMMA SizeTyped ==
    ASSUME NEW b \in Bss
    PROVE  SizeOfBss(b) \in Nat
<1> DEFINE nh == Total(HeadEvents(b))
           nt == Total(BeaconEvent)
           n1 == Total(IeEvents("rsn", b.rsn))
           n2 == Total(IeEvents("wpa", b.wpa))
           rates == b.rates
<1>1. nh \in Nat /\ nt \in Nat /\ n1 \in Nat /\ n2 \in Nat
  BY EventsTyped, TotalType
<1>2. rates \in Nat
  BY DEF Bss
<1>3. SizeOfBss(b) = nh + 4 + rates * 8 + nt + n1 + n2
  BY DEF SizeOfBss, LcpLen, ParamLen
<1> HIDE DEF nh, nt, n1, n2, rates
<1> QED
  BY <1>1, <1>2, <1>3

LEMMA NextBssPut ==
    ASSUME NEW x \in Stream, NEW end \in Nat, NEW b \in Bss
    PROVE  /\ Complete(x, NextBss(x, end, b), KindsOfBss(b), SizeOfBss(b))
           /\ Reportable(b) => Explained(x, NextBss(x, end, b), SizeOfBss(b), end)
<1> DEFINE y == NextBss(x, end, b)
<1>1. x.pos \in Nat /\ x.err \in BOOLEAN /\ SizeOfBss(b) \in Nat
  BY SizeTyped DEF Stream
<1>2. CASE x.err
  <2>1. y = x
    BY <1>2 DEF NextBss
  <2> QED
    BY <1>2, <2>1 DEF Complete, Explained
<1>3. CASE ~x.err /\ x.pos >= end
  <2>1. y = [x EXCEPT !.err = TRUE]
    BY <1>3 DEF NextBss, Failed
  <2>2. y.err
    BY <2>1 DEF Stream
  <2>3. x.pos + SizeOfBss(b) >= end
    BY <1>1, <1>3
  <2> QED
    BY <2>2, <2>3 DEF Complete, Explained
<1>4. CASE ~x.err /\ ~(x.pos >= end)
  <2>1. y = AddBss(x, end, b)
    BY <1>4 DEF NextBss
  <2> QED
    BY <2>1, OneBssPut
<1> QED
  BY <1>1, <1>2, <1>3, <1>4

Sizes(list) == [i \in DOMAIN list |-> SizeOfBss(list[i])]

LEMMA SizesTyped ==
    ASSUME NEW list \in Seq(Bss)
    PROVE  /\ Sizes(list) \in Seq(Nat) /\ Len(Sizes(list)) = Len(list)
           /\ \A i \in 1..Len(list) : Sizes(list)[i] = SizeOfBss(list[i])
<1> DEFINE N == Len(list)
<1>1. N \in Nat /\ DOMAIN list = 1..N
  BY LenProperties
<1>2. ASSUME NEW i \in 1..N
      PROVE  SizeOfBss(list[i]) \in Nat
  BY ElementOfSeq, SizeTyped
<1>3. Sizes(list) = [i \in 1..N |-> SizeOfBss(list[i])]
  BY <1>1 DEF Sizes
<1> HIDE DEF N
<1>4. Sizes(list) \in Seq(Nat) /\ Len(Sizes(list)) = N
  BY <1>1, <1>2, <1>3
<1> QED
  BY <1>3, <1>4 DEF N

LEMMA KindsOfType ==
    ASSUME NEW list \in Seq(Bss)
    PROVE  KindsOf(list) \in Seq(Kind)
<1>1. Len(list) \in 0..Len(list)
  BY LenProperties
<1> QED
  BY <1>1, KindsUpToStep DEF KindsOf

LEMMA SizeOfType ==
    ASSUME NEW list \in Seq(Bss)
    PROVE  SizeOf(list) \in Nat
<1>1. SizeOf(list) = Sums(Sizes(list))[Len(Sizes(list))]
  BY DEF SizeOf, SumOf, Sizes
<1>2. Sizes(list) \in Seq(Nat) /\ Len(Sizes(list)) \in 0..Len(Sizes(list))
  BY SizesTyped, LenProperties
<1> QED
  BY <1>1, <1>2, SumsStep

(* The whole list, by induction over how many BSSs have been looked at.     *)
LEMMA WholeList ==
    ASSUME NEW end \in Nat, NEW list \in Seq(Bss)
    PROVE  /\ Complete(Empty, SubGetScanRes(list, end), KindsOf(list), SizeOf(list))
           /\ (\A i \in 1..Len(list) : Reportable(list[i])) =>
                 Explained(Empty, SubGetScanRes(list, end), SizeOf(list), end)
<1> DEFINE N == Len(list)
           x == Passes(list, end)
           kinds == KindsUpTo(list)
           sums == Sums(Sizes(list))
           AllWell == \A i \in 1..N : Reportable(list[i])
           Good(n) == /\ Complete(Empty, x[n], kinds[n], sums[n])
                      /\ AllWell => Explained(Empty, x[n], sums[n], end)
           T == {n \in 0..N : Good(n)}
<1>1. N \in Nat
  BY LenProperties
<1>2. /\ x \in [0..N -> Stream] /\ x[0] = Empty
      /\ \A n \in 1..N : x[n] = NextBss(x[n - 1], end, list[n])
  BY PassesStep
<1>3. /\ sums \in [0..N -> Nat] /\ sums[0] = 0
      /\ \A n \in 1..N : sums[n] = sums[n - 1] + SizeOfBss(list[n])
  BY SumsStep, SizesTyped
<1>4. /\ kinds \in [0..N -> Seq(Kind)] /\ kinds[0] = <<>>
      /\ \A n \in 1..N : kinds[n] = kinds[n - 1] \o KindsOfBss(list[n])
  BY KindsUpToStep DEF None, Longer
<1>5. \A n \in 1..N : /\ list[n] \in Bss
                       /\ KindsOfBss(list[n]) \in Seq(Kind) /\ SizeOfBss(list[n]) \in Nat
  BY ElementOfSeq, KindsOfBssType, SizeTyped
<1>6. Empty \in Stream /\ Empty.pos = 0 /\ Empty.put = <<>> /\ ~Empty.err
  BY EmptySeq DEF Empty, Stream
<1> HIDE DEF N, x, kinds, sums
<1>7. 0 \in T
  <2>1. Good(0)
    <3>1. <<>> \o <<>> = <<>> /\ 0 + 0 = 0
      BY EmptySeq, ConcatEmptySeq
    <3> QED
      BY <1>2, <1>3, <1>4, <1>6, <3>1 DEF Complete, Explained
  <2> QED
    BY <1>1, <2>1
<1>8. ASSUME NEW n \in 0..N, n < N, n \in T
      PROVE  n + 1 \in T
  <2> DEFINE m == n + 1
  <2>1. m \in 1..N /\ m - 1 = n /\ m \in 0..N
    BY <1>1, <1>8
  <2> HIDE DEF m
  <2>2. Good(n)
    BY <1>8
  <2>3. /\ x[m] = NextBss(x[n], end, list[m])
        /\ sums[m] = sums[n] + SizeOfBss(list[m])
        /\ kinds[m] = kinds[n] \o KindsOfBss(list[m])
        /\ x[n] \in Stream /\ x[m] \in Stream /\ sums[n] \in Nat /\ kinds[n] \in Seq(Kind)
    BY <1>2, <1>3, <1>4, <2>1
  <2>4. /\ Complete(x[n], x[m], KindsOfBss(list[m]), SizeOfBss(list[m]))
        /\ Reportable(list[m]) => Explained(x[n], x[m], SizeOfBss(list[m]), end)
    BY <1>5, <2>1, <2>3, NextBssPut
  <2>5. /\ Complete(Empty, x[m], kinds[m], sums[m])
        /\ /\ Explained(Empty, x[n], sums[n], end)
           /\ Explained(x[n], x[m], SizeOfBss(list[m]), end)
           => Explained(Empty, x[m], sums[m], end)
    <3> DEFINE k2 == KindsOfBss(list[m])
               n2 == SizeOfBss(list[m])
    <3>1. k2 \in Seq(Kind) /\ n2 \in Nat
      BY <1>5, <2>1
    <3>2. Complete(Empty, x[n], kinds[n], sums[n]) /\ Complete(x[n], x[m], k2, n2)
      BY <2>2, <2>4
    <3> HIDE DEF k2, n2
    <3>3. /\ Complete(Empty, x[m], kinds[n] \o k2, sums[n] + n2)
          /\ /\ Explained(Empty, x[n], sums[n], end) /\ Explained(x[n], x[m], n2, end)
             => Explained(Empty, x[m], sums[n] + n2, end)
      BY <1>6, <2>3, <3>1, <3>2, Joined
    <3> QED
      BY <2>3, <3>3 DEF k2, n2
  <2>6. Good(m)
    <3>1. AllWell => Reportable(list[m])
      BY <2>1
    <3> HIDE DEF AllWell
    <3> QED
      BY <2>2, <2>4, <2>5, <3>1
  <2>7. m \in T
    BY <2>1, <2>6
  <2> QED
    BY <2>7 DEF m
<1>9. Good(N)
  <2>1. 0..N \subseteq T
    <3> HIDE DEF T
    <3> QED
      BY <1>1, <1>7, <1>8, BoundedInduction
  <2> QED
    BY <1>1, <2>1
<1>10. SubGetScanRes(list, end) = x[N] /\ KindsOf(list) = kinds[N] /\ SizeOf(list) = sums[N]
  <2>1. Len(Sizes(list)) = Len(list)
    BY SizesTyped
  <2> QED
    BY <2>1 DEF SubGetScanRes, KindsOf, SizeOf, SumOf, Sizes, x, kinds, sums, N
<1> QED
  BY <1>9, <1>10 DEF N

-----------------------------------------------------------------------------
(* The replies.                                                            *)

Promised == {"set_rts", "set_frag", "set_encode", "get_encode", "add_key", "remove_key",
             "get_scan"}

(* What ScanComplete and ScanFailureExplained say of a reply r.             *)
ScanTold(r) ==
    /\ r.err = 0 => r.put = KindsOf(r.lib)
    /\ r.err = E2BIG =>
           \/ EndOfBuffer(r.arg[1]) <= SizeOf(r.lib)
           \/ \E i \in DOMAIN r.lib : ~Reportable(r.lib[i])

(* What RangeIsHonest says of a reply r, whether or not the adapter still   *)
(* works when it is read.                                                   *)
Honest(r) ==
    r.err # NotWorking =>
        /\ r.op = "set_rts" /\ r.lib # <<-1>> =>
               (r.err = 0 <=> r.arg[1] \in IwRange.minRts..IwRange.maxRts)
        /\ r.op = "set_frag" /\ r.lib # <<-1>> =>
               (r.err = 0 <=> r.arg[1] \in IwRange.minFrag..IwRange.maxFrag)
        /\ r.op \in {"set_encode", "get_encode"} =>
               (r.err = 0 <=> r.arg[1] \in 0..IwRange.tokens)
        /\ r.op \in {"set_encode", "get_encode", "add_key", "remove_key"} /\ r.lib # Nothing =>
               /\ r.lib[1] \in 0..IwRange.tokens - 1
               /\ r.arg[1] > 0 => r.lib[1] = r.arg[1] - 1
        /\ r.op = "get_scan" => ScanTold(r)

Answered(op, arg, err, lib, val) ==
    [op |-> op, arg |-> arg, err |-> err, lib |-> lib, val |-> val, put |-> Nothing]

(* A handler that leaves the adapter's settings alone and answers honestly. *)
Keeps == UNCHANGED <<adapter, asked>> /\ Honest(reply')

LEMMA OtherAnswer ==
    ASSUME NEW r, r.op \notin Promised
    PROVE  Honest(r)
BY DEF Honest, Promised

LEMMA DeadAnswer ==
    ASSUME NEW op, NEW arg, Dead(op, arg)
    PROVE  Keeps
BY DEF Dead, Answer, Keeps, Honest

LEMMA HonestRead ==
    ASSUME NEW op, NEW arg, NEW err, NEW lib, NEW val,
           Read(op, arg, err, lib, val), Honest(Answered(op, arg, err, lib, val))
    PROVE  Keeps
<1>1. CASE Dead(op, arg)
  BY <1>1, DeadAnswer
<1>2. CASE Handled(op, arg, err, lib, val) /\ UNCHANGED <<adapter, asked>>
  BY <1>2 DEF Handled, Answer, Answered, Keeps
<1> QED
  BY <1>1, <1>2 DEF Read

LEMMA OtherRead ==
    ASSUME NEW op, NEW arg, NEW err, NEW lib, NEW val,
           Read(op, arg, err, lib, val), op \notin Promised
    PROVE  Keeps
<1>1. Answered(op, arg, err, lib, val).op = op
  BY DEF Answered
<1>2. Honest(Answered(op, arg, err, lib, val))
  BY <1>1, OtherAnswer
<1> QED
  BY <1>2, HonestRead

(* The thresholds that are granted are the announced ones.                  *)
LEMMA ThresholdsKeep ==
    ASSUME NEW v \in Int, NEW off \in BOOLEAN, SetRts(v, off) \/ SetFrag(v, off)
    PROVE  Keeps
<1>1. ASSUME NEW op \in {"set_rts", "set_frag"}
      PROVE  Honest(Answered(op, <<v>>, 0, <<-1>>, Nothing))
  BY DEF Honest, Answered
<1>2. /\ RtsAccepted(v) /\ v # -1 => Honest(Answered("set_rts", <<v>>, 0, <<v>>, Nothing))
      /\ ~RtsAccepted(v) => Honest(Answered("set_rts", <<v>>, EINVAL, Nothing, Nothing))
      /\ FragAccepted(v) /\ v # -1 => Honest(Answered("set_frag", <<v>>, 0, <<v>>, Nothing))
      /\ ~FragAccepted(v) => Honest(Answered("set_frag", <<v>>, EINVAL, Nothing, Nothing))
  BY DEF Honest, Answered, RtsAccepted, FragAccepted, IwRange, EINVAL
<1>3. CASE SetRts(v, off)
  BY <1>1, <1>2, <1>3, HonestRead DEF SetRts, Threshold
<1>4. CASE SetFrag(v, off)
  BY <1>1, <1>2, <1>4, HonestRead DEF SetFrag, Threshold
<1> QED
  BY <1>3, <1>4

(* The four handlers that are given the index of a key name the same slot.  *)
LEMMA SlotIsHonest ==
    ASSUME NEW index \in Indices, ~IndexRefused(index)
    PROVE  /\ index \in 0..4 /\ KeySlot(index) \in 0..3
           /\ index > 0 => KeySlot(index) = index - 1
BY KeyAssumption DEF IndexRefused, KeySlot

LEMMA RefusedIsHonest ==
    ASSUME NEW index \in Indices, IndexRefused(index)
    PROVE  index \notin 0..4 /\ index \in Nat
BY KeyAssumption DEF IndexRefused

LEMMA KeysKeep ==
    ASSUME NEW index \in Indices,
           \/ \E n \in KeyLengths : GetEncode(index, n) \/ \E off \in BOOLEAN : SetEncode(index, off, n)
           \/ \E res \in Result : RemoveKeyExt(index, res)
    PROVE  Keeps
<1> USE DEF Honest, Answered, IwRange, EINVAL, Nothing
<1>1. ASSUME IndexRefused(index)
      PROVE  /\ Honest(Answered("set_encode", <<index>>, EINVAL, Nothing, Nothing))
             /\ Honest(Answered("get_encode", <<index>>, EINVAL, Nothing, Nothing))
             /\ Honest(Answered("remove_key", <<index>>, EINVAL, Nothing, Nothing))
  BY <1>1, RefusedIsHonest
<1>2. ASSUME ~IndexRefused(index), NEW n, NEW res
      PROVE  /\ Honest(Answered("set_encode", <<index>>, 0, <<KeySlot(index)>>, Nothing))
             /\ Honest(Answered("set_encode", <<index>>, 0, <<KeySlot(index), n>>, Nothing))
             /\ Honest(Answered("get_encode", <<index>>, 0, <<KeySlot(index)>>, <<n>>))
             /\ Honest(Answered("remove_key", <<index>>, res, <<KeySlot(index)>>, Nothing))
  BY <1>2, SlotIsHonest
<1> HIDE DEF Honest, Answered
<1>3. ASSUME NEW n \in KeyLengths, GetEncode(index, n)
      PROVE  Keeps
  BY <1>1, <1>2, <1>3, HonestRead DEF GetEncode
<1>4. ASSUME NEW n \in KeyLengths, NEW off \in BOOLEAN, SetEncode(index, off, n)
      PROVE  Keeps
  BY <1>1, <1>2, <1>4, HonestRead DEF SetEncode
<1>5. ASSUME NEW res \in Result, RemoveKeyExt(index, res)
      PROVE  Keeps
  BY <1>1, <1>2, <1>5, HonestRead DEF RemoveKeyExt
<1> QED
  BY <1>3, <1>4, <1>5

LEMMA ExtKeyKeeps ==
    ASSUME NEW r \in ExtRequest, NEW res \in Result, SetEncodeExt(r, res)
    PROVE  Keeps
<1>1. r.index \in Indices
  BY DEF ExtRequest
<1>2. CASE ExtRefused(r)
  <2>1. Honest(Answered("add_key", ExtArg(r), EINVAL, Nothing, Nothing))
    BY DEF Honest, Answered, Nothing
  <2> QED
    BY <1>2, <2>1, HonestRead DEF SetEncodeExt
<1>3. CASE ~ExtRefused(r)
  <2>1. ~IndexRefused(r.index)
    BY <1>3 DEF ExtRefused
  <2>2. ExtArg(r)[1] = r.index
    BY DEF ExtArg
  <2>3. Honest(Answered("add_key", ExtArg(r), res, <<KeySlot(r.index), r.length>>, Nothing))
    <3>1. \A a : a[1] = r.index =>
              Honest(Answered("add_key", a, res, <<KeySlot(r.index), r.length>>, Nothing))
      BY <1>1, <2>1, SlotIsHonest DEF Honest, Answered, IwRange, Nothing
    <3> QED
      BY <2>2, <3>1
  <2> QED
    BY <1>3, <2>3, HonestRead DEF SetEncodeExt
<1> QED
  BY <1>2, <1>3

(* The handlers about which nothing is announced.                           *)
LEMMA OtherSettingsKeep ==
    ASSUME \/ GetFreq \/ GetBssType \/ GetRange \/ GetRts \/ GetFrag \/ GetRate \/ GetAp
           \/ \E t \in 0..3 : GetName(t)
           \/ \E fixed \in 0..1 : SetRate(fixed)
           \/ \E op \in {"set_sens", "get_sens", "set_tx_pow", "get_tx_pow"} : Unsupported(op)
           \/ \E n \in {0, 32, 33} :
                  \/ GetEssid(n)
                  \/ \E flags \in 0..1, busy \in BOOLEAN : SetEssid(flags, n, busy)
           \/ \E connected \in BOOLEAN, rssi \in {0, 60, 255} : GetWirelessStats(connected, rssi)
    PROVE  Keeps
<1> USE DEF Promised
<1>1. CASE GetFreq
  BY <1>1, OtherRead DEF GetFreq
<1>2. CASE GetBssType
  BY <1>2, OtherRead DEF GetBssType
<1>3. CASE GetRange
  BY <1>3, OtherRead DEF GetRange
<1>4. CASE GetRts \/ GetFrag \/ GetRate \/ GetAp
  BY <1>4, OtherRead DEF GetRts, GetFrag, GetRate, GetAp
<1>5. ASSUME NEW t \in 0..3, GetName(t)
      PROVE  Keeps
  BY <1>5, OtherRead DEF GetName
<1>6. ASSUME NEW fixed \in 0..1, SetRate(fixed)
      PROVE  Keeps
  BY <1>6, OtherRead DEF SetRate
<1>7. ASSUME NEW op \in {"set_sens", "get_sens", "set_tx_pow", "get_tx_pow"}, Unsupported(op)
      PROVE  Keeps
  BY <1>7, OtherAnswer DEF Unsupported, Answer, Keeps
<1>8. ASSUME NEW n \in {0, 32, 33}, GetEssid(n)
      PROVE  Keeps
  BY <1>8, OtherRead DEF GetEssid
<1>9. ASSUME NEW n \in {0, 32, 33}, NEW flags \in 0..1, NEW busy \in BOOLEAN,
             SetEssid(flags, n, busy)
      PROVE  Keeps
  BY <1>9, OtherRead DEF SetEssid
<1>10. ASSUME NEW connected \in BOOLEAN, NEW rssi \in {0, 60, 255},
              GetWirelessStats(connected, rssi)
       PROVE  Keeps
  BY <1>10, OtherAnswer DEF GetWirelessStats, Answer, Keeps
<1> QED
  BY <1>1, <1>2, <1>3, <1>4, <1>5, <1>6, <1>7, <1>8, <1>9, <1>10

LEMMA OtherSecurityKeeps ==
    ASSUME \/ \E p \in AuthParams \cup AuthIgnored \cup {"other"} :
                  \/ \E v \in {1, 2, 3, 4, 8, 16}, res \in Result : SetAuth(p, v, res)
                  \/ \E alg \in 0..2 : GetAuth(p, alg)
           \/ \E i \in Indices, room \in BOOLEAN, c \in {"off", "bad", "keyless", "known"} :
                  GetEncodeExt(i, room, c)
    PROVE  Keeps
<1> USE DEF Promised
<1>1. ASSUME NEW p, NEW v, NEW res, SetAuth(p, v, res)
      PROVE  Keeps
  BY <1>1, OtherRead DEF SetAuth
<1>2. ASSUME NEW p, NEW alg, GetAuth(p, alg)
      PROVE  Keeps
  <2> DEFINE err == CASE p = "alg" -> IF alg \in {0, 1} THEN 0 ELSE EINVAL
                      [] p \in {"version", "pairwise", "group", "mgmt", "other"} -> EOPNOTSUPP
                      [] OTHER -> 0
             val == IF p = "alg" /\ err = 0 THEN <<alg + 1>> ELSE Nothing
  <2>1. Read("get_auth", <<alg>>, err, Nothing, val)
    BY <1>2, Zenon DEF GetAuth
  <2> HIDE DEF err, val
  <2> QED
    BY <2>1, OtherRead
<1>3. ASSUME NEW i \in Indices, NEW room \in BOOLEAN, NEW c \in {"off", "bad", "keyless", "known"},
             GetEncodeExt(i, room, c)
      PROVE  Keeps
  <2> DEFINE named == (i + 1) % 256
  <2>1. \/ Read("get_key", <<i>>, EINVAL, Nothing, Nothing)
        \/ Read("get_key", <<i>>, 0, Nothing, <<named>>)
        \/ Read("get_key", <<i>>, EINVAL, <<i>>, Nothing)
        \/ Read("get_key", <<i>>, 0, <<i>>, <<named>>)
    BY <1>3 DEF GetEncodeExt
  <2> HIDE DEF named
  <2> QED
    BY <2>1, OtherRead
<1> QED
  BY <1>1, <1>2, <1>3

LEMMA PrivateCallsKeep == PrivateCalls => Keeps
<1>1. ASSUME NEW op \in {"priv_set_int", "priv_get_int", "priv_get_string", "priv_set_string"},
             NEW arg, NEW err, NEW lib, Private(op, arg, err, lib)
      PROVE  Keeps
  BY <1>1, OtherAnswer DEF Private, Answer, Keeps, Promised
<1>2. ASSUME NEW param \in 0..3, NEW value \in 0..5, PrivSetInt(param, value)
      PROVE  Keeps
  BY <1>1, <1>2 DEF PrivSetInt, SetDomain, SetDbgCmd
<1>3. ASSUME NEW param \in 0..3, PrivGetInt(param)
      PROVE  Keeps
  <2> DEFINE err == CASE param = 0 -> 0 [] param = 1 -> EOPNOTSUPP [] OTHER -> -EOPNOTSUPP
  <2>1. Private("priv_get_int", <<param>>, err, Nothing)
    BY <1>3, Zenon DEF PrivGetInt
  <2> HIDE DEF err
  <2> QED
    BY <1>1, <2>1
<1>4. ASSUME NEW param \in 0..3, PrivGetString(param)
      PROVE  Keeps
  BY <1>1, <1>4 DEF PrivGetString
<1>5. CASE PrivSetString
  BY <1>1, <1>5 DEF PrivSetString
<1> QED
  BY <1>2, <1>3, <1>4, <1>5 DEF PrivateCalls

(* What WholeList says of the answer as a whole.                            *)
LEMMA ScanOfList ==
    ASSUME NEW end \in Nat, NEW list \in Seq(Bss)
    PROVE  LET st == SubGetScanRes(list, end) IN
           /\ ~st.err => st.put = KindsOf(list)
           /\ st.err /\ (\A i \in 1..Len(list) : Reportable(list[i])) => SizeOf(list) >= end
<1> DEFINE st == SubGetScanRes(list, end)
<1>1. Empty.pos = 0 /\ Empty.put = <<>> /\ ~Empty.err
  BY DEF Empty
<1>2. KindsOf(list) \in Seq(Kind) /\ SizeOf(list) \in Nat
  BY KindsOfType, SizeOfType
<1>3. /\ Complete(Empty, st, KindsOf(list), SizeOf(list))
      /\ (\A i \in 1..Len(list) : Reportable(list[i])) => Explained(Empty, st, SizeOf(list), end)
  BY WholeList
<1> HIDE DEF st
<1>4. <<>> \o KindsOf(list) = KindsOf(list)
  BY <1>2, ConcatEmptySeq
<1>5. ~st.err => st.put = KindsOf(list)
  BY <1>1, <1>3, <1>4 DEF Complete
<1>6. ASSUME st.err, \A i \in 1..Len(list) : Reportable(list[i])
      PROVE  SizeOf(list) >= end
  <2>1. 0 + SizeOf(list) >= end
    BY <1>1, <1>3, <1>6 DEF Explained
  <2> QED
    BY <1>2, <2>1
<1> QED
  BY <1>5, <1>6 DEF st

LEMMA ScanToldOf ==
    ASSUME NEW r, NEW list \in Seq(Bss), NEW n \in Nat, r.lib = list, r.arg[1] = n,
           \/ r.err = 0 /\ r.put = KindsOf(list)
           \/ /\ r.err = E2BIG
              /\ (\A i \in 1..Len(list) : Reportable(list[i])) => SizeOf(list) >= EndOfBuffer(n)
    PROVE  ScanTold(r)
<1>1. DOMAIN list = 1..Len(list) /\ SizeOf(list) \in Nat /\ EndOfBuffer(n) \in Nat
  BY LenProperties, SizeOfType DEF EndOfBuffer, ScanMaxData
<1>2. CASE r.err = 0 /\ r.put = KindsOf(list)
  BY <1>2 DEF ScanTold, E2BIG
<1>3. CASE /\ r.err = E2BIG
           /\ (\A i \in 1..Len(list) : Reportable(list[i])) => SizeOf(list) >= EndOfBuffer(n)
  <2>1. r.err # 0
    BY <1>3 DEF E2BIG
  <2>2. EndOfBuffer(n) <= SizeOf(list) \/ \E i \in 1..Len(list) : ~Reportable(list[i])
    BY <1>1, <1>3
  <2> QED
    BY <1>1, <2>1, <2>2 DEF ScanTold
<1> QED
  BY <1>2, <1>3

LEMMA ScanningKeeps == Scanning => Keeps
<1>1. ASSUME NEW res \in Result, StartScan(res)
      PROVE  Keeps
  BY <1>1, OtherAnswer DEF StartScan, Answer, Keeps, Promised
<1>2. ASSUME NEW list \in ScanLists, NEW n \in BufferLengths, GetScanRes(list, n)
      PROVE  Keeps
  <2>1. CASE Dead("get_scan", <<n>>)
    BY <2>1, DeadAnswer
  <2>2. CASE ~Dead("get_scan", <<n>>)
    <3> DEFINE st == GetScanResult(list, n)
    <3>1. /\ reply' = [op |-> "get_scan", arg |-> <<n>>, err |-> IF st.err THEN E2BIG ELSE 0,
                       lib |-> list, val |-> <<st.pos>>, put |-> st.put]
          /\ UNCHANGED <<adapter, asked>>
      BY <1>2, <2>2 DEF GetScanRes
    <3>2. list \in Seq(Bss) /\ EndOfBuffer(n) \in Nat
      BY ScanAssumption, BufferAssumption DEF EndOfBuffer, ScanMaxData
    <3>3. /\ ~st.err => st.put = KindsOf(list)
          /\ st.err /\ (\A i \in 1..Len(list) : Reportable(list[i])) => SizeOf(list) >= EndOfBuffer(n)
      BY <3>2, ScanOfList DEF GetScanResult
    <3> HIDE DEF st
    <3>4. reply'.lib = list /\ reply'.arg[1] = n /\ n \in Nat
      BY <3>1, BufferAssumption
    <3>5. \/ reply'.err = 0 /\ reply'.put = KindsOf(list)
          \/ /\ reply'.err = E2BIG
             /\ (\A i \in 1..Len(list) : Reportable(list[i])) => SizeOf(list) >= EndOfBuffer(n)
      BY <3>1, <3>3
    <3>6. ScanTold(reply')
      BY <3>2, <3>4, <3>5, ScanToldOf
    <3> QED
      BY <3>1, <3>6 DEF Keeps, Honest
  <2> QED
    BY <2>1, <2>2
<1> QED
  BY <1>1, <1>2 DEF Scanning

-----------------------------------------------------------------------------
(* The inductive invariant.                                                *)
WxInv ==
    /\ adapter \in Adapter /\ adapter.default \in 1..255
    /\ ChannelMeansFreq
    /\ Honest(reply)

LEMMA KeptInv == WxInv /\ Keeps => WxInv'
  BY DEF WxInv, Keeps, ChannelMeansFreq

LEMMA SetFreqInv ==
    ASSUME WxInv, NEW r \in FreqRequests, SetFreq(r)
    PROVE  WxInv'
<1>1. \A arg, err, lib, val : Honest(Answered("set_freq", arg, err, lib, val))
  BY OtherAnswer DEF Answered, Promised
<1>2. CASE UNCHANGED <<adapter, asked>>
  <2>1. Honest(reply')
    <3>1. CASE Dead("set_freq", <<r.m, r.e>>)
      BY <3>1, DeadAnswer DEF Keeps
    <3>2. CASE ~Dead("set_freq", <<r.m, r.e>>)
      <4>1. reply'.op = "set_freq"
        BY <3>2 DEF SetFreq, Handled, Answer
      <4> QED
        BY <4>1, OtherAnswer DEF Promised
    <3> QED
      BY <3>1, <3>2
  <2> QED
    BY <1>2, <2>1, KeptInv DEF Keeps
<1>3. CASE ~UNCHANGED <<adapter, asked>>
  <2> DEFINE c == ChannelAsked(r)
             f == Meant(r)
  <2>1. /\ IsChannel(r) \/ Megahertz(r) > 1000
        /\ c \in AllowedChannels
        /\ adapter' = [adapter EXCEPT !.default = c]
        /\ asked' = f
        /\ reply'.op = "set_freq"
    BY <1>3 DEF SetFreq, Dead, Handled, Answer
  <2>2. c \in 1..255 /\ (Near(f, ChannelToFreq(c)) <=> InBand(f))
    BY <2>1, GrantMeansFreq
  <2>3. Honest(reply')
    BY <2>1, OtherAnswer DEF Promised
  <2> HIDE DEF c, f
  <2>4. adapter' \in Adapter /\ adapter'.default = c
    BY <2>1, <2>2 DEF WxInv, Adapter
  <2> QED
    BY <2>1, <2>2, <2>3, <2>4 DEF WxInv, ChannelMeansFreq
<1> QED
  BY <1>2, <1>3

LEMMA SetBssTypeInv ==
    ASSUME WxInv, NEW mode \in 0..3, SetBssType(mode)
    PROVE  WxInv'
<1>1. CASE Dead("set_mode", <<mode>>)
  BY <1>1, DeadAnswer, KeptInv
<1>2. CASE ~Dead("set_mode", <<mode>>)
  <2>1. reply'.op = "set_mode" /\ asked' = asked
    BY <1>2 DEF SetBssType, Handled, Answer
  <2>2. Honest(reply')
    BY <2>1, OtherAnswer DEF Promised
  <2>3. adapter' \in Adapter /\ adapter'.default = adapter.default
    BY <1>2 DEF SetBssType, WxInv, Adapter, Mode
  <2> QED
    BY <2>1, <2>2, <2>3 DEF WxInv, ChannelMeansFreq
<1> QED
  BY <1>1, <1>2

LEMMA EnvironmentInv == WxInv /\ Environment => WxInv'
<1> SUFFICES ASSUME WxInv, Environment
             PROVE  WxInv'
  OBVIOUS
<1>1. ASSUME NEW c \in 0..255, Join(c)
      PROVE  adapter' \in Adapter /\ adapter'.default = adapter.default /\ Quiet
  BY <1>1 DEF Join, WxInv, Adapter, Quiet
<1>2. CASE Fail \/ Revive \/ Leave
  <2>1. adapter' \in Adapter /\ adapter'.default = adapter.default /\ Quiet
    BY <1>2 DEF Fail, Revive, Leave, WxInv, Adapter, Quiet
  <2> QED
    BY <2>1 DEF WxInv, ChannelMeansFreq, Quiet
<1>3. ASSUME \/ Create
             \/ \E c \in AllowedChannels : Join(c)
      PROVE  WxInv'
  <2>1. adapter.default \in 0..255 /\ AllowedChannels \subseteq 0..255
    BY ChannelAssumption DEF WxInv
  <2>2. adapter' \in Adapter /\ adapter'.default = adapter.default /\ Quiet
    BY <1>1, <1>3, <2>1 DEF Create
  <2> QED
    BY <2>2 DEF WxInv, ChannelMeansFreq, Quiet
<1> QED
  BY <1>2, <1>3 DEF Environment

LEMMA WxNextInv == WxInv /\ [Next]_vars => WxInv'
<1> SUFFICES ASSUME WxInv, [Next]_vars
             PROVE  WxInv'
  OBVIOUS
<1>1. CASE Return
  <2>1. Honest(reply')
    BY <1>1 DEF Return, Honest, NoReply
  <2> QED
    BY <1>1, <2>1, KeptInv DEF Return, Keeps
<1>2. CASE Settings
  BY <1>2, SetFreqInv, SetBssTypeInv, OtherSettingsKeep, ThresholdsKeep, ThresholdAssumption,
     KeptInv DEF Settings
<1>3. CASE Security
  BY <1>3, OtherSecurityKeeps, KeysKeep, ExtKeyKeeps, KeptInv DEF Security
<1>4. CASE PrivateCalls \/ Scanning
  BY <1>4, PrivateCallsKeep, ScanningKeeps, KeptInv
<1>5. CASE UNCHANGED vars
  BY <1>5 DEF vars, WxInv, ChannelMeansFreq
<1> QED
  BY <1>1, <1>2, <1>3, <1>4, <1>5, EnvironmentInv DEF Next

LEMMA WxAlways == Spec => []WxInv
<1>1. Init => WxInv
  <2> SUFFICES ASSUME Init
               PROVE  WxInv
    OBVIOUS
  <2>1. adapter \in Adapter /\ adapter.default = 1 /\ asked = 2412
    BY DEF Init, Adapter, Mode
  <2>2. ChannelMeansFreq
    BY <2>1, SMT DEF ChannelMeansFreq, ChannelToFreq, Near, InBand
  <2>3. Honest(reply)
    BY DEF Init, Honest, NoReply
  <2> QED
    BY <2>1, <2>2, <2>3 DEF WxInv
<1> QED
  BY <1>1, WxNextInv, PTL DEF Spec

(* The default channel is that of the frequency granted, exactly inside the *)
(* two bands, whatever the library accepts (lwlan_ioctl.c:53-114).          *)
THEOREM ChannelsAreMeant == Spec => []ChannelMeansFreq
  BY WxAlways, PTL DEF WxInv

(* The driver grants what it announces, and nothing else, and names keys to *)
(* the library alike in all its handlers (lwlan_ioctl.c:413-437 against     *)
(* 1017-1112, 1490-1590, 1624-1639).                                        *)
THEOREM RangeIsKept == Spec => []RangeIsHonest
<1>1. WxInv => RangeIsHonest
  BY DEF WxInv, Honest, RangeIsHonest
<1> QED
  BY <1>1, WxAlways, PTL

(* A scan answered with success names every BSS in order and all its rates  *)
(* (lwlan_ioctl.c:651-680), for lists and buffers of any length.            *)
THEOREM ScansAreComplete == Spec => []ScanComplete
<1>1. WxInv => ScanComplete
  BY DEF WxInv, Honest, ScanTold, ScanComplete, NotWorking
<1> QED
  BY <1>1, WxAlways, PTL

(* A scan is refused with E2BIG only if the buffer is too short, or a BSS   *)
(* cannot be reported at all (lwlan_ioctl.c:528-780).                       *)
THEOREM ScanFailuresAreExplained == Spec => []ScanFailureExplained
<1>1. WxInv => ScanFailureExplained
  BY DEF WxInv, Honest, ScanTold, ScanFailureExplained, NotWorking, E2BIG
<1> QED
  BY <1>1, WxAlways, PTL
=============================================================================
