-------------------------- MODULE Statistics_proofs --------------------------
(***************************************************************************)
(* The statistics of an endpoint, for every configuration, every set of    *)
(* packets and every clock: the sums and smoothed averages they are made   *)
(* of, what update and a packet make of them, and the invariants that keep *)
(* the round-trip time between two samples, every quotient a number, and   *)
(* in every slot of the history the newest round trip measured there.      *)
(***************************************************************************)
EXTENDS Statistics, EndpointState_proofs

-----------------------------------------------------------------------------
(* Sums.                                                                   *)

Mapped(f, g, s) ==
  IF s = {} THEN 0 ELSE f[CHOOSE x \in s : TRUE] + g[s \ {CHOOSE x \in s : TRUE}]

\* g is the recursive function that sums f over the subsets of S.
Sums(f, S, g) == \A s \in SUBSET S : g[s] = Mapped(f, g, s)

\* The recursive function behind a sum is what its equation says: there is one
\* on the subsets of n elements at most, for every n.
LEMMA SumEquation ==
  ASSUME NEW f, NEW S, IsFiniteSet(S)
  PROVE  \E g : Sum(f, S) = g[S] /\ Sums(f, S, g)
  <1> DEFINE Upto(m) == {s \in SUBSET S : Cardinality(s) <= m}
             Loop(g, m) == g = [s \in Upto(m) |-> Mapped(f, g, s)]
             Looped == {m \in Nat : \E g : Loop(g, m)}
             N == Cardinality(S)
  <1>1. /\ N \in Nat /\ Upto(N) = SUBSET S
        /\ \A s \in SUBSET S : IsFiniteSet(s) /\ Cardinality(s) \in Nat
    <2>1. \A s \in SUBSET S : IsFiniteSet(s) /\ Cardinality(s) <= N
      BY FS_Subset, Zenon
    <2>2. \A s \in SUBSET S : Cardinality(s) \in Nat
      BY <2>1, FS_CardinalityType
    <2> QED
      BY <2>1, <2>2, FS_CardinalityType
  <1>2. 0 \in Looped
    <2> DEFINE g == [s \in Upto(0) |-> 0]
    <2>1. \A s \in Upto(0) : s = {}
      BY <1>1, FS_EmptySet
    <2>2. Loop(g, 0)
      BY <2>1 DEF Mapped
    <2> QED
      BY <2>2, Zenon
  <1>3. ASSUME NEW m \in Nat, m \in Looped PROVE m + 1 \in Looped
    <2>1. PICK g : Loop(g, m)
      BY <1>3
    <2> DEFINE h == [s \in Upto(m + 1) |-> Mapped(f, g, s)]
    <2>2. \A s \in Upto(m) : s \in Upto(m + 1) /\ h[s] = g[s]
      BY <1>1, <2>1
    <2>3. ASSUME NEW s \in Upto(m + 1), s # {}, NEW x \in s
          PROVE  h[s \ {x}] = g[s \ {x}]
      <3>1. Cardinality(s \ {x}) = Cardinality(s) - 1
        BY <1>1, <2>3, FS_RemoveElement
      <3>2. s \ {x} \in Upto(m)
        BY <1>1, <3>1
      <3> HIDE DEF h, Upto
      <3> QED
        BY <2>2, <3>2
    <2>4. ASSUME NEW s \in Upto(m + 1)
          PROVE  Mapped(f, g, s) = Mapped(f, h, s)
      <3> DEFINE x == CHOOSE x \in s : TRUE
      <3>1. s # {} => x \in s
        OBVIOUS
      <3> HIDE DEF h, Upto, x
      <3>2. s # {} => h[s \ {x}] = g[s \ {x}]
        BY <2>3, <3>1
      <3> QED
        BY <3>2, Zenon DEF Mapped, x
    <2>5. Loop(h, m + 1)
      <3> HIDE DEF Upto
      <3> QED
        BY <2>4
    <2> HIDE DEF h, Loop
    <2> QED
      BY <2>5
  <1>4. N \in Looped
    <2> HIDE DEF Looped, N
    <2> QED
      BY <1>1, <1>2, <1>3, NatSetInduction
  <1> DEFINE Defined(g) == g = [s \in SUBSET S |-> Mapped(f, g, s)]
             sum == CHOOSE g : Defined(g)
  <1>5. \E g : Defined(g)
    BY <1>1, <1>4
  <1>6. Defined(sum)
    <2> HIDE DEF Defined
    <2> QED
      BY <1>5
  <1>7. Sum(f, S) = sum[S]
    BY DEF Sum, Sets!MapThenSumSet, Sets!MapThenFoldSet, Mapped
  <1>8. Sums(f, S, sum)
    <2> HIDE DEF sum
    <2> QED
      BY <1>6, Zenon DEF Sums
  <1> QED
    BY <1>7, <1>8, Zenon
\* A sum lies where its members' bounds put it.
LEMMA SumWithin ==
  ASSUME NEW f, NEW S, IsFiniteSet(S), NEW lo \in Int, NEW hi \in Int,
         \A x \in S : f[x] \in lo .. hi
  PROVE  Sum(f, S) \in (lo * Cardinality(S)) .. (hi * Cardinality(S))
  <1>1. PICK g : Sum(f, S) = g[S] /\ Sums(f, S, g)
    BY SumEquation, Zenon
  <1> DEFINE N == Cardinality(S)
             In(s) == g[s] \in (lo * Cardinality(s)) .. (hi * Cardinality(s))
             T == {m \in Nat : \A s \in SUBSET S : Cardinality(s) <= m => In(s)}
  <1>2. \A s \in SUBSET S : IsFiniteSet(s) /\ Cardinality(s) \in Nat
    <2>1. \A s \in SUBSET S : IsFiniteSet(s)
      BY FS_Subset, Zenon
    <2> QED
      BY <2>1, FS_CardinalityType
  <1>3. In({})
    <2>1. Cardinality({}) = 0 /\ g[{}] = 0
      BY <1>1, FS_EmptySet DEF Sums, Mapped
    <2>2. lo * 0 = 0 /\ hi * 0 = 0
      OBVIOUS
    <2> QED
      BY <2>1, <2>2
  <1>4. 0 \in T
    <2>1. \A s \in SUBSET S : Cardinality(s) <= 0 => s = {}
      BY <1>2, FS_EmptySet
    <2> HIDE DEF In
    <2> QED
      BY <1>3, <2>1
  <1>5. ASSUME NEW m \in Nat, m \in T PROVE m + 1 \in T
    <2>1. ASSUME NEW s \in SUBSET S, Cardinality(s) <= m + 1, s # {}
          PROVE  In(s)
      <3> DEFINE x == CHOOSE x \in s : TRUE
                 c == Cardinality(s)
                 rest == s \ {x}
      <3>1. x \in s /\ g[s] = f[x] + g[rest]
        BY <1>1, <2>1 DEF Sums, Mapped
      <3> HIDE DEF x
      <3>2. c \in Nat /\ Cardinality(rest) = c - 1
        BY <1>2, <2>1, <3>1, FS_RemoveElement
      <3>3. rest \in SUBSET S /\ Cardinality(rest) <= m
        BY <2>1, <3>2
      <3>4. In(rest)
        <4> HIDE DEF In
        <4> QED
          BY <1>5, <3>3
      <3>5. f[x] \in lo .. hi
        BY <3>1
      <3>6. lo * (c - 1) + lo = lo * c /\ hi * (c - 1) + hi = hi * c
        <4> HIDE DEF c
        <4> QED
          BY <3>2
      <3>7. PICK lc \in Int, hc \in Int : lc = lo * (c - 1) /\ hc = hi * (c - 1)
        <4> HIDE DEF c
        <4> QED
          BY <3>2
      <3>8. g[rest] \in lc .. hc
        BY <3>2, <3>4, <3>7
      <3>9. g[s] \in (lc + lo) .. (hc + hi)
        <4> HIDE DEF rest
        <4> QED
          BY <3>1, <3>5, <3>7, <3>8
      <3> QED
        BY <3>6, <3>7, <3>9
    <2> HIDE DEF In
    <2> QED
      BY <1>3, <2>1
  <1>6. N \in T
    <2> HIDE DEF T
    <2> QED
      BY <1>2, <1>4, <1>5, NatSetInduction
  <1>7. In(S)
    <2> HIDE DEF In
    <2> QED
      BY <1>2, <1>6
  <1> QED
    BY <1>1, <1>7

\* A quotient lies between two integers if the dividend lies between the
\* products with them.
LEMMA QuotientWithin ==
  ASSUME NEW lo \in Int, NEW hi \in Int, NEW c \in Nat \ {0},
         NEW x \in (lo * c) .. (hi * c)
  PROVE  x \div c \in lo .. hi
  <1>1. PICK q \in Int, r \in 0 .. (c - 1) : q = x \div c /\ x = c * q + r
    BY DivMod
  <1>2. lo * c \in Int /\ hi * c \in Int
    OBVIOUS
  <1>3. q <= hi
    <2> SUFFICES ASSUME q >= hi + 1 PROVE FALSE
      BY <1>1
    <2>1. c * q >= c * (hi + 1)
      BY <1>1
    <2>2. c * (hi + 1) = hi * c + c
      OBVIOUS
    <2> QED
      BY <1>1, <1>2, <2>1, <2>2
  <1>4. lo <= q
    <2> SUFFICES ASSUME q + 1 <= lo PROVE FALSE
      BY <1>1
    <2>1. c * (q + 1) <= c * lo
      BY <1>1
    <2>2. c * (q + 1) = c * q + c /\ c * lo = lo * c /\ c * q \in Int
      BY <1>1
    <2> QED
      BY <1>1, <1>2, <2>1, <2>2
  <1> QED
    BY <1>1, <1>3, <1>4

\* Smoothing moves an average towards the sample, and never past it.
LEMMA SmoothedWithin ==
  ASSUME NEW lo \in Int, NEW hi \in Int, NEW n \in Nat \ {0},
         NEW average \in lo .. hi, NEW sample \in lo .. hi
  PROVE  Smoothed(average, sample, n) \in lo .. hi
  <1>1. PICK d \in Int : d = sample - average
    OBVIOUS
  <1>2. PICK q \in Int, r \in 0 .. (n - 1) : q = d \div n /\ d = n * q + r
    BY <1>1, DivMod
  <1>3. d >= 0 => q \in 0 .. d
    <2>1. d >= 0 => d \in (0 * n) .. (d * n)
      <3>1. d >= 0 => d * n >= d
        OBVIOUS
      <3> QED
        BY <3>1
    <2> QED
      BY <1>2, <2>1, QuotientWithin
  <1>4. d <= 0 => q \in d .. 0
    <2>1. d <= 0 => d \in (d * n) .. (0 * n)
      <3>1. d <= 0 => d * n <= d
        OBVIOUS
      <3> QED
        BY <3>1
    <2> QED
      BY <1>2, <2>1, QuotientWithin
  <1> QED
    BY <1>1, <1>2, <1>3, <1>4 DEF Smoothed
-----------------------------------------------------------------------------
(* The largest and the smallest of a set.                                  *)

\* A finite set of natural numbers that is not empty has a largest member.
LEMMA LargestOf ==
  ASSUME NEW U \in SUBSET Nat, IsFiniteSet(U), U # {}
  PROVE  \E x \in U : \A y \in U : x >= y
  <1> DEFINE Has(s) == \E x \in s : \A y \in s : x >= y
             T == {m \in Nat : \A s \in SUBSET U : s # {} /\ Cardinality(s) <= m => Has(s)}
  <1>1. \A s \in SUBSET U : IsFiniteSet(s) /\ Cardinality(s) \in Nat
    <2>1. \A s \in SUBSET U : IsFiniteSet(s)
      BY FS_Subset, Zenon
    <2> QED
      BY <2>1, FS_CardinalityType
  <1>2. 0 \in T
    <2>1. \A s \in SUBSET U : Cardinality(s) <= 0 => s = {}
      BY <1>1, FS_EmptySet
    <2> HIDE DEF Has
    <2> QED
      BY <2>1
  <1>3. ASSUME NEW m \in Nat, m \in T PROVE m + 1 \in T
    <2>1. ASSUME NEW s \in SUBSET U, s # {}, Cardinality(s) <= m + 1
          PROVE  Has(s)
      <3>1. PICK x \in s : TRUE
        BY <2>1
      <3> DEFINE rest == s \ {x}
      <3>2. rest \in SUBSET U /\ Cardinality(rest) <= m
        BY <1>1, <2>1, FS_RemoveElement
      <3>3. CASE rest = {}
        <4>1. \A y \in s : y = x
          BY <3>3
        <4> QED
          BY <4>1
      <3>4. CASE rest # {}
        <4>1. Has(rest)
          <5> HIDE DEF Has
          <5> QED
            BY <1>3, <3>2, <3>4
        <4>2. PICK z \in rest : \A y \in rest : z >= y
          BY <4>1
        <4>3. z \in Nat /\ x \in Nat /\ z \in s
          OBVIOUS
        <4>4. CASE z >= x
          <5>1. \A y \in s : z >= y
            BY <4>2, <4>4
          <5> QED
            BY <4>3, <5>1
        <4>5. CASE x >= z
          <5>1. \A y \in s : x >= y
            BY <4>2, <4>3, <4>5
          <5> QED
            BY <5>1
        <4> QED
          BY <4>3, <4>4, <4>5
      <3> QED
        BY <3>3, <3>4
    <2> HIDE DEF Has
    <2> QED
      BY <2>1
  <1>4. Cardinality(U) \in T
    <2> HIDE DEF T
    <2> QED
      BY <1>1, <1>2, <1>3, NatSetInduction
  <1>5. Has(U)
    <2> HIDE DEF Has
    <2> QED
      BY <1>1, <1>4
  <1> QED
    BY <1>5

LEMMA MaxOf ==
  ASSUME NEW U \in SUBSET Nat, IsFiniteSet(U), U # {}
  PROVE  Sets!Max(U) \in U /\ \A y \in U : Sets!Max(U) >= y
  BY LargestOf DEF Sets!Max

LEMMA MinOf ==
  ASSUME NEW U \in SUBSET Nat, U # {}
  PROVE  Sets!Min(U) \in U /\ \A y \in U : Sets!Min(U) <= y
  BY SmallestOf DEF Sets!Min

LEMMA ImageFinite ==
  ASSUME NEW f, NEW S, IsFiniteSet(S)
  PROVE  IsFiniteSet({f[x] : x \in S})
  <1> DEFINE g == [x \in S |-> f[x]]
  <1>1. g \in Surjection(S, {f[x] : x \in S})
    BY DEF Surjection
  <1> QED
    BY <1>1, FS_Surjection, Zenon

\* The slots of a history that are in use.
LEMMA UsedFinite ==
  ASSUME NEW history \in [0 .. (HistorySize - 1) -> Nat \cup {Unused}]
  PROVE  /\ IsFiniteSet(UsedSlots(history))
         /\ UsedSlots(history) \subseteq 0 .. (HistorySize - 1)
         /\ \A i \in UsedSlots(history) : history[i] \in Nat
         /\ IsFiniteSet({history[i] : i \in UsedSlots(history)})
         /\ {history[i] : i \in UsedSlots(history)} \subseteq Nat
  <1>1. IsFiniteSet(0 .. (HistorySize - 1))
    BY FS_Interval, StatisticsAssumption
  <1>2. UsedSlots(history) \subseteq 0 .. (HistorySize - 1)
    BY DEF UsedSlots
  <1>3. IsFiniteSet(UsedSlots(history))
    BY <1>1, <1>2, FS_Subset
  <1>4. \A i \in UsedSlots(history) : history[i] \in Nat
    BY <1>2 DEF UsedSlots, Unused
  <1>5. IsFiniteSet({history[i] : i \in UsedSlots(history)})
    BY <1>3, ImageFinite
  <1> QED
    BY <1>2, <1>3, <1>4, <1>5
-----------------------------------------------------------------------------
(* Round-trip times and jitter.                                            *)

Histories == [0 .. (HistorySize - 1) -> Nat \cup {Unused}]

Rtts(history) == {history[i] : i \in UsedSlots(history)}

LargestRtt(history) == Sets!Max(Rtts(history) \cup {0})

\* rtt_min is no more than any round trip of the history.
LEMMA SmallestRttBound ==
  ASSUME NEW history \in Histories
  PROVE  /\ SmallestRtt(history) \in Nat
         /\ \A i \in UsedSlots(history) : SmallestRtt(history) <= history[i]
  <1> DEFINE U == Rtts(history) \cup {10000}
             m == Sets!Min(U)
  <1>1. Rtts(history) \subseteq Nat
    BY UsedFinite DEF Rtts, Histories
  <1>2. m \in U /\ \A y \in U : m <= y
    <2>1. U \in SUBSET Nat /\ U # {}
      BY <1>1
    <2> HIDE DEF U
    <2> QED
      BY <2>1, MinOf
  <1>3. SmallestRtt(history) = IF m = 10000 THEN 0 ELSE m
    BY DEF SmallestRtt, Rtts
  <1>4. \A i \in UsedSlots(history) : history[i] \in U /\ history[i] \in Nat
    BY <1>1 DEF Rtts
  <1>5. m \in Nat /\ \A i \in UsedSlots(history) : m <= history[i]
    <2> HIDE DEF m
    <2> QED
      BY <1>1, <1>2, <1>4
  <1> HIDE DEF m, U
  <1> QED
    BY <1>3, <1>4, <1>5

LEMMA LargestRttNat ==
  ASSUME NEW history \in Histories
  PROVE  LargestRtt(history) \in Nat
  <1> DEFINE U == Rtts(history) \cup {0}
  <1>1. Rtts(history) \subseteq Nat /\ IsFiniteSet(Rtts(history))
    BY UsedFinite DEF Rtts, Histories
  <1>2. U \in SUBSET Nat /\ U # {} /\ IsFiniteSet(U)
    BY <1>1, FS_AddElement
  <1> HIDE DEF U
  <1>3. Sets!Max(U) \in U
    BY <1>2, MaxOf
  <1>4. Sets!Max(U) \in Nat
    BY <1>2, <1>3
  <1> QED
    BY <1>4 DEF LargestRtt, U

\* The largest distance from rtt_min is a number of milliseconds, too.
LEMMA LargestJitter ==
  ASSUME NEW history \in Histories
  PROVE  Sets!Max({history[i] - SmallestRtt(history) : i \in UsedSlots(history)} \cup {0}) \in Nat
  <1> DEFINE used == UsedSlots(history)
             min == SmallestRtt(history)
             g == [i \in used |-> history[i] - min]
             U == {history[i] - min : i \in used} \cup {0}
  <1>1. min \in Nat /\ \A i \in used : min <= history[i] /\ history[i] \in Nat
    BY SmallestRttBound, UsedFinite DEF Histories
  <1>2. IsFiniteSet(used)
    BY UsedFinite DEF Histories
  <1> HIDE DEF min, used
  <1>3. U = {g[i] : i \in used} \cup {0}
    OBVIOUS
  <1>4. U \in SUBSET Nat /\ U # {}
    BY <1>1
  <1> HIDE DEF g
  <1>5. IsFiniteSet(U)
    <2>1. IsFiniteSet({g[i] : i \in used})
      BY <1>2, ImageFinite
    <2> HIDE DEF U
    <2> QED
      BY <1>3, <2>1, FS_AddElement
  <1> HIDE DEF U
  <1>6. Sets!Max(U) \in U
    BY <1>4, <1>5, MaxOf
  <1>7. Sets!Max(U) \in Nat
    BY <1>4, <1>6
  <1> QED
    BY <1>7, Zenon DEF U, min, used

\* A mean over them is a number.
LEMMA MeanNat ==
  ASSUME NEW history \in Histories
  PROVE  Mean(UsedSlots(history)) \in Nat
  <1> DEFINE used == UsedSlots(history)
  <1>1. IsFiniteSet(used)
    BY UsedFinite DEF Histories
  <1> HIDE DEF used
  <1>2. used # {} => Cardinality(used) # 0
    BY <1>1, FS_EmptySet
  <1>3. Mean(used) \in Nat
    BY <1>2 DEF Mean, Average, SomeNumber
  <1> QED
    BY <1>3 DEF used

Measurements == [time : Nat, packet_bytes : Nat]

\* The types of the fields of stats.
StatisticsTypes ==
  [time : Nat, rtt : Nat, rtt_history_buffer : Histories,
   sent_packets     : [0 .. (SentSize - 1) -> Measurements],
   received_packets : [0 .. (ReceivedSize - 1) -> Measurements],
   rtt_min : Nat, rtt_max : Nat, rtt_avg : Nat,
   jitter_avg : Nat, jitter_max : Nat, jitter_stddev : Nat,
   packet_loss : Nat,
   sent_bandwidth : Nat, received_bandwidth : Nat, acked_bandwidth : Nat]

\* What the steps of update leave alone.
SameMeasured(st, new) ==
  /\ new.time = st.time
  /\ new.rtt = st.rtt
  /\ new.rtt_history_buffer = st.rtt_history_buffer
  /\ new.sent_packets = st.sent_packets
  /\ new.received_packets = st.received_packets

LEMMA WithRttsChanges ==
  ASSUME NEW st \in StatisticsTypes
  PROVE  /\ WithRtts(st) \in StatisticsTypes
         /\ SameMeasured(st, WithRtts(st))
         /\ WithRtts(st).packet_loss = st.packet_loss
  <1> DEFINE history == st.rtt_history_buffer
             used == UsedSlots(history)
             min == SmallestRtt(history)
             max == LargestRtt(history)
             mean == Mean(used)
             largest == Sets!Max({history[i] - min : i \in used} \cup {0})
             new == [st EXCEPT !.rtt_min = min, !.rtt_max = max, !.rtt_avg = mean,
                               !.jitter_avg = mean, !.jitter_max = largest,
                               !.jitter_stddev = mean]
  <1>1. WithRtts(st) = new
    BY DEF WithRtts, LargestRtt, Rtts
  <1>2. history \in Histories
    BY DEF StatisticsTypes
  <1> HIDE DEF history
  <1>3. min \in Nat /\ max \in Nat /\ mean \in Nat /\ largest \in Nat
    BY <1>2, SmallestRttBound, LargestRttNat, LargestJitter, MeanNat
  <1> HIDE DEF min, max, mean, largest
  <1>4. /\ new \in StatisticsTypes /\ SameMeasured(st, new)
        /\ new.packet_loss = st.packet_loss
    BY <1>3 DEF StatisticsTypes, SameMeasured
  <1> HIDE DEF new
  <1> QED
    BY <1>1, <1>4
-----------------------------------------------------------------------------
(* Loss and bandwidth.                                                     *)

LEMMA SumNat ==
  ASSUME NEW f, NEW S, IsFiniteSet(S), \A x \in S : f[x] \in Nat
  PROVE  Sum(f, S) \in Nat
  <1> DEFINE U == {f[x] : x \in S} \cup {0}
  <1>1. IsFiniteSet(U) /\ U \in SUBSET Nat /\ U # {}
    <2>1. IsFiniteSet({f[x] : x \in S})
      BY ImageFinite
    <2>2. IsFiniteSet(U)
      BY <2>1, FS_AddElement
    <2> QED
      BY <2>2
  <1>2. PICK hi \in U : \A y \in U : hi >= y
    BY <1>1, LargestOf
  <1>3. hi \in Int /\ 0 \in Int
    BY <1>1
  <1>4. \A x \in S : f[x] \in 0 .. hi
    BY <1>2, <1>3
  <1>5. Sum(f, S) \in (0 * Cardinality(S)) .. (hi * Cardinality(S))
    BY <1>3, <1>4, SumWithin
  <1>6. Cardinality(S) \in Nat
    BY FS_CardinalityType
  <1>7. 0 * Cardinality(S) = 0 /\ hi * Cardinality(S) \in Int
    BY <1>3, <1>6
  <1> QED
    BY <1>5, <1>7

LEMMA QuotientNat ==
  ASSUME NEW x \in Nat, NEW c \in Nat \ {0}
  PROVE  Quotient(x, c) \in Nat
  <1>1. x \in (0 * c) .. (x * c)
    <2>1. x * c >= x
      OBVIOUS
    <2> QED
      BY <2>1
  <1>2. x \div c \in 0 .. x
    BY <1>1, QuotientWithin
  <1> QED
    BY <1>2 DEF Quotient

LEMMA SmoothedNat ==
  ASSUME NEW average \in Nat, NEW sample \in Nat, NEW n \in Nat \ {0}
  PROVE  Smoothed(average, sample, n) \in Nat
  <1>1. 0 \in Int /\ average + sample \in Int
    OBVIOUS
  <1>2. average \in 0 .. (average + sample) /\ sample \in 0 .. (average + sample)
    OBVIOUS
  <1>3. Smoothed(average, sample, n) \in 0 .. (average + sample)
    BY <1>1, <1>2, SmoothedWithin
  <1> QED
    BY <1>1, <1>3

\* The sequences an average is taken over.
LEMMA SampledFinite ==
  ASSUME NEW n \in Nat \ {0}, NEW D, NEW b \in Buffer(n, D)
  PROVE  /\ IsFiniteSet(Sampled(b))
         /\ \A q \in Sampled(b) : q \in Seqs /\ Exists(b, q) /\ Slot(b, q) \in 0 .. (n - 1)
  <1> DEFINE base == U16(b.sequence - b.num_entries)
             I == 0 .. (b.num_entries \div 2 - 1)
             f == [i \in I |-> U16(base + i)]
             R == {U16(base + i) : i \in I}
  <1>1. b.num_entries = n /\ b.sequence \in Seqs
    BY DEF Buffer
  <1>2. n \div 2 \in Int
    BY DivMod
  <1>3. base \in Seqs /\ \A i \in I : U16(base + i) \in Seqs
    <2>1. \A x \in Int : U16(x) \in Seqs
      BY DivMod, CircleNumbers DEF U16
    <2>2. base \in Seqs
      <3>1. b.sequence - b.num_entries \in Int
        BY <1>1, CircleNumbers
      <3> QED
        BY <2>1, <3>1
    <2> HIDE DEF base
    <2>3. \A i \in I : base + i \in Int
      BY <1>1, <1>2, <2>2, CircleNumbers
    <2> QED
      BY <2>1, <2>2, <2>3
  <1>4. IsFiniteSet(I)
    BY <1>1, <1>2, FS_Interval
  <1>5. IsFiniteSet(R)
    <2>1. R = {f[i] : i \in I}
      OBVIOUS
    <2> HIDE DEF f, R, I
    <2> QED
      BY <1>4, <2>1, ImageFinite
  <1>6. Sampled(b) = {q \in R : Exists(b, q)}
    BY DEF Sampled
  <1>7. IsFiniteSet(Sampled(b))
    <2> HIDE DEF R
    <2> QED
      BY <1>5, <1>6, FS_Subset
  <1>8. \A q \in Sampled(b) : q \in Seqs /\ Exists(b, q)
    BY <1>3, <1>6
  <1>9. \A q \in Seqs : Slot(b, q) \in 0 .. (n - 1)
    BY SlotType, CircleNumbers
  <1> QED
    BY <1>7, <1>8, <1>9
\* The entries an endpoint's statistics are measured from.
LEMMA SampledBuffers ==
  ASSUME NEW P, NEW ep \in Endpoints(P)
  PROVE  /\ ep.sent_packets \in Buffer(SentSize, BOOLEAN) /\ SentSize \in Nat \ {0}
         /\ ep.received_packets \in Buffer(ReceivedSize, {NULL}) /\ ReceivedSize \in Nat \ {0}
  BY ConfigNumbers DEF Endpoints

\* What WithLoss computes.
LEMMA WithLossChanges ==
  ASSUME NEW P, NEW ep \in Endpoints(P), NEW st \in StatisticsTypes
  PROVE  /\ WithLoss(st, ep) \in StatisticsTypes
         /\ SameMeasured(st, WithLoss(st, ep))
         /\ WithLoss(st, ep).packet_loss > st.packet_loss
              => \E q \in Sampled(ep.sent_packets) : ~Acked(ep.sent_packets, q)
  <1> DEFINE of == Sampled(ep.sent_packets)
             dropped == {q \in of : ~Acked(ep.sent_packets, q)}
             loss == Quotient(Cardinality(dropped) * 100, Cardinality(of))
             value == IF of = {} THEN 0 ELSE Smoothed(st.packet_loss, loss, LossSmoothing)
             new == [st EXCEPT !.packet_loss = value]
  <1>1. WithLoss(st, ep) = new
    BY DEF WithLoss
  <1>2. IsFiniteSet(of)
    BY SampledBuffers, SampledFinite
  <1>3. IsFiniteSet(dropped)
    <2> HIDE DEF of
    <2> QED
      BY <1>2, FS_Subset
  <1>4. st.packet_loss \in Nat /\ LossSmoothing \in Nat \ {0}
    BY StatisticsAssumption DEF StatisticsTypes
  <1>5. of # {} => loss \in Nat /\ (dropped = {} => loss = 0)
    <2> HIDE DEF of, dropped
    <2>1. Cardinality(of) \in Nat /\ (of # {} => Cardinality(of) # 0)
      BY <1>2, FS_CardinalityType, FS_EmptySet
    <2>2. Cardinality(dropped) \in Nat /\ (dropped = {} => Cardinality(dropped) = 0)
      BY <1>3, FS_CardinalityType, FS_EmptySet
    <2>3. PICK c \in Nat, d \in Nat : c = Cardinality(of) /\ d = Cardinality(dropped)
      BY <2>1, <2>2
    <2>4. d * 100 \in Nat
      OBVIOUS
    <2>5. c # 0 => Quotient(d * 100, c) \in Nat
      BY <2>4, QuotientNat
    <2>6. c # 0 => Quotient(0, c) = 0
      <3>1. c # 0 => 0 \in (0 * c) .. (0 * c)
        OBVIOUS
      <3>2. c # 0 => 0 \div c \in 0 .. 0
        BY <3>1, QuotientWithin
      <3> QED
        BY <3>2 DEF Quotient
    <2>7. d = 0 => d * 100 = 0
      OBVIOUS
    <2> QED
      BY <2>1, <2>2, <2>3, <2>5, <2>6, <2>7
  <1>6. value \in Nat /\ (dropped = {} => value <= st.packet_loss)
    <2> HIDE DEF of, dropped, loss
    <2>1. CASE of = {}
      BY <1>4, <2>1
    <2>2. CASE of # {}
      <3>1. value = Smoothed(st.packet_loss, loss, LossSmoothing) /\ loss \in Nat
        BY <1>5, <2>2
      <3>2. value \in Nat
        BY <1>4, <3>1, SmoothedNat
      <3>3. ASSUME dropped = {} PROVE value <= st.packet_loss
        <4>1. loss = 0 /\ 0 \in 0 .. st.packet_loss /\ st.packet_loss \in 0 .. st.packet_loss
          BY <1>4, <1>5, <2>2, <3>3
        <4>2. 0 \in Int /\ st.packet_loss \in Int
          BY <1>4
        <4>3. Smoothed(st.packet_loss, 0, LossSmoothing) \in 0 .. st.packet_loss
          BY ONLY <1>4, <4>1, <4>2, SmoothedWithin, Zenon
        <4> QED
          BY <3>1, <3>2, <4>1, <4>3
      <3> QED
        BY <3>2, <3>3
    <2> QED
      BY <2>1, <2>2
  <1>7. dropped # {} => \E q \in of : ~Acked(ep.sent_packets, q)
    OBVIOUS
  <1> HIDE DEF value, dropped, of
  <1>8. /\ new \in StatisticsTypes /\ new.packet_loss = value
        /\ SameMeasured(st, new)
    BY <1>6 DEF StatisticsTypes, SameMeasured
  <1>9. new.packet_loss > st.packet_loss => dropped # {}
    BY <1>4, <1>6, <1>8
  <1> HIDE DEF new
  <1> QED
    BY <1>1, <1>7, <1>8, <1>9 DEF of

LEMMA BandwidthNat ==
  ASSUME NEW n \in Nat \ {0}, NEW entries \in [0 .. (n - 1) -> Measurements],
         NEW of, IsFiniteSet(of), of \subseteq 0 .. (n - 1), NEW average \in Nat
  PROVE  Bandwidth(average, entries, of) \in Nat
  <1> DEFINE times == {entries[i].time : i \in of}
             bytes == [i \in of |-> entries[i].packet_bytes]
             at == [i \in of |-> entries[i].time]
             span == Sets!Max(times \cup {0}) - Sets!Min(times)
             sample == Quotient(Sum(bytes, of), span)
  <1>1. \A i \in of : bytes[i] \in Nat /\ at[i] \in Nat
    BY DEF Measurements
  <1>2. times \subseteq Nat /\ IsFiniteSet(times)
    <2>1. times = {at[i] : i \in of}
      OBVIOUS
    <2> HIDE DEF at, times
    <2>2. times \subseteq Nat
      BY <1>1, <2>1
    <2> QED
      BY <2>1, <2>2, ImageFinite
  <1>3. Sum(bytes, of) \in Nat
    <2> HIDE DEF bytes
    <2> QED
      BY <1>1, SumNat
  <1>4. times # {} => span \in Nat
    <2> HIDE DEF times
    <2>1. times \cup {0} \in SUBSET Nat /\ IsFiniteSet(times \cup {0})
      BY <1>2, FS_AddElement
    <2>2. \A y \in times \cup {0} : Sets!Max(times \cup {0}) >= y
      BY <2>1, MaxOf
    <2>3. Sets!Max(times \cup {0}) \in Nat
      BY <2>1, MaxOf
    <2>4. times # {} => Sets!Min(times) \in times
      BY <1>2, MinOf
    <2> DEFINE max == Sets!Max(times \cup {0})
               min == Sets!Min(times)
    <2>5. times # {} => min \in Nat /\ max >= min
      BY <1>2, <2>2, <2>4
    <2> HIDE DEF max, min
    <2>6. times # {} => max - min \in Nat
      BY <2>3, <2>5 DEF max
    <2> QED
      BY <2>6 DEF max, min
  <1>5. Bandwidth(average, entries, of) =
          IF times = {} \/ span = 0 THEN average
          ELSE Smoothed(average, sample, BandwidthSmoothing)
    BY DEF Bandwidth
  <1> HIDE DEF times, span, bytes
  <1>6. times # {} /\ span # 0 => sample \in Nat
    BY <1>3, <1>4, QuotientNat
  <1>7. BandwidthSmoothing \in Nat \ {0}
    BY StatisticsAssumption
  <1> QED
    BY <1>5, <1>6, <1>7, SmoothedNat
\* The slots of some of the packets an average is taken over.
LEMMA SlotsOfFinite ==
  ASSUME NEW n \in Nat \ {0}, NEW D, NEW b \in Buffer(n, D), NEW Q \in SUBSET Sampled(b)
  PROVE  IsFiniteSet(SlotsOf(b, Q)) /\ SlotsOf(b, Q) \subseteq 0 .. (n - 1)
  <1> DEFINE f == [q \in Q |-> Slot(b, q)]
  <1>1. IsFiniteSet(Q)
    BY SampledFinite, FS_Subset
  <1>2. SlotsOf(b, Q) = {f[q] : q \in Q}
    BY DEF SlotsOf
  <1>3. SlotsOf(b, Q) \subseteq 0 .. (n - 1)
    BY SampledFinite DEF SlotsOf
  <1> HIDE DEF f
  <1> QED
    BY <1>1, <1>2, <1>3, ImageFinite

LEMMA WithBandwidthsChanges ==
  ASSUME NEW P, NEW ep \in Endpoints(P), NEW st \in StatisticsTypes
  PROVE  /\ WithBandwidths(st, ep) \in StatisticsTypes
         /\ SameMeasured(st, WithBandwidths(st, ep))
         /\ WithBandwidths(st, ep).packet_loss = st.packet_loss
  <1> DEFINE outgoing == ep.sent_packets
             incoming == ep.received_packets
             acked == {q \in Sampled(outgoing) : Acked(outgoing, q)}
             v1 == Bandwidth(st.sent_bandwidth, st.sent_packets, SlotsOf(outgoing, Sampled(outgoing)))
             v2 == Bandwidth(st.received_bandwidth, st.received_packets,
                             SlotsOf(incoming, Sampled(incoming)))
             v3 == Bandwidth(st.acked_bandwidth, st.sent_packets, SlotsOf(outgoing, acked))
             new == [st EXCEPT !.sent_bandwidth = v1, !.received_bandwidth = v2,
                               !.acked_bandwidth = v3]
  <1>1. WithBandwidths(st, ep) = new
    BY DEF WithBandwidths
  <1>2. /\ outgoing \in Buffer(SentSize, BOOLEAN) /\ SentSize \in Nat \ {0}
        /\ incoming \in Buffer(ReceivedSize, {NULL}) /\ ReceivedSize \in Nat \ {0}
    BY SampledBuffers
  <1>3. /\ st.sent_packets \in [0 .. (SentSize - 1) -> Measurements]
        /\ st.received_packets \in [0 .. (ReceivedSize - 1) -> Measurements]
        /\ st.sent_bandwidth \in Nat /\ st.received_bandwidth \in Nat
        /\ st.acked_bandwidth \in Nat
    BY DEF StatisticsTypes
  <1> HIDE DEF outgoing, incoming
  <1>4. v1 \in Nat
    <2>1. Sampled(outgoing) \in SUBSET Sampled(outgoing)
      OBVIOUS
    <2>2. /\ IsFiniteSet(SlotsOf(outgoing, Sampled(outgoing)))
          /\ SlotsOf(outgoing, Sampled(outgoing)) \subseteq 0 .. (SentSize - 1)
      BY ONLY <1>2, <2>1, SlotsOfFinite, Zenon
    <2> QED
      BY ONLY <1>2, <1>3, <2>2, BandwidthNat, Zenon
  <1>5. v2 \in Nat
    <2>1. Sampled(incoming) \in SUBSET Sampled(incoming)
      OBVIOUS
    <2>2. /\ IsFiniteSet(SlotsOf(incoming, Sampled(incoming)))
          /\ SlotsOf(incoming, Sampled(incoming)) \subseteq 0 .. (ReceivedSize - 1)
      BY ONLY <1>2, <2>1, SlotsOfFinite, Zenon
    <2> QED
      BY ONLY <1>2, <1>3, <2>2, BandwidthNat, Zenon
  <1>6. v3 \in Nat
    <2>1. acked \in SUBSET Sampled(outgoing)
      OBVIOUS
    <2> HIDE DEF acked
    <2>2. /\ IsFiniteSet(SlotsOf(outgoing, acked))
          /\ SlotsOf(outgoing, acked) \subseteq 0 .. (SentSize - 1)
      BY ONLY <1>2, <2>1, SlotsOfFinite, Zenon
    <2> QED
      BY ONLY <1>2, <1>3, <2>2, BandwidthNat, Zenon
  <1> HIDE DEF v1, v2, v3
  <1>7. /\ new \in StatisticsTypes /\ SameMeasured(st, new)
        /\ new.packet_loss = st.packet_loss
    BY <1>4, <1>5, <1>6 DEF StatisticsTypes, SameMeasured
  <1> HIDE DEF new
  <1> QED
    BY <1>1, <1>7

\* What update does to the statistics.
Updated(st, time, ep) ==
  WithBandwidths(WithLoss(WithRtts([st EXCEPT !.time = time]), ep), ep)

LEMMA UpdateChanges ==
  ASSUME NEW P, NEW ep \in Endpoints(P), NEW st \in StatisticsTypes, NEW time \in Nat
  PROVE  /\ Updated(st, time, ep) \in StatisticsTypes
         /\ SameMeasured([st EXCEPT !.time = time], Updated(st, time, ep))
         /\ Updated(st, time, ep).packet_loss > st.packet_loss
              => \E q \in Sampled(ep.sent_packets) : ~Acked(ep.sent_packets, q)
  <1> DEFINE a == [st EXCEPT !.time = time]
             b == WithRtts(a)
             c == WithLoss(b, ep)
             d == WithBandwidths(c, ep)
  <1>1. a \in StatisticsTypes /\ a.packet_loss = st.packet_loss
    BY DEF StatisticsTypes
  <1> HIDE DEF a
  <1>2. b \in StatisticsTypes /\ SameMeasured(a, b) /\ b.packet_loss = a.packet_loss
    BY <1>1, WithRttsChanges
  <1> HIDE DEF b
  <1>3. /\ c \in StatisticsTypes /\ SameMeasured(b, c)
        /\ c.packet_loss > b.packet_loss
             => \E q \in Sampled(ep.sent_packets) : ~Acked(ep.sent_packets, q)
    BY <1>2, WithLossChanges
  <1> HIDE DEF c
  <1>4. /\ d \in StatisticsTypes /\ SameMeasured(c, d)
        /\ d.packet_loss = c.packet_loss
    BY <1>3, WithBandwidthsChanges
  <1>5. Updated(st, time, ep) = d
    BY Zenon DEF Updated, a, b, c
  <1> HIDE DEF d
  <1>6. SameMeasured(a, d)
    BY <1>2, <1>3, <1>4 DEF SameMeasured
  <1> QED
    BY <1>1, <1>2, <1>3, <1>4, <1>5, <1>6 DEF a
-----------------------------------------------------------------------------
(* The round trips measured by one packet.                                 *)

MeasuredUpto(st, acks, g, s) ==
  IF s = {} THEN st ELSE Measured(g[s \ {Ext!Max(s)}], acks[Ext!Max(s)])

MeasuresAll(st, acks, g) ==
  \A s \in SUBSET DOMAIN acks : g[s] = MeasuredUpto(st, acks, g, s)

\* The fold of Measured over the acks of a packet is what its equation says, as
\* in SumEquation.
LEMMA MeasuredEquation ==
  ASSUME NEW st, NEW acks, IsFiniteSet(DOMAIN acks), DOMAIN acks \subseteq Nat
  PROVE  \E g : /\ Ext!FoldLeft(Measured, st, acks) = g[DOMAIN acks]
                /\ MeasuresAll(st, acks, g)
  <1> DEFINE S == DOMAIN acks
             Upto(m) == {s \in SUBSET S : Cardinality(s) <= m}
             Loop(g, m) == g = [s \in Upto(m) |-> MeasuredUpto(st, acks, g, s)]
             Looped == {m \in Nat : \E g : Loop(g, m)}
             N == Cardinality(S)
  <1>1. /\ N \in Nat /\ Upto(N) = SUBSET S
        /\ \A s \in SUBSET S : IsFiniteSet(s) /\ Cardinality(s) \in Nat
    <2>1. \A s \in SUBSET S : IsFiniteSet(s) /\ Cardinality(s) <= N
      BY FS_Subset, Zenon
    <2>2. \A s \in SUBSET S : Cardinality(s) \in Nat
      BY <2>1, FS_CardinalityType
    <2> QED
      BY <2>1, <2>2, FS_CardinalityType
  <1>2. 0 \in Looped
    <2> DEFINE g == [s \in Upto(0) |-> st]
    <2>1. \A s \in Upto(0) : s = {}
      BY <1>1, FS_EmptySet
    <2>2. Loop(g, 0)
      BY <2>1 DEF MeasuredUpto
    <2> QED
      BY <2>2, Zenon
  <1>3. ASSUME NEW m \in Nat, m \in Looped PROVE m + 1 \in Looped
    <2>1. PICK g : Loop(g, m)
      BY <1>3
    <2> DEFINE h == [s \in Upto(m + 1) |-> MeasuredUpto(st, acks, g, s)]
    <2>2. \A s \in Upto(m) : s \in Upto(m + 1) /\ h[s] = g[s]
      BY <1>1, <2>1
    <2>3. ASSUME NEW s \in Upto(m + 1), s # {}, NEW x \in s
          PROVE  h[s \ {x}] = g[s \ {x}]
      <3>1. Cardinality(s \ {x}) = Cardinality(s) - 1
        BY <1>1, <2>3, FS_RemoveElement
      <3>2. s \ {x} \in Upto(m)
        BY <1>1, <3>1
      <3> HIDE DEF h, Upto
      <3> QED
        BY <2>2, <3>2
    <2>4. ASSUME NEW s \in Upto(m + 1)
          PROVE  MeasuredUpto(st, acks, g, s) = MeasuredUpto(st, acks, h, s)
      <3> DEFINE x == Ext!Max(s)
      <3>1. s # {} => x \in s
        <4>1. s \in SUBSET Nat /\ IsFiniteSet(s)
          BY <1>1
        <4>2. x = Sets!Max(s)
          BY DEF Ext!Max, Sets!Max
        <4> QED
          BY <4>1, <4>2, MaxOf
      <3> HIDE DEF h, Upto, x
      <3>2. s # {} => h[s \ {x}] = g[s \ {x}]
        BY <2>3, <3>1
      <3> QED
        BY <3>2, Zenon DEF MeasuredUpto, x
    <2>5. Loop(h, m + 1)
      <3> HIDE DEF Upto
      <3> QED
        BY <2>4
    <2> HIDE DEF h, Loop
    <2> QED
      BY <2>5
  <1>4. N \in Looped
    <2> HIDE DEF Looped, N
    <2> QED
      BY <1>1, <1>2, <1>3, NatSetInduction
  <1> DEFINE Defined(g) == g = [s \in SUBSET S |-> MeasuredUpto(st, acks, g, s)]
             fold == CHOOSE g : Defined(g)
  <1>5. \E g : Defined(g)
    BY <1>1, <1>4
  <1>6. Defined(fold)
    <2> HIDE DEF Defined
    <2> QED
      BY <1>5
  <1>7. Ext!FoldLeft(Measured, st, acks) = fold[S]
    BY DEF Ext!FoldLeft, Ext!MapThenFoldSet, MeasuredUpto
  <1>8. MeasuresAll(st, acks, fold)
    <2> HIDE DEF fold
    <2> QED
      BY <1>6, Zenon DEF MeasuresAll
  <1> QED
    BY <1>7, <1>8, Zenon

\* What holds of a round trip once it is measured, and stays as the others are
\* measured, holds in the end of every one of them; so does what all preserve.
LEMMA MeasuredAll ==
  ASSUME NEW st, NEW acks, IsFiniteSet(DOMAIN acks), DOMAIN acks \subseteq Nat,
         NEW K, st \in K, NEW Done,
         \A x \in K : \A k \in DOMAIN acks :
            /\ Measured(x, acks[k]) \in K
            /\ <<k, Measured(x, acks[k])>> \in Done
            /\ \A l \in DOMAIN acks \ {k} :
                  <<l, x>> \in Done => <<l, Measured(x, acks[k])>> \in Done
  PROVE  /\ Ext!FoldLeft(Measured, st, acks) \in K
         /\ \A k \in DOMAIN acks : <<k, Ext!FoldLeft(Measured, st, acks)>> \in Done
  <1>1. PICK g : /\ Ext!FoldLeft(Measured, st, acks) = g[DOMAIN acks]
                 /\ MeasuresAll(st, acks, g)
    BY MeasuredEquation, Zenon
  <1> DEFINE S == DOMAIN acks
             Right(s) == g[s] \in K /\ \A k \in s : <<k, g[s]>> \in Done
             T == {m \in Nat : \A s \in SUBSET S : Cardinality(s) <= m => Right(s)}
  <1>2. \A s \in SUBSET S : IsFiniteSet(s) /\ Cardinality(s) \in Nat
    <2>1. \A s \in SUBSET S : IsFiniteSet(s)
      BY FS_Subset, Zenon
    <2> QED
      BY <2>1, FS_CardinalityType
  <1>3. Right({})
    BY <1>1 DEF MeasuresAll, MeasuredUpto
  <1>4. 0 \in T
    <2>1. \A s \in SUBSET S : Cardinality(s) <= 0 => s = {}
      BY <1>2, FS_EmptySet
    <2> HIDE DEF Right
    <2> QED
      BY <1>3, <2>1
  <1>5. ASSUME NEW m \in Nat, m \in T PROVE m + 1 \in T
    <2>1. ASSUME NEW s \in SUBSET S, Cardinality(s) <= m + 1, s # {}
          PROVE  Right(s)
      <3> DEFINE x == Ext!Max(s)
                 rest == s \ {x}
      <3>1. x \in s
        <4>1. s \in SUBSET Nat /\ IsFiniteSet(s)
          BY <1>2
        <4>2. x = Sets!Max(s)
          BY DEF Ext!Max, Sets!Max
        <4> QED
          BY <2>1, <4>1, <4>2, MaxOf
      <3>2. g[s] = Measured(g[rest], acks[x])
        BY <1>1, <2>1, Zenon DEF MeasuresAll, MeasuredUpto
      <3> HIDE DEF x
      <3>3. rest \in SUBSET S /\ Cardinality(rest) <= m
        <4>1. IsFiniteSet(s) /\ Cardinality(s) \in Nat
          BY <1>2
        <4>2. Cardinality(rest) = Cardinality(s) - 1
          BY <3>1, <4>1, FS_RemoveElement
        <4> QED
          BY <2>1, <4>1, <4>2
      <3>4. Right(rest)
        <4> HIDE DEF Right
        <4> QED
          BY <1>5, <3>3
      <3>5. g[s] \in K /\ <<x, g[s]>> \in Done
        BY <3>1, <3>2, <3>4
      <3>6. ASSUME NEW k \in rest PROVE <<k, g[s]>> \in Done
        <4>1. k \in DOMAIN acks \ {x} /\ <<k, g[rest]>> \in Done /\ g[rest] \in K /\ x \in DOMAIN acks
          BY <3>1, <3>4, <3>6
        <4> QED
          BY <3>2, <4>1
      <3> QED
        BY <3>5, <3>6
    <2> HIDE DEF Right
    <2> QED
      BY <1>3, <2>1
  <1>6. Cardinality(S) \in T
    <2> HIDE DEF T
    <2> QED
      BY <1>2, <1>4, <1>5, NatSetInduction
  <1>7. Right(S)
    <2> HIDE DEF Right
    <2> QED
      BY <1>2, <1>6
  <1> QED
    BY <1>1, <1>7

\* What every round trip preserves, the round trips of a packet preserve.
LEMMA MeasuredKept ==
  ASSUME NEW st, NEW acks, IsFiniteSet(DOMAIN acks), DOMAIN acks \subseteq Nat,
         NEW K, st \in K, \A x \in K : \A k \in DOMAIN acks : Measured(x, acks[k]) \in K
  PROVE  Ext!FoldLeft(Measured, st, acks) \in K
  <1> DEFINE Done == (DOMAIN acks) \X K
  <1>1. \A x \in K : \A k \in DOMAIN acks :
            /\ Measured(x, acks[k]) \in K
            /\ <<k, Measured(x, acks[k])>> \in Done
            /\ \A l \in DOMAIN acks \ {k} :
                  <<l, x>> \in Done => <<l, Measured(x, acks[k])>> \in Done
    OBVIOUS
  <1> HIDE DEF Done
  <1> QED
    BY <1>1, MeasuredAll

\* Some round trip is no more than rtt, and some no less, unless rtt is 0.
Measures(rtt, trips) ==
  \/ rtt = 0
  \/ \E lo, hi \in trips : lo <= rtt /\ rtt <= hi

\* Smoothing one of the round trips in keeps it so.
LEMMA SmoothedRttMeasures ==
  ASSUME NEW trips \in SUBSET Nat, NEW rtt \in Nat, Measures(rtt, trips), NEW sample \in trips
  PROVE  SmoothedRtt(rtt, sample) \in Nat /\ Measures(SmoothedRtt(rtt, sample), trips)
  <1>1. CASE rtt = 0
    <2>1. SmoothedRtt(rtt, sample) = sample /\ sample <= sample
      BY <1>1 DEF SmoothedRtt
    <2> QED
      BY <2>1 DEF Measures
  <1>2. CASE rtt # 0
    <2>1. PICK lo \in trips, hi \in trips : lo <= rtt /\ rtt <= hi
      BY <1>2 DEF Measures
    <2>2. PICK new : new = Smoothed(rtt, sample, RttSmoothing)
      OBVIOUS
    <2>3. SmoothedRtt(rtt, sample) = new
      BY <1>2, <2>2 DEF SmoothedRtt
    <2>4. RttSmoothing \in Nat \ {0}
      BY StatisticsAssumption
    <2>5. new \in Nat
      BY <2>2, <2>4, SmoothedNat
    <2>6. PICK l \in {lo, sample} : l <= lo /\ l <= sample
      OBVIOUS
    <2>7. PICK h \in {hi, sample} : hi <= h /\ sample <= h
      OBVIOUS
    <2>8. rtt \in l .. h /\ sample \in l .. h /\ l \in Int /\ h \in Int /\ l \in trips /\ h \in trips
      BY <2>1, <2>6, <2>7
    <2>9. new \in l .. h
      BY ONLY <2>2, <2>4, <2>8, SmoothedWithin, Zenon
    <2> QED
      BY <2>3, <2>5, <2>8, <2>9 DEF Measures
  <1> QED
    BY <1>1, <1>2

\* Times of packets sent are not later than now.
NotLater(st) == \A i \in 0 .. (SentSize - 1) : st.sent_packets[i].time <= st.time

\* The statistics a packet may leave behind that measures trips.
Measurable(st, trips) ==
  {x \in StatisticsTypes : /\ x.time = st.time
                           /\ x.sent_packets = st.sent_packets
                           /\ x.packet_loss = st.packet_loss
                           /\ Measures(x.rtt, trips)}

LEMMA RoundTripNat ==
  ASSUME NEW P, endpoint \in Endpoints(P), stats \in StatisticsTypes, NotLater(stats),
         NEW q \in Seqs
  PROVE  RoundTrip(q) \in Nat
  <1> DEFINE i == Slot(endpoint.sent_packets, q)
  <1>1. i \in 0 .. (SentSize - 1)
    <2>1. endpoint.sent_packets \in Buffer(SentSize, BOOLEAN) /\ SentSize \in Nat \ {0} /\ q \in Int
      BY SampledBuffers, CircleNumbers
    <2> QED
      BY <2>1, SlotType
  <1> HIDE DEF i
  <1>2. /\ stats.time \in Nat /\ stats.sent_packets[i].time \in Nat
        /\ stats.sent_packets[i].time <= stats.time
    BY <1>1 DEF StatisticsTypes, Measurements, NotLater
  <1>3. PICK d \in Nat : d = stats.time - stats.sent_packets[i].time
    BY <1>2
  <1>4. Tick \in Nat
    BY StatisticsAssumption
  <1>5. d * Tick \in Nat
    BY <1>4
  <1> QED
    BY <1>3, <1>5 DEF RoundTrip, i

\* What acks may have measured, and the round trips of it.
Samples == [id : Int, sequence : Seqs, trip : Nat]

Trips(measured) == {m.trip : m \in measured}

LEMMA SampleType ==
  ASSUME NEW P, endpoint \in Endpoints(P), stats \in StatisticsTypes, NotLater(stats),
         sent \in Nat, NEW q \in Seqs
  PROVE  Sample(q) \in Samples
  <1>1. RoundTrip(q) \in Nat
    BY RoundTripNat
  <1>2. Distance(endpoint.sent_packets.sequence, q) \in Int
    <2>1. endpoint.sent_packets.sequence \in Seqs
      BY SampledBuffers DEF Buffer
    <2>2. PICK d \in Int : d = endpoint.sent_packets.sequence - q
      BY <2>1, CircleNumbers
    <2>3. d % SeqMod \in Seqs
      BY DivMod, CircleNumbers
    <2> QED
      BY <2>2, <2>3, CircleNumbers DEF Distance, U16
  <1> QED
    BY <1>1, <1>2 DEF Sample, Samples

LEMMA MeasuredStays ==
  ASSUME NEW P, endpoint \in Endpoints(P), stats \in StatisticsTypes, NotLater(stats),
         NEW trips \in SUBSET Nat, NEW q \in Seqs, RoundTrip(q) \in trips,
         NEW x \in Measurable(stats, trips)
  PROVE  Measured(x, q) \in Measurable(stats, trips)
  <1>1. PICK trip \in trips : trip = RoundTrip(q)
    OBVIOUS
  <1>2. PICK rtt : rtt = SmoothedRtt(x.rtt, trip)
    OBVIOUS
  <1>3. x \in StatisticsTypes /\ x.rtt \in Nat /\ Measures(x.rtt, trips)
    BY DEF Measurable, StatisticsTypes
  <1>4. rtt \in Nat /\ Measures(rtt, trips)
    BY <1>2, <1>3, SmoothedRttMeasures
  <1> DEFINE history == [x.rtt_history_buffer EXCEPT ![q % HistorySize] = trip]
             new == [x EXCEPT !.rtt_history_buffer = history, !.rtt = rtt]
  <1>5. Measured(x, q) = new
    BY <1>1, <1>2, <1>3 DEF Measured, StatisticsTypes
  <1>6. history \in Histories
    <2>1. x.rtt_history_buffer \in Histories /\ trip \in Nat
      BY <1>3 DEF StatisticsTypes
    <2> QED
      BY <2>1 DEF Histories
  <1> HIDE DEF history
  <1>7. /\ new \in StatisticsTypes /\ new.time = x.time /\ new.sent_packets = x.sent_packets
        /\ new.packet_loss = x.packet_loss /\ new.rtt = rtt
    BY <1>3, <1>4, <1>6 DEF StatisticsTypes
  <1> HIDE DEF new
  <1> QED
    BY <1>4, <1>5, <1>7 DEF Measurable
-----------------------------------------------------------------------------
(* The invariant.                                                          *)

Payloads == {p.payload : p \in Packets}

\* The round-trip time lies between two samples, and the packets sent are not of
\* the future.
Inv ==
  /\ WellFormed(Payloads, endpoint)
  /\ stats \in StatisticsTypes
  /\ NotLater(stats)
  /\ sent \in Nat
  /\ IsFiniteSet(samples) /\ samples \in SUBSET Samples
  /\ Measures(stats.rtt, Trips(samples))

\* The round trips are finitely many numbers.
LEMMA TripsFinite ==
  ASSUME NEW measured \in SUBSET Samples, IsFiniteSet(measured)
  PROVE  IsFiniteSet(Trips(measured)) /\ Trips(measured) \in SUBSET Nat
  <1> DEFINE f == [m \in measured |-> m.trip]
  <1>1. Trips(measured) = {f[m] : m \in measured}
    BY DEF Trips
  <1>2. Trips(measured) \in SUBSET Nat
    BY DEF Trips, Samples
  <1> HIDE DEF f
  <1> QED
    BY <1>1, <1>2, ImageFinite

LEMMA StatisticsNumbers ==
  /\ HistorySize \in Nat \ {0} /\ HeaderSize \in Nat \ {0} /\ Tick \in Nat \ {0}
  /\ \A p \in Packets : p \in RegularPackets(Payloads)
  /\ SendSizes \subseteq Nat \ {0}
  <1>1. MaxPacketSize \in Nat
    BY ConfigAssumption
  <1> QED
    BY <1>1, StatisticsAssumption DEF Payloads

LEMMA InitInv == Init => Inv
  <1> SUFFICES ASSUME Init PROVE Inv
    OBVIOUS
  <1>1. WellFormed(Payloads, endpoint)
    BY CreatedWellFormed DEF Init
  <1>2. /\ stats.rtt = 0 /\ stats.time = 0
        /\ stats.sent_packets = [i \in 0 .. (SentSize - 1) |-> NoEntry]
    BY DEF Init, NewStatistics
  <1>3. stats \in StatisticsTypes
    <2>1. NoEntry \in Measurements
      BY DEF NoEntry, Measurements
    <2>2. [i \in 0 .. (HistorySize - 1) |-> Unused] \in Histories
      BY DEF Histories
    <2> QED
      BY <2>1, <2>2 DEF Init, NewStatistics, StatisticsTypes
  <1>4. NotLater(stats)
    BY <1>2 DEF NotLater, NoEntry
  <1>5. IsFiniteSet(samples) /\ samples \in SUBSET Samples /\ sent \in Nat
    BY FS_EmptySet DEF Init
  <1> QED
    BY <1>1, <1>2, <1>3, <1>4, <1>5 DEF Inv, Measures

LEMMA EntryMeasures ==
  ASSUME NEW bytes \in Nat, stats \in StatisticsTypes
  PROVE  \E e \in Measurements : e = Entry(bytes) /\ e.time = stats.time
  <1> DEFINE r == [time |-> stats.time, packet_bytes |-> HeaderSize + bytes]
  <1>1. Entry(bytes) = r
    BY Zenon DEF Entry
  <1>2. HeaderSize + bytes \in Nat /\ stats.time \in Nat
    BY StatisticsNumbers DEF StatisticsTypes
  <1>3. r \in Measurements /\ r.time = stats.time
    BY <1>2 DEF Measurements
  <1> HIDE DEF r
  <1> QED
    BY <1>1, <1>3

LEMMA SendInv ==
  ASSUME Half > 1, Inv, NEW bytes \in SendSizes, Send(bytes)
  PROVE  Inv'
  <1>1. WellFormed(Payloads, endpoint')
    <2>1. bytes \in Nat
      BY StatisticsNumbers
    <2> QED
      BY <2>1, SentWellFormed DEF Inv, Send
  <1> DEFINE i == Slot(endpoint.sent_packets, endpoint.sequence)
  <1>2. bytes \in Nat /\ stats \in StatisticsTypes
    BY StatisticsNumbers DEF Inv
  <1>3. stats' = [stats EXCEPT !.sent_packets = [@ EXCEPT ![i] = Entry(bytes)]]
    BY DEF Send
  <1> HIDE DEF i
  <1>4. PICK e \in Measurements : e = Entry(bytes) /\ e.time = stats.time
    BY <1>2, EntryMeasures
  <1>5. stats' = [stats EXCEPT !.sent_packets = [@ EXCEPT ![i] = e]]
    BY <1>3, <1>4
  <1>6. stats \in StatisticsTypes
    BY DEF Inv
  <1>7. /\ stats' \in StatisticsTypes /\ stats'.rtt = stats.rtt
        /\ stats'.time = stats.time
        /\ stats'.sent_packets = [stats.sent_packets EXCEPT ![i] = e]
    BY <1>5, <1>6 DEF StatisticsTypes
  <1>8. NotLater(stats')
    <2>1. stats.sent_packets \in [0 .. (SentSize - 1) -> Measurements] /\ stats.time \in Nat
      BY <1>6 DEF StatisticsTypes
    <2>2. \A j \in 0 .. (SentSize - 1) : stats.sent_packets[j].time <= stats.time
      BY DEF Inv, NotLater
    <2>3. ASSUME NEW j \in 0 .. (SentSize - 1)
          PROVE  stats'.sent_packets[j].time <= stats'.time
      <3>1. stats'.sent_packets[j] = IF j = i THEN e ELSE stats.sent_packets[j]
        BY <1>7, <2>1
      <3> QED
        BY <1>4, <1>7, <2>1, <2>2, <3>1
    <2> QED
      BY <2>3 DEF NotLater
  <1>9. samples' = samples /\ sent' \in Nat
    BY DEF Send, Inv
  <1> QED
    BY <1>1, <1>7, <1>8, <1>9 DEF Inv

\* The acks a packet adds are sequences.
LEMMA AcksAddedType ==
  ASSUME Half > 1, Inv, NEW p \in Packets
  PROVE  /\ IsFiniteSet(DOMAIN AcksAdded(p)) /\ DOMAIN AcksAdded(p) \subseteq Nat
         /\ \A k \in DOMAIN AcksAdded(p) : AcksAdded(p)[k] \in Seqs
         /\ WellFormed(Payloads, Accepted(endpoint, p, 0))
  <1>1. WellFormed(Payloads, Accepted(endpoint, p, 0))
    <2>1. p.sequence \in Seqs /\ p.ack \in Seqs /\ 0 \in Nat
      BY StatisticsNumbers DEF RegularPackets
    <2> QED
      BY <2>1, AcceptedWellFormed DEF Inv
  <1>2. PICK acks \in Seq(Seqs) : acks = Accepted(endpoint, p, 0).acks
    BY <1>1 DEF WellFormed, Endpoints
  <1>3. PICK n \in Nat : n = Len(endpoint.acks)
    <2>1. endpoint.acks \in Seq(Seqs)
      BY DEF Inv, WellFormed, Endpoints
    <2> QED
      BY <2>1
  <1>4. AcksAdded(p) = SubSeq(acks, n + 1, Len(acks))
    BY <1>2, <1>3 DEF AcksAdded
  <1>5. \A k \in (n + 1) .. Len(acks) : acks[k] \in Seqs
    BY <1>2
  <1>6. SubSeq(acks, n + 1, Len(acks)) \in Seq(Seqs)
    BY <1>2, <1>3, <1>5, SubSeqProperties
  <1>7. IsFiniteSet(1 .. Len(AcksAdded(p))) /\ DOMAIN AcksAdded(p) = 1 .. Len(AcksAdded(p))
    <2>1. Len(AcksAdded(p)) \in Nat /\ DOMAIN AcksAdded(p) = 1 .. Len(AcksAdded(p))
      BY <1>4, <1>6
    <2> QED
      BY <2>1, FS_Interval
  <1> QED
    BY <1>1, <1>4, <1>6, <1>7
LEMMA ReceiveInv ==
  ASSUME Half > 1, Inv, NEW p \in Packets, Receive(p)
  PROVE  Inv' /\ stats'.packet_loss = stats.packet_loss
  <1> DEFINE acks == AcksAdded(p)
             i == Slot(endpoint.received_packets, p.sequence)
             base == [stats EXCEPT !.received_packets = [@ EXCEPT ![i] = Entry(p.header + p.bytes)]]
             new == {Sample(acks[k]) : k \in DOMAIN acks}
  <1>1. /\ endpoint' = Accepted(endpoint, p, 0)
        /\ stats' = Ext!FoldLeft(Measured, base, acks)
        /\ samples' = samples \cup new /\ sent' = sent
    BY DEF Receive
  <1>2. /\ IsFiniteSet(DOMAIN acks) /\ DOMAIN acks \subseteq Nat
        /\ \A k \in DOMAIN acks : acks[k] \in Seqs
        /\ WellFormed(Payloads, Accepted(endpoint, p, 0))
    BY AcksAddedType
  <1>3. /\ endpoint \in Endpoints(Payloads) /\ stats \in StatisticsTypes /\ NotLater(stats)
        /\ sent \in Nat /\ IsFiniteSet(samples) /\ samples \in SUBSET Samples
        /\ Measures(stats.rtt, Trips(samples))
    BY DEF Inv, WellFormed
  <1> HIDE DEF acks
  <1>4. \A k \in DOMAIN acks : Sample(acks[k]) \in Samples
    BY <1>2, <1>3, SampleType
  <1>5. IsFiniteSet(samples') /\ samples' \in SUBSET Samples
    <2> DEFINE f == [k \in DOMAIN acks |-> Sample(acks[k])]
    <2>1. new = {f[k] : k \in DOMAIN acks}
      OBVIOUS
    <2>2. IsFiniteSet(new)
      <3> HIDE DEF f, new
      <3> QED
        BY <1>2, <2>1, ImageFinite
    <2>3. new \subseteq Samples
      BY <1>4
    <2> HIDE DEF new
    <2> QED
      BY <1>1, <1>3, <2>2, <2>3, FS_Union
  <1> DEFINE after == Trips(samples')
  <1>6. /\ after \in SUBSET Nat /\ Trips(samples) \subseteq after
        /\ \A k \in DOMAIN acks : RoundTrip(acks[k]) \in after
    <2>1. \A k \in DOMAIN acks : Sample(acks[k]).trip = RoundTrip(acks[k])
      BY DEF Sample
    <2>2. \A k \in DOMAIN acks : Sample(acks[k]) \in samples'
      BY <1>1
    <2>3. after \in SUBSET Nat
      BY <1>5, TripsFinite
    <2> HIDE DEF new
    <2> QED
      BY <1>1, <2>1, <2>2, <2>3 DEF Trips
  <1> HIDE DEF new, after
  <1>7. base \in Measurable(stats, after)
    <2>1. p.header + p.bytes \in Nat
      BY StatisticsNumbers DEF RegularPackets
    <2>2. PICK e \in Measurements : e = Entry(p.header + p.bytes)
      BY <1>3, <2>1, EntryMeasures
    <2>3. base = [stats EXCEPT !.received_packets = [@ EXCEPT ![i] = e]]
      BY <2>2
    <2> HIDE DEF base, i
    <2>4. /\ base \in StatisticsTypes /\ base.rtt = stats.rtt
          /\ base.time = stats.time /\ base.sent_packets = stats.sent_packets
          /\ base.packet_loss = stats.packet_loss
      BY <1>3, <2>3 DEF StatisticsTypes
    <2>5. Measures(base.rtt, after)
      BY <1>3, <1>6, <2>4 DEF Measures
    <2> QED
      BY <1>3, <2>4, <2>5 DEF Measurable
  <1> HIDE DEF base
  <1>8. stats' \in Measurable(stats, after)
    <2> DEFINE K == Measurable(stats, after)
    <2>1. ASSUME NEW x \in K, NEW k \in DOMAIN acks
          PROVE  Measured(x, acks[k]) \in K
      <3>1. acks[k] \in Seqs /\ RoundTrip(acks[k]) \in after
        BY <1>2, <1>6
      <3> QED
        BY <1>3, <1>6, <3>1, MeasuredStays
    <2> HIDE DEF K
    <2>2. Ext!FoldLeft(Measured, base, acks) \in K
      BY <1>2, <1>7, <2>1, MeasuredKept DEF K
    <2> QED
      BY <1>1, <2>2 DEF K
  <1>9. /\ stats' \in StatisticsTypes /\ stats'.time = stats.time
        /\ stats'.sent_packets = stats.sent_packets
        /\ Measures(stats'.rtt, after) /\ stats'.packet_loss = stats.packet_loss
    BY <1>8 DEF Measurable
  <1>10. NotLater(stats')
    BY <1>3, <1>9 DEF NotLater
  <1> QED
    BY <1>1, <1>2, <1>3, <1>5, <1>9, <1>10 DEF Inv, after
LEMMA UpdateInv ==
  ASSUME Inv, NEW time \in 0 .. MaxTime, Update(time)
  PROVE  /\ Inv'
         /\ stats'.packet_loss > stats.packet_loss
              => \E q \in Sampled(endpoint.sent_packets) : ~Acked(endpoint.sent_packets, q)
  <1>1. endpoint \in Endpoints(Payloads) /\ stats \in StatisticsTypes /\ time \in Nat
    BY StatisticsAssumption DEF Inv, WellFormed
  <1>2. stats' = Updated(stats, time, endpoint)
    BY DEF Update, Updated
  <1> DEFINE moved == [stats EXCEPT !.time = time]
  <1>3. /\ stats' \in StatisticsTypes /\ SameMeasured(moved, stats')
        /\ stats'.packet_loss > stats.packet_loss
             => \E q \in Sampled(endpoint.sent_packets) : ~Acked(endpoint.sent_packets, q)
    BY <1>1, <1>2, UpdateChanges
  <1>4. /\ moved.time = time /\ moved.rtt = stats.rtt
        /\ moved.sent_packets = stats.sent_packets
    BY <1>1 DEF StatisticsTypes
  <1> HIDE DEF moved
  <1>5. stats'.time = time /\ stats'.rtt = stats.rtt /\ stats'.sent_packets = stats.sent_packets
    BY <1>3, <1>4 DEF SameMeasured
  <1>6. NotLater(stats')
    <2>1. ASSUME NEW i \in 0 .. (SentSize - 1) PROVE stats.sent_packets[i].time <= time
      <3>1. stats.sent_packets[i].time \in Nat /\ stats.time \in Nat
        BY <1>1 DEF StatisticsTypes, Measurements
      <3>2. stats.sent_packets[i].time <= stats.time /\ stats.time <= time
        BY DEF Inv, NotLater, Update
      <3> QED
        BY <1>1, <3>1, <3>2
    <2> QED
      BY <1>5, <2>1 DEF NotLater
  <1>7. endpoint' = endpoint /\ samples' = samples /\ sent' = sent
    BY DEF Update
  <1> QED
    BY <1>3, <1>5, <1>6, <1>7 DEF Inv

\* The invariant is inductive, and the loss changes only in update.
LEMMA NextInv ==
  ASSUME Half > 1, Inv, [Next]_vars
  PROVE  /\ Inv'
         /\ stats'.packet_loss > stats.packet_loss
              => \E q \in Sampled(endpoint.sent_packets) : ~Acked(endpoint.sent_packets, q)
  <1>1. stats \in StatisticsTypes /\ stats.packet_loss \in Nat
    BY DEF Inv, StatisticsTypes
  <1>2. ASSUME NEW bytes \in SendSizes, Send(bytes)
        PROVE  Inv' /\ stats'.packet_loss = stats.packet_loss
    <2>1. stats'.packet_loss = stats.packet_loss
      BY <1>1, <1>2 DEF Send, StatisticsTypes
    <2> QED
      BY <1>2, <2>1, SendInv
  <1>3. ASSUME NEW p \in Packets, Receive(p)
        PROVE  Inv' /\ stats'.packet_loss = stats.packet_loss
    BY <1>3, ReceiveInv
  <1>4. CASE \E time \in 0 .. MaxTime : Update(time)
    BY <1>4, UpdateInv
  <1>5. ASSUME stats' = stats, sent' = sent, samples' = samples, WellFormed(Payloads, endpoint')
        PROVE  Inv' /\ stats'.packet_loss = stats.packet_loss
    BY <1>5 DEF Inv
  <1>6. CASE ClearAcks
    <2>1. WellFormed(Payloads, endpoint')
      BY <1>6, ClearedWellFormed DEF ClearAcks, Inv
    <2> QED
      BY <1>1, <1>5, <1>6, <2>1 DEF ClearAcks
  <1>7. CASE Reset
    <2>1. WellFormed(Payloads, endpoint')
      BY <1>7, ResetWellFormed DEF Reset, Inv
    <2> QED
      BY <1>1, <1>5, <1>7, <2>1 DEF Reset
  <1>8. CASE UNCHANGED vars
    <2>1. WellFormed(Payloads, endpoint')
      BY <1>8 DEF vars, Inv
    <2> QED
      BY <1>1, <1>5, <1>8, <2>1 DEF vars
  <1> QED
    BY <1>1, <1>2, <1>3, <1>4, <1>6, <1>7, <1>8 DEF Next

\* The statistics keep their types and the round-trip time its bounds, for every
\* configuration: the inductive invariant of the module.
THEOREM InvHolds ==
  ASSUME Half > 1
  PROVE  Spec => []Inv
  <1>1. Inv /\ [Next]_vars => Inv'
    BY NextInv
  <1> QED
    BY <1>1, InitInv, PTL DEF Spec

-----------------------------------------------------------------------------
\* The smoothed round-trip time of receive_packet stays between the smallest and
\* the largest round trip measured, for every smoothing factor.
THEOREM RttWithinSamplesHolds ==
  ASSUME Half > 1
  PROVE  Spec => []RttWithinSamples
  <1> DEFINE trips == Trips(samples)
  <1>1. Inv => RttWithinSamples
    <2> SUFFICES ASSUME Inv, stats.rtt # 0
                 PROVE  stats.rtt \in Sets!Min(trips) .. Sets!Max(trips)
      BY DEF RttWithinSamples, Trips
    <2>1. PICK lo \in trips, hi \in trips : lo <= stats.rtt /\ stats.rtt <= hi
      BY DEF Inv, Measures
    <2>2. trips \in SUBSET Nat /\ IsFiniteSet(trips) /\ trips # {} /\ stats.rtt \in Nat
      BY <2>1, TripsFinite DEF Inv, StatisticsTypes
    <2> HIDE DEF trips
    <2>3. PICK min \in trips, max \in trips :
            /\ min = Sets!Min(trips) /\ max = Sets!Max(trips)
            /\ \A y \in trips : min <= y /\ y <= max
      BY <2>2, MinOf, MaxOf
    <2>4. stats.rtt \in min .. max
      BY <2>1, <2>2, <2>3
    <2> QED
      BY <2>3, <2>4
  <1> QED
    BY <1>1, InvHolds, PTL

\* No quotient of update or of the smoothing is ever not a number.
THEOREM NumbersHold ==
  ASSUME Half > 1
  PROVE  Spec => []Numbers
  <1>1. Inv => Numbers
    BY DEF Inv, StatisticsTypes, Numbers
  <1> QED
    BY <1>1, InvHolds, PTL

\* The packets the loss is computed from are in the older half of the window.
LEMMA SampledOld ==
  ASSUME NEW n \in Nat \ {0}, n < SeqMod, NEW D, NEW b \in Buffer(n, D), NEW q \in Sampled(b)
  PROVE  q \in Present(b) /\ 2 * Distance(b.sequence, q) > b.num_entries
  <1>1. PICK s \in Seqs : s = b.sequence /\ b.num_entries = n
    BY DEF Buffer
  <1>2. PICK base : base = U16(s - n)
    OBVIOUS
  <1>3. PICK i \in 0 .. (n \div 2 - 1) : q = U16(base + i) /\ Exists(b, q)
    BY <1>1, <1>2 DEF Sampled
  <1>4. q \in Seqs /\ Slot(b, q) \in 0 .. (n - 1)
    BY SampledFinite
  <1>5. q \in Present(b)
    <2>1. b.entry_sequence[Slot(b, q)] = q /\ q # Empty
      BY <1>3, <1>4, CircleNumbers DEF Exists, Empty
    <2> QED
      BY <1>1, <1>4, <2>1 DEF Present, Occupied, Slots
  <1>6. PICK M \in Nat \ {0} : M = SeqMod
    BY CircleNumbers
  <1>7. PICK h \in Int : h = n \div 2 /\ 2 * h <= n
    <2>1. 2 \in Nat \ {0} /\ n \in Int
      OBVIOUS
    <2>2. n = 2 * (n \div 2) + (n % 2) /\ n % 2 \in 0 .. (2 - 1) /\ n \div 2 \in Int
      BY ONLY <2>1, DivMod, Zenon
    <2> QED
      BY <2>2
  <1>8. i \in Nat /\ 2 * i + 2 <= n
    BY <1>3, <1>7
  <1>9. PICK d \in Int : s - n = M * d + base /\ base \in Int
    <2>1. s - n \in Int /\ M \in Nat \ {0}
      BY <1>6, CircleNumbers
    <2>2. /\ s - n = M * ((s - n) \div M) + ((s - n) % M)
          /\ (s - n) % M \in 0 .. (M - 1) /\ (s - n) \div M \in Int
      BY ONLY <2>1, DivMod, Zenon
    <2>3. base = (s - n) % M
      BY <1>2, <1>6, Zenon DEF U16
    <2>4. base \in Int
      BY <2>2, <2>3
    <2> QED
      BY <2>2, <2>3, <2>4, Zenon
  <1>10. PICK e \in Int : base + i = M * e + q
    <2>1. base + i \in Int /\ M \in Nat \ {0}
      BY <1>6, <1>8, <1>9
    <2>2. /\ base + i = M * ((base + i) \div M) + ((base + i) % M)
          /\ (base + i) \div M \in Int
      BY ONLY <2>1, DivMod, Zenon
    <2>3. q = (base + i) % M
      BY <1>3, <1>6, Zenon DEF U16
    <2> QED
      BY <2>2, <2>3, Zenon
  <1>11. (s - q) % M = (n - i) % M
    <2>1. s - q = (n - i) + M * (d + e)
      <3>1. M * (d + e) = M * d + M * e /\ M * d \in Int /\ M * e \in Int
        BY Distributes
      <3>2. q \in Int /\ s \in Int
        BY <1>4, CircleNumbers
      <3> QED
        BY <1>8, <1>9, <1>10, <3>1, <3>2
    <2>2. s - q \in Int /\ n - i \in Int /\ d + e \in Int
      BY <1>4, <1>8, CircleNumbers
    <2> QED
      BY <2>1, <2>2, ModShift
  <1>12. (n - i) % M = n - i
    <2>1. n - i \in 0 .. (M - 1) /\ n - i = M * 0 + (n - i)
      BY <1>6, <1>8
    <2> QED
      BY <2>1, ModUnique
  <1>13. Distance(b.sequence, q) = n - i
    BY <1>1, <1>6, <1>11, <1>12 DEF Distance, U16
  <1> QED
    BY <1>1, <1>5, <1>8, <1>13

\* update lets the loss go up only for packets of the older half of the window
\* that are not acked, for every window smaller than the circle.
THEOREM LossOnlyOfOldPacketsHolds ==
  ASSUME Half > 1, SentSize < SeqMod
  PROVE  Spec => LossOnlyOfOldPackets
  <1>1. ASSUME Inv, [Next]_vars, stats'.packet_loss > stats.packet_loss
        PROVE  \E q \in Present(endpoint.sent_packets) :
                 /\ ~Acked(endpoint.sent_packets, q)
                 /\ 2 * Distance(endpoint.sent_packets.sequence, q)
                      > endpoint.sent_packets.num_entries
    <2>1. PICK q \in Sampled(endpoint.sent_packets) : ~Acked(endpoint.sent_packets, q)
      BY <1>1, NextInv
    <2>2. endpoint.sent_packets \in Buffer(SentSize, BOOLEAN) /\ SentSize \in Nat \ {0}
      BY <1>1, SampledBuffers DEF Inv, WellFormed
    <2>3. /\ q \in Present(endpoint.sent_packets)
          /\ 2 * Distance(endpoint.sent_packets.sequence, q) > endpoint.sent_packets.num_entries
      BY <2>2, SampledOld
    <2> QED
      BY <2>1, <2>3
  <1>2. Inv /\ [Next]_vars =>
          [LET b == endpoint.sent_packets
           IN  stats'.packet_loss > stats.packet_loss =>
                 \E q \in Present(b) : ~Acked(b, q) /\ 2 * Distance(b.sequence, q) > b.num_entries
          ]_vars
    BY <1>1
  <1> QED
    BY <1>2, InvHolds, PTL DEF Spec, LossOnlyOfOldPackets
-----------------------------------------------------------------------------
(* The newest round trip of every slot.                                    *)

\* What reading the acks of a packet does: each ack it adds is of a packet that
\* was remembered and not acked before, and no packet is added twice.
AcksRead(ep, new) ==
  /\ new.sent_packets.sequence = ep.sent_packets.sequence
  /\ new.sent_packets.entry_sequence = ep.sent_packets.entry_sequence
  /\ \A q \in Seqs : Acked(ep.sent_packets, q) => Acked(new.sent_packets, q)
  /\ \A k \in AddedPlaces(ep, new) :
        /\ Exists(ep.sent_packets, new.acks[k])
        /\ ~Acked(ep.sent_packets, new.acks[k])
        /\ Acked(new.sent_packets, new.acks[k])
  /\ \A k, l \in AddedPlaces(ep, new) : new.acks[k] = new.acks[l] => k = l

LEMMA AcceptedReads ==
  ASSUME NEW P, NEW ep \in Endpoints(P), NEW p, p.sequence \in Seqs, p.ack \in Seqs
  PROVE  AcksRead(ep, Accepted(ep, p, 0))
  <1> DEFINE called == AfterCallback(ep, 0)
             remembered == Recorded(called, p.sequence)
             new == WithAcks(remembered, p)
  <1>1. Accepted(ep, p, 0) = new
    BY Zenon DEF Accepted, Recorded
  <1>2. called \in Endpoints(P) /\ SameButCounters(ep, called)
    BY CallbackChanges
  <1> HIDE DEF called
  <1>3. /\ remembered \in Endpoints(P) /\ remembered.acks = ep.acks
        /\ remembered.sent_packets = ep.sent_packets
    BY <1>2, RecordedChanges DEF SameButCounters
  <1> HIDE DEF remembered
  <1>4. /\ new \in Endpoints(P) /\ OnlyAcked(remembered, new)
        /\ ReportedOnce(remembered, new)
    BY <1>3, WithAcksChanges, WithAcksReports
  <1> HIDE DEF new
  <1>5. AddedPlaces(ep, new) = AddedPlaces(remembered, new)
    BY <1>3 DEF AddedPlaces
  <1>6. ASSUME NEW q \in Seqs, Acked(ep.sent_packets, q) PROVE Acked(new.sent_packets, q)
    <2>1. /\ ep.sent_packets \in Buffer(SentSize, BOOLEAN) /\ new.sent_packets \in Buffer(SentSize, BOOLEAN)
          /\ SentSize \in Nat \ {0} /\ q \in Int
      BY <1>4, SampledBuffers, CircleNumbers
    <2>2. /\ Slot(ep.sent_packets, q) \in Slots(ep.sent_packets)
          /\ Slot(new.sent_packets, q) = Slot(ep.sent_packets, q)
      <3>1. Slot(ep.sent_packets, q) \in Slots(ep.sent_packets)
        BY <2>1, SlotType
      <3> QED
        BY <2>1, <3>1 DEF Slot, Buffer
    <2> QED
      BY <1>3, <1>4, <1>6, <2>2 DEF Acked, ReportedOnce
  <1>7. AcksRead(ep, new)
    BY <1>3, <1>4, <1>5, <1>6 DEF AcksRead, ReportedOnce, OnlyAcked
  <1> QED
    BY <1>1, <1>7

\* One round trip takes its slot of the history.
LEMMA MeasuredHistory ==
  ASSUME NEW x \in StatisticsTypes, NEW q \in Seqs, RoundTrip(q) \in Nat
  PROVE  /\ Measured(x, q) \in StatisticsTypes
         /\ q % HistorySize \in 0 .. (HistorySize - 1)
         /\ \A i \in 0 .. (HistorySize - 1) :
              Measured(x, q).rtt_history_buffer[i] =
                IF i = q % HistorySize THEN RoundTrip(q) ELSE x.rtt_history_buffer[i]
  <1>1. PICK trip \in Nat : trip = RoundTrip(q)
    OBVIOUS
  <1>2. x.rtt \in Nat /\ x.rtt_history_buffer \in Histories
    BY DEF StatisticsTypes
  <1>3. PICK rtt \in Nat : rtt = SmoothedRtt(x.rtt, trip)
    <2>1. RttSmoothing \in Nat \ {0}
      BY StatisticsAssumption
    <2>2. Smoothed(x.rtt, trip, RttSmoothing) \in Nat
      BY <1>2, <2>1, SmoothedNat
    <2> QED
      BY <2>2 DEF SmoothedRtt
  <1>4. PICK i : i = q % HistorySize
    OBVIOUS
  <1>5. i \in 0 .. (HistorySize - 1)
    <2>1. q \in Int /\ HistorySize \in Nat \ {0}
      BY CircleNumbers, StatisticsNumbers
    <2> QED
      BY <1>4, <2>1, DivMod
  <1> DEFINE history == [x.rtt_history_buffer EXCEPT ![i] = trip]
             new == [x EXCEPT !.rtt_history_buffer = history, !.rtt = rtt]
  <1>6. Measured(x, q) = new
    BY <1>1, <1>3, <1>4 DEF Measured, StatisticsTypes
  <1>7. /\ history \in Histories
        /\ \A j \in 0 .. (HistorySize - 1) :
              history[j] = IF j = i THEN trip ELSE x.rtt_history_buffer[j]
    BY <1>2 DEF Histories
  <1> HIDE DEF history
  <1>8. new \in StatisticsTypes /\ new.rtt_history_buffer = history
    BY <1>7 DEF StatisticsTypes
  <1> HIDE DEF new
  <1> QED
    BY <1>1, <1>4, <1>5, <1>6, <1>7, <1>8

\* What the round trips of acks make of a history: one slot for each of them.
HistoryTaken(history, acks, new) ==
  \A i \in 0 .. (HistorySize - 1) :
     /\ \A k \in DOMAIN acks : acks[k] % HistorySize = i => new[i] = RoundTrip(acks[k])
     /\ (\A k \in DOMAIN acks : acks[k] % HistorySize # i) => new[i] = history[i]

LEMMA HistoryMeasured ==
  ASSUME NEW acks, IsFiniteSet(DOMAIN acks), DOMAIN acks \subseteq Nat,
         \A k \in DOMAIN acks : acks[k] \in Seqs /\ RoundTrip(acks[k]) \in Nat,
         \A k, l \in DOMAIN acks : acks[k] % HistorySize = acks[l] % HistorySize => k = l,
         NEW base \in StatisticsTypes
  PROVE  HistoryTaken(base.rtt_history_buffer, acks,
                      Ext!FoldLeft(Measured, base, acks).rtt_history_buffer)
  <1> DEFINE Same(x) == \A i \in 0 .. (HistorySize - 1) :
                          (\A k \in DOMAIN acks : acks[k] % HistorySize # i)
                             => x.rtt_history_buffer[i] = base.rtt_history_buffer[i]
             Taken(k, x) == x.rtt_history_buffer[acks[k] % HistorySize] = RoundTrip(acks[k])
             K == {x \in StatisticsTypes : Same(x)}
             Done == {w \in (DOMAIN acks) \X K : Taken(w[1], w[2])}
             new == Ext!FoldLeft(Measured, base, acks)
  <1>1. ASSUME NEW x \in K, NEW k \in DOMAIN acks
        PROVE  /\ Measured(x, acks[k]) \in K
               /\ Taken(k, Measured(x, acks[k]))
               /\ \A l \in DOMAIN acks \ {k} :
                     Taken(l, x) => Taken(l, Measured(x, acks[k]))
    <2>1. PICK y : y = Measured(x, acks[k])
      OBVIOUS
    <2>2. /\ y \in StatisticsTypes
          /\ acks[k] % HistorySize \in 0 .. (HistorySize - 1)
          /\ \A i \in 0 .. (HistorySize - 1) :
               y.rtt_history_buffer[i] = IF i = acks[k] % HistorySize
                                           THEN RoundTrip(acks[k]) ELSE x.rtt_history_buffer[i]
      BY <2>1, MeasuredHistory
    <2>3. Same(y)
      BY <2>2
    <2>4. Taken(k, y)
      BY <2>2
    <2>5. ASSUME NEW l \in DOMAIN acks \ {k}, Taken(l, x) PROVE Taken(l, y)
      <3>1. acks[l] % HistorySize # acks[k] % HistorySize
        OBVIOUS
      <3>2. acks[l] % HistorySize \in 0 .. (HistorySize - 1)
        <4>1. acks[l] \in Int /\ HistorySize \in Nat \ {0}
          BY CircleNumbers, StatisticsNumbers
        <4> QED
          BY <4>1, DivMod
      <3> QED
        BY <2>2, <2>5, <3>1, <3>2
    <2> QED
      BY <2>1, <2>2, <2>3, <2>4, <2>5
  <1>2. base \in K
    OBVIOUS
  <1> HIDE DEF Same, Taken
  <1>3. new \in K /\ \A k \in DOMAIN acks : <<k, new>> \in Done
    <2>1. \A x \in K : \A k \in DOMAIN acks :
            /\ Measured(x, acks[k]) \in K
            /\ <<k, Measured(x, acks[k])>> \in Done
            /\ \A l \in DOMAIN acks \ {k} :
                  <<l, x>> \in Done => <<l, Measured(x, acks[k])>> \in Done
      BY <1>1
    <2> HIDE DEF K, Done
    <2> QED
      BY <1>2, <2>1, MeasuredAll
  <1>4. Same(new) /\ \A k \in DOMAIN acks : Taken(k, new)
    <2> HIDE DEF new
    <2> QED
      BY <1>3
  <1> HIDE DEF new, K, Done
  <1>5. HistoryTaken(base.rtt_history_buffer, acks, new.rtt_history_buffer)
    BY <1>4 DEF HistoryTaken, Same, Taken
  <1> QED
    BY <1>5 DEF new

\* The windows the theorem is about: a history no smaller than the window of the
\* packets sent, both of which wrap with the sequence.
HistoryFits == FitsCircle(SentSize) /\ FitsCircle(HistorySize) /\ SentSize <= HistorySize

\* Whatever was measured since a packet in the window b was sent, n packets into
\* the run, was measured of a sequence of the same lap; and if it was measured of
\* the packet itself, then that is acked.
Remembers(b, n, measured) ==
  \A m \in measured :
     /\ m.id < n
     /\ \A q \in Present(b) :
          n - Distance(b.sequence, q) <= m.id =>
            /\ Distance(b.sequence, m.sequence) = n - m.id
            /\ m.sequence = q => Acked(b, q)

\* A packet sent moves the window by one.
LEMMA SentRemembers ==
  ASSUME HistoryFits, NEW P, NEW ep, WellFormed(P, ep), Windowed(ep.sent_packets),
         NEW bytes \in Nat, NEW n \in Nat, NEW measured \in SUBSET Samples,
         Remembers(ep.sent_packets, n, measured)
  PROVE  /\ Windowed(Sent(ep, bytes).sent_packets)
         /\ Remembers(Sent(ep, bytes).sent_packets, n + 1, measured)
  <1> DEFINE b == ep.sent_packets
             c == Sent(ep, bytes).sent_packets
  <1>1. Half > 1 /\ FitsCircle(SentSize) /\ SentSize < Half /\ Half \in Nat /\ SeqMod = 2 * Half
    BY CircleNumbers, ConfigNumbers DEF HistoryFits, FitsCircle
  <1>2. PICK s \in Seqs : s = b.sequence /\ s = ep.sequence
    BY DEF WellFormed, Endpoints
  <1>3. /\ SentOnly(ep, Sent(ep, bytes)) /\ Windowed(c)
        /\ Present(c) \subseteq Present(b) \cup {s}
    BY <1>1, <1>2, SendSentOnly, SentOne DEF OneSent
  <1>4. b \in Buffer(SentSize, BOOLEAN) /\ SentSize \in Nat \ {0}
    BY SampledBuffers DEF WellFormed
  <1>5. c.sequence = U16(s + 1)
    <2>1. WellFormed(P, Sent(ep, bytes))
      BY <1>1, SentWellFormed
    <2>2. Sent(ep, bytes).sequence = U16(ep.sequence + 1)
      BY SentChanges DEF WellFormed
    <2> QED
      BY <1>2, <2>1, <2>2 DEF WellFormed
  <1> HIDE DEF b, c
  <1>6. s \in Nat /\ s < SeqMod /\ SeqMod \in Nat /\ s + 1 \in 0 .. SeqMod
    BY CircleNumbers
  <1>7. Distance(s + 1, s) = 1
    <2>1. \/ s + 1 >= s /\ s + 1 - s < SeqMod /\ Distance(s + 1, s) = s + 1 - s
          \/ s + 1 < s /\ Distance(s + 1, s) = s + 1 - s + SeqMod
          \/ s + 1 = SeqMod /\ s = 0 /\ Distance(s + 1, s) = 0
      BY <1>6, DistanceValue
    <2> QED
      BY <1>1, <1>6, <2>1
  <1>8. ASSUME NEW q \in Seqs, NEW d \in Int, d = Distance(s, q), d <= SentSize
        PROVE  Distance(c.sequence, q) = d + 1
    <2>1. Distance(s, q) + Distance(s + 1, s) < SeqMod
      BY <1>1, <1>4, <1>7, <1>8
    <2>2. Distance(s + 1, q) = Distance(s, q) + Distance(s + 1, s)
      BY <1>6, <2>1, DistanceAdds
    <2>3. Distance(U16(s + 1), q) = Distance(s + 1, q)
      BY SuccessorDistance
    <2> QED
      BY <1>5, <1>7, <1>8, <2>2, <2>3
  <1>9. ASSUME NEW m \in measured, NEW q \in Present(c),
               (n + 1) - Distance(c.sequence, q) <= m.id
        PROVE  /\ Distance(c.sequence, m.sequence) = (n + 1) - m.id
               /\ m.sequence = q => Acked(c, q)
    <2>1. m.id \in Int /\ m.sequence \in Seqs
      BY DEF Samples
    <2>2. m.id < n
      BY DEF Remembers, b
    <2>3. q # s
      <3>1. Distance(c.sequence, s) = 1
        BY <1>5, <1>7, SuccessorDistance
      <3> QED
        BY <1>9, <2>1, <2>2, <3>1
    <2>4. q \in Present(b)
      BY <1>3, <2>3
    <2>5. q \in Seqs /\ Distance(b.sequence, q) \in 1 .. SentSize
      BY <1>4, <2>4, PresentWindow DEF b
    <2>6. PICK d \in 1 .. SentSize : d = Distance(s, q)
      BY <1>2, <2>5
    <2>7. Distance(c.sequence, q) = d + 1
      BY <1>4, <1>8, <2>5, <2>6
    <2>8. n - d <= m.id
      BY <1>4, <1>9, <2>1, <2>6, <2>7
    <2>9. Distance(s, m.sequence) = n - m.id /\ (m.sequence = q => Acked(b, q))
      BY <1>2, <2>4, <2>6, <2>8 DEF Remembers, b
    <2>10. n - m.id \in Int /\ n - m.id <= SentSize
      BY <1>4, <2>1, <2>6, <2>8
    <2>11. Distance(c.sequence, m.sequence) = n - m.id + 1
      BY <1>8, <2>1, <2>9, <2>10
    <2>12. m.sequence = q => Acked(c, q)
      BY <1>3, <2>4, <2>9 DEF SentOnly, b, c
    <2> QED
      BY <2>1, <2>11, <2>12
  <1>10. \A m \in measured : m.id < n + 1
    <2>1. \A m \in measured : m.id \in Int /\ m.id < n
      BY DEF Samples, Remembers
    <2> QED
      BY <2>1
  <1>11. Remembers(c, n + 1, measured)
    BY <1>9, <1>10, Zenon DEF Remembers
  <1> QED
    BY <1>3, <1>11 DEF c

\* What the acks of a packet are: packets of the window b that are acked in c,
\* the same window, and not yet in b.
NewlyAcked(b, c, acks) ==
  /\ Windowed(c) /\ c.sequence = b.sequence /\ Present(c) = Present(b)
  /\ \A q \in Seqs : Acked(b, q) => Acked(c, q)
  /\ \A k \in DOMAIN acks : /\ acks[k] \in Present(b)
                            /\ ~Acked(b, acks[k])
                            /\ Acked(c, acks[k])
  /\ \A k, l \in DOMAIN acks : acks[k] = acks[l] => k = l

LEMMA AcksAddedNew ==
  ASSUME Half > 1, Inv, Windowed(endpoint.sent_packets), NEW p \in Packets
  PROVE  NewlyAcked(endpoint.sent_packets, Accepted(endpoint, p, 0).sent_packets, AcksAdded(p))
  <1> DEFINE b == endpoint.sent_packets
             c == Accepted(endpoint, p, 0).sent_packets
             n == Len(endpoint.acks)
             acks == Accepted(endpoint, p, 0).acks
             added == AcksAdded(p)
  <1>1. /\ endpoint \in Endpoints(Payloads)
        /\ Accepted(endpoint, p, 0) \in Endpoints(Payloads)
        /\ p.sequence \in Seqs /\ p.ack \in Seqs
    <2>1. WellFormed(Payloads, Accepted(endpoint, p, 0))
      BY AcksAddedType
    <2> QED
      BY <2>1, StatisticsNumbers DEF Inv, WellFormed, RegularPackets
  <1>2. AcksRead(endpoint, Accepted(endpoint, p, 0))
    BY <1>1, AcceptedReads
  <1>3. /\ b \in Buffer(SentSize, BOOLEAN) /\ c \in Buffer(SentSize, BOOLEAN)
        /\ SentSize \in Nat \ {0}
    BY <1>1, SampledBuffers
  <1>4. Windowed(c) /\ Present(c) = Present(b)
    BY <1>2, <1>3, SameWindow DEF AcksRead
  <1>5. acks \in Seq(Seqs) /\ n \in Nat
    BY <1>1 DEF Endpoints
  <1>6. added = SubSeq(acks, n + 1, Len(acks))
    BY DEF AcksAdded
  <1> HIDE DEF added, acks, n
  <1>7. /\ added \in Seq(Seqs)
        /\ Len(added) = IF n + 1 <= Len(acks) THEN Len(acks) - n ELSE 0
        /\ \A k \in 1 .. (Len(acks) - n) : added[k] = acks[n + k]
    <2>1. PICK m \in Nat : m = Len(acks)
      BY <1>5
    <2>2. n + 1 \in Int /\ m \in Int /\ \A k \in (n + 1) .. m : acks[k] \in Seqs
      BY <1>5, <2>1
    <2>3. /\ SubSeq(acks, n + 1, m) \in Seq(Seqs)
          /\ Len(SubSeq(acks, n + 1, m)) = IF n + 1 <= m THEN m - (n + 1) + 1 ELSE 0
          /\ \A k \in 1 .. (m - (n + 1) + 1) : SubSeq(acks, n + 1, m)[k] = acks[(n + 1) + k - 1]
      BY <2>2, SubSeqProperties
    <2>4. ASSUME NEW k \in 1 .. (m - n) PROVE added[k] = acks[n + k]
      <3>1. k \in 1 .. (m - (n + 1) + 1) /\ n + k = (n + 1) + k - 1
        BY <1>5, <2>1
      <3> QED
        BY <1>6, <2>1, <2>3, <3>1, Zenon
    <2>5. added \in Seq(Seqs) /\ Len(added) = IF n + 1 <= m THEN m - (n + 1) + 1 ELSE 0
      BY <1>6, <2>1, <2>3, Zenon
    <2>6. Len(added) = IF n + 1 <= m THEN m - n ELSE 0
      BY <1>5, <2>1, <2>5
    <2> QED
      BY <2>1, <2>4, <2>5, <2>6, Zenon
  <1>8. ASSUME NEW k \in DOMAIN added
        PROVE  /\ k \in Nat /\ n + k \in AddedPlaces(endpoint, Accepted(endpoint, p, 0))
               /\ added[k] = acks[n + k] /\ added[k] \in Seqs
    <2>1. PICK m \in Nat : m = Len(acks)
      BY <1>5
    <2>2. k \in 1 .. (m - n)
      <3>1. k \in 1 .. Len(added)
        BY <1>7
      <3> QED
        BY <1>5, <1>7, <2>1, <3>1
    <2>3. added[k] \in Seqs /\ added[k] = acks[n + k]
      BY <1>7, <2>1, <2>2
    <2>4. k \in Nat /\ n + k \in (n + 1) .. m
      BY <1>5, <2>1, <2>2
    <2> QED
      BY <2>1, <2>3, <2>4 DEF AddedPlaces, acks, n
  <1>9. ASSUME NEW k \in DOMAIN added
        PROVE  added[k] \in Present(b) /\ ~Acked(b, added[k]) /\ Acked(c, added[k])
    <2>1. Exists(b, added[k]) /\ ~Acked(b, added[k]) /\ Acked(c, added[k])
      BY <1>2, <1>8 DEF AcksRead, acks
    <2> QED
      BY <1>3, <1>8, <2>1, PresentIff
  <1>10. ASSUME NEW k \in DOMAIN added, NEW l \in DOMAIN added, added[k] = added[l]
         PROVE  k = l
    <2>1. n + k = n + l
      BY <1>2, <1>8, <1>10 DEF AcksRead, acks
    <2> QED
      BY <1>5, <1>8, <2>1
  <1>11. \A q \in Seqs : Acked(b, q) => Acked(c, q)
    BY <1>2 DEF AcksRead
  <1>12. c.sequence = b.sequence
    BY <1>2 DEF AcksRead
  <1> HIDE DEF b, c
  <1>13. NewlyAcked(b, c, added)
    BY <1>4, <1>9, <1>10, <1>11, <1>12 DEF NewlyAcked
  <1> QED
    BY <1>13 DEF b, c, added

\* Two packets of a window never share a slot of the history, nor does what was
\* measured since one of them was sent share its slot without being the packet.
LEMMA HistoryInjective ==
  ASSUME HistoryFits, NEW b \in Buffer(SentSize, BOOLEAN), Windowed(b),
         NEW q \in Present(b), NEW r \in Seqs,
         Distance(b.sequence, r) \in 1 .. Distance(b.sequence, q),
         q % HistorySize = r % HistorySize
  PROVE  q = r
  <1>1. SentSize \in Nat \ {0} /\ HistorySize \in Nat \ {0}
    BY ConfigNumbers, StatisticsNumbers
  <1>2. q \in Seqs /\ Distance(b.sequence, q) \in 1 .. SentSize
    BY <1>1, PresentWindow
  <1>3. b.sequence \in 0 .. SeqMod
    <2>1. b.sequence \in Seqs
      BY DEF Buffer
    <2> QED
      BY <2>1, CircleNumbers
  <1>4. Distance(b.sequence, q) \in 1 .. HistorySize /\ Distance(b.sequence, r) \in 1 .. HistorySize
    BY <1>1, <1>2 DEF HistoryFits
  <1> QED
    BY <1>1, <1>2, <1>3, <1>4, WindowInjective DEF HistoryFits

LEMMA SlotsDistinct ==
  ASSUME HistoryFits, NEW b \in Buffer(SentSize, BOOLEAN), Windowed(b),
         NEW q \in Present(b), NEW r \in Present(b), q % HistorySize = r % HistorySize
  PROVE  q = r
  <1>1. SentSize \in Nat \ {0}
    BY ConfigNumbers
  <1>2. q \in Seqs /\ r \in Seqs
    BY <1>1, PresentWindow
  <1>3. PICK d \in 1 .. SentSize, e \in 1 .. SentSize :
          d = Distance(b.sequence, q) /\ e = Distance(b.sequence, r)
    BY <1>1, PresentWindow
  <1>4. CASE e <= d
    <2>1. Distance(b.sequence, r) \in 1 .. Distance(b.sequence, q)
      BY <1>1, <1>3, <1>4
    <2> QED
      BY <1>2, <2>1, HistoryInjective
  <1>5. CASE d <= e
    <2>1. Distance(b.sequence, q) \in 1 .. Distance(b.sequence, r)
      BY <1>1, <1>3, <1>5
    <2> QED
      BY <1>2, <2>1, HistoryInjective
  <1> QED
    BY <1>1, <1>3, <1>4, <1>5

\* What acks add to what was measured.
AddedSamples(acks) == {Sample(acks[k]) : k \in DOMAIN acks}

\* A new sample's number and sequence.
LEMMA SampleFields ==
  ASSUME Inv, Windowed(endpoint.sent_packets), NEW q \in Present(endpoint.sent_packets)
  PROVE  /\ q \in Seqs /\ Sample(q).sequence = q /\ Sample(q).trip = RoundTrip(q)
         /\ Sample(q).id = sent - Distance(endpoint.sent_packets.sequence, q)
         /\ Distance(endpoint.sent_packets.sequence, q) \in 1 .. SentSize
         /\ Sample(q).id \in Int /\ Sample(q).id < sent /\ Sample(q) \in Samples
  <1>1. /\ endpoint.sent_packets \in Buffer(SentSize, BOOLEAN) /\ SentSize \in Nat \ {0}
        /\ sent \in Nat /\ endpoint \in Endpoints(Payloads)
        /\ stats \in StatisticsTypes /\ NotLater(stats)
    BY SampledBuffers DEF Inv, WellFormed
  <1>2. q \in Seqs /\ Distance(endpoint.sent_packets.sequence, q) \in 1 .. SentSize
    BY <1>1, PresentWindow
  <1>3. Sample(q) \in Samples
    BY <1>1, <1>2, SampleType
  <1>4. /\ Sample(q).sequence = q /\ Sample(q).trip = RoundTrip(q)
        /\ Sample(q).id = sent - Distance(endpoint.sent_packets.sequence, q)
    BY DEF Sample
  <1> QED
    BY <1>1, <1>2, <1>3, <1>4

LEMMA AcksRemembered ==
  ASSUME Inv, Windowed(endpoint.sent_packets), NEW c, NEW acks,
         NewlyAcked(endpoint.sent_packets, c, acks),
         Remembers(endpoint.sent_packets, sent, samples)
  PROVE  Remembers(c, sent, samples \cup AddedSamples(acks))
  <1> DEFINE b == endpoint.sent_packets
  <1>1. /\ c.sequence = b.sequence /\ Present(c) = Present(b)
        /\ \A q \in Seqs : Acked(b, q) => Acked(c, q)
    BY DEF NewlyAcked
  <1>2. \A q \in Present(b) : q \in Seqs
    BY SampleFields
  <1>3. Remembers(c, sent, samples)
    BY <1>1, <1>2 DEF Remembers
  <1>4. ASSUME NEW k \in DOMAIN acks
        PROVE  Remembers(c, sent, {Sample(acks[k])})
    <2>1. PICK a \in Present(b) : a = acks[k] /\ Acked(c, a)
      BY DEF NewlyAcked
    <2>2. /\ Sample(a).sequence = a /\ Sample(a).id < sent
          /\ Sample(a).id = sent - Distance(b.sequence, a)
          /\ sent \in Nat /\ Distance(b.sequence, a) \in Int
      BY <2>1, SampleFields DEF Inv
    <2>3. Distance(c.sequence, Sample(a).sequence) = sent - Sample(a).id
      BY <1>1, <2>2
    <2> QED
      BY <2>1, <2>2, <2>3 DEF Remembers
  <1> QED
    BY <1>3, <1>4 DEF Remembers, AddedSamples

\* The property, of a history and what was measured.
Newest(history, measured) ==
  \A i \in 0 .. (HistorySize - 1) :
     LET of == {m \in measured : m.sequence % HistorySize = i}
     IN  IF of = {} THEN history[i] = Unused
         ELSE \E m \in of : /\ \A other \in of \ {m} : other.id < m.id
                            /\ history[i] = m.trip

LEMMA AcksNewest ==
  ASSUME HistoryFits, Inv, Windowed(endpoint.sent_packets), NEW c, NEW acks,
         NewlyAcked(endpoint.sent_packets, c, acks),
         Remembers(endpoint.sent_packets, sent, samples),
         NEW history, Newest(history, samples), NEW new, HistoryTaken(history, acks, new)
  PROVE  Newest(new, samples \cup AddedSamples(acks))
  <1> DEFINE b == endpoint.sent_packets
             measured == samples \cup AddedSamples(acks)
             Of(all, i) == {m \in all : m.sequence % HistorySize = i}
             Right(h, all, i) ==
               IF Of(all, i) = {} THEN h[i] = Unused
               ELSE \E m \in Of(all, i) : /\ \A other \in Of(all, i) \ {m} : other.id < m.id
                                          /\ h[i] = m.trip
  <1>1. b \in Buffer(SentSize, BOOLEAN) /\ SentSize \in Nat \ {0} /\ sent \in Nat
    BY SampledBuffers DEF Inv, WellFormed
  <1>2. \A k \in DOMAIN acks : acks[k] \in Present(b) /\ ~Acked(b, acks[k])
    BY DEF NewlyAcked
  <1>3. ASSUME NEW i \in 0 .. (HistorySize - 1), NEW k \in DOMAIN acks, acks[k] % HistorySize = i
        PROVE  Right(new, measured, i)
    <2>1. PICK a \in Present(b) : a = acks[k] /\ ~Acked(b, a)
      BY <1>2
    <2>2. PICK m \in measured : m = Sample(a)
      BY <2>1 DEF AddedSamples
    <2>3. PICK d \in 1 .. SentSize : d = Distance(b.sequence, a)
      BY SampleFields
    <2>4. /\ m.sequence = a /\ m.trip = RoundTrip(a) /\ m.id = sent - d /\ m.id \in Int
      BY <2>2, <2>3, SampleFields
    <2>5. m \in Of(measured, i) /\ new[i] = m.trip
      BY <1>3, <2>1, <2>4 DEF HistoryTaken
    <2>6. ASSUME NEW other \in samples, other.sequence % HistorySize = i, other.id >= m.id
          PROVE  FALSE
      <3>1. other.id \in Int /\ other.sequence \in Seqs
        BY DEF Inv, Samples
      <3>2. /\ Distance(b.sequence, other.sequence) = sent - other.id
            /\ other.id < sent /\ (other.sequence = a => Acked(b, a))
        BY <2>3, <2>4, <2>6 DEF Remembers
      <3>3. Distance(b.sequence, other.sequence) \in 1 .. Distance(b.sequence, a)
        BY <1>1, <2>3, <2>4, <2>6, <3>1, <3>2
      <3>4. a = other.sequence
        BY <1>1, <1>3, <2>1, <2>6, <3>1, <3>3, HistoryInjective
      <3> QED
        BY <2>1, <3>2, <3>4
    <2>7. ASSUME NEW other \in AddedSamples(acks), other.sequence % HistorySize = i
          PROVE  other = m
      <3>1. PICK l \in DOMAIN acks : other = Sample(acks[l])
        BY DEF AddedSamples
      <3>2. PICK r \in Present(b) : r = acks[l]
        BY <1>2
      <3>3. r % HistorySize = a % HistorySize
        <4>1. other.sequence = r
          BY <3>1, <3>2, SampleFields
        <4> QED
          BY <1>3, <2>1, <2>7, <4>1
      <3>4. r = a
        BY <1>1, <3>3, SlotsDistinct
      <3> QED
        BY <2>2, <3>1, <3>2, <3>4
    <2>8. \A other \in Of(measured, i) \ {m} : other.id < m.id
      <3>1. \A other \in samples : other.id \in Int
        BY DEF Inv, Samples
      <3> QED
        BY <2>4, <2>6, <2>7, <3>1
    <2> QED
      BY <2>5, <2>8
  <1>4. ASSUME NEW i \in 0 .. (HistorySize - 1), \A k \in DOMAIN acks : acks[k] % HistorySize # i
        PROVE  Right(new, measured, i)
    <2>1. \A m \in AddedSamples(acks) : m.sequence % HistorySize # i
      BY <1>2, <1>4, SampleFields DEF AddedSamples
    <2>2. Of(measured, i) = Of(samples, i)
      BY <2>1
    <2>3. new[i] = history[i]
      BY <1>4 DEF HistoryTaken
    <2>4. Right(history, samples, i)
      BY Zenon DEF Newest
    <2> HIDE DEF Of
    <2> QED
      BY <2>2, <2>3, <2>4, Zenon
  <1>5. \A i \in 0 .. (HistorySize - 1) : Right(new, measured, i)
    <2> HIDE DEF Right
    <2> QED
      BY <1>3, <1>4
  <1> QED
    BY <1>5, Zenon DEF Newest

\* What the theorem adds to the invariant.
HistoryInv ==
  /\ Windowed(endpoint.sent_packets)
  /\ Remembers(endpoint.sent_packets, sent, samples)
  /\ Newest(stats.rtt_history_buffer, samples)

LEMMA HistoryIsNewestIff ==
  ASSUME Inv
  PROVE  HistoryIsNewest <=> Newest(stats.rtt_history_buffer, samples)
  <1>1. DOMAIN stats.rtt_history_buffer = 0 .. (HistorySize - 1)
    BY DEF Inv, StatisticsTypes, Histories
  <1> QED
    BY <1>1, Zenon DEF HistoryIsNewest, Newest

LEMMA InitHistory == Init => HistoryInv
  <1> SUFFICES ASSUME Init PROVE HistoryInv
    OBVIOUS
  <1>1. endpoint.sent_packets = CreateBuffer(SentSize, FALSE)
    BY DEF Init, NewEndpoint
  <1>2. Windowed(endpoint.sent_packets)
    BY <1>1, CreateWindow
  <1>3. samples = {} /\ stats.rtt_history_buffer = [i \in 0 .. (HistorySize - 1) |-> Unused]
    BY DEF Init, NewStatistics
  <1> QED
    BY <1>2, <1>3 DEF HistoryInv, Remembers, Newest

LEMMA ReceiveHistory ==
  ASSUME HistoryFits, Half > 1, Inv, HistoryInv, NEW p \in Packets, Receive(p)
  PROVE  HistoryInv'
  <1> DEFINE b == endpoint.sent_packets
             acks == AcksAdded(p)
             i == Slot(endpoint.received_packets, p.sequence)
             base == [stats EXCEPT !.received_packets = [@ EXCEPT ![i] = Entry(p.header + p.bytes)]]
             new == Ext!FoldLeft(Measured, base, acks)
  <1>1. /\ endpoint' = Accepted(endpoint, p, 0) /\ stats' = new
        /\ samples' = samples \cup AddedSamples(acks) /\ sent' = sent
    BY DEF Receive, AddedSamples
  <1>2. NewlyAcked(b, endpoint'.sent_packets, acks)
    BY <1>1, AcksAddedNew DEF HistoryInv
  <1>3. /\ b \in Buffer(SentSize, BOOLEAN) /\ Windowed(b)
        /\ \A k \in DOMAIN acks : acks[k] \in Present(b)
        /\ \A k, l \in DOMAIN acks : acks[k] = acks[l] => k = l
    BY <1>2, SampledBuffers DEF Inv, WellFormed, HistoryInv, NewlyAcked
  <1>4. base \in StatisticsTypes /\ base.rtt_history_buffer = stats.rtt_history_buffer
    <2>1. stats \in StatisticsTypes /\ p.header + p.bytes \in Nat
      BY StatisticsNumbers DEF Inv, RegularPackets
    <2>2. PICK e \in Measurements : e = Entry(p.header + p.bytes)
      BY <2>1, EntryMeasures
    <2>3. base = [stats EXCEPT !.received_packets = [@ EXCEPT ![i] = e]]
      BY <2>2
    <2> HIDE DEF base, i
    <2> QED
      BY <2>1, <2>3 DEF StatisticsTypes
  <1>5. HistoryTaken(stats.rtt_history_buffer, acks, new.rtt_history_buffer)
    <2>1. /\ IsFiniteSet(DOMAIN acks) /\ DOMAIN acks \subseteq Nat
          /\ \A k \in DOMAIN acks : acks[k] \in Seqs
      BY AcksAddedType
    <2>2. \A k \in DOMAIN acks : RoundTrip(acks[k]) \in Nat
      BY <2>1, RoundTripNat DEF Inv, WellFormed
    <2>3. \A k, l \in DOMAIN acks : acks[k] % HistorySize = acks[l] % HistorySize => k = l
      BY <1>3, SlotsDistinct
    <2> HIDE DEF base, acks
    <2> QED
      BY <1>4, <2>1, <2>2, <2>3, HistoryMeasured
  <1> HIDE DEF new, acks, b
  <1>6. Remembers(endpoint'.sent_packets, sent, samples \cup AddedSamples(acks))
    BY <1>2, AcksRemembered DEF HistoryInv, b
  <1>7. Newest(new.rtt_history_buffer, samples \cup AddedSamples(acks))
    BY <1>2, <1>5, AcksNewest DEF HistoryInv, b
  <1>8. Windowed(endpoint'.sent_packets)
    BY <1>2 DEF NewlyAcked
  <1>9. Newest(stats'.rtt_history_buffer, samples')
    BY <1>1, <1>7, Zenon
  <1>10. Remembers(endpoint'.sent_packets, sent', samples')
    BY <1>1, <1>6, Zenon
  <1> QED
    BY <1>8, <1>9, <1>10, Zenon DEF HistoryInv

\* The other steps measure nothing.
LEMMA NextHistory ==
  ASSUME HistoryFits, Half > 1, Inv, HistoryInv, [Next]_vars
  PROVE  HistoryInv'
  <1>1. stats \in StatisticsTypes /\ endpoint \in Endpoints(Payloads)
    BY DEF Inv, WellFormed
  <1>2. ASSUME Windowed(endpoint'.sent_packets),
               Remembers(endpoint'.sent_packets, sent', samples'),
               samples' = samples, stats'.rtt_history_buffer = stats.rtt_history_buffer
        PROVE  HistoryInv'
    <2>1. Newest(stats'.rtt_history_buffer, samples')
      BY <1>2, Zenon DEF HistoryInv
    <2> QED
      BY <1>2, <2>1, Zenon DEF HistoryInv
  <1>3. ASSUME NEW bytes \in SendSizes, Send(bytes)
        PROVE  HistoryInv'
    <2>1. /\ endpoint' = Sent(endpoint, bytes) /\ sent' = sent + 1 /\ samples' = samples
          /\ stats'.rtt_history_buffer = stats.rtt_history_buffer
      BY <1>1, <1>3 DEF Send, StatisticsTypes
    <2>2. bytes \in Nat
      BY StatisticsNumbers
    <2>3. /\ Windowed(Sent(endpoint, bytes).sent_packets)
          /\ Remembers(Sent(endpoint, bytes).sent_packets, sent + 1, samples)
      BY <2>2, SentRemembers DEF Inv, HistoryInv
    <2> QED
      BY <1>2, <2>1, <2>3, Zenon
  <1>4. CASE \E p \in Packets : Receive(p)
    BY <1>4, ReceiveHistory
  <1>5. ASSUME endpoint'.sent_packets = endpoint.sent_packets, sent' = sent, samples' = samples,
               stats'.rtt_history_buffer = stats.rtt_history_buffer
        PROVE  HistoryInv'
    <2>1. Windowed(endpoint'.sent_packets) /\ Remembers(endpoint'.sent_packets, sent', samples')
      BY <1>5, Zenon DEF HistoryInv
    <2> QED
      BY <1>2, <1>5, <2>1
  <1>6. ASSUME NEW time \in 0 .. MaxTime, Update(time)
        PROVE  HistoryInv'
    <2>1. time \in Nat /\ stats' = Updated(stats, time, endpoint)
      BY <1>6, StatisticsAssumption DEF Update, Updated
    <2> DEFINE moved == [stats EXCEPT !.time = time]
    <2>2. SameMeasured(moved, stats')
      BY <1>1, <2>1, UpdateChanges
    <2>3. moved.rtt_history_buffer = stats.rtt_history_buffer
      BY <1>1 DEF StatisticsTypes
    <2> HIDE DEF moved
    <2>4. stats'.rtt_history_buffer = stats.rtt_history_buffer
      BY <2>2, <2>3 DEF SameMeasured
    <2> QED
      BY <1>5, <1>6, <2>4 DEF Update
  <1>7. CASE ClearAcks
    BY <1>1, <1>5, <1>7, ClearedWellFormed DEF ClearAcks, Inv
  <1>8. CASE Reset
    <2>1. endpoint' = AfterReset(endpoint) /\ stats' = stats /\ samples' = samples
      BY <1>8 DEF Reset
    <2>2. endpoint'.sent_packets = ResetBuffer(endpoint.sent_packets)
      BY <1>1, <2>1 DEF AfterReset, Endpoints
    <2>3. Windowed(endpoint'.sent_packets) /\ Present(endpoint'.sent_packets) = {}
      <3>1. endpoint.sent_packets \in Buffer(SentSize, BOOLEAN) /\ SentSize \in Nat \ {0}
        BY <1>1, SampledBuffers
      <3> QED
        BY <2>2, <3>1, ResetWindow
    <2>4. Remembers(endpoint'.sent_packets, sent', samples')
      <3>1. \A m \in samples : m.id < sent
        BY DEF HistoryInv, Remembers
      <3>2. sent' = sent
        BY <1>8 DEF Reset
      <3> QED
        BY <2>1, <2>3, <3>1, <3>2 DEF Remembers
    <2> QED
      BY <1>2, <2>1, <2>3, <2>4
  <1>9. CASE UNCHANGED vars
    BY <1>5, <1>9 DEF vars
  <1> QED
    BY <1>3, <1>4, <1>6, <1>7, <1>8, <1>9 DEF Next

\* Whatever acks come, and whenever they come, receive_packet leaves in every
\* slot of the history the round trip of the newest packet measured there, as
\* long as the history is no smaller than the window of the packets sent.
THEOREM HistoryIsNewestHolds ==
  ASSUME HistoryFits
  PROVE  Spec => []HistoryIsNewest
  <1>1. Half > 1
    BY ConfigNumbers, CircleNumbers DEF HistoryFits, FitsCircle
  <1>2. HistoryInv /\ Inv /\ Inv' /\ [Next]_vars => HistoryInv'
    BY <1>1, NextHistory
  <1>3. Inv /\ HistoryInv => HistoryIsNewest
    BY HistoryIsNewestIff DEF HistoryInv
  <1>4. Spec => []Inv
    BY <1>1, InvHolds
  <1> QED
    BY <1>2, <1>3, <1>4, InitHistory, PTL DEF Spec
=============================================================================
