------------------------ MODULE SequenceBuffers_proofs ------------------------
(***************************************************************************)
(* Circular sequence numbers, and the operations on a sequence buffer, for *)
(* every Half, every number n of entries and every set D of what entries   *)
(* may hold: what each operation returns, what it does to the window, and  *)
(* to the blocks.                                                          *)
(*                                                                         *)
(* Remainders come first: the provers know % and \div only through the     *)
(* division equation.                                                      *)
(***************************************************************************)
EXTENDS SequenceBuffers, FiniteSetTheorems, TLAPS

\* The division equation.
LEMMA DivMod ==
  ASSUME NEW x \in Int, NEW n \in Nat \ {0}
  PROVE  /\ x = n * (x \div n) + (x % n)
         /\ x % n \in 0 .. (n - 1)
         /\ x \div n \in Int
  BY Z3

\* The only multiple of n strictly between -n and n is 0.
LEMMA SmallMultiple ==
  ASSUME NEW n \in Nat \ {0}, NEW k \in Int, n * k < n, n * k > 0 - n
  PROVE  k = 0
  BY Z3

\* A product distributes over sum and difference.
LEMMA Distributes ==
  ASSUME NEW n \in Int, NEW a \in Int, NEW b \in Int
  PROVE  n * (a - b) = n * a - n * b /\ n * (a + b) = n * a + n * b
  BY Z3

\* The remainder is the only number of 0..n-1 that solves the equation.
LEMMA ModUnique ==
  ASSUME NEW n \in Nat \ {0}, NEW x \in Int, NEW q \in Int,
         NEW r \in 0 .. (n - 1), x = n * q + r
  PROVE  x % n = r
  <1>1. PICK d \in Int, m \in 0 .. (n - 1) : x = n * d + m /\ m = x % n
    BY DivMod
  <1>2. n * (q - d) = m - r
    BY <1>1, Distributes
  <1>3. q - d = 0
    BY <1>1, <1>2, SmallMultiple
  <1>4. n * (q - d) = 0
    BY <1>3
  <1>5. m = r
    BY <1>2, <1>4
  <1> QED
    BY <1>1, <1>5

\* Equal remainders: the difference is a multiple of n.
LEMMA ModEqual ==
  ASSUME NEW n \in Nat \ {0}, NEW a \in Int, NEW b \in Int, a % n = b % n
  PROVE  \E k \in Int : a - b = n * k
  <1>1. PICK d \in Int, m \in 0 .. (n - 1) : a = n * d + m /\ m = a % n
    BY DivMod
  <1>2. PICK e \in Int, l \in 0 .. (n - 1) : b = n * e + l /\ l = b % n
    BY DivMod
  <1>3. a - b = n * (d - e)
    BY <1>1, <1>2, Distributes
  <1> QED
    BY <1>3

\* Adding a multiple of n leaves the remainder.
LEMMA ModShift ==
  ASSUME NEW n \in Nat \ {0}, NEW a \in Int, NEW b \in Int, NEW k \in Int,
         a = b + n * k
  PROVE  a % n = b % n
  <1>1. PICK e \in Int, l \in 0 .. (n - 1) : b = n * e + l /\ l = b % n
    BY DivMod
  <1>2. a = n * (e + k) + l
    BY <1>1, Distributes
  <1>3. e + k \in Int
    BY <1>1
  <1>4. a % n = l
    BY <1>1, <1>2, <1>3, ModUnique
  <1> QED
    BY <1>1, <1>4

\* Two numbers less than n apart with the same remainder are equal.
LEMMA ModInjective ==
  ASSUME NEW n \in Nat \ {0}, NEW a \in Int, NEW b \in Int,
         a - b < n, b - a < n, a % n = b % n
  PROVE  a = b
  <1>1. PICK k \in Int : a - b = n * k
    BY ModEqual
  <1>2. k = 0
    BY <1>1, SmallMultiple
  <1>3. n * k = 0
    BY <1>2
  <1> QED
    BY <1>1, <1>3

-----------------------------------------------------------------------------
\* Conversion to 16 bits of a number at most one lap off.
LEMMA U16Value ==
  ASSUME NEW x \in Int, x >= 0 - SeqMod, x < 2 * SeqMod
  PROVE  /\ U16(x) \in Seqs
         /\ x < 0 => U16(x) = x + SeqMod
         /\ x \in Seqs => U16(x) = x
         /\ x >= SeqMod => U16(x) = x - SeqMod
  <1> SeqMod \in Nat \ {0}
    BY HalfAssumption DEF SeqMod
  <1>1. CASE x < 0
    <2>1. x = SeqMod * (0 - 1) + (x + SeqMod)
      OBVIOUS
    <2>2. x % SeqMod = x + SeqMod
      BY <1>1, <2>1, ModUnique
    <2> QED
      BY <1>1, <2>2 DEF U16, Seqs
  <1>2. CASE x \in Seqs
    <2>1. x = SeqMod * 0 + x
      OBVIOUS
    <2>2. x % SeqMod = x
      BY <1>2, <2>1, ModUnique DEF Seqs
    <2> QED
      BY <1>2, <2>2 DEF U16, Seqs
  <1>3. CASE x >= SeqMod
    <2>1. x = SeqMod * 1 + (x - SeqMod)
      OBVIOUS
    <2>2. x % SeqMod = x - SeqMod
      BY <1>3, <2>1, ModUnique
    <2> QED
      BY <1>3, <2>2 DEF U16, Seqs
  <1> QED
    BY <1>1, <1>2, <1>3 DEF Seqs

\* The distance to a from b, for b a sequence and a at most one past the last.
LEMMA DistanceValue ==
  ASSUME NEW a \in 0 .. SeqMod, NEW b \in Seqs
  PROVE  /\ Distance(a, b) \in Seqs
         /\ \/ a >= b /\ a - b < SeqMod /\ Distance(a, b) = a - b
            \/ a < b /\ Distance(a, b) = a - b + SeqMod
            \/ a = SeqMod /\ b = 0 /\ Distance(a, b) = 0
  <1>1. SeqMod \in Nat \ {0} /\ b \in 0 .. (SeqMod - 1)
    BY HalfAssumption DEF SeqMod, Seqs
  <1>2. a - b \in Int /\ a - b >= 0 - SeqMod /\ a - b < 2 * SeqMod
    BY <1>1
  <1>3. /\ Distance(a, b) \in Seqs
        /\ a - b < 0 => Distance(a, b) = (a - b) + SeqMod
        /\ a - b \in 0 .. (SeqMod - 1) => Distance(a, b) = a - b
        /\ a - b >= SeqMod => Distance(a, b) = (a - b) - SeqMod
    BY <1>2, U16Value DEF Distance, Seqs
  <1> QED
    BY <1>1, <1>3

\* The comparison orders any two distinct sequences, one way only: ties
\* (exactly Half apart) included.
THEOREM GreaterThanTotal ==
  ASSUME NEW s1 \in Seqs, NEW s2 \in Seqs
  PROVE  /\ s1 # s2 => GreaterThan(s1, s2) \/ GreaterThan(s2, s1)
         /\ ~(GreaterThan(s1, s2) /\ GreaterThan(s2, s1))
         /\ ~GreaterThan(s1, s1)
  BY HalfAssumption DEF Seqs, SeqMod, GreaterThan

\* What the comparison means on the circle.
THEOREM GreaterThanDistance ==
  ASSUME NEW s1 \in Seqs, NEW s2 \in Seqs
  PROVE  /\ GreaterThan(s1, s2) => Distance(s1, s2) \in 1 .. Half
         /\ Distance(s1, s2) \in 1 .. (Half - 1) => GreaterThan(s1, s2)
  <1>1. SeqMod = 2 * Half /\ SeqMod \in Nat /\ Half \in Nat
    BY HalfAssumption DEF SeqMod
  <1>2. s1 \in 0 .. SeqMod /\ s1 \in 0 .. (SeqMod - 1) /\ s2 \in 0 .. (SeqMod - 1)
    BY <1>1 DEF Seqs
  <1>3. \/ s1 >= s2 /\ Distance(s1, s2) = s1 - s2
        \/ s1 < s2 /\ Distance(s1, s2) = s1 - s2 + SeqMod
    BY <1>1, <1>2, DistanceValue
  <1> QED
    BY <1>1, <1>2, <1>3 DEF GreaterThan

-----------------------------------------------------------------------------
(* Induction: every nonempty set of numbers has a least element, as the    *)
(* intervals 0..n are well founded under the strict subset order.          *)

\* A set of numbers that is not empty has a smallest one.
LEMMA SmallestOf ==
  ASSUME NEW T \in SUBSET Nat, T # {}
  PROVE  \E x \in T : \A y \in T : x <= y
  <1> DEFINE R == StrictSubsetOrdering(Nat)
             U == {0 .. n : n \in T}
  <1>1. IsWellFoundedOn(R, FiniteSubsetsOf(Nat))
    BY FS_StrictSubsetOrderingWellFounded
  <1>2. U \subseteq FiniteSubsetsOf(Nat) /\ U # {}
    <2>1. \A n \in T : 0 .. n \in SUBSET Nat /\ IsFiniteSet(0 .. n)
      BY FS_Interval
    <2> QED
      BY <2>1 DEF FiniteSubsetsOf
  <1>3. PICK u \in U : \A v \in U : <<v, u>> \notin R
    <2> HIDE DEF R, U
    <2> QED
      BY <1>1, <1>2, WFMin
  <1>4. PICK x \in T : u = 0 .. x
    OBVIOUS
  <1>5. ASSUME NEW y \in T, y < x
        PROVE  FALSE
    <2>1. 0 .. y \in U /\ 0 .. y \subseteq u /\ 0 .. y # u
      BY <1>4, <1>5
    <2>2. 0 .. y \in SUBSET Nat /\ u \in SUBSET Nat
      BY <1>4
    <2>3. <<0 .. y, u>> \in R
      BY <2>1, <2>2 DEF StrictSubsetOrdering
    <2> QED
      BY <1>3, <2>1, <2>3
  <1> QED
    BY <1>5

\* To prove something of every number, collect the numbers it holds of in T.
LEMMA NatSetInduction ==
  ASSUME NEW T, 0 \in T, \A n \in Nat : n \in T => n + 1 \in T
  PROVE  Nat \subseteq T
  <1> SUFFICES ASSUME Nat \ T # {} PROVE FALSE
    OBVIOUS
  <1>1. PICK x \in Nat \ T : \A y \in Nat \ T : x <= y
    <2> DEFINE R == Nat \ T
    <2>1. R \in SUBSET Nat /\ R # {}
      OBVIOUS
    <2> HIDE DEF R
    <2>2. \E x \in R : \A y \in R : x <= y
      BY <2>1, SmallestOf
    <2> QED
      BY <2>2 DEF R
  <1>2. x # 0 /\ x - 1 \in Nat
    BY <1>1
  <1>3. x - 1 \in T
    BY <1>1, <1>2
  <1> QED
    BY <1>2, <1>3

-----------------------------------------------------------------------------
(* Sequence buffers.                                                       *)

\* The sizes for which the slots stay a window across the wrap from 65535 to
\* 0.  The default sizes (256 and 64) are such; create asserts only n > 0.
FitsCircle(n) == n > 1 /\ n < Half /\ SeqMod % n = 0

\* The constants as numbers, for the provers.
LEMMA CircleNumbers ==
  /\ Half \in Nat /\ Half > 0
  /\ SeqMod = 2 * Half /\ SeqMod \in Nat \ {0}
  /\ Seqs = 0 .. (SeqMod - 1)
  BY HalfAssumption DEF SeqMod, Seqs

\* An index is a slot.
LEMMA SlotType ==
  ASSUME NEW n \in Nat \ {0}, NEW D, NEW b \in Buffer(n, D), NEW q \in Int
  PROVE  Slot(b, q) \in 0 .. (n - 1) /\ Slots(b) = 0 .. (n - 1)
  <1>1. b.num_entries = n
    BY DEF Buffer
  <1>2. q % n \in 0 .. (n - 1)
    BY DivMod
  <1> QED
    BY <1>1, <1>2 DEF Slot, Slots

\* The next sequence is a sequence.
LEMMA SuccessorType ==
  ASSUME NEW s \in Seqs
  PROVE  U16(s + 1) \in Seqs
  BY U16Value, CircleNumbers

-----------------------------------------------------------------------------
(* Every operation returns a buffer.                                       *)

\* The operations return buffers of the same size and type.
LEMMA CreateType ==
  ASSUME NEW n \in Nat \ {0}, NEW D, NEW data \in D
  PROVE  /\ CreateBuffer(n, data) \in Buffer(n, D)
         /\ CreateBuffer(n, data).sequence = 0
  BY CircleNumbers DEF CreateBuffer, Buffer, Empty

\* advance, with what it clears.
LEMMA AdvanceType ==
  ASSUME NEW n \in Nat \ {0}, NEW D, NEW b \in Buffer(n, D), NEW s \in Seqs
  PROVE  Advance(b, s) \in Buffer(n, D)
  <1>1. U16(s + 1) \in Seqs
    BY SuccessorType
  <1> QED
    BY <1>1 DEF Advance, Buffer, Slots

\* Storing the sequence of an entry.
LEMMA StoreType ==
  ASSUME NEW n \in Nat \ {0}, NEW D, NEW b \in Buffer(n, D), NEW s \in Seqs
  PROVE  Store(b, s) \in Buffer(n, D)
  BY DEF Store, Buffer

\* remove.
LEMMA RemoveType ==
  ASSUME NEW n \in Nat \ {0}, NEW D, NEW b \in Buffer(n, D), NEW s \in Seqs
  PROVE  Remove(b, s) \in Buffer(n, D)
  BY DEF Remove, Buffer

\* The cleanup function, applied to some slots.
LEMMA CleanupType ==
  ASSUME NEW n \in Nat \ {0}, NEW D, NULL \in D, NEW b \in Buffer(n, D), NEW S
  PROVE  Cleanup(b, S) \in Buffer(n, D)
  BY DEF Cleanup, Buffer, Slots

\* reset.
LEMMA ResetType ==
  ASSUME NEW n \in Nat \ {0}, NEW D, NEW b \in Buffer(n, D)
  PROVE  ResetBuffer(b) \in Buffer(n, D)
  <1>1. 0 \in Seqs /\ Slots(b) = 0 .. (n - 1)
    BY CircleNumbers DEF Slots, Buffer
  <1>2. [i \in Slots(b) |-> Empty] \in [0 .. (n - 1) -> Seqs \cup {Empty}]
    BY <1>1
  <1> QED
    BY <1>1, <1>2 DEF ResetBuffer, Buffer

\* The owner writes what an entry holds.
LEMMA EntryType ==
  ASSUME NEW n \in Nat \ {0}, NEW D, NEW b \in Buffer(n, D), NEW i, NEW entry \in D
  PROVE  [b EXCEPT !.entry_data[i] = entry] \in Buffer(n, D)
  BY DEF Buffer


-----------------------------------------------------------------------------
(* The window.                                                             *)

\* The end of the window may be counted before or after its conversion.
LEMMA SuccessorDistance ==
  ASSUME NEW s \in Seqs, NEW q \in Seqs
  PROVE  Distance(U16(s + 1), q) = Distance(s + 1, q)
  <1>1. U16(s + 1) = IF s + 1 = SeqMod THEN 0 ELSE s + 1
    BY U16Value, CircleNumbers
  <1>2. CASE s + 1 = SeqMod
    <2>1. SeqMod \in 0 .. SeqMod /\ 0 \in 0 .. SeqMod
      BY CircleNumbers
    <2>2. \/ SeqMod >= q /\ SeqMod - q < SeqMod /\ Distance(SeqMod, q) = SeqMod - q
          \/ SeqMod < q /\ Distance(SeqMod, q) = SeqMod - q + SeqMod
          \/ SeqMod = SeqMod /\ q = 0 /\ Distance(SeqMod, q) = 0
      BY <2>1, DistanceValue
    <2>3. \/ 0 >= q /\ 0 - q < SeqMod /\ Distance(0, q) = 0 - q
          \/ 0 < q /\ Distance(0, q) = 0 - q + SeqMod
          \/ 0 = SeqMod /\ q = 0 /\ Distance(0, q) = 0
      BY <2>1, DistanceValue
    <2>4. Distance(0, q) = Distance(SeqMod, q)
      BY <2>2, <2>3, CircleNumbers
    <2> QED
      BY <1>1, <1>2, <2>4
  <1>3. CASE s + 1 # SeqMod
    BY <1>1, <1>3
  <1> QED
    BY <1>2, <1>3

\* A sequence ahead is 1..Half steps ahead on the circle.
LEMMA AheadStep ==
  ASSUME NEW n \in Nat \ {0}, NEW D, NEW b \in Buffer(n, D), NEW s \in Seqs,
         Ahead(b, s)
  PROVE  Distance(s + 1, b.sequence) \in 1 .. Half
  <1>1. b.sequence \in Seqs /\ U16(s + 1) \in Seqs
    BY SuccessorType DEF Buffer
  <1>2. Distance(U16(s + 1), b.sequence) \in 1 .. Half
    BY <1>1, GreaterThanDistance DEF Ahead
  <1> QED
    BY <1>1, <1>2, SuccessorDistance

\* The sequence held k behind the window's end is in slot (sequence - k) % n.
LEMMA HeldSlot ==
  ASSUME NEW n \in Nat \ {0}, FitsCircle(n), NEW a \in 0 .. SeqMod, NEW q \in Seqs,
         NEW k \in Int,
         Distance(a, q) = k
  PROVE  q % n = (a - k) % n
  <1>1. PICK m \in Int : SeqMod = n * m
    <2>1. PICK d \in Int, r \in 0 .. (n - 1) :
             SeqMod = n * d + r /\ r = SeqMod % n
      <3>1. SeqMod \in Int /\ n \in Nat \ {0}
        BY CircleNumbers
      <3> QED
        BY <3>1, DivMod
    <2>2. SeqMod % n = 0
      BY DEF FitsCircle
    <2>3. SeqMod = n * d
      BY <2>1, <2>2
    <2> QED
      BY <2>3
  <1>2. \/ q = (a - k) + n * 0
        \/ q = (a - k) + n * m
        \/ q = (a - k) + n * (0 - m)
    <2>1. n * 0 = 0 /\ n * (0 - m) = 0 - SeqMod
      BY <1>1, CircleNumbers, Distributes
    <2>2. \/ a >= q /\ a - q < SeqMod /\ k = a - q
          \/ a < q /\ k = a - q + SeqMod
          \/ a = SeqMod /\ q = 0 /\ k = 0
      BY DistanceValue
    <2> QED
      BY <1>1, <2>1, <2>2, CircleNumbers
  <1>3. PICK c \in Int : c = a - k
    BY CircleNumbers
  <1>4. q \in Int /\ n \in Nat \ {0} /\ 0 - m \in Int /\ 0 \in Int
    BY CircleNumbers
  <1>5. q % n = c % n
    <2>1. \E x \in Int : q = c + n * x
      BY <1>1, <1>2, <1>3, <1>4
    <2> QED
      BY <1>4, <2>1, ModShift
  <1> QED
    BY <1>3, <1>5

\* Two sequences of the same window in the same slot are the same.
LEMMA WindowInjective ==
  ASSUME NEW n \in Nat \ {0}, FitsCircle(n), NEW a \in 0 .. SeqMod, NEW p \in Seqs,
         NEW q \in Seqs,
         Distance(a, p) \in 1 .. n, Distance(a, q) \in 1 .. n,
         p % n = q % n
  PROVE  p = q
  <1>1. PICK j \in 1 .. n : Distance(a, p) = j
    OBVIOUS
  <1>2. PICK k \in 1 .. n : Distance(a, q) = k
    OBVIOUS
  <1>3. (a - j) % n = (a - k) % n
    BY <1>1, <1>2, HeldSlot
  <1>4. a - j = a - k
    <2>1. /\ a - j \in Int /\ a - k \in Int /\ n \in Nat \ {0}
          /\ (a - j) - (a - k) < n /\ (a - k) - (a - j) < n
      BY CircleNumbers
    <2> QED
      BY <1>3, <2>1, ModInjective
  <1>5. Distance(a, p) = Distance(a, q) /\ Distance(a, p) > 0
    BY <1>1, <1>2, <1>4, CircleNumbers
  <1>6. /\ \/ a >= p /\ a - p < SeqMod /\ Distance(a, p) = a - p
           \/ a < p /\ Distance(a, p) = a - p + SeqMod
           \/ a = SeqMod /\ p = 0 /\ Distance(a, p) = 0
        /\ \/ a >= q /\ a - q < SeqMod /\ Distance(a, q) = a - q
           \/ a < q /\ Distance(a, q) = a - q + SeqMod
           \/ a = SeqMod /\ q = 0 /\ Distance(a, q) = 0
    BY DistanceValue
  <1> QED
    BY <1>5, <1>6, CircleNumbers

\* Distances add up as long as the sum is less than a lap.
LEMMA DistanceAdds ==
  ASSUME NEW a \in 0 .. SeqMod, NEW c \in Seqs, NEW q \in Seqs,
         Distance(c, q) + Distance(a, c) < SeqMod
  PROVE  Distance(a, q) = Distance(c, q) + Distance(a, c)
  <1>1. /\ \/ c >= q /\ c - q < SeqMod /\ Distance(c, q) = c - q
           \/ c < q /\ Distance(c, q) = c - q + SeqMod
           \/ c = SeqMod /\ q = 0 /\ Distance(c, q) = 0
        /\ \/ a >= c /\ a - c < SeqMod /\ Distance(a, c) = a - c
           \/ a < c /\ Distance(a, c) = a - c + SeqMod
           \/ a = SeqMod /\ c = 0 /\ Distance(a, c) = 0
        /\ \/ a >= q /\ a - q < SeqMod /\ Distance(a, q) = a - q
           \/ a < q /\ Distance(a, q) = a - q + SeqMod
           \/ a = SeqMod /\ q = 0 /\ Distance(a, q) = 0
    <2>1. c \in 0 .. SeqMod
      BY CircleNumbers
    <2> QED
      BY <2>1, DistanceValue
  <1> QED
    BY <1>1, CircleNumbers

\* The last sequence remove_entries clears, not yet reduced to 16 bits, is
\* as far from the window's end as the new end is.
LEMMA LastCleared ==
  ASSUME NEW c \in Seqs, NEW s \in Seqs, Distance(s + 1, c) >= 1
  PROVE  (IF s < c THEN s + SeqMod ELSE s) = c + Distance(s + 1, c) - 1
  <1>1. PICK a \in 0 .. SeqMod : a = s + 1
    BY CircleNumbers
  <1>2. \/ a >= c /\ a - c < SeqMod /\ Distance(a, c) = a - c
        \/ a < c /\ Distance(a, c) = a - c + SeqMod
        \/ a = SeqMod /\ c = 0 /\ Distance(a, c) = 0
    BY DistanceValue
  <1> QED
    BY <1>1, <1>2, CircleNumbers

\* A sequence of the window loses its slot to an advance exactly when the
\* advance leaves it more than n behind.
LEMMA OvertakenIff ==
  ASSUME NEW n \in Nat \ {0}, FitsCircle(n), NEW D, NEW b \in Buffer(n, D),
         NEW s \in Seqs, Ahead(b, s),
         NEW q \in Seqs, Distance(b.sequence, q) \in 1 .. n
  PROVE  Slot(b, q) \in Overtaken(b, s)
           <=> Distance(b.sequence, q) + Distance(s + 1, b.sequence) > n
    <1>1. PICK c \in Seqs : c = b.sequence
    BY DEF Buffer
  <1>2. PICK d \in 1 .. Half : d = Distance(s + 1, c)
    BY <1>1, AheadStep
  <1>3. PICK k \in 1 .. n : k = Distance(c, q)
    BY <1>1
  <1>4. b.num_entries = n /\ Slot(b, q) = q % n /\ Slots(b) = 0 .. (n - 1)
    BY DEF Buffer, Slot, Slots
  <1>5. c \in Int /\ d \in Int /\ k \in Int /\ n \in Nat \ {0} /\ c \in 0 .. SeqMod
    BY CircleNumbers
  <1>6. q % n = (c - k) % n
    BY <1>3, <1>5, HeldSlot
  <1>7. Overtaken(b, s) = IF d - 1 < n THEN {x % n : x \in c .. (c + d - 1)}
                                       ELSE 0 .. (n - 1)
    <2>1. (IF s < c THEN s + SeqMod ELSE s) = c + d - 1
      BY <1>2, LastCleared, CircleNumbers
    <2>2. (c + d - 1) - c = d - 1
      BY <1>5
    <2> QED
      BY <1>1, <1>4, <2>1, <2>2 DEF Overtaken, ClearedSlots, Slot
  <1>8. CASE d - 1 < n
    <2>1. ASSUME q % n \in Overtaken(b, s) PROVE k + d > n
      <3>1. PICK x \in c .. (c + d - 1) : x % n = (c - k) % n
        BY <1>6, <1>7, <1>8, <2>1
      <3>2. PICK y \in Int : y = c - k
        BY <1>5
      <3>3. x \in Int /\ x - y > 0 /\ y - x < n
        BY <1>5, <3>2
      <3>4. x - y >= n
        <4>1. SUFFICES ASSUME x - y < n PROVE FALSE
          BY <1>5, <3>3
        <4>2. x = y
          BY <1>5, <3>1, <3>2, <3>3, <4>1, ModInjective
        <4> QED
          BY <3>3, <4>2
      <3> QED
        BY <1>5, <3>2, <3>4
    <2>2. ASSUME k + d > n PROVE q % n \in Overtaken(b, s)
      <3>1. PICK x \in c .. (c + d - 1) : x = (c - k) + n
        BY <1>5, <2>2
      <3>2. PICK y \in Int : y = c - k
        BY <1>5
      <3>3. x \in Int /\ \E z \in Int : x = y + n * z
        <4>1. x = y + n * 1
          BY <1>5, <3>1, <3>2
        <4> QED
          BY <1>5, <4>1
      <3>4. x % n = y % n
        BY <1>5, <3>3, ModShift
      <3> QED
        BY <1>6, <1>7, <1>8, <3>2, <3>4
    <2> QED
      BY <1>1, <1>2, <1>3, <1>4, <1>5, <2>1, <2>2
  <1>9. CASE d - 1 >= n
    <2>1. q % n \in 0 .. (n - 1)
      BY <1>5, DivMod, CircleNumbers
    <2>2. k + d > n
      BY <1>5, <1>9
    <2> QED
      BY <1>1, <1>2, <1>3, <1>4, <1>5, <1>7, <1>9, <2>1, <2>2
  <1> QED
    BY <1>5, <1>8, <1>9

\* A sequence is neither ahead nor stale exactly when it belongs to the
\* window.  Here the two comparisons meet, each settling a tie of Half as
\* integers do; with n = 1 a tie would fit neither.
LEMMA CurrentIff ==
  ASSUME NEW n \in Nat \ {0}, FitsCircle(n), NEW D, NEW b \in Buffer(n, D),
         NEW s \in Seqs
  PROVE  ~Ahead(b, s) /\ ~Stale(b, s)
           <=> Distance(b.sequence, s) \in 1 .. n
  <1>1. PICK c \in Seqs : c = b.sequence
    BY DEF Buffer
  <1>2. b.num_entries = n
    BY DEF Buffer
  <1>3. PICK h \in Nat : h = Half /\ n > 1 /\ n < h /\ SeqMod = 2 * h
    BY CircleNumbers DEF FitsCircle
  <1>4. s \in 0 .. (2 * h - 1) /\ c \in 0 .. (2 * h - 1)
    BY <1>3, CircleNumbers
  <1>5. PICK x \in 0 .. (2 * h - 1) :
           x = U16(s + 1) /\ ((s + 1 = 2 * h /\ x = 0) \/ (s + 1 < 2 * h /\ x = s + 1))
    BY <1>3, U16Value, CircleNumbers
  <1>6. U16(b.num_entries) = n
    BY <1>2, <1>3, U16Value, CircleNumbers
  <1>7. PICK y \in 0 .. (2 * h - 1) :
           y = U16(c - n) /\ ((c >= n /\ y = c - n) \/ (c < n /\ y = c - n + 2 * h))
    <2>1. PICK z \in Int : z = c - n
      BY <1>3, <1>4
    <2>2. z >= 0 - SeqMod /\ z < 2 * SeqMod /\ z < SeqMod
      BY <1>3, <1>4, <2>1
    <2>3. /\ z < 0 => U16(z) = z + SeqMod
          /\ z \in Seqs => U16(z) = z
      BY <2>2, U16Value
    <2> QED
      BY <1>3, <1>4, <2>1, <2>2, <2>3, CircleNumbers
  <1>8. PICK k \in Int :
           k = Distance(c, s) /\ ((c >= s /\ k = c - s) \/ (c < s /\ k = c - s + 2 * h))
    <2>1. \/ c >= s /\ c - s < SeqMod /\ Distance(c, s) = c - s
          \/ c < s /\ Distance(c, s) = c - s + SeqMod
          \/ c = SeqMod /\ s = 0 /\ Distance(c, s) = 0
      <3>1. c \in 0 .. SeqMod
        BY CircleNumbers
      <3> QED
        BY <3>1, DistanceValue
    <2> QED
      BY <1>3, <1>4, <2>1
  <1>9. Ahead(b, s) <=> (x > c /\ x - c <= h) \/ (x < c /\ c - x > h)
    BY <1>1, <1>3, <1>5 DEF Ahead, GreaterThan
  <1>10. Stale(b, s) <=> (y > s /\ y - s <= h) \/ (y < s /\ s - y > h)
    BY <1>1, <1>3, <1>6, <1>7 DEF Stale, LessThan, GreaterThan
  <1>11. ~((x > c /\ x - c <= h) \/ (x < c /\ c - x > h))
         /\ ~((y > s /\ y - s <= h) \/ (y < s /\ s - y > h))
           <=> k >= 1 /\ k <= n
    BY <1>3, <1>4, <1>5, <1>7, <1>8, Z3
  <1>12. Distance(b.sequence, s) \in 1 .. n <=> k >= 1 /\ k <= n
    <2>1. Distance(b.sequence, s) = k
      BY <1>1, <1>8
    <2>2. k \in 1 .. n <=> k >= 1 /\ k <= n
      OBVIOUS
    <2>3. n = n
      BY <1>3
    <2> QED
      BY <2>1, <2>2, <2>3
  <1> QED
    BY <1>9, <1>10, <1>11, <1>12

-----------------------------------------------------------------------------
(* What the operations do to the set of sequences held.                    *)

\* A sequence is in the window exactly when exists says so.
LEMMA PresentIff ==
  ASSUME NEW n \in Nat \ {0}, NEW D, NEW b \in Buffer(n, D), Windowed(b),
         NEW q \in Seqs
  PROVE  q \in Present(b) <=> Exists(b, q)
  <1>1. Slot(b, q) \in Slots(b) /\ Slots(b) = 0 .. (n - 1)
    BY SlotType, CircleNumbers
  <1>2. q # Empty
    BY CircleNumbers DEF Empty
  <1>3. ASSUME Exists(b, q) PROVE q \in Present(b)
    BY <1>1, <1>2, <1>3 DEF Exists, Present, Occupied
  <1>4. ASSUME q \in Present(b) PROVE Exists(b, q)
    BY <1>4 DEF Exists, Present, Windowed
  <1> QED
    BY <1>3, <1>4

\* What is present is 1 to n behind the end of the window.
LEMMA PresentWindow ==
  ASSUME NEW n \in Nat \ {0}, NEW D, NEW b \in Buffer(n, D), Windowed(b),
         NEW q \in Present(b)
  PROVE  q \in Seqs /\ Distance(b.sequence, q) \in 1 .. n
  BY DEF Present, Windowed, Occupied, Slots, Buffer

\* Only the sequence numbers decide what a buffer holds, not the entries' data.
LEMMA SameWindow ==
  ASSUME NEW n \in Nat \ {0}, NEW D, NEW b \in Buffer(n, D), NEW c \in Buffer(n, D),
         b.sequence = c.sequence, b.entry_sequence = c.entry_sequence
  PROVE  (Windowed(b) <=> Windowed(c)) /\ Present(b) = Present(c)
  <1>1. b.num_entries = n /\ c.num_entries = n
    BY DEF Buffer
  <1> QED
    BY <1>1 DEF Windowed, Present, Slots, Slot, Occupied

\* The fields of the buffer after advance.
LEMMA AdvanceFields ==
  ASSUME NEW n \in Nat \ {0}, NEW D, NEW b \in Buffer(n, D), NEW s \in Seqs
  PROVE  /\ Advance(b, s).entry_sequence =
              [i \in Slots(b) |-> IF i \in Overtaken(b, s) THEN Empty
                                                          ELSE b.entry_sequence[i]]
         /\ Advance(b, s).sequence = IF Ahead(b, s) THEN U16(s + 1) ELSE b.sequence
         /\ Advance(b, s).num_entries = b.num_entries
         /\ Advance(b, s).entry_data = b.entry_data
  BY DEF Advance, Buffer

\* A sequence that is not ahead moves nothing.
LEMMA NoAdvance ==
  ASSUME NEW n \in Nat \ {0}, NEW D, NEW b \in Buffer(n, D), NEW s \in Seqs,
         ~Ahead(b, s)
  PROVE  Advance(b, s) = b
  <1>1. Overtaken(b, s) = {}
    BY DEF Overtaken
  <1>2. [i \in Slots(b) |-> b.entry_sequence[i]] = b.entry_sequence
    BY DEF Buffer, Slots
  <1> QED
    BY <1>1, <1>2 DEF Advance, Buffer

\* The slide of the window: an advance forgets what it leaves more than
\* n behind, and nothing else.
LEMMA AdvanceWindow ==
  ASSUME NEW n \in Nat \ {0}, FitsCircle(n), NEW D, NEW b \in Buffer(n, D),
         Windowed(b), NEW s \in Seqs, Ahead(b, s)
  PROVE  /\ Windowed(Advance(b, s))
         /\ Present(Advance(b, s)) =
              {q \in Present(b) :
                 Distance(b.sequence, q) + Distance(s + 1, b.sequence) <= n}
  <1> DEFINE c == Advance(b, s)
             d == Distance(s + 1, b.sequence)
  <1>1. /\ c \in Buffer(n, D) /\ c.num_entries = n /\ b.num_entries = n
        /\ Slots(c) = 0 .. (n - 1) /\ Slots(b) = 0 .. (n - 1)
    <2>1. c \in Buffer(n, D)
      BY AdvanceType
    <2> HIDE DEF c
    <2> QED
      BY <2>1 DEF Slots, Buffer
  <1>2. c.sequence = U16(s + 1)
    BY AdvanceFields
  <1>3. \A i \in 0 .. (n - 1) :
           c.entry_sequence[i] = IF i \in Overtaken(b, s) THEN Empty
                                                          ELSE b.entry_sequence[i]
    <2>1. c.entry_sequence = [i \in Slots(b) |-> IF i \in Overtaken(b, s) THEN Empty
                                                   ELSE b.entry_sequence[i]]
      BY AdvanceFields
    <2> HIDE DEF c
    <2> QED
      BY ONLY <1>1, <2>1
  <1>4. d \in 1 .. Half /\ b.sequence \in Seqs
    BY AheadStep DEF Buffer
  <1>5. ASSUME NEW i \in 0 .. (n - 1), Occupied(b, i)
        PROVE  /\ b.entry_sequence[i] \in Seqs
               /\ Slot(b, b.entry_sequence[i]) = i
               /\ Distance(b.sequence, b.entry_sequence[i]) \in 1 .. n
               /\ Occupied(c, i) <=> Distance(b.sequence, b.entry_sequence[i]) + d <= n
    <2>1. /\ b.entry_sequence[i] \in Seqs
          /\ Slot(b, b.entry_sequence[i]) = i
          /\ Distance(b.sequence, b.entry_sequence[i]) \in 1 .. n
      BY <1>1, <1>5 DEF Windowed, Occupied, Buffer
    <2>2. PICK k \in 1 .. n : k = Distance(b.sequence, b.entry_sequence[i])
      BY <2>1
    <2>3. i \in Overtaken(b, s) <=> k + d > n
      BY <2>1, <2>2, OvertakenIff
    <2>4. Occupied(c, i) <=> i \notin Overtaken(b, s)
      BY <1>3, <1>5 DEF Occupied
    <2>5. k + d > n <=> ~(k + d <= n)
      BY <1>4, CircleNumbers
    <2> QED
      BY <2>1, <2>2, <2>3, <2>4, <2>5
  <1>6. ASSUME NEW i \in 0 .. (n - 1), Occupied(c, i)
        PROVE  Occupied(b, i) /\ c.entry_sequence[i] = b.entry_sequence[i]
    BY <1>3, <1>6 DEF Occupied
  <1>7. Windowed(c)
    <2> SUFFICES ASSUME NEW i \in 0 .. (n - 1), Occupied(c, i)
                 PROVE  /\ Slot(c, c.entry_sequence[i]) = i
                        /\ Distance(c.sequence, c.entry_sequence[i]) \in 1 .. n
      BY <1>1 DEF Windowed
    <2>1. PICK q \in Seqs : q = c.entry_sequence[i] /\ q = b.entry_sequence[i]
      BY <1>5, <1>6
    <2>2. Slot(c, q) = i
      BY <1>1, <1>5, <1>6, <2>1 DEF Slot
    <2>3. PICK k \in 1 .. n : k = Distance(b.sequence, q) /\ k + d <= n
      BY <1>5, <1>6, <2>1
    <2>4. n < SeqMod
      BY CircleNumbers DEF FitsCircle
    <2>5. PICK a \in 0 .. SeqMod : a = s + 1
      BY CircleNumbers
    <2>6. Distance(a, q) = k + d
      BY <1>4, <2>3, <2>4, <2>5, DistanceAdds, CircleNumbers
    <2>7. Distance(c.sequence, q) = k + d
      BY <1>2, <2>5, <2>6, SuccessorDistance
    <2> QED
      BY <1>4, <2>1, <2>2, <2>3, <2>7, CircleNumbers
  <1>8. ASSUME NEW q \in Present(c)
        PROVE  q \in Present(b) /\ Distance(b.sequence, q) + d <= n
    <2>1. PICK i \in 0 .. (n - 1) : Occupied(c, i) /\ q = c.entry_sequence[i]
      BY <1>1, <1>8 DEF Present
    <2> QED
      BY <1>1, <1>5, <1>6, <2>1 DEF Present
  <1>9. ASSUME NEW q \in Present(b), Distance(b.sequence, q) + d <= n
        PROVE  q \in Present(c)
    <2>1. PICK i \in 0 .. (n - 1) : Occupied(b, i) /\ q = b.entry_sequence[i]
      BY <1>1 DEF Present
    <2>2. Occupied(c, i)
      BY <1>5, <1>9, <2>1
    <2> QED
      BY <1>1, <1>6, <2>1, <2>2 DEF Present
  <1> QED
    BY <1>7, <1>8, <1>9

\* Storing a sequence of the window adds it and disturbs no other: whatever
\* its slot held was the same sequence.
LEMMA StoreWindow ==
  ASSUME NEW n \in Nat \ {0}, FitsCircle(n), NEW D, NEW b \in Buffer(n, D),
         Windowed(b), NEW s \in Seqs,
         Distance(b.sequence, s) \in 1 .. n
  PROVE  /\ Windowed(Store(b, s))
         /\ Present(Store(b, s)) = Present(b) \cup {s}
  <1> DEFINE c == Store(b, s)
             j == Slot(b, s)
  <1>1. /\ c \in Buffer(n, D) /\ c.num_entries = n /\ b.num_entries = n
        /\ Slots(c) = 0 .. (n - 1) /\ Slots(b) = 0 .. (n - 1)
    <2>1. c \in Buffer(n, D)
      BY StoreType
    <2> HIDE DEF c
    <2> QED
      BY <2>1 DEF Slots, Buffer
  <1>2. j \in 0 .. (n - 1) /\ j = s % n
    <2>1. s \in Int
      BY CircleNumbers
    <2>2. j \in 0 .. (n - 1)
      BY <2>1, SlotType
    <2> QED
      BY <1>1, <2>2 DEF Slot
  <1>3. c.sequence = b.sequence /\ b.sequence \in 0 .. SeqMod
    BY CircleNumbers DEF Store, Buffer
  <1>4. /\ c.entry_sequence[j] = s
        /\ \A i \in 0 .. (n - 1) : i # j => c.entry_sequence[i] = b.entry_sequence[i]
    BY <1>1, <1>2 DEF Store, Buffer
  <1>5. s # Empty
    BY CircleNumbers DEF Empty
  <1>6. Windowed(c)
    <2> SUFFICES ASSUME NEW i \in 0 .. (n - 1), Occupied(c, i)
                 PROVE  /\ Slot(c, c.entry_sequence[i]) = i
                        /\ Distance(c.sequence, c.entry_sequence[i]) \in 1 .. n
      BY <1>1 DEF Windowed
    <2>1. CASE i = j
      BY <1>1, <1>2, <1>3, <1>4, <2>1 DEF Slot
    <2>2. CASE i # j
      BY <1>1, <1>3, <1>4, <2>2 DEF Windowed, Occupied, Slot
    <2> QED
      BY <2>1, <2>2
  <1>7. ASSUME NEW q \in Present(c)
        PROVE  q \in Present(b) \cup {s}
    BY <1>1, <1>4 DEF Present, Occupied
  <1>8. s \in Present(c)
    BY <1>1, <1>2, <1>4, <1>5 DEF Present, Occupied
  <1>9. ASSUME NEW q \in Present(b)
        PROVE  q \in Present(c)
    <2>1. PICK i \in 0 .. (n - 1) : Occupied(b, i) /\ q = b.entry_sequence[i]
      BY <1>1 DEF Present
    <2>2. q \in Seqs /\ Distance(b.sequence, q) \in 1 .. n /\ q % n = i
      BY <1>1, <2>1, PresentWindow DEF Windowed, Slot
    <2>3. CASE i = j
      <3>1. q = s
        BY <1>2, <1>3, <2>2, <2>3, WindowInjective
      <3> QED
        BY <1>8, <3>1
    <2>4. CASE i # j
      BY <1>1, <1>4, <2>1, <2>4 DEF Present, Occupied
    <2> QED
      BY <2>3, <2>4
  <1> QED
    BY <1>6, <1>7, <1>8, <1>9

\* Removing a sequence the buffer holds removes that sequence alone.
LEMMA RemoveWindow ==
  ASSUME NEW n \in Nat \ {0}, NEW D, NEW b \in Buffer(n, D), Windowed(b),
         NEW s \in Seqs, Exists(b, s)
  PROVE  /\ Windowed(Remove(b, s))
         /\ Present(Remove(b, s)) = Present(b) \ {s}
  <1> DEFINE c == Remove(b, s)
             j == Slot(b, s)
  <1>1. /\ c \in Buffer(n, D) /\ c.num_entries = n /\ b.num_entries = n
        /\ Slots(c) = 0 .. (n - 1) /\ Slots(b) = 0 .. (n - 1)
    <2>1. c \in Buffer(n, D)
      BY RemoveType
    <2> HIDE DEF c
    <2> QED
      BY <2>1 DEF Slots, Buffer
  <1>2. j \in 0 .. (n - 1) /\ c.sequence = b.sequence
    <2>1. j \in 0 .. (n - 1)
      <3>1. s \in Int
        BY CircleNumbers
      <3> QED
        BY <3>1, SlotType
    <2>2. c.sequence = b.sequence
      BY DEF Remove, Buffer
    <2> QED
      BY <2>1, <2>2
  <1>3. /\ ~Occupied(c, j)
        /\ \A i \in 0 .. (n - 1) : i # j => c.entry_sequence[i] = b.entry_sequence[i]
    BY <1>1, <1>2 DEF Remove, Buffer, Occupied
  <1>4. Windowed(c)
    BY <1>1, <1>2, <1>3 DEF Windowed, Occupied, Slot
  <1>5. ASSUME NEW q \in Present(c)
        PROVE  q \in Present(b) \ {s}
    <2>1. PICK i \in 0 .. (n - 1) : Occupied(c, i) /\ q = c.entry_sequence[i]
      BY <1>1 DEF Present
    <2>2. i # j /\ q = b.entry_sequence[i] /\ Occupied(b, i)
      BY <1>3, <2>1 DEF Occupied
    <2>3. Slot(b, q) = i
      BY <1>1, <2>2 DEF Windowed
    <2> QED
      BY <1>1, <2>2, <2>3 DEF Present
  <1>6. ASSUME NEW q \in Present(b) \ {s}
        PROVE  q \in Present(c)
    <2>1. PICK i \in 0 .. (n - 1) : Occupied(b, i) /\ q = b.entry_sequence[i]
      BY <1>1, <1>6 DEF Present
    <2>2. i # j
      BY <1>6, <2>1 DEF Exists
    <2> QED
      BY <1>1, <1>3, <2>1, <2>2 DEF Present, Occupied
  <1> QED
    BY <1>4, <1>5, <1>6

\* An insertion that is not refused slides the window if s is ahead, and puts
\* s into it.  InsertWithCleanup differs in the entries' data alone.
LEMMA InsertWindow ==
  ASSUME NEW n \in Nat \ {0}, FitsCircle(n), NEW D, NEW b \in Buffer(n, D),
         Windowed(b), NEW s \in Seqs,
         Ahead(b, s) \/ ~Stale(b, s)
  PROVE  /\ Insert(b, s) \in Buffer(n, D)
         /\ Insert(b, s).sequence = IF Ahead(b, s) THEN U16(s + 1) ELSE b.sequence
         /\ Windowed(Insert(b, s))
         /\ Present(Insert(b, s)) = Present(Advance(b, s)) \cup {s}
  <1> DEFINE c == Advance(b, s)
  <1>1. c \in Buffer(n, D) /\ Insert(b, s) \in Buffer(n, D) /\ b.sequence \in Seqs
    BY AdvanceType, StoreType DEF Insert, Buffer
  <1>2. /\ c.sequence = IF Ahead(b, s) THEN U16(s + 1) ELSE b.sequence
        /\ Insert(b, s).sequence = c.sequence
    <2>1. c.sequence = IF Ahead(b, s) THEN U16(s + 1) ELSE b.sequence
      BY AdvanceFields
    <2>2. Insert(b, s) = Store(c, s)
      BY DEF Insert
    <2> HIDE DEF c
    <2> QED
      BY <1>1, <2>1, <2>2 DEF Store, Buffer
  <1>3. Windowed(c) /\ Distance(c.sequence, s) \in 1 .. n
    <2>1. CASE Ahead(b, s)
      <3>1. PICK a \in 0 .. SeqMod : a = s + 1 /\ s \in Int
        BY CircleNumbers
      <3>2. \/ a >= s /\ a - s < SeqMod /\ Distance(a, s) = a - s
            \/ a < s /\ Distance(a, s) = a - s + SeqMod
            \/ a = SeqMod /\ s = 0 /\ Distance(a, s) = 0
        BY DistanceValue
      <3>3. Distance(a, s) = 1
        BY <3>1, <3>2, CircleNumbers
      <3>4. Distance(c.sequence, s) = 1
        BY <1>2, <2>1, <3>1, <3>3, SuccessorDistance
      <3> QED
        BY <2>1, <3>4, AdvanceWindow, CircleNumbers
    <2>2. CASE ~Ahead(b, s)
      BY <2>2, NoAdvance, CurrentIff
    <2> QED
      BY <2>1, <2>2
  <1> QED
    BY <1>1, <1>2, <1>3, StoreWindow DEF Insert

\* After reset the window is empty.
LEMMA ResetWindow ==
  ASSUME NEW n \in Nat \ {0}, NEW D, NEW b \in Buffer(n, D)
  PROVE  Windowed(ResetBuffer(b)) /\ Present(ResetBuffer(b)) = {}
  <1>1. ResetBuffer(b) \in Buffer(n, D)
    BY ResetType
  <1>2. \A i \in Slots(ResetBuffer(b)) : ~Occupied(ResetBuffer(b), i)
    BY <1>1 DEF ResetBuffer, Slots, Occupied, Buffer
  <1> QED
    BY <1>2 DEF Windowed, Present

\* A new window is empty.
LEMMA CreateWindow ==
  ASSUME NEW n, NEW data
  PROVE  Windowed(CreateBuffer(n, data)) /\ Present(CreateBuffer(n, data)) = {}
  BY DEF CreateBuffer, Windowed, Present, Occupied, Slots

-----------------------------------------------------------------------------
(* Buffers whose entries hold blocks: the owner inserts with a cleanup and   *)
(* writes a block, entry, into the new entry.                              *)

\* The fields after an insert with cleanup and the data that is then set.
LEMMA InsertOwnedBuffer ==
  ASSUME NEW n \in Nat \ {0}, NEW D, NULL \in D, NEW b \in Buffer(n, D),
         NEW s \in Seqs,
         NEW entry \in D
  PROVE  LET c == [InsertWithCleanup(b, s) EXCEPT !.entry_data[Slot(b, s)] = entry]
         IN  /\ c \in Buffer(n, D)
             /\ c.sequence = Insert(b, s).sequence
             /\ c.entry_sequence = Insert(b, s).entry_sequence
             /\ \A i \in 0 .. (n - 1) :
                   c.entry_data[i] = IF i = Slot(b, s) THEN entry
                                     ELSE IF i \in InsertCleans(b, s) THEN NULL
                                     ELSE b.entry_data[i]
  <1> DEFINE a == Advance(b, s)
             d == Cleanup(a, InsertCleans(b, s))
             e == Store(d, s)
             j == Slot(b, s)
             c == [e EXCEPT !.entry_data[j] = entry]
  <1>1. a \in Buffer(n, D) /\ a.entry_data = b.entry_data
    BY AdvanceType, AdvanceFields
  <1>2. d \in Buffer(n, D) /\ Slots(a) = 0 .. (n - 1)
    BY <1>1, CleanupType DEF Slots, Buffer
  <1>3. e \in Buffer(n, D)
    BY <1>2, StoreType
  <1>4. c \in Buffer(n, D)
    BY <1>3, EntryType
  <1>5. /\ d.sequence = a.sequence /\ d.entry_sequence = a.entry_sequence
        /\ d.num_entries = a.num_entries
        /\ d.entry_data = [i \in 0 .. (n - 1) |->
                             IF i \in InsertCleans(b, s) THEN NULL ELSE b.entry_data[i]]
    BY <1>1, <1>2 DEF Cleanup, Buffer
  <1>6. /\ e.sequence = d.sequence /\ e.entry_data = d.entry_data
        /\ e.entry_sequence = [d.entry_sequence EXCEPT ![Slot(d, s)] = s]
    BY <1>2 DEF Store, Buffer
  <1>7. /\ c.sequence = e.sequence /\ c.entry_sequence = e.entry_sequence
        /\ c.entry_data = [e.entry_data EXCEPT ![j] = entry]
    BY <1>3 DEF Buffer
  <1>8. /\ Insert(b, s).sequence = a.sequence
        /\ Insert(b, s).entry_sequence = [a.entry_sequence EXCEPT ![Slot(a, s)] = s]
    BY <1>1 DEF Insert, Store, Buffer
  <1>9. Slot(d, s) = Slot(a, s)
    BY <1>5 DEF Slot
  <1>10. \A i \in 0 .. (n - 1) :
            c.entry_data[i] = IF i = j THEN entry
                              ELSE IF i \in InsertCleans(b, s) THEN NULL
                              ELSE b.entry_data[i]
    BY <1>5, <1>6, <1>7
  <1>11. c = [InsertWithCleanup(b, s) EXCEPT !.entry_data[Slot(b, s)] = entry]
    BY DEF InsertWithCleanup
  <1> HIDE DEF c
  <1> QED
    BY <1>4, <1>5, <1>6, <1>7, <1>8, <1>9, <1>10, <1>11

\* What an advance, a cleanup and a removal leave in each slot.
LEMMA AdvanceAt ==
  ASSUME NEW n \in Nat \ {0}, NEW D, NEW b \in Buffer(n, D), NEW s \in Seqs
  PROVE  /\ Advance(b, s) \in Buffer(n, D)
         /\ Advance(b, s).entry_data = b.entry_data
         /\ \A i \in 0 .. (n - 1) :
               Advance(b, s).entry_sequence[i] =
                 IF i \in Overtaken(b, s) THEN Empty ELSE b.entry_sequence[i]
  <1>1. Slots(b) = 0 .. (n - 1)
    BY DEF Slots, Buffer
  <1>2. Advance(b, s) \in Buffer(n, D)
    BY AdvanceType
  <1>3. /\ Advance(b, s).entry_data = b.entry_data
        /\ Advance(b, s).entry_sequence =
             [i \in Slots(b) |-> IF i \in Overtaken(b, s) THEN Empty
                                                         ELSE b.entry_sequence[i]]
    BY AdvanceFields
  <1> QED
    BY <1>1, <1>2, <1>3

\* The fields after the cleanup function.
LEMMA CleanupAt ==
  ASSUME NEW n \in Nat \ {0}, NEW D, NULL \in D, NEW b \in Buffer(n, D), NEW S
  PROVE  /\ Cleanup(b, S) \in Buffer(n, D)
         /\ Cleanup(b, S).sequence = b.sequence
         /\ Cleanup(b, S).entry_sequence = b.entry_sequence
         /\ \A i \in 0 .. (n - 1) :
               Cleanup(b, S).entry_data[i] = IF i \in S THEN NULL ELSE b.entry_data[i]
  <1>1. Slots(b) = 0 .. (n - 1)
    BY DEF Slots, Buffer
  <1> QED
    BY <1>1, CleanupType DEF Cleanup, Buffer

\* The fields after remove.
LEMMA RemoveAt ==
  ASSUME NEW n \in Nat \ {0}, NEW D, NEW b \in Buffer(n, D), NEW s \in Seqs
  PROVE  /\ Remove(b, s) \in Buffer(n, D)
         /\ Remove(b, s).sequence = b.sequence
         /\ Remove(b, s).entry_data = b.entry_data
         /\ \A i \in 0 .. (n - 1) :
               Remove(b, s).entry_sequence[i] =
                 IF i = Slot(b, s) THEN Empty ELSE b.entry_sequence[i]
  <1>1. Remove(b, s) \in Buffer(n, D)
    BY RemoveType
  <1> QED
    BY <1>1 DEF Remove, Buffer

\* The slots are the indices of the arrays.
LEMMA SlotsValue ==
  ASSUME NEW n \in Nat \ {0}, NEW D, NEW b \in Buffer(n, D)
  PROVE  Slots(b) = 0 .. (n - 1) /\ b.num_entries = n
  BY DEF Slots, Buffer

\* The slots that have a block.
Blocks(n, b) == {i \in 0 .. (n - 1) : b.entry_data[i] # NULL}

\* Freed counts the blocks of the slots it is given.
LEMMA FreedCount ==
  ASSUME NEW n \in Nat \ {0}, NEW D, NEW b \in Buffer(n, D), NEW S \in SUBSET Slots(b)
  PROVE  /\ IsFiniteSet(Blocks(n, b))
         /\ Freed(b, S) = Cardinality(Blocks(n, b) \cap S)
         /\ Freed(b, S) \in Nat
         /\ Freed(b, Slots(b)) = Cardinality(Blocks(n, b))
         /\ Freed(b, Slots(b)) \in Nat
  <1>1. Slots(b) = 0 .. (n - 1)
    BY DEF Slots, Buffer
  <1>2. IsFiniteSet(0 .. (n - 1))
    BY FS_Interval, CircleNumbers
  <1>3. IsFiniteSet(Blocks(n, b))
    BY <1>2, FS_Subset DEF Blocks
  <1>4. IsFiniteSet(Blocks(n, b) \cap S)
    BY <1>3, FS_Subset
  <1>5. /\ {i \in S : b.entry_data[i] # NULL} = Blocks(n, b) \cap S
        /\ {i \in Slots(b) : b.entry_data[i] # NULL} = Blocks(n, b)
    BY <1>1 DEF Blocks
  <1> QED
    BY <1>3, <1>4, <1>5, FS_CardinalityType DEF Freed

\* After the blocks of S are freed, the others are left.
LEMMA FreedRest ==
  ASSUME NEW n \in Nat \ {0}, NEW D, NEW b \in Buffer(n, D), NEW c \in Buffer(n,
         D), NEW S \in SUBSET Slots(b),
         Blocks(n, c) = Blocks(n, b) \ S
  PROVE  Freed(c, Slots(c)) = Freed(b, Slots(b)) - Freed(b, S)
  <1>1. Cardinality(Blocks(n, b) \ S) = Cardinality(Blocks(n, b)) - Cardinality(Blocks(n, b) \cap S)
    BY FreedCount, FS_Difference
  <1>2. Freed(c, Slots(c)) = Cardinality(Blocks(n, c))
    BY FreedCount
  <1> QED
    BY <1>1, <1>2, FreedCount

\* A slot without a block gets one.
LEMMA FreedRestAndOne ==
  ASSUME NEW n \in Nat \ {0}, NEW D, NEW b \in Buffer(n, D), NEW c \in Buffer(n,
         D), NEW S \in SUBSET Slots(b), NEW j,
         j \notin Blocks(n, b) \ S, Blocks(n, c) = (Blocks(n, b) \ S) \cup {j}
  PROVE  Freed(c, Slots(c)) = Freed(b, Slots(b)) - Freed(b, S) + 1
  <1>1. /\ IsFiniteSet(Blocks(n, b) \ S)
        /\ Cardinality(Blocks(n, b) \ S)
             = Cardinality(Blocks(n, b)) - Cardinality(Blocks(n, b) \cap S)
    BY FreedCount, FS_Difference
  <1>2. Cardinality(Blocks(n, c)) = Cardinality(Blocks(n, b) \ S) + 1
    BY <1>1, FS_AddElement
  <1>3. Freed(c, Slots(c)) = Cardinality(Blocks(n, c))
    BY FreedCount
  <1> QED
    BY <1>1, <1>2, <1>3, FreedCount

\* The slots the operations clean are slots of the buffer.
LEMMA CleanedSlots ==
  ASSUME NEW n \in Nat \ {0}, NEW D, NEW b \in Buffer(n, D), NEW s \in Seqs
  PROVE  /\ Overtaken(b, s) \in SUBSET Slots(b)
         /\ InsertCleans(b, s) \in SUBSET Slots(b)
         /\ RemoveCleans(b, s) \in SUBSET Slots(b)
         /\ Slot(b, s) \in Slots(b)
  <1>1. \A q \in Int : Slot(b, q) \in Slots(b)
    BY SlotType
  <1>2. s \in Int /\ Slot(b, s) \in Slots(b)
    BY <1>1, CircleNumbers
  <1>3. PICK c \in Int : c = b.sequence
    BY CircleNumbers DEF Buffer
  <1>4. Overtaken(b, s) \in SUBSET Slots(b)
    <2>1. \A x \in Int : \A q \in c .. x : Slot(b, q) \in Slots(b)
      BY <1>1
    <2>2. (IF s < c THEN s + SeqMod ELSE s) \in Int
      BY <1>2, CircleNumbers
    <2> QED
      BY <1>3, <2>1, <2>2 DEF Overtaken, ClearedSlots
  <1> QED
    BY <1>2, <1>4 DEF InsertCleans, RemoveCleans

\* An entry is occupied if and only if it holds a block, and the owner's k
\* blocks are these.
Accounted(b, k) == /\ \A i \in Slots(b) : Occupied(b, i) <=> b.entry_data[i] # NULL
                   /\ k = Freed(b, Slots(b))

\* A count of blocks is a number.
LEMMA AccountedNumber ==
  ASSUME NEW n \in Nat \ {0}, NEW D, NEW b \in Buffer(n, D), NEW k, Accounted(b, k)
  PROVE  k \in Nat
  BY FreedCount DEF Accounted

\* A new buffer owns no block.
LEMMA CreateAccounted ==
  ASSUME NEW n \in Nat \ {0}
  PROVE  Accounted(CreateBuffer(n, NULL), 0)
  <1> DEFINE b == CreateBuffer(n, NULL)
             I == 0 .. (n - 1)
  <1>1. /\ b \in Buffer(n, {NULL}) /\ Slots(b) = I
        /\ \A i \in I : ~Occupied(b, i) /\ b.entry_data[i] = NULL
    BY CreateType DEF CreateBuffer, Slots, Occupied
  <1>2. Blocks(n, b) = {}
    BY <1>1 DEF Blocks
  <1> HIDE DEF b
  <1>3. Freed(b, Slots(b)) = 0
    BY <1>1, <1>2, FreedCount, FS_EmptySet
  <1> QED
    BY <1>1, <1>3 DEF Accounted, b

\* What an insertion does to the blocks: its own slot has one, the slots it
\* cleans have none, the others keep theirs.
LEMMA InsertAccounted ==
  ASSUME NEW n \in Nat \ {0}, NEW D, NULL \in D, NEW b \in Buffer(n, D),
         NEW s \in Seqs,
         NEW entry \in D, entry # NULL, NEW k, Accounted(b, k)
  PROVE  Accounted([InsertWithCleanup(b, s) EXCEPT !.entry_data[Slot(b, s)] = entry],
                   k - Freed(b, InsertCleans(b, s)) + 1)
  <1> DEFINE a == Advance(b, s)
             j == Slot(b, s)
             S == InsertCleans(b, s)
             I == 0 .. (n - 1)
  <1>1. PICK c \in Buffer(n, D) :
           c = [InsertWithCleanup(b, s) EXCEPT !.entry_data[Slot(b, s)] = entry]
    BY InsertOwnedBuffer
  <1>2. /\ Slots(b) = I /\ Slots(c) = I /\ b.num_entries = n
        /\ S \in SUBSET I /\ j \in I /\ s # Empty
    <2>1. /\ Slots(b) = I /\ Slots(c) = I /\ b.num_entries = n
      BY SlotsValue
    <2>2. S \in SUBSET Slots(b) /\ j \in Slots(b)
      BY CleanedSlots
    <2>3. s # Empty
      BY CircleNumbers DEF Empty
    <2> QED
      BY <2>1, <2>2, <2>3
  <1>3. \A i \in I : c.entry_data[i] = IF i = j THEN entry
                                       ELSE IF i \in S THEN NULL ELSE b.entry_data[i]
    BY <1>1, InsertOwnedBuffer
  <1>4. a \in Buffer(n, D) /\ a.num_entries = n
        /\ \A i \in I : a.entry_sequence[i] =
              IF i \in Overtaken(b, s) THEN Empty ELSE b.entry_sequence[i]
    <2>1. a \in Buffer(n, D)
      BY AdvanceAt
    <2> QED
      BY <2>1, AdvanceAt, SlotsValue
  <1>5. Slot(a, s) = j
    BY <1>2, <1>4 DEF Slot
  <1>6. \A i \in I : c.entry_sequence[i] = IF i = j THEN s ELSE a.entry_sequence[i]
    <2>1. c.entry_sequence = Insert(b, s).entry_sequence
      BY <1>1, InsertOwnedBuffer
    <2>2. Insert(b, s).entry_sequence = [a.entry_sequence EXCEPT ![j] = s]
      BY <1>4, <1>5 DEF Insert, Store, Buffer
    <2>3. a.entry_sequence \in [I -> Seqs \cup {Empty}]
      BY <1>4 DEF Buffer
    <2> QED
      BY <1>2, <2>1, <2>2, <2>3
  <1>7. entry # NULL
    OBVIOUS
  <1>8. \A i \in I : i # j => (i \in S <=> i \in Overtaken(b, s))
    BY DEF InsertCleans
  <1>9. j \in Overtaken(b, s) \/ Occupied(a, j) => j \in S
    BY DEF InsertCleans
  <1>10. ASSUME NEW i \in Slots(c)
        PROVE  Occupied(c, i) <=> c.entry_data[i] # NULL
    <2>1. CASE i = j
      BY <1>2, <1>3, <1>6, <1>7, <2>1 DEF Occupied
    <2>2. CASE i # j
      BY <1>2, <1>3, <1>4, <1>6, <1>8, <2>2 DEF Occupied, Accounted
    <2> QED
      BY <2>1, <2>2
  <1>11. j \notin Blocks(n, b) \ S
    BY <1>2, <1>4, <1>9 DEF Blocks, Occupied, Accounted
  <1>12. Blocks(n, c) = (Blocks(n, b) \ S) \cup {j}
    BY <1>2, <1>3, <1>7 DEF Blocks
  <1>13. Freed(c, Slots(c)) = Freed(b, Slots(b)) - Freed(b, S) + 1
    BY <1>2, <1>11, <1>12, FreedRestAndOne
  <1>14. Accounted(c, k - Freed(b, S) + 1)
    BY <1>10, <1>13 DEF Accounted
  <1> QED
    BY <1>1, <1>14

\* The blocks of S go, with the entries that held them.
LEMMA CleanAccounted ==
  ASSUME NEW n \in Nat \ {0}, NEW D, NULL \in D, NEW b \in Buffer(n, D), NEW k,
         Accounted(b, k), NEW S \in SUBSET Slots(b), NEW a \in Buffer(n, D),
         a.entry_data = b.entry_data,
         \A i \in Slots(b) : \/ i \notin S /\ a.entry_sequence[i] = b.entry_sequence[i]
                             \/ ~Occupied(a, i) /\ (i \in S \/ ~Occupied(b, i))
  PROVE  Accounted(Cleanup(a, S), k - Freed(b, S))
  <1> DEFINE I == 0 .. (n - 1)
             c == Cleanup(a, S)
  <1>1. /\ c \in Buffer(n, D) /\ c.entry_sequence = a.entry_sequence
        /\ \A i \in I : c.entry_data[i] = IF i \in S THEN NULL ELSE b.entry_data[i]
    BY CleanupAt
  <1>2. Slots(b) = I /\ Slots(c) = I
    BY <1>1, SlotsValue
  <1> HIDE DEF c
  <1>3. \A i \in I : Occupied(c, i) <=> c.entry_data[i] # NULL
    BY <1>1, <1>2 DEF Occupied, Accounted
  <1>4. Blocks(n, c) = Blocks(n, b) \ S
    BY <1>1 DEF Blocks
  <1>5. Freed(c, Slots(c)) = Freed(b, Slots(b)) - Freed(b, S)
    BY <1>1, <1>4, FreedRest
  <1> QED
    BY <1>2, <1>3, <1>5 DEF Accounted, c

\* advance with cleanup frees the blocks it cleans.
LEMMA AdvanceAccounted ==
  ASSUME NEW n \in Nat \ {0}, NEW D, NULL \in D, NEW b \in Buffer(n, D),
         NEW s \in Seqs,
         NEW k, Accounted(b, k)
  PROVE  Accounted(AdvanceWithCleanup(b, s), k - Freed(b, Overtaken(b, s)))
  <1>1. PICK a \in Buffer(n, D) : a = Advance(b, s)
    BY AdvanceAt
  <1>2. PICK S \in SUBSET Slots(b) : S = Overtaken(b, s)
    BY CleanedSlots
  <1>3. /\ a.entry_data = b.entry_data
        /\ \A i \in Slots(b) : a.entry_sequence[i] =
              IF i \in S THEN Empty ELSE b.entry_sequence[i]
    BY <1>1, <1>2, AdvanceAt, SlotsValue
  <1>4. Accounted(Cleanup(a, S), k - Freed(b, S))
    BY <1>3, CleanAccounted DEF Occupied
  <1> QED
    BY <1>1, <1>2, <1>4 DEF AdvanceWithCleanup

\* So does remove with cleanup.
LEMMA RemoveAccounted ==
  ASSUME NEW n \in Nat \ {0}, NEW D, NULL \in D, NEW b \in Buffer(n, D),
         NEW s \in Seqs,
         NEW k, Accounted(b, k)
  PROVE  Accounted(RemoveWithCleanup(b, s), k - Freed(b, RemoveCleans(b, s)))
  <1>1. PICK a \in Buffer(n, D) : a = Remove(b, s)
    BY RemoveAt
  <1>2. PICK S \in SUBSET Slots(b) : S = RemoveCleans(b, s)
    BY CleanedSlots
  <1>3. /\ a.entry_data = b.entry_data
        /\ \A i \in Slots(b) : a.entry_sequence[i] =
              IF i = Slot(b, s) THEN Empty ELSE b.entry_sequence[i]
    BY <1>1, RemoveAt, SlotsValue
  <1>4. \A i \in Slots(b) : i \in S <=> i = Slot(b, s) /\ Occupied(b, i)
    BY <1>2, CleanedSlots DEF RemoveCleans
  <1>5. Accounted(Cleanup(a, S), k - Freed(b, S))
    BY <1>3, <1>4, CleanAccounted DEF Occupied
  <1> QED
    BY <1>1, <1>2, <1>5 DEF RemoveWithCleanup

\* The owner frees the blocks of the occupied entries, then resets.
LEMMA ResetAccounted ==
  ASSUME NEW n \in Nat \ {0}, NEW D, NULL \in D, NEW b \in Buffer(n, D), NEW k,
         Accounted(b, k), NEW S, S = {i \in Slots(b) : Occupied(b, i)}
  PROVE  /\ ResetBuffer(Cleanup(b, S)) \in Buffer(n, D)
         /\ ResetBuffer(Cleanup(b, S)).sequence = 0
         /\ Accounted(ResetBuffer(Cleanup(b, S)), k - Freed(b, S))
  <1> DEFINE I == 0 .. (n - 1)
             d == Cleanup(b, S)
             c == ResetBuffer(d)
  <1>1. /\ d \in Buffer(n, D)
        /\ \A i \in I : d.entry_data[i] = IF i \in S THEN NULL ELSE b.entry_data[i]
    BY CleanupAt
  <1>2. Slots(b) = I /\ Slots(d) = I
    BY <1>1, SlotsValue
  <1> HIDE DEF d
  <1>3. /\ c \in Buffer(n, D) /\ c.entry_data = d.entry_data /\ c.sequence = 0
        /\ \A i \in I : c.entry_sequence[i] = Empty
    BY <1>1, <1>2, ResetType DEF ResetBuffer, Buffer
  <1>4. Slots(c) = I
    BY <1>3, SlotsValue
  <1> HIDE DEF c
  <1>5. \A i \in I : c.entry_data[i] = NULL
    BY <1>1, <1>2, <1>3 DEF Accounted
  <1>6. \A i \in I : Occupied(c, i) <=> c.entry_data[i] # NULL
    BY <1>3, <1>5 DEF Occupied
  <1>7. Blocks(n, c) = Blocks(n, b) \ S
    BY <1>2, <1>5 DEF Blocks, Accounted
  <1>8. Freed(c, Slots(c)) = Freed(b, Slots(b)) - Freed(b, S)
    BY <1>2, <1>3, <1>7, FreedRest
  <1>9. Accounted(c, k - Freed(b, S))
    BY <1>4, <1>6, <1>8 DEF Accounted
  <1> QED
    BY <1>3, <1>9 DEF c, d

\* The owner rewrites a block.
LEMMA EntryAccounted ==
  ASSUME NEW n \in Nat \ {0}, NEW D, NEW b \in Buffer(n, D), NEW k, Accounted(b, k),
         NEW i \in Slots(b), b.entry_data[i] # NULL, NEW entry \in D, entry # NULL
  PROVE  Accounted([b EXCEPT !.entry_data[i] = entry], k)
  <1>1. PICK c \in Buffer(n, D) : c = [b EXCEPT !.entry_data[i] = entry]
    BY EntryType
  <1>2. Slots(b) = 0 .. (n - 1) /\ Slots(c) = 0 .. (n - 1)
    BY SlotsValue
  <1>3. /\ c.entry_sequence = b.entry_sequence
        /\ \A j \in 0 .. (n - 1) :
             c.entry_data[j] = IF j = i THEN entry ELSE b.entry_data[j]
    BY <1>1, <1>2 DEF Buffer
  <1>4. Blocks(n, c) = Blocks(n, b)
    BY <1>3 DEF Blocks
  <1>5. Freed(c, Slots(c)) = Freed(b, Slots(b))
    <2>1. Freed(c, Slots(c)) = Cardinality(Blocks(n, c))
      BY FreedCount
    <2>2. Freed(b, Slots(b)) = Cardinality(Blocks(n, b))
      BY FreedCount
    <2> QED
      BY <1>4, <2>1, <2>2
  <1>6. \A j \in Slots(c) : Occupied(c, j) <=> c.entry_data[j] # NULL
    BY <1>2, <1>3 DEF Occupied, Accounted
  <1>7. Accounted(c, k)
    BY <1>5, <1>6 DEF Accounted
  <1> QED
    BY <1>1, <1>7

-----------------------------------------------------------------------------
(* The window of a buffer whose entries hold blocks.                       *)

\* The same slots are filled, cleared or kept as by the plain operations.
LEMMA InsertOwnedWindow ==
  ASSUME NEW n \in Nat \ {0}, FitsCircle(n), NEW D, NULL \in D, NEW b \in Buffer(n,
         D),
         Windowed(b), NEW s \in Seqs, Ahead(b, s) \/ ~Stale(b, s), NEW entry \in D
  PROVE  LET c == [InsertWithCleanup(b, s) EXCEPT !.entry_data[Slot(b, s)] = entry]
         IN  Windowed(c) /\ Present(c) = Present(Insert(b, s))
  <1>1. PICK c \in Buffer(n, D) :
           c = [InsertWithCleanup(b, s) EXCEPT !.entry_data[Slot(b, s)] = entry]
    BY InsertOwnedBuffer
  <1>2. /\ c.sequence = Insert(b, s).sequence
        /\ c.entry_sequence = Insert(b, s).entry_sequence
    BY <1>1, InsertOwnedBuffer
  <1>3. Insert(b, s) \in Buffer(n, D) /\ Windowed(Insert(b, s))
    BY InsertWindow
  <1>4. Windowed(c) /\ Present(c) = Present(Insert(b, s))
    BY <1>2, <1>3, SameWindow
  <1> QED
    BY <1>1, <1>4

\* Cleaning up does not move a window.
LEMMA CleanupWindow ==
  ASSUME NEW n \in Nat \ {0}, NEW D, NULL \in D, NEW b \in Buffer(n, D),
         Windowed(b), NEW S
  PROVE  Windowed(Cleanup(b, S)) /\ Present(Cleanup(b, S)) = Present(b)
  <1>1. /\ Cleanup(b, S) \in Buffer(n, D)
        /\ Cleanup(b, S).sequence = b.sequence
        /\ Cleanup(b, S).entry_sequence = b.entry_sequence
    BY CleanupAt
  <1> QED
    BY <1>1, SameWindow

\* Nor does setting the data of an entry.
LEMMA EntryWindow ==
  ASSUME NEW n \in Nat \ {0}, NEW D, NEW b \in Buffer(n, D), Windowed(b), NEW i,
         NEW entry \in D
  PROVE  /\ [b EXCEPT !.entry_data[i] = entry] \in Buffer(n, D)
         /\ Windowed([b EXCEPT !.entry_data[i] = entry])
         /\ Present([b EXCEPT !.entry_data[i] = entry]) = Present(b)
  <1>1. PICK c \in Buffer(n, D) : c = [b EXCEPT !.entry_data[i] = entry]
    BY EntryType
  <1>2. c.sequence = b.sequence /\ c.entry_sequence = b.entry_sequence
    BY <1>1 DEF Buffer
  <1> QED
    BY <1>1, <1>2, SameWindow

\* An advance keeps the window, whether it moves it or not.
LEMMA AdvancedWindow ==
  ASSUME NEW n \in Nat \ {0}, FitsCircle(n), NEW D, NEW b \in Buffer(n, D),
         Windowed(b),
         NEW s \in Seqs
  PROVE  Windowed(Advance(b, s))
  <1>1. CASE Ahead(b, s)
    BY <1>1, AdvanceWindow
  <1>2. CASE ~Ahead(b, s)
    BY <1>2, NoAdvance
  <1> QED
    BY <1>1, <1>2

\* A buffer of fewer than Half entries is never too full for its own next
\* sequence.
LEMMA NextAccepted ==
  ASSUME NEW n \in Nat \ {0}, n < Half, NEW D, NEW b \in Buffer(n, D)
  PROVE  TestInsert(b, b.sequence)
  <1> DEFINE s == b.sequence
             oldest == U16(s - U16(n))
  <1>1. /\ b.num_entries = n /\ s \in Seqs
        /\ SeqMod = 2 * Half /\ Half \in Nat /\ Seqs = 0 .. (SeqMod - 1)
    BY HalfAssumption DEF Buffer, SeqMod, Seqs
  <1>2. U16(n) = n
    BY <1>1, U16Value
  <1>3. oldest = s - n \/ oldest = s - n + SeqMod
    BY <1>1, <1>2, U16Value
  <1>4. oldest \in Seqs
    BY <1>1, <1>2, U16Value
  <1>5. Stale(b, s) <=> GreaterThan(oldest, s)
    BY <1>1 DEF Stale, LessThan
  <1> HIDE DEF oldest, s
  <1>6. ~GreaterThan(oldest, s)
    BY <1>1, <1>3, <1>4 DEF GreaterThan
  <1> QED
    BY <1>5, <1>6 DEF TestInsert, s

\* And that sequence is always ahead.
LEMMA NextAhead ==
  ASSUME Half > 1, NEW n, NEW D, NEW b \in Buffer(n, D)
  PROVE  Ahead(b, b.sequence)
  <1>1. PICK s \in Seqs : s = b.sequence
    BY DEF Buffer
  <1>2. U16(s + 1) = IF s + 1 = SeqMod THEN 0 ELSE s + 1
    BY U16Value, CircleNumbers
  <1>3. GreaterThan(U16(s + 1), s)
    BY <1>2, CircleNumbers DEF GreaterThan
  <1> QED
    BY <1>1, <1>3 DEF Ahead

-----------------------------------------------------------------------------
(* What stays in its slot.                                                 *)

\* Outside the slots J, c holds nothing that b does not hold in the same slot.
KeptOutside(b, c, J) ==
  \A i \in Slots(b) \ J : Occupied(c, i) =>
     /\ c.entry_sequence[i] = b.entry_sequence[i]
     /\ c.entry_data[i] = b.entry_data[i]

\* Keeping entries composes.
LEMMA KeptTransitive ==
  ASSUME NEW b, NEW c, NEW d, NEW J, Slots(c) = Slots(b),
         KeptOutside(b, c, J), KeptOutside(c, d, J)
  PROVE  KeptOutside(b, d, J)
  BY DEF KeptOutside, Occupied

\* advance with cleanup loses entries and keeps the others as they are.
LEMMA AdvanceKept ==
  ASSUME NEW n \in Nat \ {0}, NEW D, NULL \in D, NEW b \in Buffer(n, D),
         NEW s \in Seqs
  PROVE  KeptOutside(b, AdvanceWithCleanup(b, s), {})
  <1> DEFINE S == Overtaken(b, s)
  <1>1. PICK a \in Buffer(n, D) : a = Advance(b, s)
    BY AdvanceAt
  <1>2. /\ a.entry_data = b.entry_data
        /\ \A i \in Slots(b) : a.entry_sequence[i] =
              IF i \in S THEN Empty ELSE b.entry_sequence[i]
    BY <1>1, AdvanceAt, SlotsValue
  <1>3. PICK c \in Buffer(n, D) : c = Cleanup(a, S)
    BY CleanupAt
  <1>4. /\ c.entry_sequence = a.entry_sequence
        /\ \A i \in Slots(b) : c.entry_data[i] = IF i \in S THEN NULL ELSE a.entry_data[i]
    BY <1>3, CleanupAt, SlotsValue
  <1> HIDE DEF S
  <1>5. KeptOutside(b, c, {})
    BY <1>2, <1>4 DEF KeptOutside, Occupied
  <1> QED
    BY <1>1, <1>3, <1>5 DEF AdvanceWithCleanup, S

\* insert with cleanup does so outside the slot it fills.
LEMMA InsertKept ==
  ASSUME NEW n \in Nat \ {0}, NEW D, NULL \in D, NEW b \in Buffer(n, D),
         NEW s \in Seqs,
         NEW entry \in D
  PROVE  LET c == [InsertWithCleanup(b, s) EXCEPT !.entry_data[Slot(b, s)] = entry]
         IN  /\ KeptOutside(b, c, {Slot(b, s)})
             /\ c.entry_sequence[Slot(b, s)] = s
             /\ c.entry_data[Slot(b, s)] = entry
  <1> DEFINE j == Slot(b, s)
             I == 0 .. (n - 1)
  <1>1. PICK c \in Buffer(n, D) :
           c = [InsertWithCleanup(b, s) EXCEPT !.entry_data[Slot(b, s)] = entry]
    BY InsertOwnedBuffer
  <1>2. \A i \in I : c.entry_data[i] = IF i = j THEN entry
                                       ELSE IF i \in InsertCleans(b, s) THEN NULL
                                       ELSE b.entry_data[i]
    BY <1>1, InsertOwnedBuffer
  <1>3. PICK a \in Buffer(n, D) : a = Advance(b, s)
    BY AdvanceAt
  <1>4. /\ Slots(b) = I /\ j \in I /\ b.num_entries = n /\ a.num_entries = n
        /\ \A i \in I : a.entry_sequence[i] =
              IF i \in Overtaken(b, s) THEN Empty ELSE b.entry_sequence[i]
    <2>1. j \in I
      BY CleanedSlots, SlotsValue
    <2> QED
      BY <1>3, <2>1, AdvanceAt, SlotsValue
  <1>5. \A i \in I : c.entry_sequence[i] = IF i = j THEN s ELSE a.entry_sequence[i]
    <2>1. c.entry_sequence = Insert(b, s).entry_sequence
      BY <1>1, InsertOwnedBuffer
    <2>2. Slot(a, s) = j
      BY <1>4 DEF Slot
    <2>3. Insert(b, s).entry_sequence = [a.entry_sequence EXCEPT ![j] = s]
      BY <1>3, <2>2 DEF Insert, Store, Buffer
    <2>4. a.entry_sequence \in [I -> Seqs \cup {Empty}]
      BY <1>3 DEF Buffer
    <2> QED
      BY <1>4, <2>1, <2>3, <2>4
  <1>6. \A i \in I : i # j => (i \in InsertCleans(b, s) <=> i \in Overtaken(b, s))
    BY DEF InsertCleans
  <1> HIDE DEF j
  <1>7. KeptOutside(b, c, {j})
    BY <1>2, <1>4, <1>5, <1>6 DEF KeptOutside, Occupied
  <1>8. c.entry_sequence[j] = s /\ c.entry_data[j] = entry
    BY <1>2, <1>4, <1>5
  <1> QED
    BY <1>1, <1>7, <1>8 DEF j

\* And so does remove with cleanup.
LEMMA RemoveKept ==
  ASSUME NEW n \in Nat \ {0}, NEW D, NULL \in D, NEW b \in Buffer(n, D),
         NEW s \in Seqs
  PROVE  LET c == RemoveWithCleanup(b, s)
         IN  /\ c \in Buffer(n, D)
             /\ c.sequence = b.sequence
             /\ KeptOutside(b, c, {})
             /\ ~Occupied(c, Slot(b, s))
  <1> DEFINE j == Slot(b, s)
             S == RemoveCleans(b, s)
  <1>1. PICK a \in Buffer(n, D) : a = Remove(b, s)
    BY RemoveAt
  <1>2. /\ a.entry_data = b.entry_data /\ a.sequence = b.sequence
        /\ \A i \in Slots(b) : a.entry_sequence[i] =
              IF i = j THEN Empty ELSE b.entry_sequence[i]
    BY <1>1, RemoveAt, SlotsValue
  <1>3. PICK c \in Buffer(n, D) : c = Cleanup(a, S)
    BY CleanupAt
  <1>4. /\ c.entry_sequence = a.entry_sequence /\ c.sequence = a.sequence
        /\ \A i \in Slots(b) : c.entry_data[i] = IF i \in S THEN NULL ELSE a.entry_data[i]
    BY <1>3, CleanupAt, SlotsValue
  <1>5. j \in Slots(b) /\ S \subseteq {j}
    BY CleanedSlots DEF RemoveCleans
  <1> HIDE DEF j, S
  <1>6. KeptOutside(b, c, {}) /\ ~Occupied(c, j)
    BY <1>2, <1>4, <1>5 DEF KeptOutside, Occupied
  <1>7. c = RemoveWithCleanup(b, s)
    BY <1>1, <1>3 DEF RemoveWithCleanup, S
  <1> QED
    BY <1>2, <1>3, <1>4, <1>6, <1>7 DEF j

\* A buffer that has forgotten some of its entries stays a window.
LEMMA KeptWindow ==
  ASSUME NEW n \in Nat \ {0}, NEW D, NEW b \in Buffer(n, D), NEW c \in Buffer(n, D),
         Windowed(b), c.sequence = b.sequence, KeptOutside(b, c, {})
  PROVE  Windowed(c)
  <1>1. Slots(b) = Slots(c) /\ b.num_entries = n /\ c.num_entries = n
    BY SlotsValue
  <1>2. \A q : Slot(b, q) = Slot(c, q)
    BY <1>1 DEF Slot
  <1>3. ASSUME NEW i \in Slots(c), Occupied(c, i)
        PROVE  /\ Slot(c, c.entry_sequence[i]) = i
               /\ Distance(c.sequence, c.entry_sequence[i]) \in 1 .. c.num_entries
    <2>1. c.entry_sequence[i] = b.entry_sequence[i] /\ Occupied(b, i)
      BY <1>1, <1>3 DEF KeptOutside, Occupied
    <2>2. /\ Slot(b, b.entry_sequence[i]) = i
          /\ Distance(b.sequence, b.entry_sequence[i]) \in 1 .. n
      BY <1>1, <1>3, <2>1 DEF Windowed
    <2> QED
      BY <1>1, <1>2, <2>1, <2>2
  <1> QED
    BY <1>3 DEF Windowed

-----------------------------------------------------------------------------
(***************************************************************************)
(* A window seen through the ids of packets, which count them from 0 and   *)
(* do not wrap.  Packet i has the sequence U16(i); where a window ends at  *)
(* U16(m), m is the id of the packet the window expects next.  The lemmas  *)
(* say which ids a window holds, as long as packets that arrive are near   *)
(* enough to m for their sequences to tell their ids.                      *)
(***************************************************************************)


\* The ids of the sequences that b holds, if its window ends at id m.
Ids(b, m) == {i \in (m - b.num_entries) .. (m - 1) : U16(i) \in Present(b)}

\* How far from the end m of a window of n entries an arriving packet i may be.
NearWindow(n, m, i) == i - m < SeqMod - n /\ m - i <= Half

\* The end of a window that ended at m, after packet i.
Later(m, i) == IF i >= m THEN i + 1 ELSE m

\* An id has a sequence.
LEMMA IdSequence ==
  ASSUME NEW i \in Int
  PROVE  U16(i) \in Seqs
  BY DivMod, CircleNumbers DEF U16

\* It is a number of laps and the sequence.
LEMMA IdLaps ==
  ASSUME NEW i \in Int
  PROVE  \E k \in Int : i = SeqMod * k + U16(i)
  <1>1. SeqMod \in Nat \ {0}
    BY CircleNumbers
  <1>2. i = SeqMod * (i \div SeqMod) + (i % SeqMod) /\ i \div SeqMod \in Int
    BY <1>1, DivMod
  <1> QED
    BY <1>2 DEF U16

\* Whole laps do not change the sequence.
LEMMA LapShift ==
  ASSUME NEW a \in Int, NEW b \in Int, NEW k \in Int, a = b + SeqMod * k
  PROVE  U16(a) = U16(b)
  <1>1. SeqMod \in Nat \ {0}
    BY CircleNumbers
  <1>2. a % SeqMod = b % SeqMod
    BY <1>1, ModShift
  <1> QED
    BY <1>2 DEF U16

\* Less than a lap apart, equal sequences are those of one id.
LEMMA SameId ==
  ASSUME NEW i \in Int, NEW k \in Int, i - k < SeqMod, k - i < SeqMod, U16(i) = U16(k)
  PROVE  i = k
  BY ModInjective, CircleNumbers DEF U16

\* Subtracting may come before or after the conversion to 16 bits.
LEMMA IdDifference ==
  ASSUME NEW a \in Int, NEW i \in Int
  PROVE  /\ U16(U16(a) - i) = U16(a - i)
         /\ U16(a - U16(i)) = U16(a - i)
         /\ Distance(U16(a), U16(i)) = U16(a - i)
  <1>1. PICK qa \in Int : a = SeqMod * qa + U16(a)
    BY IdLaps
  <1>2. PICK qi \in Int : i = SeqMod * qi + U16(i)
    BY IdLaps
  <1>3. PICK s \in Int : s = U16(a)
    BY IdSequence, CircleNumbers
  <1>4. PICK t \in Int : t = U16(i)
    BY IdSequence, CircleNumbers
  <1>5. PICK la \in Int : la = SeqMod * qa
    BY CircleNumbers
  <1>6. PICK li \in Int : li = SeqMod * qi
    BY CircleNumbers
  <1>7. a - i = (s - i) + la /\ a - t = (a - i) + li /\ s - t = (s - i) + li
    BY <1>1, <1>2, <1>3, <1>4, <1>5, <1>6
  <1>8. U16(a - i) = U16(s - i)
    <2>1. a - i \in Int /\ s - i \in Int /\ a - i = (s - i) + SeqMod * qa
      BY <1>5, <1>7
    <2> QED
      BY ONLY <2>1, LapShift
  <1>9. U16(a - t) = U16(a - i)
    <2>1. a - i \in Int /\ a - t \in Int /\ a - t = (a - i) + SeqMod * qi
      BY <1>6, <1>7
    <2> QED
      BY ONLY <2>1, LapShift
  <1>10. U16(s - t) = U16(s - i)
    <2>1. s - i \in Int /\ s - t \in Int /\ s - t = (s - i) + SeqMod * qi
      BY <1>6, <1>7
    <2> QED
      BY ONLY <2>1, LapShift
  <1> QED
    BY <1>3, <1>4, <1>8, <1>9, <1>10 DEF Distance

\* So may adding.
LEMMA IdSum ==
  ASSUME NEW a \in Int, NEW i \in Int
  PROVE  U16(U16(a) + i) = U16(a + i)
  <1>1. 0 - i \in Int /\ a - (0 - i) = a + i
    OBVIOUS
  <1>2. U16(a) \in Int /\ U16(a) - (0 - i) = U16(a) + i
    BY IdSequence, CircleNumbers
  <1>3. U16(U16(a) - (0 - i)) = U16(a - (0 - i))
    BY <1>1, IdDifference
  <1> QED
    BY <1>1, <1>2, <1>3

\* Within a lap, the distance of two sequences is the difference of the ids.
LEMMA IdDistance ==
  ASSUME NEW a \in Int, NEW i \in Int, a - i >= 0, a - i < SeqMod
  PROVE  /\ Distance(U16(a), U16(i)) = a - i
         /\ Distance(a, U16(i)) = a - i
  <1>1. a - i \in Seqs
    BY CircleNumbers
  <1>2. U16(a - i) = a - i
    BY <1>1, U16Value, CircleNumbers
  <1> QED
    BY <1>2, IdDifference DEF Distance

-----------------------------------------------------------------------------
\* What a window holds, it holds under an id.
LEMMA HeldId ==
  ASSUME NEW n \in Nat \ {0}, NEW D, NEW b \in Buffer(n, D), Windowed(b),
         NEW m \in Int, b.sequence = U16(m), NEW q \in Present(b)
  PROVE  \E i \in Ids(b, m) : U16(i) = q
  <1> SeqMod \in Nat \ {0}
    BY CircleNumbers
  <1>1. q \in Seqs /\ Distance(U16(m), q) \in 1 .. n
    BY PresentWindow
  <1> DEFINE d == Distance(U16(m), q)
  <1>2. PICK t \in Int : U16(m) - q = SeqMod * t + d
    <2>1. U16(m) - q \in Int
      BY <1>1, IdSequence, CircleNumbers
    <2> QED
      BY <2>1, IdLaps DEF Distance
  <1>3. PICK u \in Int : m = SeqMod * u + U16(m)
    BY IdLaps
  <1> HIDE DEF d
  <1>4. m - d = SeqMod * (u + t) + q
    <2>1. U16(m) \in Int /\ q \in Int /\ d \in Int
      BY <1>1, IdSequence, CircleNumbers DEF d
    <2>2. SeqMod * (u + t) = SeqMod * u + SeqMod * t
      BY Distributes
    <2> QED
      BY <1>2, <1>3, <2>1, <2>2
  <1>5. d \in 1 .. n
    BY <1>1 DEF d
  <1>6. U16(m - d) = q
    <2>1. q \in 0 .. (SeqMod - 1) /\ m - d \in Int /\ u + t \in Int
      BY <1>1, <1>5, CircleNumbers
    <2> QED
      BY <1>4, <2>1, ModUnique DEF U16
  <1>7. m - d \in Ids(b, m)
    <2>1. b.num_entries = n
      BY DEF Buffer
    <2> QED
      BY <1>5, <1>6, <2>1 DEF Ids
  <1> QED
    BY <1>6, <1>7

\* exists finds exactly the ids of the window.
LEMMA IdsIff ==
  ASSUME NEW n \in Nat \ {0}, NEW D, NEW b \in Buffer(n, D), Windowed(b),
         NEW m \in Int, NEW i \in Int
  PROVE  i \in Ids(b, m) <=> i \in (m - n) .. (m - 1) /\ Exists(b, U16(i))
  <1>1. b.num_entries = n
    BY DEF Buffer
  <1>2. U16(i) \in Present(b) <=> Exists(b, U16(i))
    BY PresentIff, IdSequence
  <1> QED
    BY <1>1, <1>2 DEF Ids

\* A packet near the window whose sequence is of the window has an id of it.
LEMMA WindowId ==
  ASSUME NEW n \in Nat \ {0}, n < SeqMod, NEW m \in Int, NEW i \in Int, NearWindow(n, m, i),
         Distance(U16(m), U16(i)) \in 1 .. n
  PROVE  i \in (m - n) .. (m - 1)
  <1>1. U16(m - i) \in 1 .. n
    BY IdDifference
  <1>2. m - i \in Int /\ m - i > n - SeqMod /\ m - i <= Half
    BY CircleNumbers DEF NearWindow
  <1> DEFINE x == m - i
  <1>3. /\ x < 0 => U16(x) = x + SeqMod
        /\ x \in Seqs => U16(x) = x
    BY <1>2, U16Value, CircleNumbers
  <1>4. x \in 1 .. n
    <2>1. CASE x < 0
      BY <1>1, <1>2, <1>3, <2>1, CircleNumbers
    <2>2. CASE x >= 0
      <3>1. x \in Seqs
        BY <1>2, <2>2, CircleNumbers
      <3> QED
        BY <1>1, <1>3, <3>1
    <2> QED
      BY <1>2, <2>1, <2>2
  <1> QED
    BY <1>4

\* A packet that exists in the window, and is near, is held under its own id.
LEMMA ExistingId ==
  ASSUME NEW n \in Nat \ {0}, n < SeqMod, NEW D, NEW b \in Buffer(n, D), Windowed(b),
         NEW m \in Int, b.sequence = U16(m), NEW i \in Int, NearWindow(n, m, i),
         Exists(b, U16(i))
  PROVE  i \in Ids(b, m)
  <1>1. U16(i) \in Present(b)
    BY PresentIff, IdSequence
  <1>2. Distance(U16(m), U16(i)) \in 1 .. n
    BY <1>1, PresentWindow
  <1>3. i \in (m - n) .. (m - 1)
    BY <1>2, WindowId
  <1> QED
    BY <1>1, <1>3 DEF Ids, Buffer

\* The comparison finds ahead only what is ahead.
LEMMA AheadId ==
  ASSUME NEW n \in Nat \ {0}, NEW D, NEW b \in Buffer(n, D),
         NEW m \in Int, b.sequence = U16(m), NEW i \in Int, NearWindow(n, m, i),
         Ahead(b, U16(i))
  PROVE  /\ i >= m /\ i + 1 - m <= Half
         /\ Distance(U16(i) + 1, b.sequence) = i + 1 - m
  <1>1. Distance(U16(i) + 1, U16(m)) \in 1 .. Half
    BY AheadStep, IdSequence
  <1>2. Distance(U16(i) + 1, U16(m)) = U16(i + 1 - m)
    <2>1. U16(i) \in Int /\ U16(m) \in Int
      BY IdSequence, CircleNumbers
    <2>2. PICK c \in Int : c = 1 - U16(m)
      BY <2>1
    <2>3. U16(U16(i) + c) = U16(i + c)
      BY IdSum
    <2>4. U16((i + 1) - U16(m)) = U16((i + 1) - m)
      BY IdDifference
    <2>5. U16(i) + c = (U16(i) + 1) - U16(m) /\ i + c = (i + 1) - U16(m)
      BY <2>1, <2>2
    <2> QED
      BY <2>3, <2>4, <2>5 DEF Distance
  <1> DEFINE x == i + 1 - m
  <1>3. x \in Int /\ x >= 1 - Half /\ x < SeqMod
    BY CircleNumbers DEF NearWindow
  <1>4. U16(x) \in 1 .. Half
    BY <1>1, <1>2
  <1>5. /\ x < 0 => U16(x) = x + SeqMod
        /\ x \in Seqs => U16(x) = x
    BY <1>3, U16Value, CircleNumbers
  <1>6. x >= 1 /\ x <= Half /\ U16(x) = x
    <2>1. CASE x < 0
      BY <1>3, <1>4, <1>5, <2>1, CircleNumbers
    <2>2. CASE x >= 0
      <3>1. x \in Seqs
        BY <1>3, <2>2, CircleNumbers
      <3> QED
        BY <1>4, <1>5, <3>1
    <2> QED
      BY <1>3, <2>1, <2>2
  <1> QED
    BY <1>2, <1>6

\* And what is neither ahead nor stale is in the window.
LEMMA CurrentId ==
  ASSUME NEW n \in Nat \ {0}, FitsCircle(n), NEW D, NEW b \in Buffer(n, D),
         NEW m \in Int, b.sequence = U16(m), NEW i \in Int, NearWindow(n, m, i),
         ~Ahead(b, U16(i)), ~Stale(b, U16(i))
  PROVE  i \in (m - n) .. (m - 1)
  <1>1. Distance(U16(m), U16(i)) \in 1 .. n
    BY CurrentIff, IdSequence
  <1> QED
    BY <1>1, WindowId, CircleNumbers DEF FitsCircle

-----------------------------------------------------------------------------
\* advance moves the end of the window, and forgets the ids it leaves behind.
LEMMA AdvanceIds ==
  ASSUME NEW n \in Nat \ {0}, FitsCircle(n), NEW D, NEW b \in Buffer(n, D), Windowed(b),
         NEW m \in Int, b.sequence = U16(m), NEW i \in Int, NearWindow(n, m, i),
         Ahead(b, U16(i)) \/ i < m
  PROVE  /\ Advance(b, U16(i)).sequence = U16(Later(m, i))
         /\ Ids(Advance(b, U16(i)), Later(m, i)) =
              {k \in Ids(b, m) : k >= Later(m, i) - n}
  <1>1. U16(i) \in Seqs /\ b.num_entries = n
    BY IdSequence DEF Buffer
  <1>2. Advance(b, U16(i)) \in Buffer(n, D) /\ Advance(b, U16(i)).num_entries = n
    <2>1. Advance(b, U16(i)) \in Buffer(n, D)
      BY <1>1, AdvanceType
    <2> QED
      BY <2>1 DEF Buffer
  <1>3. CASE ~Ahead(b, U16(i))
    <2>1. Later(m, i) = m
      BY <1>3 DEF Later
    <2>2. Advance(b, U16(i)) = b
      BY <1>1, <1>3, NoAdvance
    <2> QED
      BY <1>1, <2>1, <2>2 DEF Ids
  <1>4. CASE Ahead(b, U16(i))
    <2>1. /\ i >= m /\ i + 1 - m <= Half
          /\ Distance(U16(i) + 1, b.sequence) = i + 1 - m
      BY <1>4, AheadId
    <2>2. Later(m, i) = i + 1
      BY <2>1 DEF Later
    <2>3. Advance(b, U16(i)).sequence = U16(i + 1)
      <3>1. Advance(b, U16(i)).sequence = U16(U16(i) + 1)
        BY <1>1, <1>4, AdvanceFields
      <3> QED
        BY <3>1, IdSum
    <2>4. Present(Advance(b, U16(i))) =
            {q \in Present(b) : Distance(b.sequence, q) + (i + 1 - m) <= n}
      BY <1>1, <1>4, <2>1, AdvanceWindow
    <2>5. ASSUME NEW k \in Int
          PROVE  k \in Ids(Advance(b, U16(i)), i + 1) <=> k \in Ids(b, m) /\ k >= i + 1 - n
      <3> n < Half /\ SeqMod = 2 * Half
        BY CircleNumbers DEF FitsCircle
      <3>1. ASSUME k \in Ids(Advance(b, U16(i)), i + 1)
            PROVE  k \in Ids(b, m) /\ k >= i + 1 - n
        <4>1. k >= i + 1 - n /\ k <= i /\ U16(k) \in Present(b)
          BY <1>2, <2>4, <3>1 DEF Ids
        <4>2. PICK h \in Ids(b, m) : U16(h) = U16(k)
          BY <4>1, HeldId
        <4>3. h \in Int /\ h >= m - n /\ h < m
          BY <1>1, <4>2 DEF Ids
        <4>4. h - k < SeqMod /\ k - h < SeqMod
          BY <2>1, <4>1, <4>3, CircleNumbers
        <4>5. h = k
          BY <4>2, <4>3, <4>4, SameId
        <4> QED
          BY <4>1, <4>2, <4>5
      <3>2. ASSUME k \in Ids(b, m), k >= i + 1 - n
            PROVE  k \in Ids(Advance(b, U16(i)), i + 1)
        <4>1. k >= m - n /\ k < m /\ U16(k) \in Present(b)
          BY <1>1, <3>2 DEF Ids
        <4>2. Distance(b.sequence, U16(k)) = m - k
          BY <4>1, IdDistance, CircleNumbers
        <4>3. U16(k) \in Present(Advance(b, U16(i)))
          BY <2>4, <3>2, <4>1, <4>2
        <4>4. k \in (i + 1 - n) .. (i + 1 - 1)
          BY <2>1, <3>2, <4>1
        <4> QED
          BY <1>2, <4>3, <4>4 DEF Ids
      <3> QED
        BY <3>1, <3>2
    <2>6. \A k \in Ids(Advance(b, U16(i)), i + 1) \cup Ids(b, m) : k \in Int
      BY <1>1, <1>2 DEF Ids
    <2> QED
      BY <2>2, <2>3, <2>5, <2>6
  <1> QED
    BY <1>3, <1>4

\* An insertion that is not refused does so, and adds the id.
LEMMA InsertIds ==
  ASSUME NEW n \in Nat \ {0}, FitsCircle(n), NEW D, NEW b \in Buffer(n, D), Windowed(b),
         NEW m \in Int, b.sequence = U16(m), NEW i \in Int, NearWindow(n, m, i),
         Ahead(b, U16(i)) \/ ~Stale(b, U16(i))
  PROVE  /\ Insert(b, U16(i)).sequence = U16(Later(m, i))
         /\ i \in (Later(m, i) - n) .. (Later(m, i) - 1)
         /\ Ids(Insert(b, U16(i)), Later(m, i)) =
              {k \in Ids(b, m) : k >= Later(m, i) - n} \cup {i}
  <1>1. U16(i) \in Seqs /\ b.num_entries = n /\ n < Half /\ SeqMod = 2 * Half
    BY IdSequence, CircleNumbers DEF Buffer, FitsCircle
  <1>2. /\ Advance(b, U16(i)) \in Buffer(n, D)
        /\ Advance(b, U16(i)).num_entries = n
        /\ Advance(b, U16(i)).sequence = IF Ahead(b, U16(i)) THEN U16(U16(i) + 1) ELSE b.sequence
    <2>1. Advance(b, U16(i)) \in Buffer(n, D)
      BY <1>1, AdvanceType
    <2>2. ASSUME NEW s \in Seqs
          PROVE  Advance(b, s).sequence = IF Ahead(b, s) THEN U16(s + 1) ELSE b.sequence
      BY AdvanceFields, Zenon
    <2>3. Advance(b, U16(i)).sequence
            = IF Ahead(b, U16(i)) THEN U16(U16(i) + 1) ELSE b.sequence
      BY <1>1, <2>2, Zenon
    <2> QED
      BY <2>1, <2>3 DEF Buffer
  <1>3. /\ Ahead(b, U16(i)) => i >= m
        /\ ~Ahead(b, U16(i)) => i \in (m - n) .. (m - 1)
    BY AheadId, CurrentId
  <1>4. Ahead(b, U16(i)) \/ i < m
    BY <1>3
  <1>5. /\ Advance(b, U16(i)).sequence = U16(Later(m, i))
        /\ Ids(Advance(b, U16(i)), Later(m, i)) = {k \in Ids(b, m) : k >= Later(m, i) - n}
    BY <1>4, AdvanceIds
  <1>6. /\ Insert(b, U16(i)) \in Buffer(n, D)
        /\ Insert(b, U16(i)).sequence =
              IF Ahead(b, U16(i)) THEN U16(U16(i) + 1) ELSE b.sequence
        /\ Present(Insert(b, U16(i))) = Present(Advance(b, U16(i))) \cup {U16(i)}
    BY <1>1, InsertWindow
  <1>7. Insert(b, U16(i)).num_entries = n
    BY <1>6 DEF Buffer
  <1>8. i \in (Later(m, i) - n) .. (Later(m, i) - 1) /\ Later(m, i) \in Int
    BY <1>1, <1>3 DEF Later
  <1>9. ASSUME NEW k \in Int
        PROVE  k \in Ids(Insert(b, U16(i)), Later(m, i))
                 <=> k \in Ids(Advance(b, U16(i)), Later(m, i)) \/ k = i
    <2>1. ASSUME k \in (Later(m, i) - n) .. (Later(m, i) - 1), U16(k) = U16(i)
          PROVE  k = i
      <3>1. k - i < SeqMod /\ i - k < SeqMod
        BY <1>1, <1>8, <2>1, CircleNumbers
      <3> QED
        BY <2>1, <3>1, SameId
    <2> QED
      BY <1>2, <1>6, <1>7, <1>8, <2>1 DEF Ids
  <1>10. \A k \in Ids(Insert(b, U16(i)), Later(m, i)) \cup Ids(Advance(b, U16(i)), Later(m, i)) :
           k \in Int
    BY <1>2, <1>7, <1>8 DEF Ids
  <1> QED
    BY <1>2, <1>5, <1>6, <1>8, <1>9, <1>10

\* What a window that has moved kept in its slots, it kept under the same ids.
LEMMA KeptIds ==
  ASSUME NEW n \in Nat \ {0}, n < Half, NEW D, NEW b \in Buffer(n, D), NEW c \in Buffer(n, D),
         Windowed(b), Windowed(c), NEW m \in Int, NEW l \in Int, b.sequence = U16(m),
         l >= m, l - m <= Half, NEW J, KeptOutside(b, c, J),
         NEW i \in Ids(c, l), Slot(b, U16(i)) \notin J
  PROVE  /\ i \in Ids(b, m)
         /\ c.entry_data[Slot(c, U16(i))] = b.entry_data[Slot(b, U16(i))]
  <1>1. /\ b.num_entries = n /\ c.num_entries = n /\ Slot(c, U16(i)) = Slot(b, U16(i))
        /\ SeqMod = 2 * Half
    BY CircleNumbers DEF Buffer, Slot
  <1>2. i \in Int /\ i >= l - n /\ i < l /\ Exists(c, U16(i))
    <2>1. i \in Int
      BY <1>1 DEF Ids
    <2> QED
      BY <2>1, IdsIff
  <1>3. U16(i) \in Seqs
    BY <1>2, IdSequence
  <1>4. Slot(b, U16(i)) \in Slots(b)
    <2>1. U16(i) \in Int
      BY <1>3, CircleNumbers
    <2> QED
      BY <2>1, SlotType
  <1>5. Occupied(c, Slot(b, U16(i)))
    <2>1. U16(i) # Empty
      BY <1>3, CircleNumbers DEF Empty
    <2> QED
      BY <1>1, <1>2, <2>1 DEF Exists, Occupied
  <1>6. /\ Exists(b, U16(i))
        /\ c.entry_data[Slot(c, U16(i))] = b.entry_data[Slot(b, U16(i))]
    BY <1>1, <1>2, <1>4, <1>5 DEF KeptOutside, Exists
  <1>7. U16(i) \in Present(b)
    BY <1>3, <1>6, PresentIff
  <1>8. PICK h \in Ids(b, m) : U16(h) = U16(i)
    BY <1>7, HeldId
  <1>9. h \in Int /\ h >= m - n /\ h < m
    BY <1>1, <1>8 DEF Ids
  <1>10. h = i
    <2>1. h - i < SeqMod /\ i - h < SeqMod
      BY <1>1, <1>2, <1>9, CircleNumbers
    <2> QED
      BY <1>2, <1>8, <1>9, <2>1, SameId
  <1> QED
    BY <1>6, <1>8, <1>10
=============================================================================
