--------------------------- MODULE Lifecycle_proofs ---------------------------
(***************************************************************************)
(* Proofs about Lifecycle: the heap is the disjoint union of what the      *)
(* endpoints point to (IInv), so that no call loses a block, frees one     *)
(* twice, frees another endpoint's, or reads one it has freed.             *)
(*                                                                         *)
(* First the allocator and the lists of blocks, then what a list of freed  *)
(* blocks may be, then the invariant, what a change of one endpoint needs  *)
(* to keep it, and one lemma per call.                                     *)
(***************************************************************************)
EXTENDS Lifecycle, SequenceBuffers_proofs

-----------------------------------------------------------------------------
(* The allocator.                                                          *)

\* The members of numbers below i.
Below(numbers, i) == {j \in numbers : j < i}

\* A larger member has more members below it.
LEMMA BelowGrows ==
  ASSUME NEW S \in SUBSET Nat, IsFiniteSet(S), NEW i \in S, NEW j \in S
  PROVE  /\ Cardinality(Below(S, i)) \in 0 .. (Cardinality(S) - 1)
         /\ i < j => Cardinality(Below(S, i)) < Cardinality(Below(S, j))
  <1>1. \A k \in S : IsFiniteSet(Below(S, k)) /\ Cardinality(Below(S, k)) \in Nat
    <2> TAKE k \in S
    <2>1. Below(S, k) \in SUBSET S
      BY DEF Below
    <2> QED
      BY <2>1, FS_Subset, FS_CardinalityType
  <1>2. ASSUME NEW B, NEW T, IsFiniteSet(T), B \subseteq T, NEW x \in T, x \notin B
        PROVE  Cardinality(B) < Cardinality(T)
    <2>1. B \in SUBSET T /\ B # T
      BY <1>2
    <2>2. IsFiniteSet(B) /\ Cardinality(B) <= Cardinality(T) /\ Cardinality(B) # Cardinality(T)
      BY <1>2, <2>1, FS_Subset
    <2>3. Cardinality(B) \in Nat /\ Cardinality(T) \in Nat
      BY <1>2, <2>2, FS_CardinalityType
    <2> QED
      BY <2>2, <2>3
  <1>3. Cardinality(Below(S, i)) < Cardinality(S)
    <2>1. Below(S, i) \subseteq S /\ i \notin Below(S, i)
      BY DEF Below
    <2> QED
      BY <1>2, <2>1
  <1>4. ASSUME i < j PROVE Cardinality(Below(S, i)) < Cardinality(Below(S, j))
    <2>0. \A k \in S : k \in Int
      OBVIOUS
    <2>1. Below(S, i) \subseteq Below(S, j) /\ i \in Below(S, j) /\ i \notin Below(S, i)
      <3>1. \A k \in Int : k < i => k < j
        BY <1>4, <2>0
      <3>2. ~(i < i)
        BY <2>0
      <3> QED
        BY Zenon, <1>4, <2>0, <3>1, <3>2 DEF Below
    <2> QED
      BY <1>1, <1>2, <2>1
  <1>5. Cardinality(S) \in Nat
    BY FS_CardinalityType
  <1> QED
    BY <1>1, <1>3, <1>4, <1>5

\* Every member of numbers once, and nothing else.
Enumerates(f, numbers, m) ==
  /\ m \in Nat /\ f \in [1 .. m -> numbers] /\ Len(f) = m
  /\ \A k, l \in 1 .. m : f[k] = f[l] => k = l
  /\ \A i \in numbers : \E k \in 1 .. m : f[k] = i

LEMMA InOrderValue ==
  ASSUME NEW S \in SUBSET Nat, IsFiniteSet(S)
  PROVE  Enumerates(InOrder(S), S, Cardinality(S))
  <1>1. PICK m \in Nat : m = Cardinality(S)
    BY FS_CardinalityType
  <1> DEFINE rank == [i \in S |-> Cardinality(Below(S, i))]
             T == 0 .. (m - 1)
             f == InOrder(S)
  <1>2. \A i \in S : rank[i] = Cardinality(Below(S, i)) /\ rank[i] \in T
    BY <1>1, BelowGrows
  <1>3. \A i, j \in S : rank[i] = rank[j] => i = j
    <2> SUFFICES ASSUME NEW i \in S, NEW j \in S, rank[i] = rank[j], i # j PROVE FALSE
      OBVIOUS
    <2>1. i < j \/ j < i
      BY i \in Nat, j \in Nat
    <2>2. rank[i] < rank[j] \/ rank[j] < rank[i]
      BY <1>2, <2>1, BelowGrows
    <2>3. rank[i] \in T /\ rank[j] \in T
      BY <1>2
    <2> HIDE DEF rank
    <2> QED
      BY <2>2, <2>3
  <1>4. rank \in [S -> T]
    BY <1>2
  <1>5. IsFiniteSet(T) /\ Cardinality(T) = m
    BY FS_Interval
  <1> HIDE DEF rank, T
  <1>6. rank \in Injection(S, T)
    BY <1>3, <1>4 DEF Injection, IsInjective
  <1>7. rank \in Surjection(S, T)
    BY <1>1, <1>5, <1>6, FS_Injection
  <1>8. \A k \in 1 .. m : \E i \in S : rank[i] = k - 1
    <2> TAKE k \in 1 .. m
    <2>1. k - 1 \in T
      BY DEF T
    <2> QED
      BY <1>7, <2>1 DEF Surjection
  <1>9. \A k \in 1 .. m : f[k] \in S /\ rank[f[k]] = k - 1
    <2> TAKE k \in 1 .. m
    <2>1. f[k] = CHOOSE i \in S : Cardinality(Below(S, i)) = k - 1
      BY <1>1 DEF InOrder, Below
    <2>2. \E i \in S : Cardinality(Below(S, i)) = k - 1
      BY <1>2, <1>8
    <2>3. f[k] \in S /\ Cardinality(Below(S, f[k])) = k - 1
      <3> HIDE DEF f
      <3> QED
        BY Zenon, <2>1, <2>2
    <2> QED
      BY <1>2, <2>3
  <1>10. f \in [1 .. m -> S] /\ Len(f) = m
    <2>1. f = [k \in 1 .. m |-> f[k]]
      BY <1>1 DEF InOrder
    <2> HIDE DEF f
    <2>2. f \in Seq(S)
      BY <1>9, <2>1
    <2> QED
      BY <1>9, <2>1, <2>2
  <1> HIDE DEF f
  <1>11. \A k, l \in 1 .. m : f[k] = f[l] => k = l
    <2> TAKE k, l \in 1 .. m
    <2>1. f[k] = f[l] => k - 1 = l - 1
      BY <1>9
    <2> QED
      BY <2>1
  <1>12. \A i \in S : \E k \in 1 .. m : f[k] = i
    <2> TAKE i \in S
    <2>1. PICK k \in 1 .. m : k = rank[i] + 1
      BY <1>2 DEF T
    <2>2. rank[f[k]] = rank[i]
      BY <1>2, <1>9, <2>1 DEF T
    <2> QED
      BY <1>3, <1>9, <2>2
  <1> QED
    BY <1>1, <1>10, <1>11, <1>12 DEF f, Enumerates

\* The allocator returns as many free addresses as it is asked for.
LEMMA AllocateValue ==
  ASSUME NEW live \in SUBSET Nat, IsFiniteSet(live), NEW n \in Nat
  PROVE  /\ Allocate(live, n) \in [1 .. n -> Nat \ live]
         /\ \A k, l \in 1 .. n : Allocate(live, n)[k] = Allocate(live, n)[l] => k = l
  <1>1. PICK c \in Nat : c = Cardinality(live)
    BY FS_CardinalityType
  <1> DEFINE I == 0 .. (c + n - 1)
             S == I \ live
             f == InOrder(S)
  <1>2. IsFiniteSet(I) /\ Cardinality(I) = c + n
    <2>1. 0 \in Int /\ c + n - 1 \in Int
      OBVIOUS
    <2>2. IsFiniteSet(0 .. (c + n - 1))
          /\ Cardinality(0 .. (c + n - 1)) = IF 0 > c + n - 1 THEN 0 ELSE (c + n - 1) - 0 + 1
      BY <2>1, FS_Interval
    <2> QED
      BY <2>2
  <1>3. S \in SUBSET Nat /\ S \in SUBSET (Nat \ live)
    OBVIOUS
  <1> HIDE DEF I
  <1>4. IsFiniteSet(S) /\ Cardinality(S) = Cardinality(I) - Cardinality(I \cap live)
    BY <1>2, FS_Difference
  <1>5. Cardinality(I \cap live) <= c /\ Cardinality(I \cap live) \in Nat
    BY <1>1, FS_Intersection, FS_CardinalityType
  <1>6. PICK m \in Nat : m = Cardinality(S) /\ n <= m
    BY <1>2, <1>4, <1>5
  <1> HIDE DEF S
  <1>7. Enumerates(f, S, m)
    BY <1>3, <1>4, <1>6, InOrderValue
  <1>8. Allocate(live, n) = SubSeq(f, 1, n)
    BY <1>1 DEF Allocate, S, I
  <1> HIDE DEF f
  <1>9. f \in Seq(S) /\ Len(f) = m
    BY <1>7 DEF Enumerates
  <1>10. /\ SubSeq(f, 1, n) \in Seq(S) /\ Len(SubSeq(f, 1, n)) = n
         /\ \A k \in 1 .. n : SubSeq(f, 1, n)[k] = f[k]
    BY <1>6, <1>9
  <1>11. PICK a : a = SubSeq(f, 1, n)
    OBVIOUS
  <1>12. a \in [1 .. n -> S]
    <2>1. a \in Seq(S) /\ Len(a) = n
      BY Zenon, <1>10, <1>11
    <2>2. a \in [1 .. Len(a) -> S]
      BY <2>1
    <2> QED
      BY Zenon, <2>1, <2>2
  <1>13. \A k, l \in 1 .. n : a[k] = a[l] => k = l
    <2>1. \A k \in 1 .. n : k \in 1 .. m
      BY <1>6
    <2> QED
      BY <1>7, <1>10, <1>11, <2>1, Zenon DEF Enumerates
  <1> QED
    BY <1>3, <1>8, <1>11, <1>12, <1>13

-----------------------------------------------------------------------------
(* The blocks of an endpoint.                                              *)

LEMMA CreatedList ==
  /\ Len(CreatedBlocks) = 13 /\ DOMAIN CreatedBlocks = 1 .. 13
  /\ CreatedBlocks[1] = <<"endpoint", "endpoint">>
  /\ CreatedBlocks[2] = <<"endpoint", "acks">>
  /\ CreatedBlocks[3] = <<"sent_packets", "buffer">>
  /\ CreatedBlocks[4] = <<"sent_packets", "entry_sequence">>
  /\ CreatedBlocks[5] = <<"sent_packets", "entry_data">>
  /\ CreatedBlocks[6] = <<"received_packets", "buffer">>
  /\ CreatedBlocks[7] = <<"received_packets", "entry_sequence">>
  /\ CreatedBlocks[8] = <<"received_packets", "entry_data">>
  /\ CreatedBlocks[9] = <<"fragment_reassembly", "buffer">>
  /\ CreatedBlocks[10] = <<"fragment_reassembly", "entry_sequence">>
  /\ CreatedBlocks[11] = <<"fragment_reassembly", "entry_data">>
  /\ CreatedBlocks[12] = <<"endpoint", "rtt_history_buffer">>
  /\ CreatedBlocks[13] = <<"endpoint", "transmit_buffer">>
  BY SMTT(30) DEF CreatedBlocks, BufferBlocks

LEMMA DestroyedList ==
  /\ Len(DestroyedBlocks) = 13 /\ DOMAIN DestroyedBlocks = 1 .. 13
  /\ DestroyedBlocks[1] = <<"endpoint", "acks">>
  /\ DestroyedBlocks[2] = <<"sent_packets", "entry_sequence">>
  /\ DestroyedBlocks[3] = <<"sent_packets", "entry_data">>
  /\ DestroyedBlocks[4] = <<"sent_packets", "buffer">>
  /\ DestroyedBlocks[5] = <<"received_packets", "entry_sequence">>
  /\ DestroyedBlocks[6] = <<"received_packets", "entry_data">>
  /\ DestroyedBlocks[7] = <<"received_packets", "buffer">>
  /\ DestroyedBlocks[8] = <<"fragment_reassembly", "entry_sequence">>
  /\ DestroyedBlocks[9] = <<"fragment_reassembly", "entry_data">>
  /\ DestroyedBlocks[10] = <<"fragment_reassembly", "buffer">>
  /\ DestroyedBlocks[11] = <<"endpoint", "rtt_history_buffer">>
  /\ DestroyedBlocks[12] = <<"endpoint", "transmit_buffer">>
  /\ DestroyedBlocks[13] = <<"endpoint", "endpoint">>
  BY SMTT(30) DEF DestroyedBlocks, DestroyOrder

\* They are different blocks, and the same ones.
LEMMA BlocksDiffer ==
  /\ \A k, l \in 1 .. 13 : CreatedBlocks[k] = CreatedBlocks[l] => k = l
  /\ \A k, l \in 1 .. 13 : DestroyedBlocks[k] = DestroyedBlocks[l] => k = l
  <1>1. \A k, l \in 1 .. 13 : CreatedBlocks[k] = CreatedBlocks[l] => k = l
    BY CreatedList, SMTT(60)
  <1>2. \A k, l \in 1 .. 13 : DestroyedBlocks[k] = DestroyedBlocks[l] => k = l
    BY DestroyedList, SMTT(60)
  <1> QED
    BY <1>1, <1>2

\* The blocks that create allocates.
BlockNames == Ext!ToSet(CreatedBlocks)

LEMMA DestroyedAll ==
  /\ BlockNames = {CreatedBlocks[k] : k \in 1 .. 13}
  /\ BlockNames = {DestroyedBlocks[k] : k \in 1 .. 13}
  <1>1. BlockNames = {CreatedBlocks[k] : k \in 1 .. 13}
    BY CreatedList DEF BlockNames, Ext!ToSet
  <1>2. {DestroyedBlocks[k] : k \in 1 .. 13} = {CreatedBlocks[k] : k \in 1 .. 13}
    BY DestroyedList, CreatedList, SMTT(60)
  <1> QED
    BY <1>1, <1>2

\* destroy frees nothing that it reads later, to find a block or a function.
LEMMA DestroyReads ==
  /\ \A k, l \in 1 .. 13 : k < l => DestroyedBlocks[k] \notin FoundThrough(DestroyedBlocks[l])
  /\ \A l \in 1 .. 13 : PacketData \notin FoundThrough(DestroyedBlocks[l])
  /\ PacketData \notin FoundThrough(PacketData)
  <1> DEFINE E == <<"endpoint", "endpoint">>
             Through(l) == {E, <<DestroyedBlocks[l][1], "buffer">>}
  <1>1. \A l \in 1 .. 13 : DestroyedBlocks[l] # PacketData
    BY DestroyedList, SMTT(60) DEF PacketData
  <1>2. \A l \in 1 .. 13 : /\ FoundThrough(DestroyedBlocks[l]) \subseteq Through(l)
                           /\ l = 13 => FoundThrough(DestroyedBlocks[l]) = {}
                           /\ l \in {4, 7, 10} => FoundThrough(DestroyedBlocks[l]) = {E}
    BY <1>1, DestroyedList, SMTT(60) DEF FoundThrough
  <1>3. \A k \in 1 .. 13 : DestroyedBlocks[k] = E => k = 13
    BY DestroyedList, SMTT(60)
  <1>4. \A k, l \in 1 .. 13 : k < l /\ l # 13 /\ l \notin {4, 7, 10}
                               => DestroyedBlocks[k] # <<DestroyedBlocks[l][1], "buffer">>
    BY DestroyedList, SMTT(60)
  <1>5. ASSUME NEW k \in 1 .. 13, NEW l \in 1 .. 13, k < l,
               DestroyedBlocks[k] \in FoundThrough(DestroyedBlocks[l])
        PROVE  FALSE
    <2>1. (k # 13 /\ l # 13) \/ l = 13
      BY <1>5
    <2> QED
      BY <1>2, <1>3, <1>4, <1>5, <2>1
  <1>6. E # PacketData /\ \A x : <<x, "buffer">> # PacketData
    BY DEF PacketData
  <1>7. PacketData \notin FoundThrough(PacketData)
    <2>1. FoundThrough(PacketData) = {E} \cup Ext!ToSet(BufferBlocks("fragment_reassembly"))
      <3>1. PacketData[2] \notin {"entry_sequence", "entry_data"}
        BY DEF PacketData
      <3> HIDE DEF E
      <3> QED
        BY <1>6, <3>1 DEF FoundThrough, E
    <2>2. PacketData \notin Ext!ToSet(BufferBlocks("fragment_reassembly"))
      BY DEF BufferBlocks, Ext!ToSet, PacketData
    <2> QED
      BY <1>6, <2>1, <2>2
  <1> QED
    BY <1>2, <1>5, <1>6, <1>7

-----------------------------------------------------------------------------
(* What a call frees.                                                      *)

\* What is freed is some packet_data, or some packet_data and the blocks of
\* the endpoint in the order of destroy.
InDestroyOrder(f) ==
  \E m \in Nat : \A k \in DOMAIN f :
     /\ k \in Nat
     /\ k <= m => f[k].block = PacketData
     /\ k > m => k - m \in 1 .. 13 /\ f[k].block = DestroyedBlocks[k - m]

LEMMA OrderIsSafe == InDestroyOrder(freed) => NoneReadAfterFreed
  <1> SUFFICES ASSUME InDestroyOrder(freed), NEW k \in DOMAIN freed, NEW l \in DOMAIN freed, k < l
               PROVE  freed[k].block \notin FoundThrough(freed[l].block)
    BY DEF NoneReadAfterFreed
  <1>1. PICK m \in Nat : \A j \in DOMAIN freed :
           /\ j \in Nat
           /\ j <= m => freed[j].block = PacketData
           /\ j > m => j - m \in 1 .. 13 /\ freed[j].block = DestroyedBlocks[j - m]
    BY DEF InDestroyOrder
  <1>2. k \in Nat /\ l \in Nat
    BY <1>1
  <1>3. CASE l <= m
    <2>1. k <= m
      BY <1>2, <1>3
    <2> QED
      BY <1>1, <1>3, <2>1, DestroyReads
  <1>4. CASE k <= m /\ l > m
    BY <1>1, <1>4, DestroyReads
  <1>5. CASE k > m /\ l > m
    <2>1. k - m \in 1 .. 13 /\ l - m \in 1 .. 13 /\ k - m < l - m
      BY <1>1, <1>2, <1>5
    <2>2. freed[k].block = DestroyedBlocks[k - m] /\ freed[l].block = DestroyedBlocks[l - m]
      BY <1>1, <1>5
    <2> QED
      BY Zenon, <2>1, <2>2, DestroyReads
  <1> QED
    BY <1>2, <1>3, <1>4, <1>5

\* No block is in two entries.
Single(b) ==
  \A i, j \in Slots(b) : b.entry_data[i] # NULL /\ b.entry_data[i] = b.entry_data[j] => i = j

\* The blocks of these slots.
Data(b, slots) == {b.entry_data[i] : i \in slots} \ {NULL}

\* f frees the addresses A, each of them once, as packet_data.
FreesPackets(f, A, m) ==
  /\ m \in Nat /\ f \in [1 .. m -> [block : {PacketData}, address : A]]
  /\ \A a \in A : \E k \in 1 .. m : f[k].address = a
  /\ \A k, l \in 1 .. m : f[k].address = f[l].address => k = l

LEMMA PacketBlocksValue ==
  ASSUME NEW n \in Nat \ {0}, NEW b \in Buffer(n, Nat \cup {NULL}), Single(b),
         NEW S \in SUBSET Slots(b)
  PROVE  \E m \in Nat : FreesPackets(PacketBlocks(b, S), Data(b, S), m)
  <1> DEFINE H == {i \in S : b.entry_data[i] # NULL}
  <1>1. Slots(b) = 0 .. (n - 1)
    BY SlotsValue
  <1>2. H \in SUBSET Slots(b) /\ H \in SUBSET Nat
    BY <1>1
  <1>3. IsFiniteSet(H)
    <2>1. IsFiniteSet(0 .. (n - 1))
      BY FS_Interval
    <2> QED
      BY <1>1, <1>2, <2>1, FS_Subset
  <1>4. \A i \in H : b.entry_data[i] \in Data(b, S)
    BY DEF Data
  <1>5. \A a \in Data(b, S) : \E i \in H : b.entry_data[i] = a
    BY DEF Data
  <1>6. \A i, j \in H : b.entry_data[i] = b.entry_data[j] => i = j
    BY <1>2 DEF Single
  <1>7. PICK held : held = InOrder(H)
    OBVIOUS
  <1>8. PICK f : f = PacketBlocks(b, S)
    OBVIOUS
  <1>9. f = [k \in DOMAIN held |-> [block |-> PacketData, address |-> b.entry_data[held[k]]]]
    BY <1>7, <1>8, Zenon DEF PacketBlocks
  <1> HIDE DEF H
  <1>10. PICK m \in Nat : m = Cardinality(H) /\ Enumerates(held, H, m)
    BY <1>2, <1>3, <1>7, InOrderValue DEF Enumerates
  <1>11. DOMAIN held = 1 .. m /\ \A k \in 1 .. m : held[k] \in H
    BY <1>10 DEF Enumerates
  <1>12. /\ DOMAIN f = 1 .. m
         /\ \A k \in 1 .. m :
              /\ f[k] = [block |-> PacketData, address |-> b.entry_data[held[k]]]
              /\ f[k].address = b.entry_data[held[k]]
    BY <1>9, <1>11
  <1>13. f \in [1 .. m -> [block : {PacketData}, address : Data(b, S)]]
    BY <1>4, <1>9, <1>11
  <1>14. \A a \in Data(b, S) : \E k \in 1 .. m : f[k].address = a
    <2> TAKE a \in Data(b, S)
    <2>1. PICK i \in H : b.entry_data[i] = a
      BY <1>5
    <2>2. PICK k \in 1 .. m : held[k] = i
      BY <1>10, <2>1 DEF Enumerates
    <2> QED
      BY <1>12, <2>1, <2>2
  <1>15. \A k, l \in 1 .. m : f[k].address = f[l].address => k = l
    <2> TAKE k, l \in 1 .. m
    <2>1. ASSUME f[k].address = f[l].address PROVE held[k] = held[l]
      <3>1. b.entry_data[held[k]] = b.entry_data[held[l]]
        BY <1>12, <2>1
      <3>2. held[k] \in H /\ held[l] \in H
        BY Zenon, <1>11
      <3> QED
        BY Zenon, <1>6, <3>1, <3>2
    <2> QED
      BY Zenon, <1>10, <2>1 DEF Enumerates
  <1>16. FreesPackets(f, Data(b, S), m)
    BY Zenon, <1>10, <1>13, <1>14, <1>15 DEF FreesPackets
  <1> QED
    BY Zenon, <1>8, <1>10, <1>16

\* Two sequences, one after the other.
LEMMA SequencesJoined ==
  ASSUME NEW X, NEW p \in Seq(X), NEW q \in Seq(X)
  PROVE  /\ p \o q \in Seq(X)
         /\ Len(p \o q) = Len(p) + Len(q)
         /\ \A k \in 1 .. Len(p) : (p \o q)[k] = p[k]
         /\ \A k \in 1 .. Len(q) : (p \o q)[Len(p) + k] = q[k]
  OBVIOUS

LEMMA IntervalSequence ==
  ASSUME NEW X, NEW m \in Nat, NEW p \in [1 .. m -> X]
  PROVE  p \in Seq(X) /\ Len(p) = m
  OBVIOUS

LEMMA SequenceInterval ==
  ASSUME NEW X, NEW p \in Seq(X)
  PROVE  p \in [1 .. Len(p) -> X]
  OBVIOUS

\* r is p, of m members, then q, of n.
Joined(p, q, m, n, X, r) ==
  /\ r \in [1 .. (m + n) -> X]
  /\ \A k \in 1 .. m : r[k] = p[k]
  /\ \A k \in 1 .. n : r[m + k] = q[k]

LEMMA Concatenated ==
  ASSUME NEW X, NEW m \in Nat, NEW n \in Nat, NEW p \in [1 .. m -> X], NEW q \in [1 .. n -> X]
  PROVE  Joined(p, q, m, n, X, p \o q)
  <1>1. p \in Seq(X) /\ Len(p) = m /\ q \in Seq(X) /\ Len(q) = n
    BY IntervalSequence
  <1>2. p \o q \in Seq(X) /\ Len(p \o q) = m + n
    BY Zenon, <1>1, SequencesJoined
  <1>3. /\ \A k \in 1 .. m : (p \o q)[k] = p[k]
        /\ \A k \in 1 .. n : (p \o q)[m + k] = q[k]
    <2>1. PICK t : t = p \o q
      OBVIOUS
    <2>3. p \in Seq(X) /\ q \in Seq(X)
      BY <1>1
    <2>2. /\ \A k \in 1 .. Len(p) : (p \o q)[k] = p[k]
          /\ \A k \in 1 .. Len(q) : (p \o q)[Len(p) + k] = q[k]
      BY ONLY <2>3, SequencesJoined
    <2> QED
      BY Zenon, <1>1, <2>1, <2>2
  <1>4. p \o q \in [1 .. Len(p \o q) -> X]
    BY Zenon, <1>2, SequenceInterval
  <1> QED
    BY Zenon, <1>2, <1>3, <1>4 DEF Joined

-----------------------------------------------------------------------------
(* The invariant.                                                          *)

\* An entry is occupied if and only if it holds a block.
Attached(b) == Accounted(b, Freed(b, Slots(b)))

Pointers(p) == {p.pointers[x] : x \in BlockNames}

\* What p points to it points to once.
Sound(p) ==
  /\ p \in Structs
  /\ \A x, y \in BlockNames : p.pointers[x] = p.pointers[y] => x = y
  /\ Attached(p.fragment_reassembly)
  /\ Single(p.fragment_reassembly)
  /\ Pointers(p) \cap Data(p.fragment_reassembly, Slots(p.fragment_reassembly)) = {}

\* The addresses p points to, if it is an endpoint.
OwnedBy(p) ==
  IF p = NULL THEN {}
  ELSE Pointers(p) \cup Data(p.fragment_reassembly, Slots(p.fragment_reassembly))

IInv ==
  /\ endpoint \in [Endpoints -> Structs \cup {NULL}]
  /\ \A e \in Endpoints : endpoint[e] # NULL => Sound(endpoint[e])
  /\ heap \in SUBSET Nat /\ IsFiniteSet(heap)
  /\ heap = UNION {OwnedBy(endpoint[e]) : e \in Endpoints}
  /\ \A e, o \in Endpoints : e # o => OwnedBy(endpoint[e]) \cap OwnedBy(endpoint[o]) = {}
  /\ InDestroyOrder(freed)

LEMMA OwnedValue ==
  ASSUME NEW e \in Endpoints
  PROVE  Owned(e) = OwnedBy(endpoint[e])
  BY DEF Owned, OwnedBy, Pointers, Data, Exist, Reassembly, BlockNames

\* A number of different addresses.
LEMMA ImageCount ==
  ASSUME NEW S, NEW T, IsFiniteSet(S), NEW f \in [S -> T],
         \A x, y \in S : f[x] = f[y] => x = y,
         \A t \in T : \E x \in S : f[x] = t
  PROVE  IsFiniteSet(T) /\ Cardinality(T) = Cardinality(S)
  <1>1. f \in Bijection(S, T)
    BY DEF Bijection, Injection, IsInjective, Surjection
  <1>2. ExistsBijection(S, T)
    BY <1>1 DEF ExistsBijection
  <1> QED
    BY <1>2, FS_Bijection

\* An endpoint owns as many addresses as create allocated and entries hold.
LEMMA OwnedCount ==
  ASSUME NEW p, p # NULL, Sound(p)
  PROVE  LET b == p.fragment_reassembly
         IN  /\ IsFiniteSet(OwnedBy(p)) /\ OwnedBy(p) \in SUBSET Nat
             /\ Cardinality(OwnedBy(p)) = Len(CreatedBlocks) + Freed(b, Slots(b))
  <1> DEFINE b == p.fragment_reassembly
             D == Data(b, Slots(b))
             f == [k \in 1 .. 13 |-> p.pointers[CreatedBlocks[k]]]
             g == [i \in Blocks(ReassemblySize, b) |-> b.entry_data[i]]
  <1>1. /\ p.pointers \in [BlockNames -> Nat]
        /\ b \in Buffer(ReassemblySize, Nat \cup {NULL})
        /\ ReassemblySize \in Nat \ {0}
    BY LifecycleAssumption DEF Sound, Structs, BlockNames
  <1>2. Slots(b) = 0 .. (ReassemblySize - 1)
    BY <1>1, SlotsValue
  <1>3. Pointers(p) \in SUBSET Nat /\ D \in SUBSET Nat
    <2>1. b.entry_data \in [Slots(b) -> Nat \cup {NULL}]
      BY <1>1, <1>2 DEF Buffer
    <2> QED
      BY <1>1, <2>1 DEF Pointers, Data
  <1>4. IsFiniteSet(Pointers(p)) /\ Cardinality(Pointers(p)) = 13
    <2>1. IsFiniteSet(1 .. 13) /\ Cardinality(1 .. 13) = 13
      <3>1. 1 \in Int /\ 13 \in Int /\ ~(1 > 13) /\ 13 - 1 + 1 = 13
        OBVIOUS
      <3>2. IsFiniteSet(1 .. 13) /\ Cardinality(1 .. 13) = IF 1 > 13 THEN 0 ELSE 13 - 1 + 1
        BY ONLY <3>1, FS_Interval, Zenon
      <3> QED
        BY ONLY <3>1, <3>2, Zenon
    <2>2. \A k \in 1 .. 13 : f[k] = p.pointers[CreatedBlocks[k]] /\ CreatedBlocks[k] \in BlockNames
      BY DestroyedAll
    <2>3. f \in [1 .. 13 -> Pointers(p)]
      BY <2>2 DEF Pointers
    <2>4. \A k, l \in 1 .. 13 : f[k] = f[l] => k = l
      <3> TAKE k, l \in 1 .. 13
      <3>1. f[k] = f[l] => CreatedBlocks[k] = CreatedBlocks[l]
        BY <2>2 DEF Sound
      <3> QED
        BY Zenon, <3>1, BlocksDiffer
    <2>5. \A a \in Pointers(p) : \E k \in 1 .. 13 : f[k] = a
      BY DestroyedAll DEF Pointers
    <2> HIDE DEF f
    <2>6. IsFiniteSet(Pointers(p)) /\ Cardinality(Pointers(p)) = Cardinality(1 .. 13)
      BY <2>1, <2>3, <2>4, <2>5, ImageCount
    <2> QED
      BY Zenon, <2>1, <2>6
  <1>5. IsFiniteSet(D) /\ Cardinality(D) = Freed(b, Slots(b))
    <2>1. /\ IsFiniteSet(Blocks(ReassemblySize, b))
          /\ Freed(b, Slots(b)) = Cardinality(Blocks(ReassemblySize, b))
      <3>1. Slots(b) \in SUBSET Slots(b)
        OBVIOUS
      <3> QED
        BY <1>1, <3>1, FreedCount
    <2>2. \A i \in Blocks(ReassemblySize, b) : i \in Slots(b) /\ b.entry_data[i] # NULL
      BY <1>2 DEF Blocks
    <2>3. g \in [Blocks(ReassemblySize, b) -> D]
      BY <2>2 DEF Data
    <2>4. \A i, j \in Blocks(ReassemblySize, b) : g[i] = g[j] => i = j
      BY <2>2 DEF Sound, Single
    <2>5. \A a \in D : \E i \in Blocks(ReassemblySize, b) : g[i] = a
      BY <1>2 DEF Data, Blocks
    <2> HIDE DEF g
    <2>6. IsFiniteSet(D) /\ Cardinality(D) = Cardinality(Blocks(ReassemblySize, b))
      BY <2>1, <2>3, <2>4, <2>5, ImageCount
    <2> QED
      BY Zenon, <2>1, <2>6
  <1>6. Pointers(p) \cap D = {}
    BY DEF Sound
  <1>7. OwnedBy(p) = Pointers(p) \cup D
    BY DEF OwnedBy
  <1>8. Cardinality(Pointers(p) \cap D) = 0
    BY <1>6, FS_EmptySet
  <1>9. /\ IsFiniteSet(Pointers(p) \cup D)
        /\ Cardinality(Pointers(p) \cup D) =
             Cardinality(Pointers(p)) + Cardinality(D) - Cardinality(Pointers(p) \cap D)
    BY <1>4, <1>5, FS_Union
  <1>10. Cardinality(D) \in Nat
    BY <1>5, FS_CardinalityType
  <1>11. Cardinality(Pointers(p) \cup D) = 13 + Cardinality(D)
    BY <1>4, <1>8, <1>9, <1>10
  <1> HIDE DEF D
  <1>12. /\ IsFiniteSet(OwnedBy(p)) /\ OwnedBy(p) \in SUBSET Nat
         /\ Cardinality(OwnedBy(p)) = 13 + Freed(b, Slots(b))
    BY <1>3, <1>5, <1>7, <1>9, <1>11
  <1> QED
    BY <1>12, CreatedList, Zenon

LEMMA NothingIsLost == IInv => NothingLost
  <1> SUFFICES ASSUME IInv PROVE NothingLost
    OBVIOUS
  <1>1. \A e \in Endpoints : Owned(e) = OwnedBy(endpoint[e])
    BY OwnedValue
  <1>2. heap = UNION {Owned(e) : e \in Endpoints}
    <2>1. {Owned(e) : e \in Endpoints} = {OwnedBy(endpoint[e]) : e \in Endpoints}
      BY <1>1
    <2> QED
      BY <2>1, Zenon DEF IInv
  <1>3. \A e, o \in Endpoints : e # o => Owned(e) \cap Owned(o) = {}
    BY <1>1, Zenon DEF IInv
  <1>4. ASSUME NEW e \in Endpoints, Exist(e)
        PROVE  Cardinality(Owned(e)) = Len(CreatedBlocks) + Freed(Reassembly(e), Slots(Reassembly(e)))
    <2>1. PICK p : p = endpoint[e] /\ p # NULL /\ Sound(p)
      BY <1>4, Zenon DEF IInv, Exist
    <2>2. Cardinality(OwnedBy(p)) =
            Len(CreatedBlocks) + Freed(p.fragment_reassembly, Slots(p.fragment_reassembly))
      BY <2>1, OwnedCount
    <2> QED
      BY Zenon, <1>1, <2>1, <2>2 DEF Reassembly
  <1> QED
    BY <1>2, <1>3, <1>4, Zenon DEF NothingLost

-----------------------------------------------------------------------------
(* What a step may do to one endpoint.                                     *)

\* One owner gives up some addresses and gets others that are nobody's.
Shared(E, own, h) ==
  /\ h = UNION {own[o] : o \in E}
  /\ \A a, o \in E : a # o => own[a] \cap own[o] = {}

Changes(E, own, own2, h, e, gone, new) ==
  /\ gone \subseteq own[e] /\ new \cap (h \ gone) = {}
  /\ own2[e] = (own[e] \ gone) \cup new
  /\ \A o \in E : o # e => own2[o] = own[o]

LEMMA OneOwner ==
  ASSUME NEW E, NEW own, NEW own2, NEW h, NEW e \in E, NEW gone, NEW new,
         Shared(E, own, h), Changes(E, own, own2, h, e, gone, new)
  PROVE  Shared(E, own2, (h \ gone) \cup new)
  <1>0. /\ h = UNION {own[o] : o \in E}
        /\ \A a, o \in E : a # o => own[a] \cap own[o] = {}
        /\ gone \subseteq own[e] /\ new \cap (h \ gone) = {}
        /\ own2[e] = (own[e] \ gone) \cup new
        /\ \A o \in E : o # e => own2[o] = own[o]
    BY DEF Shared, Changes
  <1>1. \A x : x \in h <=> \E o \in E : x \in own[o]
    BY <1>0
  <1>2. \A o \in E : o # e => own[o] \subseteq h \ gone
    BY <1>0, <1>1
  <1>3. ASSUME NEW x
        PROVE  x \in (h \ gone) \cup new <=> \E o \in E : x \in own2[o]
    <2>1. ASSUME x \in h, x \notin gone PROVE \E o \in E : x \in own2[o]
      <3>1. PICK o \in E : x \in own[o]
        BY <1>0, <1>1, <2>1
      <3> QED
        BY <1>0, <2>1, <3>1
    <2>2. ASSUME NEW o \in E, x \in own2[o] PROVE x \in (h \ gone) \cup new
      <3>1. CASE o = e
        BY <1>0, <1>1, <2>2, <3>1
      <3>2. CASE o # e
        BY <1>0, <1>2, <2>2, <3>2
      <3> QED
        BY <3>1, <3>2
    <2>3. x \in new => x \in own2[e]
      BY <1>0
    <2> QED
      BY <2>1, <2>2, <2>3
  <1>4. ASSUME NEW a \in E, NEW o \in E, a # o PROVE own2[a] \cap own2[o] = {}
    <2>1. CASE a # e /\ o # e
      BY <1>0, <1>4, <2>1
    <2>2. CASE a = e
      BY <1>0, <1>2, <1>4, <2>2
    <2>3. CASE o = e
      BY <1>0, <1>2, <1>4, <2>3
    <2> QED
      BY <2>1, <2>2, <2>3
  <1>5. (h \ gone) \cup new = UNION {own2[o] : o \in E}
    BY <1>3
  <1> QED
    BY <1>4, <1>5 DEF Shared

\* So does one endpoint.
LEMMA OneChanges ==
  ASSUME IInv, NEW e \in Endpoints, NEW p \in Structs \cup {NULL}, p # NULL => Sound(p),
         endpoint' = [endpoint EXCEPT ![e] = p],
         NEW gone, NEW new, OwnedBy(p) = (OwnedBy(endpoint[e]) \ gone) \cup new,
         gone \subseteq OwnedBy(endpoint[e]), new \in SUBSET Nat, IsFiniteSet(new),
         new \cap (heap \ gone) = {},
         heap' = (heap \ gone) \cup new, InDestroyOrder(freed')
  PROVE  IInv'
  <1>1. endpoint \in [Endpoints -> Structs \cup {NULL}]
    BY DEF IInv
  <1>2. /\ endpoint' \in [Endpoints -> Structs \cup {NULL}]
        /\ endpoint'[e] = p
        /\ \A o \in Endpoints : o # e => endpoint'[o] = endpoint[o]
    BY <1>1
  <1>3. \A o \in Endpoints : endpoint'[o] # NULL => Sound(endpoint'[o])
    <2> TAKE o \in Endpoints
    <2>1. endpoint[o] # NULL => Sound(endpoint[o])
      BY DEF IInv
    <2> QED
      BY Zenon, <1>2, <2>1
  <1>4. heap' \in SUBSET Nat /\ IsFiniteSet(heap')
    <2>1. heap \in SUBSET Nat /\ IsFiniteSet(heap)
      BY DEF IInv
    <2>2. IsFiniteSet(heap \ gone)
      BY <2>1, FS_Difference
    <2>3. IsFiniteSet((heap \ gone) \cup new)
      BY <2>2, FS_Union
    <2> QED
      BY <2>1, <2>3
  <1> DEFINE own == [o \in Endpoints |-> OwnedBy(endpoint[o])]
             own2 == [o \in Endpoints |-> OwnedBy(endpoint'[o])]
  <1>5. /\ \A o \in Endpoints : own[o] = OwnedBy(endpoint[o])
        /\ \A o \in Endpoints : own2[o] = OwnedBy(endpoint'[o])
    OBVIOUS
  <1> HIDE DEF own, own2
  <1>6. /\ own2[e] = (own[e] \ gone) \cup new
        /\ \A o \in Endpoints : o # e => own2[o] = own[o]
    BY Zenon, <1>2, <1>5
  <1>7. /\ gone \subseteq own[e]
        /\ \A a, o \in Endpoints : a # o => own[a] \cap own[o] = {}
    <2>1. gone \subseteq own[e]
      <3>1. own[e] = OwnedBy(endpoint[e])
        BY <1>5
      <3> QED
        BY <3>1
    <2>2. \A a, o \in Endpoints : a # o => OwnedBy(endpoint[a]) \cap OwnedBy(endpoint[o]) = {}
      BY DEF IInv
    <2> QED
      BY Zenon, <1>5, <2>1, <2>2
  <1>8. heap = UNION {own[o] : o \in Endpoints}
    <2>1. {own[o] : o \in Endpoints} = {OwnedBy(endpoint[o]) : o \in Endpoints}
      BY <1>5
    <2> QED
      BY Zenon, <2>1 DEF IInv
  <1>9. /\ (heap \ gone) \cup new = UNION {own2[o] : o \in Endpoints}
        /\ \A a, o \in Endpoints : a # o => own2[a] \cap own2[o] = {}
    <2>1. Shared(Endpoints, own, heap)
      BY <1>7, <1>8 DEF Shared
    <2>2. Changes(Endpoints, own, own2, heap, e, gone, new)
      BY <1>6, <1>7 DEF Changes
    <2>3. Shared(Endpoints, own2, (heap \ gone) \cup new)
      BY Zenon, <2>1, <2>2, OneOwner
    <2> QED
      BY <2>3, Zenon DEF Shared
  <1>10. heap' = UNION {OwnedBy(endpoint'[o]) : o \in Endpoints}
    <2>1. {own2[o] : o \in Endpoints} = {OwnedBy(endpoint'[o]) : o \in Endpoints}
      BY <1>5
    <2> QED
      BY Zenon, <1>9, <2>1
  <1>11. \A a, o \in Endpoints : a # o => OwnedBy(endpoint'[a]) \cap OwnedBy(endpoint'[o]) = {}
    BY Zenon, <1>5, <1>9
  <1> QED
    BY Zenon, <1>2, <1>3, <1>4, <1>10, <1>11 DEF IInv

-----------------------------------------------------------------------------
(* What a step may do to the packets in reassembly.                        *)

Reassemblies == Buffer(ReassemblySize, Nat \cup {NULL})

LEMMA ReassemblyType ==
  ASSUME NEW b \in Reassemblies
  PROVE  /\ ReassemblySize \in Nat \ {0} /\ NULL \in Nat \cup {NULL} /\ NULL \notin Nat
         /\ Slots(b) = 0 .. (ReassemblySize - 1)
         /\ b.entry_data \in [Slots(b) -> Nat \cup {NULL}]
         /\ \A S \in SUBSET Slots(b) : Data(b, S) \in SUBSET Nat
  <1>1. ReassemblySize \in Nat \ {0} /\ NULL \in Nat \cup {NULL} /\ NULL \notin Nat
    BY LifecycleAssumption, NullAssumption
  <1>2. b \in Buffer(ReassemblySize, Nat \cup {NULL})
    BY DEF Reassemblies
  <1>3. Slots(b) = 0 .. (ReassemblySize - 1)
    BY <1>1, <1>2, SlotsValue
  <1>4. b.entry_data \in [Slots(b) -> Nat \cup {NULL}]
    BY <1>2, <1>3 DEF Buffer
  <1> QED
    BY <1>1, <1>3, <1>4 DEF Data

\* c is b without the blocks of the slots S.
Left(b, c, S) ==
  /\ c \in Reassemblies /\ Attached(c) /\ S \in SUBSET Slots(b)
  /\ \A i \in Slots(b) : c.entry_data[i] = IF i \in S THEN NULL ELSE b.entry_data[i]

LEMMA BlocksLeft ==
  ASSUME NEW b \in Reassemblies, Single(b), NEW c, NEW S, Left(b, c, S)
  PROVE  /\ Single(c)
         /\ Data(b, S) \subseteq Data(b, Slots(b))
         /\ Data(c, Slots(c)) = Data(b, Slots(b)) \ Data(b, S)
  <1>1. c \in Reassemblies /\ S \in SUBSET Slots(b)
    BY DEF Left
  <1>2. Slots(c) = Slots(b)
    BY <1>1, ReassemblyType
  <1>3. \A i \in Slots(b) : c.entry_data[i] = IF i \in S THEN NULL ELSE b.entry_data[i]
    BY DEF Left
  <1>4. Single(c)
    BY <1>2, <1>3 DEF Single
  <1>5. ASSUME NEW x PROVE x \in Data(c, Slots(c)) <=> x \in Data(b, Slots(b)) \ Data(b, S)
    <2>1. ASSUME x \in Data(c, Slots(c)) PROVE x \in Data(b, Slots(b)) \ Data(b, S)
      <3>1. PICK i \in Slots(b) : x = c.entry_data[i] /\ x # NULL
        BY <1>2, <2>1 DEF Data
      <3>2. i \notin S /\ x = b.entry_data[i]
        BY <1>3, <3>1
      <3>3. x \in Data(b, Slots(b))
        BY <3>1, <3>2 DEF Data
      <3>4. ASSUME x \in Data(b, S) PROVE FALSE
        <4>1. PICK j \in S : x = b.entry_data[j]
          BY <3>4 DEF Data
        <4> QED
          BY <1>1, <3>1, <3>2, <4>1 DEF Single
      <3> QED
        BY <3>3, <3>4
    <2>2. ASSUME x \in Data(b, Slots(b)) \ Data(b, S) PROVE x \in Data(c, Slots(c))
      <3>1. PICK i \in Slots(b) : x = b.entry_data[i] /\ x # NULL /\ i \notin S
        BY <2>2 DEF Data
      <3>2. x = c.entry_data[i]
        BY <1>3, <3>1
      <3> QED
        BY <1>2, <3>1, <3>2 DEF Data
    <2> QED
      BY <2>1, <2>2
  <1>6. Data(b, S) \subseteq Data(b, Slots(b))
    BY <1>1 DEF Data
  <1> QED
    BY <1>4, <1>5, <1>6

\* c is b without the blocks of S, and with the block x in slot j.
Put(b, c, S, j, x) ==
  /\ c \in Reassemblies /\ Attached(c) /\ S \in SUBSET Slots(b)
  /\ j \in Slots(b) /\ x # NULL /\ (j \in S \/ b.entry_data[j] = NULL)
  /\ \A i \in Slots(b) : c.entry_data[i] = IF i = j THEN x
                                           ELSE IF i \in S THEN NULL ELSE b.entry_data[i]

LEMMA BlockPut ==
  ASSUME NEW b \in Reassemblies, Single(b), NEW c, NEW S, NEW j, NEW x, Put(b, c, S, j, x),
         x \notin Data(b, Slots(b)) \ Data(b, S)
  PROVE  /\ Single(c)
         /\ Data(b, S) \subseteq Data(b, Slots(b))
         /\ Data(c, Slots(c)) = (Data(b, Slots(b)) \ Data(b, S)) \cup {x}
  <1>1. /\ c \in Reassemblies /\ S \in SUBSET Slots(b)
        /\ j \in Slots(b) /\ x # NULL /\ (j \in S \/ b.entry_data[j] = NULL)
    BY DEF Put
  <1>2. Slots(c) = Slots(b)
    BY <1>1, ReassemblyType
  <1>3. \A i \in Slots(b) : c.entry_data[i] = IF i = j THEN x
                                              ELSE IF i \in S THEN NULL ELSE b.entry_data[i]
    BY DEF Put
  <1>4. ASSUME NEW i \in Slots(b), i \notin S, b.entry_data[i] # NULL
        PROVE  b.entry_data[i] \in Data(b, Slots(b)) \ Data(b, S)
    <2>1. b.entry_data[i] \in Data(b, Slots(b))
      BY <1>4 DEF Data
    <2>2. ASSUME b.entry_data[i] \in Data(b, S) PROVE FALSE
      <3>1. PICK k \in S : b.entry_data[i] = b.entry_data[k]
        BY <2>2 DEF Data
      <3> QED
        BY <1>1, <1>4, <3>1 DEF Single
    <2> QED
      BY <2>1, <2>2
  <1>5. Single(c)
    <2> SUFFICES ASSUME NEW i \in Slots(b), NEW k \in Slots(b), c.entry_data[i] # NULL,
                        c.entry_data[i] = c.entry_data[k], i # k
                 PROVE  FALSE
      BY <1>2, Zenon DEF Single
    <2>1. \A l \in {i, k} : l # j => /\ l \notin S /\ b.entry_data[l] # NULL
                                     /\ c.entry_data[l] = b.entry_data[l]
      BY <1>3
    <2>2. CASE i # j /\ k # j
      BY <2>1, <2>2 DEF Single
    <2>3. CASE i = j
      BY <1>3, <1>4, <2>1, <2>3
    <2>4. CASE k = j
      BY <1>3, <1>4, <2>1, <2>4
    <2> QED
      BY <2>2, <2>3, <2>4
  <1>6. ASSUME NEW y
        PROVE  y \in Data(c, Slots(c)) <=> y \in (Data(b, Slots(b)) \ Data(b, S)) \cup {x}
    <2>1. ASSUME y \in Data(c, Slots(c)) PROVE y \in (Data(b, Slots(b)) \ Data(b, S)) \cup {x}
      <3>1. PICK i \in Slots(b) : y = c.entry_data[i] /\ y # NULL
        BY <1>2, <2>1 DEF Data
      <3> QED
        BY <1>3, <1>4, <3>1
    <2>2. ASSUME y \in Data(b, Slots(b)) \ Data(b, S) PROVE y \in Data(c, Slots(c))
      <3>1. PICK i \in Slots(b) : y = b.entry_data[i] /\ y # NULL /\ i \notin S
        BY <2>2 DEF Data
      <3>2. y = c.entry_data[i]
        BY <1>1, <1>3, <3>1
      <3> QED
        BY <1>2, <3>1, <3>2 DEF Data
    <2>3. x \in Data(c, Slots(c))
      BY <1>1, <1>2, <1>3 DEF Data
    <2> QED
      BY <2>1, <2>2, <2>3
  <1>7. Data(b, S) \subseteq Data(b, Slots(b))
    BY <1>1 DEF Data
  <1> QED
    BY <1>5, <1>6, <1>7

\* An entry holds a block, with the occupied entries counted or not.
LEMMA AttachedBy ==
  ASSUME NEW c, NEW k, Accounted(c, k)
  PROVE  Attached(c)
  BY DEF Accounted, Attached

\* A packet that is not a fragment frees what it overtakes.
LEMMA AdvanceLeft ==
  ASSUME NEW b \in Reassemblies, Attached(b), NEW s \in Seqs
  PROVE  Left(b, AdvanceWithCleanup(b, s), Overtaken(b, s))
  <1> DEFINE D == Nat \cup {NULL}
             S == Overtaken(b, s)
  <1>1. ReassemblySize \in Nat \ {0} /\ NULL \in D /\ b \in Buffer(ReassemblySize, D)
        /\ Slots(b) = 0 .. (ReassemblySize - 1)
    BY ReassemblyType DEF Reassemblies
  <1> HIDE DEF D
  <1>2. S \in SUBSET Slots(b)
    BY <1>1, CleanedSlots
  <1>3. PICK a \in Buffer(ReassemblySize, D) : a = Advance(b, s) /\ a.entry_data = b.entry_data
    BY <1>1, AdvanceAt
  <1>4. /\ Cleanup(a, S) \in Buffer(ReassemblySize, D)
        /\ \A i \in 0 .. (ReassemblySize - 1) :
              Cleanup(a, S).entry_data[i] = IF i \in S THEN NULL ELSE a.entry_data[i]
    BY <1>1, CleanupAt
  <1>5. Attached(AdvanceWithCleanup(b, s))
    <2>1. Accounted(AdvanceWithCleanup(b, s), Freed(b, Slots(b)) - Freed(b, Overtaken(b, s)))
      BY <1>1, AdvanceAccounted DEF Attached
    <2> QED
      BY <2>1, AttachedBy
  <1>6. AdvanceWithCleanup(b, s) = Cleanup(a, S)
    BY <1>3 DEF AdvanceWithCleanup
  <1> HIDE DEF S
  <1> QED
    BY <1>1, <1>2, <1>3, <1>4, <1>5, <1>6, Zenon DEF Left, Reassemblies, D, S

\* The last fragment of a packet frees what its slot holds.
LEMMA RemoveLeft ==
  ASSUME NEW b \in Reassemblies, Attached(b), NEW s \in Seqs
  PROVE  Left(b, RemoveWithCleanup(b, s), RemoveCleans(b, s))
  <1> DEFINE D == Nat \cup {NULL}
             S == RemoveCleans(b, s)
  <1>1. ReassemblySize \in Nat \ {0} /\ NULL \in D /\ b \in Buffer(ReassemblySize, D)
        /\ Slots(b) = 0 .. (ReassemblySize - 1)
    BY ReassemblyType DEF Reassemblies
  <1> HIDE DEF D
  <1>2. S \in SUBSET Slots(b)
    BY <1>1, CleanedSlots
  <1>3. PICK a \in Buffer(ReassemblySize, D) : a = Remove(b, s) /\ a.entry_data = b.entry_data
    BY <1>1, RemoveAt
  <1>4. /\ Cleanup(a, S) \in Buffer(ReassemblySize, D)
        /\ \A i \in 0 .. (ReassemblySize - 1) :
              Cleanup(a, S).entry_data[i] = IF i \in S THEN NULL ELSE a.entry_data[i]
    BY <1>1, CleanupAt
  <1>5. Attached(RemoveWithCleanup(b, s))
    <2>1. Accounted(RemoveWithCleanup(b, s), Freed(b, Slots(b)) - Freed(b, RemoveCleans(b, s)))
      BY <1>1, RemoveAccounted DEF Attached
    <2> QED
      BY <2>1, AttachedBy
  <1>6. RemoveWithCleanup(b, s) = Cleanup(a, S)
    BY <1>3 DEF RemoveWithCleanup
  <1> HIDE DEF S
  <1> QED
    BY <1>1, <1>2, <1>3, <1>4, <1>5, <1>6, Zenon DEF Left, Reassemblies, D, S

\* Reset frees what every slot holds.
LEMMA ResetLeft ==
  ASSUME NEW b \in Reassemblies, Attached(b)
  PROVE  /\ Left(b, ResetBuffer(Cleanup(b, HeldSlots(b))), HeldSlots(b))
         /\ Data(b, HeldSlots(b)) = Data(b, Slots(b))
  <1> DEFINE D == Nat \cup {NULL}
             S == HeldSlots(b)
  <1>1. ReassemblySize \in Nat \ {0} /\ NULL \in D /\ b \in Buffer(ReassemblySize, D)
        /\ Slots(b) = 0 .. (ReassemblySize - 1)
    BY ReassemblyType DEF Reassemblies
  <1> HIDE DEF D
  <1>2. S \in SUBSET Slots(b) /\ S = {i \in Slots(b) : Occupied(b, i)}
    BY DEF HeldSlots
  <1> HIDE DEF S
  <1>3. PICK a \in Buffer(ReassemblySize, D) :
          /\ a = Cleanup(b, S)
          /\ \A i \in 0 .. (ReassemblySize - 1) :
                a.entry_data[i] = IF i \in S THEN NULL ELSE b.entry_data[i]
    BY <1>1, CleanupAt
  <1>4. ResetBuffer(a) \in Buffer(ReassemblySize, D) /\ ResetBuffer(a).entry_data = a.entry_data
    <2>1. ResetBuffer(a) \in Buffer(ReassemblySize, D)
      BY <1>1, ResetType
    <2> QED
      BY <2>1 DEF ResetBuffer, Buffer
  <1>5. Attached(ResetBuffer(a))
    <2>1. Accounted(ResetBuffer(Cleanup(b, S)), Freed(b, Slots(b)) - Freed(b, S))
      BY <1>1, <1>2, ResetAccounted DEF Attached
    <2> QED
      BY <1>3, <2>1, AttachedBy
  <1>6. Left(b, ResetBuffer(a), S)
    BY <1>1, <1>2, <1>3, <1>4, <1>5, Zenon DEF Left, Reassemblies, D
  <1>7. Data(b, S) = Data(b, Slots(b))
    <2>1. \A i \in Slots(b) : b.entry_data[i] # NULL <=> i \in S
      BY <1>2 DEF Attached, Accounted
    <2> QED
      BY <1>2, <2>1 DEF Data
  <1> QED
    BY <1>3, <1>6, <1>7 DEF S

\* A first fragment frees what it overtakes and what its slot holds, and puts
\* its own block there.
LEMMA InsertPut ==
  ASSUME NEW b \in Reassemblies, Attached(b), NEW s \in Seqs, NEW x \in Nat
  PROVE  Put(b, [InsertWithCleanup(b, s) EXCEPT !.entry_data[Slot(b, s)] = x],
             InsertCleans(b, s), Slot(b, s), x)
  <1> DEFINE D == Nat \cup {NULL}
             S == InsertCleans(b, s)
             j == Slot(b, s)
  <1>1. /\ ReassemblySize \in Nat \ {0} /\ NULL \in D /\ b \in Buffer(ReassemblySize, D)
        /\ Slots(b) = 0 .. (ReassemblySize - 1)
        /\ x \in D /\ x # NULL
    BY ReassemblyType DEF Reassemblies
  <1> HIDE DEF D
  <1>2. S \in SUBSET Slots(b) /\ j \in Slots(b)
    BY <1>1, CleanedSlots
  <1>0. PICK c \in Buffer(ReassemblySize, D) :
           c = [InsertWithCleanup(b, s) EXCEPT !.entry_data[Slot(b, s)] = x]
    BY <1>1, InsertOwnedBuffer
  <1>3. \A i \in 0 .. (ReassemblySize - 1) :
           c.entry_data[i] = IF i = j THEN x ELSE IF i \in S THEN NULL ELSE b.entry_data[i]
    BY <1>0, <1>1, InsertOwnedBuffer
  <1>4. Attached(c)
    <2>1. Accounted(c, Freed(b, Slots(b)) - Freed(b, InsertCleans(b, s)) + 1)
      BY <1>0, <1>1, InsertAccounted DEF Attached
    <2> QED
      BY <2>1, AttachedBy
  <1>5. j \in S \/ b.entry_data[j] = NULL
    <2>1. PICK a : a = Advance(b, s)
                   /\ \A i \in 0 .. (ReassemblySize - 1) : a.entry_sequence[i] =
                        IF i \in Overtaken(b, s) THEN Empty ELSE b.entry_sequence[i]
      BY <1>1, AdvanceAt
    <2>2. j \in Overtaken(b, s) \/ Occupied(a, j) => j \in S
      BY <2>1 DEF InsertCleans
    <2>3. Occupied(b, j) <=> b.entry_data[j] # NULL
      BY <1>2 DEF Attached, Accounted
    <2> QED
      BY <1>1, <1>2, <2>1, <2>2, <2>3 DEF Occupied
  <1> HIDE DEF S, j
  <1>6. Put(b, c, S, j, x)
    BY <1>0, <1>1, <1>2, <1>3, <1>4, <1>5, Zenon DEF Put, Reassemblies, D
  <1> QED
    BY <1>0, <1>6, Zenon DEF S, j

-----------------------------------------------------------------------------
(* What each call does.                                                    *)

\* What f frees is among the addresses A, and is freed once.
FreesOnce(f, A) ==
  /\ {f[k].address : k \in DOMAIN f} \subseteq A
  /\ \A k, l \in DOMAIN f : k # l => f[k].address # f[l].address

LEMMA PacketsFreed ==
  ASSUME NEW f, NEW A, NEW m, FreesPackets(f, A, m)
  PROVE  /\ {f[k].address : k \in DOMAIN f} = A
         /\ FreesOnce(f, A)
         /\ InDestroyOrder(f)
  <1>1. /\ m \in Nat /\ f \in [1 .. m -> [block : {PacketData}, address : A]]
        /\ \A a \in A : \E k \in 1 .. m : f[k].address = a
        /\ \A k, l \in 1 .. m : f[k].address = f[l].address => k = l
    BY DEF FreesPackets
  <1>2. DOMAIN f = 1 .. m /\ \A k \in 1 .. m : f[k].block = PacketData /\ f[k].address \in A
    BY <1>1
  <1>3. {f[k].address : k \in DOMAIN f} = A
    BY <1>1, <1>2
  <1>4. FreesOnce(f, A)
    BY <1>1, <1>2, <1>3 DEF FreesOnce
  <1>5. \A k \in DOMAIN f : /\ k \in Nat
                            /\ k <= m => f[k].block = PacketData
                            /\ k > m => k - m \in 1 .. 13 /\ f[k].block = DestroyedBlocks[k - m]
    BY <1>1, <1>2
  <1>6. InDestroyOrder(f)
    BY <1>1, <1>5 DEF InDestroyOrder
  <1> QED
    BY <1>3, <1>4, <1>6

\* c is b without the blocks gone, and with the blocks new.
Replaced(b, c, gone, new) ==
  /\ c \in Reassemblies /\ Attached(c) /\ Single(c)
  /\ gone \subseteq Data(b, Slots(b)) /\ new \in SUBSET Nat /\ IsFiniteSet(new)
  /\ Data(c, Slots(c)) = (Data(b, Slots(b)) \ gone) \cup new

LEMMA PointsAtHeap ==
  ASSUME IInv, NEW e \in Endpoints, Exist(e)
  PROVE  /\ endpoint[e] \in Structs /\ Sound(endpoint[e]) /\ OwnedBy(endpoint[e]) \subseteq heap
         /\ OwnedBy(endpoint[e]) = Pointers(endpoint[e]) \cup Data(Reassembly(e), Slots(Reassembly(e)))
         /\ Reassembly(e) \in Reassemblies /\ Attached(Reassembly(e)) /\ Single(Reassembly(e))
         /\ Pointers(endpoint[e]) \cap Data(Reassembly(e), Slots(Reassembly(e))) = {}
  <1>1. PICK p : p = endpoint[e] /\ p # NULL /\ Sound(p)
    BY Zenon DEF IInv, Exist
  <1>2. OwnedBy(p) \subseteq heap
    <2>1. heap = UNION {OwnedBy(endpoint[o]) : o \in Endpoints}
      BY DEF IInv
    <2> QED
      BY <1>1, <2>1
  <1>3. /\ p \in Structs /\ p.fragment_reassembly \in Reassemblies
        /\ Attached(p.fragment_reassembly) /\ Single(p.fragment_reassembly)
        /\ Pointers(p) \cap Data(p.fragment_reassembly, Slots(p.fragment_reassembly)) = {}
        /\ OwnedBy(p) = Pointers(p) \cup Data(p.fragment_reassembly, Slots(p.fragment_reassembly))
    BY <1>1 DEF Sound, Structs, Reassemblies, OwnedBy
  <1> QED
    BY Zenon, <1>1, <1>2, <1>3 DEF Reassembly

\* The call changes which packets an endpoint is reassembling.
LEMMA ReassemblyChanged ==
  ASSUME IInv, NEW e \in Endpoints, Exist(e), NEW c, NEW gone, NEW new,
         Replaced(Reassembly(e), c, gone, new), new \cap (heap \ gone) = {},
         endpoint' = [endpoint EXCEPT ![e].fragment_reassembly = c],
         heap' = (heap \ gone) \cup new, InDestroyOrder(freed')
  PROVE  IInv'
  <1>1. PICK p : p = endpoint[e]
    OBVIOUS
  <1>2. PICK b : b = Reassembly(e)
    OBVIOUS
  <1>3. /\ p \in Structs /\ Sound(p) /\ OwnedBy(p) \subseteq heap
        /\ OwnedBy(p) = Pointers(p) \cup Data(b, Slots(b))
        /\ Pointers(p) \cap Data(b, Slots(b)) = {}
    BY Zenon, <1>1, <1>2, PointsAtHeap
  <1>4. PICK q : q = [p EXCEPT !.fragment_reassembly = c]
    OBVIOUS
  <1>5. /\ c \in Reassemblies /\ Attached(c) /\ Single(c)
        /\ gone \subseteq Data(b, Slots(b)) /\ new \in SUBSET Nat /\ IsFiniteSet(new)
        /\ Data(c, Slots(c)) = (Data(b, Slots(b)) \ gone) \cup new
    BY Zenon, <1>2 DEF Replaced
  <1>6. q \in Structs /\ q.pointers = p.pointers /\ q.fragment_reassembly = c
    BY <1>3, <1>4, <1>5 DEF Structs, Reassemblies
  <1>7. q # NULL
    BY <1>6, NullAssumption
  <1>8. Pointers(q) = Pointers(p)
    BY <1>6 DEF Pointers
  <1>9. Pointers(p) \cap new = {}
    BY <1>3, <1>5
  <1>10. Sound(q)
    <2>1. \A x, y \in BlockNames : q.pointers[x] = q.pointers[y] => x = y
      BY <1>3, <1>6 DEF Sound
    <2>2. Pointers(q) \cap Data(c, Slots(c)) = {}
      BY <1>3, <1>5, <1>8, <1>9
    <2> QED
      BY Zenon, <1>5, <1>6, <2>1, <2>2 DEF Sound
  <1>11. OwnedBy(q) = (OwnedBy(p) \ gone) \cup new
    <2>1. OwnedBy(q) = Pointers(p) \cup ((Data(b, Slots(b)) \ gone) \cup new)
      BY Zenon, <1>5, <1>6, <1>7, <1>8 DEF OwnedBy
    <2> QED
      BY <1>3, <1>5, <2>1
  <1>12. endpoint' = [endpoint EXCEPT ![e] = q]
    <2>1. endpoint' = [endpoint EXCEPT ![e] = [endpoint[e] EXCEPT !.fragment_reassembly = c]]
      OBVIOUS
    <2> QED
      BY Zenon, <1>1, <1>4, <2>1
  <1>13. gone \subseteq OwnedBy(endpoint[e]) /\ OwnedBy(q) = (OwnedBy(endpoint[e]) \ gone) \cup new
    BY <1>1, <1>3, <1>5, <1>11
  <1>14. /\ q \in Structs \cup {NULL} /\ (q # NULL => Sound(q))
         /\ new \in SUBSET Nat /\ IsFiniteSet(new)
    BY <1>5, <1>6, <1>10
  <1> QED
    BY <1>12, <1>13, <1>14, OneChanges

\* The call frees the packets of some slots, and starts none.
LEMMA PacketsGone ==
  ASSUME IInv, NEW e \in Endpoints, Exist(e), NEW c, NEW S, Left(Reassembly(e), c, S),
         endpoint' = [endpoint EXCEPT ![e].fragment_reassembly = c],
         Frees(PacketBlocks(Reassembly(e), S))
  PROVE  IInv' /\ FreesOnce(freed', OwnedBy(endpoint[e]))
  <1>1. PICK b : b = Reassembly(e)
    OBVIOUS
  <1>2. /\ OwnedBy(endpoint[e]) = Pointers(endpoint[e]) \cup Data(b, Slots(b))
        /\ b \in Reassemblies /\ Attached(b) /\ Single(b)
    BY Zenon, <1>1, PointsAtHeap
  <1>3. Left(b, c, S)
    BY <1>1
  <1>4. /\ Single(c)
        /\ Data(b, S) \subseteq Data(b, Slots(b))
        /\ Data(c, Slots(c)) = Data(b, Slots(b)) \ Data(b, S)
    BY <1>2, <1>3, BlocksLeft
  <1>5. c \in Reassemblies /\ Attached(c) /\ S \in SUBSET Slots(b)
    BY <1>3 DEF Left
  <1>6. PICK m : FreesPackets(PacketBlocks(b, S), Data(b, S), m)
    BY <1>2, <1>5, ReassemblyType, PacketBlocksValue DEF Reassemblies
  <1>7. PICK f : f = PacketBlocks(b, S)
    OBVIOUS
  <1>8. /\ {f[k].address : k \in DOMAIN f} = Data(b, S)
        /\ FreesOnce(f, Data(b, S)) /\ InDestroyOrder(f)
    BY <1>6, <1>7, PacketsFreed
  <1>9. freed' = f /\ heap' = heap \ Data(b, S)
    <2>1. freed' = f /\ heap' = heap \ {f[k].address : k \in DOMAIN f}
      BY Zenon, <1>1, <1>7 DEF Frees
    <2> QED
      BY <1>8, <2>1
  <1>10. Replaced(b, c, Data(b, S), {})
    BY <1>4, <1>5, FS_EmptySet DEF Replaced
  <1>11. Replaced(Reassembly(e), c, Data(b, S), {})
    BY <1>1, <1>10
  <1>12. {} \cap (heap \ Data(b, S)) = {} /\ heap' = (heap \ Data(b, S)) \cup {}
    BY <1>9
  <1>13. InDestroyOrder(freed')
    BY <1>8, <1>9
  <1>14. IInv'
    BY <1>11, <1>12, <1>13, ReassemblyChanged
  <1>15. FreesOnce(freed', OwnedBy(endpoint[e]))
    BY <1>2, <1>4, <1>8, <1>9 DEF FreesOnce
  <1> QED
    BY <1>14, <1>15

LEMMA CompleteStep ==
  ASSUME IInv, NEW e \in Endpoints, NEW s \in Seqs, Complete(e, s)
  PROVE  IInv' /\ FreesOnce(freed', OwnedBy(endpoint[e]))
  <1>1. PICK b : b = Reassembly(e)
    OBVIOUS
  <1>2. /\ Exist(e)
        /\ endpoint' = [endpoint EXCEPT ![e].fragment_reassembly = RemoveWithCleanup(b, s)]
        /\ Frees(PacketBlocks(b, RemoveCleans(b, s)))
    BY Zenon, <1>1 DEF Complete
  <1>3. b \in Reassemblies /\ Attached(b)
    BY Zenon, <1>1, <1>2, PointsAtHeap
  <1>4. Left(b, RemoveWithCleanup(b, s), RemoveCleans(b, s))
    BY <1>3, RemoveLeft
  <1> QED
    BY Zenon, <1>1, <1>2, <1>4, PacketsGone

LEMMA AdvancedStep ==
  ASSUME IInv, NEW e \in Endpoints, NEW s \in Seqs, Advanced(e, s)
  PROVE  IInv' /\ FreesOnce(freed', OwnedBy(endpoint[e]))
  <1>1. PICK b : b = Reassembly(e)
    OBVIOUS
  <1>2. /\ Exist(e)
        /\ endpoint' = [endpoint EXCEPT ![e].fragment_reassembly = AdvanceWithCleanup(b, s)]
        /\ Frees(PacketBlocks(b, Overtaken(b, s)))
    BY Zenon, <1>1 DEF Advanced
  <1>3. b \in Reassemblies /\ Attached(b)
    BY Zenon, <1>1, <1>2, PointsAtHeap
  <1>4. Left(b, AdvanceWithCleanup(b, s), Overtaken(b, s))
    BY <1>3, AdvanceLeft
  <1> QED
    BY Zenon, <1>1, <1>2, <1>4, PacketsGone

LEMMA ResetStep ==
  ASSUME IInv, NEW e \in Endpoints, Reset(e)
  PROVE  IInv' /\ FreesOnce(freed', OwnedBy(endpoint[e]))
  <1>1. PICK b : b = Reassembly(e)
    OBVIOUS
  <1>2. /\ Exist(e)
        /\ endpoint' = [endpoint EXCEPT ![e].fragment_reassembly =
                          ResetBuffer(Cleanup(b, HeldSlots(b)))]
        /\ Frees(PacketBlocks(b, HeldSlots(b)))
    BY Zenon, <1>1 DEF Reset
  <1>3. b \in Reassemblies /\ Attached(b)
    BY Zenon, <1>1, <1>2, PointsAtHeap
  <1>4. Left(b, ResetBuffer(Cleanup(b, HeldSlots(b))), HeldSlots(b))
    BY <1>3, ResetLeft
  <1> QED
    BY Zenon, <1>1, <1>2, <1>4, PacketsGone

\* A first fragment.
LEMMA OpenStep ==
  ASSUME IInv, NEW e \in Endpoints, NEW s \in Seqs, Open(e, s)
  PROVE  IInv' /\ FreesOnce(freed', OwnedBy(endpoint[e]))
  <1>1. PICK b : b = Reassembly(e)
    OBVIOUS
  <1>2. PICK S : S = InsertCleans(b, s)
    OBVIOUS
  <1>3. PICK live : live = heap \ {b.entry_data[i] : i \in S}
    OBVIOUS
  <1>4. PICK x : x = Allocate(live, 1)[1]
    OBVIOUS
  <1>5. PICK c : c = [InsertWithCleanup(b, s) EXCEPT !.entry_data[Slot(b, s)] = x]
    OBVIOUS
  <1>6. /\ Exist(e)
        /\ endpoint' = [endpoint EXCEPT ![e].fragment_reassembly = c]
        /\ freed' = PacketBlocks(b, S)
        /\ heap' = live \cup {x}
    BY ZenonT(60), <1>1, <1>2, <1>3, <1>4, <1>5 DEF Open
  <1>7. /\ OwnedBy(endpoint[e]) = Pointers(endpoint[e]) \cup Data(b, Slots(b))
        /\ b \in Reassemblies /\ Attached(b) /\ Single(b)
        /\ OwnedBy(endpoint[e]) \subseteq heap
    BY Zenon, <1>1, <1>6, PointsAtHeap
  <1>8. heap \in SUBSET Nat /\ IsFiniteSet(heap)
    BY DEF IInv
  <1>9. live = heap \ Data(b, S)
    BY <1>3, <1>8, NullAssumption DEF Data
  <1>10. live \in SUBSET Nat /\ IsFiniteSet(live)
    BY <1>8, <1>9, FS_Difference
  <1>11. x \in Nat \ live
    <2>1. Allocate(live, 1) \in [1 .. 1 -> Nat \ live]
      BY <1>10, AllocateValue
    <2> QED
      BY <1>4, <2>1
  <1>12. Put(b, c, S, Slot(b, s), x)
    BY Zenon, <1>2, <1>5, <1>7, <1>11, InsertPut
  <1>13. x \notin Data(b, Slots(b)) \ Data(b, S)
    BY <1>7, <1>9, <1>11
  <1>14. /\ Single(c)
         /\ Data(b, S) \subseteq Data(b, Slots(b))
         /\ Data(c, Slots(c)) = (Data(b, Slots(b)) \ Data(b, S)) \cup {x}
    BY <1>7, <1>12, <1>13, BlockPut
  <1>15. c \in Reassemblies /\ Attached(c) /\ S \in SUBSET Slots(b)
    BY <1>12 DEF Put
  <1>16. PICK m : FreesPackets(PacketBlocks(b, S), Data(b, S), m)
    BY <1>7, <1>15, ReassemblyType, PacketBlocksValue DEF Reassemblies
  <1>17. /\ FreesOnce(freed', Data(b, S)) /\ InDestroyOrder(freed')
    BY <1>6, <1>16, PacketsFreed
  <1>18. IsFiniteSet({x})
    BY FS_Singleton
  <1>19. Replaced(b, c, Data(b, S), {x})
    BY <1>11, <1>14, <1>15, <1>18 DEF Replaced
  <1>20. Replaced(Reassembly(e), c, Data(b, S), {x})
    BY <1>1, <1>19
  <1>21. {x} \cap (heap \ Data(b, S)) = {} /\ heap' = (heap \ Data(b, S)) \cup {x}
    BY <1>6, <1>9, <1>11
  <1>22. IInv'
    BY <1>6, <1>17, <1>20, <1>21, ReassemblyChanged
  <1>23. FreesOnce(freed', OwnedBy(endpoint[e]))
    BY <1>7, <1>14, <1>17 DEF FreesOnce
  <1> QED
    BY <1>22, <1>23

LEMMA CreateStep ==
  ASSUME IInv, NEW e \in Endpoints, Create(e)
  PROVE  IInv' /\ FreesOnce(freed', OwnedBy(endpoint[e]))
  <1>1. PICK a : a = Allocate(heap, Len(CreatedBlocks))
    OBVIOUS
  <1> DEFINE at(x) == a[CHOOSE k \in DOMAIN CreatedBlocks : CreatedBlocks[k] = x]
  <1>2. PICK c : c = CreateBuffer(ReassemblySize, NULL)
    OBVIOUS
  <1>3. PICK f : f = [x \in BlockNames |-> at(x)]
    OBVIOUS
  <1>4. PICK p : p = [pointers |-> f, fragment_reassembly |-> c]
    OBVIOUS
  <1>5. /\ endpoint[e] = NULL
        /\ endpoint' = [endpoint EXCEPT ![e] = p]
        /\ heap' = heap \cup Ext!ToSet(a)
        /\ freed' = << >>
    <2>1. /\ endpoint[e] = NULL
          /\ endpoint' = [endpoint EXCEPT ![e] =
                [pointers            |-> [x \in BlockNames |-> at(x)],
                 fragment_reassembly |-> CreateBuffer(ReassemblySize, NULL)]]
          /\ heap' = heap \cup Ext!ToSet(a)
          /\ freed' = << >>
      <3>1. /\ endpoint[e] = NULL
            /\ heap' = heap \cup Ext!ToSet(a)
            /\ freed' = << >>
        BY Zenon, <1>1 DEF Create
      <3>2. endpoint' = [endpoint EXCEPT ![e] =
                [pointers            |-> [x \in Ext!ToSet(CreatedBlocks) |-> at(x)],
                 fragment_reassembly |-> CreateBuffer(ReassemblySize, NULL)]]
        BY <1>1 DEF Create
      <3> HIDE DEF at
      <3> QED
        BY <3>1, <3>2, Zenon DEF BlockNames
    <2> HIDE DEF at
    <2> QED
      BY Zenon, <1>2, <1>3, <1>4, <2>1
  <1> HIDE DEF at
  <1>6. heap \in SUBSET Nat /\ IsFiniteSet(heap)
    BY DEF IInv
  <1>7. /\ a \in [1 .. 13 -> Nat \ heap]
        /\ \A k, l \in 1 .. 13 : a[k] = a[l] => k = l
    <2>1. a = Allocate(heap, 13) /\ 13 \in Nat
      BY <1>1, CreatedList
    <2> QED
      BY <1>6, <2>1, AllocateValue
  <1>8. \A x \in BlockNames : \E k \in 1 .. 13 : CreatedBlocks[k] = x /\ at(x) = a[k]
    <2> TAKE x \in BlockNames
    <2>1. \E k \in DOMAIN CreatedBlocks : CreatedBlocks[k] = x
      BY DestroyedAll, CreatedList
    <2>2. PICK l : l = CHOOSE k \in DOMAIN CreatedBlocks : CreatedBlocks[k] = x
      OBVIOUS
    <2>3. l \in DOMAIN CreatedBlocks /\ CreatedBlocks[l] = x
      BY Zenon, <2>1, <2>2
    <2>4. at(x) = a[l]
      BY Zenon, <2>2 DEF at
    <2> QED
      BY <2>3, <2>4, CreatedList
  <1>9. f \in [BlockNames -> Nat] /\ \A x \in BlockNames : f[x] = at(x)
    BY <1>3, <1>7, <1>8
  <1>10. \A x, y \in BlockNames : f[x] = f[y] => x = y
    <2> TAKE x, y \in BlockNames
    <2>1. PICK k \in 1 .. 13 : CreatedBlocks[k] = x /\ f[x] = a[k]
      BY <1>8, <1>9
    <2>2. PICK l \in 1 .. 13 : CreatedBlocks[l] = y /\ f[y] = a[l]
      BY <1>8, <1>9
    <2> QED
      BY <1>7, <2>1, <2>2
  <1>11. \A k \in 1 .. 13 : \E x \in BlockNames : f[x] = a[k]
    <2> TAKE k \in 1 .. 13
    <2>1. PICK x \in BlockNames : x = CreatedBlocks[k]
      BY DestroyedAll
    <2>2. PICK l \in 1 .. 13 : CreatedBlocks[l] = x /\ f[x] = a[l]
      BY <1>8, <1>9
    <2>3. l = k
      BY Zenon, <2>1, <2>2, BlocksDiffer
    <2> QED
      BY <2>2, <2>3
  <1>12. Ext!ToSet(a) = {a[k] : k \in 1 .. 13}
    BY <1>7 DEF Ext!ToSet
  <1>13. p.pointers = f /\ p.fragment_reassembly = c
    BY <1>4
  <1>14. Pointers(p) = Ext!ToSet(a)
    <2>1. Pointers(p) = {f[x] : x \in BlockNames}
      BY <1>13 DEF Pointers
    <2>2. {f[x] : x \in BlockNames} = {a[k] : k \in 1 .. 13}
      BY <1>8, <1>9, <1>11
    <2> QED
      BY <1>12, <2>1, <2>2
  <1>15. ReassemblySize \in Nat \ {0}
    BY LifecycleAssumption
  <1>16. c \in Reassemblies /\ Attached(c)
    <2>1. Accounted(c, 0)
      BY <1>2, <1>15, CreateAccounted
    <2>2. c \in Buffer(ReassemblySize, Nat \cup {NULL})
      BY <1>2, <1>15, CreateType
    <2> QED
      BY <2>1, <2>2, AttachedBy DEF Reassemblies
  <1>17. \A i \in Slots(c) : c.entry_data[i] = NULL
    BY <1>2 DEF CreateBuffer, Slots
  <1>18. Single(c) /\ Data(c, Slots(c)) = {}
    BY <1>17 DEF Single, Data
  <1>19. p \in Structs
    BY <1>4, <1>9, <1>16 DEF Structs, Reassemblies, BlockNames
  <1>20. p # NULL
    BY <1>19, NullAssumption
  <1>21. Sound(p)
    BY Zenon, <1>10, <1>13, <1>16, <1>18, <1>19 DEF Sound
  <1>22. OwnedBy(p) = Ext!ToSet(a)
    BY <1>13, <1>14, <1>18, <1>20 DEF OwnedBy
  <1>23. OwnedBy(endpoint[e]) = {}
    BY <1>5 DEF OwnedBy
  <1>24. Ext!ToSet(a) \in SUBSET Nat /\ Ext!ToSet(a) \cap heap = {}
    BY <1>7, <1>12
  <1>25. IsFiniteSet(Ext!ToSet(a))
    <2>1. IsFiniteSet(1 .. 13)
      <3>1. 1 \in Int /\ 13 \in Int
        OBVIOUS
      <3> QED
        BY ONLY <3>1, FS_Interval, Zenon
    <2>2. PICK A : A = Ext!ToSet(a)
      OBVIOUS
    <2>3. a \in [1 .. 13 -> A] /\ \A x \in A : \E k \in 1 .. 13 : a[k] = x
      BY <1>7, <1>12, <2>2
    <2>4. IsFiniteSet(A)
      BY <1>7, <2>1, <2>3, ImageCount
    <2> QED
      BY <2>2, <2>4
  <1>26. InDestroyOrder(freed') /\ FreesOnce(freed', OwnedBy(endpoint[e]))
    BY <1>5 DEF InDestroyOrder, FreesOnce
  <1>27. PICK new : new = Ext!ToSet(a)
    OBVIOUS
  <1>28. /\ OwnedBy(p) = (OwnedBy(endpoint[e]) \ {}) \cup new
         /\ {} \subseteq OwnedBy(endpoint[e])
         /\ new \cap (heap \ {}) = {}
         /\ heap' = (heap \ {}) \cup new
    BY <1>5, <1>22, <1>23, <1>24, <1>27
  <1>29. /\ p \in Structs \cup {NULL} /\ (p # NULL => Sound(p))
         /\ new \in SUBSET Nat /\ IsFiniteSet(new)
    BY <1>19, <1>21, <1>24, <1>25, <1>27
  <1>30. IInv'
    BY <1>5, <1>26, <1>28, <1>29, OneChanges
  <1> QED
    BY <1>26, <1>30

\* The blocks of create, in the order of destroy.
Freeing(p) == [k \in 1 .. 13 |-> [block   |-> DestroyedBlocks[k],
                                 address |-> p.pointers[DestroyedBlocks[k]]]]

\* f frees all that p points to.
FreesAll(f, p) ==
  /\ {f[k].address : k \in DOMAIN f} = OwnedBy(p)
  /\ FreesOnce(f, OwnedBy(p))
  /\ InDestroyOrder(f)

\* The packets that are left, then the blocks of create.
LEMMA DestroyFrees ==
  ASSUME NEW p, Sound(p), p # NULL, NEW m, NEW f1,
         FreesPackets(f1, Data(p.fragment_reassembly, Slots(p.fragment_reassembly)), m)
  PROVE  FreesAll(f1 \o Freeing(p), p)
  <1> DEFINE A == Data(p.fragment_reassembly, Slots(p.fragment_reassembly))
             X == [block : BlockNames \cup {PacketData}, address : OwnedBy(p)]
             f2 == Freeing(p)
  <1>1. /\ OwnedBy(p) = Pointers(p) \cup A
        /\ Pointers(p) \cap A = {}
        /\ \A x, y \in BlockNames : p.pointers[x] = p.pointers[y] => x = y
    BY DEF Sound, OwnedBy
  <1>2. FreesPackets(f1, A, m)
    OBVIOUS
  <1> HIDE DEF A
  <1>3. /\ m \in Nat /\ f1 \in [1 .. m -> [block : {PacketData}, address : A]]
        /\ \A x \in A : \E k \in 1 .. m : f1[k].address = x
        /\ \A k, l \in 1 .. m : f1[k].address = f1[l].address => k = l
    BY <1>2 DEF FreesPackets
  <1>4. \A k \in 1 .. 13 : DestroyedBlocks[k] \in BlockNames
    BY DestroyedAll
  <1>5. \A k \in 1 .. 13 : /\ f2[k].block = DestroyedBlocks[k]
                           /\ f2[k].address = p.pointers[DestroyedBlocks[k]]
                           /\ f2[k].address \in Pointers(p)
    BY <1>4 DEF Pointers, Freeing
  <1>6. f1 \in [1 .. m -> X]
    BY <1>1, <1>3
  <1>7. f2 \in [1 .. 13 -> X]
    BY <1>1, <1>4, <1>5 DEF Freeing
  <1> HIDE DEF X, f2
  <1>8. PICK f : f = f1 \o f2
    OBVIOUS
  <1>9. 13 \in Nat
    OBVIOUS
  <1>10. /\ f \in [1 .. (m + 13) -> X]
         /\ \A k \in 1 .. m : f[k] = f1[k]
         /\ \A k \in 1 .. 13 : f[m + k] = f2[k]
    <2>1. m \in Nat
      BY <1>3
    <2>2. Joined(f1, f2, m, 13, X, f1 \o f2)
      BY ONLY <1>6, <1>7, <1>9, <2>1, Concatenated
    <2>3. Joined(f1, f2, m, 13, X, f)
      BY ONLY <1>8, <2>2, Zenon
    <2> QED
      BY <2>3, Zenon DEF Joined
  <1>17. /\ m \in Nat /\ DOMAIN f = 1 .. (m + 13)
         /\ \A k \in 1 .. (m + 13) : k \in Nat /\ (k \in 1 .. m \/ k > m)
         /\ \A k \in 1 .. m : k \in 1 .. (m + 13)
         /\ \A k \in 1 .. 13 : m + k \in 1 .. (m + 13)
    <2>1. m \in Nat
      BY <1>3
    <2>2. DOMAIN f = 1 .. (m + 13)
      BY <1>10
    <2> QED
      BY ONLY <2>1, <2>2
  <1>11. \A k \in 1 .. m : f[k].block = PacketData /\ f[k].address = f1[k].address /\ f[k].address \in A
    <2> TAKE k \in 1 .. m
    <2>1. f1[k] \in [block : {PacketData}, address : A] /\ f[k] = f1[k]
      BY Zenon, <1>3, <1>10
    <2> QED
      BY <2>1
  <1>12. \A k \in 1 .. (m + 13) : k > m =>
            /\ k - m \in 1 .. 13 /\ f[k] = f2[k - m]
            /\ f[k].block = DestroyedBlocks[k - m]
            /\ f[k].address = p.pointers[DestroyedBlocks[k - m]]
            /\ f[k].address \in Pointers(p)
    <2> TAKE k \in 1 .. (m + 13)
    <2>1. k > m => k - m \in 1 .. 13 /\ k = m + (k - m)
      BY <1>3
    <2>2. k > m => f[k] = f2[k - m]
      BY <1>10, <2>1
    <2> QED
      BY <1>5, <2>1, <2>2
  <1>13. InDestroyOrder(f)
    <2>1. \A k \in DOMAIN f : /\ k \in Nat
                              /\ k <= m => k \in 1 .. m
                              /\ k \in 1 .. (m + 13)
      BY <1>17
    <2> QED
      BY <1>11, <1>12, <1>17, <2>1 DEF InDestroyOrder
  <1>14. {f[k].address : k \in DOMAIN f} = OwnedBy(p)
    <2>1. \A k \in DOMAIN f : f[k].address \in OwnedBy(p)
      <3> TAKE k \in DOMAIN f
      <3>1. k \in 1 .. m \/ (k > m /\ k \in 1 .. (m + 13))
        BY <1>17
      <3> QED
        BY <1>1, <1>11, <1>12, <3>1
    <2>2. ASSUME NEW x \in A PROVE \E k \in DOMAIN f : f[k].address = x
      <3>1. PICK k \in 1 .. m : f1[k].address = x
        BY <1>3
      <3>2. k \in DOMAIN f
        BY <1>17
      <3> QED
        BY <1>11, <3>1, <3>2
    <2>3. ASSUME NEW x \in Pointers(p) PROVE \E k \in DOMAIN f : f[k].address = x
      <3>1. PICK y \in BlockNames : x = p.pointers[y]
        BY DEF Pointers
      <3>2. PICK k \in 1 .. 13 : y = DestroyedBlocks[k]
        BY DestroyedAll
      <3>3. f[m + k].address = x
        BY <1>5, <1>10, <3>1, <3>2
      <3>4. m + k \in DOMAIN f
        BY <1>17
      <3> QED
        BY <3>3, <3>4
    <2> QED
      BY <1>1, <2>1, <2>2, <2>3
  <1>15. \A k, l \in DOMAIN f : f[k].address = f[l].address => k = l
    <2> SUFFICES ASSUME NEW k \in DOMAIN f, NEW l \in DOMAIN f, f[k].address = f[l].address
                 PROVE  k = l
      OBVIOUS
    <2>1. /\ k \in 1 .. (m + 13) /\ l \in 1 .. (m + 13)
          /\ k \in 1 .. m \/ k > m
          /\ l \in 1 .. m \/ l > m
      BY <1>17
    <2>2. CASE k \in 1 .. m /\ l \in 1 .. m
      BY <1>3, <1>11, <2>2
    <2>3. CASE k > m /\ l > m
      <3>1. k - m \in 1 .. 13 /\ l - m \in 1 .. 13
            /\ DestroyedBlocks[k - m] \in BlockNames /\ DestroyedBlocks[l - m] \in BlockNames
            /\ p.pointers[DestroyedBlocks[k - m]] = p.pointers[DestroyedBlocks[l - m]]
        BY <1>4, <1>12, <2>1, <2>3
      <3>2. k - m = l - m
        BY Zenon, <1>1, <3>1, BlocksDiffer
      <3> QED
        BY <1>3, <2>1, <3>2
    <2>4. CASE k \in 1 .. m /\ l > m
      BY <1>1, <1>11, <1>12, <2>1, <2>4
    <2>5. CASE k > m /\ l \in 1 .. m
      BY <1>1, <1>11, <1>12, <2>1, <2>5
    <2> QED
      BY <2>1, <2>2, <2>3, <2>4, <2>5
  <1>16. FreesOnce(f, OwnedBy(p))
    BY <1>14, <1>15 DEF FreesOnce
  <1> QED
    BY <1>8, <1>13, <1>14, <1>16, Zenon DEF FreesAll, f2

LEMMA DestroyStep ==
  ASSUME IInv, NEW e \in Endpoints, Destroy(e)
  PROVE  IInv' /\ FreesOnce(freed', OwnedBy(endpoint[e]))
  <1>1. PICK p : p = endpoint[e]
    OBVIOUS
  <1>2. PICK b : b = p.fragment_reassembly
    OBVIOUS
  <1>3. PICK f1 : f1 = PacketBlocks(b, HeldSlots(b))
    OBVIOUS
  <1>4. PICK f2 : f2 = Freeing(p)
    OBVIOUS
  <1>5. b = Reassembly(e)
    BY <1>1, <1>2 DEF Reassembly
  <1>6. /\ Exist(e)
        /\ endpoint' = [endpoint EXCEPT ![e] = NULL]
        /\ Frees(f1 \o f2)
    <2>1. DOMAIN DestroyedBlocks = 1 .. 13
      BY DestroyedList
    <2> QED
      BY Zenon, <1>1, <1>3, <1>4, <1>5, <2>1 DEF Destroy, Freeing
  <1>7. PICK f : f = f1 \o f2
    OBVIOUS
  <1>8. /\ p \in Structs /\ Sound(p) /\ b \in Reassemblies /\ Attached(b) /\ Single(b)
        /\ p # NULL
    <2>1. p # NULL
      BY <1>1, <1>6 DEF Exist
    <2> QED
      BY Zenon, <1>1, <1>5, <1>6, <2>1, PointsAtHeap
  <1>9. Data(b, HeldSlots(b)) = Data(b, Slots(b))
    BY <1>8, ResetLeft
  <1>10. PICK m : FreesPackets(f1, Data(b, Slots(b)), m)
    <2>1. HeldSlots(b) \in SUBSET Slots(b)
      BY DEF HeldSlots
    <2>2. \E m \in Nat : FreesPackets(PacketBlocks(b, HeldSlots(b)), Data(b, HeldSlots(b)), m)
      BY <1>8, <2>1, ReassemblyType, PacketBlocksValue DEF Reassemblies
    <2> QED
      BY Zenon, <1>3, <1>9, <2>2
  <1>11. FreesPackets(f1, Data(p.fragment_reassembly, Slots(p.fragment_reassembly)), m)
    BY Zenon, <1>2, <1>10
  <1>12. /\ {f[k].address : k \in DOMAIN f} = OwnedBy(p)
         /\ FreesOnce(f, OwnedBy(p))
         /\ InDestroyOrder(f)
    <2>1. FreesAll(f1 \o Freeing(p), p)
      BY <1>8, <1>11, DestroyFrees
    <2>2. FreesAll(f, p)
      BY ONLY <1>4, <1>7, <2>1, Zenon
    <2> QED
      BY <2>2, Zenon DEF FreesAll
  <1>13. freed' = f /\ heap' = heap \ OwnedBy(p)
    <2>1. freed' = f /\ heap' = heap \ {f[k].address : k \in DOMAIN f}
      BY Zenon, <1>6, <1>7 DEF Frees
    <2> QED
      BY <1>12, <2>1
  <1>14. OwnedBy(NULL) = {}
    BY DEF OwnedBy
  <1>15. PICK gone : gone = OwnedBy(endpoint[e]) /\ gone = OwnedBy(p)
    BY <1>1
  <1>16. /\ OwnedBy(NULL) = (OwnedBy(endpoint[e]) \ gone) \cup {}
         /\ gone \subseteq OwnedBy(endpoint[e])
         /\ {} \cap (heap \ gone) = {}
         /\ heap' = (heap \ gone) \cup {}
    BY <1>13, <1>14, <1>15
  <1>17. /\ NULL \in Structs \cup {NULL} /\ (NULL # NULL => Sound(NULL))
         /\ {} \in SUBSET Nat /\ IsFiniteSet({})
    BY FS_EmptySet
  <1>18. InDestroyOrder(freed') /\ FreesOnce(freed', OwnedBy(endpoint[e]))
    BY <1>12, <1>13, <1>15
  <1>19. IInv'
    BY <1>6, <1>16, <1>17, <1>18, OneChanges
  <1> QED
    BY <1>18, <1>19

-----------------------------------------------------------------------------
(* The theorems.                                                           *)

LEMMA InitInv == Init => IInv
  <1> SUFFICES ASSUME Init PROVE IInv
    OBVIOUS
  <1>1. endpoint = [e \in Endpoints |-> NULL] /\ heap = {} /\ freed = << >>
    BY DEF Init
  <1>2. \A e \in Endpoints : endpoint[e] = NULL /\ OwnedBy(endpoint[e]) = {}
    BY <1>1 DEF OwnedBy
  <1>3. UNION {OwnedBy(endpoint[e]) : e \in Endpoints} = {}
    BY <1>2
  <1>4. IsFiniteSet({})
    BY FS_EmptySet
  <1>5. InDestroyOrder(freed)
    BY <1>1 DEF InDestroyOrder
  <1> QED
    BY <1>1, <1>2, <1>3, <1>4, <1>5 DEF IInv

\* One call of one endpoint.
LEMMA CallStep ==
  ASSUME IInv, Next
  PROVE  IInv' /\ \E e \in Endpoints : FreesOnce(freed', OwnedBy(endpoint[e]))
  <1>1. ASSUME NEW e \in Endpoints, Create(e) \/ Reset(e) \/ Destroy(e)
        PROVE  IInv' /\ FreesOnce(freed', OwnedBy(endpoint[e]))
    BY <1>1, CreateStep, ResetStep, DestroyStep
  <1>2. ASSUME NEW e \in Receivers, NEW s \in Seqs, Open(e, s) \/ Complete(e, s) \/ Advanced(e, s)
        PROVE  e \in Endpoints /\ IInv' /\ FreesOnce(freed', OwnedBy(endpoint[e]))
    <2>1. e \in Endpoints
      BY LifecycleAssumption
    <2> QED
      BY <1>2, <2>1, OpenStep, CompleteStep, AdvancedStep
  <1> QED
    BY <1>1, <1>2 DEF Next

LEMMA NextInv == IInv /\ [Next]_vars => IInv'
  <1>1. IInv /\ Next => IInv'
    BY CallStep
  <1>2. IInv /\ UNCHANGED vars => IInv'
    <2> SUFFICES ASSUME IInv, UNCHANGED vars PROVE IInv'
      OBVIOUS
    <2>1. endpoint' = endpoint /\ heap' = heap /\ freed' = freed
      BY DEF vars
    <2>2. InDestroyOrder(freed')
      BY <2>1 DEF IInv
    <2> QED
      BY <2>1, <2>2 DEF IInv
  <1> QED
    BY <1>1, <1>2

\* The allocator's live blocks are at every moment exactly those that some
\* endpoint points to, and each of them is pointed to once.
THEOREM HeapAccounted == Spec => []IInv
  BY InitInv, NextInv, PTL DEF Spec

\* Nothing is lost: neither by destroying an endpoint nor before, whatever
\* reset, insertions, removals and advances do to its packets in reassembly;
\* and no endpoint points to a block of another or to one that is free.
THEOREM NothingLostHolds == Spec => []NothingLost
  BY HeapAccounted, NothingIsLost, PTL

\* No block is read after it has been freed, to find another or its function.
THEOREM NoneReadAfterFreedHolds == Spec => []NoneReadAfterFreed
  <1>1. IInv => NoneReadAfterFreed
    BY OrderIsSafe DEF IInv
  <1> QED
    BY <1>1, HeapAccounted, PTL

\* No call frees a block twice, or one that is not its endpoint's.
THEOREM FreesItsOwnHolds == Spec => FreesItsOwn
  <1>1. IInv /\ [Next]_vars =>
          [/\ \E e \in Endpoints : {freed'[k].address : k \in DOMAIN freed'} \subseteq Owned(e)
           /\ \A k, l \in DOMAIN freed' : k # l => freed'[k].address # freed'[l].address]_vars
    <2> SUFFICES ASSUME IInv, Next
                 PROVE  /\ \E e \in Endpoints : {freed'[k].address : k \in DOMAIN freed'} \subseteq Owned(e)
                        /\ \A k, l \in DOMAIN freed' : k # l => freed'[k].address # freed'[l].address
      OBVIOUS
    <2>1. PICK e \in Endpoints : FreesOnce(freed', OwnedBy(endpoint[e]))
      BY CallStep
    <2>2. Owned(e) = OwnedBy(endpoint[e])
      BY OwnedValue
    <2> QED
      BY <2>1, <2>2 DEF FreesOnce
  <1> QED
    BY <1>1, HeapAccounted, PTL DEF Spec, FreesItsOwn
=============================================================================
