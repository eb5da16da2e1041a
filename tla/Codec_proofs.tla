----------------------------- MODULE Codec_proofs -----------------------------
(***************************************************************************)
(* Bytes.  The first half is about headers alone: the writer and the       *)
(* readers agree, for every header and everything that may follow it.  The *)
(* second half follows one send through the link and the reassembly.       *)
(*                                                                         *)
(* The inductive invariant has two parts.  Structure holds whatever the    *)
(* link does: every block is shaped as NewBlock made it, and for every     *)
(* fragment marked as received the bytes that came are at their offset,    *)
(* with the embedded header right before them.  Undamaged holds while no   *)
(* bit was flipped and no packet invented: every packet on the link, in a  *)
(* block or behind something taken is one of those written for the send.   *)
(***************************************************************************)
EXTENDS Codec, SequenceBuffers_proofs

-----------------------------------------------------------------------------
(* Headers, written and read.                                              *)

\* What is needed of concatenation.
LEMMA Appended ==
  ASSUME NEW s \in Seq(Byte), NEW t \in Seq(Byte)
  PROVE  /\ s \o t \in Seq(Byte)
         /\ Len(s \o t) = Len(s) + Len(t)
         /\ \A i \in 1 .. Len(s) : (s \o t)[i] = s[i]
         /\ \A i \in 1 .. Len(t) : (s \o t)[Len(s) + i] = t[i]
  OBVIOUS

\* A mask byte of 255 is not written.
LEMMA MaskFieldValue ==
  ASSUME NEW b \in Byte
  PROVE  /\ MaskField(b) \in Seq(Byte)
         /\ b = 255 => Len(MaskField(b)) = 0
         /\ b # 255 => Len(MaskField(b)) = 1 /\ MaskField(b)[1] = b
  <1>1. CASE b = 255
    BY <1>1 DEF MaskField
  <1>2. CASE b # 255
    <2>1. MaskField(b) = <<b>>
      BY <1>2 DEF MaskField
    <2> QED
      BY <1>2, <2>1
  <1> QED
    BY <1>1, <1>2

\* The size of the sequence space.
LEMMA SequenceSpace == SeqMod = 65536
  BY ByteAssumption DEF SeqMod

\* Two bytes hold a sequence.
LEMMA Uint16Value ==
  ASSUME NEW x \in Seqs
  PROVE  /\ WriteUint16(x) \in Seq(Byte)
         /\ Len(WriteUint16(x)) = 2
         /\ WriteUint16(x)[1] + 256 * WriteUint16(x)[2] = x
  <1>0. x \in 0 .. (SeqMod - 1)
    BY DEF Seqs
  <1>1. x \in Int /\ x >= 0 /\ x <= 65535
    <2>1. PICK m \in Int : m = SeqMod - 1 /\ m = 65535
      BY ONLY SequenceSpace
    <2>2. x \in Int /\ x >= 0 /\ x <= m
      BY ONLY <1>0, <2>1
    <2> QED
      BY ONLY <2>1, <2>2
  <1>2. x = 256 * (x \div 256) + (x % 256) /\ x % 256 \in 0 .. 255 /\ x \div 256 \in Int
    BY <1>1, DivMod
  <1>3. x \div 256 \in 0 .. 255
    BY <1>1, <1>2
  <1> QED
    BY <1>2, <1>3 DEF WriteUint16, Byte

\* The bits of a sum of distinct bits.
LEMMA BitsOfSum ==
  ASSUME NEW b1 \in {0, 1}, NEW b2 \in {0, 1}, NEW b3 \in {0, 1},
         NEW b4 \in {0, 1}, NEW b5 \in {0, 1},
         NEW p \in Int, p = 2 * b1 + 4 * b2 + 8 * b3 + 16 * b4 + 32 * b5
  PROVE  /\ ~HasBit(p, 1)
         /\ HasBit(p, 2) <=> b1 = 1
         /\ HasBit(p, 4) <=> b2 = 1
         /\ HasBit(p, 8) <=> b3 = 1
         /\ HasBit(p, 16) <=> b4 = 1
         /\ HasBit(p, 32) <=> b5 = 1
  <1>1. p \div 1 = p
    <2>1. p = 1 * (p \div 1) + (p % 1) /\ p % 1 \in 0 .. 0 /\ p \div 1 \in Int
      BY DivMod
    <2> QED
      BY <2>1
  <1>2. p \div 2 = b1 + 2 * b2 + 4 * b3 + 8 * b4 + 16 * b5
    <2>1. p = 2 * (p \div 2) + (p % 2) /\ p % 2 \in 0 .. 1 /\ p \div 2 \in Int
      BY DivMod
    <2> QED
      BY <2>1
  <1>3. p \div 4 = b2 + 2 * b3 + 4 * b4 + 8 * b5
    <2>1. p = 4 * (p \div 4) + (p % 4) /\ p % 4 \in 0 .. 3 /\ p \div 4 \in Int
      BY DivMod
    <2> QED
      BY <2>1
  <1>4. p \div 8 = b3 + 2 * b4 + 4 * b5
    <2>1. p = 8 * (p \div 8) + (p % 8) /\ p % 8 \in 0 .. 7 /\ p \div 8 \in Int
      BY DivMod
    <2> QED
      BY <2>1
  <1>5. p \div 16 = b4 + 2 * b5
    <2>1. p = 16 * (p \div 16) + (p % 16) /\ p % 16 \in 0 .. 15 /\ p \div 16 \in Int
      BY DivMod
    <2> QED
      BY <2>1
  <1>6. p \div 32 = b5
    <2>1. p = 32 * (p \div 32) + (p % 32) /\ p % 32 \in 0 .. 31 /\ p \div 32 \in Int
      BY DivMod
    <2> QED
      BY <2>1
  <1>7. \A k \in Int, b \in {0, 1} : (2 * k + b) % 2 = b
    <2> TAKE k \in Int, b \in {0, 1}
    <2> QED
      BY ModUnique
  <1>8. p % 2 = 0
    <2>1. p = 2 * (b1 + 2 * b2 + 4 * b3 + 8 * b4 + 16 * b5) + 0
      OBVIOUS
    <2> QED
      BY <1>7, <2>1
  <1>9. (p \div 2) % 2 = b1
    <2>1. p \div 2 = 2 * (b2 + 2 * b3 + 4 * b4 + 8 * b5) + b1
      BY <1>2
    <2> QED
      BY <1>7, <2>1
  <1>10. (p \div 4) % 2 = b2
    <2>1. p \div 4 = 2 * (b3 + 2 * b4 + 4 * b5) + b2
      BY <1>3
    <2> QED
      BY <1>7, <2>1
  <1>11. (p \div 8) % 2 = b3
    <2>1. p \div 8 = 2 * (b4 + 2 * b5) + b3
      BY <1>4
    <2> QED
      BY <1>7, <2>1
  <1>12. (p \div 16) % 2 = b4
    <2>1. p \div 16 = 2 * b5 + b4
      BY <1>5
    <2> QED
      BY <1>7, <2>1
  <1>13. (p \div 32) % 2 = b5
    <2>1. p \div 32 = 2 * 0 + b5
      BY <1>6
    <2> QED
      BY <1>7, <2>1
  <1> QED
    BY <1>1, <1>8, <1>9, <1>10, <1>11, <1>12, <1>13 DEF HasBit

-----------------------------------------------------------------------------
\* The flags say what the header leaves out.
LEMMA PrefixBits ==
  ASSUME NEW h \in Headers
  PROVE  /\ Prefix(h) \in Byte
         /\ ~HasBit(Prefix(h), FragmentBit)
         /\ HasBit(Prefix(h), 2) <=> h.ack_bits[1] # 255
         /\ HasBit(Prefix(h), 4) <=> h.ack_bits[2] # 255
         /\ HasBit(Prefix(h), 8) <=> h.ack_bits[3] # 255
         /\ HasBit(Prefix(h), 16) <=> h.ack_bits[4] # 255
         /\ HasBit(Prefix(h), NearBit) <=> Near(h)
  <1> DEFINE b1 == Bit(h.ack_bits[1] # 255, 1)
             b2 == Bit(h.ack_bits[2] # 255, 1)
             b3 == Bit(h.ack_bits[3] # 255, 1)
             b4 == Bit(h.ack_bits[4] # 255, 1)
             b5 == Bit(Near(h), 1)
  <1>1. /\ b1 \in {0, 1} /\ b2 \in {0, 1} /\ b3 \in {0, 1} /\ b4 \in {0, 1} /\ b5 \in {0, 1}
        /\ b1 = 1 <=> h.ack_bits[1] # 255
        /\ b2 = 1 <=> h.ack_bits[2] # 255
        /\ b3 = 1 <=> h.ack_bits[3] # 255
        /\ b4 = 1 <=> h.ack_bits[4] # 255
        /\ b5 = 1 <=> Near(h)
    BY DEF Bit
  <1>2. Prefix(h) = 2 * b1 + 4 * b2 + 8 * b3 + 16 * b4 + 32 * b5
    BY DEF Prefix, Bit, NearBit
  <1> HIDE DEF b1, b2, b3, b4, b5
  <1>3. Prefix(h) \in Int /\ Prefix(h) >= 0 /\ Prefix(h) <= 62
    BY <1>1, <1>2
  <1>4. /\ ~HasBit(Prefix(h), 1)
        /\ HasBit(Prefix(h), 2) <=> b1 = 1
        /\ HasBit(Prefix(h), 4) <=> b2 = 1
        /\ HasBit(Prefix(h), 8) <=> b3 = 1
        /\ HasBit(Prefix(h), 16) <=> b4 = 1
        /\ HasBit(Prefix(h), 32) <=> b5 = 1
    BY <1>1, <1>2, <1>3, BitsOfSum
  <1> QED
    BY <1>1, <1>3, <1>4 DEF FragmentBit, NearBit, Byte

\* What is left of a sequence once its distance to another is taken away.
LEMMA Recovered ==
  ASSUME NEW s \in Seqs, NEW a \in Seqs
  PROVE  /\ Distance(s, a) \in Nat
         /\ U16(s - Distance(s, a)) = a
  <1>1. SeqMod \in Nat \ {0} /\ s \in 0 .. (SeqMod - 1) /\ a \in 0 .. (SeqMod - 1)
    BY HalfAssumption DEF SeqMod, Seqs
  <1>2. PICK d \in Int : d = Distance(s, a) /\ d >= 0 /\ (s - d = a \/ s - d = a - SeqMod)
    <2>1. s \in 0 .. SeqMod
      BY <1>1
    <2>2. /\ Distance(s, a) \in Seqs
          /\ \/ s >= a /\ s - a < SeqMod /\ Distance(s, a) = s - a
             \/ s < a /\ Distance(s, a) = s - a + SeqMod
             \/ s = SeqMod /\ a = 0 /\ Distance(s, a) = 0
      BY <2>1, DistanceValue
    <2>3. s - a \in Int /\ s - a + SeqMod \in Int /\ s - a + SeqMod >= 0
      BY <1>1
    <2> QED
      BY <1>1, <2>2, <2>3
  <1>3. s - d \in Int /\ s - d >= 0 - SeqMod /\ s - d < 2 * SeqMod
    BY <1>1, <1>2
  <1>4. /\ s - d < 0 => U16(s - d) = (s - d) + SeqMod
        /\ s - d \in Seqs => U16(s - d) = s - d
    BY <1>3, U16Value
  <1>5. CASE s - d = a
    BY <1>2, <1>4, <1>5
  <1>6. CASE s - d = a - SeqMod
    <2>1. s - d < 0 /\ (s - d) + SeqMod = a
      BY <1>1, <1>6
    <2> QED
      BY <1>2, <1>4, <2>1
  <1> QED
    BY <1>2, <1>5, <1>6

\* The ack is one byte or two, and is recovered from either.
LEMMA AckFieldValue ==
  ASSUME NEW h \in Headers
  PROVE  /\ AckField(h) \in Seq(Byte)
         /\ Near(h) => /\ Len(AckField(h)) = 1
                       /\ U16(h.sequence - AckField(h)[1]) = h.ack
         /\ ~Near(h) => /\ Len(AckField(h)) = 2
                        /\ AckField(h)[1] + 256 * AckField(h)[2] = h.ack
  <1>1. h.sequence \in Seqs /\ h.ack \in Seqs
    BY DEF Headers
  <1>2. CASE Near(h)
    <2>1. PICK d \in Nat : /\ d = Difference(h)
                           /\ U16(h.sequence - d) = h.ack
      BY <1>1, Recovered DEF Difference
    <2>2. d \in Byte
      <3>1. d <= 255
        BY <1>2, <2>1 DEF Near
      <3> QED
        BY <3>1 DEF Byte
    <2>3. AckField(h) = <<d>>
      BY <1>2, <2>1 DEF AckField
    <2>4. <<d>> \in Seq(Byte) /\ Len(<<d>>) = 1 /\ <<d>>[1] = d
      BY <2>2
    <2> QED
      BY <1>2, <2>1, <2>3, <2>4
  <1>3. CASE ~Near(h)
    <2>1. AckField(h) = WriteUint16(h.ack)
      BY <1>3 DEF AckField
    <2>2. /\ WriteUint16(h.ack) \in Seq(Byte)
          /\ Len(WriteUint16(h.ack)) = 2
          /\ WriteUint16(h.ack)[1] + 256 * WriteUint16(h.ack)[2] = h.ack
      BY <1>1, Uint16Value
    <2> QED
      BY <1>3, <2>1, <2>2
  <1> QED
    BY <1>2, <1>3

-----------------------------------------------------------------------------
\* A field appended to a sequence of bytes.
LEMMA Joined ==
  ASSUME NEW s \in Seq(Byte), NEW f \in Seq(Byte)
  PROVE  \E t \in Seq(Byte) :
           /\ t = s \o f
           /\ Len(t) = Len(s) + Len(f)
           /\ Len(t) \in Nat /\ Len(s) <= Len(t)
           /\ \A i \in 1 .. Len(s) : t[i] = s[i]
           /\ \A i \in 1 .. Len(f) : t[Len(s) + i] = f[i]
  <1>1. /\ s \o f \in Seq(Byte)
        /\ Len(s \o f) = Len(s) + Len(f)
        /\ \A i \in 1 .. Len(s) : (s \o f)[i] = s[i]
        /\ \A i \in 1 .. Len(f) : (s \o f)[Len(s) + i] = f[i]
    BY Appended
  <1>2. Len(s) \in Nat /\ Len(f) \in Nat
    OBVIOUS
  <1>3. Len(s \o f) \in Nat /\ Len(s) <= Len(s \o f)
    BY <1>1, <1>2
  <1> QED
    BY <1>1, <1>3

\* An optional byte at the end of what was written before it.
LEMMA OptionalByte ==
  ASSUME NEW s \in Seq(Byte), NEW f \in Seq(Byte), Len(f) \in {0, 1}
  PROVE  \E t \in Seq(Byte) :
           /\ t = s \o f
           /\ Len(t) = Len(s) + Len(f)
           /\ Len(t) \in Nat /\ Len(s) <= Len(t)
           /\ \A i \in 1 .. Len(s) : t[i] = s[i]
           /\ Len(f) = 1 => t[Len(t)] = f[1]
  <1>1. /\ s \o f \in Seq(Byte)
        /\ Len(s \o f) = Len(s) + Len(f)
        /\ \A i \in 1 .. Len(s) : (s \o f)[i] = s[i]
        /\ \A i \in 1 .. Len(f) : (s \o f)[Len(s) + i] = f[i]
    BY Appended
  <1>2. Len(f) = 1 => (s \o f)[Len(s \o f)] = f[1]
    BY <1>1
  <1>3. Len(s) \in Nat /\ Len(f) \in Nat
    OBVIOUS
  <1>4. Len(s \o f) \in Nat /\ Len(s) <= Len(s \o f)
    BY <1>1, <1>3
  <1> QED
    BY <1>1, <1>2, <1>4

\* The pieces of a header and of the packet after it, with their lengths.
Pieces(s0, a, f1, f2, f3, f4, payload, la, l1, l2, l3, l4) ==
  /\ s0 \in Seq(Byte) /\ a \in Seq(Byte) /\ payload \in Seq(Byte)
  /\ f1 \in Seq(Byte) /\ f2 \in Seq(Byte) /\ f3 \in Seq(Byte) /\ f4 \in Seq(Byte)
  /\ Len(s0) = 3
  /\ la \in {1, 2} /\ la = Len(a)
  /\ l1 \in {0, 1} /\ l1 = Len(f1)
  /\ l2 \in {0, 1} /\ l2 = Len(f2)
  /\ l3 \in {0, 1} /\ l3 = Len(f3)
  /\ l4 \in {0, 1} /\ l4 = Len(f4)

\* Where they end up.
Placed(header, w, s0, a, f1, f2, f3, f4, payload, la, l1, l2, l3, l4) ==
  /\ header = s0 \o a \o f1 \o f2 \o f3 \o f4
  /\ w = header \o payload
  /\ Len(header) = 3 + la + l1 + l2 + l3 + l4
  /\ Len(w) \in Nat /\ Len(w) >= 3 + la + l1 + l2 + l3 + l4
  /\ w[1] = s0[1] /\ w[2] = s0[2] /\ w[3] = s0[3]
  /\ w[4] = a[1]
  /\ la = 2 => w[5] = a[2]
  /\ l1 = 1 => w[3 + la + l1] = f1[1]
  /\ l2 = 1 => w[3 + la + l1 + l2] = f2[1]
  /\ l3 = 1 => w[3 + la + l1 + l2 + l3] = f3[1]
  /\ l4 = 1 => w[3 + la + l1 + l2 + l3 + l4] = f4[1]

\* Each field stands where the lengths of those before it add up to.
LEMMA Layout ==
  ASSUME NEW s0, NEW a, NEW f1, NEW f2, NEW f3, NEW f4, NEW payload,
         NEW la, NEW l1, NEW l2, NEW l3, NEW l4,
         Pieces(s0, a, f1, f2, f3, f4, payload, la, l1, l2, l3, l4)
  PROVE  \E header \in Seq(Byte), w \in Seq(Byte) :
           Placed(header, w, s0, a, f1, f2, f3, f4, payload, la, l1, l2, l3, l4)
  <1> USE DEF Pieces
  <1>1. PICK t0 \in Seq(Byte) :
          /\ t0 = s0 \o a
          /\ Len(t0) = Len(s0) + Len(a)
          /\ Len(t0) \in Nat /\ Len(s0) <= Len(t0)
          /\ \A i \in 1 .. Len(s0) : t0[i] = s0[i]
          /\ \A i \in 1 .. Len(a) : t0[Len(s0) + i] = a[i]
    BY Joined
  <1>2. PICK t1 \in Seq(Byte) :
          /\ t1 = t0 \o f1
          /\ Len(t1) = Len(t0) + Len(f1)
          /\ Len(t1) \in Nat /\ Len(t0) <= Len(t1)
          /\ \A i \in 1 .. Len(t0) : t1[i] = t0[i]
          /\ Len(f1) = 1 => t1[Len(t1)] = f1[1]
    BY OptionalByte
  <1>3. PICK t2 \in Seq(Byte) :
          /\ t2 = t1 \o f2
          /\ Len(t2) = Len(t1) + Len(f2)
          /\ Len(t2) \in Nat /\ Len(t1) <= Len(t2)
          /\ \A i \in 1 .. Len(t1) : t2[i] = t1[i]
          /\ Len(f2) = 1 => t2[Len(t2)] = f2[1]
    BY OptionalByte
  <1>4. PICK t3 \in Seq(Byte) :
          /\ t3 = t2 \o f3
          /\ Len(t3) = Len(t2) + Len(f3)
          /\ Len(t3) \in Nat /\ Len(t2) <= Len(t3)
          /\ \A i \in 1 .. Len(t2) : t3[i] = t2[i]
          /\ Len(f3) = 1 => t3[Len(t3)] = f3[1]
    BY OptionalByte
  <1>5. PICK t4 \in Seq(Byte) :
          /\ t4 = t3 \o f4
          /\ Len(t4) = Len(t3) + Len(f4)
          /\ Len(t4) \in Nat /\ Len(t3) <= Len(t4)
          /\ \A i \in 1 .. Len(t3) : t4[i] = t3[i]
          /\ Len(f4) = 1 => t4[Len(t4)] = f4[1]
    BY OptionalByte
  <1>6. PICK w \in Seq(Byte) :
          /\ w = t4 \o payload
          /\ Len(w) = Len(t4) + Len(payload)
          /\ Len(w) \in Nat /\ Len(t4) <= Len(w)
          /\ \A i \in 1 .. Len(t4) : w[i] = t4[i]
          /\ \A i \in 1 .. Len(payload) : w[Len(t4) + i] = payload[i]
    BY Joined
  <1>7. w = (s0 \o a \o f1 \o f2 \o f3 \o f4) \o payload /\ t4 = s0 \o a \o f1 \o f2 \o f3 \o f4
    BY Zenon, <1>1, <1>2, <1>3, <1>4, <1>5, <1>6
  <1>8. PICK k0 \in Nat, k1 \in Nat, k2 \in Nat, k3 \in Nat, k4 \in Nat :
          /\ k0 = Len(t0) /\ k1 = Len(t1) /\ k2 = Len(t2) /\ k3 = Len(t3) /\ k4 = Len(t4)
    BY <1>1, <1>2, <1>3, <1>4, <1>5
  <1>9. k0 <= k1 /\ k1 <= k2 /\ k2 <= k3 /\ k3 <= k4
    BY <1>2, <1>3, <1>4, <1>5, <1>8
  <1>10. \A i \in 1 .. k3 : w[i] = t3[i]
    BY <1>5, <1>6, <1>8, <1>9
  <1>11. \A i \in 1 .. k2 : w[i] = t2[i]
    BY <1>4, <1>8, <1>9, <1>10
  <1>12. \A i \in 1 .. k1 : w[i] = t1[i]
    BY <1>3, <1>8, <1>9, <1>11
  <1>13. \A i \in 1 .. k0 : w[i] = t0[i]
    BY <1>2, <1>8, <1>9, <1>12
  <1>14. k0 = 3 + la
    BY <1>1, <1>8
  <1>15. w[1] = s0[1] /\ w[2] = s0[2] /\ w[3] = s0[3]
    <2>1. \A i \in 1 .. 3 : t0[i] = s0[i]
      BY <1>1
    <2>2. t0[1] = s0[1] /\ t0[2] = s0[2] /\ t0[3] = s0[3]
      BY <2>1
    <2>3. 1 \in 1 .. k0 /\ 2 \in 1 .. k0 /\ 3 \in 1 .. k0
      BY ONLY <1>14, la \in {1, 2}
    <2>4. w[1] = t0[1] /\ w[2] = t0[2] /\ w[3] = t0[3]
      BY Zenon, <1>13, <2>3
    <2> QED
      BY <2>2, <2>4
  <1>16. w[4] = a[1] /\ (la = 2 => w[5] = a[2])
    <2>1. \A i \in 1 .. la : t0[3 + i] = a[i]
      BY <1>1
    <2>2. t0[4] = a[1] /\ (la = 2 => t0[5] = a[2])
      BY <2>1, SMTT(30)
    <2>7. la = 1 \/ la = 2
      BY Zenon
    <2>8. k0 = 4 \/ k0 = 5
      <3>1. CASE la = 1
        BY <1>14, <3>1
      <3>2. CASE la = 2
        BY <1>14, <3>2
      <3> QED
        BY <2>7, <3>1, <3>2
    <2>6. 4 \in 1 .. k0
      <3>1. CASE k0 = 4
        BY <3>1
      <3>2. CASE k0 = 5
        BY <3>2
      <3> QED
        BY <2>8, <3>1, <3>2
    <2>3. w[4] = t0[4]
      BY Zenon, <1>13, <2>6
    <2>4. la = 2 => 5 \in 1 .. k0
      BY <1>14
    <2>5. la = 2 => w[5] = t0[5]
      BY <1>13, <2>4
    <2> QED
      BY <2>2, <2>3, <2>5
  <1>17. /\ k1 = 3 + la + l1
         /\ k2 = 3 + la + l1 + l2
         /\ k3 = 3 + la + l1 + l2 + l3
         /\ k4 = 3 + la + l1 + l2 + l3 + l4
    BY <1>1, <1>2, <1>3, <1>4, <1>5, <1>8
  <1>18. l1 = 1 => w[k1] = f1[1]
    <2>1. l1 = 1 => t1[k1] = f1[1]
      BY <1>2, <1>8
    <2>2. k1 \in 1 .. k1
      BY <1>17
    <2> QED
      BY <1>12, <2>1, <2>2
  <1>19. l2 = 1 => w[k2] = f2[1]
    <2>1. l2 = 1 => t2[k2] = f2[1]
      BY <1>3, <1>8
    <2>2. k2 \in 1 .. k2
      BY <1>17
    <2> QED
      BY <1>11, <2>1, <2>2
  <1>20. l3 = 1 => w[k3] = f3[1]
    <2>1. l3 = 1 => t3[k3] = f3[1]
      BY <1>4, <1>8
    <2>2. k3 \in 1 .. k3
      BY <1>17
    <2> QED
      BY <1>10, <2>1, <2>2
  <1>21. l4 = 1 => w[k4] = f4[1]
    <2>1. l4 = 1 => t4[k4] = f4[1]
      BY <1>5, <1>8
    <2>2. k4 \in 1 .. k4
      BY <1>17
    <2>3. \A i \in 1 .. k4 : w[i] = t4[i]
      BY <1>6, <1>8
    <2> QED
      BY <2>1, <2>2, <2>3
  <1>22. Len(t4) = 3 + la + l1 + l2 + l3 + l4
    BY <1>8, <1>17
  <1>23. Len(w) \in Nat /\ Len(w) >= 3 + la + l1 + l2 + l3 + l4
    BY <1>6, <1>22
  <1>24. Placed(t4, w, s0, a, f1, f2, f3, f4, payload, la, l1, l2, l3, l4)
    BY Zenon, <1>7, <1>15, <1>16, <1>17, <1>18, <1>19, <1>20, <1>21, <1>22, <1>23 DEF Placed
  <1> QED
    BY Zenon, <1>24

\* What the bytes of a packet, and the flags of its prefix, are to be for it to
\* be read as the header of q, ack and the four bytes.
LaidOut(w, p, q, ack, b1, b2, b3, b4, la, l1, l2, l3, l4, n) ==
  /\ w \in Seq(Byte) /\ p \in Byte /\ q \in Seqs /\ ack \in Seqs
  /\ b1 \in Byte /\ b2 \in Byte /\ b3 \in Byte /\ b4 \in Byte
  /\ la \in {1, 2} /\ l1 \in {0, 1} /\ l2 \in {0, 1} /\ l3 \in {0, 1} /\ l4 \in {0, 1}
  /\ n \in Nat /\ n = Len(w) /\ n >= 3 + la + l1 + l2 + l3 + l4
  /\ ~HasBit(p, FragmentBit)
  /\ HasBit(p, 2) <=> b1 # 255
  /\ HasBit(p, 4) <=> b2 # 255
  /\ HasBit(p, 8) <=> b3 # 255
  /\ HasBit(p, 16) <=> b4 # 255
  /\ HasBit(p, NearBit) <=> la = 1
  /\ b1 # 255 <=> l1 = 1
  /\ b2 # 255 <=> l2 = 1
  /\ b3 # 255 <=> l3 = 1
  /\ b4 # 255 <=> l4 = 1
  /\ w[1] = p /\ w[2] + 256 * w[3] = q
  /\ la = 1 => U16(q - w[4]) = ack
  /\ la = 2 => w[4] + 256 * w[5] = ack
  /\ l1 = 1 => w[3 + la + l1] = b1
  /\ l2 = 1 => w[3 + la + l1 + l2] = b2
  /\ l3 = 1 => w[3 + la + l1 + l2 + l3] = b3
  /\ l4 = 1 => w[3 + la + l1 + l2 + l3 + l4] = b4

\* A packet laid out like that is read back.
LEMMA ReadBack ==
  ASSUME NEW w, NEW p, NEW q, NEW ack, NEW b1, NEW b2, NEW b3, NEW b4,
         NEW la, NEW l1, NEW l2, NEW l3, NEW l4, NEW n,
         LaidOut(w, p, q, ack, b1, b2, b3, b4, la, l1, l2, l3, l4, n)
  PROVE  /\ Readable(w)
         /\ HeaderBytes(w) = 3 + la + l1 + l2 + l3 + l4
         /\ ReadHeader(w) = [sequence |-> q, ack |-> ack, ack_bits |-> <<b1, b2, b3, b4>>]
  <1> USE DEF LaidOut
  <1>1. AckBytes(p) = la
    BY DEF AckBytes
  <1>2. /\ Bit(HasBit(p, 2), 1) = l1
        /\ Bit(HasBit(p, 4), 1) = l2
        /\ Bit(HasBit(p, 8), 1) = l3
        /\ Bit(HasBit(p, 16), 1) = l4
    BY DEF Bit
  <1>3. /\ MaskBytes(p, 1) = l1
        /\ MaskBytes(p, 2) = l1 + l2
        /\ MaskBytes(p, 3) = l1 + l2 + l3
        /\ MaskBytes(p, 4) = l1 + l2 + l3 + l4
    <2> HIDE DEF HasBit
    <2>1. /\ MaskBytes(p, 1) = l1
          /\ MaskBytes(p, 2) = l1 + l2
      BY <1>2 DEF MaskBytes, Bit
    <2>2. MaskBytes(p, 3) = l1 + l2 + l3
      BY <1>2 DEF MaskBytes, Bit
    <2>3. MaskBytes(p, 4) = l1 + l2 + l3 + l4
      BY <1>2 DEF MaskBytes, Bit
    <2> QED
      BY <2>1, <2>2, <2>3
  <1>4. HeaderBytes(w) = 3 + la + l1 + l2 + l3 + l4
    <2>1. HeaderBytes(w) = 3 + AckBytes(p) + MaskBytes(p, 4)
      BY DEF HeaderBytes
    <2> QED
      BY <1>1, <1>3, <2>1
  <1>5. Readable(w)
    <2>1. Len(w) >= 3 /\ Len(w) >= 3 + AckBytes(p) /\ Len(w) >= HeaderBytes(w)
      BY <1>1, <1>4
    <2> QED
      BY <2>1 DEF Readable
  <1>6. ReadUint16(w, 2) = q
    BY DEF ReadUint16
  <1>7. ReadAck(w) = ack
    <2>1. CASE la = 1
      BY <1>6, <2>1 DEF ReadAck
    <2>2. CASE la = 2
      <3>1. ReadAck(w) = ReadUint16(w, 4)
        BY <2>2 DEF ReadAck
      <3>2. ReadUint16(w, 4) = w[4] + 256 * w[5]
        BY DEF ReadUint16
      <3> QED
        BY <2>2, <3>1, <3>2
    <2> QED
      BY <2>1, <2>2
  <1>8. ReadMask(w, 1, 2) = b1
    <2>1. 3 + AckBytes(p) + MaskBytes(p, 1) = 3 + la + l1
      BY <1>1, <1>3
    <2> QED
      BY ZenonT(40), <2>1 DEF ReadMask
  <1>9. ReadMask(w, 2, 4) = b2
    <2>1. 3 + AckBytes(p) + MaskBytes(p, 2) = 3 + la + l1 + l2
      BY <1>1, <1>3
    <2> QED
      BY ZenonT(40), <2>1 DEF ReadMask
  <1>10. ReadMask(w, 3, 8) = b3
    <2>1. 3 + AckBytes(p) + MaskBytes(p, 3) = 3 + la + l1 + l2 + l3
      BY <1>1, <1>3
    <2> QED
      BY ZenonT(40), <2>1 DEF ReadMask
  <1>11. ReadMask(w, 4, 16) = b4
    <2>1. 3 + AckBytes(p) + MaskBytes(p, 4) = 3 + la + l1 + l2 + l3 + l4
      BY <1>1, <1>3
    <2> QED
      BY ZenonT(40), <2>1 DEF ReadMask
  <1>12. ReadHeader(w) = [sequence |-> q, ack |-> ack, ack_bits |-> <<b1, b2, b3, b4>>]
    BY Zenon, <1>6, <1>7, <1>8, <1>9, <1>10, <1>11 DEF ReadHeader
  <1> QED
    BY <1>4, <1>5, <1>12

-----------------------------------------------------------------------------
\* The reader recovers what the writer was given, whatever follows the header;
\* it takes 4 to 9 bytes, and leaves the payload as it is.
THEOREM HeaderRoundTrip ==
  ASSUME NEW h \in Headers, NEW payload \in Seq(Byte)
  PROVE  LET packet == WriteHeader(h) \o payload
         IN  /\ Readable(packet)
             /\ ReadHeader(packet) = h
             /\ HeaderBytes(packet) = Len(WriteHeader(h))
             /\ Len(WriteHeader(h)) \in 4 .. MaxHeaderBytes
             /\ WriteHeader(h) \in Seq(Byte) /\ packet \in Seq(Byte)
  <1>1. PICK q \in Seqs, b1 \in Byte, b2 \in Byte, b3 \in Byte, b4 \in Byte :
          /\ q = h.sequence
          /\ b1 = h.ack_bits[1] /\ b2 = h.ack_bits[2] /\ b3 = h.ack_bits[3] /\ b4 = h.ack_bits[4]
    BY DEF Headers
  <1>2. PICK p \in Byte :
          /\ p = Prefix(h)
          /\ ~HasBit(p, FragmentBit)
          /\ HasBit(p, 2) <=> b1 # 255
          /\ HasBit(p, 4) <=> b2 # 255
          /\ HasBit(p, 8) <=> b3 # 255
          /\ HasBit(p, 16) <=> b4 # 255
          /\ HasBit(p, NearBit) <=> Near(h)
    BY <1>1, PrefixBits
  <1>3. PICK u \in Seq(Byte) :
          /\ u = WriteUint16(h.sequence)
          /\ Len(u) = 2
          /\ u[1] + 256 * u[2] = q
    BY <1>1, Uint16Value
  <1>4. PICK s0 \in Seq(Byte) :
          /\ s0 = <<Prefix(h)>> \o WriteUint16(h.sequence)
          /\ Len(s0) = 3
          /\ s0[1] = p
          /\ s0[2] + 256 * s0[3] = q
    <2>6. <<p>> \in Seq(Byte) /\ Len(<<p>>) = 1 /\ <<p>>[1] = p
      OBVIOUS
    <2>1. PICK s \in Seq(Byte) : s = <<Prefix(h)>> /\ Len(s) = 1 /\ s[1] = p
      BY Zenon, <1>2, <2>6
    <2>2. PICK t \in Seq(Byte) :
            /\ t = s \o u
            /\ Len(t) = Len(s) + Len(u)
            /\ Len(t) \in Nat /\ Len(s) <= Len(t)
            /\ \A i \in 1 .. Len(s) : t[i] = s[i]
            /\ \A i \in 1 .. Len(u) : t[Len(s) + i] = u[i]
      BY Joined
    <2>3. Len(t) = 3 /\ t[1] = p /\ t[2] = u[1] /\ t[3] = u[2]
      BY <1>3, <2>1, <2>2
    <2>4. t = <<Prefix(h)>> \o WriteUint16(h.sequence)
      BY Zenon, <1>3, <2>1, <2>2
    <2>5. t[2] + 256 * t[3] = q
      BY <1>3, <2>3
    <2> QED
      BY Zenon, <2>3, <2>4, <2>5
  <1>5. PICK a \in Seq(Byte) :
          /\ a = AckField(h)
          /\ Near(h) => Len(a) = 1 /\ U16(q - a[1]) = h.ack
          /\ ~Near(h) => Len(a) = 2 /\ a[1] + 256 * a[2] = h.ack
    BY <1>1, AckFieldValue
  <1>6. \A b \in Byte : \E f \in Seq(Byte) :
          /\ f = MaskField(b)
          /\ Len(f) \in {0, 1}
          /\ b = 255 <=> Len(f) = 0
          /\ b # 255 => f[1] = b
    <2> TAKE b \in Byte
    <2>1. /\ MaskField(b) \in Seq(Byte)
          /\ b = 255 => Len(MaskField(b)) = 0
          /\ b # 255 => Len(MaskField(b)) = 1 /\ MaskField(b)[1] = b
      BY MaskFieldValue
    <2> QED
      BY <2>1
  <1>7. PICK f1 \in Seq(Byte) : f1 = MaskField(b1) /\ Len(f1) \in {0, 1}
                                /\ (b1 = 255 <=> Len(f1) = 0) /\ (b1 # 255 => f1[1] = b1)
    BY <1>6
  <1>8. PICK f2 \in Seq(Byte) : f2 = MaskField(b2) /\ Len(f2) \in {0, 1}
                                /\ (b2 = 255 <=> Len(f2) = 0) /\ (b2 # 255 => f2[1] = b2)
    BY <1>6
  <1>9. PICK f3 \in Seq(Byte) : f3 = MaskField(b3) /\ Len(f3) \in {0, 1}
                                /\ (b3 = 255 <=> Len(f3) = 0) /\ (b3 # 255 => f3[1] = b3)
    BY <1>6
  <1>10. PICK f4 \in Seq(Byte) : f4 = MaskField(b4) /\ Len(f4) \in {0, 1}
                                /\ (b4 = 255 <=> Len(f4) = 0) /\ (b4 # 255 => f4[1] = b4)
    BY <1>6
  <1>11. WriteHeader(h) = s0 \o a \o f1 \o f2 \o f3 \o f4
    BY Zenon, <1>1, <1>4, <1>5, <1>7, <1>8, <1>9, <1>10 DEF WriteHeader
  <1>12. PICK la \in {1, 2}, l1 \in {0, 1}, l2 \in {0, 1}, l3 \in {0, 1}, l4 \in {0, 1} :
           /\ la = Len(a) /\ l1 = Len(f1) /\ l2 = Len(f2) /\ l3 = Len(f3) /\ l4 = Len(f4)
           /\ HasBit(p, NearBit) <=> la = 1
           /\ b1 # 255 <=> l1 = 1
           /\ b2 # 255 <=> l2 = 1
           /\ b3 # 255 <=> l3 = 1
           /\ b4 # 255 <=> l4 = 1
    BY <1>2, <1>5, <1>7, <1>8, <1>9, <1>10, SMTT(30)
  <1>13. PICK header \in Seq(Byte), w \in Seq(Byte) :
           Placed(header, w, s0, a, f1, f2, f3, f4, payload, la, l1, l2, l3, l4)
    <2>1. /\ Len(f1) \in {0, 1} /\ Len(f2) \in {0, 1} /\ Len(f3) \in {0, 1} /\ Len(f4) \in {0, 1}
          /\ la = Len(a) /\ Len(s0) = 3
          /\ l1 = Len(f1) /\ l2 = Len(f2) /\ l3 = Len(f3) /\ l4 = Len(f4)
      BY Zenon, <1>4, <1>7, <1>8, <1>9, <1>10, <1>12
    <2>2. Pieces(s0, a, f1, f2, f3, f4, payload, la, l1, l2, l3, l4)
      BY Zenon, <1>4, <1>5, <1>7, <1>8, <1>9, <1>10, <1>12, <2>1 DEF Pieces
    <2> QED
      BY Zenon, <2>2, Layout
  <1>14. header = WriteHeader(h)
    BY Zenon, <1>11, <1>13 DEF Placed
  <1>15. PICK ack \in Seqs : ack = h.ack
    BY DEF Headers
  <1>16. /\ w[1] = p /\ w[2] + 256 * w[3] = q
         /\ la = 1 => U16(q - w[4]) = ack
         /\ la = 2 => w[4] + 256 * w[5] = ack
    <2>1. w[1] = p
      BY Zenon, <1>4, <1>13 DEF Placed
    <2>2. w[2] + 256 * w[3] = q
      BY Zenon, <1>4, <1>13 DEF Placed
    <2>3. la = 1 => U16(q - w[4]) = ack
      BY ZenonT(40), <1>2, <1>5, <1>12, <1>13, <1>15 DEF Placed
    <2>4. la = 2 => ~Near(h)
      <3>1. Near(h) => la = 1
        BY Zenon, <1>5, <1>12
      <3> QED
        BY <3>1
    <2>5. la = 2 => w[4] + 256 * w[5] = ack
      <3>1. CASE la = 2
        <4>1. a[1] + 256 * a[2] = ack
          BY Zenon, <1>5, <1>15, <2>4, <3>1
        <4>2. w[4] = a[1] /\ w[5] = a[2]
          BY Zenon, <1>13, <3>1 DEF Placed
        <4> QED
          BY Zenon, <4>1, <4>2
      <3> QED
        BY Zenon, <3>1
    <2> QED
      BY <2>1, <2>2, <2>3, <2>5
  <1>17. /\ l1 = 1 => w[3 + la + l1] = b1
         /\ l2 = 1 => w[3 + la + l1 + l2] = b2
         /\ l3 = 1 => w[3 + la + l1 + l2 + l3] = b3
         /\ l4 = 1 => w[3 + la + l1 + l2 + l3 + l4] = b4
    <2>1. l1 = 1 => w[3 + la + l1] = b1
      BY Zenon, <1>7, <1>12, <1>13 DEF Placed
    <2>2. l2 = 1 => w[3 + la + l1 + l2] = b2
      BY Zenon, <1>8, <1>12, <1>13 DEF Placed
    <2>3. l3 = 1 => w[3 + la + l1 + l2 + l3] = b3
      BY Zenon, <1>9, <1>12, <1>13 DEF Placed
    <2>4. l4 = 1 => w[3 + la + l1 + l2 + l3 + l4] = b4
      BY Zenon, <1>10, <1>12, <1>13 DEF Placed
    <2> QED
      BY Zenon, <2>1, <2>2, <2>3, <2>4
  <1>18. /\ Readable(w)
         /\ HeaderBytes(w) = 3 + la + l1 + l2 + l3 + l4
         /\ ReadHeader(w) = [sequence |-> q, ack |-> ack, ack_bits |-> <<b1, b2, b3, b4>>]
    <2>1. /\ ~HasBit(p, FragmentBit)
          /\ HasBit(p, 2) <=> b1 # 255
          /\ HasBit(p, 4) <=> b2 # 255
          /\ HasBit(p, 8) <=> b3 # 255
          /\ HasBit(p, 16) <=> b4 # 255
          /\ HasBit(p, NearBit) <=> la = 1
          /\ b1 # 255 <=> l1 = 1
          /\ b2 # 255 <=> l2 = 1
          /\ b3 # 255 <=> l3 = 1
          /\ b4 # 255 <=> l4 = 1
      BY Zenon, <1>2, <1>12
    <2>2. PICK n \in Nat : n = Len(w) /\ n >= 3 + la + l1 + l2 + l3 + l4
      BY Zenon, <1>13 DEF Placed
    <2>3. LaidOut(w, p, q, ack, b1, b2, b3, b4, la, l1, l2, l3, l4, n)
      BY Zenon, <1>16, <1>17, <2>1, <2>2 DEF LaidOut
    <2> QED
      BY Zenon, <2>2, <2>3, ReadBack
  <1>19. h = [sequence |-> q, ack |-> ack, ack_bits |-> <<b1, b2, b3, b4>>]
    <2>1. h.ack_bits = <<b1, b2, b3, b4>>
      BY <1>1 DEF Headers
    <2>2. h = [sequence |-> h.sequence, ack |-> h.ack, ack_bits |-> h.ack_bits]
      BY DEF Headers
    <2> QED
      BY <1>1, <1>15, <2>1, <2>2
  <1>20. 3 + la + l1 + l2 + l3 + l4 \in 4 .. 9
    OBVIOUS
  <1> QED
    BY Zenon, <1>13, <1>14, <1>18, <1>19, <1>20 DEF MaxHeaderBytes, Placed

-----------------------------------------------------------------------------
(* The invariant.                                                          *)


\* A fragment that was stored under sequence s.
PieceOK(packet, s, i, n) ==
  /\ packet \in Seq(Byte)
  /\ ReadableFragment(packet)
  /\ FragmentSequence(packet) = s /\ FragmentId(packet) = i /\ NumFragments(packet) = n

\* The bytes of a stored fragment are where they belong, the embedded header
\* right before the payload.
InPlace(block, i) ==
  LET packet == block.pieces[i]
  IN  /\ \A k \in 1 .. Len(Body(packet)) :
           block.packet_data[MaxHeaderBytes + i * FragmentSize + k] = Body(packet)[k]
      /\ i = 0 =>
           /\ block.packet_header_bytes = EmbeddedBytes(packet)
           /\ \A k \in 1 .. EmbeddedBytes(packet) :
                block.packet_data[MaxHeaderBytes - EmbeddedBytes(packet) + k] = Embedded(packet)[k]
      /\ i = block.num_fragments_total - 1 =>
           block.packet_bytes = i * FragmentSize + Len(Body(packet))

Shaped(block) ==
  /\ DOMAIN block = {"num_fragments_total", "packet_header_bytes", "packet_bytes", "packet_data", "pieces"}
  /\ block.num_fragments_total \in 1 .. MaxFragments
  /\ DOMAIN block.pieces \subseteq 0 .. (block.num_fragments_total - 1)
  /\ block.packet_data \in
       [1 .. (MaxHeaderBytes + block.num_fragments_total * FragmentSize) -> 0 .. Unset]

BlockOK(block, s) ==
  /\ Shaped(block)
  /\ \A i \in DOMAIN block.pieces :
       /\ PieceOK(block.pieces[i], s, i, block.num_fragments_total)
       /\ InPlace(block, i)

\* payload is the bodies of n packets one after the other.
Spread(payload, from, n) ==
  /\ payload \in Seq(Byte)
  /\ Len(payload) = (n - 1) * FragmentSize + Len(Body(from[n - 1]))
  /\ \A i \in 0 .. (n - 1) :
       /\ Body(from[i]) \in Seq(Byte)
       /\ i < n - 1 => Len(Body(from[i])) = FragmentSize
       /\ \A k \in 1 .. Len(Body(from[i])) : payload[i * FragmentSize + k] = Body(from[i])[k]

TakenOK(t) ==
  LET n == Cardinality(DOMAIN t.from)
  IN  /\ n \in Nat \ {0}
      /\ DOMAIN t.from = 0 .. (n - 1)
      /\ t.header = ArrivedHeader(t.from[0])
      /\ Spread(t.payload, t.from, n)

\* Packets as they were written for this send.
SentWhole(send, from) ==
  /\ DOMAIN from = {0}
  /\ from[0] = WriteHeader(send.header) \o send.payload

SentInPieces(send, from, n) ==
  /\ n = FragmentCount(send.payload)
  /\ DOMAIN from \subseteq 0 .. (n - 1)
  /\ \A i \in DOMAIN from : from[i] = Fragment(send, i)

Undamaged ==
  /\ link \subseteq UNION {Written(send) : send \in sent}
  /\ \A s \in DOMAIN blocks : \E send \in sent :
       SentInPieces(send, blocks[s].pieces, blocks[s].num_fragments_total)
  /\ \A t \in taken : \E send \in sent :
       \/ SentWhole(send, t.from)
       \/ SentInPieces(send, t.from, Cardinality(DOMAIN t.from)) 

\* What holds whatever the link does.
Structure ==
  /\ link \subseteq Seq(Byte) \ {<< >>}
  /\ sent \subseteq Sends /\ \A a, b \in sent : a = b
  /\ damaged \in Nat
  /\ \A s \in DOMAIN blocks : BlockOK(blocks[s], s)
  /\ \A t \in taken : TakenOK(t)

Inv == Structure /\ (damaged = 0 => Undamaged)
-----------------------------------------------------------------------------
(* Headers in bytes that nobody vouches for.                               *)

\* The numbers of the configuration.
LEMMA Config ==
  /\ MaxFragments \in Nat /\ MaxFragments >= 1 /\ MaxFragments <= 256
  /\ FragmentSize \in Nat /\ FragmentSize >= 1
  /\ MaxHeaderBytes = 9 /\ FragmentHeaderBytes = 5 /\ Unset = 256
  BY FragmentAssumption DEF MaxHeaderBytes, FragmentHeaderBytes, Unset

\* Whatever the prefix byte, the reader wants between 4 and 9 bytes.
LEMMA HeaderBytesRange ==
  ASSUME NEW packet
  PROVE  HeaderBytes(packet) \in 4 .. 9
  <1>1. PICK b1 \in {0, 1}, b2 \in {0, 1}, b3 \in {0, 1}, b4 \in {0, 1} :
          MaskBytes(packet[1], 4) = b1 + b2 + b3 + b4
    BY DEF MaskBytes, Bit
  <1>2. PICK a \in {1, 2} : a = AckBytes(packet[1])
    BY DEF AckBytes
  <1>3. HeaderBytes(packet) = 3 + a + (b1 + b2 + b3 + b4)
    BY <1>1, <1>2 DEF HeaderBytes
  <1> QED
    BY <1>3

\* What is left of a packet without its first n bytes.
LEMMA AfterValue ==
  ASSUME NEW packet \in Seq(Byte), NEW n \in Nat, n <= Len(packet)
  PROVE  /\ After(packet, n) \in Seq(Byte)
         /\ Len(After(packet, n)) = Len(packet) - n
         /\ \A k \in 1 .. Len(packet) - n : After(packet, n)[k] = packet[n + k]
  BY DEF After

\* The mask byte n is read from the first HeaderBytes bytes.
LEMMA SameMask ==
  ASSUME NEW v, NEW w, v[1] = w[1],
         \A k \in 1 .. HeaderBytes(v) : w[k] = v[k],
         NEW n \in 1 .. 4, NEW bit, bit = CASE n = 1 -> 2 [] n = 2 -> 4 [] n = 3 -> 8 [] OTHER -> 16
  PROVE  ReadMask(w, n, bit) = ReadMask(v, n, bit)
  <1>1. PICK p : p = v[1] /\ p = w[1]
    OBVIOUS
  <1>2. CASE HasBit(p, bit)
    <2>1. PICK b1 \in {0, 1}, b2 \in {0, 1}, b3 \in {0, 1}, b4 \in {0, 1} :
            /\ b1 = Bit(HasBit(p, 2), 1) /\ b2 = Bit(HasBit(p, 4), 1)
            /\ b3 = Bit(HasBit(p, 8), 1) /\ b4 = Bit(HasBit(p, 16), 1)
      BY DEF Bit
    <2>2. MaskBytes(p, 4) = b1 + b2 + b3 + b4
      BY <2>1 DEF MaskBytes, Bit
    <2>3. MaskBytes(p, n) \in 0 .. (b1 + b2 + b3 + b4)
      BY <2>1 DEF MaskBytes, Bit
    <2>4. PICK a \in {1, 2} : a = AckBytes(p)
      BY DEF AckBytes
    <2>5. HeaderBytes(v) = 3 + a + (b1 + b2 + b3 + b4)
      BY <1>1, <2>2, <2>4 DEF HeaderBytes
    <2>6. PICK k \in 1 .. HeaderBytes(v) : k = 3 + AckBytes(p) + MaskBytes(p, n)
      BY <2>3, <2>4, <2>5
    <2>7. w[k] = v[k]
      BY <2>6
    <2> QED
      BY <1>1, <1>2, <2>6, <2>7 DEF ReadMask
  <1>3. CASE ~HasBit(p, bit)
    BY <1>1, <1>3 DEF ReadMask
  <1> QED
    BY <1>2, <1>3

\* The reader sees no byte after the header.
LEMMA SameHeader ==
  ASSUME NEW v \in Seq(Byte), NEW w \in Seq(Byte), Readable(v), HeaderBytes(v) <= Len(w),
         \A k \in 1 .. HeaderBytes(v) : w[k] = v[k]
  PROVE  /\ Readable(w)
         /\ HeaderBytes(w) = HeaderBytes(v)
         /\ ReadHeader(w) = ReadHeader(v)
  <1>1. HeaderBytes(v) \in 4 .. 9
    BY HeaderBytesRange
  <1>2. w[1] = v[1] /\ w[2] = v[2] /\ w[3] = v[3] /\ w[4] = v[4]
    BY <1>1
  <1>3. HeaderBytes(w) = HeaderBytes(v)
    BY <1>2 DEF HeaderBytes
  <1>4. Readable(w)
    <2>1. PICK m \in {0, 1, 2, 3, 4}, a \in {1, 2} :
            HeaderBytes(v) = 3 + a + m /\ a = AckBytes(v[1])
      <3>1. PICK b1 \in {0, 1}, b2 \in {0, 1}, b3 \in {0, 1}, b4 \in {0, 1} :
              MaskBytes(v[1], 4) = b1 + b2 + b3 + b4
        BY DEF MaskBytes, Bit
      <3>2. PICK a \in {1, 2} : a = AckBytes(v[1])
        BY DEF AckBytes
      <3> QED
        BY <3>1, <3>2, SMTT(30) DEF HeaderBytes
    <2>2. Len(w) >= 3 /\ Len(w) >= 3 + AckBytes(w[1]) /\ Len(w) >= HeaderBytes(w)
      BY <1>2, <1>3, <2>1, SMTT(30)
    <2> QED
      BY <1>2, <2>2 DEF Readable
  <1>5. ReadAck(w) = ReadAck(v)
    <2>1. CASE HasBit(v[1], NearBit)
      BY <1>2, <2>1 DEF ReadAck, ReadUint16
    <2>2. CASE ~HasBit(v[1], NearBit)
      <3>1. AckBytes(v[1]) = 2
        BY <2>2 DEF AckBytes
      <3>2. PICK b1 \in {0, 1}, b2 \in {0, 1}, b3 \in {0, 1}, b4 \in {0, 1} :
              MaskBytes(v[1], 4) = b1 + b2 + b3 + b4
        BY DEF MaskBytes, Bit
      <3>3. HeaderBytes(v) >= 5
        BY <3>1, <3>2 DEF HeaderBytes
      <3>4. w[5] = v[5]
        BY <1>1, <3>3
      <3> QED
        BY <1>2, <2>2, <3>4 DEF ReadAck, ReadUint16
    <2> QED
      BY <2>1, <2>2
  <1>6. /\ ReadMask(w, 1, 2) = ReadMask(v, 1, 2) /\ ReadMask(w, 2, 4) = ReadMask(v, 2, 4)
        /\ ReadMask(w, 3, 8) = ReadMask(v, 3, 8) /\ ReadMask(w, 4, 16) = ReadMask(v, 4, 16)
    BY <1>2, SameMask
  <1>7. ReadUint16(w, 2) = ReadUint16(v, 2)
    BY <1>2 DEF ReadUint16
  <1> QED
    BY <1>3, <1>4, <1>5, <1>6, <1>7, Zenon DEF ReadHeader
-----------------------------------------------------------------------------
(* Fragments                                                               *)

\* A later fragment begins where an earlier one of full size ends, or after.
LEMMA Apart ==
  ASSUME NEW F \in Nat, NEW i \in Int, NEW j \in Int, i < j
  PROVE  i * F + F <= j * F
  <1>1. PICK d \in Nat : j = i + 1 + d
    BY i + 1 <= j
  <1>2. d * F \in Nat
    OBVIOUS
  <1>3. j * F = i * F + F + d * F
    BY <1>1
  <1> QED
    BY <1>2, <1>3

\* The prefix of a fragment has the fragment bit.
LEMMA FragmentMark == HasBit(1, FragmentBit)
  <1>1. 1 = 1 * (1 \div 1) + (1 % 1) /\ 1 % 1 \in 0 .. 0 /\ 1 \div 1 \in Int
    BY DivMod
  <1>2. 1 \div 1 = 1
    BY <1>1
  <1>3. 1 % 2 = 1
    OBVIOUS
  <1> QED
    BY <1>2, <1>3 DEF HasBit, FragmentBit

\* The header bytes that StoreFragment writes in front of the payload.
StoredHeader(packet) ==
  IF FragmentId(packet) = 0 THEN WriteHeader(ReadHeader(Embedded(packet))) ELSE << >>

\* A fragment the reader lets through: its body, and its header written anew.
Dissected(packet, id, n, hb) ==
  /\ id = FragmentId(packet) /\ n = NumFragments(packet) /\ hb = EmbeddedBytes(packet)
  /\ n \in 1 .. MaxFragments /\ id \in 0 .. (n - 1)
  /\ hb \in 0 .. 9 /\ (id # 0 => hb = 0)
  /\ Embedded(packet) \in Seq(Byte) /\ hb <= Len(Embedded(packet))
  /\ Body(packet) \in Seq(Byte) /\ Body(packet) = After(Embedded(packet), hb)
  /\ Len(Body(packet)) <= FragmentSize
  /\ id # n - 1 => Len(Body(packet)) = FragmentSize
  /\ StoredHeader(packet) \in Seq(Byte) /\ Len(StoredHeader(packet)) = hb
  /\ \A k \in 1 .. hb : StoredHeader(packet)[k] = Embedded(packet)[k]
  /\ id = 0 => Readable(Embedded(packet)) /\ hb = HeaderBytes(Embedded(packet)) /\ hb >= 4

LEMMA DissectedFragment ==
  ASSUME NEW packet \in Seq(Byte), ReadableFragment(packet)
  PROVE  \E id, n, hb \in Int : Dissected(packet, id, n, hb)
  <1>1. /\ Len(packet) \in Nat /\ Len(packet) >= 5 /\ packet[1] = 1
        /\ packet[4] \in Byte /\ packet[5] \in Byte
    BY DEF ReadableFragment, FragmentHeaderBytes, FragmentBit
  <1>2. PICK id \in Int, n \in Int :
          /\ id = FragmentId(packet) /\ n = NumFragments(packet)
          /\ n \in 1 .. MaxFragments /\ id \in 0 .. (n - 1)
    <2>1. packet[5] + 1 \in Int /\ packet[5] + 1 >= 1 /\ packet[4] \in Int /\ packet[4] >= 0
      <3>1. \A x \in Byte : x \in Int /\ x >= 0
        BY DEF Byte
      <3> HIDE DEF Byte
      <3>2. packet[5] \in Int /\ packet[5] >= 0 /\ packet[4] \in Int /\ packet[4] >= 0
        BY <1>1, <3>1
      <3> QED
        BY <3>2
    <2>2. packet[5] + 1 <= MaxFragments /\ packet[4] < packet[5] + 1
      BY DEF ReadableFragment, NumFragments, FragmentId
    <2> QED
      BY <2>1, <2>2, Config DEF NumFragments, FragmentId
  <1>3. PICK e \in Seq(Byte) :
          /\ e = Embedded(packet) /\ Len(e) = Len(packet) - 5
          /\ \A k \in 1 .. Len(packet) - 5 : e[k] = packet[5 + k]
    <2>1. /\ After(packet, 5) \in Seq(Byte)
          /\ Len(After(packet, 5)) = Len(packet) - 5
          /\ \A k \in 1 .. Len(packet) - 5 : After(packet, 5)[k] = packet[5 + k]
      BY <1>1, AfterValue
    <2> QED
      BY <2>1 DEF Embedded, FragmentHeaderBytes
  <1>4. PICK hb \in Nat :
          /\ hb = EmbeddedBytes(packet) /\ hb <= Len(e) /\ hb \in 0 .. 9
          /\ id = 0 => Readable(e) /\ hb = HeaderBytes(e) /\ hb >= 4 /\ Canonical(e)
          /\ id # 0 => hb = 0
    <2>1. CASE id = 0
      <3>1. Readable(e) /\ Canonical(e)
        BY <1>2, <1>3, <2>1 DEF ReadableFragment
      <3>2. HeaderBytes(e) <= Len(e) /\ HeaderBytes(e) \in 4 .. 9
        BY <3>1, HeaderBytesRange DEF Readable
      <3> QED
        BY <1>2, <1>3, <2>1, <3>1, <3>2 DEF EmbeddedBytes
    <2>2. CASE id # 0
      BY <1>2, <1>3, <2>2 DEF EmbeddedBytes
    <2> QED
      BY <2>1, <2>2
  <1>5. PICK b \in Seq(Byte) :
          /\ b = Body(packet) /\ b = After(e, hb) /\ Len(b) = Len(packet) - 5 - hb
    <2>1. HasBit(packet[1], FragmentBit)
      BY <1>1, FragmentMark
    <2>2. Body(packet) = After(packet, 5 + hb)
      BY <1>4, <2>1 DEF Body, FragmentHeaderBytes
    <2>3. PICK m \in Nat : m = 5 + hb /\ m <= Len(packet)
      BY <1>1, <1>3, <1>4
    <2>4. /\ After(packet, m) \in Seq(Byte)
          /\ Len(After(packet, m)) = Len(packet) - m
          /\ \A k \in 1 .. Len(packet) - m : After(packet, m)[k] = packet[m + k]
      BY <2>3, AfterValue
    <2>5. /\ After(e, hb) \in Seq(Byte)
          /\ Len(After(e, hb)) = Len(e) - hb
          /\ \A k \in 1 .. Len(e) - hb : After(e, hb)[k] = e[hb + k]
      BY <1>4, AfterValue
    <2>6. After(packet, m) = After(e, hb)
      <3> DEFINE u == After(packet, m)
                 v == After(e, hb)
      <3>1. u \in Seq(Byte) /\ v \in Seq(Byte) /\ Len(u) = Len(v)
        <4>1. Len(packet) - m = Len(e) - hb
          BY <1>1, <1>3, <1>4, <2>3
        <4> QED
          BY <2>4, <2>5, <4>1
      <3>2. ASSUME NEW k \in 1 .. Len(u)
            PROVE  u[k] = v[k]
        <4>1. u[k] = packet[m + k] /\ v[k] = e[hb + k] /\ hb + k \in 1 .. Len(packet) - 5
          BY <1>1, <1>3, <2>3, <2>4, <2>5
        <4>2. e[hb + k] = packet[5 + (hb + k)]
          BY <1>3, <4>1
        <4>3. 5 + (hb + k) = m + k
          BY <1>4, <2>3
        <4> QED
          BY <4>1, <4>2, <4>3
      <3> HIDE DEF u, v
      <3>3. u = v
        BY <3>1, <3>2
      <3> QED
        BY <3>3 DEF u, v
    <2> QED
      BY <1>1, <2>2, <2>3, <2>4, <2>6
  <1>6. /\ Len(b) <= FragmentSize
        /\ id # n - 1 => Len(b) = FragmentSize
    <2>1. FragmentBytes(packet) = Len(b)
      BY <1>4, <1>5 DEF FragmentBytes, FragmentHeaderBytes
    <2> QED
      BY <1>2, <2>1 DEF ReadableFragment
  <1>7. /\ StoredHeader(packet) \in Seq(Byte) /\ Len(StoredHeader(packet)) = hb
        /\ \A k \in 1 .. hb : StoredHeader(packet)[k] = e[k]
    <2>1. CASE id = 0
      <3>1. StoredHeader(packet) = SubSeq(e, 1, hb)
        BY <1>2, <1>3, <1>4, <2>1 DEF StoredHeader, Canonical
      <3>2. /\ SubSeq(e, 1, hb) \in Seq(Byte) /\ Len(SubSeq(e, 1, hb)) = hb
            /\ \A k \in 1 .. hb : SubSeq(e, 1, hb)[k] = e[k]
        BY <1>4
      <3> QED
        BY <3>1, <3>2
    <2>2. CASE id # 0
      BY <1>2, <1>4, <2>2 DEF StoredHeader
    <2> QED
      BY <2>1, <2>2
  <1>8. Dissected(packet, id, n, hb)
    BY <1>2, <1>3, <1>4, <1>5, <1>6, <1>7 DEF Dissected
  <1>9. id \in Int /\ n \in Int /\ hb \in Int
    BY <1>2, <1>4
  <1> QED
    BY <1>8, <1>9
\* What memcpy leaves in a block of N bytes.
IsCopy(c, data, offset, bytes, N) ==
  /\ c \in [1 .. N -> 0 .. Unset]
  /\ \A k \in 1 .. N : k - offset \in 1 .. Len(bytes) => c[k] = bytes[k - offset]
  /\ \A k \in 1 .. N : k - offset \notin 1 .. Len(bytes) => c[k] = data[k]

LEMMA CopiedValue ==
  ASSUME NEW N \in Nat, NEW data \in [1 .. N -> 0 .. Unset], NEW offset \in Int,
         NEW bytes \in Seq(Byte)
  PROVE  IsCopy(Copied(data, offset, bytes), data, offset, bytes, N)
  <1>1. \A x \in Byte : x \in 0 .. Unset
    BY Config DEF Byte
  <1>2. DOMAIN bytes = 1 .. Len(bytes) /\ \A k \in 1 .. Len(bytes) : bytes[k] \in 0 .. Unset
    BY <1>1
  <1> QED
    BY <1>2 DEF Copied, IsCopy

\* The block after a fragment of n was stored in it as number id.
StoredBlock(block, packet, c, id, n, hb) ==
  LET from == MaxHeaderBytes + id * FragmentSize
  IN  /\ DOMAIN c = DOMAIN block
      /\ c.num_fragments_total = n
      /\ c.pieces = [i \in DOMAIN block.pieces \cup {id} |->
                       IF i = id THEN packet ELSE block.pieces[i]]
      /\ c.packet_header_bytes = (IF id = 0 THEN hb ELSE block.packet_header_bytes)
      /\ c.packet_bytes = (IF id = n - 1 THEN (n - 1) * FragmentSize + Len(Body(packet))
                                         ELSE block.packet_bytes)
      /\ c.packet_data \in [1 .. (MaxHeaderBytes + n * FragmentSize) -> 0 .. Unset]
      /\ \A k \in 1 .. Len(Body(packet)) : c.packet_data[from + k] = Body(packet)[k]
      /\ \A k \in 1 .. hb : c.packet_data[MaxHeaderBytes - hb + k] = Embedded(packet)[k]
      /\ \A k \in 1 .. (MaxHeaderBytes + n * FragmentSize) :
           k - from \notin 1 .. Len(Body(packet)) /\ (k > MaxHeaderBytes \/ hb = 0) =>
             c.packet_data[k] = block.packet_data[k]

LEMMA StoreValue ==
  ASSUME NEW packet, NEW block, NEW id \in Int, NEW n \in Int, NEW hb \in Int,
         Dissected(packet, id, n, hb), Shaped(block), n = block.num_fragments_total
  PROVE  StoredBlock(block, packet, StoreFragment(block, packet), id, n, hb)
  <1>1. PICK F \in Nat : F = FragmentSize /\ F >= 1
    BY Config
  <1>2. PICK from \in Nat, N \in Nat, last \in Nat :
          /\ from = MaxHeaderBytes + id * F
          /\ N = MaxHeaderBytes + n * F /\ from + F <= N
          /\ last = n - 1
          /\ from >= 9
    <2>1. id \in Nat /\ id < n /\ n \in Nat
      BY Config DEF Dissected
    <2>2. id * F + F <= n * F
      BY <2>1, Apart
    <2>3. PICK p \in Nat, q \in Nat : p = id * F /\ q = n * F
      BY <1>1, <2>1
    <2>4. p + F <= q
      BY <2>2, <2>3
    <2>5. PICK last \in Nat : last = n - 1
      BY <2>1
    <2>6. 9 + p \in Nat /\ 9 + q \in Nat /\ 9 + p + F <= 9 + q /\ 9 + p >= 9
      BY <1>1, <2>3, <2>4
    <2> QED
      BY <2>3, <2>5, <2>6, Config
  <1>17. from \in Nat /\ N \in Nat /\ F \in Nat /\ from >= 9 /\ from + F <= N
    BY ONLY <1>1, <1>2
  <1>3. PICK body \in Seq(Byte) :
          /\ body = Body(packet) /\ body = After(Embedded(packet), hb)
          /\ Len(body) \in 0 .. F
    BY <1>1 DEF Dissected
  <1>4. PICK header \in Seq(Byte) :
          /\ header = StoredHeader(packet) /\ Len(header) = hb /\ hb \in 0 .. 9
          /\ \A k \in 1 .. hb : header[k] = Embedded(packet)[k]
    BY DEF Dissected
  <1>5. PICK data \in [1 .. N -> 0 .. Unset] : data = block.packet_data
    BY <1>1, <1>2 DEF Shaped
  <1>6. PICK placed \in [1 .. N -> 0 .. Unset] :
          /\ placed = Copied(data, MaxHeaderBytes - hb, header)
          /\ \A k \in 1 .. N : k - (MaxHeaderBytes - hb) \in 1 .. hb =>
                placed[k] = header[k - (MaxHeaderBytes - hb)]
          /\ \A k \in 1 .. N : k - (MaxHeaderBytes - hb) \notin 1 .. hb => placed[k] = data[k]
    <2>1. PICK o \in Int : o = MaxHeaderBytes - hb
      BY Config
    <2>2. IsCopy(Copied(data, o, header), data, o, header, N)
      BY <1>5, <2>1, CopiedValue
    <2> QED
      BY <1>4, <2>1, <2>2 DEF IsCopy
  <1>7. PICK whole \in [1 .. N -> 0 .. Unset] :
          /\ whole = Copied(placed, from, body)
          /\ \A k \in 1 .. N : k - from \in 1 .. Len(body) => whole[k] = body[k - from]
          /\ \A k \in 1 .. N : k - from \notin 1 .. Len(body) => whole[k] = placed[k]
    <2>1. IsCopy(Copied(placed, from, body), placed, from, body, N)
      <3>1. from \in Int
        BY <1>17
      <3>2. placed \in [1 .. N -> 0 .. Unset]
        BY <1>6
      <3> QED
        BY <3>1, <3>2, CopiedValue
    <2> QED
      BY <2>1 DEF IsCopy
  <1>8. Len(data) = N
    OBVIOUS
  <1>9. StoreFragment(block, packet) =
          [block EXCEPT
             !.packet_header_bytes = IF id = 0 THEN hb ELSE @,
             !.packet_bytes = IF id = last THEN last * FragmentSize + Len(body) ELSE @,
             !.packet_data = whole,
             !.pieces = [i \in DOMAIN @ \cup {id} |-> IF i = id THEN packet ELSE @[i]]]
    <2>1. ~(from + Len(body) > Len(data))
      BY <1>2, <1>3, <1>8, SMTT(30)
    <2>2. id = FragmentId(packet) /\ n = NumFragments(packet)
      BY DEF Dissected
    <2>3. header = (IF id = 0 THEN WriteHeader(ReadHeader(Embedded(packet))) ELSE << >>)
      BY <1>4, <2>2 DEF StoredHeader
    <2> QED
      BY <1>1, <1>2, <1>3, <1>4, <1>5, <1>6, <1>7, <2>1, <2>2, <2>3 DEF StoreFragment
  <1>10. /\ DOMAIN StoreFragment(block, packet) = DOMAIN block
         /\ StoreFragment(block, packet).num_fragments_total = n
         /\ StoreFragment(block, packet).pieces = [i \in DOMAIN block.pieces \cup {id} |->
                       IF i = id THEN packet ELSE block.pieces[i]]
         /\ StoreFragment(block, packet).packet_header_bytes =
              (IF id = 0 THEN hb ELSE block.packet_header_bytes)
         /\ StoreFragment(block, packet).packet_bytes =
              (IF id = last THEN last * FragmentSize + Len(body) ELSE block.packet_bytes)
         /\ StoreFragment(block, packet).packet_data = whole
    BY <1>9 DEF Shaped
  <1>11. \A k \in 1 .. Len(body) : whole[from + k] = body[k]
    <2> TAKE k \in 1 .. Len(body)
    <2>1. from + k \in 1 .. N /\ (from + k) - from = k
      BY ONLY <1>17, <1>3, k \in 1 .. Len(body)
    <2> QED
      BY <1>7, <2>1
  <1>12. \A k \in 1 .. hb : whole[MaxHeaderBytes - hb + k] = header[k]
    <2> TAKE k \in 1 .. hb
    <2>1. PICK m \in 1 .. N : m = MaxHeaderBytes - hb + k /\ m - from < 1
      BY ONLY <1>17, <1>4, Config, k \in 1 .. hb
    <2>2. whole[m] = placed[m]
      <3>1. m - from \notin 1 .. Len(body)
        BY <2>1
      <3> QED
        BY <1>7, <2>1, <3>1
    <2>3. m - (MaxHeaderBytes - hb) = k
      BY <1>4, <2>1, Config
    <2>4. placed[m] = header[k]
      BY <1>6, <2>3
    <2> QED
      BY <2>1, <2>2, <2>4
  <1>13. \A k \in 1 .. N :
           k - from \notin 1 .. Len(body) /\ (k > MaxHeaderBytes \/ hb = 0) => whole[k] = data[k]
    BY <1>4, <1>6, <1>7, Config
  <1>14. \A k \in 1 .. hb : whole[MaxHeaderBytes - hb + k] = Embedded(packet)[k]
    BY <1>4, <1>12
  <1> HIDE DEF StoredBlock
  <1> DEFINE c == StoreFragment(block, packet)
  <1>15. /\ DOMAIN c = DOMAIN block /\ c.num_fragments_total = n
         /\ c.pieces = [i \in DOMAIN block.pieces \cup {id} |->
                       IF i = id THEN packet ELSE block.pieces[i]]
         /\ c.packet_header_bytes = (IF id = 0 THEN hb ELSE block.packet_header_bytes)
         /\ c.packet_bytes = (IF id = n - 1 THEN (n - 1) * FragmentSize + Len(Body(packet))
                                            ELSE block.packet_bytes)
         /\ c.packet_data = whole
    BY Zenon, <1>2, <1>3, <1>10
  <1> HIDE DEF c
  <1>16. StoredBlock(block, packet, c, id, n, hb)
    BY ZenonT(30), <1>1, <1>2, <1>3, <1>5, <1>7, <1>11, <1>13, <1>14, <1>15 DEF StoredBlock
  <1> QED
    BY <1>16 DEF c
\* A block that nothing was stored in.
LEMMA NewBlockOK ==
  ASSUME NEW n \in 1 .. MaxFragments, NEW s
  PROVE  BlockOK(NewBlock(n), s) /\ NewBlock(n).num_fragments_total = n
  <1>1. PICK N \in Nat : N = MaxHeaderBytes + n * FragmentSize
    <2>1. n \in Nat /\ FragmentSize \in Nat
      BY Config
    <2>2. n * FragmentSize \in Nat
      BY <2>1
    <2> QED
      BY <2>2, Config
  <1>2. [k \in 1 .. N |-> Unset] \in [1 .. N -> 0 .. Unset]
    BY Config
  <1> DEFINE c == NewBlock(n)
  <1>3. /\ c.num_fragments_total = n /\ c.pieces = << >>
        /\ c.packet_data \in [1 .. N -> 0 .. Unset]
        /\ DOMAIN c = {"num_fragments_total", "packet_header_bytes", "packet_bytes",
                       "packet_data", "pieces"}
    BY <1>1, <1>2 DEF NewBlock
  <1>4. DOMAIN c.pieces = {}
    BY <1>3
  <1> HIDE DEF c
  <1>5. BlockOK(c, s)
    BY <1>1, <1>3, <1>4 DEF BlockOK, Shaped
  <1> QED
    BY <1>3, <1>5 DEF c

\* A fragment stored in a block disturbs none of those in it.
LEMMA StoreOK ==
  ASSUME NEW packet \in Seq(Byte), NEW block, NEW s,
         ReadableFragment(packet), s = FragmentSequence(packet),
         BlockOK(block, s), NumFragments(packet) = block.num_fragments_total,
         FragmentId(packet) \notin DOMAIN block.pieces
  PROVE  BlockOK(StoreFragment(block, packet), s)
  <1>1. PICK id \in Int, n \in Int, hb \in Int : Dissected(packet, id, n, hb)
    BY DissectedFragment
  <1> DEFINE c == StoreFragment(block, packet)
  <1>2. Shaped(block) /\ n = block.num_fragments_total
    BY <1>1 DEF Dissected, BlockOK
  <1>3. StoredBlock(block, packet, c, id, n, hb)
    BY <1>1, <1>2, StoreValue
  <1> HIDE DEF c
  <1>4. PICK F \in Nat : F = FragmentSize /\ F >= 1
    BY Config
  <1>5. /\ id = FragmentId(packet) /\ n = NumFragments(packet) /\ hb = EmbeddedBytes(packet)
        /\ id \in 0 .. (n - 1) /\ hb \in 0 .. 9 /\ (id # 0 => hb = 0)
        /\ Body(packet) \in Seq(Byte) /\ Len(Body(packet)) \in 0 .. F
        /\ n \in 1 .. MaxFragments
    <2>1. Len(Body(packet)) \in Nat
      BY <1>1 DEF Dissected
    <2> QED
      BY <1>1, <1>4, <2>1 DEF Dissected
  <1>6. /\ DOMAIN c = DOMAIN block /\ c.num_fragments_total = n
        /\ c.pieces = [i \in DOMAIN block.pieces \cup {id} |->
                         IF i = id THEN packet ELSE block.pieces[i]]
        /\ c.packet_data \in [1 .. (MaxHeaderBytes + n * FragmentSize) -> 0 .. Unset]
    BY <1>3 DEF StoredBlock
  <1>7. DOMAIN c.pieces = DOMAIN block.pieces \cup {id}
    BY <1>6
  <1>8. Shaped(c)
    BY <1>2, <1>5, <1>6, <1>7, Zenon DEF Shaped
  <1>9. ASSUME NEW i \in DOMAIN c.pieces, i = id
        PROVE  PieceOK(c.pieces[i], s, i, n) /\ InPlace(c, i)
    <2>1. c.pieces[i] = packet
      BY <1>6, <1>7, <1>9
    <2>2. PieceOK(packet, s, i, n)
      BY <1>5, <1>9 DEF PieceOK
    <2>3. \A k \in 1 .. Len(Body(packet)) :
             c.packet_data[MaxHeaderBytes + i * FragmentSize + k] = Body(packet)[k]
      BY <1>3, <1>9 DEF StoredBlock
    <2>4. i = 0 => c.packet_header_bytes = EmbeddedBytes(packet)
      BY <1>3, <1>5, <1>9 DEF StoredBlock
    <2>5. \A k \in 1 .. EmbeddedBytes(packet) :
            c.packet_data[MaxHeaderBytes - EmbeddedBytes(packet) + k] = Embedded(packet)[k]
      BY <1>3, <1>5 DEF StoredBlock
    <2>6. i = n - 1 => c.packet_bytes = i * FragmentSize + Len(Body(packet))
      BY <1>3, <1>9 DEF StoredBlock
    <2> QED
      BY <1>6, <2>1, <2>2, <2>3, <2>4, <2>5, <2>6, Zenon DEF InPlace
  <1>10. ASSUME NEW i \in DOMAIN c.pieces, i # id
         PROVE  PieceOK(c.pieces[i], s, i, n) /\ InPlace(c, i)
    <2>1. i \in DOMAIN block.pieces /\ c.pieces[i] = block.pieces[i]
      BY <1>6, <1>7, <1>10
    <2>2. PICK piece : piece = block.pieces[i] /\ piece = c.pieces[i]
      BY <2>1
    <2>3. PieceOK(piece, s, i, n) /\ InPlace(block, i)
      BY <1>2, <2>1, <2>2 DEF BlockOK
    <2>4. PICK id2 \in Int, hb2 \in Int : Dissected(piece, id2, n, hb2) /\ id2 = i
      <3>1. piece \in Seq(Byte) /\ ReadableFragment(piece) /\ FragmentId(piece) = i
            /\ NumFragments(piece) = n
        BY <2>3 DEF PieceOK
      <3>2. PICK id2 \in Int, n2 \in Int, hb2 \in Int : Dissected(piece, id2, n2, hb2)
        BY <3>1, DissectedFragment
      <3> QED
        BY <3>1, <3>2 DEF Dissected
    <2>5. /\ i \in 0 .. (n - 1) /\ hb2 = EmbeddedBytes(piece) /\ hb2 \in 0 .. 9
          /\ Len(Body(piece)) \in 0 .. F
      <3>1. Len(Body(piece)) \in Nat
        BY <2>4 DEF Dissected
      <3> QED
        BY <1>4, <2>4, <3>1 DEF Dissected
    <2>6. PICK from \in Nat, ofrom \in Nat, N \in Nat :
            /\ from = MaxHeaderBytes + i * F /\ ofrom = MaxHeaderBytes + id * F
            /\ N = MaxHeaderBytes + n * F
            /\ from >= 9 /\ ofrom >= 9 /\ from + F <= N
            /\ from + F <= ofrom \/ ofrom + F <= from
      <3>1. i \in Nat /\ id \in Nat /\ n \in Nat /\ i < n
        BY <1>5, <2>5
      <3>2. PICK p \in Nat, o \in Nat, q \in Nat : p = i * F /\ o = id * F /\ q = n * F
        BY <3>1
      <3>3. p + F <= q
        <4>1. i \in Int /\ n \in Int /\ i < n
          BY ONLY <3>1
        <4>2. i * F + F <= n * F
          BY <4>1, Apart
        <4> QED
          BY <3>2, <4>2
      <3>4. p + F <= o \/ o + F <= p
        <4>1. CASE i < id
          <5>1. i \in Int /\ id \in Int
            BY ONLY <3>1
          <5>2. i * F + F <= id * F
            BY <4>1, <5>1, Apart
          <5> QED
            BY <3>2, <5>2
        <4>2. CASE id < i
          <5>1. i \in Int /\ id \in Int
            BY ONLY <3>1
          <5>2. id * F + F <= i * F
            BY <4>2, <5>1, Apart
          <5> QED
            BY <3>2, <5>2
        <4> QED
          BY <1>10, <3>1, <4>1, <4>2
      <3>5. PICK f \in Nat, g \in Nat, m \in Nat :
              /\ f = 9 + p /\ g = 9 + o /\ m = 9 + q /\ f >= 9 /\ g >= 9 /\ f + F <= m
              /\ f + F <= g \/ g + F <= f
        <4>1. F \in Nat
          BY Config
        <4> QED
          BY ONLY <3>3, <3>4, <4>1, p \in Nat, o \in Nat, q \in Nat
      <3>6. /\ f = MaxHeaderBytes + i * F /\ g = MaxHeaderBytes + id * F
            /\ m = MaxHeaderBytes + n * F
        BY Zenon, <3>2, <3>5, Config
      <3> QED
        BY Zenon, <3>5, <3>6
    <2>13. /\ from \in Nat /\ ofrom \in Nat /\ N \in Nat /\ F \in Nat
           /\ from >= 9 /\ ofrom >= 9 /\ from + F <= N
           /\ from + F <= ofrom \/ ofrom + F <= from
           /\ Len(Body(packet)) \in 0 .. F /\ Len(Body(piece)) \in 0 .. F /\ hb2 \in 0 .. 9
      BY ONLY <1>4, <1>5, <2>5, <2>6
    <2>7. \A k \in 1 .. N : k - ofrom \notin 1 .. Len(Body(packet)) /\ (k > 9 \/ hb = 0) =>
             c.packet_data[k] = block.packet_data[k]
      BY <1>3, <1>4, <2>6, Config, Zenon DEF StoredBlock
    <2>8. \A k \in 1 .. Len(Body(piece)) : c.packet_data[from + k] = block.packet_data[from + k]
      <3> TAKE k \in 1 .. Len(Body(piece))
      <3>1. PICK m \in Int : m = from + k /\ m \in 1 .. N /\ m > 9
                              /\ m - ofrom \notin 1 .. Len(Body(packet))
        BY ONLY <2>13, k \in 1 .. Len(Body(piece))
      <3> QED
        BY <2>7, <3>1
    <2>9. \A k \in 1 .. Len(Body(piece)) : c.packet_data[from + k] = Body(piece)[k]
      BY <1>4, <2>2, <2>3, <2>6, <2>8, Zenon DEF InPlace
    <2>10. ASSUME i = 0
           PROVE  /\ c.packet_header_bytes = hb2
                  /\ \A k \in 1 .. hb2 : c.packet_data[9 - hb2 + k] = Embedded(piece)[k]
      <3>1. id # 0 /\ hb = 0
        BY <1>5, <1>10, <2>10
      <3>2. c.packet_header_bytes = block.packet_header_bytes
        BY <1>3, <3>1 DEF StoredBlock
      <3>3. /\ block.packet_header_bytes = hb2
            /\ \A k \in 1 .. hb2 : block.packet_data[9 - hb2 + k] = Embedded(piece)[k]
        BY <2>2, <2>3, <2>5, <2>10, Config, Zenon DEF InPlace
      <3>4. ASSUME NEW k \in 1 .. hb2
            PROVE  c.packet_data[9 - hb2 + k] = block.packet_data[9 - hb2 + k]
        <4>1. PICK m \in Int : m = 9 - hb2 + k /\ m \in 1 .. N /\ m - ofrom < 1
          BY ONLY <2>13, k \in 1 .. hb2
        <4>2. m - ofrom \notin 1 .. Len(Body(packet))
          BY <4>1
        <4> QED
          BY <2>7, <3>1, <4>1, <4>2
      <3> QED
        BY <3>2, <3>3, <3>4
    <2>11. i = n - 1 => c.packet_bytes = i * FragmentSize + Len(Body(piece))
      <3> HAVE i = n - 1
      <3>1. c.packet_bytes = block.packet_bytes
        BY <1>3, <1>10 DEF StoredBlock
      <3> QED
        BY <1>2, <2>2, <2>3, <3>1 DEF InPlace
    <2>12. InPlace(c, i)
      BY <1>4, <1>6, <2>2, <2>5, <2>6, <2>9, <2>10, <2>11, Config, ZenonT(30) DEF InPlace
    <2> QED
      BY <2>2, <2>3, <2>12
  <1>11. BlockOK(c, s)
    BY <1>6, <1>8, <1>9, <1>10 DEF BlockOK
  <1> QED
    BY <1>11 DEF c
-----------------------------------------------------------------------------
(* The packet in a complete block                                          *)

\* The product of two natural numbers.
LEMMA ProductNat == \A a, b \in Nat : a * b \in Nat
  OBVIOUS

\* Position m of a payload of n fragments of F bytes, the last one of L bytes,
\* is byte r + 1 of fragment i.
Within(m, F, n, L) ==
  \E i \in 0 .. (n - 1), r \in 0 .. (F - 1) : m = i * F + r /\ (i = n - 1 => r < L)

LEMMA Located ==
  ASSUME NEW F \in Nat \ {0}, NEW n \in Nat \ {0}, NEW L \in 0 .. F,
         NEW m \in Nat, m < (n - 1) * F + L
  PROVE  Within(m, F, n, L)
  <1>1. PICK i \in Int, r \in 0 .. (F - 1) : m = F * i + r
    <2>1. m \in Int
      OBVIOUS
    <2>2. /\ m = F * (m \div F) + (m % F) /\ m % F \in 0 .. (F - 1) /\ m \div F \in Int
      BY <2>1, DivMod
    <2> QED
      BY <2>2
  <1>2. m = i * F + r
    BY <1>1
  <1>3. PICK x \in Int, y \in Int : x = i * F /\ y = (n - 1) * F
    BY <1>1
  <1>4. i >= 0
    <2> SUFFICES ASSUME i < 0 PROVE FALSE
      BY <1>1
    <2>1. i * F + F <= 0 * F
      BY <1>1, Apart
    <2>2. 0 * F = 0
      OBVIOUS
    <2>3. x + F <= 0
      BY <1>3, <2>1, <2>2
    <2> QED
      BY <1>1, <1>2, <1>3, <2>3
  <1>5. i <= n - 1
    <2> SUFFICES ASSUME n - 1 < i PROVE FALSE
      BY <1>1
    <2>1. PICK k \in Int : k = n - 1 /\ k < i
      OBVIOUS
    <2>2. k * F + F <= i * F
      BY <1>1, <2>1, Apart
    <2>3. y + F <= x
      BY <1>3, <2>1, <2>2
    <2> QED
      BY <1>1, <1>2, <1>3, <2>3
  <1>6. i = n - 1 => r < L
    BY <1>1, <1>2, <1>3
  <1>7. i \in 0 .. (n - 1)
    BY ONLY <1>1, <1>4, <1>5, n \in Nat
  <1> QED
    BY Zenon, <1>1, <1>2, <1>6, <1>7 DEF Within

\* What is put together of n fragments is the first one's header and the bodies,
\* all of it written.
Assembled(w, from, n) ==
  /\ w \in Seq(Byte)
  /\ ReadHeader(w) = ArrivedHeader(from[0])
  /\ Spread(Payload(w), from, n)

LEMMA WholeOK ==
  ASSUME NEW s, NEW block, BlockOK(block, s), NEW n \in Nat \ {0},
         n = block.num_fragments_total, DOMAIN block.pieces = 0 .. (n - 1)
  PROVE  Assembled(Whole(block), block.pieces, n)
  <1>1. PICK F \in Nat : F = FragmentSize /\ F >= 1
    BY Config
  <1>2. PICK from : from = block.pieces
    OBVIOUS
  <1>3. \A i \in 0 .. (n - 1) :
          /\ PieceOK(from[i], s, i, n) /\ InPlace(block, i)
          /\ \E hb \in Int : Dissected(from[i], i, n, hb)
    <2> TAKE i \in 0 .. (n - 1)
    <2>1. PieceOK(from[i], s, i, n) /\ InPlace(block, i)
      BY <1>2 DEF BlockOK
    <2>2. from[i] \in Seq(Byte) /\ ReadableFragment(from[i]) /\ FragmentId(from[i]) = i
          /\ NumFragments(from[i]) = n
      BY <2>1 DEF PieceOK
    <2>3. PICK id \in Int, m \in Int, hb \in Int : Dissected(from[i], id, m, hb)
      BY <2>2, DissectedFragment
    <2> QED
      BY <2>1, <2>2, <2>3 DEF Dissected
  <1>4. \A i \in 0 .. (n - 1) :
          /\ Body(from[i]) \in Seq(Byte) /\ Len(Body(from[i])) \in 0 .. F
          /\ i < n - 1 => Len(Body(from[i])) = F
    <2> TAKE i \in 0 .. (n - 1)
    <2>1. Len(Body(from[i])) \in Nat
      BY <1>3 DEF Dissected
    <2> QED
      BY <1>1, <1>3, <2>1 DEF Dissected
  <1>5. PICK e \in Seq(Byte), hb \in 4 .. 9 :
          /\ e = Embedded(from[0]) /\ hb <= Len(e) /\ Readable(e) /\ HeaderBytes(e) = hb
          /\ block.packet_header_bytes = hb
          /\ \A k \in 1 .. hb : block.packet_data[9 - hb + k] = e[k]
    <2>1. 0 \in 0 .. (n - 1)
      OBVIOUS
    <2>2. PICK hb \in Int : Dissected(from[0], 0, n, hb)
      BY <1>3, <2>1
    <2>3. InPlace(block, 0)
      BY <1>3, <2>1
    <2>4. hb \in 4 .. 9 /\ hb = EmbeddedBytes(from[0])
      BY <2>2, SMTT(30) DEF Dissected
    <2>5. /\ block.packet_header_bytes = hb
          /\ \A k \in 1 .. hb : block.packet_data[9 - hb + k] = Embedded(from[0])[k]
      BY <1>2, <2>3, <2>4, Config, Zenon DEF InPlace
    <2> QED
      BY <2>2, <2>4, <2>5 DEF Dissected
  <1>6. PICK PB \in Nat, L \in 0 .. F, N \in Nat :
          /\ PB = (n - 1) * F + L /\ L = Len(Body(from[n - 1]))
          /\ N = MaxHeaderBytes + n * F /\ 9 + PB <= N
          /\ block.packet_bytes = PB
    <2>1. n - 1 \in 0 .. (n - 1)
      OBVIOUS
    <2>2. PICK L \in 0 .. F : L = Len(Body(from[n - 1]))
      BY <1>4, <2>1
    <2>3. block.packet_bytes = (n - 1) * F + L
      <3>1. InPlace(block, n - 1)
        BY <1>3, <2>1
      <3> QED
        BY <1>1, <1>2, <2>2, <3>1 DEF InPlace
    <2>4. PICK y \in Nat, z \in Nat : y = (n - 1) * F /\ z = n * F
      OBVIOUS
    <2>5. z = y + F
      BY <2>4
    <2>6. y + L \in Nat /\ 9 + z \in Nat /\ 9 + (y + L) <= 9 + z
      BY ONLY <2>2, <2>4, <2>5, F \in Nat
    <2> QED
      BY <2>2, <2>3, <2>4, <2>6, Config
  <1>7. PICK data \in [1 .. N -> 0 .. Unset] : data = block.packet_data
    BY <1>1, <1>6 DEF BlockOK, Shaped
  <1>17. /\ hb \in 4 .. 9 /\ Len(e) \in Nat /\ hb <= Len(e) /\ F \in Nat /\ F >= 1
         /\ PB \in Nat /\ L \in 0 .. F /\ N \in Nat /\ 9 + PB <= N
    BY ONLY <1>1, <1>5, <1>6
  <1> DEFINE w == Whole(block)
  <1>8. w = [k \in 1 .. (hb + PB) |-> data[9 - hb + k]]
    <2>1. \A k \in 1 .. (hb + PB) : 9 - hb + k \in DOMAIN data
      <3> TAKE k \in 1 .. (hb + PB)
      <3>1. 9 - hb + k \in 1 .. N
        BY ONLY <1>17, k \in 1 .. (hb + PB)
      <3> QED
        BY <1>7, <3>1
    <2>2. w = [k \in 1 .. (hb + PB) |->
                 IF 9 - hb + k \in DOMAIN data THEN data[9 - hb + k] ELSE Unset]
      BY <1>5, <1>6, <1>7, Config DEF Whole
    <2> HIDE DEF w
    <2> QED
      BY <2>1, <2>2
  <1> HIDE DEF w
  <1>9. \A k \in 1 .. hb : w[k] = e[k]
    <2> TAKE k \in 1 .. hb
    <2>1. k \in 1 .. (hb + PB)
      BY ONLY <1>17, k \in 1 .. hb
    <2> QED
      BY <1>5, <1>7, <1>8, <2>1
  <1>10. \A i \in 0 .. (n - 1) : \A k \in 1 .. Len(Body(from[i])) :
            /\ i * F + k \in 1 .. PB
            /\ w[hb + (i * F + k)] = Body(from[i])[k]
    <2> TAKE i \in 0 .. (n - 1)
    <2> TAKE k \in 1 .. Len(Body(from[i]))
    <2>1. PICK x \in Nat, y \in Nat : x = i * F /\ y = (n - 1) * F
      <3>1. i \in Nat /\ n - 1 \in Nat /\ F \in Nat
        BY <1>17
      <3>2. i * F \in Nat /\ (n - 1) * F \in Nat
        BY Zenon, <3>1, ProductNat
      <3> QED
        BY Zenon, <3>2
    <2>2. Len(Body(from[i])) \in 0 .. F /\ (i < n - 1 => x + F <= y)
      <3>1. ASSUME i < n - 1 PROVE x + F <= y
        <4>1. PICK j \in Int : j = n - 1 /\ i < j
          BY <3>1
        <4>2. i * F + F <= j * F
          <5>1. i \in Int /\ j \in Int /\ F \in Nat
            BY <1>17, <4>1
          <5> QED
            BY <4>1, <5>1, Apart
        <4> QED
          BY <2>1, <4>1, <4>2
      <3> QED
        BY <1>4, <3>1
    <2>3. PB = y + L
      BY <1>6, <2>1
    <2>4. x + k \in 1 .. PB
      <3>1. CASE i < n - 1
        <4>1. x \in Nat /\ y \in Nat /\ x + F <= y
          BY <2>1, <2>2, <3>1
        <4> QED
          BY ONLY <1>17, <2>2, <2>3, <4>1, k \in 1 .. Len(Body(from[i]))
      <3>2. CASE i = n - 1
        <4>1. x \in Nat /\ x = y
          BY <2>1, <3>2
        <4>2. k \in 1 .. L
          BY <1>6, <3>2
        <4> QED
          BY ONLY <1>17, <2>3, <4>1, <4>2
      <3> QED
        BY <3>1, <3>2
    <2>5. PICK j \in 1 .. (hb + PB) : j = hb + (x + k) /\ 9 - hb + j = 9 + x + k
      <3>1. /\ hb + (x + k) \in 1 .. (hb + PB)
            /\ 9 - hb + (hb + (x + k)) = 9 + x + k
        <4>1. x \in Nat
          BY <2>1
        <4> QED
          BY ONLY <1>17, <2>2, <2>4, <4>1, k \in 1 .. Len(Body(from[i]))
      <3> QED
        BY <3>1
    <2>6. w[j] = data[9 + x + k]
      BY <1>8, <2>5
    <2>7. data[9 + x + k] = Body(from[i])[k]
      <3>1. InPlace(block, i)
        BY <1>3
      <3> QED
        BY <1>1, <1>2, <1>7, <2>1, <3>1, Config, Zenon DEF InPlace
    <2> QED
      BY <2>1, <2>4, <2>5, <2>6, <2>7
  <1>11. \A j \in 1 .. (hb + PB) : w[j] \in Byte
    <2> TAKE j \in 1 .. (hb + PB)
    <2>1. CASE j <= hb
      <3>1. j \in 1 .. hb /\ j \in 1 .. Len(e)
        BY ONLY <1>17, <2>1, j \in 1 .. (hb + PB)
      <3> QED
        BY <1>9, <3>1
    <2>2. CASE j > hb
      <3>1. PICK m \in Nat : m = j - hb - 1 /\ m < PB
        BY ONLY <1>17, <2>2, j \in 1 .. (hb + PB)
      <3>2. m < (n - 1) * F + L
        BY <1>6, <3>1
      <3>3. PICK i \in 0 .. (n - 1), r \in 0 .. (F - 1) :
              m = i * F + r /\ (i = n - 1 => r < L)
        <4>1. F \in Nat \ {0} /\ L \in 0 .. F /\ n \in Nat \ {0} /\ m \in Nat
          BY <1>17, <3>1
        <4> QED
          <5>1. Within(m, F, n, L)
            BY <3>2, <4>1, Located
          <5> QED
            BY Zenon, <5>1 DEF Within
      <3>4. PICK k \in Nat : k = r + 1 /\ k \in 1 .. Len(Body(from[i]))
        <4>1. r \in 0 .. (F - 1) /\ (i = n - 1 => r < L)
          BY <3>3
        <4>2. Len(Body(from[i])) = F \/ (i = n - 1 /\ Len(Body(from[i])) = L)
          <5>1. CASE i < n - 1
            BY <1>4, <5>1
          <5>2. CASE i = n - 1
            BY Zenon, <1>6, <5>2
          <5> QED
            BY <5>1, <5>2
        <4> QED
          BY ONLY <1>17, <4>1, <4>2
      <3>5. PICK x \in Int : x = i * F
        BY <3>3
      <3>6. j = hb + (x + k)
        <4>1. m = j - hb - 1 /\ m = x + r /\ k = r + 1
          BY Zenon, <3>1, <3>3, <3>4, <3>5
        <4> QED
          BY ONLY <4>1, <1>17, j \in 1 .. (hb + PB), x \in Int, r \in 0 .. (F - 1)
      <3>7. w[j] = Body(from[i])[k]
        BY <1>10, <3>4, <3>5, <3>6
      <3> QED
        BY <1>4, <3>4, <3>7
    <2> QED
      BY <1>5, <2>1, <2>2
  <1>12. w \in Seq(Byte) /\ Len(w) = hb + PB
    <2>1. hb + PB \in Nat
      BY ONLY <1>17
    <2>2. w \in [1 .. (hb + PB) -> Byte]
      BY <1>8, <1>11
    <2> QED
      BY <2>1, <2>2
  <1>13. ReadHeader(w) = ReadHeader(e) /\ HeaderBytes(w) = hb
    <2>1. HeaderBytes(e) <= Len(w) /\ \A k \in 1 .. HeaderBytes(e) : w[k] = e[k]
      BY <1>5, <1>6, <1>9, <1>12
    <2> QED
      BY <1>5, <1>12, <2>1, SameHeader
  <1>14. ArrivedHeader(from[0]) = ReadHeader(e)
    <2>1. from[0][1] = 1
      BY <1>3 DEF PieceOK, ReadableFragment, FragmentBit
    <2> QED
      BY <1>5, <2>1, FragmentMark DEF ArrivedHeader
  <1>15. PICK payload \in Seq(Byte) :
           /\ payload = Payload(w) /\ Len(payload) = PB
           /\ \A k \in 1 .. PB : payload[k] = w[hb + k]
    <2>1. hb \in Nat /\ hb <= Len(w) /\ Len(w) - hb = PB
      BY ONLY <1>17, <1>12
    <2> QED
      BY <1>12, <1>13, <2>1, AfterValue, ZenonT(30) DEF Payload
  <1>16. Spread(payload, from, n)
    <2>1. Len(payload) = (n - 1) * FragmentSize + Len(Body(from[n - 1]))
      BY <1>1, <1>6, <1>15
    <2>2. \A i \in 0 .. (n - 1) : \A k \in 1 .. Len(Body(from[i])) :
            payload[i * FragmentSize + k] = Body(from[i])[k]
      BY <1>1, <1>10, <1>15
    <2> QED
      BY <1>1, <1>4, <2>1, <2>2, Zenon DEF Spread
  <1> QED
    BY <1>2, <1>12, <1>13, <1>14, <1>15, <1>16 DEF Assembled, w
-----------------------------------------------------------------------------
(* Bodies one after the other                                              *)

\* Sequences with the same elements.
LEMMA SequenceEqual ==
  \A u, v \in Seq(Byte) :
    Len(u) = Len(v) /\ (\A k \in 1 .. Len(u) : u[k] = v[k]) => u = v
  OBVIOUS

\* The first m elements.
UpTo(whole, m) == [k \in 1 .. m |-> whole[k]]

LEMMA UpToValue ==
  ASSUME NEW whole \in Seq(Byte), NEW m \in 0 .. Len(whole)
  PROVE  /\ UpTo(whole, m) \in Seq(Byte)
         /\ Len(UpTo(whole, m)) = m
         /\ \A k \in 1 .. m : UpTo(whole, m)[k] = whole[k]
  <1>1. UpTo(whole, m) \in [1 .. m -> Byte]
    BY DEF UpTo
  <1> QED
    BY <1>1 DEF UpTo

\* The elements from m on are those of the part that comes next.
LEMMA UpToNext ==
  ASSUME NEW whole \in Seq(Byte), NEW m \in Nat, NEW p \in Seq(Byte), NEW q \in 0 .. Len(whole),
         q = m + Len(p), \A k \in 1 .. Len(p) : whole[m + k] = p[k]
  PROVE  UpTo(whole, q) = UpTo(whole, m) \o p
  <1>1. PICK l \in Nat : l = Len(p) /\ q = m + l /\ m \in 0 .. Len(whole)
    BY Len(p) \in Nat
  <1>2. PICK u \in Seq(Byte) :
          u = UpTo(whole, q) /\ Len(u) = q /\ \A k \in 1 .. q : u[k] = whole[k]
    BY UpToValue
  <1>3. PICK v \in Seq(Byte) :
          v = UpTo(whole, m) /\ Len(v) = m /\ \A k \in 1 .. m : v[k] = whole[k]
    BY <1>1, UpToValue
  <1>4. PICK t \in Seq(Byte) :
          /\ t = v \o p /\ Len(t) = m + l
          /\ \A k \in 1 .. m : t[k] = v[k]
          /\ \A k \in 1 .. l : t[m + k] = p[k]
    <2>1. PICK t \in Seq(Byte) :
            /\ t = v \o p /\ Len(t) = Len(v) + Len(p)
            /\ \A k \in 1 .. Len(v) : t[k] = v[k]
            /\ \A k \in 1 .. Len(p) : t[Len(v) + k] = p[k]
      BY <1>3, Joined
    <2>2. Len(v) = m /\ Len(p) = l
      BY <1>1, <1>3
    <2>3. Len(t) = m + l
      BY <2>1, <2>2
    <2>4. \A k \in 1 .. m : t[k] = v[k]
      BY <2>1, <2>2
    <2>5. \A k \in 1 .. l : t[m + k] = p[k]
      BY <2>1, <2>2
    <2> QED
      BY Zenon, <2>1, <2>3, <2>4, <2>5
  <1>5. ASSUME NEW k \in 1 .. q
        PROVE  u[k] = t[k]
    <2>1. CASE k <= m
      <3>1. k \in 1 .. m
        BY <1>1, <2>1
      <3> QED
        BY <1>2, <1>3, <1>4, <3>1
    <2>2. CASE k > m
      <3>1. PICK j \in 1 .. l : k = m + j
        <4>1. k - m \in 1 .. l /\ k = m + (k - m)
          BY <1>1, <2>2
        <4> QED
          BY <4>1
      <3>2. whole[m + j] = p[j]
        BY <1>1, <3>1
      <3> QED
        BY <1>2, <1>4, <3>1, <3>2
    <2> QED
      BY <1>1, <2>1, <2>2
  <1>6. u = t
    <2>1. Len(u) = Len(t) /\ \A k \in 1 .. Len(u) : u[k] = t[k]
      BY <1>1, <1>2, <1>4, <1>5
    <2>2. u \in Seq(Byte) /\ t \in Seq(Byte)
      BY <1>2, <1>4
    <2> HIDE DEF UpTo
    <2> QED
      BY ONLY <2>1, <2>2, SequenceEqual
  <1> QED
    BY <1>2, <1>3, <1>4, <1>6

\* whole is n parts one after the other; part i ends at at[i].
InARow(whole, parts, n, at) ==
  /\ whole \in Seq(Byte)
  /\ DOMAIN parts = 1 .. n /\ Len(parts) = n
  /\ at[0] = 0 /\ at[n] = Len(whole)
  /\ \A i \in 0 .. n : at[i] \in 0 .. Len(whole)
  /\ \A i \in 1 .. n :
       /\ parts[i] \in Seq(Byte) /\ at[i] = at[i - 1] + Len(parts[i])
       /\ \A k \in 1 .. Len(parts[i]) : whole[at[i - 1] + k] = parts[i][k]

\* Put one after the other, the parts are the whole.
LEMMA Flattened ==
  ASSUME NEW n \in Nat \ {0}, NEW whole, NEW parts, NEW at, InARow(whole, parts, n, at)
  PROVE  Ext!FlattenSeq(parts) = whole
  <1>0. whole \in Seq(Byte) /\ Len(parts) = n /\ DOMAIN parts = 1 .. n
    BY DEF InARow
  <1> DEFINE Up(i) == UpTo(whole, at[i])
  <1>1. \A i \in 1 .. n : Up(i) = (IF i = 1 THEN parts[i] ELSE Up(i - 1) \o parts[i])
    <2> TAKE i \in 1 .. n
    <2>1. PICK m \in Nat, q \in 0 .. Len(whole), p \in Seq(Byte) :
            /\ m = at[i - 1] /\ q = at[i] /\ p = parts[i] /\ q = m + Len(p)
            /\ \A k \in 1 .. Len(p) : whole[m + k] = p[k]
      <3>1. i - 1 \in 0 .. n /\ i \in 0 .. n
        OBVIOUS
      <3>2. /\ at[i - 1] \in 0 .. Len(whole) /\ at[i] \in 0 .. Len(whole)
            /\ parts[i] \in Seq(Byte) /\ at[i] = at[i - 1] + Len(parts[i])
            /\ \A k \in 1 .. Len(parts[i]) : whole[at[i - 1] + k] = parts[i][k]
        BY Zenon, <3>1 DEF InARow
      <3>3. at[i - 1] \in Nat
        BY <1>0, <3>2
      <3> QED
        BY Zenon, <3>2, <3>3
    <2>2. UpTo(whole, q) = UpTo(whole, m) \o p
      BY <1>0, <2>1, UpToNext, ZenonT(30)
    <2>3. CASE i = 1
      <3>1. m = 0
        BY <2>1, <2>3 DEF InARow
      <3>2. UpTo(whole, m) = << >>
        BY <3>1 DEF UpTo
      <3>3. << >> \o p = p
        BY <2>1
      <3> QED
        BY <2>1, <2>2, <2>3, <3>2, <3>3
    <2>4. CASE i # 1
      BY <2>1, <2>2, <2>4
    <2> QED
      BY <2>3, <2>4
  <1> HIDE DEF Up
  <1> DEFINE g == [i \in 1 .. n |-> Up(i)]
             R(f) == [i \in 1 .. n |-> IF i = 1 THEN parts[i] ELSE f[i - 1] \o parts[i]]
             flat == CHOOSE f : f = R(f)
  <1>2. g = R(g)
    <2>1. \A i \in 1 .. n : i # 1 => i - 1 \in 1 .. n
      OBVIOUS
    <2>2. \A i \in 1 .. n : g[i] = Up(i)
      OBVIOUS
    <2>3. \A i \in 1 .. n : g[i] = (IF i = 1 THEN parts[i] ELSE g[i - 1] \o parts[i])
      BY Zenon, <1>1, <2>1, <2>2
    <2>4. g = [i \in 1 .. n |-> g[i]]
      OBVIOUS
    <2> HIDE DEF g
    <2> QED
      BY <2>3, <2>4
  <1>3. flat = R(flat)
    BY Zenon, <1>2
  <1>4. Ext!FlattenSeq(parts) = flat[n]
    BY <1>0 DEF Ext!FlattenSeq
  <1> HIDE DEF flat
  <1>5. \A i \in 1 .. n : flat[i] = (IF i = 1 THEN parts[i] ELSE flat[i - 1] \o parts[i])
    BY <1>3
  <1> DEFINE T == {i \in Nat : i + 1 \in 1 .. n => flat[i + 1] = Up(i + 1)}
  <1>6. 0 \in T
    <2>1. 1 \in 1 .. n /\ 0 + 1 = 1
      OBVIOUS
    <2>2. flat[1] = Up(1)
      BY Zenon, <1>1, <1>5, <2>1
    <2> QED
      BY <2>1, <2>2
  <1>7. ASSUME NEW i \in Nat, i \in T
        PROVE  i + 1 \in T
    <2>1. CASE i + 2 \in 1 .. n
      <3>1. PICK j \in 1 .. n, l \in 1 .. n : j = i + 2 /\ j # 1 /\ l = i + 1 /\ l = j - 1
        BY <2>1
      <3>2. flat[l] = Up(l)
        BY <1>7, <3>1
      <3>3. flat[j] = flat[l] \o parts[j] /\ Up(j) = Up(l) \o parts[j]
        BY Zenon, <1>1, <1>5, <3>1
      <3>4. flat[j] = Up(j)
        BY Zenon, <3>2, <3>3
      <3>5. (i + 1) + 1 = j
        BY <3>1
      <3> QED
        BY <3>4, <3>5
    <2>2. CASE i + 2 \notin 1 .. n
      <3>1. (i + 1) + 1 = i + 2
        OBVIOUS
      <3> QED
        BY <2>2, <3>1
    <2> QED
      BY <2>1, <2>2
  <1>8. Nat \subseteq T
    <2> HIDE DEF T
    <2> QED
      BY <1>6, <1>7, NatSetInduction
  <1>9. flat[n] = Up(n)
    <2>1. n - 1 \in Nat /\ (n - 1) + 1 = n
      OBVIOUS
    <2>2. n - 1 \in T
      BY <1>8, <2>1
    <2> QED
      BY <2>1, <2>2
  <1>10. Up(n) = whole
    <2>1. PICK l \in 0 .. Len(whole) : l = Len(whole) /\ l = at[n]
      BY <1>0 DEF InARow
    <2>2. PICK u \in Seq(Byte) :
            u = UpTo(whole, l) /\ Len(u) = l /\ \A k \in 1 .. l : u[k] = whole[k]
      BY <1>0, UpToValue
    <2>3. u = whole
      <3>1. Len(u) = Len(whole) /\ \A k \in 1 .. Len(u) : u[k] = whole[k]
        BY <2>1, <2>2
      <3>2. u \in Seq(Byte)
        BY <2>2
      <3> QED
        BY <1>0, <3>1, <3>2, SequenceEqual
    <2> QED
      BY <2>1, <2>2, <2>3 DEF Up
  <1> QED
    BY <1>4, <1>9, <1>10
\* So a payload that is spread over packets is their bodies one after the other.
LEMMA SpreadFlattened ==
  ASSUME NEW payload, NEW from, NEW n \in Nat \ {0}, Spread(payload, from, n)
  PROVE  payload = Ext!FlattenSeq([k \in 1 .. n |-> Body(from[k - 1])])
  <1> DEFINE parts == [k \in 1 .. n |-> Body(from[k - 1])]
  <1>1. PICK F \in Nat : F = FragmentSize
    BY Config
  <1>2. PICK at : at = [i \in 0 .. n |-> IF i = n THEN Len(payload) ELSE i * F]
    OBVIOUS
  <1>3. /\ payload \in Seq(Byte)
        /\ Len(payload) = (n - 1) * F + Len(Body(from[n - 1]))
        /\ \A i \in 0 .. (n - 1) :
             /\ Body(from[i]) \in Seq(Byte)
             /\ i < n - 1 => Len(Body(from[i])) = F
             /\ \A k \in 1 .. Len(Body(from[i])) : payload[i * F + k] = Body(from[i])[k]
    BY <1>1 DEF Spread
  <1>4. \A i \in 1 .. n : i - 1 \in 0 .. (n - 1) /\ parts[i] = Body(from[i - 1])
    OBVIOUS
  <1>5. Len(parts) = n /\ DOMAIN parts = 1 .. n
    <2>1. \A i \in 1 .. n : parts[i] \in Seq(Byte)
      BY <1>3, <1>4
    <2>2. parts \in [1 .. n -> Seq(Byte)]
      BY <2>1
    <2> HIDE DEF parts
    <2> QED
      BY <2>2
  <1> HIDE DEF parts
  <1>6. PICK y \in Nat, L \in Nat :
          y = (n - 1) * F /\ L = Len(Body(from[n - 1])) /\ Len(payload) = y + L
    <2>1. n - 1 \in Nat /\ n - 1 \in 0 .. (n - 1)
      OBVIOUS
    <2>2. (n - 1) * F \in Nat
      BY <2>1, ProductNat
    <2>3. Body(from[n - 1]) \in Seq(Byte)
      BY <1>3, <2>1
    <2>4. Len(Body(from[n - 1])) \in Nat
      BY <2>3
    <2> QED
      BY <1>3, <2>2, <2>4
  <1>7. at[0] = 0 /\ at[n] = Len(payload)
    <2>1. 0 \in 0 .. n /\ n \in 0 .. n /\ 0 # n /\ 0 * F = 0
      OBVIOUS
    <2> QED
      BY <1>2, <2>1
  <1>8. ASSUME NEW i \in 0 .. n
        PROVE  at[i] \in 0 .. Len(payload)
    <2>1. CASE i = n
      BY <1>2, <1>6, <2>1
    <2>2. CASE i # n
      <3>1. PICK j \in Int : j = n - 1 /\ i \in Nat /\ i <= j
        BY <2>2
      <3>2. PICK x \in Nat : x = i * F
        BY <3>1, ProductNat
      <3>3. x <= y
        <4>1. CASE i = j
          BY <1>6, <3>1, <3>2, <4>1
        <4>2. CASE i < j
          <5>1. i * F + F <= j * F
            BY <3>1, <4>2, Apart
          <5>2. x + F <= y
            BY <1>6, <3>1, <3>2, <5>1
          <5> QED
            BY <5>2
        <4> QED
          BY <3>1, <4>1, <4>2
      <3>4. at[i] = x
        BY <1>2, <2>2, <3>2
      <3> QED
        BY <1>6, <3>3, <3>4
    <2> QED
      BY <2>1, <2>2
  <1>9. ASSUME NEW i \in 1 .. n
        PROVE  /\ parts[i] \in Seq(Byte)
               /\ at[i - 1] = (i - 1) * F
               /\ at[i] = at[i - 1] + Len(parts[i])
               /\ \A k \in 1 .. Len(parts[i]) : payload[at[i - 1] + k] = parts[i][k]
    <2>1. PICK j \in 0 .. (n - 1) : j = i - 1 /\ parts[i] = Body(from[j]) /\ j \in 0 .. n /\ j # n
      BY <1>4
    <2>2. parts[i] \in Seq(Byte)
      BY <1>3, <2>1
    <2>3. at[j] = j * F
      BY <1>2, <2>1
    <2>4. at[i] = at[j] + Len(parts[i])
      <3>1. CASE i = n
        <4>1. at[i] = y + L /\ Len(parts[i]) = L /\ at[j] = y
          BY <1>6, <1>7, <2>1, <2>3, <3>1
        <4> QED
          BY <4>1
      <3>2. CASE i # n
        <4>1. i \in 0 .. n /\ j < n - 1
          BY <2>1, <3>2
        <4>2. at[i] = i * F /\ Len(parts[i]) = F
          BY <1>2, <1>3, <2>1, <3>2, <4>1
        <4>3. i * F = j * F + F
          <5>1. i = j + 1
            BY <2>1
          <5> QED
            BY <5>1
        <4> QED
          BY <2>3, <4>2, <4>3
      <3> QED
        BY <3>1, <3>2
    <2> QED
      BY <1>3, <2>1, <2>2, <2>3, <2>4
  <1>10. InARow(payload, parts, n, at)
    BY <1>3, <1>5, <1>7, <1>8, <1>9, Zenon DEF InARow
  <1>11. Ext!FlattenSeq(parts) = payload
    BY <1>10, Flattened
  <1> QED
    BY <1>11 DEF parts

LEMMA TakenArrived ==
  (\A t \in taken : TakenOK(t)) => TakenAsArrived
  <1> SUFFICES ASSUME NEW t \in taken, TakenOK(t)
      PROVE  /\ t.header = ArrivedHeader(t.from[0])
             /\ t.payload = Ext!FlattenSeq([k \in 1 .. Cardinality(DOMAIN t.from) |->
                                               Body(t.from[k - 1])])
    BY DEF TakenAsArrived
  <1>1. PICK n \in Nat \ {0} :
          /\ n = Cardinality(DOMAIN t.from)
          /\ t.header = ArrivedHeader(t.from[0])
          /\ Spread(t.payload, t.from, n)
    BY Zenon DEF TakenOK
  <1>2. t.payload = Ext!FlattenSeq([k \in 1 .. n |-> Body(t.from[k - 1])])
    BY <1>1, SpreadFlattened
  <1> QED
    BY Zenon, <1>1, <1>2

\* Whatever is stored is in place.
LEMMA AllInPlace ==
  (\A s \in DOMAIN blocks : BlockOK(blocks[s], s)) => StoredInPlace
  <1> SUFFICES ASSUME NEW s \in DOMAIN blocks, BlockOK(blocks[s], s),
                      NEW i \in DOMAIN blocks[s].pieces, NEW k \in DOMAIN Body(blocks[s].pieces[i])
      PROVE  /\ MaxHeaderBytes + i * FragmentSize + k \in DOMAIN blocks[s].packet_data
             /\ blocks[s].packet_data[MaxHeaderBytes + i * FragmentSize + k]
                  = Body(blocks[s].pieces[i])[k]
    BY DEF StoredInPlace
  <1>1. PICK block : block = blocks[s]
    OBVIOUS
  <1>2. PICK n \in Nat : n = block.num_fragments_total
    BY <1>1 DEF BlockOK, Shaped
  <1>13. PICK p : p = block.pieces[i]
    OBVIOUS
  <1>3. PieceOK(p, s, i, n) /\ InPlace(block, i)
    BY <1>1, <1>2, <1>13 DEF BlockOK
  <1>4. PICK hb \in Int : Dissected(p, i, n, hb)
    <2>1. p \in Seq(Byte) /\ ReadableFragment(p) /\ FragmentId(p) = i /\ NumFragments(p) = n
      BY <1>3 DEF PieceOK
    <2>2. PICK id \in Int, m \in Int, hb \in Int : Dissected(p, id, m, hb)
      BY <2>1, DissectedFragment
    <2> QED
      BY <2>1, <2>2 DEF Dissected
  <1>5. PICK F \in Nat : F = FragmentSize
    BY Config
  <1>6. i \in 0 .. (n - 1) /\ Body(p) \in Seq(Byte) /\ Len(Body(p)) <= F
    BY <1>4, <1>5 DEF Dissected
  <1>7. k \in 1 .. Len(Body(p)) /\ Len(Body(p)) \in Nat
    BY <1>1, <1>2, <1>13, <1>6
  <1>8. block.packet_data[MaxHeaderBytes + i * FragmentSize + k] = Body(p)[k]
    BY <1>2, <1>13, <1>3, <1>7 DEF InPlace
  <1>9. MaxHeaderBytes + i * FragmentSize + k \in 1 .. (MaxHeaderBytes + n * FragmentSize)
    <2>1. i \in Nat /\ i < n
      BY <1>6
    <2>2. PICK x \in Nat, z \in Nat : x = i * F /\ z = n * F
      BY <2>1, ProductNat
    <2>3. x + F <= z
      <3>1. i * F + F <= n * F
        BY <2>1, Apart
      <3> QED
        BY <2>2, <3>1
    <2>4. 9 + x + k \in 1 .. (9 + z)
      BY ONLY <1>6, <1>7, <2>2, <2>3, F \in Nat, SMTT(30)
    <2> QED
      BY <1>5, <2>2, <2>4, Config
  <1> QED
    BY <1>1, <1>2, <1>13, <1>8, <1>9 DEF BlockOK, Shaped
-----------------------------------------------------------------------------
(* What is sent                                                            *)

\* A send, and how many fragments its payload fills.
LEMMA SendValue ==
  ASSUME NEW send \in Sends
  PROVE  \E h \in Headers, p \in Seq(Byte) :
           /\ h = send.header /\ p = send.payload
           /\ Len(p) \in 1 .. MaxPacketSize
  <1>1. send.header \in Headers /\ send.payload \in Seq(Byte) /\ send.payload # << >>
        /\ Len(send.payload) <= MaxPacketSize /\ MaxPacketSize \in Nat
    BY CodecAssumption
  <1>2. Len(send.payload) \in Nat /\ Len(send.payload) # 0
    BY <1>1
  <1> QED
    BY <1>1, <1>2

LEMMA CountValue ==
  ASSUME NEW send \in Sends
  PROVE  \E c \in 1 .. MaxFragments, F \in Nat \ {0}, L \in Nat \ {0} :
           /\ c = FragmentCount(send.payload) /\ F = FragmentSize /\ L = Len(send.payload)
           /\ (c - 1) * F < L /\ L <= (c - 1) * F + F
  <1>1. PICK F \in Nat \ {0} : F = FragmentSize
    BY Config
  <1>2. PICK h \in Headers, p \in Seq(Byte) :
          h = send.header /\ p = send.payload /\ Len(p) \in 1 .. MaxPacketSize
    BY SendValue
  <1>3. PICK L \in Nat \ {0} : L = Len(send.payload) /\ L <= MaxPacketSize
    BY <1>2, CodecAssumption
  <1>4. PICK c \in Int, r \in 0 .. (F - 1) : c = (L + F - 1) \div F /\ L + F - 1 = F * c + r
    <2>1. L + F - 1 \in Int
      OBVIOUS
    <2>2. /\ L + F - 1 = F * ((L + F - 1) \div F) + ((L + F - 1) % F)
          /\ (L + F - 1) % F \in 0 .. (F - 1) /\ (L + F - 1) \div F \in Int
      BY <2>1, DivMod
    <2> QED
      BY <2>2
  <1>5. PICK x \in Int : x = (c - 1) * F /\ F * c = x + F
    <2>1. (c - 1) * F \in Int /\ F * c = (c - 1) * F + F
      OBVIOUS
    <2> QED
      BY <2>1
  <1>6. x < L /\ L <= x + F
    BY ONLY <1>4, <1>5, F \in Nat, L \in Nat
  <1>7. c >= 1
    <2> SUFFICES ASSUME c < 1 PROVE FALSE
      BY <1>4
    <2>1. PICK d \in Int : d = c - 1 /\ d < 0
      BY <1>4
    <2>2. d * F + F <= 0 * F
      BY <2>1, Apart
    <2>3. 0 * F = 0
      OBVIOUS
    <2>4. x + F <= 0
      BY <1>5, <2>1, <2>2, <2>3
    <2> QED
      BY ONLY <1>3, <1>6, <2>4, x \in Int, F \in Nat
  <1>8. c <= MaxFragments
    <2> SUFFICES ASSUME MaxFragments < c PROVE FALSE
      BY <1>4, Config
    <2>1. PICK M \in Nat, d \in Int : M = MaxFragments /\ d = c - 1 /\ M <= d
      <3>1. MaxFragments \in Nat /\ c - 1 \in Int /\ MaxFragments <= c - 1
        BY <1>4, Config
      <3> QED
        BY <3>1
    <2>2. PICK y \in Nat : y = M * F /\ L <= y
      <3>1. M * F \in Nat
        BY <2>1, ProductNat
      <3>2. M * F >= MaxPacketSize /\ MaxPacketSize \in Nat
        BY <1>1, <2>1, CodecAssumption
      <3> QED
        BY <1>3, <3>1, <3>2
    <2>3. y <= x
      <3>1. CASE M = d
        BY <1>5, <2>1, <2>2, <3>1
      <3>2. CASE M < d
        <4>1. M * F + F <= d * F
          BY <2>1, <3>2, Apart
        <4> QED
          BY <1>5, <2>1, <2>2, <4>1
      <3> QED
        BY <2>1, <3>1, <3>2
    <2> QED
      BY <1>6, <2>2, <2>3
  <1>9. c \in 1 .. MaxFragments
    BY <1>4, <1>7, <1>8, Config
  <1>10. c = FragmentCount(send.payload)
    BY <1>1, <1>3, <1>4 DEF FragmentCount
  <1> QED
    BY <1>1, <1>3, <1>5, <1>6, <1>9, <1>10

\* The bytes of fragment i of c.
IsSlice(b, p, i, c, F) ==
  /\ b \in Seq(Byte) /\ Len(b) \in 1 .. F
  /\ i < c - 1 => Len(b) = F
  /\ i = c - 1 => Len(p) = (c - 1) * F + Len(b)
  /\ Len(b) <= Len(p)
  /\ \A k \in 1 .. Len(b) : i * F + k \in 1 .. Len(p) /\ b[k] = p[i * F + k]

LEMMA SliceValue ==
  ASSUME NEW p \in Seq(Byte), NEW c \in Nat, NEW F \in Nat \ {0}, F = FragmentSize,
         (c - 1) * F < Len(p), Len(p) <= (c - 1) * F + F, NEW i \in 0 .. (c - 1)
  PROVE  IsSlice(Slice(p, i), p, i, c, F)
  <1>0. F \in Nat /\ F >= 1 /\ i \in 0 .. (c - 1) /\ c \in Nat
    OBVIOUS
  <1>1. PICK x \in Nat, y \in Nat, L \in Nat :
          /\ x = i * F /\ y = (c - 1) * F /\ L = Len(p) /\ (i + 1) * F = x + F
          /\ y < L /\ L <= y + F
    <2>1. i \in Nat /\ c - 1 \in Nat
      OBVIOUS
    <2>2. i * F \in Nat /\ (c - 1) * F \in Nat
      BY <2>1, ProductNat
    <2>3. (i + 1) * F = i * F + F
      OBVIOUS
    <2>4. Len(p) \in Nat
      OBVIOUS
    <2> QED
      BY Zenon, <2>2, <2>3, <2>4
  <1>10. /\ x \in Nat /\ y \in Nat /\ L \in Nat /\ F \in Nat /\ F >= 1
         /\ y < L /\ L <= y + F /\ i \in 0 .. (c - 1) /\ c \in Nat
    BY Zenon, <1>1, Config, <1>0
  <1>2. i < c - 1 => x + F <= y
    <2> HAVE i < c - 1
    <2>1. PICK j \in Int : j = c - 1 /\ i < j
      OBVIOUS
    <2>2. i * F + F <= j * F
      BY <2>1, Apart
    <2> QED
      BY <1>1, <2>1, <2>2
  <1>3. i = c - 1 => x = y
    BY <1>1
  <1>4. PICK e \in Nat :
          /\ e = (IF x + F > L THEN L ELSE x + F) /\ x < e /\ e <= L /\ e <= x + F
          /\ i < c - 1 => e = x + F
          /\ i = c - 1 => e = L
    <2>1. i < c - 1 \/ i = c - 1
      OBVIOUS
    <2>2. F \in Nat \ {0}
      OBVIOUS
    <2>3. \E e \in Nat : e = (IF x + F > L THEN L ELSE x + F)
      BY ONLY <1>10
    <2> QED
      BY ONLY <1>10, <1>2, <1>3, <2>1, <2>2, <2>3
  <1>5. Slice(p, i) = SubSeq(p, x + 1, e)
    BY <1>1, <1>4 DEF Slice
  <1>6. /\ SubSeq(p, x + 1, e) \in Seq(Byte) /\ Len(SubSeq(p, x + 1, e)) = e - x
        /\ \A k \in 1 .. (e - x) : SubSeq(p, x + 1, e)[k] = p[x + k]
    <2>1. e <= Len(p)
      BY Zenon, <1>1, <1>4
    <2>2. x \in Nat /\ e \in Nat /\ x < e
      BY <1>4, <1>10
    <2> QED
      BY <2>1, <2>2
  <1>7. PICK b \in Seq(Byte) :
          /\ b = Slice(p, i) /\ Len(b) = e - x /\ \A k \in 1 .. (e - x) : b[k] = p[x + k]
    BY <1>5, <1>6
  <1>8. /\ Len(b) \in 1 .. F /\ (i < c - 1 => Len(b) = F)
        /\ (i = c - 1 => L = y + Len(b)) /\ Len(b) <= L
        /\ \A k \in 1 .. Len(b) : x + k \in 1 .. L
    BY ONLY <1>10, <1>3, <1>4, <1>7
  <1>9. IsSlice(b, p, i, c, F)
    BY <1>1, <1>7, <1>8 DEF IsSlice
  <1> QED
    BY <1>7, <1>9
\* t is s, of m elements, and then f, of l elements.
IsJoined(t, s, f, m, l) ==
  /\ t \in Seq(Byte) /\ t = s \o f /\ Len(t) = m + l
  /\ \A k \in 1 .. m : t[k] = s[k]
  /\ \A k \in 1 .. l : t[m + k] = f[k]

LEMMA JoinedBy ==
  ASSUME NEW s \in Seq(Byte), NEW f \in Seq(Byte), NEW m \in Nat, NEW l \in Nat,
         m = Len(s), l = Len(f)
  PROVE  IsJoined(s \o f, s, f, m, l)
  <1>1. PICK t \in Seq(Byte) :
          /\ t = s \o f
          /\ Len(t) = Len(s) + Len(f)
          /\ \A k \in 1 .. Len(s) : t[k] = s[k]
          /\ \A k \in 1 .. Len(f) : t[Len(s) + k] = f[k]
    BY Joined
  <1> QED
    BY <1>1 DEF IsJoined

\* a is packet without its first m elements, of which l are left.
IsRest(a, packet, m, l) ==
  a \in Seq(Byte) /\ Len(a) = l /\ \A k \in 1 .. l : a[k] = packet[m + k]

LEMMA RestBy ==
  ASSUME NEW packet \in Seq(Byte), NEW m \in Nat, NEW l \in Nat, Len(packet) = m + l
  PROVE  IsRest(After(packet, m), packet, m, l)
  <1>1. m <= Len(packet) /\ Len(packet) - m = l
    OBVIOUS
  <1> QED
    BY <1>1, AfterValue DEF IsRest

\* What the reader makes of fragment i of c, which carries the bytes b.
IsFragment(f, h, i, c, b) ==
  /\ f \in Seq(Byte) /\ f[1] = FragmentBit
  /\ Len(f) \in 6 .. (FragmentHeaderBytes + MaxHeaderBytes + Len(b))
  /\ FragmentSequence(f) = h.sequence /\ FragmentId(f) = i /\ NumFragments(f) = c
  /\ Body(f) = b
  /\ i = 0 => ArrivedHeader(f) = h

\* The five bytes of a fragment header.
LEMMA FragmentHeaderValue ==
  ASSUME NEW s \in Seqs, NEW i \in Byte, NEW c \in Int, c - 1 \in Byte
  PROVE  \E fh \in Seq(Byte) :
           /\ fh = WriteFragmentHeader(s, i, c) /\ Len(fh) = 5
           /\ fh[1] = FragmentBit /\ fh[2] + 256 * fh[3] = s /\ fh[4] = i /\ fh[5] = c - 1
  <1>1. PICK u \in Seq(Byte) : u = WriteUint16(s) /\ Len(u) = 2 /\ u[1] + 256 * u[2] = s
    BY Uint16Value
  <1>2. FragmentBit \in Byte
    BY DEF FragmentBit, Byte
  <1>3. PICK one \in Seq(Byte) : one = <<FragmentBit>> /\ Len(one) = 1 /\ one[1] = FragmentBit
    BY <1>2, <<FragmentBit>> \in Seq(Byte)
  <1>4. PICK two \in Seq(Byte) :
          two = <<i, c - 1>> /\ Len(two) = 2 /\ two[1] = i /\ two[2] = c - 1
    BY <<i, c - 1>> \in Seq(Byte)
  <1>5. PICK t \in Seq(Byte) :
          /\ t = one \o u /\ Len(t) = Len(one) + Len(u)
          /\ \A k \in 1 .. Len(one) : t[k] = one[k]
          /\ \A k \in 1 .. Len(u) : t[Len(one) + k] = u[k]
    BY Joined, ZenonT(30)
  <1>6. Len(t) = 3 /\ t[1] = FragmentBit /\ t[2] = u[1] /\ t[3] = u[2]
    BY <1>1, <1>3, <1>5
  <1>7. PICK w \in Seq(Byte) :
          /\ w = t \o two /\ Len(w) = Len(t) + Len(two)
          /\ \A k \in 1 .. Len(t) : w[k] = t[k]
          /\ \A k \in 1 .. Len(two) : w[Len(t) + k] = two[k]
    BY Joined
  <1>8. Len(w) = 5 /\ w[1] = FragmentBit /\ w[2] = u[1] /\ w[3] = u[2]
        /\ w[4] = i /\ w[5] = c - 1
    BY <1>4, <1>6, <1>7
  <1>9. w = WriteFragmentHeader(s, i, c)
    BY Zenon, <1>1, <1>3, <1>4, <1>5, <1>7 DEF WriteFragmentHeader
  <1> QED
    BY <1>1, <1>8, <1>9

LEMMA FragmentValue ==
  ASSUME NEW send \in Sends, NEW c \in 1 .. MaxFragments, c = FragmentCount(send.payload),
         NEW i \in 0 .. (c - 1), NEW b \in Seq(Byte), b = Slice(send.payload, i), Len(b) \in Nat \ {0}
  PROVE  IsFragment(Fragment(send, i), send.header, i, c, b)
  <1>1. PICK h \in Headers : h = send.header
    BY SendValue
  <1>2. PICK fh \in Seq(Byte) :
          /\ fh = WriteFragmentHeader(h.sequence, i, c) /\ Len(fh) = 5
          /\ fh[1] = FragmentBit /\ fh[2] + 256 * fh[3] = h.sequence
          /\ fh[4] = i /\ fh[5] = c - 1
    <2>1. i \in Byte /\ c - 1 \in Byte /\ c \in Int
      <3>1. i \in Int /\ i >= 0 /\ i <= 255 /\ c \in Int /\ c - 1 >= 0 /\ c - 1 <= 255
        BY Config
      <3> QED
        BY ONLY <3>1 DEF Byte
    <2>2. h.sequence \in Seqs
      BY DEF Headers
    <2> QED
      BY <2>1, <2>2, FragmentHeaderValue, SMTT(30)
  <1>3. /\ WriteHeader(h) \in Seq(Byte) /\ Len(WriteHeader(h)) \in 4 .. 9
        /\ WriteHeader(h) \o b \in Seq(Byte)
        /\ ReadHeader(WriteHeader(h) \o b) = h
        /\ HeaderBytes(WriteHeader(h) \o b) = Len(WriteHeader(h))
    BY HeaderRoundTrip, Config
  <1>18. PICK head \in Seq(Byte) :
           /\ head = (IF i = 0 THEN WriteHeader(h) ELSE << >>)
           /\ Len(head) \in 0 .. 9 /\ (i # 0 => Len(head) = 0)
    <2>1. CASE i = 0
      <3>1. Len(WriteHeader(h)) \in 0 .. 9
        <4>1. PICK x \in 4 .. 9 : x = Len(WriteHeader(h))
          BY Zenon, <1>3
        <4>2. x \in 0 .. 9
          BY ONLY x \in 4 .. 9
        <4> QED
          BY Zenon, <4>1, <4>2
      <3> QED
        BY Zenon, <1>3, <2>1, <3>1
    <2>2. CASE i # 0
      <3>1. << >> \in Seq(Byte) /\ Len(<< >>) = 0 /\ 0 \in 0 .. 9
        OBVIOUS
      <3> QED
        BY Zenon, <2>2, <3>1
    <2> QED
      BY <2>1, <2>2
  <1>4. PICK hb \in Nat :
          /\ head = (IF i = 0 THEN WriteHeader(h) ELSE << >>) /\ hb = Len(head) /\ hb \in 0 .. 9
          /\ i # 0 => hb = 0
    <2>1. Len(head) \in Nat
      BY <1>18
    <2> QED
      BY Zenon, <1>18, <2>1
  <1>6. PICK l \in Nat \ {0} : l = Len(b)
    OBVIOUS
  <1>5. PICK t \in Seq(Byte) : t = fh \o head /\ IsJoined(t, fh, head, 5, hb)
    <2>1. 5 \in Nat /\ 5 = Len(fh)
      BY <1>2
    <2>2. IsJoined(fh \o head, fh, head, 5, hb)
      BY Zenon, <1>2, <1>4, <2>1, JoinedBy
    <2> QED
      BY <2>2 DEF IsJoined
  <1>17. PICK th \in Nat : th = 5 + hb /\ th = Len(t) /\ th \in 5 .. 14
    <2>1. Len(t) = 5 + hb
      BY <1>5 DEF IsJoined
    <2>2. hb \in 0 .. 9
      BY <1>4
    <2> QED
      BY ONLY <2>1, <2>2
  <1>7. PICK f \in Seq(Byte) : f = t \o b /\ IsJoined(f, t, b, th, l)
    <2>1. IsJoined(t \o b, t, b, th, l)
      BY Zenon, <1>5, <1>6, <1>17, JoinedBy
    <2> QED
      BY <2>1 DEF IsJoined
  <1>8. f = Fragment(send, i)
    BY Zenon, <1>1, <1>2, <1>4, <1>5, <1>7 DEF Fragment
  <1>9. f[1] = FragmentBit /\ f[2] = fh[2] /\ f[3] = fh[3] /\ f[4] = i /\ f[5] = c - 1
    <2>1. \A k \in 1 .. 5 : f[k] = fh[k]
      <3> TAKE k \in 1 .. 5
      <3>1. k \in 1 .. th
        BY <1>17
      <3> QED
        BY <1>5, <1>7, <3>1 DEF IsJoined
    <2> QED
      BY <1>2, <2>1, SMTT(30)
  <1>10. FragmentSequence(f) = h.sequence /\ FragmentId(f) = i /\ NumFragments(f) = c
    <2>1. c \in Int
      OBVIOUS
    <2> QED
      BY <1>2, <1>9, <2>1, SMTT(30) DEF FragmentSequence, ReadUint16, FragmentId, NumFragments
  <1>11. PICK e \in Seq(Byte), el \in Nat :
           e = Embedded(f) /\ el = hb + l /\ IsRest(e, f, 5, el)
    <2>1. PICK el \in Nat : el = hb + l
      BY ONLY <1>6, hb \in Nat
    <2>2. 5 \in Nat /\ Len(f) = 5 + el
      BY ONLY <1>4, <1>6, <1>17, <2>1, <1>7 DEF IsJoined
    <2>3. IsRest(After(f, 5), f, 5, el)
      BY Zenon, <1>7, <2>1, <2>2, RestBy
    <2> QED
      BY <2>1, <2>3, Config DEF Embedded, IsRest
  <1>12. ASSUME i = 0
         PROVE  e = WriteHeader(h) \o b
    <2>1. PICK w \in Seq(Byte) : w = head \o b /\ IsJoined(w, head, b, hb, l)
      <3>1. IsJoined(head \o b, head, b, hb, l)
        BY Zenon, <1>4, <1>6, JoinedBy
      <3> QED
        BY <3>1 DEF IsJoined
    <2>2. ASSUME NEW k \in 1 .. el
          PROVE  e[k] = w[k]
      <3>1. e[k] = f[5 + k]
        BY <1>11 DEF IsRest
      <3>2. CASE k <= hb
        <4>1. k \in 1 .. hb /\ 5 + k \in 1 .. th
          BY ONLY <1>4, <1>17, <3>2, <1>11
        <4>2. f[5 + k] = t[5 + k]
          BY Zenon, <1>7, <4>1 DEF IsJoined
        <4>3. t[5 + k] = head[k]
          BY Zenon, <1>5, <4>1 DEF IsJoined
        <4>4. w[k] = head[k]
          BY Zenon, <2>1, <4>1 DEF IsJoined
        <4> QED
          BY <3>1, <4>2, <4>3, <4>4
      <3>3. CASE k > hb
        <4>1. PICK j \in 1 .. l : k = hb + j /\ 5 + k = th + j
          <5>1. k - hb \in 1 .. l /\ k = hb + (k - hb) /\ 5 + k = th + (k - hb)
            <6>1. hb \in Nat /\ l \in Nat /\ el = hb + l /\ th = 5 + hb
              BY <1>6, <1>11, <1>17
            <6> QED
              BY ONLY <6>1, <3>3, k \in 1 .. el
          <5> QED
            BY <5>1
        <4>2. f[th + j] = b[j]
          BY Zenon, <1>7, <4>1 DEF IsJoined
        <4>3. w[hb + j] = b[j]
          BY Zenon, <2>1, <4>1 DEF IsJoined
        <4> QED
          BY <3>1, <4>1, <4>2, <4>3
      <3> QED
        BY <1>4, <3>2, <3>3
    <2>3. e = w
      <3>1. Len(e) = el /\ Len(w) = el
        BY <1>11, <2>1 DEF IsRest, IsJoined
      <3> QED
        BY <1>11, <2>1, <2>2, <3>1, SequenceEqual
    <2> QED
      BY <1>4, <1>12, <2>1, <2>3
  <1>13. EmbeddedBytes(f) = hb
    <2>1. CASE i = 0
      BY <1>3, <1>4, <1>10, <1>11, <1>12, <2>1 DEF EmbeddedBytes
    <2>2. CASE i # 0
      BY <1>4, <1>10, <2>2 DEF EmbeddedBytes
    <2> QED
      BY <2>1, <2>2
  <1>14. Body(f) = b
    <2>1. Body(f) = After(f, th)
      BY <1>9, <1>13, <1>17, FragmentMark, Config DEF Body, FragmentBit
    <2>2. Len(f) = th + l
      BY <1>7 DEF IsJoined
    <2>3. IsRest(After(f, th), f, th, l)
      BY <1>7, <2>2, RestBy
    <2>4. PICK a \in Seq(Byte) : a = After(f, th) /\ IsRest(a, f, th, l)
      BY <2>3 DEF IsRest
    <2>5. \A k \in 1 .. l : a[k] = b[k]
      BY <1>7, <2>4 DEF IsRest, IsJoined
    <2>6. Len(a) = l
      BY <2>4 DEF IsRest
    <2>7. a = b
      BY <1>6, <2>5, <2>6, SequenceEqual
    <2> QED
      BY <2>1, <2>4, <2>7
  <1>15. i = 0 => ArrivedHeader(f) = h
    BY <1>3, <1>9, <1>11, <1>12, FragmentMark DEF ArrivedHeader, FragmentBit
  <1>16. Len(f) \in 6 .. (FragmentHeaderBytes + MaxHeaderBytes + Len(b))
    <2>1. Len(f) = th + l
      BY <1>7 DEF IsJoined
    <2>2. Len(f) \in 6 .. (5 + 9 + l)
      BY <1>17, <2>1
    <2> QED
      BY <1>6, <2>2, Config
  <1> QED
    BY <1>1, <1>7, <1>8, <1>9, <1>10, <1>14, <1>15, <1>16 DEF IsFragment
\* A payload sent whole: what the reader makes of the packet.
IsWhole(w, h, p) ==
  /\ w \in Seq(Byte) /\ Len(w) \in 4 .. (MaxHeaderBytes + Len(p))
  /\ ~HasBit(w[1], FragmentBit)
  /\ ReadHeader(w) = h /\ Payload(w) = p

\* Members of an interval above 0 are natural numbers.
LEMMA NatInterval == \A n \in Nat : \A c \in 1 .. n : c \in Nat
  OBVIOUS

LEMMA WholeValue ==
  ASSUME NEW h \in Headers, NEW p \in Seq(Byte)
  PROVE  IsWhole(WriteHeader(h) \o p, h, p)
  <1>1. PICK w \in Seq(Byte), head \in Seq(Byte) :
          /\ head = WriteHeader(h) /\ w = head \o p
          /\ Readable(w) /\ ReadHeader(w) = h /\ HeaderBytes(w) = Len(head) /\ Len(head) \in 4 .. 9
    BY HeaderRoundTrip, Config
  <1>2. PICK hb \in Nat, l \in Nat : hb = Len(head) /\ l = Len(p) /\ hb \in 4 .. 9
    <2>1. Len(head) \in Nat /\ Len(p) \in Nat
      BY <1>1
    <2> QED
      BY Zenon, <1>1, <2>1
  <1>3. IsJoined(w, head, p, hb, l)
    <2>1. IsJoined(head \o p, head, p, hb, l)
      BY Zenon, <1>1, <1>2, JoinedBy
    <2> QED
      BY Zenon, <1>1, <2>1
  <1>4. Len(w) = hb + l
    BY <1>3 DEF IsJoined
  <1>5. PICK a \in Seq(Byte) : a = After(w, hb) /\ IsRest(a, w, hb, l)
    <2>1. IsRest(After(w, hb), w, hb, l)
      BY Zenon, <1>1, <1>2, <1>4, RestBy
    <2> QED
      BY <2>1 DEF IsRest
  <1>6. a = p
    <2>1. Len(a) = l /\ Len(p) = l /\ \A k \in 1 .. l : a[k] = p[k]
      BY <1>2, <1>3, <1>5 DEF IsRest, IsJoined
    <2> QED
      BY <1>5, <2>1, SequenceEqual
  <1>7. Payload(w) = p
    BY Zenon, <1>1, <1>2, <1>5, <1>6 DEF Payload
  <1>8. Len(w) \in 4 .. (MaxHeaderBytes + Len(p))
    <2>1. hb + l \in 4 .. (9 + l)
      <3>1. hb \in 4 .. 9
        BY Zenon, <1>2
      <3> QED
        BY ONLY <3>1, l \in Nat
    <2> QED
      BY Zenon, <1>2, <1>4, <2>1, Config
  <1> QED
    BY Zenon, <1>1, <1>7, <1>8 DEF IsWhole, Readable

\* The packets of a send.
LEMMA WrittenValue ==
  ASSUME NEW send \in Sends, NEW packet \in Written(send)
  PROVE  \/ /\ packet = WriteHeader(send.header) \o send.payload
            /\ IsWhole(packet, send.header, send.payload)
         \/ \E c \in 1 .. MaxFragments : \E i \in 0 .. (c - 1), b \in Seq(Byte) :
              /\ c = FragmentCount(send.payload) /\ packet = Fragment(send, i)
              /\ IsFragment(packet, send.header, i, c, b)
              /\ IsSlice(b, send.payload, i, c, FragmentSize)
  <1>1. PICK h \in Headers, p \in Seq(Byte) :
          h = send.header /\ p = send.payload /\ Len(p) \in 1 .. MaxPacketSize
    BY SendValue
  <1>2. CASE Len(p) <= FragmentAbove
    <2>1. packet = WriteHeader(h) \o p
      BY <1>1, <1>2 DEF Written
    <2>2. IsWhole(WriteHeader(h) \o p, h, p)
      BY WholeValue
    <2> QED
      BY Zenon, <1>1, <2>1, <2>2
  <1>3. CASE ~(Len(p) <= FragmentAbove)
    <2>1. PICK c \in 1 .. MaxFragments, F \in Nat \ {0}, L \in Nat \ {0} :
            /\ c = FragmentCount(p) /\ F = FragmentSize /\ L = Len(p)
            /\ (c - 1) * F < L /\ L <= (c - 1) * F + F
      BY Zenon, <1>1, CountValue
    <2>2. PICK i \in 0 .. (c - 1) : packet = Fragment(send, i)
      BY Zenon, <1>1, <1>3, <2>1 DEF Written
    <2>3. IsSlice(Slice(p, i), p, i, c, F)
      <3>1. c \in Nat /\ (c - 1) * F < Len(p) /\ Len(p) <= (c - 1) * F + F
        BY Zenon, <2>1, Config, <1>1, NatInterval
      <3> QED
        BY Zenon, <1>1, <2>1, <3>1, SliceValue
    <2>4. PICK b \in Seq(Byte) : b = Slice(p, i) /\ Len(b) \in Nat \ {0}
      <3>1. Slice(p, i) \in Seq(Byte) /\ Len(Slice(p, i)) \in 1 .. F
        BY <2>3 DEF IsSlice
      <3>2. Len(Slice(p, i)) \in Nat \ {0}
        BY <3>1
      <3> QED
        BY <3>1, <3>2
    <2>5. IsFragment(packet, h, i, c, b)
      BY Zenon, <1>1, <2>1, <2>2, <2>4, FragmentValue
    <2> QED
      BY Zenon, <1>1, <2>1, <2>2, <2>3, <2>4, <2>5
  <1> QED
    BY <1>2, <1>3

\* Nothing written is longer than the scratch buffer, nor refused for its size.
LEMMA WrittenFits ==
  ASSUME NEW send \in Sends, NEW packet \in Written(send)
  PROVE  /\ packet \in Seq(Byte) \ {<< >>}
         /\ Len(packet) <= TransmitBufferSize /\ ~Oversized(packet)
  <1>1. PICK h \in Headers, p \in Seq(Byte) :
          h = send.header /\ p = send.payload /\ Len(p) \in 1 .. MaxPacketSize
    BY SendValue
  <1>2. PICK P \in Nat, F \in Nat : P = MaxPacketSize /\ F = FragmentSize
    BY CodecAssumption, Config
  <1>3. TransmitBufferSize = (IF 14 + F > P + 9 THEN 14 + F ELSE P + 9)
    BY <1>2, Config DEF TransmitBufferSize
  <1>4. Oversized(packet) <=> Len(packet) > P + 14
    BY <1>2, Config DEF Oversized
  <1>5. PICK l \in Nat : packet \in Seq(Byte) /\ l = Len(packet) /\ l > 0
                         /\ (l <= 9 + P \/ (l <= 14 + F /\ l <= 14 + P))
    <2>1. CASE IsWhole(packet, h, p)
      <3>1. packet \in Seq(Byte) /\ Len(packet) \in 4 .. (9 + Len(p))
        BY <2>1, Config DEF IsWhole
      <3> QED
        BY <1>1, <1>2, <3>1
    <2>2. CASE \E c \in 1 .. MaxFragments : \E i \in 0 .. (c - 1), b \in Seq(Byte) :
                 /\ IsFragment(packet, h, i, c, b) /\ IsSlice(b, p, i, c, FragmentSize)
      <3>1. PICK b \in Seq(Byte) :
              /\ packet \in Seq(Byte) /\ Len(packet) \in 6 .. (14 + Len(b))
              /\ Len(b) \in 1 .. F /\ Len(b) <= Len(p)
        BY <1>2, <2>2, Config DEF IsFragment, IsSlice
      <3> QED
        BY <1>1, <1>2, <3>1
    <2> QED
      BY Zenon, <1>1, <2>1, <2>2, WrittenValue
  <1>6. packet # << >>
    BY <1>5
  <1> QED
    BY <1>3, <1>4, <1>5, <1>6
-----------------------------------------------------------------------------
(* The structure of what is on its way, stored and taken                   *)

LEMMA InitStructure == Init => Structure
  BY DEF Init, Structure

\* A flipped bit leaves a byte.
LEMMA FlippedByte ==
  ASSUME NEW byte \in Byte, NEW bit \in Bits
  PROVE  Flipped(byte, bit) \in Byte
  <1>0. byte \in 0 .. 255
    BY DEF Byte
  <1>1. CASE bit = 1
    BY <1>0, <1>1 DEF Flipped, HasBit, Byte
  <1>2. CASE bit = 2
    BY <1>0, <1>2 DEF Flipped, HasBit, Byte
  <1>3. CASE bit = 4
    BY <1>0, <1>3 DEF Flipped, HasBit, Byte
  <1>4. CASE bit = 8
    BY <1>0, <1>4 DEF Flipped, HasBit, Byte
  <1>5. CASE bit = 16
    BY <1>0, <1>5 DEF Flipped, HasBit, Byte
  <1>6. CASE bit = 32
    BY <1>0, <1>6 DEF Flipped, HasBit, Byte
  <1>7. CASE bit = 64
    BY <1>0, <1>7 DEF Flipped, HasBit, Byte
  <1>8. CASE bit = 128
    BY <1>0, <1>8 DEF Flipped, HasBit, Byte
  <1> QED
    BY <1>1, <1>2, <1>3, <1>4, <1>5, <1>6, <1>7, <1>8 DEF Bits

LEMMA SendStructure ==
  ASSUME Structure, NEW send \in Sends, Send(send)
  PROVE  Structure'
  <1>1. Written(send) \subseteq Seq(Byte) \ {<< >>}
    BY WrittenFits
  <1>2. link' \subseteq Seq(Byte) \ {<< >>}
    BY <1>1 DEF Structure, Send
  <1>3. sent' \subseteq Sends /\ \A a, b \in sent' : a = b
    BY DEF Send
  <1>4. damaged' = damaged /\ blocks' = blocks /\ taken' = taken
    BY DEF Send
  <1>5. \A s \in DOMAIN blocks' : BlockOK(blocks'[s], s)
    BY Zenon, <1>4 DEF Structure
  <1>6. \A t \in taken' : TakenOK(t)
    BY Zenon, <1>4 DEF Structure
  <1> QED
    BY Zenon, <1>2, <1>3, <1>4, <1>5, <1>6 DEF Structure

\* The steps that only touch the link.
LEMMA LinkStructure ==
  ASSUME Structure, link' \subseteq Seq(Byte) \ {<< >>},
         damaged' = damaged + 1, UNCHANGED <<sent, blocks, taken>>
  PROVE  Structure'
  <1>1. damaged' \in Nat
    BY DEF Structure
  <1>2. sent' = sent /\ blocks' = blocks /\ taken' = taken
    OBVIOUS
  <1> QED
    BY Zenon, <1>1, <1>2 DEF Structure

LEMMA CorruptStructure ==
  ASSUME Structure, NEW packet \in link, NEW k \in DOMAIN packet, NEW bit \in Bits,
         Corrupt(packet, k, bit)
  PROVE  Structure'
  <1>1. packet \in Seq(Byte) /\ packet # << >> /\ k \in 1 .. Len(packet)
    BY DEF Structure
  <1>2. packet[k] \in Byte
    BY <1>1
  <1>3. PICK x \in Byte : x = Flipped(packet[k], bit)
    BY <1>2, FlippedByte
  <1>4. [packet EXCEPT ![k] = x] \in Seq(Byte) \ {<< >>}
    BY <1>1
  <1>5. link' \subseteq Seq(Byte) \ {<< >>}
    BY <1>3, <1>4 DEF Structure, Corrupt
  <1> QED
    BY <1>5, LinkStructure DEF Corrupt

LEMMA InjectStructure ==
  ASSUME Structure, NEW packet \in Strays, Inject(packet)
  PROVE  Structure'
  <1>1. packet \in Seq(Byte) \ {<< >>}
    BY CodecAssumption
  <1>2. link' \subseteq Seq(Byte) \ {<< >>}
    BY <1>1 DEF Structure, Inject
  <1> QED
    BY <1>2, LinkStructure DEF Inject

\* What the callback takes of a packet that was put together.
LEMMA TakenFromOK ==
  ASSUME NEW w, NEW from, NEW n \in Nat \ {0}, DOMAIN from = 0 .. (n - 1),
         Assembled(w, from, n), NEW t \in TakenFrom(w, from)
  PROVE  TakenOK(t)
  <1>1. t.header = ReadHeader(w) /\ t.payload = Payload(w) /\ t.from = from
    BY DEF TakenFrom
  <1>2. Cardinality(DOMAIN t.from) = n
    BY <1>1, FS_Interval
  <1> QED
    BY Zenon, <1>1, <1>2 DEF TakenOK, Assembled

\* A packet that is not a fragment is put together of itself.
LEMMA RegularAssembled ==
  ASSUME NEW w \in Seq(Byte), Readable(w), NEW from, DOMAIN from = {0}, from[0] = w
  PROVE  Assembled(w, from, 1)
  <1>1. ~HasBit(w[1], FragmentBit) /\ HeaderBytes(w) <= Len(w)
    BY DEF Readable
  <1>2. HeaderBytes(w) \in Nat
    BY HeaderBytesRange
  <1>3. PICK p \in Seq(Byte) : p = Payload(w)
    BY <1>1, <1>2, AfterValue DEF Payload
  <1>4. Body(from[0]) = p /\ ArrivedHeader(from[0]) = ReadHeader(w)
    BY Zenon, <1>1, <1>3 DEF Body, ArrivedHeader
  <1>5. 1 - 1 = 0 /\ 0 .. 0 = {0} /\ 0 * FragmentSize = 0
    BY Config
  <1>6. /\ Len(p) = 0 * FragmentSize + Len(p)
        /\ \A k \in 1 .. Len(p) : 0 * FragmentSize + k = k
    <2>1. Len(p) \in Nat
      OBVIOUS
    <2> QED
      BY <1>5, <2>1
  <1>7. \A i \in {0} : ~(i < 1 - 1)
    OBVIOUS
  <1>8. Spread(p, from, 1)
    BY ZenonT(30), <1>4, <1>5, <1>6, <1>7 DEF Spread
  <1> QED
    BY Zenon, <1>3, <1>4, <1>8 DEF Assembled

LEMMA RegularStructure ==
  ASSUME Structure, NEW packet \in link, ReceiveRegular(packet)
  PROVE  Structure'
  <1>1. packet \in Seq(Byte)
    BY DEF Structure
  <1>2. PICK from : from = [i \in {0} |-> packet] /\ DOMAIN from = {0} /\ from[0] = packet
    <2> DEFINE f == [i \in {0} |-> packet]
    <2>1. DOMAIN f = {0} /\ f[0] = packet
      OBVIOUS
    <2> QED
      BY <2>1
  <1>3. taken' = taken \cup TakenFrom(packet, from) /\ TakenFrom(packet, from) # {}
        /\ UNCHANGED <<sent, link, damaged, blocks>>
    BY <1>2 DEF ReceiveRegular
  <1>4. Readable(packet)
    BY <1>3 DEF TakenFrom
  <1>5. Assembled(packet, from, 1)
    BY <1>1, <1>2, <1>4, RegularAssembled
  <1>6. 1 \in Nat \ {0} /\ DOMAIN from = 0 .. (1 - 1)
    BY <1>2
  <1>7. \A t \in TakenFrom(packet, from) : TakenOK(t)
    BY <1>5, <1>6, TakenFromOK
  <1>8. \A t \in taken' : TakenOK(t)
    BY <1>3, <1>7 DEF Structure
  <1> QED
    BY Zenon, <1>3, <1>8 DEF Structure
\* A set of n numbers below n has all of them.
LEMMA AllOf ==
  ASSUME NEW n \in Nat \ {0}, NEW I, I \subseteq 0 .. (n - 1), Cardinality(I) = n
  PROVE  I = 0 .. (n - 1)
  <1>1. IsFiniteSet(0 .. (n - 1)) /\ Cardinality(0 .. (n - 1)) = n
    BY FS_Interval
  <1>2. I \in SUBSET (0 .. (n - 1))
    OBVIOUS
  <1> QED
    BY <1>1, <1>2, FS_Subset

\* The block that a fragment goes into.
Target(packet) ==
  IF FragmentSequence(packet) \in DOMAIN blocks
    THEN blocks[FragmentSequence(packet)] ELSE NewBlock(NumFragments(packet))

\* What the reception of a fragment does, in those terms.
Accepted(packet, stored) ==
  /\ stored = StoreFragment(Target(packet), packet)
  /\ ReadableFragment(packet) /\ NumFragments(packet) = Target(packet).num_fragments_total
  /\ FragmentId(packet) \notin DOMAIN Target(packet).pieces
  /\ \/ /\ Complete(stored)
        /\ blocks' = Without(FragmentSequence(packet))
        /\ taken' \subseteq taken \cup TakenFrom(Whole(stored), stored.pieces)
     \/ /\ blocks' = [r \in DOMAIN blocks \cup {FragmentSequence(packet)} |->
                        IF r = FragmentSequence(packet) THEN stored ELSE blocks[r]]
        /\ taken' = taken
  /\ UNCHANGED <<sent, link, damaged>>

LEMMA FragmentAccepted ==
  ASSUME NEW packet, ReceiveFragment(packet)
  PROVE  \E stored : Accepted(packet, stored)
  <1> DEFINE stored == StoreFragment(Target(packet), packet)
  <1>1. /\ ReadableFragment(packet) /\ NumFragments(packet) = Target(packet).num_fragments_total
        /\ FragmentId(packet) \notin DOMAIN Target(packet).pieces
        /\ UNCHANGED <<sent, link, damaged>>
    BY DEF ReceiveFragment, Target
  <1>2. \/ /\ Complete(stored)
           /\ blocks' = Without(FragmentSequence(packet))
           /\ \E accepts \in BOOLEAN :
                taken' = IF accepts THEN taken \cup TakenFrom(Whole(stored), stored.pieces)
                                    ELSE taken
        \/ /\ blocks' = [r \in DOMAIN blocks \cup {FragmentSequence(packet)} |->
                           IF r = FragmentSequence(packet) THEN stored ELSE blocks[r]]
           /\ taken' = taken
    BY DEF ReceiveFragment, Target
  <1> HIDE DEF stored
  <1>3. \/ /\ Complete(stored)
           /\ blocks' = Without(FragmentSequence(packet))
           /\ taken' \subseteq taken \cup TakenFrom(Whole(stored), stored.pieces)
        \/ /\ blocks' = [r \in DOMAIN blocks \cup {FragmentSequence(packet)} |->
                           IF r = FragmentSequence(packet) THEN stored ELSE blocks[r]]
           /\ taken' = taken
    BY <1>2
  <1>4. stored = StoreFragment(Target(packet), packet)
    BY DEF stored
  <1> QED
    BY Zenon, <1>1, <1>3, <1>4 DEF Accepted

\* The block before and after the fragment is stored.
LEMMA TargetOK ==
  ASSUME Structure, NEW packet \in link, NEW stored, Accepted(packet, stored)
  PROVE  /\ BlockOK(Target(packet), FragmentSequence(packet))
         /\ BlockOK(stored, FragmentSequence(packet))
         /\ stored.num_fragments_total = NumFragments(packet)
         /\ DOMAIN stored.pieces = DOMAIN Target(packet).pieces \cup {FragmentId(packet)}
         /\ \A i \in DOMAIN stored.pieces :
              stored.pieces[i] =
                IF i = FragmentId(packet) THEN packet ELSE Target(packet).pieces[i]
  <1>1. packet \in Seq(Byte) /\ ReadableFragment(packet)
    BY DEF Structure, Accepted
  <1>2. PICK id \in Int, n \in Int, hb \in Int : Dissected(packet, id, n, hb)
    BY <1>1, DissectedFragment
  <1>3. PICK s, block : s = FragmentSequence(packet) /\ block = Target(packet)
    OBVIOUS
  <1>4. BlockOK(block, s)
    <2>1. CASE s \in DOMAIN blocks
      BY <1>3, <2>1 DEF Target, Structure
    <2>2. CASE s \notin DOMAIN blocks
      <3>1. n \in 1 .. MaxFragments /\ n = NumFragments(packet)
        BY <1>2 DEF Dissected
      <3>2. BlockOK(NewBlock(n), s)
        BY <3>1, NewBlockOK
      <3> QED
        BY <1>3, <2>2, <3>1, <3>2 DEF Target
    <2> QED
      BY <2>1, <2>2
  <1>5. NumFragments(packet) = block.num_fragments_total
        /\ FragmentId(packet) \notin DOMAIN block.pieces /\ stored = StoreFragment(block, packet)
    BY <1>3 DEF Accepted
  <1>6. BlockOK(StoreFragment(block, packet), s)
    BY <1>1, <1>3, <1>4, <1>5, StoreOK
  <1>7. Shaped(block) /\ n = block.num_fragments_total
    BY <1>2, <1>4, <1>5 DEF BlockOK, Dissected
  <1>8. StoredBlock(block, packet, StoreFragment(block, packet), id, n, hb)
    BY <1>2, <1>7, StoreValue
  <1>9. /\ stored.num_fragments_total = n /\ id = FragmentId(packet) /\ n = NumFragments(packet)
        /\ stored.pieces = [i \in DOMAIN block.pieces \cup {id} |->
                              IF i = id THEN packet ELSE block.pieces[i]]
    BY <1>2, <1>5, <1>8 DEF StoredBlock, Dissected
  <1>10. /\ DOMAIN stored.pieces = DOMAIN block.pieces \cup {id}
         /\ \A i \in DOMAIN stored.pieces :
              stored.pieces[i] = IF i = id THEN packet ELSE block.pieces[i]
    BY <1>9
  <1> QED
    BY Zenon, <1>3, <1>4, <1>5, <1>6, <1>9, <1>10

\* A block that is complete has every fragment.
LEMMA CompletePieces ==
  ASSUME NEW block, NEW s, BlockOK(block, s), Complete(block)
  PROVE  \E n \in Nat \ {0} :
           n = block.num_fragments_total /\ DOMAIN block.pieces = 0 .. (n - 1)
  <1>1. PICK n \in Nat \ {0} : n = block.num_fragments_total
    <2>1. block.num_fragments_total \in 1 .. MaxFragments
      BY DEF BlockOK, Shaped
    <2>2. block.num_fragments_total \in Nat \ {0}
      BY <2>1, Config
    <2> QED
      BY <2>2
  <1>2. DOMAIN block.pieces \subseteq 0 .. (n - 1) /\ Cardinality(DOMAIN block.pieces) = n
    BY <1>1 DEF BlockOK, Shaped, Complete
  <1> QED
    BY <1>1, <1>2, AllOf

LEMMA FragmentStructure ==
  ASSUME Structure, NEW packet \in link, ReceiveFragment(packet)
  PROVE  Structure'
  <1>1. PICK stored : Accepted(packet, stored)
    BY FragmentAccepted
  <1>2. PICK s : s = FragmentSequence(packet)
    OBVIOUS
  <1>3. BlockOK(stored, s)
    BY <1>1, <1>2, TargetOK
  <1>4. sent' = sent /\ link' = link /\ damaged' = damaged
    BY <1>1 DEF Accepted
  <1>5. CASE Complete(stored) /\ blocks' = Without(s)
             /\ taken' \subseteq taken \cup TakenFrom(Whole(stored), stored.pieces)
    <2>1. PICK n \in Nat \ {0} :
            n = stored.num_fragments_total /\ DOMAIN stored.pieces = 0 .. (n - 1)
      BY <1>3, <1>5, CompletePieces
    <2>2. Assembled(Whole(stored), stored.pieces, n)
      BY <1>3, <2>1, WholeOK
    <2>3. \A t \in TakenFrom(Whole(stored), stored.pieces) : TakenOK(t)
      BY <2>1, <2>2, TakenFromOK
    <2>4. \A t \in taken' : TakenOK(t)
      BY <1>5, <2>3 DEF Structure
    <2>5. \A r \in DOMAIN blocks' : BlockOK(blocks'[r], r)
      BY <1>5 DEF Without, Structure
    <2> QED
      BY Zenon, <1>4, <2>4, <2>5 DEF Structure
  <1>6. CASE /\ blocks' = [r \in DOMAIN blocks \cup {s} |-> IF r = s THEN stored ELSE blocks[r]]
             /\ taken' = taken
    <2>1. \A r \in DOMAIN blocks' : BlockOK(blocks'[r], r)
      BY <1>3, <1>6 DEF Structure
    <2>2. \A t \in taken' : TakenOK(t)
      BY Zenon, <1>6 DEF Structure
    <2> QED
      BY Zenon, <1>4, <2>1, <2>2 DEF Structure
  <1> QED
    BY Zenon, <1>1, <1>2, <1>5, <1>6 DEF Accepted

LEMMA EvictStructure ==
  ASSUME Structure, NEW s, Evict(s)
  PROVE  Structure'
  <1>1. \A r \in DOMAIN blocks' : BlockOK(blocks'[r], r)
    BY DEF Evict, Without, Structure
  <1>2. sent' = sent /\ link' = link /\ damaged' = damaged /\ taken' = taken
    BY DEF Evict
  <1> QED
    BY Zenon, <1>1, <1>2 DEF Structure

LEMMA NextStructure ==
  ASSUME Structure, [Next]_vars
  PROVE  Structure'
  <1>1. CASE \E send \in Sends : Send(send)
    BY <1>1, SendStructure
  <1>2. CASE \E packet \in link : \E k \in DOMAIN packet : \E bit \in Bits : Corrupt(packet, k, bit)
    BY <1>2, CorruptStructure
  <1>3. CASE \E packet \in Strays : Inject(packet)
    BY <1>3, InjectStructure
  <1>4. CASE \E packet \in link : ReceiveRegular(packet)
    BY <1>4, RegularStructure
  <1>5. CASE \E packet \in link : ReceiveFragment(packet)
    BY <1>5, FragmentStructure
  <1>6. CASE \E s \in DOMAIN blocks : Evict(s)
    BY <1>6, EvictStructure
  <1>7. CASE UNCHANGED vars
    <2>1. link' = link /\ sent' = sent /\ damaged' = damaged /\ blocks' = blocks /\ taken' = taken
      BY <1>7 DEF vars
    <2> QED
      BY Zenon, <2>1 DEF Structure
  <1> QED
    BY Zenon, <1>1, <1>2, <1>3, <1>4, <1>5, <1>6, <1>7 DEF Next
-----------------------------------------------------------------------------
(* A link that damages nothing                                             *)

LEMMA InitUndamaged == Init => Undamaged
  BY DEF Init, Undamaged

LEMMA SendUndamaged ==
  ASSUME Undamaged, NEW send \in Sends, Send(send)
  PROVE  Undamaged'
  <1>1. sent = {} /\ sent' = {send} /\ link' = link \cup Written(send)
        /\ blocks' = blocks /\ taken' = taken
    BY DEF Send
  <1>2. link = {} /\ DOMAIN blocks = {} /\ taken = {}
    BY <1>1 DEF Undamaged
  <1>3. link' \subseteq UNION {Written(a) : a \in sent'}
    BY <1>1, <1>2
  <1> QED
    BY <1>1, <1>2, <1>3 DEF Undamaged

\* What a packet is that a link without damage brings.
LEMMA Genuine ==
  ASSUME Structure, Undamaged, NEW packet \in link
  PROVE  \E send \in sent :
           /\ send \in Sends
           /\ \/ /\ packet = WriteHeader(send.header) \o send.payload
                 /\ ~HasBit(packet[1], FragmentBit)
              \/ /\ HasBit(packet[1], FragmentBit) /\ packet[1] = FragmentBit
                 /\ packet = Fragment(send, FragmentId(packet))
                 /\ NumFragments(packet) = FragmentCount(send.payload)
  <1>1. PICK send \in sent : packet \in Written(send) /\ send \in Sends
    BY DEF Undamaged, Structure
  <1>2. CASE /\ packet = WriteHeader(send.header) \o send.payload
             /\ IsWhole(packet, send.header, send.payload)
    BY <1>1, <1>2 DEF IsWhole
  <1>3. CASE \E c \in 1 .. MaxFragments : \E i \in 0 .. (c - 1), b \in Seq(Byte) :
               /\ c = FragmentCount(send.payload) /\ packet = Fragment(send, i)
               /\ IsFragment(packet, send.header, i, c, b)
    <2>1. packet[1] = FragmentBit /\ HasBit(packet[1], FragmentBit)
      BY <1>3, FragmentMark DEF IsFragment, FragmentBit
    <2>2. /\ packet = Fragment(send, FragmentId(packet))
          /\ NumFragments(packet) = FragmentCount(send.payload)
      BY <1>3, Zenon DEF IsFragment
    <2> QED
      BY <1>1, <2>1, <2>2
  <1> QED
    BY Zenon, <1>1, <1>2, <1>3, WrittenValue

LEMMA RegularUndamaged ==
  ASSUME Structure, Undamaged, NEW packet \in link, ReceiveRegular(packet)
  PROVE  Undamaged'
  <1>1. PICK from : from = [i \in {0} |-> packet] /\ DOMAIN from = {0} /\ from[0] = packet
    <2> DEFINE f == [i \in {0} |-> packet]
    <2>1. DOMAIN f = {0} /\ f[0] = packet
      OBVIOUS
    <2> QED
      BY <2>1
  <1>2. /\ ~HasBit(packet[1], FragmentBit)
        /\ taken' = taken \cup TakenFrom(packet, from)
        /\ sent' = sent /\ link' = link /\ blocks' = blocks
    BY <1>1 DEF ReceiveRegular
  <1>3. PICK send \in sent : packet = WriteHeader(send.header) \o send.payload
    BY <1>2, Genuine
  <1>4. \A t \in TakenFrom(packet, from) : SentWhole(send, t.from)
    <2> TAKE t \in TakenFrom(packet, from)
    <2>1. t.from = from
      BY DEF TakenFrom
    <2> QED
      BY <1>1, <1>3, <2>1, Zenon DEF SentWhole
  <1>5. \A t \in taken' : \E a \in sent' :
          SentWhole(a, t.from) \/ SentInPieces(a, t.from, Cardinality(DOMAIN t.from))
    BY <1>2, <1>4, Zenon DEF Undamaged
  <1> QED
    BY Zenon, <1>2, <1>5 DEF Undamaged

\* The pieces of a block that a fragment was stored in are those of the send.
LEMMA StoredPieces ==
  ASSUME Structure, Undamaged, NEW packet \in link, NEW stored, Accepted(packet, stored)
  PROVE  \E send \in sent : SentInPieces(send, stored.pieces, stored.num_fragments_total)
  <1>1. ReadableFragment(packet)
    BY DEF Accepted
  <1>2. HasBit(packet[1], FragmentBit)
    BY <1>1, FragmentMark DEF ReadableFragment, FragmentBit
  <1>3. PICK send \in sent :
          /\ send \in Sends /\ packet = Fragment(send, FragmentId(packet))
          /\ NumFragments(packet) = FragmentCount(send.payload)
    BY <1>2, Genuine
  <1>4. /\ BlockOK(stored, FragmentSequence(packet))
        /\ stored.num_fragments_total = NumFragments(packet)
        /\ DOMAIN stored.pieces = DOMAIN Target(packet).pieces \cup {FragmentId(packet)}
        /\ \A i \in DOMAIN stored.pieces :
             stored.pieces[i] =
               IF i = FragmentId(packet) THEN packet ELSE Target(packet).pieces[i]
    BY TargetOK
  <1>5. \A i \in DOMAIN Target(packet).pieces : Target(packet).pieces[i] = Fragment(send, i)
    <2>1. CASE FragmentSequence(packet) \in DOMAIN blocks
      <3>1. PICK block : block = Target(packet) /\ block = blocks[FragmentSequence(packet)]
        BY <2>1 DEF Target
      <3>2. PICK a \in sent : SentInPieces(a, block.pieces, block.num_fragments_total)
        BY <2>1, <3>1 DEF Undamaged
      <3>3. a = send
        BY DEF Structure
      <3> QED
        BY <3>1, <3>2, <3>3 DEF SentInPieces
    <2>2. CASE FragmentSequence(packet) \notin DOMAIN blocks
      <3>1. DOMAIN Target(packet).pieces = {}
        BY <2>2 DEF Target, NewBlock
      <3> QED
        BY <3>1
    <2> QED
      BY <2>1, <2>2
  <1>6. \A i \in DOMAIN stored.pieces : stored.pieces[i] = Fragment(send, i)
    BY Zenon, <1>3, <1>4, <1>5
  <1>7. DOMAIN stored.pieces \subseteq 0 .. (stored.num_fragments_total - 1)
    BY <1>4 DEF BlockOK, Shaped
  <1>8. SentInPieces(send, stored.pieces, stored.num_fragments_total)
    BY Zenon, <1>3, <1>4, <1>6, <1>7 DEF SentInPieces
  <1> QED
    BY <1>8

LEMMA FragmentUndamaged ==
  ASSUME Structure, Undamaged, NEW packet \in link, ReceiveFragment(packet)
  PROVE  Undamaged'
  <1>1. PICK stored : Accepted(packet, stored)
    BY FragmentAccepted
  <1>2. PICK s : s = FragmentSequence(packet)
    OBVIOUS
  <1>3. PICK send \in sent : SentInPieces(send, stored.pieces, stored.num_fragments_total)
    BY <1>1, StoredPieces
  <1>4. sent' = sent /\ link' = link
    BY <1>1 DEF Accepted
  <1>5. CASE Complete(stored) /\ blocks' = Without(s)
             /\ taken' \subseteq taken \cup TakenFrom(Whole(stored), stored.pieces)
    <2>1. \A t \in TakenFrom(Whole(stored), stored.pieces) :
            SentInPieces(send, t.from, Cardinality(DOMAIN t.from))
      <3> TAKE t \in TakenFrom(Whole(stored), stored.pieces)
      <3>1. t.from = stored.pieces
        BY DEF TakenFrom
      <3>2. Cardinality(DOMAIN t.from) = stored.num_fragments_total
        BY <1>5, <3>1 DEF Complete
      <3> QED
        BY Zenon, <1>3, <3>1, <3>2
    <2>2. \A t \in taken' : \E a \in sent' :
            SentWhole(a, t.from) \/ SentInPieces(a, t.from, Cardinality(DOMAIN t.from))
      BY <1>4, <1>5, <2>1, Zenon DEF Undamaged
    <2>3. DOMAIN blocks' \subseteq DOMAIN blocks /\ \A r \in DOMAIN blocks' : blocks'[r] = blocks[r]
      BY <1>5 DEF Without
    <2>4. \A r \in DOMAIN blocks' : \E a \in sent' :
            SentInPieces(a, blocks'[r].pieces, blocks'[r].num_fragments_total)
      <3> TAKE r \in DOMAIN blocks'
      <3>1. r \in DOMAIN blocks /\ blocks'[r] = blocks[r]
        BY <2>3
      <3> QED
        BY Zenon, <1>4, <3>1 DEF Undamaged
    <2> QED
      BY Zenon, <1>4, <2>2, <2>4 DEF Undamaged
  <1>6. CASE /\ blocks' = [r \in DOMAIN blocks \cup {s} |-> IF r = s THEN stored ELSE blocks[r]]
             /\ taken' = taken
    <2>1. \A r \in DOMAIN blocks' : \E a \in sent' :
            SentInPieces(a, blocks'[r].pieces, blocks'[r].num_fragments_total)
      <3> TAKE r \in DOMAIN blocks'
      <3>1. \/ blocks'[r] = stored
            \/ r \in DOMAIN blocks /\ blocks'[r] = blocks[r]
        BY <1>6
      <3> QED
        BY Zenon, <1>3, <1>4, <3>1 DEF Undamaged
    <2> QED
      BY Zenon, <1>4, <1>6, <2>1 DEF Undamaged
  <1> QED
    BY Zenon, <1>1, <1>2, <1>5, <1>6 DEF Accepted

LEMMA EvictUndamaged ==
  ASSUME Undamaged, NEW s, Evict(s)
  PROVE  Undamaged'
  <1>1. sent' = sent /\ link' = link /\ taken' = taken
    BY DEF Evict
  <1>2. \A r \in DOMAIN blocks' : r \in DOMAIN blocks /\ blocks'[r] = blocks[r]
    BY DEF Evict, Without
  <1>3. \A r \in DOMAIN blocks' : \E a \in sent' :
          SentInPieces(a, blocks'[r].pieces, blocks'[r].num_fragments_total)
    <2> TAKE r \in DOMAIN blocks'
    <2>1. r \in DOMAIN blocks /\ blocks'[r] = blocks[r]
      BY <1>2
    <2> QED
      BY Zenon, <1>1, <2>1 DEF Undamaged
  <1> QED
    BY Zenon, <1>1, <1>3 DEF Undamaged

LEMMA NextUndamaged ==
  ASSUME Inv, [Next]_vars
  PROVE  damaged' = 0 => Undamaged'
  <1> SUFFICES ASSUME damaged' = 0 PROVE Undamaged'
    OBVIOUS
  <1>0. Structure /\ damaged \in Nat /\ (damaged = 0 => Undamaged)
    BY DEF Inv, Structure
  <1>1. CASE \E send \in Sends : Send(send)
    <2>1. damaged' = damaged
      BY <1>1 DEF Send
    <2> QED
      BY <1>0, <1>1, <2>1, SendUndamaged
  <1>2. CASE \E packet \in link : \E k \in DOMAIN packet : \E bit \in Bits : Corrupt(packet, k, bit)
    <2>1. damaged' = damaged + 1
      BY <1>2 DEF Corrupt
    <2> QED
      BY <1>0, <2>1
  <1>3. CASE \E packet \in Strays : Inject(packet)
    <2>1. damaged' = damaged + 1
      BY <1>3 DEF Inject
    <2> QED
      BY <1>0, <2>1
  <1>4. CASE \E packet \in link : ReceiveRegular(packet)
    <2>1. damaged' = damaged
      BY <1>4 DEF ReceiveRegular
    <2> QED
      BY <1>0, <1>4, <2>1, RegularUndamaged
  <1>5. CASE \E packet \in link : ReceiveFragment(packet)
    <2>1. damaged' = damaged
      BY <1>5 DEF ReceiveFragment
    <2> QED
      BY <1>0, <1>5, <2>1, FragmentUndamaged
  <1>6. CASE \E s \in DOMAIN blocks : Evict(s)
    <2>1. damaged' = damaged
      BY <1>6 DEF Evict
    <2> QED
      BY <1>0, <1>6, <2>1, EvictUndamaged
  <1>7. CASE UNCHANGED vars
    <2>1. link' = link /\ sent' = sent /\ damaged' = damaged /\ blocks' = blocks /\ taken' = taken
      BY <1>7 DEF vars
    <2> QED
      BY Zenon, <1>0, <2>1 DEF Undamaged
  <1> QED
    BY Zenon, <1>1, <1>2, <1>3, <1>4, <1>5, <1>6, <1>7 DEF Next

\* Slices of p, put one after the other, are p.
LEMMA SlicesJoin ==
  ASSUME NEW p \in Seq(Byte), NEW q \in Seq(Byte), NEW n \in Nat \ {0}, NEW F \in Nat \ {0},
         F = FragmentSize, NEW from, Spread(q, from, n),
         \A i \in 0 .. (n - 1) : IsSlice(Body(from[i]), p, i, n, F)
  PROVE  q = p
  <1>1. n - 1 \in 0 .. (n - 1) /\ n - 1 = n - 1
    OBVIOUS
  <1>2. PICK L \in 1 .. F : L = Len(Body(from[n - 1])) /\ Len(p) = (n - 1) * F + L
    <2>1. IsSlice(Body(from[n - 1]), p, n - 1, n, F)
      BY <1>1
    <2> QED
      BY <1>1, <2>1, Zenon DEF IsSlice
  <1>3. Len(q) = (n - 1) * F + L
    BY <1>2, Zenon DEF Spread
  <1>4. \A m \in 1 .. Len(q) : q[m] = p[m]
    <2> TAKE m \in 1 .. Len(q)
    <2>0. PICK y \in Nat : y = (n - 1) * F
      <3>1. n - 1 \in Nat /\ F \in Nat
        OBVIOUS
      <3> QED
        BY Zenon, <3>1, ProductNat
    <2>1. m - 1 \in Nat /\ m - 1 < (n - 1) * F + L
      <3>1. m \in 1 .. (y + L)
        BY Zenon, <1>3, <2>0
      <3>2. m - 1 \in Nat /\ m - 1 < y + L
        BY ONLY <3>1, y \in Nat, L \in 1 .. F, F \in Nat \ {0}
      <3> QED
        BY Zenon, <3>2, <2>0
    <2>2. L \in 0 .. F
      BY <1>2
    <2>3. Within(m - 1, F, n, L)
      BY <2>1, <2>2, Located
    <2>4. PICK i \in 0 .. (n - 1), r \in 0 .. (F - 1) :
            m - 1 = i * F + r /\ (i = n - 1 => r < L)
      BY <2>3 DEF Within
    <2>5. PICK x \in Nat : x = i * F
      <3>1. i \in Nat /\ F \in Nat
        BY <2>4
      <3> QED
        BY Zenon, <3>1, ProductNat
    <2>6. r + 1 \in 1 .. Len(Body(from[i]))
      <3>1. IsSlice(Body(from[i]), p, i, n, F)
        BY <2>4
      <3>2. /\ Len(Body(from[i])) \in 1 .. F
            /\ i < n - 1 => Len(Body(from[i])) = F
            /\ i = n - 1 => Len(Body(from[i])) = L
        BY <3>1, <1>2, Zenon DEF IsSlice
      <3> QED
        BY ONLY <2>4, <3>2, i \in 0 .. (n - 1), r \in 0 .. (F - 1), n \in Nat \ {0}, F \in Nat \ {0},
                L \in 1 .. F
    <2>7. m = i * F + (r + 1)
      <3>1. m - 1 = x + r
        BY Zenon, <2>4, <2>5
      <3>2. m = x + (r + 1)
        BY ONLY <3>1, m \in Int, x \in Nat, r \in 0 .. (F - 1), F \in Nat \ {0}
      <3> QED
        BY Zenon, <3>2, <2>5
    <2>8. q[i * F + (r + 1)] = Body(from[i])[r + 1]
      BY <2>4, <2>6, Zenon DEF Spread
    <2>9. Body(from[i])[r + 1] = p[i * F + (r + 1)]
      <3>1. IsSlice(Body(from[i]), p, i, n, F)
        BY <2>4
      <3> QED
        BY <3>1, <2>6, Zenon DEF IsSlice
    <2> QED
      BY Zenon, <2>7, <2>8, <2>9
  <1> QED
    BY <1>2, <1>3, <1>4, SequenceEqual, Zenon

\* What was taken whole is what was sent.
LEMMA WholeRoundTrip ==
  ASSUME NEW send \in Sends, NEW t, TakenOK(t), SentWhole(send, t.from)
  PROVE  t.header = send.header /\ t.payload = send.payload
  <1>1. PICK h \in Headers, p \in Seq(Byte) : h = send.header /\ p = send.payload
    BY SendValue
  <1>2. PICK w : w = t.from[0] /\ w = WriteHeader(h) \o p
    BY <1>1 DEF SentWhole
  <1>3. IsWhole(w, h, p)
    BY <1>2, WholeValue
  <1>4. Cardinality(DOMAIN t.from) = 1
    BY FS_Singleton DEF SentWhole
  <1>5. t.header = ArrivedHeader(w) /\ Spread(t.payload, t.from, 1)
    BY <1>2, <1>4, Zenon DEF TakenOK
  <1>6. Body(w) = p
    BY <1>3, Zenon DEF Body, IsWhole
  <1>7. ArrivedHeader(w) = h
    BY <1>3, Zenon DEF ArrivedHeader, IsWhole
  <1>8. t.payload = p
    <2>1. PICK q \in Seq(Byte) : q = t.payload
      BY <1>5 DEF Spread
    <2>2. 1 - 1 = 0 /\ 0 * FragmentSize = 0 /\ 0 \in 0 .. 0
      BY Config
    <2>3. PICK l \in Nat : l = Len(p)
      BY <1>1
    <2>4. Len(q) = 0 + l
      BY Zenon, <1>2, <1>5, <1>6, <2>1, <2>2, <2>3 DEF Spread
    <2>5. \A k \in 1 .. l : q[0 + k] = p[k]
      <3>1. \A k \in 1 .. Len(Body(t.from[0])) : q[0 * FragmentSize + k] = Body(t.from[0])[k]
        <4>1. 0 \in 0 .. (1 - 1)
          BY <2>2
        <4> QED
          BY Zenon, <1>5, <2>1, <4>1 DEF Spread
      <3> QED
        BY Zenon, <1>2, <1>6, <2>2, <2>3, <3>1
    <2>6. Len(q) = Len(p) /\ \A k \in 1 .. Len(q) : q[k] = p[k]
      BY ONLY <2>3, <2>4, <2>5, l \in Nat
    <2> QED
      BY <2>1, <2>6, SequenceEqual
  <1> QED
    BY Zenon, <1>1, <1>5, <1>7, <1>8

\* What was put together from the fragments of a send is what was sent.
LEMMA PiecesRoundTrip ==
  ASSUME NEW send \in Sends, NEW t, TakenOK(t),
         SentInPieces(send, t.from, Cardinality(DOMAIN t.from))
  PROVE  t.header = send.header /\ t.payload = send.payload
  <1>1. PICK h \in Headers, p \in Seq(Byte) : h = send.header /\ p = send.payload
    BY SendValue
  <1>2. PICK c \in 1 .. MaxFragments, F \in Nat \ {0} :
          /\ c = FragmentCount(p) /\ F = FragmentSize
          /\ (c - 1) * F < Len(p) /\ Len(p) <= (c - 1) * F + F
    BY <1>1, CountValue
  <1>3. c \in Nat /\ c \in Nat \ {0} /\ 0 \in 0 .. (c - 1)
    BY <1>2, Config
  <1>4. /\ Cardinality(DOMAIN t.from) = c
        /\ DOMAIN t.from = 0 .. (c - 1)
        /\ \A i \in 0 .. (c - 1) : t.from[i] = Fragment(send, i)
    BY <1>1, <1>2, Zenon DEF SentInPieces, TakenOK
  <1>5. t.header = ArrivedHeader(t.from[0]) /\ Spread(t.payload, t.from, c)
    BY <1>4, Zenon DEF TakenOK
  <1>6. \A i \in 0 .. (c - 1) : /\ IsSlice(Body(t.from[i]), p, i, c, F)
                                /\ i = 0 => ArrivedHeader(t.from[i]) = h
    <2> TAKE i \in 0 .. (c - 1)
    <2>1. IsSlice(Slice(p, i), p, i, c, F)
      BY <1>2, <1>3, SliceValue
    <2>2. PICK b \in Seq(Byte) : b = Slice(p, i) /\ Len(b) \in 1 .. F
      BY <2>1 DEF IsSlice
    <2>3. Len(b) \in Nat \ {0}
      BY <1>2, <2>2
    <2>4. IsFragment(Fragment(send, i), h, i, c, b)
      BY <1>1, <1>2, <2>2, <2>3, FragmentValue
    <2>5. t.from[i] = Fragment(send, i)
      BY <1>4, Zenon
    <2> QED
      BY Zenon, <2>1, <2>2, <2>4, <2>5 DEF IsFragment
  <1>7. t.payload = p
    <2>1. t.payload \in Seq(Byte)
      BY <1>5 DEF Spread
    <2> QED
      BY <1>2, <1>3, <1>5, <1>6, <2>1, SlicesJoin
  <1>8. t.header = h
    BY Zenon, <1>3, <1>5, <1>6
  <1> QED
    BY Zenon, <1>1, <1>7, <1>8

\* Bytes that nothing damaged are taken as they were sent.
LEMMA TakenAsSent == Inv => RoundTrip
  <1> SUFFICES ASSUME Structure, Undamaged, NEW t \in taken, NEW send \in sent
               PROVE  t.header = send.header /\ t.payload = send.payload
    BY DEF Inv, RoundTrip
  <1>1. send \in Sends /\ TakenOK(t)
    BY DEF Structure
  <1>2. SentWhole(send, t.from) \/ SentInPieces(send, t.from, Cardinality(DOMAIN t.from))
    <2>1. PICK a \in sent : SentWhole(a, t.from) \/ SentInPieces(a, t.from, Cardinality(DOMAIN t.from))
      BY Zenon DEF Undamaged
    <2>2. a = send
      BY DEF Structure
    <2> QED
      BY Zenon, <2>1, <2>2
  <1> QED
    BY <1>1, <1>2, WholeRoundTrip, PiecesRoundTrip

\* What is written fits.
LEMMA AllFits == Inv => TransmitFits
  <1> SUFFICES ASSUME Structure, Undamaged, NEW packet \in link
               PROVE  Len(packet) <= TransmitBufferSize /\ ~Oversized(packet)
    BY DEF Inv, TransmitFits
  <1>1. PICK send \in sent : packet \in Written(send)
    BY DEF Undamaged
  <1>2. send \in Sends
    BY DEF Structure
  <1> QED
    BY <1>1, <1>2, WrittenFits

-----------------------------------------------------------------------------
(* The theorems                                                            *)

LEMMA InitInv == Init => Inv
  BY InitStructure, InitUndamaged DEF Inv

LEMMA NextInv == Inv /\ [Next]_vars => Inv'
  <1> SUFFICES ASSUME Inv, [Next]_vars PROVE Inv'
    OBVIOUS
  <1>1. Structure'
    BY NextStructure DEF Inv
  <1>2. damaged' = 0 => Undamaged'
    BY NextUndamaged
  <1> QED
    BY <1>1, <1>2 DEF Inv

\* Whatever bits the link flips and whatever packets it invents, every byte of
\* a block under reassembly and of a packet that was taken is the one that came
\* in its fragment; and while it does neither, those fragments are the ones
\* written for what was sent.
THEOREM BytesAccounted == Spec => []Inv
  <1>1. Init => Inv
    BY InitInv
  <1>2. Inv /\ [Next]_vars => Inv'
    BY NextInv
  <1> QED
    BY <1>1, <1>2, PTL DEF Spec

\* What a link that only loses, repeats and reorders brings to the process
\* callback is what reliable_endpoint_send_packet got, for every header, every
\* payload, every fragment size and every order of arrival.
THEOREM RoundTripHolds == Spec => []RoundTrip
  <1>1. Inv => RoundTrip
    BY TakenAsSent
  <1> QED
    BY <1>1, BytesAccounted, PTL

\* The callback takes the header and the payload bytes that came, whatever came:
\* reliable_store_fragment_data and the packet header it writes in front of the
\* payload lose no byte and move none.
THEOREM TakenAsArrivedHolds == Spec => []TakenAsArrived
  <1>1. Inv => TakenAsArrived
    BY TakenArrived DEF Inv, Structure
  <1> QED
    BY <1>1, BytesAccounted, PTL

\* A fragment counted as received has all of its bytes inside packet_data, at
\* its offset: the test against writing past the block never leaves a hole.
THEOREM StoredInPlaceHolds == Spec => []StoredInPlace
  <1>1. Inv => StoredInPlace
    BY AllInPlace DEF Inv, Structure
  <1> QED
    BY <1>1, BytesAccounted, PTL

\* transmit_packet_data is large enough for whatever send_packet writes into it,
\* and a peer with the same configuration does not turn it away as too large.
THEOREM TransmitFitsHolds == Spec => []TransmitFits
  <1>1. Inv => TransmitFits
    BY AllFits
  <1> QED
    BY <1>1, BytesAccounted, PTL
=============================================================================
