----------------------------- MODULE PacketHeader ------------------------------
(***************************************************************************)
(* The bytes of packet headers and fragment headers: what the writers of   *)
(* reliable.c produce and what its readers make of any bytes.              *)
(*                                                                         *)
(* A packet is a sequence of bytes.  A header is the triple that           *)
(* reliable_write_packet_header gets; its ack_bits are the four bytes of   *)
(* the mask, low byte first.                                               *)
(***************************************************************************)
EXTENDS SequenceNumbers, Sequences

CONSTANTS MaxFragments, FragmentSize     \* config: max_fragments, fragment_size

ASSUME ByteAssumption == Half = 32768    \* a sequence is two bytes

ASSUME FragmentAssumption == MaxFragments \in 1 .. 256 /\ FragmentSize \in Nat \ {0}

Byte == 0 .. 255

Bits == {1, 2, 4, 8, 16, 32, 64, 128}

Headers == [sequence : Seqs, ack : Seqs, ack_bits : [1 .. 4 -> Byte]]

MaxHeaderBytes == 9            \* RELIABLE_MAX_PACKET_HEADER_BYTES

FragmentHeaderBytes == 5       \* RELIABLE_FRAGMENT_HEADER_BYTES

-----------------------------------------------------------------------------
\* reliable_write_uint16 and reliable_read_uint16: low byte first.
WriteUint16(x) == <<x % 256, x \div 256>>

ReadUint16(packet, at) == packet[at] + 256 * packet[at + 1]

\* The bits of a prefix byte: 1 marks a fragment, 2, 4, 8 and 16 the bytes of
\* the mask that are present, 32 a one-byte ack.
HasBit(prefix, bit) == (prefix \div bit) % 2 = 1

FragmentBit == 1

NearBit == 32

-----------------------------------------------------------------------------
(* reliable_write_packet_header                                            *)

Bit(condition, bit) == IF condition THEN bit ELSE 0

Difference(h) == Distance(h.sequence, h.ack)

Near(h) == Difference(h) <= 255

Prefix(h) == Bit(h.ack_bits[1] # 255, 2) + Bit(h.ack_bits[2] # 255, 4)
               + Bit(h.ack_bits[3] # 255, 8) + Bit(h.ack_bits[4] # 255, 16)
               + Bit(Near(h), NearBit)

AckField(h) == IF Near(h) THEN <<Difference(h)>> ELSE WriteUint16(h.ack)

MaskField(byte) == IF byte = 255 THEN << >> ELSE <<byte>>

\* Mutant of WriteHeader: a difference of 256 counts as one byte.
WriteHeaderNear256(h) ==
  LET near == Difference(h) <= 256
  IN  <<Bit(h.ack_bits[1] # 255, 2) + Bit(h.ack_bits[2] # 255, 4)
          + Bit(h.ack_bits[3] # 255, 8) + Bit(h.ack_bits[4] # 255, 16) + Bit(near, NearBit)>>
        \o WriteUint16(h.sequence)
        \o (IF near THEN <<Difference(h) % 256>> ELSE WriteUint16(h.ack))
        \o MaskField(h.ack_bits[1]) \o MaskField(h.ack_bits[2])
        \o MaskField(h.ack_bits[3]) \o MaskField(h.ack_bits[4])

WriteHeader(h) ==
  <<Prefix(h)>> \o WriteUint16(h.sequence) \o AckField(h)
    \o MaskField(h.ack_bits[1]) \o MaskField(h.ack_bits[2])
    \o MaskField(h.ack_bits[3]) \o MaskField(h.ack_bits[4])

-----------------------------------------------------------------------------
(* reliable_read_packet_header                                             *)

AckBytes(prefix) == IF HasBit(prefix, NearBit) THEN 1 ELSE 2

\* How many of the first n mask bytes are present.
MaskBytes(prefix, n) ==
  Bit(n >= 1 /\ HasBit(prefix, 2), 1) + Bit(n >= 2 /\ HasBit(prefix, 4), 1)
    + Bit(n >= 3 /\ HasBit(prefix, 8), 1) + Bit(n >= 4 /\ HasBit(prefix, 16), 1)

HeaderBytes(packet) == 3 + AckBytes(packet[1]) + MaskBytes(packet[1], 4)

\* The reader returns the number of header bytes; otherwise it returns -1.
Readable(packet) ==
  /\ Len(packet) >= 3
  /\ ~HasBit(packet[1], FragmentBit)
  /\ Len(packet) >= 3 + AckBytes(packet[1])
  /\ Len(packet) >= HeaderBytes(packet)

\* The mask byte n, whose flag in the prefix is bit.
ReadMask(packet, n, bit) ==
  IF HasBit(packet[1], bit)
    THEN packet[3 + AckBytes(packet[1]) + MaskBytes(packet[1], n)]
    ELSE 255

ReadAck(packet) ==
  IF HasBit(packet[1], NearBit) THEN U16(ReadUint16(packet, 2) - packet[4])
                                ELSE ReadUint16(packet, 4)

ReadHeader(packet) ==
  [sequence |-> ReadUint16(packet, 2),
   ack      |-> ReadAck(packet),
   ack_bits |-> <<ReadMask(packet, 1, 2), ReadMask(packet, 2, 4),
                  ReadMask(packet, 3, 8), ReadMask(packet, 4, 16)>>]

\* The packet without its first n bytes.
After(packet, n) == SubSeq(packet, n + 1, Len(packet))

Payload(packet) == After(packet, HeaderBytes(packet))

\* The header's bytes are those the writer would have written.
Canonical(packet) == WriteHeader(ReadHeader(packet)) = SubSeq(packet, 1, HeaderBytes(packet))

-----------------------------------------------------------------------------
(* The fragment header, and what is embedded behind it in fragment 0       *)

WriteFragmentHeader(sequence, id, num_fragments) ==
  <<FragmentBit>> \o WriteUint16(sequence) \o <<id, num_fragments - 1>>

FragmentId(packet) == packet[4]

NumFragments(packet) == packet[5] + 1

FragmentSequence(packet) == ReadUint16(packet, 2)

Embedded(packet) == After(packet, FragmentHeaderBytes)

\* The header bytes that come with a fragment.
EmbeddedBytes(packet) ==
  IF FragmentId(packet) = 0 THEN HeaderBytes(Embedded(packet)) ELSE 0

FragmentBytes(packet) ==
  Len(packet) - FragmentHeaderBytes - EmbeddedBytes(packet)

\* Mutant of ReadableFragment: any encoding of the embedded header.
ReadableFragmentAnyCode(packet) ==
  /\ Len(packet) >= FragmentHeaderBytes
  /\ packet[1] = FragmentBit
  /\ NumFragments(packet) <= MaxFragments
  /\ FragmentId(packet) < NumFragments(packet)
  /\ FragmentId(packet) = 0 =>
       /\ Readable(Embedded(packet))
       /\ ReadUint16(Embedded(packet), 2) = FragmentSequence(packet)
  /\ FragmentBytes(packet) <= FragmentSize
  /\ FragmentId(packet) # NumFragments(packet) - 1 => FragmentBytes(packet) = FragmentSize

\* Mutant of ReadableFragment: no limit on the bytes of a fragment.
ReadableFragmentOfAnySize(packet) ==
  /\ Len(packet) >= FragmentHeaderBytes
  /\ packet[1] = FragmentBit
  /\ NumFragments(packet) <= MaxFragments
  /\ FragmentId(packet) < NumFragments(packet)
  /\ FragmentId(packet) = 0 =>
       /\ Readable(Embedded(packet))
       /\ ReadUint16(Embedded(packet), 2) = FragmentSequence(packet)
       /\ Canonical(Embedded(packet))

\* reliable_read_fragment_header does not return -1.
ReadableFragment(packet) ==
  /\ Len(packet) >= FragmentHeaderBytes
  /\ packet[1] = FragmentBit
  /\ NumFragments(packet) <= MaxFragments
  /\ FragmentId(packet) < NumFragments(packet)
  /\ FragmentId(packet) = 0 =>
       /\ Readable(Embedded(packet))
       /\ ReadUint16(Embedded(packet), 2) = FragmentSequence(packet)
       /\ Canonical(Embedded(packet))
  /\ FragmentBytes(packet) <= FragmentSize
  /\ FragmentId(packet) # NumFragments(packet) - 1 => FragmentBytes(packet) = FragmentSize
=============================================================================
