--------------------------------- MODULE Codec ---------------------------------
(***************************************************************************)
(* One packet of one endpoint, byte for byte: written, split, carried by a *)
(* link that may flip bits, repeat and reorder, read, stored in            *)
(* packet_data, put together and read again by the other endpoint.         *)
(*                                                                         *)
(* The windows of the receiving endpoint are modules of their own; here a  *)
(* packet that arrives may always be passed over, and an entry under       *)
(* reassembly may go at any time, which covers whatever they decide.       *)
(* A packet the receiver ignores changes nothing and is no step.           *)
(***************************************************************************)
EXTENDS PacketHeader, FiniteSets

Ext == INSTANCE SequencesExt

CONSTANTS Sends,               \* [header, payload]: what the endpoint may send
          Strays,              \* packets that come from nowhere
          MaxPacketSize, FragmentAbove,
          Damageable,           \* bound: the sends that may meet damage
          MaxDamage             \* bound: bits the link flips, strays it lets in

ASSUME CodecAssumption ==
  /\ Sends \subseteq [header : Headers, payload : Seq(Byte) \ {<< >>}]
  /\ Strays \subseteq Seq(Byte) \ {<< >>}
  /\ MaxPacketSize \in Nat
  /\ \A send \in Sends : Len(send.payload) <= MaxPacketSize
  /\ Damageable \subseteq Sends
  /\ MaxFragments * FragmentSize >= MaxPacketSize

VARIABLES sent,     \* what was sent, if anything: a set of at most one send
          link,     \* the packets on their way
          damaged,  \* how many bits were flipped and strays let in
          blocks,   \* sequence -> its fragment_reassembly_data
          taken     \* the packets the process callback took

vars == <<sent, link, damaged, blocks, taken>>

Init == /\ sent = {}
        /\ link = {}
        /\ damaged = 0
        /\ blocks = << >>
        /\ taken = {}

-----------------------------------------------------------------------------
(* reliable_endpoint_send_packet, from the header on                       *)

\* Mutant of TransmitBufferSize: sized for regular packets only.
TransmitBufferSizeRegular == MaxPacketSize + MaxHeaderBytes

\* The scratch buffer of reliable_endpoint_create.
TransmitBufferSize ==
  LET regular  == MaxPacketSize + MaxHeaderBytes
      fragment == FragmentHeaderBytes + MaxHeaderBytes + FragmentSize
  IN  IF fragment > regular THEN fragment ELSE regular

FragmentCount(payload) == (Len(payload) + FragmentSize - 1) \div FragmentSize

\* The payload bytes of fragment i.
Slice(payload, i) ==
  SubSeq(payload, i * FragmentSize + 1,
         IF (i + 1) * FragmentSize > Len(payload) THEN Len(payload) ELSE (i + 1) * FragmentSize)

Fragment(send, i) ==
  WriteFragmentHeader(send.header.sequence, i, FragmentCount(send.payload))
    \o (IF i = 0 THEN WriteHeader(send.header) ELSE << >>)
    \o Slice(send.payload, i)

Written(send) ==
  IF Len(send.payload) <= FragmentAbove
    THEN {WriteHeader(send.header) \o send.payload}
    ELSE {Fragment(send, i) : i \in 0 .. (FragmentCount(send.payload) - 1)}

Send(send) ==
  /\ sent = {}
  /\ damaged = 0 \/ send \in Damageable
  /\ sent' = {send}
  /\ link' = link \cup Written(send)
  /\ UNCHANGED <<damaged, blocks, taken>>

-----------------------------------------------------------------------------
(* The link                                                                *)

Flipped(byte, bit) == IF HasBit(byte, bit) THEN byte - bit ELSE byte + bit

\* A bound of the model, which the link does not have: so many damages, and
\* none to sends that the others stand for.
MayDamage == damaged < MaxDamage /\ sent \subseteq Damageable

Corrupt(packet, k, bit) ==
  /\ MayDamage
  /\ damaged' = damaged + 1
  /\ link' = (link \ {packet}) \cup {[packet EXCEPT ![k] = Flipped(@, bit)]}
  /\ UNCHANGED <<sent, blocks, taken>>

\* inject_random_packet
Inject(packet) ==
  /\ MayDamage
  /\ damaged' = damaged + 1
  /\ link' = link \cup {packet}
  /\ UNCHANGED <<sent, blocks, taken>>

-----------------------------------------------------------------------------
(* reliable_endpoint_receive_packet                                        *)

Oversized(packet) == Len(packet) > MaxPacketSize + MaxHeaderBytes + FragmentHeaderBytes

Received(s) == \E t \in taken : t.header.sequence = s

\* What the callback takes of a regular packet that passes the tests; from
\* keeps the packets it came in, by fragment, and exists only in the model.
TakenFrom(packet, from) ==
  IF /\ ~Oversized(packet)
     /\ Readable(packet)
     /\ Len(Payload(packet)) <= MaxPacketSize
     /\ ~Received(ReadHeader(packet).sequence)
    THEN {[header |-> ReadHeader(packet), payload |-> Payload(packet), from |-> from]}
    ELSE {}

ReceiveRegular(packet) ==
  /\ ~HasBit(packet[1], FragmentBit)
  /\ TakenFrom(packet, [i \in {0} |-> packet]) # {}
  /\ taken' = taken \cup TakenFrom(packet, [i \in {0} |-> packet])
  /\ UNCHANGED <<sent, link, damaged, blocks>>

\* A byte of the heap that nothing was written to.
Unset == 256

\* The block comes from the allocator as it is.  pieces are the packets the
\* fragments came in; the code keeps only which have come.
NewBlock(num_fragments) ==
  [num_fragments_total |-> num_fragments, packet_header_bytes |-> 0, packet_bytes |-> 0,
   packet_data |-> [k \in 1 .. (MaxHeaderBytes + num_fragments * FragmentSize) |-> Unset],
   pieces |-> << >>]

\* memcpy( data + offset, bytes, Len(bytes) )
Copied(data, offset, bytes) ==
  [k \in DOMAIN data |-> IF k - offset \in DOMAIN bytes THEN bytes[k - offset] ELSE data[k]]

\* reliable_store_fragment_data: fragment 0 has its packet header written anew,
\* so as to end where the payload begins.
StoreFragment(block, packet) ==
  LET id     == FragmentId(packet)
      header == IF id = 0 THEN WriteHeader(ReadHeader(Embedded(packet))) ELSE << >>
      bytes  == After(Embedded(packet), Len(header))
      offset == MaxHeaderBytes + id * FragmentSize
      last   == block.num_fragments_total - 1
      placed == Copied(block.packet_data, MaxHeaderBytes - Len(header), header)
  IN  [block EXCEPT
         !.packet_header_bytes = IF id = 0 THEN Len(header) ELSE @,
         !.packet_bytes = IF id = last THEN last * FragmentSize + Len(bytes) ELSE @,
         !.packet_data = IF offset + Len(bytes) > Len(@) THEN placed
                                                         ELSE Copied(placed, offset, bytes),
         !.pieces = [i \in DOMAIN @ \cup {id} |-> IF i = id THEN packet ELSE @[i]]]

Complete(block) == Cardinality(DOMAIN block.pieces) = block.num_fragments_total

\* The packet in the block; memory past the block is like memory not written.
Whole(block) ==
  LET start == MaxHeaderBytes - block.packet_header_bytes
  IN  [k \in 1 .. (block.packet_header_bytes + block.packet_bytes) |->
         IF start + k \in DOMAIN block.packet_data THEN block.packet_data[start + k] ELSE Unset]

Without(s) == [r \in DOMAIN blocks \ {s} |-> blocks[r]]

\* A fragment that is stored; the callback may reject the packet it completes.
ReceiveFragment(packet) ==
  LET s     == FragmentSequence(packet)
      block == IF s \in DOMAIN blocks THEN blocks[s] ELSE NewBlock(NumFragments(packet))
      stored == StoreFragment(block, packet)
  IN  /\ ~Oversized(packet)
      /\ ReadableFragment(packet)
      /\ ~Received(s)
      /\ NumFragments(packet) = block.num_fragments_total
      /\ FragmentId(packet) \notin DOMAIN block.pieces
      /\ IF Complete(stored)
           THEN /\ blocks' = Without(s)
                /\ \E accepts \in BOOLEAN :
                     taken' = IF accepts THEN taken \cup TakenFrom(Whole(stored), stored.pieces)
                                         ELSE taken
           ELSE /\ blocks' = [r \in DOMAIN blocks \cup {s} |->
                                IF r = s THEN stored ELSE blocks[r]]
                /\ UNCHANGED taken
      /\ UNCHANGED <<sent, link, damaged>>

\* The window of fragment_reassembly moves past an entry.
Evict(s) == /\ blocks' = Without(s)
            /\ UNCHANGED <<sent, link, damaged, taken>>

Next ==
  \/ \E send \in Sends : Send(send)
  \/ \E packet \in link : \E k \in DOMAIN packet : \E bit \in Bits : Corrupt(packet, k, bit)
  \/ \E packet \in Strays : Inject(packet)
  \/ \E packet \in link : ReceiveRegular(packet) \/ ReceiveFragment(packet)
  \/ \E s \in DOMAIN blocks : Evict(s)

Spec == Init /\ [][Next]_vars

-----------------------------------------------------------------------------
\* What a link that damages nothing brings is what was sent: the header with
\* every bit of its mask, and the payload, whole or in fragments, in any order.
RoundTrip ==
  damaged = 0 =>
    \A t \in taken : \A send \in sent :
       t.header = send.header /\ t.payload = send.payload

\* The bytes of a packet that are the application's.
Body(packet) ==
  IF HasBit(packet[1], FragmentBit)
    THEN After(packet, FragmentHeaderBytes + EmbeddedBytes(packet))
    ELSE Payload(packet)

ArrivedHeader(packet) ==
  ReadHeader(IF HasBit(packet[1], FragmentBit) THEN Embedded(packet) ELSE packet)

\* Whatever the link did, the callback takes the header that came, and the
\* payload bytes that came after it, in the order of the fragments: writing the
\* header anew behind a fragment's back never moves the payload, and no byte
\* of the block that nobody wrote is handed on.
TakenAsArrived ==
  \A t \in taken :
     /\ t.header = ArrivedHeader(t.from[0])
     /\ t.payload = Ext!FlattenSeq([k \in 1 .. Cardinality(DOMAIN t.from) |-> Body(t.from[k - 1])])

\* A fragment marked as received has all of its bytes where they belong: the
\* check that refuses to write past the block never leaves a hole, and no
\* fragment is written over a part of another.
StoredInPlace ==
  \A s \in DOMAIN blocks : \A i \in DOMAIN blocks[s].pieces :
     LET body == Body(blocks[s].pieces[i])
         at   == MaxHeaderBytes + i * FragmentSize
     IN  \A k \in DOMAIN body :
            /\ at + k \in DOMAIN blocks[s].packet_data
            /\ blocks[s].packet_data[at + k] = body[k]

\* Nothing is written past the scratch buffer, and no packet is larger than a
\* receiver with the same configuration lets in.
TransmitFits ==
  damaged = 0 => \A packet \in link : Len(packet) <= TransmitBufferSize /\ ~Oversized(packet)
=============================================================================
