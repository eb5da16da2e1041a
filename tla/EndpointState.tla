---------------------------- MODULE EndpointState ----------------------------
(***************************************************************************)
(* reliable_endpoint_t: one record per endpoint, and for every path        *)
(* through send_packet and receive_packet the condition under which the    *)
(* code takes it and the record it leaves behind.                          *)
(*                                                                         *)
(* A packet on the wire is a record.  Its payload is the set of messages   *)
(* of the application whose bytes are in it (one, unless reassembly has    *)
(* mixed two up); its ack_bits are the set of set bits.                    *)
(* Header bytes are read by the codec, of which only the outcome is kept   *)
(* (readable, and the number of header bytes).  Clocks and the statistics  *)
(* computed from them are left out.                                        *)
(***************************************************************************)
EXTENDS SequenceBuffers, Sequences

CONSTANTS SentSize,            \* config: sent_packets_buffer_size
          ReceivedSize,        \* config: received_packets_buffer_size
          ReassemblySize,      \* config: fragment_reassembly_buffer_size
          AckBufferSize,       \* config: ack_buffer_size
          MaxPacketSize, FragmentAbove, FragmentSize, MaxFragments,
          AckWidth,            \* 32: bits in an ack mask
          Counted,             \* the counters a model keeps, all of them in the code
          CounterMod           \* 2^64

CounterNames ==
  {"packets_sent", "packets_received", "packets_acked", "packets_stale",
   "packets_invalid", "packets_too_large_to_send", "packets_too_large_to_receive",
   "fragments_sent", "fragments_received", "fragments_invalid",
   "packets_duplicate"}

\* What reliable_endpoint_create asserts, and the comment on max_fragments.
ASSUME ConfigAssumption ==
  /\ {SentSize, ReceivedSize, ReassemblySize, AckBufferSize} \subseteq Nat \ {0}
  /\ {MaxPacketSize, FragmentAbove, FragmentSize, MaxFragments} \subseteq Nat \ {0}
  /\ MaxFragments * FragmentSize >= MaxPacketSize
  /\ AckWidth \in Nat \ {0}
  /\ Counted \subseteq CounterNames
  /\ CounterMod \in Nat \ {0}

MaxHeader == 9                 \* RELIABLE_MAX_PACKET_HEADER_BYTES

FragmentHeader == 5            \* RELIABLE_FRAGMENT_HEADER_BYTES

-----------------------------------------------------------------------------
\* reliable_endpoint_create.  allocated counts the packet_data blocks got from
\* the allocator and not yet freed.
NewEndpoint ==
  [sequence            |-> 0,
   sent_packets        |-> CreateBuffer(SentSize, FALSE),      \* entry: acked
   received_packets    |-> CreateBuffer(ReceivedSize, NULL),
   fragment_reassembly |-> CreateBuffer(ReassemblySize, NULL), \* entry: Reassembly
   acks                |-> << >>,
   counters            |-> [c \in Counted |-> 0],
   allocated           |-> 0]

\* Add k to each of the named counters.
CountBy(ep, names, k) ==
  [ep EXCEPT !.counters = [c \in Counted |->
     IF c \in names THEN (@[c] + k) % CounterMod ELSE @[c]]]

Count(ep, names) == CountBy(ep, names, 1)

-----------------------------------------------------------------------------
(* reliable_endpoint_send_packet                                           *)

Fragmented(bytes) == bytes > FragmentAbove

NumFragments(bytes) == (bytes + FragmentSize - 1) \div FragmentSize

\* The assert that sent_packets accepts the next sequence.
CanSend(ep) == TestInsert(ep.sent_packets, ep.sequence)

SendTooLarge(ep) == Count(ep, {"packets_too_large_to_send"})

\* The state after a packet has been handed to the transmit callback.
Sent(ep, bytes) ==
  LET s == ep.sequence
      sent == [ep EXCEPT
                 !.sequence = U16(s + 1),
                 !.sent_packets = [Insert(@, s) EXCEPT !.entry_data[Slot(ep.sent_packets, s)] = FALSE]]
  IN  Count(CountBy(sent, {"fragments_sent"},
                    IF Fragmented(bytes) THEN NumFragments(bytes) ELSE 0),
            {"packets_sent"})

\* What the transmit callback gets: one packet, or every fragment of it; only
\* fragment 0 carries the packet header with the acks.
Transmitted(ep, bytes, payload, header) ==
  LET s == ep.sequence
      ack == Ack(ep.received_packets)
      ack_bits == AckBits(ep.received_packets, AckWidth)
      last == NumFragments(bytes) - 1
  IN  IF ~Fragmented(bytes)
        THEN {[type |-> "regular", readable |-> TRUE, sequence |-> s, ack |-> ack,
               ack_bits |-> ack_bits, header |-> header, bytes |-> bytes,
               payload |-> payload]}
        ELSE {[type |-> "fragment", readable |-> TRUE, sequence |-> s,
               ack      |-> IF i = 0 THEN ack ELSE 0,
               ack_bits |-> IF i = 0 THEN ack_bits ELSE {},
               header   |-> IF i = 0 THEN header ELSE 0,
               bytes    |-> IF i < last THEN FragmentSize ELSE bytes - last * FragmentSize,
               payload  |-> payload, fragment_id |-> i, num_fragments |-> last + 1]
                : i \in 0 .. last}

-----------------------------------------------------------------------------
(* reliable_endpoint_receive_packet: a regular packet                      *)

\* The size the transport reports for the packet.
WireBytes(p) ==
  p.bytes + p.header + (IF p.type = "fragment" THEN FragmentHeader ELSE 0)

Oversized(p) == WireBytes(p) > MaxPacketSize + MaxHeader + FragmentHeader

\* Mutants of WhyDropped: stale by plain comparison; no test for duplicates.
WhyDroppedByComparison(ep, p) ==
  IF Oversized(p) THEN "oversized"
  ELSE IF ~p.readable THEN "unreadable"
  ELSE IF p.bytes > MaxPacketSize THEN "too_large"
  ELSE IF StaleNoWrap(ep.received_packets, p.sequence) THEN "stale"
  ELSE IF Exists(ep.received_packets, p.sequence) THEN "duplicate"
  ELSE "processed"

WhyDroppedButDuplicate(ep, p) ==
  IF Oversized(p) THEN "oversized"
  ELSE IF ~p.readable THEN "unreadable"
  ELSE IF p.bytes > MaxPacketSize THEN "too_large"
  ELSE IF ~TestInsert(ep.received_packets, p.sequence) THEN "stale"
  ELSE "processed"

\* Why a regular packet never reaches the process callback: the first of the
\* tests it fails, in the order of the code.
WhyDropped(ep, p) ==
  IF Oversized(p) THEN "oversized"
  ELSE IF ~p.readable THEN "unreadable"
  ELSE IF p.bytes > MaxPacketSize THEN "too_large"
  ELSE IF ~TestInsert(ep.received_packets, p.sequence) THEN "stale"
  ELSE IF Exists(ep.received_packets, p.sequence) THEN "duplicate"
  ELSE "processed"

DropCounters ==
  [oversized  |-> {"packets_too_large_to_receive"},
   unreadable |-> {"packets_received", "packets_invalid"},
   too_large  |-> {"packets_received", "packets_too_large_to_receive"},
   stale      |-> {"packets_received", "packets_stale"},
   duplicate  |-> {"packets_received", "packets_duplicate"}]

Processed(ep, p) == WhyDropped(ep, p) = "processed"

Dropped(ep, p) == Count(ep, DropCounters[WhyDropped(ep, p)])

\* The process callback may answer on the same endpoint, with a packet of
\* reply bytes (0: it does not), before it returns.
AfterCallback(ep, reply) ==
  LET received == Count(ep, {"packets_received"})
  IN  IF reply = 0 THEN received ELSE Sent(received, reply)

\* The callback refuses the packet: nothing records that it came.
Rejected(ep, reply) == AfterCallback(ep, reply)

Acked(b, q) == b.entry_data[Slot(b, q)]

\* Packet q is acked, once and for all, and its sequence reported.
Reported(ep, q) ==
  Count([ep EXCEPT !.acks = Append(@, q),
                   !.sent_packets.entry_data[Slot(ep.sent_packets, q)] = TRUE],
        {"packets_acked"})

\* Mutants of AckBit: a packet acked before is acked again; a packet is acked
\* bit or no bit; room for one ack more; an ack that finds no room is lost.
AckBitAgain(ep, p, i) ==
  LET q == U16(p.ack - i)
  IN  IF /\ i \in p.ack_bits
         /\ Exists(ep.sent_packets, q)
         /\ Len(ep.acks) < AckBufferSize
        THEN Reported(ep, q)
        ELSE ep

AckBitUnseen(ep, p, i) ==
  LET q == U16(p.ack - i)
  IN  IF /\ Exists(ep.sent_packets, q)
         /\ ~Acked(ep.sent_packets, q)
         /\ Len(ep.acks) < AckBufferSize
        THEN Reported(ep, q)
        ELSE ep

AckBitPastEnd(ep, p, i) ==
  LET q == U16(p.ack - i)
  IN  IF /\ i \in p.ack_bits
         /\ Exists(ep.sent_packets, q)
         /\ ~Acked(ep.sent_packets, q)
         /\ Len(ep.acks) <= AckBufferSize
        THEN Reported(ep, q)
        ELSE ep

AckBitLost(ep, p, i) ==
  LET q == U16(p.ack - i)
      b == ep.sent_packets
  IN  IF i \notin p.ack_bits \/ ~Exists(b, q) \/ Acked(b, q) THEN ep
      ELSE IF Len(ep.acks) < AckBufferSize THEN Reported(ep, q)
      ELSE [ep EXCEPT !.sent_packets.entry_data[Slot(b, q)] = TRUE]

\* Bit i of the mask acks packet ack - i, if the endpoint remembers it, unacked,
\* and has room to report it; without room it stays unacked.
AckBit(ep, p, i) ==
  LET q == U16(p.ack - i)
  IN  IF /\ i \in p.ack_bits
         /\ Exists(ep.sent_packets, q)
         /\ ~Acked(ep.sent_packets, q)
         /\ Len(ep.acks) < AckBufferSize
        THEN Reported(ep, q)
        ELSE ep

\* The loop over the bits of the mask, lowest first.
WithAcks(ep, p) ==
  LET after[n \in 0 .. AckWidth] == IF n = 0 THEN ep ELSE AckBit(after[n - 1], p, n - 1)
  IN  after[AckWidth]

\* Mutant of Accepted: fragment reassembly does not follow.
AcceptedAlone(ep, p, reply) ==
  WithAcks([AfterCallback(ep, reply) EXCEPT !.received_packets = Insert(@, p.sequence)], p)

\* The callback takes the packet: remember it, let fragment reassembly follow,
\* then read the acks it carries.
Accepted(ep, p, reply) ==
  LET called == AfterCallback(ep, reply)
      reassembly == called.fragment_reassembly
      remembered ==
        [called EXCEPT
           !.received_packets = Insert(@, p.sequence),
           !.fragment_reassembly = AdvanceWithCleanup(@, p.sequence),
           !.allocated = @ - Freed(reassembly, Overtaken(reassembly, p.sequence))]
  IN  WithAcks(remembered, p)

\* What a call of receive_packet may come to: the endpoint after it, the
\* endpoint as the process callback found it, what the callback sent, and the
\* packet (none or one) that it took.
Result(after, during, reply, taken) ==
  [endpoint |-> after, during |-> during, reply |-> reply, taken |-> taken]

Unprocessed(after) == Result(after, after, 0, {})

\* A reply needs room for its sequence like any other send.
CanReply(ep, reply) == reply = 0 \/ CanSend(ep)

RegularResults(ep, p, replies) ==
  IF ~Processed(ep, p)
    THEN {Unprocessed(Dropped(ep, p))}
    ELSE UNION {{Result(Rejected(ep, r), ep, r, {}), Result(Accepted(ep, p, r), ep, r, {p})}
                  : r \in {r \in replies : CanReply(ep, r)}}

-----------------------------------------------------------------------------
(* reliable_endpoint_receive_packet: a fragment                            *)

\* Mutant of ValidFragment: any number of fragments.
ValidFragmentOfMany(p) ==
  /\ p.readable
  /\ p.fragment_id < p.num_fragments
  /\ p.bytes <= FragmentSize
  /\ p.fragment_id # p.num_fragments - 1 => p.bytes = FragmentSize

\* reliable_read_fragment_header.
ValidFragment(p) ==
  /\ p.readable
  /\ p.num_fragments <= MaxFragments
  /\ p.fragment_id < p.num_fragments
  /\ p.bytes <= FragmentSize
  /\ p.fragment_id # p.num_fragments - 1 => p.bytes = FragmentSize

\* reliable_fragment_reassembly_data_t of an entry with a packet_data block;
\* parts are the fragments received, with what was stored of each.
NewReassembly(num_fragments) ==
  [num_fragments_total |-> num_fragments, parts |-> << >>,
   ack |-> 0, ack_bits |-> {}, header |-> 0]

UnderReassembly(ep, s) ==
  ep.fragment_reassembly.entry_data[Slot(ep.fragment_reassembly, s)]

\* Mutant of WhyIgnored: the packet may have been received already.
WhyIgnoredButReceived(ep, p) ==
  LET s == p.sequence
  IN  IF Oversized(p) THEN "oversized"
      ELSE IF ~ValidFragment(p) THEN "invalid"
      ELSE IF ~Exists(ep.fragment_reassembly, s)
        THEN IF InsertRefused(ep.fragment_reassembly, s) THEN "refused" ELSE "stored"
      ELSE IF p.num_fragments # UnderReassembly(ep, s).num_fragments_total THEN "mismatch"
      ELSE IF p.fragment_id \in DOMAIN UnderReassembly(ep, s).parts THEN "repeated"
      ELSE "stored"

\* Why a fragment is ignored: the first of the tests it fails.
WhyIgnored(ep, p) ==
  LET s == p.sequence
  IN  IF Oversized(p) THEN "oversized"
      ELSE IF ~ValidFragment(p) THEN "invalid"
      ELSE IF Exists(ep.received_packets, s) THEN "received"
      ELSE IF ~Exists(ep.fragment_reassembly, s)
        THEN IF InsertRefused(ep.fragment_reassembly, s) THEN "refused" ELSE "stored"
      ELSE IF p.num_fragments # UnderReassembly(ep, s).num_fragments_total THEN "mismatch"
      ELSE IF p.fragment_id \in DOMAIN UnderReassembly(ep, s).parts THEN "repeated"
      ELSE "stored"

IgnoreCounters ==
  [oversized |-> {"packets_too_large_to_receive"},
   invalid   |-> {"fragments_invalid"},
   received  |-> {},
   refused   |-> {"fragments_invalid"},
   mismatch  |-> {"fragments_invalid"},
   repeated  |-> {}]

Stored(ep, p) == WhyIgnored(ep, p) = "stored"

Ignored(ep, p) == Count(ep, IgnoreCounters[WhyIgnored(ep, p)])

\* Mutant of Opened: the entry is set up anew for every fragment.
OpenedAnew(ep, p) ==
  LET s == p.sequence
      reassembly == ep.fragment_reassembly
  IN  [ep EXCEPT
         !.fragment_reassembly =
            [InsertWithCleanup(@, s) EXCEPT
               !.entry_data[Slot(reassembly, s)] = NewReassembly(p.num_fragments)],
         !.received_packets = Advance(@, s),
         !.allocated = @ - Freed(reassembly, InsertCleans(reassembly, s)) + 1]

\* Find the packet's reassembly entry; if there is none, open one, and move
\* the window of received packets along although the packet is not complete.
Opened(ep, p) ==
  LET s == p.sequence
      reassembly == ep.fragment_reassembly
  IN  IF Exists(reassembly, s) THEN ep
      ELSE [ep EXCEPT
              !.fragment_reassembly =
                 [InsertWithCleanup(@, s) EXCEPT
                    !.entry_data[Slot(reassembly, s)] = NewReassembly(p.num_fragments)],
              !.received_packets = Advance(@, s),
              !.allocated = @ - Freed(reassembly, InsertCleans(reassembly, s)) + 1]

\* reliable_store_fragment_data; fragment 0 brings the packet header.
WithFragment(data, p) ==
  [data EXCEPT
     !.parts = [i \in DOMAIN @ \cup {p.fragment_id} |->
                  IF i = p.fragment_id THEN [payload |-> p.payload, bytes |-> p.bytes]
                                       ELSE @[i]],
     !.ack      = IF p.fragment_id = 0 THEN p.ack ELSE @,
     !.ack_bits = IF p.fragment_id = 0 THEN p.ack_bits ELSE @,
     !.header   = IF p.fragment_id = 0 THEN p.header ELSE @]

AfterStore(ep, p) ==
  [Opened(ep, p) EXCEPT
     !.fragment_reassembly.entry_data[Slot(ep.fragment_reassembly, p.sequence)] =
        WithFragment(@, p)]

Complete(data) == Cardinality(DOMAIN data.parts) = data.num_fragments_total

\* Mutant of WholePacket: the last fragment counts in full.
WholePacketRoundedUp(s, data) ==
  [type |-> "regular", readable |-> TRUE, sequence |-> s, ack |-> data.ack,
   ack_bits |-> data.ack_bits, header |-> data.header,
   bytes   |-> data.num_fragments_total * FragmentSize,
   payload |-> UNION {data.parts[i].payload : i \in DOMAIN data.parts}]

\* The packet handed to the recursive receive_packet, made of what its
\* fragments carried.
WholePacket(s, data) ==
  LET last == data.num_fragments_total - 1
  IN  [type |-> "regular", readable |-> TRUE, sequence |-> s, ack |-> data.ack,
       ack_bits |-> data.ack_bits, header |-> data.header,
       bytes   |-> last * FragmentSize + data.parts[last].bytes,
       payload |-> UNION {data.parts[i].payload : i \in DOMAIN data.parts}]

\* Mutant of Closed: the entry goes, its block stays.
ClosedUnfreed(ep, s) ==
  [ep EXCEPT !.fragment_reassembly = Remove(@, s)]

\* What follows the recursive call.
Closed(ep, s) ==
  LET reassembly == ep.fragment_reassembly
  IN  [ep EXCEPT !.fragment_reassembly = RemoveWithCleanup(@, s),
                 !.allocated = @ - Freed(reassembly, RemoveCleans(reassembly, s))]

CountFragment(ep) == Count(ep, {"fragments_received"})

\* The packet that fragment p completes.
Collected(ep, p) ==
  WholePacket(p.sequence, UnderReassembly(AfterStore(ep, p), p.sequence))

\* Mutant of CompletionResults: the entry is freed only if the packet is taken.
CompletionResultsKept(ep, p, replies) ==
  {Result(CountFragment(IF r.taken = {} THEN r.endpoint ELSE Closed(r.endpoint, p.sequence)),
          r.during, r.reply, r.taken)
     : r \in RegularResults(AfterStore(ep, p), Collected(ep, p), replies)}

\* The fragment that completes its packet: receive_packet calls itself on the
\* whole, and frees the entry whatever became of it.
CompletionResults(ep, p, replies) ==
  {Result(CountFragment(Closed(r.endpoint, p.sequence)), r.during, r.reply, r.taken)
     : r \in RegularResults(AfterStore(ep, p), Collected(ep, p), replies)}

Completes(ep, p) == Complete(UnderReassembly(AfterStore(ep, p), p.sequence))

Results(ep, p, replies) ==
  IF p.type = "regular" THEN RegularResults(ep, p, replies)
  ELSE IF ~Stored(ep, p) THEN {Unprocessed(Ignored(ep, p))}
  ELSE IF ~Completes(ep, p) THEN {Unprocessed(CountFragment(AfterStore(ep, p)))}
  ELSE CompletionResults(ep, p, replies)

-----------------------------------------------------------------------------
\* reliable_endpoint_clear_acks
AcksCleared(ep) == [ep EXCEPT !.acks = << >>]

\* reliable_endpoint_reset frees the blocks of occupied entries itself.
AfterReset(ep) ==
  LET reassembly == ep.fragment_reassembly
      held == {i \in Slots(reassembly) : Occupied(reassembly, i)}
  IN  [ep EXCEPT !.sequence = 0, !.acks = << >>,
                 !.counters = [c \in Counted |-> 0],
                 !.sent_packets = ResetBuffer(@),
                 !.received_packets = ResetBuffer(@),
                 !.fragment_reassembly = ResetBuffer(Cleanup(@, held)),
                 !.allocated = @ - Freed(reassembly, held)]

-----------------------------------------------------------------------------
(* reliable_endpoint_update: what it samples                               *)

\* Mutant of Sampled: the newer half of the window.
SampledNewest(b) ==
  {q \in Present(b) : Distance(b.sequence, q) <= b.num_entries \div 2}

\* The entries the averages are taken over: those of the older half of the
\* window, num_entries / 2 sequences from sequence - num_entries on.
Sampled(b) ==
  LET base == U16(b.sequence - b.num_entries)
  IN  {q \in {U16(base + i) : i \in 0 .. (b.num_entries \div 2 - 1)} : Exists(b, q)}

-----------------------------------------------------------------------------
(* The types of packets and of the fields of reliable_endpoint_t, for a set  *)
(* of payloads.                                                            *)

RegularPackets(payloads) ==
  [type : {"regular"}, readable : BOOLEAN, sequence : Seqs, ack : Seqs,
   ack_bits : SUBSET (0 .. (AckWidth - 1)), header : Nat, bytes : Nat,
   payload : payloads]

FragmentPackets(payloads) ==
  [type : {"fragment"}, readable : BOOLEAN, sequence : Seqs, ack : Seqs,
   ack_bits : SUBSET (0 .. (AckWidth - 1)), header : Nat, bytes : Nat,
   payload : payloads, fragment_id : Nat, num_fragments : Nat \ {0}]

Parts(payloads) == [payload : payloads, bytes : 0 .. FragmentSize]

Reassemblies(payloads) ==
  [num_fragments_total : 1 .. MaxFragments,
   parts    : UNION {[ids -> Parts(payloads)] : ids \in SUBSET (0 .. (MaxFragments - 1))},
   ack      : Seqs,
   ack_bits : SUBSET (0 .. (AckWidth - 1)),
   header   : Nat]

Endpoints(payloads) ==
  [sequence            : Seqs,
   sent_packets        : Buffer(SentSize, BOOLEAN),
   received_packets    : Buffer(ReceivedSize, {NULL}),
   fragment_reassembly : Buffer(ReassemblySize, {NULL} \cup Reassemblies(payloads)),
   acks                : Seq(Seqs),
   counters            : [Counted -> 0 .. (CounterMod - 1)],
   allocated           : Int]
=============================================================================
