------------------------- MODULE EndpointState_proofs -------------------------
(***************************************************************************)
(* Lemmas about the ways through send_packet and receive_packet: what each *)
(* changes in an endpoint and what it leaves alone, that it returns a well *)
(* formed endpoint, and that it keeps the three windows.  P is the set of  *)
(* payloads that packets may carry.                                        *)
(***************************************************************************)
EXTENDS EndpointState, SequenceBuffers_proofs, SequenceTheorems

\* An endpoint of the right type, whose buffers end where they must, whose ack
\* array fits, and whose blocks are those of its occupied reassembly entries.
WellFormed(P, ep) ==
  /\ ep \in Endpoints(P)
  /\ ep.received_packets.sequence = ep.fragment_reassembly.sequence
  /\ ep.sent_packets.sequence = ep.sequence
  /\ Len(ep.acks) <= AckBufferSize
  /\ Accounted(ep.fragment_reassembly, ep.allocated)

AllWindowed(ep) ==
  /\ Windowed(ep.sent_packets)
  /\ Windowed(ep.received_packets)
  /\ Windowed(ep.fragment_reassembly)

\* The sizes for which the three buffers are windows.
SizesFitCircle ==
  FitsCircle(SentSize) /\ FitsCircle(ReceivedSize) /\ FitsCircle(ReassemblySize)

\* The sizes and bounds of the configuration are positive.
LEMMA ConfigNumbers ==
  /\ SentSize \in Nat \ {0} /\ ReceivedSize \in Nat \ {0} /\ ReassemblySize \in Nat \ {0}
  /\ AckBufferSize \in Nat \ {0} /\ AckWidth \in Nat \ {0} /\ CounterMod \in Nat \ {0}
  /\ FragmentSize \in Nat \ {0} /\ MaxFragments \in Nat \ {0}
  BY ConfigAssumption

\* What an entry without data holds is a value of its type.
LEMMA Entries ==
  ASSUME NEW P
  PROVE  /\ NULL \in {NULL} /\ NULL \in {NULL} \cup Reassemblies(P)
         /\ FALSE \in BOOLEAN /\ TRUE \in BOOLEAN
  OBVIOUS

-----------------------------------------------------------------------------
(* Counters                                                                *)

\* Everything but the counters is as it was.
SameButCounters(ep, new) ==
  /\ new.sequence = ep.sequence
  /\ new.sent_packets = ep.sent_packets
  /\ new.received_packets = ep.received_packets
  /\ new.fragment_reassembly = ep.fragment_reassembly
  /\ new.acks = ep.acks
  /\ new.allocated = ep.allocated

\* Counting changes the counters and nothing else.
LEMMA CountChanges ==
  ASSUME NEW P, NEW ep \in Endpoints(P), NEW names, NEW k \in Nat
  PROVE  /\ CountBy(ep, names, k) \in Endpoints(P)
         /\ SameButCounters(ep, CountBy(ep, names, k))
  <1> DEFINE counters == [c \in Counted |-> IF c \in names
                                              THEN (ep.counters[c] + k) % CounterMod
                                              ELSE ep.counters[c]]
  <1>1. CountBy(ep, names, k) = [ep EXCEPT !.counters = counters]
    BY Zenon DEF CountBy
  <1>2. counters \in [Counted -> 0 .. (CounterMod - 1)]
    <2>1. ep.counters \in [Counted -> 0 .. (CounterMod - 1)]
      BY DEF Endpoints
    <2>2. \A x \in 0 .. (CounterMod - 1) : (x + k) % CounterMod \in 0 .. (CounterMod - 1)
      BY ConfigNumbers, DivMod
    <2> QED
      BY <2>1, <2>2
  <1> HIDE DEF counters
  <1> QED
    BY <1>1, <1>2 DEF Endpoints, SameButCounters

\* The same for counting one.
LEMMA CountOneChanges ==
  ASSUME NEW P, NEW ep \in Endpoints(P), NEW names
  PROVE  Count(ep, names) \in Endpoints(P) /\ SameButCounters(ep, Count(ep, names))
  BY CountChanges DEF Count

\* The invariant says nothing of the counters but their type.
LEMMA CountWellFormed ==
  ASSUME NEW P, NEW ep, WellFormed(P, ep), NEW new \in Endpoints(P),
         SameButCounters(ep, new)
  PROVE  /\ WellFormed(P, new)
         /\ AllWindowed(ep) => AllWindowed(new)
  BY DEF WellFormed, SameButCounters, AllWindowed

-----------------------------------------------------------------------------
(* Creation                                                                *)

\* A new endpoint has the invariant.
LEMMA CreatedWellFormed ==
  ASSUME NEW P
  PROVE  WellFormed(P, NewEndpoint) /\ AllWindowed(NewEndpoint)
  <1> DEFINE ep == NewEndpoint
  <1>1. /\ CreateBuffer(SentSize, FALSE) \in Buffer(SentSize, BOOLEAN)
        /\ CreateBuffer(ReceivedSize, NULL) \in Buffer(ReceivedSize, {NULL})
        /\ CreateBuffer(ReassemblySize, NULL)
             \in Buffer(ReassemblySize, {NULL} \cup Reassemblies(P))
    BY ConfigNumbers, Entries, CreateType
  <1>2. 0 \in Seqs /\ 0 \in 0 .. (CounterMod - 1) /\ << >> \in Seq(Seqs) /\ Len(<< >>) = 0
    BY CircleNumbers, ConfigNumbers
  <1>3. ep \in Endpoints(P)
    <2>1. [c \in Counted |-> 0] \in [Counted -> 0 .. (CounterMod - 1)]
      BY <1>2
    <2>2. 0 \in Int
      OBVIOUS
    <2> QED
      BY ONLY <1>1, <1>2, <2>1, <2>2 DEF NewEndpoint, Endpoints
  <1>4. Accounted(ep.fragment_reassembly, ep.allocated)
    BY ConfigNumbers, CreateAccounted DEF NewEndpoint
  <1>5. WellFormed(P, ep)
    BY <1>2, <1>3, <1>4, ConfigNumbers DEF WellFormed, NewEndpoint, CreateBuffer
  <1>6. AllWindowed(ep)
    BY CreateWindow DEF AllWindowed, NewEndpoint
  <1> QED
    BY <1>5, <1>6

-----------------------------------------------------------------------------
(* Sending                                                                 *)

\* The buffer of sent packets after sequence s of ep was sent.
SentBuffer(ep) ==
  [Insert(ep.sent_packets, ep.sequence)
     EXCEPT !.entry_data[Slot(ep.sent_packets, ep.sequence)] = FALSE]

\* What send_packet leaves alone, and what it sets.
LEMMA SentChanges ==
  ASSUME NEW P, NEW ep \in Endpoints(P), NEW bytes \in Nat
  PROVE  LET new == Sent(ep, bytes)
         IN  /\ new \in Endpoints(P)
             /\ new.sequence = U16(ep.sequence + 1)
             /\ new.sent_packets = SentBuffer(ep)
             /\ new.received_packets = ep.received_packets
             /\ new.fragment_reassembly = ep.fragment_reassembly
             /\ new.acks = ep.acks
             /\ new.allocated = ep.allocated
  <1> DEFINE sent == [ep EXCEPT !.sequence = U16(ep.sequence + 1),
                                !.sent_packets = SentBuffer(ep)]
             k == IF Fragmented(bytes) THEN NumFragments(bytes) ELSE 0
             counted == CountBy(sent, {"fragments_sent"}, k)
  <1>1. Sent(ep, bytes) = Count(counted, {"packets_sent"})
    BY Zenon DEF Sent, SentBuffer
  <1>2. U16(ep.sequence + 1) \in Seqs
    BY SuccessorType DEF Endpoints
  <1>3. SentBuffer(ep) \in Buffer(SentSize, BOOLEAN)
    <2>1. ep.sent_packets \in Buffer(SentSize, BOOLEAN) /\ ep.sequence \in Seqs
      BY DEF Endpoints
    <2>2. Insert(ep.sent_packets, ep.sequence) \in Buffer(SentSize, BOOLEAN)
      BY <2>1, ConfigNumbers, AdvanceType, StoreType DEF Insert
    <2> QED
      BY <2>2, ConfigNumbers, EntryType DEF SentBuffer
  <1>4. /\ sent \in Endpoints(P)
        /\ sent.sequence = U16(ep.sequence + 1)
        /\ sent.sent_packets = SentBuffer(ep)
        /\ sent.received_packets = ep.received_packets
        /\ sent.fragment_reassembly = ep.fragment_reassembly
        /\ sent.acks = ep.acks
        /\ sent.allocated = ep.allocated
    BY <1>2, <1>3 DEF Endpoints
  <1>5. k \in Nat
    <2>1. bytes + FragmentSize - 1 \in Nat
      BY ConfigNumbers
    <2>2. \A x \in Nat : x \div FragmentSize \in Nat
      BY ConfigNumbers, Z3
    <2> QED
      BY <2>1, <2>2 DEF NumFragments
  <1> HIDE DEF sent, k
  <1>6. counted \in Endpoints(P) /\ SameButCounters(sent, counted)
    BY <1>4, <1>5, CountChanges
  <1> HIDE DEF counted
  <1>7. /\ Count(counted, {"packets_sent"}) \in Endpoints(P)
        /\ SameButCounters(counted, Count(counted, {"packets_sent"}))
    BY <1>6, CountOneChanges
  <1> QED
    BY <1>1, <1>4, <1>6, <1>7 DEF SameButCounters

\* send_packet keeps the invariant: sequence and sent packets step together.
LEMMA SentWellFormed ==
  ASSUME Half > 1, NEW P, NEW ep, WellFormed(P, ep), NEW bytes \in Nat
  PROVE  /\ WellFormed(P, Sent(ep, bytes))
         /\ FitsCircle(SentSize) /\ AllWindowed(ep) => AllWindowed(Sent(ep, bytes))
  <1> DEFINE b == ep.sent_packets
             s == ep.sequence
             inserted == Insert(b, s)
  <1>1. /\ b \in Buffer(SentSize, BOOLEAN) /\ s \in Seqs /\ b.sequence = s
        /\ ep \in Endpoints(P)
    BY DEF WellFormed, Endpoints
  <1>2. Ahead(b, s)
    BY <1>1, NextAhead
  <1>3. PICK advanced \in Buffer(SentSize, BOOLEAN) :
           advanced = Advance(b, s) /\ advanced.sequence = U16(s + 1)
    <2>1. Advance(b, s) \in Buffer(SentSize, BOOLEAN)
      BY <1>1, ConfigNumbers, AdvanceType
    <2>2. Advance(b, s).sequence = U16(s + 1)
      BY <1>1, <1>2, ConfigNumbers, AdvanceFields
    <2> QED
      BY <2>1, <2>2
  <1>4. inserted \in Buffer(SentSize, BOOLEAN) /\ inserted.sequence = U16(s + 1)
    <2>1. Store(advanced, s) \in Buffer(SentSize, BOOLEAN)
      BY <1>1, ConfigNumbers, StoreType
    <2>2. Store(advanced, s).sequence = advanced.sequence
      BY DEF Store, Buffer
    <2> QED
      BY <1>3, <2>1, <2>2 DEF Insert
  <1>5. SentBuffer(ep).sequence = U16(s + 1)
    <2> HIDE DEF inserted
    <2>1. \A i : [inserted EXCEPT !.entry_data[i] = FALSE].sequence = inserted.sequence
      BY <1>4 DEF Buffer
    <2> QED
      BY <1>4, <2>1, Zenon DEF SentBuffer, inserted
  <1>6. WellFormed(P, Sent(ep, bytes))
    <2> DEFINE new == Sent(ep, bytes)
    <2>1. /\ new \in Endpoints(P)
          /\ new.sequence = U16(ep.sequence + 1)
          /\ new.sent_packets = SentBuffer(ep)
          /\ new.received_packets = ep.received_packets
          /\ new.fragment_reassembly = ep.fragment_reassembly
          /\ new.acks = ep.acks
          /\ new.allocated = ep.allocated
      BY <1>1, SentChanges
    <2> HIDE DEF new
    <2> QED
      BY <1>5, <2>1 DEF WellFormed, new
  <1>7. ASSUME FitsCircle(SentSize), AllWindowed(ep)
        PROVE  AllWindowed(Sent(ep, bytes))
    <2>1. Windowed(inserted)
      BY <1>1, <1>2, <1>7, ConfigNumbers, InsertWindow DEF AllWindowed
    <2>2. Windowed(SentBuffer(ep))
      <3> HIDE DEF inserted
      <3>1. ASSUME NEW i
            PROVE  Windowed([inserted EXCEPT !.entry_data[i] = FALSE])
        <4>1. inserted \in Buffer(SentSize, BOOLEAN) /\ FALSE \in BOOLEAN
          BY <1>4
        <4> QED
          BY <2>1, <4>1, ConfigNumbers, EntryWindow
      <3> QED
        BY <3>1, Zenon DEF SentBuffer, inserted
    <2>3. /\ Sent(ep, bytes).sent_packets = SentBuffer(ep)
          /\ Sent(ep, bytes).received_packets = ep.received_packets
          /\ Sent(ep, bytes).fragment_reassembly = ep.fragment_reassembly
      BY <1>1, SentChanges
    <2> QED
      BY <1>7, <2>2, <2>3 DEF AllWindowed
  <1> QED
    BY <1>6, <1>7

\* Until the process callback returns, at most a reply has been sent.
LEMMA CallbackChanges ==
  ASSUME NEW P, NEW ep \in Endpoints(P), NEW reply \in Nat
  PROVE  LET new == AfterCallback(ep, reply)
         IN  /\ new \in Endpoints(P)
             /\ new.received_packets = ep.received_packets
             /\ new.fragment_reassembly = ep.fragment_reassembly
             /\ new.acks = ep.acks
             /\ new.allocated = ep.allocated
             /\ reply = 0 => SameButCounters(ep, new)
  <1> DEFINE received == Count(ep, {"packets_received"})
  <1>1. received \in Endpoints(P) /\ SameButCounters(ep, received)
    BY CountOneChanges
  <1>2. AfterCallback(ep, reply) = IF reply = 0 THEN received ELSE Sent(received, reply)
    BY DEF AfterCallback
  <1> HIDE DEF received
  <1>3. LET new == Sent(received, reply)
        IN  /\ new \in Endpoints(P)
            /\ new.received_packets = received.received_packets
            /\ new.fragment_reassembly = received.fragment_reassembly
            /\ new.acks = received.acks
            /\ new.allocated = received.allocated
    BY <1>1, SentChanges
  <1> QED
    BY <1>1, <1>2, <1>3 DEF SameButCounters

\* The callback keeps the invariant, whether it replies or not.
LEMMA CallbackWellFormed ==
  ASSUME Half > 1, NEW P, NEW ep, WellFormed(P, ep), NEW reply \in Nat
  PROVE  /\ WellFormed(P, AfterCallback(ep, reply))
         /\ FitsCircle(SentSize) /\ AllWindowed(ep) => AllWindowed(AfterCallback(ep, reply))
  <1> DEFINE received == Count(ep, {"packets_received"})
  <1>1. received \in Endpoints(P) /\ SameButCounters(ep, received)
    BY CountOneChanges DEF WellFormed
  <1>2. AfterCallback(ep, reply) = IF reply = 0 THEN received ELSE Sent(received, reply)
    BY DEF AfterCallback
  <1> HIDE DEF received
  <1>3. WellFormed(P, received) /\ (AllWindowed(ep) => AllWindowed(received))
    BY <1>1, CountWellFormed
  <1> QED
    BY <1>2, <1>3, SentWellFormed

-----------------------------------------------------------------------------
(* Acks                                                                    *)

\* What every bit of the mask preserves, the loop over the mask preserves:
\* the recursive function of WithAcks is what its equation says (steps 1 to 4),
\* and all its values are in T (steps 5 to 8).
LEMMA AckLoop ==
  ASSUME NEW ep, NEW p, NEW T, ep \in T,
         \A x \in T : \A i \in 0 .. (AckWidth - 1) : AckBit(x, p, i) \in T
  PROVE  WithAcks(ep, p) \in T
  <1> DEFINE Bit(g, n) == IF n = 0 THEN ep ELSE AckBit(g[n - 1], p, n - 1)
             Loop(g, m) == g = [n \in 0 .. m |-> Bit(g, n)]
             Looped == {m \in Nat : \E g : Loop(g, m)}
             after == CHOOSE g : Loop(g, AckWidth)
  <1>1. WithAcks(ep, p) = after[AckWidth] /\ AckWidth \in Nat
    BY ConfigNumbers DEF WithAcks
  <1>2. 0 \in Looped
    <2> DEFINE g == [n \in 0 .. 0 |-> ep]
    <2>1. Loop(g, 0)
      OBVIOUS
    <2> QED
      BY <2>1, Zenon
  <1>3. ASSUME NEW m \in Nat, m \in Looped PROVE m + 1 \in Looped
    <2>1. PICK g : Loop(g, m)
      BY <1>3
    <2> DEFINE h == [n \in 0 .. (m + 1) |-> Bit(g, n)]
    <2>2. \A n \in 0 .. m : h[n] = g[n]
      BY <2>1
    <2>3. \A n \in 0 .. (m + 1) : n # 0 => h[n - 1] = g[n - 1]
      <3> HIDE DEF h, Loop
      <3> QED
        BY <2>2
    <2>4. Loop(h, m + 1)
      BY <2>3
    <2> HIDE DEF h
    <2> QED
      BY <2>4
  <1>4. Loop(after, AckWidth)
    <2>1. AckWidth \in Looped
      <3> HIDE DEF Looped
      <3> QED
        BY <1>1, <1>2, <1>3, NatSetInduction
    <2>2. \E g : Loop(g, AckWidth)
      BY <2>1
    <2> HIDE DEF Loop
    <2> QED
      BY <2>2
  <1> HIDE DEF after
  <1>5. \A n \in 0 .. AckWidth : after[n] = Bit(after, n)
    BY <1>4, Zenon
  <1> DEFINE S == {n \in Nat : n <= AckWidth => after[n] \in T}
  <1>6. 0 \in S
    BY <1>1, <1>5
  <1>7. ASSUME NEW n \in Nat, n \in S PROVE n + 1 \in S
    <2>1. CASE n + 1 <= AckWidth
      <3>1. after[n] \in T /\ n \in 0 .. (AckWidth - 1) /\ n + 1 \in 0 .. AckWidth
        BY <1>1, <1>7, <2>1
      <3>2. n + 1 # 0 /\ (n + 1) - 1 = n
        OBVIOUS
      <3>3. after[n + 1] = AckBit(after[n], p, n)
        BY ONLY <1>5, <3>1, <3>2, Zenon
      <3> QED
        BY <3>1, <3>3
    <2>2. CASE ~(n + 1 <= AckWidth)
      BY <2>2
    <2> QED
      BY <2>1, <2>2
  <1>8. AckWidth \in S
    <2> HIDE DEF S
    <2> QED
      BY <1>1, <1>6, <1>7, NatSetInduction
  <1> QED
    BY <1>1, <1>8

\* Everything but acks, their counter and the acked flags is as it was.
OnlyAcked(ep, new) ==
  /\ new.sequence = ep.sequence
  /\ new.sent_packets.sequence = ep.sent_packets.sequence
  /\ new.sent_packets.entry_sequence = ep.sent_packets.entry_sequence
  /\ new.received_packets = ep.received_packets
  /\ new.fragment_reassembly = ep.fragment_reassembly
  /\ new.allocated = ep.allocated
  /\ Len(ep.acks) <= AckBufferSize => Len(new.acks) <= AckBufferSize

\* The places of acks that new has more than ep.
AddedPlaces(ep, new) == (Len(ep.acks) + 1) .. Len(new.acks)

\* The acks new has more than ep: one for every packet whose flag was set, that
\* ep remembered and had not seen acked.
ReportedOnce(ep, new) ==
  /\ Len(ep.acks) <= Len(new.acks)
  /\ \A k \in AddedPlaces(ep, new) :
        /\ Exists(ep.sent_packets, new.acks[k])
        /\ ~Acked(ep.sent_packets, new.acks[k])
        /\ Acked(new.sent_packets, new.acks[k])
  /\ \A k, l \in AddedPlaces(ep, new) : new.acks[k] = new.acks[l] => k = l
  /\ \A i \in Slots(ep.sent_packets) :
        new.sent_packets.entry_data[i]
          <=> \/ ep.sent_packets.entry_data[i]
              \/ \E k \in AddedPlaces(ep, new) : Slot(ep.sent_packets, new.acks[k]) = i
  /\ \A c \in Counted \cap {"packets_acked"} :
        new.counters[c] = (ep.counters[c] + (Len(new.acks) - Len(ep.acks))) % CounterMod

\* What the report of one ack changes: the packet's entry, the array, a counter.
JustReported(ep, q, new) ==
  /\ new.sequence = ep.sequence
  /\ new.sent_packets.num_entries = ep.sent_packets.num_entries
  /\ new.sent_packets.sequence = ep.sent_packets.sequence
  /\ new.sent_packets.entry_sequence = ep.sent_packets.entry_sequence
  /\ \A i \in 0 .. (SentSize - 1) :
       new.sent_packets.entry_data[i] =
         IF i = Slot(ep.sent_packets, q) THEN TRUE ELSE ep.sent_packets.entry_data[i]
  /\ new.received_packets = ep.received_packets
  /\ new.fragment_reassembly = ep.fragment_reassembly
  /\ new.acks = Append(ep.acks, q)
  /\ new.allocated = ep.allocated
  /\ \A c \in Counted : new.counters[c] =
       IF c = "packets_acked" THEN (ep.counters[c] + 1) % CounterMod ELSE ep.counters[c]

\* A report changes nothing else.
LEMMA ReportedChanges ==
  ASSUME NEW P, NEW ep \in Endpoints(P), NEW q \in Seqs
  PROVE  Reported(ep, q) \in Endpoints(P) /\ JustReported(ep, q, Reported(ep, q))
  <1> DEFINE b == ep.sent_packets
             j == Slot(b, q)
             marked == [b EXCEPT !.entry_data[j] = TRUE]
             acked == [ep EXCEPT !.acks = Append(ep.acks, q), !.sent_packets = marked]
  <1>1. Reported(ep, q) = Count(acked, {"packets_acked"})
    BY Zenon DEF Reported
  <1>2. b \in Buffer(SentSize, BOOLEAN)
    BY DEF Endpoints
  <1>3. /\ marked \in Buffer(SentSize, BOOLEAN)
        /\ marked.num_entries = b.num_entries
        /\ marked.sequence = b.sequence
        /\ marked.entry_sequence = b.entry_sequence
        /\ \A i \in 0 .. (SentSize - 1) :
             marked.entry_data[i] = IF i = j THEN TRUE ELSE b.entry_data[i]
    <2>1. marked \in Buffer(SentSize, BOOLEAN)
      BY <1>2, ConfigNumbers, EntryType
    <2> HIDE DEF j
    <2> QED
      BY <1>2, <2>1 DEF Buffer
  <1>4. Append(ep.acks, q) \in Seq(Seqs)
    BY DEF Endpoints
  <1> HIDE DEF marked
  <1>5. /\ acked \in Endpoints(P)
        /\ acked.sequence = ep.sequence
        /\ acked.sent_packets = marked
        /\ acked.received_packets = ep.received_packets
        /\ acked.fragment_reassembly = ep.fragment_reassembly
        /\ acked.acks = Append(ep.acks, q)
        /\ acked.allocated = ep.allocated
        /\ acked.counters = ep.counters
    BY <1>3, <1>4 DEF Endpoints
  <1> HIDE DEF acked
  <1>6. /\ Count(acked, {"packets_acked"}) \in Endpoints(P)
        /\ SameButCounters(acked, Count(acked, {"packets_acked"}))
    BY <1>5, CountOneChanges
  <1>7. \A c \in Counted : Count(acked, {"packets_acked"}).counters[c] =
          IF c = "packets_acked" THEN (acked.counters[c] + 1) % CounterMod
                                 ELSE acked.counters[c]
    <2> DEFINE counters == [c \in Counted |-> IF c \in {"packets_acked"}
                                                THEN (acked.counters[c] + 1) % CounterMod
                                                ELSE acked.counters[c]]
    <2>1. Count(acked, {"packets_acked"}) = [acked EXCEPT !.counters = counters]
      BY Zenon DEF Count, CountBy
    <2>2. \A c \in Counted : counters[c] =
            IF c = "packets_acked" THEN (acked.counters[c] + 1) % CounterMod
                                   ELSE acked.counters[c]
      OBVIOUS
    <2> HIDE DEF counters
    <2>3. [acked EXCEPT !.counters = counters].counters = counters
      BY <1>5 DEF Endpoints
    <2> QED
      BY <2>1, <2>2, <2>3
  <1> DEFINE new == Count(acked, {"packets_acked"})
  <1>8. /\ new.sequence = ep.sequence /\ new.allocated = ep.allocated
        /\ new.sent_packets = marked
        /\ new.received_packets = ep.received_packets
        /\ new.fragment_reassembly = ep.fragment_reassembly
        /\ new.acks = Append(ep.acks, q)
    BY ONLY <1>5, <1>6 DEF SameButCounters
  <1>9. \A c \in Counted : new.counters[c] =
          IF c = "packets_acked" THEN (ep.counters[c] + 1) % CounterMod ELSE ep.counters[c]
    BY <1>5, <1>7
  <1> HIDE DEF new
  <1>10. JustReported(ep, q, new)
    BY ONLY <1>3, <1>8, <1>9 DEF JustReported
  <1> QED
    BY <1>1, <1>6, <1>10 DEF new

\* One bit of the mask acks one sent packet, or does nothing.
LEMMA AckBitChanges ==
  ASSUME NEW P, NEW ep \in Endpoints(P), NEW p, p.ack \in Seqs, NEW i \in Nat
  PROVE  /\ AckBit(ep, p, i) \in Endpoints(P)
         /\ OnlyAcked(ep, AckBit(ep, p, i))
  <1> DEFINE q == U16(p.ack - i)
             new == Reported(ep, q)
  <1>1. q \in Seqs
    <2>1. p.ack - i \in Int
      BY CircleNumbers
    <2> QED
      BY <2>1, CircleNumbers, DivMod DEF U16
  <1>2. CASE AckBit(ep, p, i) = ep
    BY <1>2 DEF OnlyAcked
  <1>3. CASE AckBit(ep, p, i) # ep
    <2>1. AckBit(ep, p, i) = new /\ Len(ep.acks) < AckBufferSize
      BY <1>3 DEF AckBit
    <2> HIDE DEF q
    <2>2. /\ new \in Endpoints(P)
          /\ new.sequence = ep.sequence
          /\ new.sent_packets.sequence = ep.sent_packets.sequence
          /\ new.sent_packets.entry_sequence = ep.sent_packets.entry_sequence
          /\ new.received_packets = ep.received_packets
          /\ new.fragment_reassembly = ep.fragment_reassembly
          /\ new.acks = Append(ep.acks, q)
          /\ new.allocated = ep.allocated
      <3>1. new \in Endpoints(P) /\ JustReported(ep, q, new)
        BY <1>1, ReportedChanges
      <3> QED
        BY ONLY <3>1 DEF JustReported
    <2> HIDE DEF new
    <2>3. Len(Append(ep.acks, q)) = Len(ep.acks) + 1 /\ Len(ep.acks) \in Nat
      BY <1>1 DEF Endpoints
    <2>4. Len(ep.acks) + 1 <= AckBufferSize
      BY <2>1, <2>3, ConfigNumbers
    <2> QED
      BY <2>1, <2>2, <2>3, <2>4 DEF OnlyAcked
  <1> QED
    BY <1>2, <1>3

\* So does the loop, as many times as it likes.
LEMMA WithAcksChanges ==
  ASSUME NEW P, NEW ep \in Endpoints(P), NEW p, p.ack \in Seqs
  PROVE  /\ WithAcks(ep, p) \in Endpoints(P)
         /\ OnlyAcked(ep, WithAcks(ep, p))
  <1> DEFINE T == {x \in Endpoints(P) : OnlyAcked(ep, x)}
  <1>1. ep \in T
    BY DEF OnlyAcked
  <1>2. \A x \in T : \A i \in 0 .. (AckWidth - 1) : AckBit(x, p, i) \in T
    <2> TAKE x \in T
    <2> TAKE i \in 0 .. (AckWidth - 1)
    <2>1. AckBit(x, p, i) \in Endpoints(P) /\ OnlyAcked(x, AckBit(x, p, i))
      BY AckBitChanges
    <2> QED
      BY <2>1 DEF OnlyAcked
  <1>3. WithAcks(ep, p) \in T
    <2> HIDE DEF T
    <2> QED
      BY <1>1, <1>2, AckLoop
  <1> QED
    BY <1>3

\* Acks do not touch the windows, nor the length beyond the bound.
LEMMA OnlyAckedWellFormed ==
  ASSUME NEW P, NEW ep, WellFormed(P, ep), NEW new \in Endpoints(P), OnlyAcked(ep,
         new)
  PROVE  /\ WellFormed(P, new)
         /\ AllWindowed(ep) => AllWindowed(new)
  <1>1. /\ ep.sent_packets \in Buffer(SentSize, BOOLEAN)
        /\ new.sent_packets \in Buffer(SentSize, BOOLEAN)
    BY DEF WellFormed, Endpoints
  <1>2. Windowed(ep.sent_packets) => Windowed(new.sent_packets)
    BY <1>1, ConfigNumbers, SameWindow DEF OnlyAcked
  <1> QED
    BY <1>2 DEF WellFormed, AllWindowed, OnlyAcked

-----------------------------------------------------------------------------
(* A regular packet                                                        *)

\* What the process callback's yes changes before the acks are read.
Recorded(ep, s) ==
  [ep EXCEPT !.received_packets = Insert(ep.received_packets, s),
             !.fragment_reassembly = AdvanceWithCleanup(ep.fragment_reassembly, s),
             !.allocated = ep.allocated
                 - Freed(ep.fragment_reassembly, Overtaken(ep.fragment_reassembly, s))]

\* What follows the callback, before the acks.
LEMMA RecordedChanges ==
  ASSUME NEW P, NEW ep \in Endpoints(P), NEW s \in Seqs
  PROVE  LET new == Recorded(ep, s)
         IN  /\ new \in Endpoints(P)
             /\ new.sequence = ep.sequence
             /\ new.sent_packets = ep.sent_packets
             /\ new.received_packets = Insert(ep.received_packets, s)
             /\ new.fragment_reassembly = AdvanceWithCleanup(ep.fragment_reassembly, s)
             /\ new.acks = ep.acks
             /\ new.allocated = ep.allocated
                  - Freed(ep.fragment_reassembly, Overtaken(ep.fragment_reassembly, s))
             /\ new.counters = ep.counters
  <1> DEFINE D == {NULL} \cup Reassemblies(P)
             b == ep.fragment_reassembly
  <1>1. ep.received_packets \in Buffer(ReceivedSize, {NULL}) /\ b \in Buffer(ReassemblySize, D)
    BY DEF Endpoints
  <1>2. Insert(ep.received_packets, s) \in Buffer(ReceivedSize, {NULL})
    <2>1. Advance(ep.received_packets, s) \in Buffer(ReceivedSize, {NULL})
      BY <1>1, ConfigNumbers, AdvanceType
    <2> QED
      BY <2>1, ConfigNumbers, StoreType DEF Insert
  <1>3. AdvanceWithCleanup(b, s) \in Buffer(ReassemblySize, D)
    <2>1. Advance(b, s) \in Buffer(ReassemblySize, D) /\ NULL \in D
      BY <1>1, ConfigNumbers, AdvanceType
    <2> HIDE DEF D
    <2> QED
      BY <2>1, ConfigNumbers, CleanupType DEF AdvanceWithCleanup
  <1>4. ep.allocated - Freed(b, Overtaken(b, s)) \in Int
    <2>1. Overtaken(b, s) \in SUBSET Slots(b)
      BY <1>1, ConfigNumbers, CleanedSlots
    <2>2. Freed(b, Overtaken(b, s)) \in Nat
      <3> HIDE DEF D, b
      <3> QED
        BY <1>1, <2>1, ConfigNumbers, FreedCount
    <2>3. ep.allocated \in Int
      BY DEF Endpoints
    <2> QED
      BY <2>2, <2>3
  <1> QED
    BY <1>2, <1>3, <1>4 DEF Recorded, Endpoints

\* Received packets and reassembly move to the same place.
LEMMA RecordedWellFormed ==
  ASSUME NEW P, NEW ep, WellFormed(P, ep), NEW s \in Seqs
  PROVE  /\ WellFormed(P, Recorded(ep, s))
         /\ SizesFitCircle /\ AllWindowed(ep) /\ ~Stale(ep.received_packets, s)
              => AllWindowed(Recorded(ep, s))
  <1> DEFINE new == Recorded(ep, s)
             D == {NULL} \cup Reassemblies(P)
             b == ep.fragment_reassembly
             r == ep.received_packets
  <1>1. /\ r \in Buffer(ReceivedSize, {NULL}) /\ b \in Buffer(ReassemblySize, D)
        /\ ep \in Endpoints(P) /\ NULL \in D /\ r.sequence = b.sequence
    BY DEF WellFormed, Endpoints
  <1>2. /\ new \in Endpoints(P)
        /\ new.sequence = ep.sequence
        /\ new.sent_packets = ep.sent_packets
        /\ new.received_packets = Insert(r, s)
        /\ new.fragment_reassembly = AdvanceWithCleanup(b, s)
        /\ new.acks = ep.acks
        /\ new.allocated = ep.allocated - Freed(b, Overtaken(b, s))
    BY <1>1, RecordedChanges
  <1> HIDE DEF new, D, r, b
  <1>3. Insert(r, s).sequence = IF Ahead(r, s) THEN U16(s + 1) ELSE r.sequence
    <2>1. PICK a \in Buffer(ReceivedSize, {NULL}) : a = Advance(r, s)
      BY <1>1, ConfigNumbers, AdvanceType
    <2>2. Store(a, s).sequence = a.sequence
      BY DEF Store, Buffer
    <2>3. Advance(r, s).sequence = IF Ahead(r, s) THEN U16(s + 1) ELSE r.sequence
      BY ONLY <1>1 DEF Advance, Buffer
    <2> QED
      BY <2>1, <2>2, <2>3 DEF Insert
  <1>4. AdvanceWithCleanup(b, s).sequence = IF Ahead(b, s) THEN U16(s + 1) ELSE b.sequence
    <2>1. PICK a \in Buffer(ReassemblySize, D) : a = Advance(b, s)
      BY <1>1, ConfigNumbers, AdvanceType
    <2>2. Cleanup(a, Overtaken(b, s)).sequence = a.sequence
      BY <1>1, ConfigNumbers, CleanupAt
    <2>3. Advance(b, s).sequence = IF Ahead(b, s) THEN U16(s + 1) ELSE b.sequence
      BY ONLY <1>1 DEF Advance, Buffer
    <2> QED
      BY <2>1, <2>2, <2>3 DEF AdvanceWithCleanup
  <1>5. Ahead(r, s) <=> Ahead(b, s)
    BY <1>1 DEF Ahead
  <1>6. Accounted(b, ep.allocated)
    BY DEF WellFormed, b
  <1>7. Accounted(AdvanceWithCleanup(b, s), ep.allocated - Freed(b, Overtaken(b, s)))
    BY <1>1, <1>6, ConfigNumbers, AdvanceAccounted
  <1>8. WellFormed(P, new)
    BY <1>1, <1>2, <1>3, <1>4, <1>5, <1>7 DEF WellFormed
  <1>9. ASSUME SizesFitCircle, AllWindowed(ep), ~Stale(r, s)
        PROVE  AllWindowed(new)
    <2>1. Windowed(r) /\ Windowed(b) /\ Windowed(ep.sent_packets)
      BY <1>9 DEF AllWindowed, r, b
    <2>2. Windowed(Insert(r, s))
      BY <1>1, <1>9, <2>1, ConfigNumbers, InsertWindow DEF SizesFitCircle
    <2>3. PICK a \in Buffer(ReassemblySize, D) : a = Advance(b, s) /\ Windowed(a)
      <3>1. Advance(b, s) \in Buffer(ReassemblySize, D)
        BY <1>1, ConfigNumbers, AdvanceType
      <3>2. Windowed(Advance(b, s))
        BY <1>1, <1>9, <2>1, ConfigNumbers, AdvancedWindow DEF SizesFitCircle
      <3> QED
        BY <3>1, <3>2
    <2>4. Windowed(AdvanceWithCleanup(b, s))
      BY <1>1, <2>3, ConfigNumbers, CleanupWindow DEF AdvanceWithCleanup
    <2> QED
      BY <1>2, <2>1, <2>2, <2>4 DEF AllWindowed
  <1> QED
    BY <1>8, <1>9 DEF new, r

\* A packet the callback takes keeps the invariant.
LEMMA AcceptedWellFormed ==
  ASSUME Half > 1, NEW P, NEW ep, WellFormed(P, ep), NEW p, p.sequence \in Seqs,
         p.ack \in Seqs, NEW reply \in Nat
  PROVE  /\ WellFormed(P, Accepted(ep, p, reply))
         /\ SizesFitCircle /\ AllWindowed(ep) /\ ~Stale(ep.received_packets, p.sequence)
              => AllWindowed(Accepted(ep, p, reply))
  <1> DEFINE called == AfterCallback(ep, reply)
             remembered == Recorded(called, p.sequence)
             new == WithAcks(remembered, p)
  <1>1. Accepted(ep, p, reply) = new
    BY Zenon DEF Accepted, Recorded
  <1>2. /\ WellFormed(P, called)
        /\ SizesFitCircle /\ AllWindowed(ep) => AllWindowed(called)
        /\ called.received_packets = ep.received_packets
    BY CallbackWellFormed, CallbackChanges DEF SizesFitCircle, WellFormed
  <1> HIDE DEF called
  <1>3. /\ WellFormed(P, remembered)
        /\ SizesFitCircle /\ AllWindowed(called) /\ ~Stale(called.received_packets, p.sequence)
             => AllWindowed(remembered)
    BY <1>2, RecordedWellFormed
  <1> HIDE DEF remembered
  <1>4. new \in Endpoints(P) /\ OnlyAcked(remembered, new)
    BY <1>3, WithAcksChanges DEF WellFormed
  <1> HIDE DEF new
  <1>5. WellFormed(P, new) /\ (AllWindowed(remembered) => AllWindowed(new))
    BY <1>3, <1>4, OnlyAckedWellFormed
  <1> QED
    BY <1>1, <1>2, <1>3, <1>5

\* What an outcome of a regular packet is: the packet is dropped, or the callback
\* rejects it, or takes it.
RegularOutcome(ep, p, replies, r) ==
  \/ r = Unprocessed(Dropped(ep, p)) /\ ~Processed(ep, p)
  \/ /\ Processed(ep, p)
     /\ ~Stale(ep.received_packets, p.sequence)
     /\ ~Exists(ep.received_packets, p.sequence)
     /\ \E reply \in replies :
           /\ CanReply(ep, reply)
           /\ \/ r = Result(Rejected(ep, reply), ep, reply, {})
              \/ r = Result(Accepted(ep, p, reply), ep, reply, {p})

\* There is no other outcome.
LEMMA RegularCases ==
  ASSUME NEW ep, NEW p, NEW replies \in SUBSET Nat, NEW r \in RegularResults(ep, p, replies)
  PROVE  RegularOutcome(ep, p, replies, r)
  <1>1. CASE ~Processed(ep, p)
    BY <1>1 DEF RegularResults, RegularOutcome
  <1>2. CASE Processed(ep, p)
    <2>1. /\ ~Stale(ep.received_packets, p.sequence)
          /\ ~Exists(ep.received_packets, p.sequence)
      BY <1>2 DEF Processed, WhyDropped, TestInsert
    <2>2. PICK reply \in {x \in replies : CanReply(ep, x)} :
               r \in {Result(Rejected(ep, reply), ep, reply, {}),
                      Result(Accepted(ep, p, reply), ep, reply, {p})}
      BY <1>2, Zenon DEF RegularResults
    <2> QED
      BY <1>2, <2>1, <2>2 DEF RegularOutcome
  <1> QED
    BY <1>1, <1>2

\* Every outcome of a regular packet.
LEMMA RegularWellFormed ==
  ASSUME Half > 1, NEW P, NEW ep, WellFormed(P, ep), NEW p, p.sequence \in Seqs,
         p.ack \in Seqs, NEW replies \in SUBSET Nat, NEW r \in RegularResults(ep, p, replies)
  PROVE  /\ WellFormed(P, r.endpoint)
         /\ SizesFitCircle /\ AllWindowed(ep) => AllWindowed(r.endpoint)
  <1>1. CASE r = Unprocessed(Dropped(ep, p))
    <2>1. r.endpoint = Dropped(ep, p)
      BY <1>1 DEF Unprocessed, Result
    <2>2. Dropped(ep, p) \in Endpoints(P) /\ SameButCounters(ep, Dropped(ep, p))
      BY CountOneChanges DEF Dropped, WellFormed
    <2> QED
      BY <2>1, <2>2, CountWellFormed
  <1>2. ASSUME NEW reply \in replies, r = Result(Rejected(ep, reply), ep, reply, {})
        PROVE  /\ WellFormed(P, r.endpoint)
               /\ SizesFitCircle /\ AllWindowed(ep) => AllWindowed(r.endpoint)
    <2>1. r.endpoint = AfterCallback(ep, reply)
      BY <1>2 DEF Rejected, Result
    <2> QED
      BY <2>1, CallbackWellFormed DEF SizesFitCircle
  <1>3. ASSUME NEW reply \in replies, r = Result(Accepted(ep, p, reply), ep, reply, {p}),
               ~Stale(ep.received_packets, p.sequence)
        PROVE  /\ WellFormed(P, r.endpoint)
               /\ SizesFitCircle /\ AllWindowed(ep) => AllWindowed(r.endpoint)
    <2>1. r.endpoint = Accepted(ep, p, reply)
      BY <1>3 DEF Result
    <2> QED
      BY <1>3, <2>1, AcceptedWellFormed
  <1>4. \/ r = Unprocessed(Dropped(ep, p))
        \/ /\ ~Stale(ep.received_packets, p.sequence)
           /\ \E reply \in replies :
                 \/ r = Result(Rejected(ep, reply), ep, reply, {})
                 \/ r = Result(Accepted(ep, p, reply), ep, reply, {p})
    <2>1. RegularOutcome(ep, p, replies, r)
      BY ONLY RegularCases, r \in RegularResults(ep, p, replies), replies \in SUBSET Nat
    <2> QED
      BY <2>1, Zenon DEF RegularOutcome
  <1> QED
    BY <1>1, <1>2, <1>3, <1>4

-----------------------------------------------------------------------------
(* Fragments                                                               *)

\* The fragments that receive_packet does not ignore.
Storable(P, ep, p) == p \in FragmentPackets(P) /\ Stored(ep, p)

\* What is stored of a fragment.
StoredFields(P, p) ==
  /\ p.ack \in Seqs /\ p.header \in Nat
  /\ p.ack_bits \in SUBSET (0 .. (AckWidth - 1)) /\ p.payload \in P
  /\ p.fragment_id \in 0 .. (MaxFragments - 1)
  /\ p.bytes \in 0 .. FragmentSize

\* What the tests of receive_packet make sure of.
LEMMA StorableFragment ==
  ASSUME NEW P, NEW ep, NEW p, Storable(P, ep, p)
  PROVE  /\ p.sequence \in Seqs /\ p.ack \in Seqs /\ p.header \in Nat
         /\ p.ack_bits \in SUBSET (0 .. (AckWidth - 1)) /\ p.payload \in P
         /\ p.num_fragments \in 1 .. MaxFragments
         /\ p.fragment_id \in 0 .. (p.num_fragments - 1)
         /\ p.fragment_id \in 0 .. (MaxFragments - 1)
         /\ p.bytes \in 0 .. FragmentSize
         /\ ~Exists(ep.received_packets, p.sequence)
         /\ Exists(ep.fragment_reassembly, p.sequence)
              => /\ p.num_fragments = UnderReassembly(ep, p.sequence).num_fragments_total
                 /\ p.fragment_id \notin DOMAIN UnderReassembly(ep, p.sequence).parts
         /\ ~Exists(ep.fragment_reassembly, p.sequence)
              => ~InsertRefused(ep.fragment_reassembly, p.sequence)
  <1>1. /\ ValidFragment(p)
        /\ ~Exists(ep.received_packets, p.sequence)
        /\ Exists(ep.fragment_reassembly, p.sequence)
              => /\ p.num_fragments = UnderReassembly(ep, p.sequence).num_fragments_total
                 /\ p.fragment_id \notin DOMAIN UnderReassembly(ep, p.sequence).parts
        /\ ~Exists(ep.fragment_reassembly, p.sequence)
              => ~InsertRefused(ep.fragment_reassembly, p.sequence)
    BY DEF Storable, Stored, WhyIgnored
  <1>2. p \in FragmentPackets(P)
    BY DEF Storable
  <1>3. /\ p.sequence \in Seqs /\ p.ack \in Seqs /\ p.header \in Nat
        /\ p.ack_bits \in SUBSET (0 .. (AckWidth - 1)) /\ p.payload \in P
        /\ p.num_fragments \in Nat \ {0} /\ p.fragment_id \in Nat /\ p.bytes \in Nat
    BY <1>2 DEF FragmentPackets
  <1>4. /\ p.num_fragments <= MaxFragments /\ p.fragment_id < p.num_fragments
        /\ p.bytes <= FragmentSize
    BY <1>1 DEF ValidFragment
  <1>5. /\ p.num_fragments \in 1 .. MaxFragments
        /\ p.fragment_id \in 0 .. (p.num_fragments - 1)
        /\ p.fragment_id \in 0 .. (MaxFragments - 1)
        /\ p.bytes \in 0 .. FragmentSize
    BY <1>3, <1>4, ConfigNumbers
  <1> QED
    BY <1>1, <1>3, <1>5

\* The data of a new entry is data of an entry.
LEMMA NewReassemblyType ==
  ASSUME NEW P, NEW n \in 1 .. MaxFragments
  PROVE  NewReassembly(n) \in Reassemblies(P)
  <1>1. 0 \in Seqs /\ {} \in SUBSET (0 .. (AckWidth - 1)) /\ 0 \in Nat
    BY CircleNumbers
  <1>2. << >> \in [{} -> Parts(P)] /\ {} \in SUBSET (0 .. (MaxFragments - 1))
    OBVIOUS
  <1>3. << >> \in UNION {[ids -> Parts(P)] : ids \in SUBSET (0 .. (MaxFragments - 1))}
    BY <1>2
  <1> QED
    BY <1>1, <1>3 DEF NewReassembly, Reassemblies

\* A fragment added to the parts; no other part has changed.
FragmentAdded(data, new, p) ==
  /\ new.num_fragments_total = data.num_fragments_total
  /\ DOMAIN new.parts = DOMAIN data.parts \cup {p.fragment_id}
  /\ \A i \in DOMAIN data.parts : i # p.fragment_id => new.parts[i] = data.parts[i]
  /\ new.parts[p.fragment_id] = [payload |-> p.payload, bytes |-> p.bytes]

\* Storing a fragment adds it to the parts.
LEMMA WithFragmentChanges ==
  ASSUME NEW P, NEW data \in Reassemblies(P), NEW p, StoredFields(P, p)
  PROVE  /\ WithFragment(data, p) \in Reassemblies(P)
         /\ FragmentAdded(data, WithFragment(data, p), p)
  <1> DEFINE part == [payload |-> p.payload, bytes |-> p.bytes]
             parts == [i \in DOMAIN data.parts \cup {p.fragment_id} |->
                         IF i = p.fragment_id THEN part ELSE data.parts[i]]
             ack == IF p.fragment_id = 0 THEN p.ack ELSE data.ack
             ack_bits == IF p.fragment_id = 0 THEN p.ack_bits ELSE data.ack_bits
             header == IF p.fragment_id = 0 THEN p.header ELSE data.header
             new == [data EXCEPT !.parts = parts, !.ack = ack, !.ack_bits = ack_bits,
                                 !.header = header]
  <1>1. WithFragment(data, p) = new
    BY Zenon DEF WithFragment
  <1>2. PICK ids \in SUBSET (0 .. (MaxFragments - 1)) : data.parts \in [ids -> Parts(P)]
    BY DEF Reassemblies
  <1>3. part \in Parts(P)
    BY DEF Parts, StoredFields
  <1>4. /\ DOMAIN parts = ids \cup {p.fragment_id} /\ DOMAIN data.parts = ids
        /\ \A i \in DOMAIN parts : parts[i] = IF i = p.fragment_id THEN part
                                                                   ELSE data.parts[i]
    BY <1>2
  <1>5. parts \in UNION {[js -> Parts(P)] : js \in SUBSET (0 .. (MaxFragments - 1))}
    <2>1. parts \in [ids \cup {p.fragment_id} -> Parts(P)]
      <3> HIDE DEF part
      <3> QED
        BY <1>2, <1>3
    <2>2. ids \cup {p.fragment_id} \in SUBSET (0 .. (MaxFragments - 1))
      BY DEF StoredFields
    <2> QED
      BY <2>1, <2>2
  <1>6. /\ ack \in Seqs /\ ack_bits \in SUBSET (0 .. (AckWidth - 1)) /\ header \in Nat
    BY DEF Reassemblies, StoredFields
  <1> HIDE DEF parts, ack, ack_bits, header, part
  <1>7. /\ new \in Reassemblies(P)
        /\ new.num_fragments_total = data.num_fragments_total
        /\ new.parts = parts
    BY <1>5, <1>6 DEF Reassemblies
  <1> HIDE DEF new
  <1>8. /\ DOMAIN parts = DOMAIN data.parts \cup {p.fragment_id}
        /\ \A i \in DOMAIN data.parts : i # p.fragment_id => parts[i] = data.parts[i]
        /\ parts[p.fragment_id] = part
    BY <1>4
  <1>9. FragmentAdded(data, new, p)
    BY <1>7, <1>8 DEF FragmentAdded, part
  <1> QED
    BY <1>1, <1>7, <1>9

\* An occupied entry of a well formed endpoint has a block.
LEMMA UnderReassemblyType ==
  ASSUME NEW P, NEW ep, WellFormed(P, ep), NEW s \in Seqs,
         Exists(ep.fragment_reassembly, s)
  PROVE  UnderReassembly(ep, s) \in Reassemblies(P)
  <1> DEFINE b == ep.fragment_reassembly
             D == {NULL} \cup Reassemblies(P)
  <1>1. b \in Buffer(ReassemblySize, D) /\ Accounted(b, ep.allocated)
    BY DEF WellFormed, Endpoints
  <1>2. Slot(b, s) \in Slots(b) /\ Slots(b) = 0 .. (ReassemblySize - 1)
    BY <1>1, ConfigNumbers, CleanedSlots, SlotsValue
  <1>3. b.entry_sequence[Slot(b, s)] # Empty
    BY CircleNumbers DEF Exists, Empty
  <1>4. b.entry_data[Slot(b, s)] # NULL
    BY <1>1, <1>2, <1>3 DEF Accounted, Occupied
  <1>5. b.entry_data[Slot(b, s)] \in D
    BY <1>1, <1>2 DEF Buffer
  <1> QED
    BY <1>4, <1>5 DEF UnderReassembly

\* What the search for an entry changes when it opens one.
LEMMA OpenedAnewChanges ==
  ASSUME NEW P, NEW ep \in Endpoints(P), NEW p, Storable(P, ep, p),
         ~Exists(ep.fragment_reassembly, p.sequence)
  PROVE  LET new == Opened(ep, p)
             b == ep.fragment_reassembly
             s == p.sequence
         IN  /\ new \in Endpoints(P)
             /\ new.sequence = ep.sequence
             /\ new.sent_packets = ep.sent_packets
             /\ new.received_packets = Advance(ep.received_packets, s)
             /\ new.fragment_reassembly =
                  [InsertWithCleanup(b, s) EXCEPT
                     !.entry_data[Slot(b, s)] = NewReassembly(p.num_fragments)]
             /\ new.acks = ep.acks
             /\ new.allocated = ep.allocated - Freed(b, InsertCleans(b, s)) + 1
             /\ new.counters = ep.counters
  <1> DEFINE D == {NULL} \cup Reassemblies(P)
             b == ep.fragment_reassembly
             s == p.sequence
             entry == NewReassembly(p.num_fragments)
             c == [InsertWithCleanup(b, s) EXCEPT !.entry_data[Slot(b, s)] = entry]
             a == Advance(ep.received_packets, s)
             k == ep.allocated - Freed(b, InsertCleans(b, s)) + 1
             new == [ep EXCEPT !.fragment_reassembly = c, !.received_packets = a,
                               !.allocated = k]
  <1>1. Opened(ep, p) = new
    BY Zenon DEF Opened
  <1>2. /\ s \in Seqs /\ b \in Buffer(ReassemblySize, D) /\ ep.allocated \in Int
        /\ ep.received_packets \in Buffer(ReceivedSize, {NULL})
        /\ NULL \in D /\ entry \in D
    BY StorableFragment, NewReassemblyType DEF Endpoints
  <1> HIDE DEF D, entry
  <1>3. c \in Buffer(ReassemblySize, D)
    BY <1>2, ConfigNumbers, InsertOwnedBuffer
  <1>4. a \in Buffer(ReceivedSize, {NULL})
    BY <1>2, ConfigNumbers, AdvanceType
  <1>5. k \in Int
    <2>1. InsertCleans(b, s) \in SUBSET Slots(b)
      BY <1>2, ConfigNumbers, CleanedSlots
    <2>2. Freed(b, InsertCleans(b, s)) \in Nat
      <3> HIDE DEF b, s
      <3> QED
        BY <1>2, <2>1, ConfigNumbers, FreedCount
    <2> QED
      BY <1>2, <2>2
  <1> HIDE DEF c, a, k
  <1>6. /\ new \in Endpoints(P)
        /\ new.sequence = ep.sequence
        /\ new.sent_packets = ep.sent_packets
        /\ new.received_packets = a
        /\ new.fragment_reassembly = c
        /\ new.acks = ep.acks
        /\ new.allocated = k
        /\ new.counters = ep.counters
    BY <1>3, <1>4, <1>5 DEF Endpoints, D
  <1> QED
    BY <1>1, <1>6, Zenon DEF c, a, k, entry

\* Looking up or opening the entry of a fragment keeps the invariant, and
\* touches the slot of its packet alone.
LEMMA OpenedWellFormed ==
  ASSUME NEW P, NULL \notin Reassemblies(P), NEW ep, WellFormed(P, ep), NEW p,
         Storable(P, ep, p)
  PROVE  LET new == Opened(ep, p)
             b == ep.fragment_reassembly
             s == p.sequence
         IN  /\ WellFormed(P, new)
             /\ SizesFitCircle /\ AllWindowed(ep) => AllWindowed(new)
             /\ KeptOutside(b, new.fragment_reassembly, {Slot(b, s)})
             /\ Exists(new.fragment_reassembly, s)
             /\ UnderReassembly(new, s) \in Reassemblies(P)
             /\ UnderReassembly(new, s) = IF Exists(b, s) THEN UnderReassembly(ep, s)
                                          ELSE NewReassembly(p.num_fragments)
  <1> DEFINE D == {NULL} \cup Reassemblies(P)
             b == ep.fragment_reassembly
             r == ep.received_packets
             s == p.sequence
             new == Opened(ep, p)
             entry == NewReassembly(p.num_fragments)
  <1>1. /\ s \in Seqs /\ b \in Buffer(ReassemblySize, D) /\ ep \in Endpoints(P)
        /\ r \in Buffer(ReceivedSize, {NULL}) /\ r.sequence = b.sequence
        /\ Accounted(b, ep.allocated)
        /\ NULL \in D /\ entry \in D /\ entry # NULL /\ entry \in Reassemblies(P)
    BY StorableFragment, NewReassemblyType DEF WellFormed, Endpoints
  <1>2. CASE Exists(b, s)
    <2>1. new = ep
      BY <1>2 DEF Opened
    <2> QED
      BY <1>1, <1>2, <2>1, UnderReassemblyType DEF KeptOutside
  <1>3. CASE ~Exists(b, s)
    <2>1. PICK c \in Buffer(ReassemblySize, D) :
             c = [InsertWithCleanup(b, s) EXCEPT !.entry_data[Slot(b, s)] = entry]
      BY <1>1, ConfigNumbers, InsertOwnedBuffer
    <2>2. /\ new \in Endpoints(P)
          /\ new.sequence = ep.sequence
          /\ new.sent_packets = ep.sent_packets
          /\ new.received_packets = Advance(r, s)
          /\ new.fragment_reassembly = c
          /\ new.acks = ep.acks
          /\ new.allocated = ep.allocated - Freed(b, InsertCleans(b, s)) + 1
      BY <1>1, <1>3, <2>1, OpenedAnewChanges
    <2>3. /\ KeptOutside(b, c, {Slot(b, s)})
          /\ c.entry_sequence[Slot(b, s)] = s
          /\ c.entry_data[Slot(b, s)] = entry
      <3> HIDE DEF D, b, s, entry
      <3> QED
        BY <1>1, <2>1, ConfigNumbers, InsertKept
    <2>4. Accounted(c, new.allocated)
      <3> HIDE DEF D, b, s, entry, new
      <3>1. Accounted(c, ep.allocated - Freed(b, InsertCleans(b, s)) + 1)
        BY <1>1, <2>1, ConfigNumbers, InsertAccounted
      <3> QED
        BY <2>2, <3>1
    <2>5. c.sequence = IF Ahead(b, s) THEN U16(s + 1) ELSE b.sequence
      <3>1. c.sequence = Insert(b, s).sequence
        BY <1>1, <2>1, ConfigNumbers, InsertOwnedBuffer
      <3>2. Insert(b, s).sequence = Advance(b, s).sequence
        <4>1. PICK a \in Buffer(ReassemblySize, D) : a = Advance(b, s)
          BY <1>1, ConfigNumbers, AdvanceType
        <4>2. Store(a, s).sequence = a.sequence
          BY DEF Store, Buffer
        <4> QED
          BY <4>1, <4>2 DEF Insert
      <3>3. Advance(b, s).sequence = IF Ahead(b, s) THEN U16(s + 1) ELSE b.sequence
        BY ONLY <1>1 DEF Advance, Buffer
      <3> QED
        BY <3>1, <3>2, <3>3
    <2>6. Advance(r, s).sequence = IF Ahead(r, s) THEN U16(s + 1) ELSE r.sequence
      BY ONLY <1>1 DEF Advance, Buffer
    <2>7. Ahead(r, s) <=> Ahead(b, s)
      BY <1>1 DEF Ahead
    <2>8. b.num_entries = ReassemblySize /\ c.num_entries = ReassemblySize
      BY <1>1, <2>1, SlotsValue, ConfigNumbers
    <2>9. ASSUME SizesFitCircle, AllWindowed(ep)
          PROVE  AllWindowed(new)
      <3>1. Windowed(r) /\ Windowed(b) /\ Windowed(ep.sent_packets)
        BY <2>9 DEF AllWindowed
      <3>2. Windowed(Advance(r, s))
        BY <1>1, <2>9, <3>1, ConfigNumbers, AdvancedWindow DEF SizesFitCircle
      <3>3. Ahead(b, s) \/ ~Stale(b, s)
        BY <1>3, StorableFragment DEF InsertRefused
      <3>4. Windowed(c)
        BY <1>1, <2>1, <2>9, <3>1, <3>3, ConfigNumbers, InsertOwnedWindow DEF SizesFitCircle
      <3> QED
        BY <2>2, <3>1, <3>2, <3>4 DEF AllWindowed
    <2> HIDE DEF new, b, r, s, entry, D
    <2>10. WellFormed(P, new)
      BY <1>1, <2>2, <2>4, <2>5, <2>6, <2>7 DEF WellFormed, r, b
    <2>11. Exists(c, s) /\ UnderReassembly(new, s) = entry
      BY <2>2, <2>3, <2>8 DEF Exists, UnderReassembly, Slot
    <2> QED
      BY <1>1, <1>3, <2>2, <2>3, <2>9, <2>10, <2>11 DEF new, b, s, entry
  <1> QED
    BY <1>2, <1>3

\* Storing a fragment touches the reassembly buffer, and the rest as opening its
\* entry does.
LEMMA StoredKeeps ==
  ASSUME NEW P, NEW ep \in Endpoints(P), NEW p
  PROVE  /\ AfterStore(ep, p).sequence = ep.sequence
         /\ AfterStore(ep, p).sent_packets = ep.sent_packets
         /\ AfterStore(ep, p).acks = ep.acks
         /\ AfterStore(ep, p).counters = ep.counters
         /\ AfterStore(ep, p).received_packets = Opened(ep, p).received_packets
  <1>1. AfterStore(ep, p) =
          [Opened(ep, p) EXCEPT
             !.fragment_reassembly.entry_data[Slot(ep.fragment_reassembly, p.sequence)] =
                WithFragment(@, p)]
    BY Zenon DEF AfterStore
  <1>2. PICK r, c, k : Opened(ep, p) = [ep EXCEPT !.fragment_reassembly = r,
                                                  !.received_packets = c,
                                                  !.allocated = k]
    <2>1. CASE Exists(ep.fragment_reassembly, p.sequence)
      <3>1. Opened(ep, p) = ep
        BY <2>1 DEF Opened
      <3>2. ep = [ep EXCEPT !.fragment_reassembly = ep.fragment_reassembly,
                            !.received_packets = ep.received_packets,
                            !.allocated = ep.allocated]
        BY DEF Endpoints
      <3> QED
        BY <3>1, <3>2
    <2>2. CASE ~Exists(ep.fragment_reassembly, p.sequence)
      BY <2>2, Zenon DEF Opened
    <2> QED
      BY <2>1, <2>2
  <1> DEFINE o == Opened(ep, p)
  <1>3. /\ o.sequence = ep.sequence /\ o.sent_packets = ep.sent_packets
        /\ o.acks = ep.acks /\ o.counters = ep.counters
        /\ DOMAIN o = DOMAIN ep
    BY <1>2 DEF Endpoints
  <1>4. DOMAIN ep = {"sequence", "sent_packets", "received_packets", "fragment_reassembly",
                     "acks", "counters", "allocated"}
    BY DEF Endpoints
  <1> HIDE DEF o
  <1>5. PICK g : AfterStore(ep, p) = [o EXCEPT !.fragment_reassembly = g]
    BY <1>1, Zenon DEF o
  <1> QED
    BY <1>3, <1>4, <1>5 DEF o

\* So does storing the fragment in it.
LEMMA StoredWellFormed ==
  ASSUME NEW P, NULL \notin Reassemblies(P), NEW ep, WellFormed(P, ep), NEW p,
         Storable(P, ep, p)
  PROVE  LET new == AfterStore(ep, p)
             b == ep.fragment_reassembly
             s == p.sequence
         IN  /\ WellFormed(P, new)
             /\ SizesFitCircle /\ AllWindowed(ep) => AllWindowed(new)
             /\ KeptOutside(b, new.fragment_reassembly, {Slot(b, s)})
             /\ Exists(new.fragment_reassembly, s)
             /\ UnderReassembly(new, s) = WithFragment(UnderReassembly(Opened(ep, p), s), p)
             /\ UnderReassembly(new, s) \in Reassemblies(P)
  <1> DEFINE D == {NULL} \cup Reassemblies(P)
             b == ep.fragment_reassembly
             s == p.sequence
             j == Slot(b, s)
             o == Opened(ep, p)
             c == o.fragment_reassembly
             entry == WithFragment(UnderReassembly(o, s), p)
             d == [c EXCEPT !.entry_data[j] = entry]
             new == [o EXCEPT !.fragment_reassembly = d]
  <1>1. /\ WellFormed(P, o)
        /\ SizesFitCircle /\ AllWindowed(ep) => AllWindowed(o)
        /\ KeptOutside(b, c, {j})
        /\ Exists(c, s)
        /\ UnderReassembly(o, s) \in Reassemblies(P)
    BY OpenedWellFormed
  <1>2. /\ s \in Seqs /\ b \in Buffer(ReassemblySize, D) /\ c \in Buffer(ReassemblySize, D)
        /\ o \in Endpoints(P)
    BY <1>1, StorableFragment DEF WellFormed, Endpoints
  <1>3. entry \in Reassemblies(P) /\ entry \in D /\ entry # NULL
    <2>1. entry \in Reassemblies(P)
      <3> HIDE DEF o
      <3> QED
        BY <1>1, StorableFragment, WithFragmentChanges DEF StoredFields
    <2> QED
      BY <2>1
  <1>4. /\ Slots(b) = 0 .. (ReassemblySize - 1) /\ Slots(c) = Slots(b)
        /\ b.num_entries = ReassemblySize /\ c.num_entries = ReassemblySize
        /\ j \in Slots(b)
    BY <1>2, ConfigNumbers, SlotsValue, CleanedSlots
  <1>5. Slot(c, s) = j
    BY <1>4 DEF Slot
  <1>6. AfterStore(ep, p) = new
    <2> USE <1>5
    <2>1. AfterStore(ep, p) = [o EXCEPT !.fragment_reassembly.entry_data[j] =
                                           WithFragment(@, p)]
      BY Zenon DEF AfterStore
    <2>2. c.entry_data[j] = UnderReassembly(o, s)
      BY <1>5 DEF UnderReassembly
    <2> HIDE DEF j, s, o
    <2>3. [o EXCEPT !.fragment_reassembly.entry_data[j] = WithFragment(@, p)]
            = [o EXCEPT !.fragment_reassembly =
                 [c EXCEPT !.entry_data[j] = WithFragment(c.entry_data[j], p)]]
      BY Zenon
    <2> QED
      BY <2>1, <2>2, <2>3
  <1> HIDE DEF D, b, s, entry, j
  <1>7. /\ d \in Buffer(ReassemblySize, D)
        /\ d.num_entries = c.num_entries
        /\ d.sequence = c.sequence
        /\ d.entry_sequence = c.entry_sequence
        /\ \A i \in 0 .. (ReassemblySize - 1) :
             d.entry_data[i] = IF i = j THEN entry ELSE c.entry_data[i]
    <2> HIDE DEF c
    <2>1. d \in Buffer(ReassemblySize, D)
      BY <1>2, <1>3, ConfigNumbers, EntryType
    <2> QED
      BY <1>2, <2>1 DEF Buffer
  <1>8. Accounted(d, o.allocated)
    <2>1. Accounted(c, o.allocated) /\ c.entry_data[j] # NULL
      <3>1. c.entry_data[j] = UnderReassembly(o, s)
        BY <1>5 DEF UnderReassembly
      <3> QED
        BY <1>1, <3>1 DEF WellFormed
    <2>2. j \in Slots(c)
      BY <1>4
    <2> HIDE DEF c
    <2> QED
      BY <1>2, <1>3, <2>1, <2>2, ConfigNumbers, EntryAccounted
  <1>9. Windowed(c) => Windowed(d)
    <2> HIDE DEF c, d
    <2> QED
      BY <1>2, <1>7, ConfigNumbers, SameWindow
  <1>10. /\ KeptOutside(b, d, {j})
         /\ Exists(d, s)
         /\ d.entry_data[j] = entry /\ Slot(d, s) = j
    <2> HIDE DEF c, d
    <2>1. KeptOutside(b, c, {j}) /\ Exists(c, s)
      BY <1>1 DEF b, j, s, c
    <2>2. KeptOutside(b, d, {j})
      BY <1>4, <1>7, <2>1 DEF KeptOutside, Occupied
    <2>3. d.entry_data[j] = entry
      BY <1>4, <1>7
    <2>4. Slot(d, s) = j
      BY <1>5, <1>7 DEF Slot
    <2> QED
      BY <1>5, <1>7, <2>1, <2>2, <2>3, <2>4 DEF Exists
  <1> HIDE DEF d
  <1>11. /\ new \in Endpoints(P)
         /\ new.fragment_reassembly = d
         /\ new.sequence = o.sequence
         /\ new.sent_packets = o.sent_packets
         /\ new.received_packets = o.received_packets
         /\ new.acks = o.acks
         /\ new.allocated = o.allocated
         /\ new.counters = o.counters
    <2> HIDE DEF o
    <2> QED
      BY <1>2, <1>7 DEF Endpoints, D
  <1> HIDE DEF new
  <1>12. WellFormed(P, new) /\ (AllWindowed(o) => AllWindowed(new))
    <2> HIDE DEF o
    <2> QED
      BY <1>1, <1>7, <1>8, <1>9, <1>11 DEF WellFormed, AllWindowed
  <1>13. UnderReassembly(new, s) = entry
    BY <1>10, <1>11 DEF UnderReassembly
  <1>14. /\ WellFormed(P, new)
         /\ SizesFitCircle /\ AllWindowed(ep) => AllWindowed(new)
         /\ KeptOutside(b, new.fragment_reassembly, {j})
         /\ Exists(new.fragment_reassembly, s)
         /\ UnderReassembly(new, s) = entry
         /\ UnderReassembly(new, s) \in Reassemblies(P)
    <2> HIDE DEF o
    <2> QED
      BY <1>1, <1>3, <1>10, <1>11, <1>12, <1>13
  <1> QED
    BY <1>6, <1>14, Zenon DEF b, s, j, entry

\* Freeing the entry after the recursive call keeps the invariant.
LEMMA ClosedWellFormed ==
  ASSUME NEW P, NEW ep, WellFormed(P, ep), NEW s \in Seqs
  PROVE  LET new == Closed(ep, s)
         IN  /\ WellFormed(P, new)
             /\ AllWindowed(ep) => AllWindowed(new)
             /\ KeptOutside(ep.fragment_reassembly, new.fragment_reassembly, {})
             /\ ~Occupied(new.fragment_reassembly, Slot(ep.fragment_reassembly, s))
             /\ new.sequence = ep.sequence
             /\ new.sent_packets = ep.sent_packets
             /\ new.received_packets = ep.received_packets
             /\ new.acks = ep.acks
             /\ new.counters = ep.counters
  <1> DEFINE D == {NULL} \cup Reassemblies(P)
             b == ep.fragment_reassembly
             c == RemoveWithCleanup(b, s)
             k == ep.allocated - Freed(b, RemoveCleans(b, s))
             new == [ep EXCEPT !.fragment_reassembly = c, !.allocated = k]
  <1>1. Closed(ep, s) = new
    BY Zenon DEF Closed
  <1>2. /\ b \in Buffer(ReassemblySize, D) /\ NULL \in D /\ ep \in Endpoints(P)
        /\ Accounted(b, ep.allocated) /\ ep.allocated \in Int
    BY DEF WellFormed, Endpoints
  <1>3. /\ c \in Buffer(ReassemblySize, D)
        /\ c.sequence = b.sequence
        /\ KeptOutside(b, c, {})
        /\ ~Occupied(c, Slot(b, s))
    <2> HIDE DEF D, b
    <2> QED
      BY <1>2, ConfigNumbers, RemoveKept
  <1>4. Accounted(c, k)
    <2> HIDE DEF D, b
    <2> QED
      BY <1>2, ConfigNumbers, RemoveAccounted
  <1>5. k \in Int
    <2> HIDE DEF D, b, c, k
    <2> QED
      BY <1>3, <1>4, ConfigNumbers, AccountedNumber
  <1>6. Windowed(b) => Windowed(c)
    <2> HIDE DEF D, b, c
    <2> QED
      BY <1>2, <1>3, ConfigNumbers, KeptWindow
  <1> HIDE DEF c, k
  <1>7. /\ new \in Endpoints(P)
        /\ new.fragment_reassembly = c
        /\ new.sequence = ep.sequence
        /\ new.sent_packets = ep.sent_packets
        /\ new.received_packets = ep.received_packets
        /\ new.acks = ep.acks
        /\ new.allocated = k
        /\ new.counters = ep.counters
    BY <1>2, <1>3, <1>5 DEF Endpoints
  <1> HIDE DEF new
  <1>8. WellFormed(P, new) /\ (AllWindowed(ep) => AllWindowed(new))
    BY <1>3, <1>4, <1>6, <1>7 DEF WellFormed, AllWindowed
  <1> QED
    BY <1>1, <1>3, <1>7, <1>8

\* The callback and the acks of a regular packet free entries, and change none.
LEMMA AcceptedKept ==
  ASSUME NEW P, NEW ep \in Endpoints(P), NEW p, p.sequence \in Seqs, p.ack \in Seqs,
         NEW reply \in Nat
  PROVE  KeptOutside(ep.fragment_reassembly, Accepted(ep, p, reply).fragment_reassembly, {})
  <1> DEFINE called == AfterCallback(ep, reply)
             remembered == Recorded(called, p.sequence)
             new == WithAcks(remembered, p)
             D == {NULL} \cup Reassemblies(P)
  <1>1. Accepted(ep, p, reply) = new
    BY Zenon DEF Accepted, Recorded
  <1>2. /\ called \in Endpoints(P)
        /\ called.fragment_reassembly = ep.fragment_reassembly
    BY CallbackChanges
  <1> HIDE DEF called
  <1>3. /\ remembered \in Endpoints(P)
        /\ remembered.fragment_reassembly
             = AdvanceWithCleanup(called.fragment_reassembly, p.sequence)
    BY <1>2, RecordedChanges
  <1> HIDE DEF remembered
  <1>4. new.fragment_reassembly = remembered.fragment_reassembly
    BY <1>3, WithAcksChanges DEF OnlyAcked
  <1>5. /\ ep.fragment_reassembly \in Buffer(ReassemblySize, D) /\ NULL \in D
    BY DEF Endpoints
  <1>6. KeptOutside(ep.fragment_reassembly,
                    AdvanceWithCleanup(ep.fragment_reassembly, p.sequence), {})
    <2> HIDE DEF D
    <2> QED
      BY <1>5, ConfigNumbers, AdvanceKept
  <1> QED
    BY <1>1, <1>2, <1>3, <1>4, <1>6

\* However the call on a regular packet ends, reassembly entries are only lost.
LEMMA RegularKept ==
  ASSUME NEW P, NEW ep \in Endpoints(P), NEW p, p.sequence \in Seqs, p.ack \in Seqs,
         NEW replies \in SUBSET Nat, NEW r \in RegularResults(ep, p, replies)
  PROVE  KeptOutside(ep.fragment_reassembly, r.endpoint.fragment_reassembly, {})
  <1>1. CASE r = Unprocessed(Dropped(ep, p))
    <2>1. SameButCounters(ep, Dropped(ep, p))
      BY CountOneChanges DEF Dropped
    <2>2. r.endpoint = Dropped(ep, p)
      BY <1>1 DEF Unprocessed, Result
    <2> QED
      BY <2>1, <2>2 DEF SameButCounters, KeptOutside
  <1>2. ASSUME NEW reply \in replies, r = Result(Rejected(ep, reply), ep, reply, {})
        PROVE  KeptOutside(ep.fragment_reassembly, r.endpoint.fragment_reassembly, {})
    <2>1. r.endpoint = AfterCallback(ep, reply)
      BY <1>2 DEF Rejected, Result
    <2>2. AfterCallback(ep, reply).fragment_reassembly = ep.fragment_reassembly
      BY CallbackChanges
    <2> QED
      BY <2>1, <2>2 DEF KeptOutside
  <1>3. ASSUME NEW reply \in replies, r = Result(Accepted(ep, p, reply), ep, reply, {p})
        PROVE  KeptOutside(ep.fragment_reassembly, r.endpoint.fragment_reassembly, {})
    <2>1. r.endpoint = Accepted(ep, p, reply)
      BY <1>3 DEF Result
    <2> QED
      BY <2>1, AcceptedKept
  <1>4. \/ r = Unprocessed(Dropped(ep, p))
        \/ \E reply \in replies : \/ r = Result(Rejected(ep, reply), ep, reply, {})
                                 \/ r = Result(Accepted(ep, p, reply), ep, reply, {p})
    <2>1. RegularOutcome(ep, p, replies, r)
      BY ONLY RegularCases, r \in RegularResults(ep, p, replies), replies \in SUBSET Nat
    <2> QED
      BY <2>1, Zenon DEF RegularOutcome
  <1> QED
    BY <1>1, <1>2, <1>3, <1>4

\* The packet made of the fragments is one the recursive call can take.
LEMMA CollectedFields ==
  ASSUME NEW P, NULL \notin Reassemblies(P), NEW ep, WellFormed(P, ep), NEW p,
         Storable(P, ep, p)
  PROVE  LET whole == Collected(ep, p)
             data  == UnderReassembly(AfterStore(ep, p), p.sequence)
         IN  /\ whole.sequence = p.sequence /\ whole.sequence \in Seqs
             /\ whole.ack = data.ack /\ whole.ack \in Seqs
             /\ whole.payload = UNION {data.parts[i].payload : i \in DOMAIN data.parts}
  <1> DEFINE data == UnderReassembly(AfterStore(ep, p), p.sequence)
  <1>1. data \in Reassemblies(P)
    BY StoredWellFormed
  <1>2. p.sequence \in Seqs
    BY StorableFragment
  <1>3. Collected(ep, p) = WholePacket(p.sequence, data)
    BY DEF Collected
  <1> HIDE DEF data
  <1>4. data.ack \in Seqs
    BY <1>1 DEF Reassemblies
  <1>5. /\ WholePacket(p.sequence, data).sequence = p.sequence
        /\ WholePacket(p.sequence, data).ack = data.ack
        /\ WholePacket(p.sequence, data).payload
             = UNION {data.parts[i].payload : i \in DOMAIN data.parts}
    BY DEF WholePacket
  <1> QED
    BY <1>2, <1>3, <1>4, <1>5 DEF data

\* The last fragment: the outcomes of the recursive call, each then closed.
LEMMA CompletionCases ==
  ASSUME NEW ep, NEW p, NEW replies, NEW r \in CompletionResults(ep, p, replies)
  PROVE  \E x \in RegularResults(AfterStore(ep, p), Collected(ep, p), replies) :
            /\ r.endpoint = CountFragment(Closed(x.endpoint, p.sequence))
            /\ r.during = x.during
            /\ r.reply = x.reply
            /\ r.taken = x.taken
  BY DEF CompletionResults, Result

\* Every outcome of the last fragment of a packet.
LEMMA CompletionWellFormed ==
  ASSUME Half > 1, NEW P, NULL \notin Reassemblies(P), NEW ep, WellFormed(P, ep),
         NEW p,
         Storable(P, ep, p), NEW replies \in SUBSET Nat,
         NEW r \in CompletionResults(ep, p, replies)
  PROVE  LET b == ep.fragment_reassembly
             c == r.endpoint.fragment_reassembly
         IN  /\ WellFormed(P, r.endpoint)
             /\ SizesFitCircle /\ AllWindowed(ep) => AllWindowed(r.endpoint)
             /\ KeptOutside(b, c, {Slot(b, p.sequence)})
             /\ ~Occupied(c, Slot(b, p.sequence))
  <1> DEFINE b == ep.fragment_reassembly
             s == p.sequence
             j == Slot(b, s)
             whole == Collected(ep, p)
             stored == AfterStore(ep, p)
             D == {NULL} \cup Reassemblies(P)
  <1>1. PICK x \in RegularResults(stored, whole, replies) :
           r.endpoint = CountFragment(Closed(x.endpoint, s))
    BY CompletionCases
  <1>2. /\ WellFormed(P, stored)
        /\ SizesFitCircle /\ AllWindowed(ep) => AllWindowed(stored)
        /\ KeptOutside(b, stored.fragment_reassembly, {j})
    BY StoredWellFormed
  <1>3. s \in Seqs /\ whole.sequence = s /\ whole.ack \in Seqs
    BY CollectedFields
  <1> HIDE DEF whole, stored
  <1>4. /\ WellFormed(P, x.endpoint)
        /\ SizesFitCircle /\ AllWindowed(stored) => AllWindowed(x.endpoint)
    BY <1>2, <1>3, RegularWellFormed
  <1>5. KeptOutside(stored.fragment_reassembly, x.endpoint.fragment_reassembly, {})
    BY <1>2, <1>3, RegularKept DEF WellFormed
  <1> DEFINE closed == Closed(x.endpoint, s)
  <1>6. /\ WellFormed(P, closed)
        /\ AllWindowed(x.endpoint) => AllWindowed(closed)
        /\ KeptOutside(x.endpoint.fragment_reassembly, closed.fragment_reassembly, {})
        /\ ~Occupied(closed.fragment_reassembly, Slot(x.endpoint.fragment_reassembly, s))
    BY <1>3, <1>4, ClosedWellFormed
  <1> HIDE DEF closed
  <1>7. CountFragment(closed) \in Endpoints(P) /\ SameButCounters(closed, CountFragment(closed))
    BY <1>6, CountOneChanges DEF CountFragment, WellFormed
  <1>8. /\ WellFormed(P, CountFragment(closed))
        /\ AllWindowed(closed) => AllWindowed(CountFragment(closed))
        /\ CountFragment(closed).fragment_reassembly = closed.fragment_reassembly
    BY <1>6, <1>7, CountWellFormed DEF SameButCounters
  <1>9. r.endpoint = CountFragment(closed)
    BY <1>1 DEF closed
  <1>10. /\ b \in Buffer(ReassemblySize, D)
         /\ stored.fragment_reassembly \in Buffer(ReassemblySize, D)
         /\ x.endpoint.fragment_reassembly \in Buffer(ReassemblySize, D)
         /\ closed.fragment_reassembly \in Buffer(ReassemblySize, D)
    BY <1>2, <1>4, <1>6 DEF WellFormed, Endpoints
  <1>11. /\ Slots(stored.fragment_reassembly) = Slots(b)
         /\ Slots(x.endpoint.fragment_reassembly) = Slots(b)
         /\ Slot(x.endpoint.fragment_reassembly, s) = j
    BY <1>10, ConfigNumbers, SlotsValue DEF Slot
  <1>12. KeptOutside(b, closed.fragment_reassembly, {j})
    <2> HIDE DEF b, j
    <2> QED
      BY <1>2, <1>5, <1>6, <1>11 DEF KeptOutside, Occupied
  <1> QED
    BY <1>2, <1>4, <1>6, <1>8, <1>9, <1>11, <1>12

\* A fragment that is not the last of its packet.
LEMMA PartWellFormed ==
  ASSUME NEW P, NULL \notin Reassemblies(P), NEW ep, WellFormed(P, ep), NEW p,
         Storable(P, ep, p)
  PROVE  LET new == CountFragment(AfterStore(ep, p))
         IN  /\ WellFormed(P, new)
             /\ SizesFitCircle /\ AllWindowed(ep) => AllWindowed(new)
             /\ SameButCounters(AfterStore(ep, p), new)
  <1> DEFINE stored == AfterStore(ep, p)
  <1>1. /\ WellFormed(P, stored)
        /\ SizesFitCircle /\ AllWindowed(ep) => AllWindowed(stored)
    BY StoredWellFormed
  <1> HIDE DEF stored
  <1>2. CountFragment(stored) \in Endpoints(P) /\ SameButCounters(stored, CountFragment(stored))
    BY <1>1, CountOneChanges DEF CountFragment, WellFormed
  <1>3. /\ WellFormed(P, CountFragment(stored))
        /\ AllWindowed(stored) => AllWindowed(CountFragment(stored))
    BY <1>1, <1>2, CountWellFormed
  <1> QED
    BY <1>1, <1>2, <1>3 DEF stored

\* An ignored fragment is counted at most.
LEMMA IgnoredWellFormed ==
  ASSUME NEW P, NEW ep, WellFormed(P, ep), NEW p
  PROVE  /\ WellFormed(P, Ignored(ep, p))
         /\ AllWindowed(ep) => AllWindowed(Ignored(ep, p))
         /\ SameButCounters(ep, Ignored(ep, p))
  <1>1. Ignored(ep, p) \in Endpoints(P) /\ SameButCounters(ep, Ignored(ep, p))
    BY CountOneChanges DEF Ignored, WellFormed
  <1> QED
    BY <1>1, CountWellFormed

-----------------------------------------------------------------------------
(* The application's other calls                                           *)

\* Clearing the acks keeps the invariant.
LEMMA ClearedWellFormed ==
  ASSUME NEW P, NEW ep, WellFormed(P, ep)
  PROVE  /\ WellFormed(P, AcksCleared(ep))
         /\ AllWindowed(ep) => AllWindowed(AcksCleared(ep))
         /\ AcksCleared(ep).acks = << >>
         /\ AcksCleared(ep).sent_packets = ep.sent_packets
         /\ AcksCleared(ep).fragment_reassembly = ep.fragment_reassembly
         /\ AcksCleared(ep).counters = ep.counters
  <1>1. << >> \in Seq(Seqs) /\ Len(<< >>) = 0 /\ 0 <= AckBufferSize
    BY ConfigNumbers
  <1> DEFINE new == [ep EXCEPT !.acks = << >>]
  <1>2. /\ new \in Endpoints(P)
        /\ new.acks = << >>
        /\ new.sequence = ep.sequence
        /\ new.sent_packets = ep.sent_packets
        /\ new.received_packets = ep.received_packets
        /\ new.fragment_reassembly = ep.fragment_reassembly
        /\ new.allocated = ep.allocated
        /\ new.counters = ep.counters
    BY <1>1 DEF WellFormed, Endpoints
  <1>3. AcksCleared(ep) = new
    BY DEF AcksCleared
  <1> HIDE DEF new
  <1> QED
    BY <1>1, <1>2, <1>3 DEF WellFormed, AllWindowed

\* Reset frees what is held and keeps the invariant.
LEMMA ResetWellFormed ==
  ASSUME NEW P, NEW ep, WellFormed(P, ep)
  PROVE  LET new == AfterReset(ep)
         IN  /\ WellFormed(P, new)
             /\ AllWindowed(new)
             /\ new.acks = << >>
             /\ \A i \in 0 .. (SentSize - 1) : ~Occupied(new.sent_packets, i)
             /\ \A i \in 0 .. (ReassemblySize - 1) : ~Occupied(new.fragment_reassembly, i)
  <1> DEFINE b == ep.fragment_reassembly
             held == {i \in Slots(b) : Occupied(b, i)}
             c == ResetBuffer(Cleanup(b, held))
             sent == ResetBuffer(ep.sent_packets)
             received == ResetBuffer(ep.received_packets)
             k == ep.allocated - Freed(b, held)
             zeros == [x \in Counted |-> 0]
             new == [ep EXCEPT !.sequence = 0, !.acks = << >>, !.counters = zeros,
                               !.sent_packets = sent, !.received_packets = received,
                               !.fragment_reassembly = c, !.allocated = k]
             D == {NULL} \cup Reassemblies(P)
  <1>1. AfterReset(ep) = new
    BY Zenon DEF AfterReset
  <1>2. /\ b \in Buffer(ReassemblySize, D) /\ NULL \in D /\ ep \in Endpoints(P)
        /\ ep.sent_packets \in Buffer(SentSize, BOOLEAN)
        /\ ep.received_packets \in Buffer(ReceivedSize, {NULL})
        /\ Accounted(b, ep.allocated)
    BY DEF WellFormed, Endpoints
  <1>3. /\ sent \in Buffer(SentSize, BOOLEAN) /\ sent.sequence = 0
        /\ Windowed(sent) /\ \A i \in 0 .. (SentSize - 1) : ~Occupied(sent, i)
    <2>1. sent \in Buffer(SentSize, BOOLEAN)
      BY <1>2, ConfigNumbers, ResetType
    <2>2. Windowed(sent)
      BY <1>2, ConfigNumbers, ResetWindow
    <2> QED
      BY <1>2, <2>1, <2>2 DEF ResetBuffer, Buffer, Occupied, Slots
  <1>4. /\ received \in Buffer(ReceivedSize, {NULL}) /\ received.sequence = 0
        /\ Windowed(received)
    <2>1. received \in Buffer(ReceivedSize, {NULL})
      BY <1>2, ConfigNumbers, ResetType
    <2>2. Windowed(received)
      BY <1>2, ConfigNumbers, ResetWindow
    <2> QED
      BY <1>2, <2>1, <2>2 DEF ResetBuffer, Buffer
  <1>5. /\ c \in Buffer(ReassemblySize, D) /\ c.sequence = 0
        /\ Windowed(c) /\ \A i \in 0 .. (ReassemblySize - 1) : ~Occupied(c, i)
        /\ Accounted(c, k) /\ k \in Int
    <2> HIDE DEF D, b
    <2>1. c \in Buffer(ReassemblySize, D) /\ c.sequence = 0 /\ Accounted(c, k)
      <3>1. held = {i \in Slots(b) : Occupied(b, i)}
        OBVIOUS
      <3> HIDE DEF held
      <3> QED
        BY <1>2, <3>1, ConfigNumbers, ResetAccounted
    <2>2. Cleanup(b, held) \in Buffer(ReassemblySize, D)
      BY <1>2, ConfigNumbers, CleanupType
    <2>3. Windowed(c)
      <3> HIDE DEF held
      <3> QED
        BY <2>2, ConfigNumbers, ResetWindow
    <2>4. \A i \in 0 .. (ReassemblySize - 1) : ~Occupied(c, i)
      <3> HIDE DEF held
      <3> QED
        BY <2>2 DEF ResetBuffer, Buffer, Occupied, Slots
    <2>5. k \in Int
      <3> HIDE DEF c, k, held
      <3> QED
        BY <2>1, ConfigNumbers, AccountedNumber
    <2> QED
      BY <2>1, <2>3, <2>4, <2>5
  <1>6. /\ 0 \in Seqs /\ zeros \in [Counted -> 0 .. (CounterMod - 1)]
        /\ << >> \in Seq(Seqs) /\ Len(<< >>) = 0 /\ 0 <= AckBufferSize
    BY CircleNumbers, ConfigNumbers
  <1> HIDE DEF c, sent, received, k, zeros
  <1>7. /\ new \in Endpoints(P)
        /\ new.acks = << >>
        /\ new.sequence = 0
        /\ new.sent_packets = sent
        /\ new.received_packets = received
        /\ new.fragment_reassembly = c
        /\ new.allocated = k
    BY <1>2, <1>3, <1>4, <1>5, <1>6 DEF Endpoints
  <1> HIDE DEF new
  <1> QED
    BY <1>1, <1>3, <1>4, <1>5, <1>6, <1>7 DEF WellFormed, AllWindowed

-----------------------------------------------------------------------------
(* Acks are reported once.                                                 *)

\* A counter that is not named stays as it is.
LEMMA OtherCounter ==
  ASSUME NEW P, NEW ep \in Endpoints(P), NEW names, NEW k, NEW c \in Counted \ names
  PROVE  CountBy(ep, names, k).counters[c] = ep.counters[c]
  <1> DEFINE counters == [x \in Counted |-> IF x \in names
                                              THEN (ep.counters[x] + k) % CounterMod
                                              ELSE ep.counters[x]]
  <1>1. CountBy(ep, names, k) = [ep EXCEPT !.counters = counters]
    BY Zenon DEF CountBy
  <1>2. counters[c] = ep.counters[c]
    OBVIOUS
  <1> HIDE DEF counters
  <1>3. [ep EXCEPT !.counters = counters].counters = counters
    BY DEF Endpoints
  <1> QED
    BY <1>1, <1>2, <1>3

\* Counting on after the counter has wrapped around.
LEMMA ModAdds ==
  ASSUME NEW n \in Nat \ {0}, NEW a \in Int, NEW k \in Int
  PROVE  ((a % n) + k) % n = (a + k) % n
  <1>1. PICK m \in Int : m = a % n
    BY DivMod
  <1>2. PICK d \in Int : a = n * d + m
    BY <1>1, DivMod
  <1>3. PICK x \in Int : x = a + k
    OBVIOUS
  <1>4. PICK y \in Int : y = m + k
    OBVIOUS
  <1>5. x = y + n * d
    <2>1. PICK e \in Int : e = n * d
      OBVIOUS
    <2> QED
      BY ONLY <1>2, <1>3, <1>4, <2>1, a \in Int, k \in Int, m \in Int
  <1>6. x % n = y % n
    BY ONLY <1>5, ModShift, n \in Nat \ {0}, x \in Int, y \in Int, d \in Int
  <1> QED
    BY <1>1, <1>3, <1>4, <1>6, Zenon

\* One bit of the mask adds at most one ack, of a packet not reported yet.
LEMMA AckBitReports ==
  ASSUME NEW P, NEW ep \in Endpoints(P), NEW x \in Endpoints(P), NEW p,
         p.ack \in Seqs,
         NEW i \in Nat,
         x.sent_packets.entry_sequence = ep.sent_packets.entry_sequence,
         ReportedOnce(ep, x)
  PROVE  ReportedOnce(ep, AckBit(x, p, i))
  <1> DEFINE q == U16(p.ack - i)
             new == Reported(x, q)
             a == ep.sent_packets
             b == x.sent_packets
             c == new.sent_packets
             j == Slot(b, q)
             n == Len(ep.acks)
             m == Len(x.acks)
  <1>1. q \in Seqs
    <2>1. p.ack - i \in Int
      BY CircleNumbers
    <2> QED
      BY <2>1, CircleNumbers, DivMod DEF U16
  <1>2. CASE AckBit(x, p, i) = x
    BY <1>2
  <1>3. CASE AckBit(x, p, i) # x
    <2>1. AckBit(x, p, i) = new /\ Exists(b, q) /\ ~Acked(b, q)
      BY <1>3 DEF AckBit
    <2>2. /\ a \in Buffer(SentSize, BOOLEAN) /\ b \in Buffer(SentSize, BOOLEAN)
          /\ x.acks \in Seq(Seqs) /\ n \in Nat /\ m \in Nat
          /\ x.counters \in [Counted -> 0 .. (CounterMod - 1)]
          /\ ep.counters \in [Counted -> 0 .. (CounterMod - 1)]
      BY DEF Endpoints
    <2>3. a.num_entries = SentSize /\ b.num_entries = SentSize /\ j \in 0 .. (SentSize - 1)
          /\ Slots(a) = 0 .. (SentSize - 1)
      BY <1>1, <2>2, ConfigNumbers, CleanedSlots, SlotsValue
    <2> HIDE DEF q
    <2>4. /\ new \in Endpoints(P)
          /\ c.num_entries = b.num_entries
          /\ \A k \in 0 .. (SentSize - 1) :
               c.entry_data[k] = IF k = j THEN TRUE ELSE b.entry_data[k]
          /\ new.acks = Append(x.acks, q)
          /\ \A d \in Counted : new.counters[d] =
                  IF d = "packets_acked" THEN (x.counters[d] + 1) % CounterMod
                                         ELSE x.counters[d]
      <3>1. new \in Endpoints(P) /\ JustReported(x, q, new)
        BY ONLY <1>1, ReportedChanges, x \in Endpoints(P)
      <3> QED
        BY ONLY <3>1, <2>3 DEF JustReported
    <2>5. \A s : Slot(a, s) = Slot(b, s) /\ Slot(c, s) = Slot(b, s)
      BY <2>3, <2>4 DEF Slot
    <2>6. /\ Len(new.acks) = m + 1
          /\ new.acks[m + 1] = q
          /\ \A k \in 1 .. m : new.acks[k] = x.acks[k]
      <3> HIDE DEF new
      <3> QED
        BY <1>1, <2>2, <2>4
    <2> HIDE DEF new
    <2>7. n <= m /\ AddedPlaces(ep, x) = (n + 1) .. m
          /\ AddedPlaces(ep, new) = (n + 1) .. (m + 1)
      BY <2>6 DEF ReportedOnce, AddedPlaces
    <2>8. Exists(a, q) /\ a.entry_sequence[j] = q /\ ~b.entry_data[j]
      BY <2>1, <2>5 DEF Exists, Acked
    <2>9. \A k \in (n + 1) .. m :
             /\ x.acks[k] \in Seqs
             /\ Exists(a, x.acks[k]) /\ ~Acked(a, x.acks[k]) /\ Acked(b, x.acks[k])
      BY <2>2, <2>7, ElementOfSeq DEF ReportedOnce
    <2>10. \A k \in (n + 1) .. m : Slot(b, x.acks[k]) # j
      BY <2>8, <2>9 DEF Acked
    <2>11. /\ \A k \in 0 .. (SentSize - 1) : b.entry_data[k]
                <=> \/ a.entry_data[k]
                    \/ \E l \in (n + 1) .. m : Slot(b, x.acks[l]) = k
           /\ \A k, l \in (n + 1) .. m : x.acks[k] = x.acks[l] => k = l
      <3>1. AddedPlaces(ep, x) = (n + 1) .. m
        BY <2>7
      <3>2. \A k \in Slots(a) : b.entry_data[k]
              <=> \/ a.entry_data[k]
                  \/ \E l \in AddedPlaces(ep, x) : Slot(a, x.acks[l]) = k
        BY Zenon DEF ReportedOnce
      <3>3. \A k, l \in AddedPlaces(ep, x) : x.acks[k] = x.acks[l] => k = l
        BY Zenon DEF ReportedOnce
      <3>4. Slots(a) = 0 .. (SentSize - 1) /\ \A s : Slot(a, s) = Slot(b, s)
        BY <2>3, <2>5
      <3> HIDE DEF a, b, m, n
      <3> QED
        BY <3>1, <3>2, <3>3, <3>4
    <2>12. ~a.entry_data[j]
      BY <2>3, <2>8, <2>11
    <2>13. \A k \in (n + 1) .. m : Slot(b, x.acks[k]) \in 0 .. (SentSize - 1)
      <3>1. \A s \in Seqs : Slot(b, s) \in Slots(b)
        BY <2>2, ConfigNumbers, CleanedSlots
      <3>2. Slots(b) = 0 .. (SentSize - 1)
        BY <2>2, ConfigNumbers, SlotsValue
      <3> QED
        BY <2>9, <3>1, <3>2
    <2>14. \A k \in AddedPlaces(ep, new) :
              /\ Exists(a, new.acks[k]) /\ ~Acked(a, new.acks[k]) /\ Acked(c, new.acks[k])
      <3> TAKE k \in AddedPlaces(ep, new)
      <3>1. CASE k = m + 1
        BY <2>3, <2>4, <2>5, <2>6, <2>8, <2>12, <3>1 DEF Acked
      <3>2. CASE k \in (n + 1) .. m
        <4>1. new.acks[k] = x.acks[k]
          BY <2>2, <2>6, <3>2
        <4>2. Exists(a, x.acks[k]) /\ ~Acked(a, x.acks[k]) /\ Acked(b, x.acks[k])
          BY <2>9, <3>2
        <4>3. Slot(b, x.acks[k]) \in 0 .. (SentSize - 1) /\ Slot(b, x.acks[k]) # j
          BY <2>10, <2>13, <3>2
        <4>4. Acked(c, x.acks[k]) = Acked(b, x.acks[k])
          BY <2>4, <2>5, <4>3 DEF Acked
        <4> QED
          BY <4>1, <4>2, <4>4
      <3> QED
        BY <2>2, <2>7, <3>1, <3>2
    <2>15. \A k, l \in AddedPlaces(ep, new) : new.acks[k] = new.acks[l] => k = l
      <3>1. \A k \in (n + 1) .. m : new.acks[k] # q /\ new.acks[k] = x.acks[k]
        BY <2>2, <2>6, <2>10
      <3>2. \A k \in AddedPlaces(ep, new) : k \in (n + 1) .. m \/ k = m + 1
        BY <2>2, <2>7
      <3>3. \A k, l \in (n + 1) .. m : x.acks[k] = x.acks[l] => k = l
        BY <2>11
      <3>4. new.acks[m + 1] = q
        BY <2>6
      <3> HIDE DEF a, b, c, j, m, n
      <3> QED
        BY ONLY <3>1, <3>2, <3>3, <3>4
    <2>16. ASSUME NEW k \in Slots(a)
           PROVE  c.entry_data[k] <=> \/ a.entry_data[k]
                                      \/ \E l \in AddedPlaces(ep, new) : Slot(a, new.acks[l]) = k
      <3>1. /\ \A l \in AddedPlaces(ep, new) : l \in (n + 1) .. m \/ l = m + 1
            /\ \A l \in (n + 1) .. m : l \in AddedPlaces(ep, new) /\ new.acks[l] = x.acks[l]
            /\ m + 1 \in AddedPlaces(ep, new)
        BY <2>2, <2>6, <2>7
      <3>2. (\E l \in AddedPlaces(ep, new) : Slot(a, new.acks[l]) = k)
              <=> k = j \/ \E l \in (n + 1) .. m : Slot(b, x.acks[l]) = k
        BY <2>5, <2>6, <3>1
      <3>3. c.entry_data[k] <=> k = j \/ b.entry_data[k]
        BY <2>3, <2>4
      <3> QED
        BY <2>3, <2>11, <3>2, <3>3
    <2>17. ASSUME NEW d \in Counted \cap {"packets_acked"}
           PROVE  new.counters[d]
                    = (ep.counters[d] + (Len(new.acks) - Len(ep.acks))) % CounterMod
      <3>1. x.counters[d] = (ep.counters[d] + (m - n)) % CounterMod
        BY DEF ReportedOnce
      <3>2. new.counters[d] = (x.counters[d] + 1) % CounterMod
        BY <2>4
      <3>3. ep.counters[d] \in Nat /\ CounterMod \in Nat \ {0}
        BY <2>2, ConfigNumbers
      <3>4. \A u \in Int : ((u % CounterMod) + 1) % CounterMod = (u + 1) % CounterMod
        <4> TAKE u \in Int
        <4>1. 1 \in Int
          OBVIOUS
        <4> QED
          BY ONLY <3>3, <4>1, ModAdds, u \in Int
      <3>5. ep.counters[d] + (m - n) \in Int
            /\ ep.counters[d] + (m - n) + 1 = ep.counters[d] + (m + 1 - n)
        <4>1. \A u, v, w \in Int : u + (v - w) \in Int /\ u + (v - w) + 1 = u + (v + 1 - w)
          OBVIOUS
        <4>2. ep.counters[d] \in Int /\ m \in Int /\ n \in Int
          BY <2>2, <3>3
        <4> QED
          BY ONLY <4>1, <4>2
      <3>6. (((ep.counters[d] + (m - n)) % CounterMod) + 1) % CounterMod
               = (ep.counters[d] + (m - n) + 1) % CounterMod
        BY ONLY <3>4, <3>5
      <3>7. new.counters[d] = (ep.counters[d] + (m + 1 - n)) % CounterMod
        BY ONLY <3>1, <3>2, <3>5, <3>6, Zenon
      <3>8. Len(new.acks) - Len(ep.acks) = m + 1 - n
        BY <2>6
      <3> QED
        BY ONLY <3>7, <3>8
    <2>18. Len(ep.acks) <= Len(new.acks)
      BY <2>2, <2>6, <2>7
    <2> QED
      BY <2>1, <2>14, <2>15, <2>16, <2>17, <2>18 DEF ReportedOnce
  <1> QED
    BY <1>2, <1>3

\* At the start of the loop nothing is reported.
LEMMA NoneReported ==
  ASSUME NEW P, NEW ep \in Endpoints(P)
  PROVE  ReportedOnce(ep, ep)
  <1>1. Len(ep.acks) \in Nat /\ ep.counters \in [Counted -> 0 .. (CounterMod - 1)]
    BY DEF Endpoints
  <1>2. AddedPlaces(ep, ep) = {}
    BY <1>1 DEF AddedPlaces
  <1>3. ASSUME NEW c \in Counted
        PROVE  ep.counters[c] = (ep.counters[c] + (Len(ep.acks) - Len(ep.acks))) % CounterMod
    <2>1. PICK k \in 0 .. (CounterMod - 1) : k = ep.counters[c]
      BY <1>1
    <2>2. k = CounterMod * 0 + k
      BY ConfigNumbers
    <2>3. k % CounterMod = k
      BY <2>2, ConfigNumbers, ModUnique
    <2>4. ep.counters[c] + (Len(ep.acks) - Len(ep.acks)) = k
      BY <1>1, <2>1
    <2> QED
      BY <2>1, <2>3, <2>4, Zenon
  <1>4. Len(ep.acks) <= Len(ep.acks)
    BY <1>1
  <1> QED
    BY <1>2, <1>3, <1>4 DEF ReportedOnce

\* The loop reports as the invariant of the loop says.
LEMMA WithAcksReports ==
  ASSUME NEW P, NEW ep \in Endpoints(P), NEW p, p.ack \in Seqs
  PROVE  ReportedOnce(ep, WithAcks(ep, p))
  <1> DEFINE T == {x \in Endpoints(P) : OnlyAcked(ep, x) /\ ReportedOnce(ep, x)}
  <1>1. ep \in T
    BY NoneReported DEF OnlyAcked
  <1>2. \A x \in T : \A i \in 0 .. (AckWidth - 1) : AckBit(x, p, i) \in T
    <2> TAKE x \in T
    <2> TAKE i \in 0 .. (AckWidth - 1)
    <2>1. AckBit(x, p, i) \in Endpoints(P) /\ OnlyAcked(x, AckBit(x, p, i))
      BY AckBitChanges
    <2>2. x \in Endpoints(P) /\ OnlyAcked(ep, x) /\ ReportedOnce(ep, x)
      OBVIOUS
    <2>3. x.sent_packets.entry_sequence = ep.sent_packets.entry_sequence
      BY <2>2 DEF OnlyAcked
    <2>4. i \in Nat
      OBVIOUS
    <2>5. ReportedOnce(ep, AckBit(x, p, i))
      BY <2>2, <2>3, <2>4, AckBitReports
    <2>6. OnlyAcked(ep, AckBit(x, p, i))
      BY <2>1, <2>2 DEF OnlyAcked
    <2> QED
      BY <2>1, <2>5, <2>6
  <1>3. WithAcks(ep, p) \in T
    <2> HIDE DEF T
    <2> QED
      BY <1>1, <1>2, AckLoop
  <1> QED
    BY <1>3

\* A step of the endpoint that may send a packet, but reads no acks.
SentOnly(ep, new) ==
  /\ new.acks = ep.acks
  /\ \A c \in Counted \cap {"packets_acked"} : new.counters[c] = ep.counters[c]
  /\ \A q \in Present(ep.sent_packets) \cap Present(new.sent_packets) :
        Acked(new.sent_packets, q) = Acked(ep.sent_packets, q)

AddedAcks(ep, new) == SubSeq(new.acks, Len(ep.acks) + 1, Len(new.acks))

Elements(f) == {f[k] : k \in DOMAIN f}

\* What a step may do about acks.
AckStep(ep, new) ==
  LET added    == AddedAcks(ep, new)
      reported == Elements(added)
  IN  /\ Cardinality(reported) = Len(added)
      /\ \A q \in reported : q \in Present(new.sent_packets) /\ Acked(new.sent_packets, q)
      /\ \A q \in Present(ep.sent_packets) \cap Present(new.sent_packets) :
           IF Acked(ep.sent_packets, q)
             THEN Acked(new.sent_packets, q) /\ q \notin reported
             ELSE Acked(new.sent_packets, q) <=> q \in reported
      /\ \A c \in Counted \cap {"packets_acked"} :
           new.counters[c] = (ep.counters[c] + Len(added)) % CounterMod

\* Distinct elements of a sequence are as many as its length.
LEMMA DistinctCount ==
  ASSUME NEW S, NEW f \in Seq(S), \A k, l \in DOMAIN f : f[k] = f[l] => k = l
  PROVE  Cardinality({f[k] : k \in DOMAIN f}) = Len(f)
  <1>1. DOMAIN f = 1 .. Len(f) /\ Len(f) \in Nat
    OBVIOUS
  <1> DEFINE g == [k \in 1 .. Len(f) |-> f[k]]
             T == {f[k] : k \in DOMAIN f}
  <1>2. g \in Bijection(1 .. Len(f), T)
    <2>1. g \in [1 .. Len(f) -> T] /\ \A k \in 1 .. Len(f) : g[k] = f[k]
      BY <1>1
    <2>2. g \in Injection(1 .. Len(f), T)
      <3> HIDE DEF g, T
      <3> QED
        BY <1>1, <2>1 DEF Injection, IsInjective
    <2>3. g \in Surjection(1 .. Len(f), T)
      BY <1>1 DEF Surjection
    <2> QED
      BY <2>2, <2>3 DEF Bijection
  <1>3. ExistsBijection(1 .. Len(f), T)
    BY <1>2 DEF ExistsBijection
  <1>4. IsFiniteSet(1 .. Len(f)) /\ Cardinality(1 .. Len(f)) = Len(f)
    BY <1>1, FS_Interval
  <1> HIDE DEF T
  <1>5. Cardinality(T) = Cardinality(1 .. Len(f))
    BY <1>3, <1>4, FS_Bijection
  <1> QED
    BY <1>4, <1>5 DEF T

\* g is the end of f, from place n + 1 on.
EndOf(f, n, g) ==
  /\ Len(g) = Len(f) - n
  /\ \A x : (\E k \in DOMAIN g : x = g[k]) <=> \E k \in (n + 1) .. Len(f) : x = f[k]
  /\ (\A k, l \in (n + 1) .. Len(f) : f[k] = f[l] => k = l)
       => Cardinality({g[k] : k \in DOMAIN g}) = Len(g)

\* The end of a sequence is a subsequence.
LEMMA SequenceEnd ==
  ASSUME NEW S, NEW f \in Seq(S), NEW n \in Nat, n <= Len(f)
  PROVE  EndOf(f, n, SubSeq(f, n + 1, Len(f)))
  <1> DEFINE m == Len(f)
             g == SubSeq(f, n + 1, m)
  <1>1. m \in Nat /\ n <= m
    OBVIOUS
  <1>2. \A i \in (n + 1) .. m : i \in 1 .. m /\ f[i] \in S
    BY <1>1, ElementOfSeq
  <1>3. n + 1 \in Int /\ m \in Int
    BY <1>1
  <1> HIDE DEF m
  <1>4. /\ g \in Seq(S)
        /\ Len(g) = IF n + 1 <= m THEN m - (n + 1) + 1 ELSE 0
        /\ \A i \in 1 .. (m - (n + 1) + 1) : g[i] = f[n + 1 + i - 1]
    BY <1>2, <1>3, SubSeqProperties
  <1> HIDE DEF g
  <1>5. Len(g) = m - n /\ DOMAIN g = 1 .. (m - n)
    BY <1>1, <1>4
  <1>6. \A k \in 1 .. (m - n) : n + k \in (n + 1) .. m /\ g[k] = f[n + k]
    <2> TAKE k \in 1 .. (m - n)
    <2>1. k \in 1 .. (m - (n + 1) + 1) /\ n + 1 + k - 1 = n + k /\ n + k \in (n + 1) .. m
      BY <1>1
    <2> QED
      BY <1>4, <2>1
  <1>7. \A k \in (n + 1) .. m : k - n \in 1 .. (m - n) /\ n + (k - n) = k
    BY <1>1
  <1>8. \A x : (\E k \in DOMAIN g : x = g[k]) <=> \E k \in (n + 1) .. m : x = f[k]
    BY <1>5, <1>6, <1>7
  <1>9. ASSUME \A k, l \in (n + 1) .. m : f[k] = f[l] => k = l
         PROVE  Cardinality({g[k] : k \in DOMAIN g}) = Len(g)
    <2>1. \A k, l \in DOMAIN g : g[k] = g[l] => k = l
      <3> TAKE k, l \in DOMAIN g
      <3> HAVE g[k] = g[l]
      <3>1. n + k = n + l
        BY <1>5, <1>6, <1>9
      <3>2. k \in Int /\ l \in Int
        BY <1>5
      <3> QED
        BY <3>1, <3>2
    <2> QED
      BY <1>4, <2>1, DistinctCount
  <1> QED
    BY <1>5, <1>8, <1>9, Zenon DEF m, g, EndOf

\* Acks read after a packet may have been sent.
LEMMA AckStepAfterSend ==
  ASSUME NEW P, NEW ep \in Endpoints(P), NEW mid \in Endpoints(P),
         NEW new \in Endpoints(P),
         Windowed(ep.sent_packets), Windowed(mid.sent_packets), SentOnly(ep, mid),
         new.sent_packets.sequence = mid.sent_packets.sequence,
         new.sent_packets.entry_sequence = mid.sent_packets.entry_sequence,
         ReportedOnce(mid, new)
  PROVE  AckStep(ep, new)
  <1> DEFINE a == ep.sent_packets
             b == mid.sent_packets
             c == new.sent_packets
             n == Len(ep.acks)
             m == Len(new.acks)
             added == SubSeq(new.acks, n + 1, m)
             reported == {added[k] : k \in DOMAIN added}
  <1>1. /\ a \in Buffer(SentSize, BOOLEAN) /\ b \in Buffer(SentSize, BOOLEAN)
        /\ c \in Buffer(SentSize, BOOLEAN)
        /\ new.acks \in Seq(Seqs) /\ n \in Nat /\ m \in Nat /\ mid.acks = ep.acks
    BY DEF Endpoints, SentOnly
  <1>2. /\ Slots(b) = 0 .. (SentSize - 1)
        /\ \A q : Slot(b, q) = Slot(c, q) /\ Slot(a, q) = Slot(b, q)
        /\ \A q \in Seqs : Slot(b, q) \in 0 .. (SentSize - 1)
    BY <1>1, ConfigNumbers, SlotsValue, CleanedSlots DEF Slot
  <1>3. Windowed(c) /\ Present(c) = Present(b)
    BY <1>1, ConfigNumbers, SameWindow
  <1>4. /\ n <= m /\ AddedPlaces(mid, new) = (n + 1) .. m
        /\ \A k \in (n + 1) .. m : /\ Exists(b, new.acks[k])
                                   /\ ~Acked(b, new.acks[k])
                                   /\ Acked(c, new.acks[k])
        /\ \A k, l \in (n + 1) .. m : new.acks[k] = new.acks[l] => k = l
        /\ \A i \in Slots(b) : c.entry_data[i]
             <=> b.entry_data[i] \/ \E k \in (n + 1) .. m : Slot(b, new.acks[k]) = i
    BY <1>1 DEF ReportedOnce, AddedPlaces
  <1>5. /\ Len(added) = m - n
        /\ \A q : q \in reported <=> \E k \in (n + 1) .. m : q = new.acks[k]
        /\ Cardinality(reported) = Len(added)
    <2>1. \A k, l \in (n + 1) .. Len(new.acks) : new.acks[k] = new.acks[l] => k = l
      BY <1>4
    <2>2. new.acks \in Seq(Seqs) /\ n \in Nat /\ n <= Len(new.acks)
      BY <1>1, <1>4
    <2> HIDE DEF n
    <2>3. EndOf(new.acks, n, added)
      BY ONLY <2>2, SequenceEnd
    <2> HIDE DEF added
    <2>4. /\ Len(added) = Len(new.acks) - n
          /\ \A q : (\E k \in DOMAIN added : q = added[k])
                     <=> \E k \in (n + 1) .. Len(new.acks) : q = new.acks[k]
      BY <2>3, Zenon DEF EndOf
    <2>5. Cardinality(reported) = Len(added)
      BY <2>1, <2>3, Zenon DEF EndOf
    <2> QED
      BY <2>4, <2>5
  <1> HIDE DEF added, reported
  <1>6. \A k \in (n + 1) .. m : new.acks[k] \in Seqs
    <2>1. \A k \in (n + 1) .. m : k \in 1 .. m
      BY <1>1
    <2> QED
      BY <1>1, <2>1, ElementOfSeq
  <1>7. ASSUME NEW q \in reported
        PROVE  q \in Present(c) /\ Exists(b, q) /\ ~Acked(b, q) /\ Acked(c, q)
    <2>1. PICK k \in (n + 1) .. m : q = new.acks[k]
      BY <1>5
    <2>2. q \in Seqs /\ Exists(b, q) /\ ~Acked(b, q) /\ Acked(c, q)
      BY <1>4, <1>6, <2>1
    <2> QED
      BY <1>1, <1>3, <2>2, ConfigNumbers, PresentIff
  <1>8. ASSUME NEW q \in Present(a) \cap Present(c)
         PROVE  IF Acked(a, q) THEN Acked(c, q) /\ q \notin reported
                               ELSE Acked(c, q) <=> q \in reported
    <2>1. q \in Present(b) /\ Acked(b, q) = Acked(a, q)
      BY <1>3 DEF SentOnly
    <2>2. q \in Seqs
      BY <1>1, <2>1, ConfigNumbers, PresentWindow
    <2>3. Exists(b, q)
      BY <1>1, <2>1, <2>2, ConfigNumbers, PresentIff
    <2>4. Acked(c, q) <=> Acked(b, q) \/ \E k \in (n + 1) .. m : Slot(b, new.acks[k]) = Slot(b, q)
      BY <1>2, <1>4, <2>2 DEF Acked
    <2>5. \A k \in (n + 1) .. m : Slot(b, new.acks[k]) = Slot(b, q) => new.acks[k] = q
      BY <1>4, <2>3 DEF Exists
    <2>6. Acked(c, q) <=> Acked(b, q) \/ q \in reported
      BY <1>5, <2>4, <2>5
    <2>7. q \in reported => ~Acked(b, q)
      BY <1>7
    <2> QED
      BY <2>1, <2>6, <2>7
  <1>9. ASSUME NEW d \in Counted \cap {"packets_acked"}
         PROVE  new.counters[d] = (ep.counters[d] + Len(added)) % CounterMod
    BY <1>1, <1>5 DEF ReportedOnce, SentOnly
  <1>10. /\ Cardinality(reported) = Len(added)
         /\ \A q \in reported : q \in Present(c) /\ Acked(c, q)
         /\ \A q \in Present(a) \cap Present(c) :
              IF Acked(a, q) THEN Acked(c, q) /\ q \notin reported
                             ELSE Acked(c, q) <=> q \in reported
         /\ \A d \in Counted \cap {"packets_acked"} :
              new.counters[d] = (ep.counters[d] + Len(added)) % CounterMod
    BY <1>5, <1>7, <1>8, <1>9
  <1> QED
    BY <1>10, Zenon DEF AckStep, AddedAcks, Elements, added, reported

\* Only these fields of an endpoint matter for acks.
SameForAcks(ep, new) ==
  /\ new.sent_packets = ep.sent_packets
  /\ new.acks = ep.acks
  /\ \A c \in Counted \cap {"packets_acked"} : new.counters[c] = ep.counters[c]

\* What comes before and after the acks does not matter if it leaves them alone.
LEMMA SameAckStep ==
  ASSUME NEW ep, NEW x, NEW y, NEW new, SameForAcks(ep, x), SameForAcks(y, new),
         AckStep(x, y)
  PROVE  AckStep(ep, new)
  <1>1. AddedAcks(ep, new) = AddedAcks(x, y)
    BY DEF AddedAcks, SameForAcks
  <1>2. /\ x.sent_packets = ep.sent_packets /\ new.sent_packets = y.sent_packets
        /\ \A c \in Counted \cap {"packets_acked"} :
              x.counters[c] = ep.counters[c] /\ new.counters[c] = y.counters[c]
    BY DEF SameForAcks
  <1> QED
    BY <1>1, <1>2 DEF AckStep

\* Counting anything but acks does not matter to them.
LEMMA CountSameForAcks ==
  ASSUME NEW P, NEW ep \in Endpoints(P), NEW names, "packets_acked" \notin names
  PROVE  SameForAcks(ep, Count(ep, names))
  <1>1. SameButCounters(ep, Count(ep, names))
    BY CountOneChanges
  <1>2. \A c \in Counted \cap {"packets_acked"} : Count(ep, names).counters[c] = ep.counters[c]
    BY OtherCounter DEF Count
  <1> QED
    BY <1>1, <1>2 DEF SameButCounters, SameForAcks

\* Nothing is reported by a step that reads no acks.
LEMMA AckStepOfSend ==
  ASSUME NEW P, NEW ep \in Endpoints(P), NEW new \in Endpoints(P),
         Windowed(ep.sent_packets), Windowed(new.sent_packets), SentOnly(ep, new)
  PROVE  AckStep(ep, new)
  BY NoneReported, AckStepAfterSend

\* Nor what follows a send, as long as it leaves the acks alone.
LEMMA SameSentOnly ==
  ASSUME NEW ep, NEW mid, NEW new, SentOnly(ep, mid), SameForAcks(mid, new)
  PROVE  SentOnly(ep, new)
  BY DEF SentOnly, SameForAcks

\* A sent packet takes its slot from an older one, and no flag changes.
LEMMA SendSentOnly ==
  ASSUME Half > 1, FitsCircle(SentSize), NEW P, NEW ep, WellFormed(P, ep),
         Windowed(ep.sent_packets), NEW bytes \in Nat
  PROVE  SentOnly(ep, Sent(ep, bytes)) /\ Windowed(Sent(ep, bytes).sent_packets)
  <1> DEFINE b == ep.sent_packets
             s == ep.sequence
             j == Slot(b, s)
             inserted == Insert(b, s)
             c == SentBuffer(ep)
  <1>1. /\ b \in Buffer(SentSize, BOOLEAN) /\ s \in Seqs /\ b.sequence = s
        /\ ep \in Endpoints(P)
    BY DEF WellFormed, Endpoints
  <1>2. Ahead(b, s)
    BY <1>1, NextAhead
  <1>3. PICK a \in Buffer(SentSize, BOOLEAN) : a = Advance(b, s) /\ a.entry_data = b.entry_data
    BY <1>1, ConfigNumbers, AdvanceAt
  <1>4. /\ a.num_entries = SentSize /\ b.num_entries = SentSize
        /\ j \in 0 .. (SentSize - 1) /\ Slot(a, s) = j
    <2>1. j \in Slots(b) /\ Slots(b) = 0 .. (SentSize - 1)
      BY <1>1, ConfigNumbers, CleanedSlots, SlotsValue
    <2> QED
      BY <1>1, <1>3, <2>1, ConfigNumbers, SlotsValue DEF Slot
  <1>5. /\ inserted \in Buffer(SentSize, BOOLEAN)
        /\ inserted.entry_data = b.entry_data
        /\ inserted.entry_sequence[j] = s
        /\ Windowed(inserted)
    <2>1. Store(a, s) \in Buffer(SentSize, BOOLEAN)
      BY <1>1, <1>3, ConfigNumbers, StoreType
    <2>2. Store(a, s).entry_data = a.entry_data
      BY <1>3 DEF Store, Buffer
    <2>3. Store(a, s).entry_sequence[j] = s
      <3>1. a.entry_sequence \in [0 .. (SentSize - 1) -> Seqs \cup {Empty}]
        BY <1>3 DEF Buffer
      <3>2. Store(a, s).entry_sequence = [a.entry_sequence EXCEPT ![j] = s]
        BY <1>3, <1>4 DEF Store, Buffer
      <3> QED
        BY <1>4, <3>1, <3>2
    <2>4. Windowed(inserted)
      BY <1>1, <1>2, ConfigNumbers, InsertWindow
    <2> QED
      BY <1>3, <2>1, <2>2, <2>3, <2>4 DEF Insert
  <1> HIDE DEF inserted
  <1>6. /\ c \in Buffer(SentSize, BOOLEAN)
        /\ c.num_entries = SentSize
        /\ c.entry_sequence = inserted.entry_sequence
        /\ \A i \in 0 .. (SentSize - 1) :
              c.entry_data[i] = IF i = j THEN FALSE ELSE b.entry_data[i]
        /\ Windowed(c)
    <2>1. c = [inserted EXCEPT !.entry_data[j] = FALSE]
      BY Zenon DEF SentBuffer, inserted
    <2> HIDE DEF c, j
    <2>2. c \in Buffer(SentSize, BOOLEAN) /\ Windowed(c)
      <3>1. FALSE \in BOOLEAN
        OBVIOUS
      <3>2. /\ [inserted EXCEPT !.entry_data[j] = FALSE] \in Buffer(SentSize, BOOLEAN)
            /\ Windowed([inserted EXCEPT !.entry_data[j] = FALSE])
        BY ONLY <1>5, <3>1, ConfigNumbers, EntryWindow
      <3> QED
        BY <2>1, <3>2
    <2> QED
      BY <1>5, <2>1, <2>2 DEF Buffer
  <1> HIDE DEF c
  <1>7. ASSUME NEW q \in Present(b) \cap Present(c)
        PROVE  Acked(c, q) = Acked(b, q)
    <2>1. q \in Seqs /\ Distance(s, q) \in 1 .. SentSize
      BY <1>1, ConfigNumbers, PresentWindow
    <2>2. Exists(c, q)
      BY <1>6, <2>1, ConfigNumbers, PresentIff
    <2>3. Slot(c, q) = Slot(b, q) /\ Slot(b, q) \in 0 .. (SentSize - 1)
      <3>1. Slot(b, q) \in Slots(b) /\ Slots(b) = 0 .. (SentSize - 1)
        BY <1>1, <2>1, ConfigNumbers, CleanedSlots, SlotsValue
      <3> QED
        BY <1>4, <1>6, <3>1 DEF Slot
    <2>4. q # s
      <3>1. Distance(s, s) = 0
        <4>1. PICK t \in Seqs : t = s
          BY <1>1
        <4>2. t \in 0 .. SeqMod
          BY CircleNumbers
        <4>3. Distance(t, t) = 0
          BY <4>2, DistanceValue, CircleNumbers
        <4> QED
          BY <4>1, <4>3
      <3> QED
        BY <2>1, <3>1
    <2>5. Slot(b, q) # j
      BY <1>5, <1>6, <2>2, <2>3, <2>4 DEF Exists
    <2> QED
      BY <1>6, <2>3, <2>5 DEF Acked
  <1> DEFINE sent == [ep EXCEPT !.sequence = U16(s + 1), !.sent_packets = c]
             k == IF Fragmented(bytes) THEN NumFragments(bytes) ELSE 0
             counted == CountBy(sent, {"fragments_sent"}, k)
             new == Sent(ep, bytes)
  <1>8. new = Count(counted, {"packets_sent"})
    BY Zenon DEF Sent, SentBuffer, c
  <1>9. new \in Endpoints(P) /\ new.sent_packets = c /\ new.acks = ep.acks
    BY <1>1, SentChanges DEF c
  <1>10. /\ sent \in Endpoints(P) /\ sent.counters = ep.counters
    BY <1>1, <1>6, SuccessorType DEF Endpoints
  <1>11. k \in Nat
    <2>1. bytes + FragmentSize - 1 \in Nat
      BY ConfigNumbers
    <2>2. \A x \in Nat : x \div FragmentSize \in Nat
      BY ConfigNumbers, Z3
    <2> QED
      BY <2>1, <2>2 DEF NumFragments
  <1> HIDE DEF sent, k
  <1>12. counted \in Endpoints(P)
    BY <1>10, <1>11, CountChanges
  <1> HIDE DEF new
  <1>13. ASSUME NEW d \in Counted \cap {"packets_acked"}
         PROVE  new.counters[d] = ep.counters[d]
    <2>1. d \in Counted \ {"fragments_sent"} /\ d \in Counted \ {"packets_sent"}
      OBVIOUS
    <2>2. counted.counters[d] = sent.counters[d]
      BY <1>10, <2>1, OtherCounter
    <2> HIDE DEF counted
    <2>3. Count(counted, {"packets_sent"}).counters[d] = counted.counters[d]
      BY <1>12, <2>1, OtherCounter DEF Count
    <2> QED
      BY <1>8, <1>10, <2>2, <2>3
  <1> QED
    BY <1>6, <1>7, <1>9, <1>13 DEF SentOnly, new

\* All the callback may do to the sent packets is to send one.
LEMMA CallbackSentOnly ==
  ASSUME Half > 1, FitsCircle(SentSize), NEW P, NEW ep, WellFormed(P, ep),
         Windowed(ep.sent_packets), NEW reply \in Nat
  PROVE  /\ SentOnly(ep, AfterCallback(ep, reply))
         /\ Windowed(AfterCallback(ep, reply).sent_packets)
  <1> DEFINE received == Count(ep, {"packets_received"})
  <1>1. /\ received \in Endpoints(P) /\ SameButCounters(ep, received)
        /\ SameForAcks(ep, received)
    BY CountOneChanges, CountSameForAcks DEF WellFormed
  <1>2. AfterCallback(ep, reply) = IF reply = 0 THEN received ELSE Sent(received, reply)
    BY DEF AfterCallback
  <1> HIDE DEF received
  <1>3. WellFormed(P, received) /\ Windowed(received.sent_packets)
    BY <1>1, CountWellFormed DEF SameButCounters
  <1>4. SentOnly(received, Sent(received, reply)) /\ Windowed(Sent(received, reply).sent_packets)
    BY <1>3, SendSentOnly
  <1>5. SentOnly(ep, received) /\ SentOnly(ep, Sent(received, reply))
    BY <1>1, <1>4 DEF SentOnly, SameForAcks
  <1> QED
    BY <1>2, <1>3, <1>4, <1>5

\* A packet the callback takes makes an ack step.
LEMMA AcceptedAckStep ==
  ASSUME Half > 1, FitsCircle(SentSize), NEW P, NEW ep, WellFormed(P, ep),
         Windowed(ep.sent_packets), NEW p, p.sequence \in Seqs, p.ack \in Seqs,
         NEW reply \in Nat
  PROVE  AckStep(ep, Accepted(ep, p, reply))
  <1> DEFINE called == AfterCallback(ep, reply)
             remembered == Recorded(called, p.sequence)
             new == WithAcks(remembered, p)
  <1>1. Accepted(ep, p, reply) = new
    BY Zenon DEF Accepted, Recorded
  <1>2. called \in Endpoints(P) /\ SentOnly(ep, called) /\ Windowed(called.sent_packets)
        /\ ep \in Endpoints(P)
    BY CallbackSentOnly, CallbackChanges DEF WellFormed
  <1> HIDE DEF called
  <1>3. remembered \in Endpoints(P) /\ SameForAcks(called, remembered)
    BY <1>2, RecordedChanges DEF SameForAcks
  <1> HIDE DEF remembered
  <1>4. SentOnly(ep, remembered) /\ Windowed(remembered.sent_packets)
    BY <1>2, <1>3, SameSentOnly DEF SameForAcks
  <1>5. /\ new \in Endpoints(P) /\ OnlyAcked(remembered, new)
        /\ ReportedOnce(remembered, new)
    BY <1>3, WithAcksChanges, WithAcksReports
  <1> HIDE DEF new
  <1>6. AckStep(ep, new)
    BY <1>2, <1>3, <1>4, <1>5, AckStepAfterSend DEF OnlyAcked
  <1> QED
    BY <1>1, <1>6

\* And so does any outcome for a regular packet.
LEMMA RegularAckStep ==
  ASSUME Half > 1, FitsCircle(SentSize), NEW P, NEW ep, WellFormed(P, ep),
         Windowed(ep.sent_packets), NEW p, p.sequence \in Seqs, p.ack \in Seqs,
         NEW replies \in SUBSET Nat, NEW r \in RegularResults(ep, p, replies)
  PROVE  AckStep(ep, r.endpoint)
  <1>1. ep \in Endpoints(P)
    BY DEF WellFormed
  <1>2. CASE r = Unprocessed(Dropped(ep, p)) /\ ~Processed(ep, p)
    <2>1. r.endpoint = Dropped(ep, p)
      BY <1>2 DEF Unprocessed, Result
    <2>2. "packets_acked" \notin DropCounters[WhyDropped(ep, p)]
      BY <1>2 DEF DropCounters, WhyDropped, Processed
    <2>3. Dropped(ep, p) \in Endpoints(P) /\ SameForAcks(ep, Dropped(ep, p))
      BY <1>1, <2>2, CountOneChanges, CountSameForAcks DEF Dropped
    <2>4. SentOnly(ep, Dropped(ep, p)) /\ Windowed(Dropped(ep, p).sent_packets)
      BY <2>3 DEF SentOnly, SameForAcks
    <2> QED
      BY <1>1, <2>1, <2>3, <2>4, AckStepOfSend
  <1>3. ASSUME NEW reply \in replies, r = Result(Rejected(ep, reply), ep, reply, {})
        PROVE  AckStep(ep, r.endpoint)
    <2>1. r.endpoint = AfterCallback(ep, reply)
      BY <1>3 DEF Rejected, Result
    <2>2. AfterCallback(ep, reply) \in Endpoints(P)
      BY <1>1, CallbackChanges
    <2> QED
      BY <1>1, <2>1, <2>2, CallbackSentOnly, AckStepOfSend
  <1>4. ASSUME NEW reply \in replies, r = Result(Accepted(ep, p, reply), ep, reply, {p})
        PROVE  AckStep(ep, r.endpoint)
    <2>1. r.endpoint = Accepted(ep, p, reply)
      BY <1>4 DEF Result
    <2> QED
      BY <2>1, AcceptedAckStep
  <1>5. \/ r = Unprocessed(Dropped(ep, p)) /\ ~Processed(ep, p)
        \/ \E reply \in replies : \/ r = Result(Rejected(ep, reply), ep, reply, {})
                                  \/ r = Result(Accepted(ep, p, reply), ep, reply, {p})
    <2>1. RegularOutcome(ep, p, replies, r)
      BY ONLY RegularCases, r \in RegularResults(ep, p, replies), replies \in SUBSET Nat
    <2> QED
      BY <2>1, Zenon DEF RegularOutcome
  <1> QED
    BY <1>2, <1>3, <1>4, <1>5

\* The acks that the last fragment brings: those of the whole packet.
LEMMA CompletionAckStep ==
  ASSUME Half > 1, FitsCircle(SentSize), NEW P, NULL \notin Reassemblies(P), NEW ep,
         WellFormed(P, ep), Windowed(ep.sent_packets), NEW p, Storable(P, ep, p),
         NEW replies \in SUBSET Nat, NEW r \in CompletionResults(ep, p, replies)
  PROVE  AckStep(ep, r.endpoint)
  <1> DEFINE s == p.sequence
             whole == Collected(ep, p)
             stored == AfterStore(ep, p)
  <1>1. PICK x \in RegularResults(stored, whole, replies) :
           r.endpoint = CountFragment(Closed(x.endpoint, s))
    BY CompletionCases
  <1>2. /\ WellFormed(P, stored) /\ SameForAcks(ep, stored)
    <2>1. WellFormed(P, stored)
      BY StoredWellFormed
    <2>2. /\ stored.sent_packets = ep.sent_packets
          /\ stored.acks = ep.acks
          /\ stored.counters = ep.counters
      BY StoredKeeps DEF WellFormed
    <2> QED
      BY <2>1, <2>2 DEF SameForAcks
  <1>3. s \in Seqs /\ whole.sequence = s /\ whole.ack \in Seqs
    BY CollectedFields
  <1> HIDE DEF whole, stored
  <1>4. Windowed(stored.sent_packets)
    BY <1>2 DEF SameForAcks
  <1>5. WellFormed(P, x.endpoint) /\ AckStep(stored, x.endpoint)
    BY <1>2, <1>3, <1>4, RegularWellFormed, RegularAckStep
  <1> DEFINE closed == Closed(x.endpoint, s)
  <1>6. WellFormed(P, closed) /\ SameForAcks(x.endpoint, closed)
    BY <1>3, <1>5, ClosedWellFormed DEF SameForAcks
  <1> HIDE DEF closed
  <1>7. SameForAcks(closed, CountFragment(closed))
    BY <1>6, CountSameForAcks DEF CountFragment, WellFormed
  <1>8. SameForAcks(x.endpoint, r.endpoint)
    BY <1>1, <1>6, <1>7 DEF SameForAcks, closed
  <1> QED
    BY <1>2, <1>5, <1>8, SameAckStep

\* An endpoint whose acks array is empty has nothing new in it.
LEMMA EmptyAckStep ==
  ASSUME NEW P, NEW ep \in Endpoints(P), NEW new, new.acks = << >>,
         \A q \in Present(ep.sent_packets) \cap Present(new.sent_packets) :
            Acked(new.sent_packets, q) = Acked(ep.sent_packets, q)
  PROVE  LET added    == AddedAcks(ep, new)
             reported == Elements(added)
         IN  /\ Len(added) = 0
             /\ Cardinality(reported) = Len(added)
             /\ \A q \in reported : q \in Present(new.sent_packets) /\ Acked(new.sent_packets, q)
             /\ \A q \in Present(ep.sent_packets) \cap Present(new.sent_packets) :
                  IF Acked(ep.sent_packets, q)
                    THEN Acked(new.sent_packets, q) /\ q \notin reported
                    ELSE Acked(new.sent_packets, q) <=> q \in reported
  <1> DEFINE added    == AddedAcks(ep, new)
             reported == Elements(added)
  <1>1. Len(ep.acks) \in Nat
    BY DEF Endpoints
  <1>2. added = << >>
    <2>1. Len(ep.acks) + 1 \in Int /\ Len(new.acks) = 0 /\ 0 < Len(ep.acks) + 1
      BY <1>1
    <2> QED
      BY <2>1, SubSeqEmpty DEF AddedAcks
  <1>3. reported = {} /\ Len(added) = 0
    BY <1>2 DEF Elements
  <1>4. Cardinality(reported) = 0
    BY <1>3, FS_EmptySet
  <1> HIDE DEF added, reported
  <1>5. /\ Len(added) = 0
        /\ Cardinality(reported) = Len(added)
        /\ \A q \in reported : q \in Present(new.sent_packets) /\ Acked(new.sent_packets, q)
        /\ \A q \in Present(ep.sent_packets) \cap Present(new.sent_packets) :
             IF Acked(ep.sent_packets, q)
               THEN Acked(new.sent_packets, q) /\ q \notin reported
               ELSE Acked(new.sent_packets, q) <=> q \in reported
    BY <1>3, <1>4
  <1> QED
    BY <1>5, Zenon DEF added, reported

-----------------------------------------------------------------------------
(* Reassembly from one state to the next                                   *)

\* A sequence that two windows both hold is held in the same slot, with the
\* entry it had unless that is one of the slots that changed.
LEMMA KeptEntry ==
  ASSUME NEW P, NULL \notin Reassemblies(P), NEW ep, WellFormed(P, ep),
         Windowed(ep.fragment_reassembly),
         NEW new, WellFormed(P, new), Windowed(new.fragment_reassembly), NEW J,
         KeptOutside(ep.fragment_reassembly, new.fragment_reassembly, J),
         NEW s \in Present(ep.fragment_reassembly) \cap Present(new.fragment_reassembly),
         Slot(ep.fragment_reassembly, s) \notin J
  PROVE  UnderReassembly(new, s) = UnderReassembly(ep, s)
  <1> DEFINE b == ep.fragment_reassembly
             c == new.fragment_reassembly
  <1>1. /\ Slots(b) = 0 .. (ReassemblySize - 1) /\ Slots(c) = Slots(b)
        /\ b.num_entries = ReassemblySize /\ c.num_entries = ReassemblySize
    BY SlotsValue, ConfigNumbers DEF WellFormed, Endpoints
  <1>2. Slot(c, s) = Slot(b, s)
    BY <1>1 DEF Slot
  <1>3. PICK i \in Slots(c) : Occupied(c, i) /\ c.entry_sequence[i] = s
    BY DEF Present
  <1>4. Slot(c, s) = i
    BY <1>3 DEF Windowed
  <1> HIDE DEF b, c
  <1>5. c.entry_data[i] = b.entry_data[i]
    BY <1>1, <1>2, <1>3, <1>4 DEF KeptOutside, b, c
  <1> QED
    BY <1>2, <1>4, <1>5 DEF UnderReassembly, b, c

\* What is held of a reassembly entry only grows.
Grown(ep, new) ==
  \A s \in Present(ep.fragment_reassembly) \cap Present(new.fragment_reassembly) :
    LET before == UnderReassembly(ep, s)
        after  == UnderReassembly(new, s)
    IN  /\ after.num_fragments_total = before.num_fragments_total
        /\ \A i \in DOMAIN before.parts :
             i \in DOMAIN after.parts /\ after.parts[i] = before.parts[i]

\* Storing a fragment adds to the entry of its packet and to no other: the
\* number of fragments agrees, and this one has not been stored before.
LEMMA StoredGrows ==
  ASSUME NEW P, NULL \notin Reassemblies(P), NEW ep, WellFormed(P, ep),
         Windowed(ep.fragment_reassembly), NEW p,
         Storable(P, ep, p), Windowed(AfterStore(ep, p).fragment_reassembly)
  PROVE  Grown(ep, AfterStore(ep, p))
  <1> DEFINE new == AfterStore(ep, p)
             b == ep.fragment_reassembly
             c == new.fragment_reassembly
             j == Slot(b, p.sequence)
  <1>1. /\ WellFormed(P, new)
        /\ KeptOutside(b, c, {j})
        /\ Exists(c, p.sequence)
        /\ UnderReassembly(new, p.sequence)
             = WithFragment(UnderReassembly(Opened(ep, p), p.sequence), p)
    BY StoredWellFormed
  <1> HIDE DEF new, c
  <1> SUFFICES ASSUME NEW s \in Present(b) \cap Present(c)
               PROVE  LET before == UnderReassembly(ep, s)
                          after  == UnderReassembly(new, s)
                      IN  /\ after.num_fragments_total = before.num_fragments_total
                          /\ \A i \in DOMAIN before.parts :
                               i \in DOMAIN after.parts /\ after.parts[i] = before.parts[i]
    BY DEF Grown, c, new
  <1>2. CASE Slot(b, s) # j
    <2>1. UnderReassembly(new, s) = UnderReassembly(ep, s)
      BY <1>1, <1>2, KeptEntry DEF new, c
    <2> QED
      BY <2>1
  <1>3. CASE Slot(b, s) = j
    <2>1. b.num_entries = c.num_entries
      BY <1>1 DEF WellFormed, Endpoints, Buffer, c
    <2>2. Exists(b, s) /\ Exists(c, s)
      <3>1. Windowed(b) /\ Windowed(c) /\ s \in Present(b) /\ s \in Present(c)
        BY DEF new, c
      <3> HIDE DEF b
      <3> QED
        BY ONLY <3>1 DEF Exists, Present, Windowed
    <2>3. s = p.sequence
      BY <1>1, <1>3, <2>1, <2>2 DEF Exists, Slot
    <2>4. /\ UnderReassembly(Opened(ep, p), p.sequence) = UnderReassembly(ep, p.sequence)
          /\ UnderReassembly(Opened(ep, p), p.sequence) \in Reassemblies(P)
      BY <2>2, <2>3, OpenedWellFormed
    <2>5. p.fragment_id \notin DOMAIN UnderReassembly(ep, s).parts
      BY <2>2, <2>3 DEF Storable, Stored, WhyIgnored
    <2>6. PICK data \in Reassemblies(P) : data = UnderReassembly(ep, s)
      BY <2>3, <2>4
    <2>7. UnderReassembly(new, s) = WithFragment(data, p)
      BY <1>1, <2>3, <2>4, <2>6
    <2>8. StoredFields(P, p)
      BY StorableFragment DEF StoredFields
    <2>9. FragmentAdded(data, WithFragment(data, p), p)
      BY <2>8, WithFragmentChanges
    <2> QED
      BY <2>5, <2>6, <2>7, <2>9 DEF FragmentAdded
  <1> QED
    BY <1>2, <1>3

\* Growth only depends on the reassembly buffer.
LEMMA SameGrown ==
  ASSUME NEW ep, NEW mid, NEW new, Grown(ep, mid),
         new.fragment_reassembly = mid.fragment_reassembly
  PROVE  Grown(ep, new)
  BY DEF Grown, UnderReassembly

\* Losing entries, and keeping the rest as they are, is growth.
LEMMA KeptGrown ==
  ASSUME NEW P, NULL \notin Reassemblies(P), NEW ep, WellFormed(P, ep),
         Windowed(ep.fragment_reassembly),
         NEW new, WellFormed(P, new), Windowed(new.fragment_reassembly), NEW J,
         KeptOutside(ep.fragment_reassembly, new.fragment_reassembly, J),
         \A i \in J : ~Occupied(new.fragment_reassembly, i)
  PROVE  Grown(ep, new)
  <1> DEFINE b == ep.fragment_reassembly
             c == new.fragment_reassembly
  <1> SUFFICES ASSUME NEW s \in Present(b) \cap Present(c)
               PROVE  UnderReassembly(new, s) = UnderReassembly(ep, s)
    BY DEF Grown
  <1>1. b.num_entries = c.num_entries
    BY DEF WellFormed, Endpoints, Buffer
  <1>2. PICK i \in Slots(c) : Occupied(c, i) /\ c.entry_sequence[i] = s
    BY DEF Present
  <1>3. Slot(c, s) = i /\ Slot(b, s) = i
    BY <1>1, <1>2 DEF Windowed, Slot
  <1> QED
    BY <1>2, <1>3, KeptEntry

-----------------------------------------------------------------------------
(* Packets sent, and their count                                           *)

\* A step that sends nothing: the same packets are remembered, and as many counted.
NothingSent(ep, new) ==
  /\ new.sequence = ep.sequence
  /\ Present(new.sent_packets) = Present(ep.sent_packets)
  /\ \A c \in Counted \cap {"packets_sent"} : new.counters[c] = ep.counters[c]

\* A step that sends one packet: no other is remembered that was not before.
OneSent(ep, new) ==
  /\ Present(new.sent_packets) \subseteq Present(ep.sent_packets) \cup {ep.sequence}
  /\ \A c \in Counted \cap {"packets_sent"} :
       new.counters[c] = (ep.counters[c] + 1) % CounterMod

SendStep(ep, new, reply) == IF reply = 0 THEN NothingSent(ep, new) ELSE OneSent(ep, new)

\* What sends nothing may come before and after.
LEMMA SameSendStep ==
  ASSUME NEW ep, NEW x, NEW y, NEW new, NEW reply,
         NothingSent(ep, x), SendStep(x, y, reply), NothingSent(y, new)
  PROVE  SendStep(ep, new, reply)
  BY DEF SendStep, NothingSent, OneSent

\* What leaves the sent packets alone and counts no sending sends nothing.
LEMMA CountNothingSent ==
  ASSUME NEW P, NEW ep \in Endpoints(P), NEW names, "packets_sent" \notin names
  PROVE  NothingSent(ep, Count(ep, names))
  <1>1. SameButCounters(ep, Count(ep, names))
    BY CountOneChanges
  <1>2. \A c \in Counted \cap {"packets_sent"} : Count(ep, names).counters[c] = ep.counters[c]
    BY OtherCounter DEF Count
  <1> QED
    BY <1>1, <1>2 DEF SameButCounters, NothingSent

\* send_packet inserts its sequence, and counts it.
LEMMA SentOne ==
  ASSUME Half > 1, FitsCircle(SentSize), NEW P, NEW ep, WellFormed(P, ep),
         Windowed(ep.sent_packets), NEW bytes \in Nat
  PROVE  OneSent(ep, Sent(ep, bytes))
  <1> DEFINE b == ep.sent_packets
             s == ep.sequence
             c == SentBuffer(ep)
             sent == [ep EXCEPT !.sequence = U16(s + 1), !.sent_packets = c]
             k == IF Fragmented(bytes) THEN NumFragments(bytes) ELSE 0
             counted == CountBy(sent, {"fragments_sent"}, k)
             new == Sent(ep, bytes)
  <1>1. /\ b \in Buffer(SentSize, BOOLEAN) /\ s \in Seqs /\ b.sequence = s
        /\ ep \in Endpoints(P)
    BY DEF WellFormed, Endpoints
  <1>2. Present(c) \subseteq Present(b) \cup {s}
    <2>1. Ahead(b, s)
      BY <1>1, NextAhead
    <2>2. /\ Insert(b, s) \in Buffer(SentSize, BOOLEAN)
          /\ Present(Insert(b, s)) = Present(Advance(b, s)) \cup {s}
          /\ Present(Advance(b, s)) \subseteq Present(b)
      BY <1>1, <2>1, ConfigNumbers, InsertWindow, AdvanceWindow
    <2>3. /\ c.entry_sequence = Insert(b, s).entry_sequence
          /\ c.num_entries = Insert(b, s).num_entries
      BY <2>2 DEF SentBuffer, Buffer
    <2>4. Present(c) = Present(Insert(b, s))
      BY <2>3 DEF Present, Slots, Occupied
    <2> QED
      BY <2>2, <2>4
  <1>3. c \in Buffer(SentSize, BOOLEAN) /\ new \in Endpoints(P) /\ new.sent_packets = c
    <2>1. new \in Endpoints(P) /\ new.sent_packets = c
      BY <1>1, SentChanges
    <2> HIDE DEF new, c
    <2> QED
      BY <2>1 DEF Endpoints
  <1>4. new = Count(counted, {"packets_sent"})
    BY Zenon DEF Sent, SentBuffer
  <1> HIDE DEF c, new
  <1>5. sent \in Endpoints(P) /\ sent.counters = ep.counters
    BY <1>1, <1>3, SuccessorType DEF Endpoints
  <1>6. k \in Nat
    <2>1. bytes + FragmentSize - 1 \in Nat
      BY ConfigNumbers
    <2>2. \A x \in Nat : x \div FragmentSize \in Nat
      BY ConfigNumbers, Z3
    <2> QED
      BY <2>1, <2>2 DEF NumFragments
  <1> HIDE DEF sent, k
  <1>7. counted \in Endpoints(P)
    BY <1>5, <1>6, CountChanges
  <1>8. ASSUME NEW d \in Counted \cap {"packets_sent"}
        PROVE  new.counters[d] = (ep.counters[d] + 1) % CounterMod
    <2>1. counted.counters[d] = sent.counters[d]
      BY <1>5, OtherCounter
    <2> HIDE DEF counted
    <2>2. Count(counted, {"packets_sent"}).counters[d] = (counted.counters[d] + 1) % CounterMod
      BY <1>7 DEF Count, CountBy, Endpoints
    <2> QED
      BY <1>4, <1>5, <2>1, <2>2
  <1> QED
    BY <1>2, <1>3, <1>8 DEF OneSent, new

\* The callback sends its reply, if any.
LEMMA CallbackSends ==
  ASSUME Half > 1, FitsCircle(SentSize), NEW P, NEW ep, WellFormed(P, ep),
         Windowed(ep.sent_packets), NEW reply \in Nat
  PROVE  SendStep(ep, AfterCallback(ep, reply), reply)
  <1> DEFINE received == Count(ep, {"packets_received"})
  <1>1. /\ received \in Endpoints(P) /\ SameButCounters(ep, received)
        /\ NothingSent(ep, received)
    BY CountOneChanges, CountNothingSent DEF WellFormed
  <1>2. AfterCallback(ep, reply) = IF reply = 0 THEN received ELSE Sent(received, reply)
    BY DEF AfterCallback
  <1> HIDE DEF received
  <1>3. WellFormed(P, received) /\ Windowed(received.sent_packets)
    BY <1>1, CountWellFormed DEF SameButCounters
  <1>4. OneSent(received, Sent(received, reply))
    BY <1>3, SentOne
  <1> QED
    BY <1>1, <1>2, <1>4 DEF SendStep, NothingSent, OneSent

\* Reading acks counts no packet as sent.
LEMMA AcksSendNothing ==
  ASSUME NEW P, NEW ep \in Endpoints(P), NEW p, p.ack \in Seqs
  PROVE  NothingSent(ep, WithAcks(ep, p))
  <1> DEFINE T == {x \in Endpoints(P) : NothingSent(ep, x)}
  <1>1. ep \in T
    BY DEF NothingSent
  <1>2. \A x \in T : \A i \in 0 .. (AckWidth - 1) : AckBit(x, p, i) \in T
    <2> TAKE x \in T
    <2> TAKE i \in 0 .. (AckWidth - 1)
    <2> DEFINE q == U16(p.ack - i)
               new == AckBit(x, p, i)
    <2>1. q \in Seqs
      <3>1. p.ack - i \in Int
        BY CircleNumbers
      <3> QED
        BY <3>1, IdSequence
    <2>2. new \in Endpoints(P) /\ OnlyAcked(x, new)
      BY AckBitChanges
    <2>3. Present(new.sent_packets) = Present(x.sent_packets)
      <3>1. /\ new.sent_packets \in Buffer(SentSize, BOOLEAN)
            /\ x.sent_packets \in Buffer(SentSize, BOOLEAN)
            /\ new.sent_packets.sequence = x.sent_packets.sequence
            /\ new.sent_packets.entry_sequence = x.sent_packets.entry_sequence
        BY <2>2 DEF Endpoints, OnlyAcked
      <3> HIDE DEF new
      <3> QED
        BY <3>1, ConfigNumbers, SameWindow
    <2>4. \A c \in Counted \cap {"packets_sent"} : new.counters[c] = x.counters[c]
      <3>1. CASE new = x
        BY <3>1
      <3>2. CASE new # x
        <4>1. new = Reported(x, q)
          BY <3>2 DEF AckBit
        <4>2. JustReported(x, q, Reported(x, q))
          BY <2>1, ReportedChanges
        <4> HIDE DEF new, q
        <4> QED
          BY <4>1, <4>2 DEF JustReported
      <3> QED
        BY <3>1, <3>2
    <2>5. new.sequence = x.sequence
      BY <2>2 DEF OnlyAcked
    <2> HIDE DEF new
    <2>6. NothingSent(ep, new)
      BY <2>3, <2>4, <2>5 DEF NothingSent
    <2> QED
      BY <2>2, <2>6 DEF new
  <1>3. WithAcks(ep, p) \in T
    <2> HIDE DEF T
    <2> QED
      BY <1>1, <1>2, AckLoop
  <1> QED
    BY <1>3

\* However a regular packet ends, it sends the reply of the callback and no more.
LEMMA RegularSends ==
  ASSUME Half > 1, FitsCircle(SentSize), NEW P, NEW ep, WellFormed(P, ep),
         Windowed(ep.sent_packets), NEW p, p.sequence \in Seqs, p.ack \in Seqs,
         NEW replies \in SUBSET Nat, NEW r \in RegularResults(ep, p, replies)
  PROVE  SendStep(ep, r.endpoint, r.reply)
  <1>1. ep \in Endpoints(P)
    BY DEF WellFormed
  <1>2. CASE r = Unprocessed(Dropped(ep, p)) /\ ~Processed(ep, p)
    <2>1. r.endpoint = Dropped(ep, p) /\ r.reply = 0
      BY <1>2 DEF Unprocessed, Result
    <2>2. "packets_sent" \notin DropCounters[WhyDropped(ep, p)]
      BY <1>2 DEF DropCounters, WhyDropped, Processed
    <2>3. NothingSent(ep, Dropped(ep, p))
      BY <1>1, <2>2, CountNothingSent DEF Dropped
    <2> QED
      BY <2>1, <2>3 DEF SendStep
  <1>3. ASSUME NEW reply \in replies, r = Result(Rejected(ep, reply), ep, reply, {})
        PROVE  SendStep(ep, r.endpoint, r.reply)
    <2>1. r.endpoint = AfterCallback(ep, reply) /\ r.reply = reply
      BY <1>3 DEF Rejected, Result
    <2> QED
      BY <2>1, CallbackSends
  <1>4. ASSUME NEW reply \in replies, r = Result(Accepted(ep, p, reply), ep, reply, {p})
        PROVE  SendStep(ep, r.endpoint, r.reply)
    <2> DEFINE called == AfterCallback(ep, reply)
               remembered == Recorded(called, p.sequence)
    <2>1. r.endpoint = WithAcks(remembered, p) /\ r.reply = reply
      <3>1. Accepted(ep, p, reply) = WithAcks(remembered, p)
        BY Zenon DEF Accepted, Recorded
      <3> QED
        BY <1>4, <3>1 DEF Result
    <2>2. called \in Endpoints(P) /\ SendStep(ep, called, reply)
      BY <1>1, CallbackSends, CallbackChanges
    <2> HIDE DEF called
    <2>3. remembered \in Endpoints(P) /\ NothingSent(called, remembered)
      BY <2>2, RecordedChanges DEF NothingSent
    <2> HIDE DEF remembered
    <2>4. NothingSent(remembered, WithAcks(remembered, p))
      BY <2>3, AcksSendNothing
    <2>5. NothingSent(ep, ep) /\ NothingSent(called, WithAcks(remembered, p))
      BY <2>3, <2>4 DEF NothingSent
    <2> QED
      BY <2>1, <2>2, <2>5, SameSendStep
  <1>5. \/ r = Unprocessed(Dropped(ep, p)) /\ ~Processed(ep, p)
        \/ \E reply \in replies : \/ r = Result(Rejected(ep, reply), ep, reply, {})
                                  \/ r = Result(Accepted(ep, p, reply), ep, reply, {p})
    <2>1. RegularOutcome(ep, p, replies, r)
      BY ONLY RegularCases, r \in RegularResults(ep, p, replies), replies \in SUBSET Nat
    <2> QED
      BY <2>1, Zenon DEF RegularOutcome
  <1> QED
    BY <1>2, <1>3, <1>4, <1>5

\* And so does the last fragment.
LEMMA CompletionSends ==
  ASSUME Half > 1, FitsCircle(SentSize), NEW P, NULL \notin Reassemblies(P), NEW ep,
         WellFormed(P, ep), Windowed(ep.sent_packets), NEW p, Storable(P, ep, p),
         NEW replies \in SUBSET Nat, NEW r \in CompletionResults(ep, p, replies)
  PROVE  SendStep(ep, r.endpoint, r.reply)
  <1> DEFINE s == p.sequence
             whole == Collected(ep, p)
             stored == AfterStore(ep, p)
  <1>1. PICK x \in RegularResults(stored, whole, replies) :
           r.endpoint = CountFragment(Closed(x.endpoint, s)) /\ r.reply = x.reply
    BY CompletionCases
  <1>2. WellFormed(P, stored) /\ NothingSent(ep, stored) /\ Windowed(stored.sent_packets)
    <2>1. WellFormed(P, stored)
      BY StoredWellFormed
    <2>2. /\ stored.sent_packets = ep.sent_packets
          /\ stored.sequence = ep.sequence
          /\ stored.counters = ep.counters
      BY StoredKeeps DEF WellFormed
    <2> QED
      BY <2>1, <2>2 DEF NothingSent
  <1>3. s \in Seqs /\ whole.sequence = s /\ whole.ack \in Seqs
    BY CollectedFields
  <1> HIDE DEF whole, stored
  <1>4. WellFormed(P, x.endpoint) /\ SendStep(stored, x.endpoint, x.reply)
    BY <1>2, <1>3, RegularWellFormed, RegularSends
  <1> DEFINE closed == Closed(x.endpoint, s)
  <1>5. WellFormed(P, closed) /\ NothingSent(x.endpoint, closed)
    BY <1>3, <1>4, ClosedWellFormed DEF NothingSent
  <1> HIDE DEF closed
  <1>6. NothingSent(closed, CountFragment(closed))
    BY <1>5, CountNothingSent DEF CountFragment, WellFormed
  <1>7. NothingSent(x.endpoint, r.endpoint)
    BY <1>1, <1>5, <1>6 DEF NothingSent, closed
  <1> QED
    BY <1>1, <1>2, <1>4, <1>7, SameSendStep
=============================================================================
