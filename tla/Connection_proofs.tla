-------------------------- MODULE Connection_proofs --------------------------
(***************************************************************************)
(* What a connection promises, for every Half, every configuration whose   *)
(* buffers fit the sequence space and any applications: no message is      *)
(* taken twice or garbled, no packet is collected again after it was       *)
(* taken, and what is acked was taken.                                     *)
(*                                                                         *)
(* Sequences wrap, so the invariant speaks of ids.  It needs two histories *)
(* the code does not keep: the log of what each end sent, by id, and the   *)
(* id at which each end's windows of the other's packets end.  The state   *)
(* satisfies the invariant if some history does.                           *)
(***************************************************************************)
EXTENDS Connection, EndpointState_proofs

\* The buffers are windows of the circle, and a packet never so far ahead of the
\* windows of the other end that it seems to be in them.  Fragments are collected
\* for no longer than the packets received are remembered.
SizesFit ==
  /\ SizesFitCircle
  /\ MaxLead + ReceivedSize <= SeqMod
  /\ ReassemblySize <= ReceivedSize

-----------------------------------------------------------------------------
(* The log of an end                                                       *)

\* Of each message: its size, how many messages the other end had sent when
\* its packet was transmitted, and the acks the packet carries.
LogEntries ==
  [bytes : Nat, heard : Nat, ack : Seqs, ack_bits : SUBSET (0 .. (AckWidth - 1))]

Logs == [Nat -> LogEntries]

MessageOf(log, i) == [id |-> i, bytes |-> log[i].bytes]

ContentOf(log, i) == [payload |-> {MessageOf(log, i)}, bytes |-> log[i].bytes]

\* new logs the first n messages as log does.
Extends(new, log, n) == \A i \in Nat : i < n => new[i] = log[i]

\* The bytes of fragment k of a packet.
PartSize(bytes, k) ==
  LET last == NumFragments(bytes) - 1
  IN  IF k < last THEN FragmentSize ELSE bytes - last * FragmentSize

\* p carries the header of packet i.
Carries(log, i, p) ==
  p.sequence = U16(i) /\ p.ack = log[i].ack /\ p.ack_bits = log[i].ack_bits

\* p is packet i in one piece, or collected.
WholeOf(log, i, p) == Carries(log, i, p) /\ Content(p) = ContentOf(log, i)

\* p is a fragment of packet i.
PartOf(log, i, p) ==
  /\ Fragmented(log[i].bytes)
  /\ p.sequence = U16(i)
  /\ p.num_fragments = NumFragments(log[i].bytes)
  /\ p.fragment_id \in 0 .. (NumFragments(log[i].bytes) - 1)
  /\ p.bytes = PartSize(log[i].bytes, p.fragment_id)
  /\ p.payload = {MessageOf(log, i)}
  /\ p.fragment_id = 0 => Carries(log, i, p)

\* p was transmitted for packet i.
PacketOf(log, i, p) ==
  \/ p \in RegularPackets(SUBSET Messages) /\ ~Fragmented(log[i].bytes) /\ WholeOf(log, i, p)
  \/ p \in FragmentPackets(SUBSET Messages) /\ PartOf(log, i, p)

\* data is what was collected of packet i.
EntryOf(log, i, data) ==
  /\ Fragmented(log[i].bytes)
  /\ data.num_fragments_total = NumFragments(log[i].bytes)
  /\ DOMAIN data.parts \subseteq 0 .. (NumFragments(log[i].bytes) - 1)
  /\ \A k \in DOMAIN data.parts :
       /\ data.parts[k].payload = {MessageOf(log, i)}
       /\ data.parts[k].bytes = PartSize(log[i].bytes, k)
  /\ 0 \in DOMAIN data.parts => data.ack = log[i].ack /\ data.ack_bits = log[i].ack_bits

-----------------------------------------------------------------------------
(* What an end knows of the messages the other has logged.  sent is how many *)
(* the other has sent, newest the id at which this end's windows end, and  *)
(* taken the contents that its callback took.                              *)

Took(log, i, taken) == i \in Nat /\ ContentOf(log, i) \in DOMAIN taken

\* Message i was taken, or is so old that deliveries of its age are forgotten.
Known(log, sent, i, memory, taken) == Took(log, i, taken) \/ i < sent - memory

\* The other end is not too far ahead.
Hears(newest, sent) == newest <= sent /\ sent - newest <= MaxLead

\* What was taken is a message; as long as it is in the window, the window
\* holds it.
TakenOnce(log, newest, received, taken) ==
  \A c \in DOMAIN taken : \E i \in 0 .. (newest - 1) :
     /\ c = ContentOf(log, i)
     /\ i >= newest - ReceivedSize => i \in Ids(received, newest)

\* And what the window holds was taken.
HeldKnown(log, sent, memory, newest, received, taken) ==
  \A i \in Ids(received, newest) : i \in Nat /\ Known(log, sent, i, memory, taken)

\* What is being collected are parts of one message.
Collecting(log, newest, reassembly) ==
  \A i \in Ids(reassembly, newest) :
     i \in Nat /\ EntryOf(log, i, reassembly.entry_data[Slot(reassembly, U16(i))])

\* Nothing is collected that was taken, but for what is taken just now.
Fresh(log, newest, reassembly, taken, now) ==
  \A i \in Ids(reassembly, newest) : i \notin now => ~Took(log, i, taken)

\* The packets an end has sent claim of the other's messages nothing but what
\* is known: a bit of the mask stands for the id that it stood for when the
\* packet was made.
Claims(claims, made, log, sent, memory, taken) ==
  \A i \in Nat : i < made => \A j \in claims[i].ack_bits :
     /\ claims[i].heard <= sent
     /\ \E k \in Int :
          /\ U16(k) = U16(claims[i].ack - j)
          /\ k >= claims[i].heard - MaxLead - AckWidth
          /\ k < claims[i].heard
          /\ Known(log, sent, k, memory, taken)

\* What an end has seen acked of its own messages, the other took.
AckedTaken(log, sent, packets, taken) ==
  \A i \in Ids(packets, sent) : Acked(packets, U16(i)) => Took(log, i, taken)

-----------------------------------------------------------------------------
(* The two ends                                                            *)

\* An end: its log, how many messages it has sent, where its windows of the other's
\* packets end, the endpoint, and what its callback took.
ProperEnd(v) ==
  /\ v.log \in Logs
  /\ v.sent \in Nat
  /\ v.newest \in Nat
  /\ WellFormed(SUBSET Messages, v.state)
  /\ AllWindowed(v.state)
  /\ v.state.sent_packets.sequence = U16(v.sent)
  /\ v.state.received_packets.sequence = U16(v.newest)
  /\ v.taken \in [DOMAIN v.taken -> {1}]

\* End v as the receiver of what w sends.
Receives(v, w, memory, now) ==
  /\ Hears(v.newest, w.sent)
  /\ TakenOnce(w.log, v.newest, v.state.received_packets, v.taken)
  /\ HeldKnown(w.log, w.sent, memory, v.newest, v.state.received_packets, v.taken)
  /\ Collecting(w.log, v.newest, v.state.fragment_reassembly)
  /\ Fresh(w.log, v.newest, v.state.fragment_reassembly, v.taken, now)
  /\ Claims(v.log, v.sent, w.log, w.sent, memory, v.taken)
  /\ AckedTaken(w.log, w.sent, w.state.sent_packets, v.taken)

\* What is on the way to peer e, end v, from peer o, end w: packets of w not too
\* old for either end.
OnTheWay(e, o, v, w, packets) ==
  \A x \in packets :
     /\ x.born[o] \in Nat /\ x.born[e] \in Nat
     /\ x.born[o] < w.sent /\ w.sent - x.born[o] <= MaxLife
     /\ x.born[e] <= v.sent /\ v.sent - x.born[e] <= MaxLife
     /\ x.born[e] = w.log[x.born[o]].heard
     /\ PacketOf(w.log, x.born[o], x.packet)

\* Both ends, with what is on the way to each; now is what v is taking.
Both(e, o, v, w, memory, now, to_v, to_w) ==
  /\ ProperEnd(v) /\ ProperEnd(w)
  /\ Receives(v, w, memory, now)
  /\ Receives(w, v, memory, {})
  /\ OnTheWay(e, o, v, w, to_v)
  /\ OnTheWay(o, e, w, v, to_w)

-----------------------------------------------------------------------------
(* Constants, peers and ids                                                *)

\* The bounds as numbers.
LEMMA ConnectionNumbers ==
  /\ MaxLife \in Nat /\ MaxLead \in Nat /\ AckWidth \in Nat
  /\ MaxLife <= Half /\ MaxLead + MaxLife + AckWidth <= SeqMod
  /\ NULL \notin Reassemblies(SUBSET Messages)
  <1>1. AckWidth \in Nat
    BY ConfigNumbers
  <1> QED
    BY <1>1, ConnectionAssumption, NetworkAssumption, BlockAssumption

\* The sizes, for the provers.
LEMMA SizeNumbers ==
  ASSUME SizesFit
  PROVE  /\ Half \in Nat /\ SeqMod = 2 * Half /\ Half > 1
         /\ FitsCircle(SentSize) /\ SentSize < Half
         /\ FitsCircle(ReceivedSize) /\ ReceivedSize < Half
         /\ FitsCircle(ReassemblySize) /\ ReassemblySize < Half
         /\ SentSize \in Nat \ {0} /\ ReceivedSize \in Nat \ {0}
         /\ ReassemblySize \in Nat \ {0}
         /\ MaxLead + ReceivedSize <= SeqMod /\ ReassemblySize <= ReceivedSize
  BY ConfigNumbers, CircleNumbers DEF SizesFit, SizesFitCircle, FitsCircle

\* There are two peers.
LEMMA OtherPeer ==
  ASSUME NEW e \in Peers
  PROVE  /\ Other(e) \in Peers /\ Other(e) # e /\ Other(Other(e)) = e
         /\ \A p \in Peers : p = e \/ p = Other(e)
  <1>1. PICK a \in Peers, b \in Peers : a # b /\ Peers = {a, b}
    BY ConnectionAssumption
  <1>2. \A p \in Peers : Other(p) \in Peers /\ Other(p) # p
    <2>1. TAKE p \in Peers
    <2>2. \E q \in Peers : q # p
      BY <1>1
    <2> QED
      BY <2>2 DEF Other
  <1> QED
    BY <1>1, <1>2

\* Contents are of one message.
LEMMA ContentId ==
  ASSUME NEW log, NEW new, NEW i, NEW k, ContentOf(new, i) = ContentOf(log, k)
  PROVE  i = k
  <1>1. MessageOf(new, i) = MessageOf(log, k)
    BY DEF ContentOf
  <1> QED
    BY <1>1 DEF MessageOf

\* What is logged before stays.
LEMMA ExtendedContent ==
  ASSUME NEW log, NEW new, NEW n, Extends(new, log, n), NEW i \in Nat, i < n
  PROVE  ContentOf(new, i) = ContentOf(log, i) /\ MessageOf(new, i) = MessageOf(log, i)
  BY DEF Extends, ContentOf, MessageOf

\* Only what was seen was taken.
LEMMA TookSeen ==
  ASSUME NEW log, NEW new, NEW newest \in Nat, NEW received, NEW taken,
         TakenOnce(log, newest, received, taken), NEW n \in Nat, newest <= n,
         Extends(new, log, n), NEW i, Took(new, i, taken)
  PROVE  /\ i \in 0 .. (newest - 1) /\ Took(log, i, taken)
         /\ i >= newest - ReceivedSize => i \in Ids(received, newest)
  <1>1. PICK k \in 0 .. (newest - 1) :
          /\ ContentOf(new, i) = ContentOf(log, k)
          /\ k >= newest - ReceivedSize => k \in Ids(received, newest)
    BY DEF Took, TakenOnce
  <1>2. i = k
    BY <1>1, ContentId
  <1> QED
    BY <1>1, <1>2 DEF Took

\* A log extends itself.
LEMMA ExtendsItself ==
  ASSUME NEW log, NEW n
  PROVE  Extends(log, log, n)
  BY DEF Extends

-----------------------------------------------------------------------------
(* One message more: the log grows, and deliveries that are too old to     *)
(* matter are forgotten.                                                   *)

\* What is forgotten is older than the memory.
LEMMA TookAged ==
  ASSUME NEW log, NEW new, NEW n \in Nat, Extends(new, log, n), NEW i, i < n,
         NEW taken, Took(log, i, taken), Application.memory \in Nat
  PROVE  Took(new, i, Remembered(taken, n + 1)) \/ i < (n + 1) - Application.memory
  <1> i \in Nat
    BY DEF Took
  <1>1. ContentOf(new, i) = ContentOf(log, i)
    BY ExtendedContent
  <1>2. MessageOf(log, i) \in ContentOf(log, i).payload /\ MessageOf(log, i).id = i
    BY DEF ContentOf, MessageOf
  <1>3. CASE i >= (n + 1) - Application.memory
    <2>1. ContentOf(log, i) \in Recent(taken, n + 1)
      BY <1>2, <1>3 DEF Recent, Took
    <2> QED
      BY <1>1, <2>1 DEF Remembered, Took
  <1>4. CASE ~(i >= (n + 1) - Application.memory)
    BY <1>4
  <1> QED
    BY <1>3, <1>4

\* So what is known stays known.
LEMMA KnownAged ==
  ASSUME NEW log, NEW new, NEW n \in Nat, Extends(new, log, n), NEW i \in Int, i < n,
         NEW taken, Application.memory \in Nat, Known(log, n, i, Application.memory, taken)
  PROVE  Known(new, n + 1, i, Application.memory, Remembered(taken, n + 1))
  <1>1. CASE Took(log, i, taken)
    BY <1>1, TookAged DEF Known
  <1>2. CASE i < n - Application.memory
    BY <1>2 DEF Known
  <1> QED
    BY <1>1, <1>2 DEF Known

\* Remembering forgets, and does nothing else.
LEMMA RememberedType ==
  ASSUME NEW taken, taken \in [DOMAIN taken -> {1}], NEW n
  PROVE  /\ DOMAIN Remembered(taken, n) \subseteq DOMAIN taken
         /\ Remembered(taken, n) \in [DOMAIN Remembered(taken, n) -> {1}]
  BY DEF Remembered, Recent

\* The receiver's side of one message more: its windows have not moved.
LEMMA ReceiverAged ==
  ASSUME NEW log, NEW new, NEW n \in Nat, Extends(new, log, n), Application.memory \in Nat,
         NEW newest \in Nat, newest <= n,
         NEW P, NEW ep, WellFormed(P, ep),
         NEW taken, NEW now,
         TakenOnce(log, newest, ep.received_packets, taken),
         HeldKnown(log, n, Application.memory, newest, ep.received_packets, taken),
         Collecting(log, newest, ep.fragment_reassembly),
         Fresh(log, newest, ep.fragment_reassembly, taken, now)
  PROVE  /\ TakenOnce(new, newest, ep.received_packets, Remembered(taken, n + 1))
         /\ HeldKnown(new, n + 1, Application.memory, newest, ep.received_packets,
                      Remembered(taken, n + 1))
         /\ Collecting(new, newest, ep.fragment_reassembly)
         /\ Fresh(new, newest, ep.fragment_reassembly, Remembered(taken, n + 1), now)
  <1> DEFINE later == Remembered(taken, n + 1)
  <1>1. DOMAIN later \subseteq DOMAIN taken
    BY DEF Remembered, Recent
  <1> HIDE DEF later
  <1>2. /\ \A i \in Ids(ep.received_packets, newest) : i \in Int /\ i < newest
        /\ \A i \in Ids(ep.fragment_reassembly, newest) : i \in Int /\ i < newest
    <2>1. /\ ep.received_packets.num_entries = ReceivedSize
          /\ ep.fragment_reassembly.num_entries = ReassemblySize
      BY DEF WellFormed, Endpoints, Buffer
    <2> QED
      BY <2>1, ConfigNumbers DEF Ids
  <1>3. TakenOnce(new, newest, ep.received_packets, later)
    <2>1. SUFFICES ASSUME NEW c \in DOMAIN later
                   PROVE  \E i \in 0 .. (newest - 1) :
                            /\ c = ContentOf(new, i)
                            /\ i >= newest - ReceivedSize => i \in Ids(ep.received_packets, newest)
      BY DEF TakenOnce
    <2>2. PICK i \in 0 .. (newest - 1) :
             /\ c = ContentOf(log, i)
             /\ i >= newest - ReceivedSize => i \in Ids(ep.received_packets, newest)
      BY <1>1 DEF TakenOnce
    <2>3. ContentOf(new, i) = ContentOf(log, i)
      BY ExtendedContent
    <2> QED
      BY <2>2, <2>3
  <1>4. HeldKnown(new, n + 1, Application.memory, newest, ep.received_packets, later)
    <2>1. SUFFICES ASSUME NEW i \in Ids(ep.received_packets, newest)
                   PROVE  i \in Nat /\ Known(new, n + 1, i, Application.memory, later)
      BY DEF HeldKnown
    <2>2. i \in Nat /\ i < n /\ Known(log, n, i, Application.memory, taken)
      BY <1>2 DEF HeldKnown
    <2> QED
      BY <2>2, KnownAged DEF later
  <1>5. Collecting(new, newest, ep.fragment_reassembly)
    <2>1. SUFFICES ASSUME NEW i \in Ids(ep.fragment_reassembly, newest)
                   PROVE  /\ i \in Nat
                          /\ EntryOf(new, i, ep.fragment_reassembly.entry_data
                                               [Slot(ep.fragment_reassembly, U16(i))])
      BY DEF Collecting
    <2>2. /\ i \in Nat /\ i < n
          /\ EntryOf(log, i, ep.fragment_reassembly.entry_data
                               [Slot(ep.fragment_reassembly, U16(i))])
      BY <1>2 DEF Collecting
    <2>3. new[i] = log[i] /\ MessageOf(new, i) = MessageOf(log, i)
      BY <2>2, ExtendedContent DEF Extends
    <2> QED
      BY <2>2, <2>3 DEF EntryOf
  <1>6. Fresh(new, newest, ep.fragment_reassembly, later, now)
    <2>1. SUFFICES ASSUME NEW i \in Ids(ep.fragment_reassembly, newest), i \notin now,
                          Took(new, i, later)
                   PROVE  FALSE
      BY DEF Fresh
    <2>2. Took(new, i, taken)
      BY <1>1, <2>1 DEF Took
    <2>3. Took(log, i, taken)
      BY <2>2, TookSeen
    <2> QED
      BY <2>1, <2>3 DEF Fresh
  <1> QED
    BY <1>3, <1>4, <1>5, <1>6 DEF later

\* The claims stand: what was known is known.
LEMMA ClaimsAged ==
  ASSUME NEW log, NEW new, NEW n \in Nat, Extends(new, log, n), Application.memory \in Nat,
         NEW taken, NEW claims \in Logs, NEW made \in Nat,
         Claims(claims, made, log, n, Application.memory, taken)
  PROVE  Claims(claims, made, new, n + 1, Application.memory, Remembered(taken, n + 1))
  <1>1. SUFFICES ASSUME NEW i \in Nat, i < made, NEW j \in claims[i].ack_bits
                 PROVE  /\ claims[i].heard <= n + 1
                        /\ \E k \in Int :
                             /\ U16(k) = U16(claims[i].ack - j)
                             /\ k >= claims[i].heard - MaxLead - AckWidth
                             /\ k < claims[i].heard
                             /\ Known(new, n + 1, k, Application.memory, Remembered(taken, n + 1))
    BY DEF Claims
  <1>2. claims[i].heard \in Nat /\ claims[i].heard <= n
    BY <1>1 DEF Claims, Logs, LogEntries
  <1>3. PICK k \in Int :
          /\ U16(k) = U16(claims[i].ack - j)
          /\ k >= claims[i].heard - MaxLead - AckWidth
          /\ k < claims[i].heard
          /\ Known(log, n, k, Application.memory, taken)
    BY <1>1 DEF Claims
  <1>4. Known(new, n + 1, k, Application.memory, Remembered(taken, n + 1))
    BY <1>2, <1>3, KnownAged
  <1> QED
    BY <1>2, <1>3, <1>4

-----------------------------------------------------------------------------
(* The sender's side of one message more                                   *)

\* The sent packets after one more: its slot holds it, unacked, and the others
\* hold what they held or nothing.
LEMMA SentKept ==
  ASSUME Half > 1, FitsCircle(SentSize), NEW P, NEW ep, WellFormed(P, ep),
         AllWindowed(ep), NEW bytes \in Nat
  PROVE  LET b == ep.sent_packets
             c == Sent(ep, bytes).sent_packets
             j == Slot(b, ep.sequence)
         IN  /\ c \in Buffer(SentSize, BOOLEAN) /\ Windowed(c)
             /\ c.sequence = U16(ep.sequence + 1)
             /\ c.entry_data[j] = FALSE
             /\ KeptOutside(b, c, {j})
  <1> DEFINE b == ep.sent_packets
             s == ep.sequence
             j == Slot(b, s)
             inserted == Insert(b, s)
             c == SentBuffer(ep)
  <1>1. b \in Buffer(SentSize, BOOLEAN) /\ s \in Seqs /\ ep \in Endpoints(P)
    BY DEF WellFormed, Endpoints
  <1>2. /\ Sent(ep, bytes).sent_packets = c
        /\ Sent(ep, bytes).sequence = U16(s + 1)
    BY <1>1, SentChanges
  <1>3. /\ WellFormed(P, Sent(ep, bytes))
        /\ AllWindowed(Sent(ep, bytes))
    BY SentWellFormed
  <1>4. c \in Buffer(SentSize, BOOLEAN) /\ Windowed(c) /\ c.sequence = U16(s + 1)
    BY <1>2, <1>3 DEF WellFormed, AllWindowed, Endpoints
  <1>5. PICK a \in Buffer(SentSize, BOOLEAN) :
          /\ a = Advance(b, s) /\ a.entry_data = b.entry_data
          /\ \A i \in 0 .. (SentSize - 1) :
               a.entry_sequence[i] = IF i \in Overtaken(b, s) THEN Empty ELSE b.entry_sequence[i]
    <2> HIDE DEF b, s
    <2>1. /\ Advance(b, s) \in Buffer(SentSize, BOOLEAN)
          /\ Advance(b, s).entry_data = b.entry_data
          /\ \A i \in 0 .. (SentSize - 1) :
               Advance(b, s).entry_sequence[i] =
                 IF i \in Overtaken(b, s) THEN Empty ELSE b.entry_sequence[i]
      BY <1>1, ConfigNumbers, AdvanceAt
    <2> QED
      BY <2>1
  <1>6. /\ j \in 0 .. (SentSize - 1) /\ Slot(a, s) = j
        /\ Slots(b) = 0 .. (SentSize - 1)
    <2>1. j \in Slots(b) /\ Slots(b) = 0 .. (SentSize - 1)
      BY <1>1, ConfigNumbers, CleanedSlots, SlotsValue
    <2>2. a.num_entries = SentSize /\ b.num_entries = SentSize
      BY <1>1, <1>5 DEF Buffer
    <2> QED
      BY <2>1, <2>2 DEF Slot
  <1>7. /\ inserted.entry_data = b.entry_data
        /\ inserted.entry_sequence = [a.entry_sequence EXCEPT ![j] = s]
        /\ inserted \in Buffer(SentSize, BOOLEAN)
    <2>1. Store(a, s) \in Buffer(SentSize, BOOLEAN)
      BY <1>1, <1>5, ConfigNumbers, StoreType
    <2>2. /\ Store(a, s).entry_data = a.entry_data
          /\ Store(a, s).entry_sequence = [a.entry_sequence EXCEPT ![j] = s]
      BY <1>5, <1>6 DEF Store, Buffer
    <2> QED
      BY <1>5, <2>1, <2>2 DEF Insert
  <1> HIDE DEF inserted
  <1>8. /\ c.entry_sequence = inserted.entry_sequence
        /\ \A i \in 0 .. (SentSize - 1) :
              c.entry_data[i] = IF i = j THEN FALSE ELSE b.entry_data[i]
    <2>1. c = [inserted EXCEPT !.entry_data[j] = FALSE]
      BY Zenon DEF SentBuffer, inserted
    <2> HIDE DEF c, j
    <2> QED
      BY <1>6, <1>7, <2>1 DEF Buffer
  <1>9. \A i \in 0 .. (SentSize - 1) : i # j =>
           c.entry_sequence[i] = IF i \in Overtaken(b, s) THEN Empty ELSE b.entry_sequence[i]
    <2> HIDE DEF c, j
    <2>1. a.entry_sequence \in [0 .. (SentSize - 1) -> Seqs \cup {Empty}]
      BY <1>5 DEF Buffer
    <2> QED
      BY <1>5, <1>6, <1>7, <1>8, <2>1
  <1>10. KeptOutside(b, c, {j})
    <2> HIDE DEF c, j
    <2> QED
      BY <1>6, <1>8, <1>9 DEF KeptOutside, Occupied
  <1>11. c.entry_data[j] = FALSE
    BY <1>6, <1>8
  <1> HIDE DEF c, j
  <1> QED
    BY <1>2, <1>4, <1>10, <1>11 DEF c, j

\* What was acked of the packets still in the window was taken, and deliveries
\* of their age are not forgotten.
LEMMA AckedAged ==
  ASSUME SizesFit, NEW P, NEW ep, WellFormed(P, ep), AllWindowed(ep), NEW bytes \in Nat,
         NEW log, NEW new, NEW n \in Nat, Extends(new, log, n),
         ep.sent_packets.sequence = U16(n),
         Application.memory \in Nat, Application.memory >= SentSize,
         NEW taken, AckedTaken(log, n, ep.sent_packets, taken)
  PROVE  /\ Sent(ep, bytes).sent_packets.sequence = U16(n + 1)
         /\ AckedTaken(new, n + 1, Sent(ep, bytes).sent_packets, Remembered(taken, n + 1))
  <1> DEFINE b == ep.sent_packets
             j == Slot(b, U16(n))
  <1>1. ep.sequence = U16(n) /\ b \in Buffer(SentSize, BOOLEAN) /\ Windowed(b)
    BY DEF WellFormed, AllWindowed, Endpoints
  <1>2. PICK c \in Buffer(SentSize, BOOLEAN) :
          /\ c = Sent(ep, bytes).sent_packets /\ Windowed(c)
          /\ c.sequence = U16(U16(n) + 1)
          /\ c.entry_data[j] = FALSE
          /\ KeptOutside(b, c, {j})
    BY <1>1, SizeNumbers, SentKept
  <1>3. c.sequence = U16(n + 1)
    BY <1>2, IdSum
  <1>4. ASSUME NEW i \in Ids(c, n + 1), Acked(c, U16(i))
        PROVE  Took(new, i, Remembered(taken, n + 1))
    <2>1. c.num_entries = SentSize /\ b.num_entries = SentSize
      BY <1>1, <1>2 DEF Buffer
    <2>2. i \in Int /\ i >= n + 1 - SentSize
      BY <2>1, SizeNumbers DEF Ids
    <2>3. Slot(b, U16(i)) \notin {j}
      BY <1>2, <1>4, <2>1 DEF Acked, Slot
    <2>4. /\ i \in Ids(b, n)
          /\ c.entry_data[Slot(c, U16(i))] = b.entry_data[Slot(b, U16(i))]
      <3>1. n + 1 >= n /\ n + 1 - n <= Half /\ SentSize < Half
        BY SizeNumbers
      <3> HIDE DEF j
      <3> QED
        BY <1>1, <1>2, <1>4, <2>3, <3>1, SizeNumbers, KeptIds
    <2>5. Took(log, i, taken)
      BY <1>4, <2>4 DEF AckedTaken, Acked
    <2>6. i < n
      BY <2>1, <2>4, SizeNumbers DEF Ids
    <2>7. Took(new, i, Remembered(taken, n + 1)) \/ i < (n + 1) - Application.memory
      BY <2>5, <2>6, TookAged
    <2> QED
      BY <2>2, <2>7, SizeNumbers
  <1> QED
    BY <1>2, <1>3, <1>4 DEF AckedTaken

\* A set bit of the mask is the id of a packet of the window.
LEMMA BitKnown ==
  ASSUME SizesFit, NEW D, NEW b \in Buffer(ReceivedSize, D), Windowed(b),
         NEW newest \in Nat, b.sequence = U16(newest), NEW sent \in Nat, Hears(newest, sent),
         NEW log, NEW memory, NEW taken, HeldKnown(log, sent, memory, newest, b, taken),
         NEW j \in AckBits(b, AckWidth)
  PROVE  \E k \in Int : /\ U16(k) = U16(Ack(b) - j)
                        /\ k >= sent - MaxLead - AckWidth /\ k < sent
                        /\ Known(log, sent, k, memory, taken)
  <1>1. j \in 0 .. (AckWidth - 1) /\ Exists(b, U16(Ack(b) - j))
    BY DEF AckBits
  <1>2. PICK k \in Int : k = newest - 1 - j
    BY <1>1, ConnectionNumbers
  <1>3. U16(Ack(b) - j) = U16(k)
    <2>1. Ack(b) = U16(newest - 1)
      BY IdDifference DEF Ack
    <2>2. PICK l \in Int : l = newest - 1
      OBVIOUS
    <2>3. U16(U16(l) - j) = U16(l - j)
      BY <1>1, ConnectionNumbers, IdDifference
    <2> QED
      BY <1>2, <2>1, <2>2, <2>3
  <1>4. PICK h \in Ids(b, newest) : U16(h) = U16(k)
    <2>1. U16(k) \in Present(b)
      BY <1>1, <1>3, SizeNumbers, IdSequence, PresentIff
    <2> QED
      BY <2>1, SizeNumbers, HeldId
  <1>5. h \in Int /\ h >= newest - ReceivedSize /\ h < newest
    <2>1. b.num_entries = ReceivedSize
      BY DEF Buffer
    <2> QED
      BY <2>1, SizeNumbers DEF Ids
  <1>6. h = k
    <2>1. h - k < SeqMod /\ k - h < SeqMod
      BY <1>1, <1>2, <1>5, SizeNumbers, ConnectionNumbers
    <2> QED
      BY <1>4, <1>5, <2>1, SameId
  <1>7. Known(log, sent, k, memory, taken)
    BY <1>4, <1>6 DEF HeldKnown
  <1>8. k >= sent - MaxLead - AckWidth /\ k < sent
    BY <1>1, <1>2, ConnectionNumbers DEF Hears
  <1> QED
    BY <1>3, <1>7, <1>8

\* What an end logs of a message it sends, with its window of the other's packets b.
LogEntry(bytes, sent, b) ==
  [bytes |-> bytes, heard |-> sent, ack |-> Ack(b), ack_bits |-> AckBits(b, AckWidth)]

\* The claims of a packet made now are known now.
LEMMA ClaimsMade ==
  ASSUME SizesFit, NEW D, NEW b \in Buffer(ReceivedSize, D), Windowed(b),
         NEW newest \in Nat, b.sequence = U16(newest), NEW sent \in Nat, Hears(newest, sent),
         NEW log, NEW memory, NEW taken, HeldKnown(log, sent, memory, newest, b, taken),
         NEW claims, NEW made \in Nat, Claims(claims, made, log, sent, memory, taken),
         NEW new, Extends(new, claims, made), NEW bytes, new[made] = LogEntry(bytes, sent, b)
  PROVE  Claims(new, made + 1, log, sent, memory, taken)
  <1>1. SUFFICES ASSUME NEW i \in Nat, i < made + 1, NEW j \in new[i].ack_bits
                 PROVE  /\ new[i].heard <= sent
                        /\ \E k \in Int :
                             /\ U16(k) = U16(new[i].ack - j)
                             /\ k >= new[i].heard - MaxLead - AckWidth
                             /\ k < new[i].heard
                             /\ Known(log, sent, k, memory, taken)
    BY DEF Claims
  <1>2. CASE i < made
    <2>1. new[i] = claims[i]
      BY <1>2 DEF Extends
    <2> QED
      BY <1>1, <1>2, <2>1 DEF Claims
  <1>3. CASE i = made
    <2>1. /\ new[i].heard = sent /\ new[i].ack = Ack(b)
          /\ new[i].ack_bits = AckBits(b, AckWidth)
      BY <1>3 DEF LogEntry
    <2>2. j \in AckBits(b, AckWidth)
      BY <1>1, <2>1
    <2>3. \E k \in Int : /\ U16(k) = U16(Ack(b) - j)
                         /\ k >= sent - MaxLead - AckWidth /\ k < sent
                         /\ Known(log, sent, k, memory, taken)
      BY <2>2, BitKnown
    <2> QED
      BY <2>1, <2>3
  <1> QED
    BY <1>1, <1>2, <1>3

\* The fragments of a packet, and the size of the last.
LEMMA FragmentNumbers ==
  ASSUME NEW bytes \in Nat, Fragmented(bytes)
  PROVE  /\ NumFragments(bytes) \in Nat \ {0}
         /\ (NumFragments(bytes) - 1) * FragmentSize \in Int
         /\ bytes - (NumFragments(bytes) - 1) * FragmentSize \in 1 .. FragmentSize
  <1>1. FragmentAbove \in Nat \ {0} /\ FragmentSize \in Nat \ {0} /\ bytes >= 1
    BY ConfigAssumption DEF Fragmented
  <1> DEFINE x == bytes + FragmentSize - 1
  <1>2. PICK q \in Int, r \in 0 .. (FragmentSize - 1) :
          x = FragmentSize * q + r /\ q = x \div FragmentSize
    <2>1. x \in Int
      BY <1>1
    <2> HIDE DEF x
    <2> QED
      BY <1>1, <2>1, DivMod
  <1>3. NumFragments(bytes) = q
    BY <1>2 DEF NumFragments
  <1>4. PICK y \in Int : y = FragmentSize * q
    BY <1>1
  <1>5. (q - 1) * FragmentSize = y - FragmentSize
    <2>1. FragmentSize * (q - 1) = FragmentSize * q - FragmentSize * 1
      BY <1>1, Distributes
    <2>2. (q - 1) * FragmentSize = FragmentSize * (q - 1)
      BY <1>1
    <2> QED
      BY <1>1, <1>4, <2>1, <2>2
  <1>6. y >= bytes /\ y <= bytes + FragmentSize - 1
    BY <1>1, <1>2, <1>4
  <1>7. q >= 1
    <2>1. SUFFICES ASSUME q <= 0 PROVE FALSE
      BY <1>2
    <2>2. y <= 0
      BY <1>1, <1>4, <2>1
    <2> QED
      BY <1>1, <1>6, <2>2
  <1> QED
    BY <1>1, <1>3, <1>5, <1>6, <1>7

\* What is transmitted for a message is packets of it.
LEMMA TransmittedPacket ==
  ASSUME NEW P, NEW ep, WellFormed(P, ep), NEW n \in Nat, ep.sequence = U16(n),
         NEW bytes \in Nat, NEW sent \in Nat, NEW log,
         log[n] = LogEntry(bytes, sent, ep.received_packets),
         NEW p \in Transmitted(ep, bytes, {MessageOf(log, n)}, MaxHeader)
  PROVE  PacketOf(log, n, p)
  <1> DEFINE b == ep.received_packets
  <1>1. /\ log[n].bytes = bytes /\ log[n].ack = Ack(b)
        /\ log[n].ack_bits = AckBits(b, AckWidth)
    BY DEF LogEntry
  <1>2. Ack(b) \in Seqs /\ 0 \in Seqs /\ U16(n) \in Seqs
    <2>1. b.sequence \in Seqs
      BY DEF WellFormed, Endpoints, Buffer
    <2>2. PICK k \in Int : k = b.sequence - 1
      BY <2>1, CircleNumbers
    <2>3. U16(k) \in Seqs /\ U16(n) \in Seqs
      BY IdSequence
    <2> QED
      BY <2>2, <2>3, CircleNumbers DEF Ack
  <1>3. AckBits(b, AckWidth) \in SUBSET (0 .. (AckWidth - 1))
    BY DEF AckBits
  <1>4. {MessageOf(log, n)} \in SUBSET Messages
    BY <1>1 DEF MessageOf, Messages
  <1> HIDE DEF b
  <1>5. CASE ~Fragmented(bytes)
    <2>1. p = [type |-> "regular", readable |-> TRUE, sequence |-> U16(n), ack |-> Ack(b),
               ack_bits |-> AckBits(b, AckWidth), header |-> MaxHeader, bytes |-> bytes,
               payload |-> {MessageOf(log, n)}]
      BY <1>5 DEF Transmitted, b
    <2>2. p \in RegularPackets(SUBSET Messages)
      BY <1>2, <1>3, <1>4, <2>1 DEF RegularPackets, MaxHeader
    <2>3. WholeOf(log, n, p)
      BY <1>1, <2>1 DEF WholeOf, Carries, Content, ContentOf
    <2> QED
      BY <1>1, <1>5, <2>2, <2>3 DEF PacketOf
  <1>6. CASE Fragmented(bytes)
    <2> DEFINE last == NumFragments(bytes) - 1
    <2>1. last \in Nat /\ last + 1 = NumFragments(bytes) /\ last + 1 \in Nat \ {0}
      BY <1>6, FragmentNumbers
    <2>2. PICK i \in 0 .. last :
            p = [type |-> "fragment", readable |-> TRUE, sequence |-> U16(n),
                 ack      |-> IF i = 0 THEN Ack(b) ELSE 0,
                 ack_bits |-> IF i = 0 THEN AckBits(b, AckWidth) ELSE {},
                 header   |-> IF i = 0 THEN MaxHeader ELSE 0,
                 bytes    |-> IF i < last THEN FragmentSize ELSE bytes - last * FragmentSize,
                 payload  |-> {MessageOf(log, n)}, fragment_id |-> i, num_fragments |-> last + 1]
      BY <1>6 DEF Transmitted, b
    <2>3. p.bytes = PartSize(bytes, i) /\ p.bytes \in Nat
      BY <1>6, <2>2, FragmentNumbers, ConfigNumbers DEF PartSize
    <2> HIDE DEF last
    <2>4. p \in FragmentPackets(SUBSET Messages)
      <3>1. p.bytes = IF i < last THEN FragmentSize ELSE bytes - last * FragmentSize
        BY <2>2
      <3>2. PICK size \in Nat : size = IF i < last THEN FragmentSize ELSE bytes - last * FragmentSize
        BY <2>3, <3>1
      <3> QED
        BY <1>2, <1>3, <1>4, <2>1, <2>2, <3>2 DEF FragmentPackets, MaxHeader
    <2>5. PartOf(log, n, p)
      <3>1. /\ p.sequence = U16(n) /\ p.payload = {MessageOf(log, n)}
            /\ p.fragment_id = i /\ p.num_fragments = last + 1
            /\ i = 0 => p.ack = Ack(b) /\ p.ack_bits = AckBits(b, AckWidth)
        BY <2>2
      <3>2. i \in 0 .. (NumFragments(log[n].bytes) - 1)
        BY <1>1 DEF last
      <3> QED
        BY <1>1, <1>6, <2>1, <2>3, <3>1, <3>2 DEF PartOf, Carries
    <2> QED
      BY <2>4, <2>5 DEF PacketOf
  <1> QED
    BY <1>5, <1>6

\* End v, which sends, and end w, which forgets, after a message of so many bytes.
AfterSend(v, w, bytes, sender, receiver) ==
  /\ sender.log = [v.log EXCEPT ![v.sent] = LogEntry(bytes, w.sent, v.state.received_packets)]
  /\ sender.sent = v.sent + 1
  /\ sender.newest = v.newest
  /\ sender.state = Sent(v.state, bytes)
  /\ sender.taken = v.taken
  /\ receiver.log = w.log
  /\ receiver.sent = w.sent
  /\ receiver.newest = w.newest
  /\ receiver.state = w.state
  /\ receiver.taken = Remembered(w.taken, v.sent + 1)

\* What e, in state ep, may transmit of its message i, when o has sent as many as heard.
MayTransmit(e, o, ep, i, heard, bytes, packets) ==
  \A x \in packets :
    /\ x.born[e] = i /\ x.born[o] = heard
    /\ x.packet \in Transmitted(ep, bytes, {[id |-> i, bytes |-> bytes]}, MaxHeader)

\* A log entry is what logs hold.
LEMMA LogEntryType ==
  ASSUME NEW bytes \in Nat, NEW sent \in Nat, NEW b, b.sequence \in Seqs
  PROVE  LogEntry(bytes, sent, b) \in LogEntries
  <1>1. Ack(b) \in Seqs
    <2>1. PICK k \in Int : k = b.sequence - 1
      BY CircleNumbers
    <2> QED
      BY <2>1, IdSequence DEF Ack
  <1>2. AckBits(b, AckWidth) \in SUBSET (0 .. (AckWidth - 1))
    BY DEF AckBits
  <1> QED
    BY <1>1, <1>2 DEF LogEntry, LogEntries

\* The log with entry n logged.
Logged(log, n, entry, new) == new \in Logs /\ Extends(new, log, n) /\ new[n] = entry

\* Logging message n leaves what was logged before.
LEMMA LoggedType ==
  ASSUME NEW log \in Logs, NEW n \in Nat, NEW entry \in LogEntries
  PROVE  Logged(log, n, entry, [log EXCEPT ![n] = entry])
  BY DEF Logged, Extends, Logs

\* A packet is a packet of its message whatever is logged later.
LEMMA PacketExtended ==
  ASSUME NEW log, NEW new, NEW n \in Nat, Extends(new, log, n), NEW i \in Nat, i < n,
         NEW p, PacketOf(log, i, p)
  PROVE  PacketOf(new, i, p)
  <1>1. /\ new[i] = log[i] /\ MessageOf(new, i) = MessageOf(log, i)
        /\ ContentOf(new, i) = ContentOf(log, i)
    BY ExtendedContent DEF Extends
  <1> QED
    BY <1>1 DEF PacketOf, WholeOf, PartOf, Carries

\* The invariant survives a send.
LEMMA SendKeepsBoth ==
  ASSUME SizesFit, NEW e, NEW o, NEW v, NEW w, NEW memory, NEW now, NEW to_v, NEW to_w,
         Both(e, o, v, w, memory, now, to_v, to_w),
         memory = Application.memory, memory \in Nat, memory >= SentSize,
         NEW bytes \in Nat, v.sent - w.newest < MaxLead,
         \A x \in to_v \cup to_w : v.sent - x.born[e] < MaxLife,
         NEW sender, NEW receiver, AfterSend(v, w, bytes, sender, receiver),
         NEW packets, MayTransmit(e, o, v.state, v.sent, w.sent, bytes, packets)
  PROVE  Both(e, o, sender, receiver, memory, now, to_v, to_w \cup packets)
  <1> DEFINE n == v.sent
             b == v.state.received_packets
  <1>1. /\ ProperEnd(v) /\ ProperEnd(w)
        /\ Receives(v, w, memory, now) /\ Receives(w, v, memory, {})
        /\ OnTheWay(e, o, v, w, to_v) /\ OnTheWay(o, e, w, v, to_w)
    BY DEF Both
  <1>2. /\ n \in Nat /\ w.sent \in Nat /\ w.newest \in Nat /\ v.newest \in Nat
        /\ v.log \in Logs /\ w.log \in Logs
        /\ WellFormed(SUBSET Messages, v.state) /\ AllWindowed(v.state)
        /\ WellFormed(SUBSET Messages, w.state)
        /\ v.state \in Endpoints(SUBSET Messages)
        /\ v.state.sequence = U16(n) /\ v.state.sent_packets.sequence = U16(n)
        /\ b \in Buffer(ReceivedSize, {NULL}) /\ Windowed(b) /\ b.sequence = U16(v.newest)
    BY <1>1 DEF ProperEnd, WellFormed, AllWindowed, Endpoints
  <1>3. /\ sender.log \in Logs /\ Extends(sender.log, v.log, n)
        /\ sender.log[n] = LogEntry(bytes, w.sent, b)
        /\ MessageOf(sender.log, n) = [id |-> n, bytes |-> bytes]
    <2>1. sender.log = [v.log EXCEPT ![n] = LogEntry(bytes, w.sent, b)]
      BY DEF AfterSend
    <2>2. LogEntry(bytes, w.sent, b) \in LogEntries
      BY <1>2, LogEntryType DEF Buffer
    <2>3. ASSUME NEW log \in Logs, NEW k \in Nat, NEW entry \in LogEntries,
                 sender.log = [log EXCEPT ![k] = entry]
          PROVE  Logged(log, k, entry, sender.log)
      <3>1. Logged(log, k, entry, [log EXCEPT ![k] = entry])
        BY LoggedType
      <3> QED
        BY <2>3, <3>1
    <2>4. Logged(v.log, n, LogEntry(bytes, w.sent, b), sender.log)
      BY <1>2, <2>1, <2>2, <2>3, Zenon
    <2> QED
      BY <2>4 DEF Logged, MessageOf, LogEntry
  <1>4. /\ sender.state = Sent(v.state, bytes)
        /\ sender.state.received_packets = b
        /\ sender.state.fragment_reassembly = v.state.fragment_reassembly
        /\ WellFormed(SUBSET Messages, sender.state) /\ AllWindowed(sender.state)
    <2>1. sender.state = Sent(v.state, bytes)
      BY DEF AfterSend
    <2>2. /\ Sent(v.state, bytes).received_packets = v.state.received_packets
          /\ Sent(v.state, bytes).fragment_reassembly = v.state.fragment_reassembly
      BY <1>2, SentChanges
    <2>3. WellFormed(SUBSET Messages, Sent(v.state, bytes)) /\ AllWindowed(Sent(v.state, bytes))
      BY <1>2, SizeNumbers, SentWellFormed
    <2> QED
      BY <2>1, <2>2, <2>3
  <1>5. /\ sender.state.sent_packets.sequence = U16(n + 1)
        /\ AckedTaken(sender.log, n + 1, sender.state.sent_packets, receiver.taken)
    <2>1. AckedTaken(v.log, n, v.state.sent_packets, w.taken)
      BY <1>1 DEF Receives
    <2>2. receiver.taken = Remembered(w.taken, n + 1)
      BY DEF AfterSend
    <2> HIDE DEF n, b
    <2> QED
      BY <1>2, <1>3, <1>4, <2>1, <2>2, AckedAged
  <1>6. ProperEnd(sender)
    BY <1>1, <1>2, <1>3, <1>4, <1>5 DEF ProperEnd, AfterSend
  <1>7. ProperEnd(receiver)
    <2>1. receiver.taken \in [DOMAIN receiver.taken -> {1}]
      BY <1>1, RememberedType DEF AfterSend, ProperEnd
    <2> QED
      BY <1>1, <2>1 DEF ProperEnd, AfterSend
  <1>8. Receives(sender, receiver, memory, now)
    <2>1. Claims(sender.log, n + 1, w.log, w.sent, memory, v.taken)
      <3>1. /\ Hears(v.newest, w.sent)
            /\ HeldKnown(w.log, w.sent, memory, v.newest, b, v.taken)
            /\ Claims(v.log, n, w.log, w.sent, memory, v.taken)
        BY <1>1 DEF Receives
      <3> HIDE DEF n, b
      <3> QED
        BY <1>2, <1>3, <3>1, ClaimsMade
    <2> QED
      BY <1>1, <1>4, <2>1 DEF Receives, AfterSend
  <1>9. Receives(receiver, sender, memory, {})
    <2>1. Hears(w.newest, n + 1)
      BY <1>1, <1>2, ConnectionNumbers DEF Receives, Hears
    <2>2. w.newest <= n
      BY <1>1 DEF Receives, Hears
    <2>3. /\ TakenOnce(sender.log, w.newest, w.state.received_packets, receiver.taken)
          /\ HeldKnown(sender.log, n + 1, memory, w.newest, w.state.received_packets,
                       receiver.taken)
          /\ Collecting(sender.log, w.newest, w.state.fragment_reassembly)
          /\ Fresh(sender.log, w.newest, w.state.fragment_reassembly, receiver.taken, {})
      <3>1. /\ TakenOnce(v.log, w.newest, w.state.received_packets, w.taken)
            /\ HeldKnown(v.log, n, memory, w.newest, w.state.received_packets, w.taken)
            /\ Collecting(v.log, w.newest, w.state.fragment_reassembly)
            /\ Fresh(v.log, w.newest, w.state.fragment_reassembly, w.taken, {})
        BY <1>1 DEF Receives
      <3>2. receiver.taken = Remembered(w.taken, n + 1)
        BY DEF AfterSend
      <3> HIDE DEF n, b
      <3> QED
        BY <1>2, <1>3, <2>2, <3>1, <3>2, ReceiverAged
    <2>4. Claims(w.log, w.sent, sender.log, n + 1, memory, receiver.taken)
      <3>1. Claims(w.log, w.sent, v.log, n, memory, w.taken)
        BY <1>1 DEF Receives
      <3>2. receiver.taken = Remembered(w.taken, n + 1)
        BY DEF AfterSend
      <3> HIDE DEF n, b
      <3> QED
        BY <1>2, <1>3, <3>1, <3>2, ClaimsAged
    <2> QED
      BY <1>5, <2>1, <2>3, <2>4 DEF Receives, AfterSend
  <1>10. OnTheWay(e, o, sender, receiver, to_v)
    BY <1>1, <1>2, ConnectionNumbers DEF OnTheWay, AfterSend
  <1>11. OnTheWay(o, e, receiver, sender, to_w \cup packets)
    <2>1. ASSUME NEW x \in to_w
          PROVE  /\ x.born[e] \in Nat /\ x.born[o] \in Nat
                 /\ x.born[e] < n + 1 /\ n + 1 - x.born[e] <= MaxLife
                 /\ x.born[o] <= w.sent /\ w.sent - x.born[o] <= MaxLife
                 /\ x.born[o] = sender.log[x.born[e]].heard
                 /\ PacketOf(sender.log, x.born[e], x.packet)
      <3>1. /\ x.born[e] \in Nat /\ x.born[o] \in Nat
            /\ x.born[e] < n /\ n - x.born[e] < MaxLife
            /\ x.born[o] <= w.sent /\ w.sent - x.born[o] <= MaxLife
            /\ x.born[o] = v.log[x.born[e]].heard
            /\ PacketOf(v.log, x.born[e], x.packet)
        BY <1>1 DEF OnTheWay
      <3>2. sender.log[x.born[e]] = v.log[x.born[e]]
        BY <1>3, <3>1 DEF Extends
      <3>3. PacketOf(sender.log, x.born[e], x.packet)
        BY <1>2, <1>3, <3>1, PacketExtended
      <3> QED
        BY <1>2, <3>1, <3>2, <3>3, ConnectionNumbers
    <2>2. ASSUME NEW x \in packets
          PROVE  /\ x.born[e] = n /\ x.born[o] = w.sent
                 /\ x.born[o] = sender.log[n].heard
                 /\ PacketOf(sender.log, n, x.packet)
      <3>1. /\ x.born[e] = n /\ x.born[o] = w.sent
            /\ x.packet \in Transmitted(v.state, bytes, {MessageOf(sender.log, n)}, MaxHeader)
        BY <1>3 DEF MayTransmit
      <3>2. sender.log[n].heard = w.sent
        BY <1>3 DEF LogEntry
      <3>3. PacketOf(sender.log, n, x.packet)
        BY <1>2, <1>3, <3>1, TransmittedPacket
      <3> QED
        BY <3>1, <3>2, <3>3
    <2>3. MaxLife \in Nat /\ MaxLife >= 1
      BY ConnectionAssumption
    <2>4. receiver.sent = w.sent /\ sender.sent = n + 1
      BY DEF AfterSend
    <2> QED
      BY <1>2, <2>1, <2>2, <2>3, <2>4 DEF OnTheWay
  <1> QED
    BY <1>6, <1>7, <1>8, <1>9, <1>10, <1>11 DEF Both

-----------------------------------------------------------------------------
(* A packet is taken                                                       *)

\* A packet that is on its way is near the windows of the end it is on its way to.
Arrives(v, w, i) == i \in Nat /\ i < w.sent /\ w.sent - i <= MaxLife

\* The window ends at the same id or later, but not by more than Half.
Moved(m, l) == l >= m /\ l - m <= Half

\* Where packets are that arrive.
LEMMA ArrivalNear ==
  ASSUME SizesFit, NEW v, NEW w, v.newest \in Nat, w.sent \in Nat,
         Hears(v.newest, w.sent), NEW i, Arrives(v, w, i)
  PROVE  /\ NearWindow(ReceivedSize, v.newest, i) /\ NearWindow(ReassemblySize, v.newest, i)
         /\ i \in Int /\ Later(v.newest, i) \in Nat
         /\ Later(v.newest, i) >= v.newest
         /\ Hears(Later(v.newest, i), w.sent)
  <1>1. i \in Nat /\ i < w.sent /\ w.sent - i <= Half
    BY ConnectionNumbers, CircleNumbers DEF Arrives
  <1>2. v.newest <= w.sent /\ w.sent - v.newest <= MaxLead
    BY DEF Hears
  <1> QED
    BY <1>1, <1>2, SizeNumbers, ConnectionNumbers DEF NearWindow, Later, Hears

\* Ahead means ahead of the window, which then moves.
LEMMA ArrivalMoves ==
  ASSUME NEW n \in Nat \ {0}, NEW D, NEW b \in Buffer(n, D), NEW m \in Nat,
         b.sequence = U16(m), NEW i \in Nat, NearWindow(n, m, i), Ahead(b, U16(i)) \/ i < m
  PROVE  Moved(m, Later(m, i))
  <1>1. CASE i < m
    BY <1>1, CircleNumbers DEF Later, Moved
  <1>2. CASE Ahead(b, U16(i))
    BY <1>2, AheadId, CircleNumbers DEF Later, Moved
  <1> QED
    BY <1>1, <1>2

\* What is taken stays taken.
LEMMA TookMore ==
  ASSUME NEW log, NEW i, NEW taken, NEW more, DOMAIN taken \subseteq DOMAIN more,
         Took(log, i, taken)
  PROVE  Took(log, i, more)
  BY DEF Took

\* And the claims about it stay true.
LEMMA ClaimsMore ==
  ASSUME NEW claims, NEW made, NEW log, NEW sent, NEW memory, NEW taken, NEW more,
         DOMAIN taken \subseteq DOMAIN more, Claims(claims, made, log, sent, memory, taken)
  PROVE  Claims(claims, made, log, sent, memory, more)
  <1>1. \A k : Known(log, sent, k, memory, taken) => Known(log, sent, k, memory, more)
    BY TookMore DEF Known
  <1> QED
    BY <1>1 DEF Claims

\* One content more, taken once.
OneMore(taken, c, more) ==
  /\ DOMAIN more = DOMAIN taken \cup {c}
  /\ more \in [DOMAIN more -> {1}]

\* A delivery of what was not delivered before.
LEMMA DeliveredNew ==
  ASSUME NEW taken, taken \in [DOMAIN taken -> {1}], NEW p, Content(p) \notin DOMAIN taken
  PROVE  OneMore(taken, Content(p), Delivered(taken, {p}))
  <1> DEFINE more == Delivered(taken, {p})
             c == Content(p)
  <1>1. {Content(q) : q \in {p}} = {c}
    OBVIOUS
  <1>2. more = [d \in DOMAIN taken \cup {c} |->
                  Times(taken, d) + (IF d \in {c} THEN 1 ELSE 0)]
    BY <1>1 DEF Delivered
  <1> HIDE DEF more, c
  <1>3. DOMAIN more = DOMAIN taken \cup {c}
    BY <1>2
  <1>4. ASSUME NEW d \in DOMAIN more
        PROVE  more[d] = 1
    <2>1. CASE d = c
      <3>1. Times(taken, d) = 0
        BY <2>1 DEF Times, c
      <3> QED
        BY <1>2, <1>3, <1>4, <2>1, <3>1
    <2>2. CASE d # c
      <3>1. d \in DOMAIN taken
        BY <1>3, <1>4, <2>2
      <3>2. taken[d] = 1
        BY <3>1
      <3>3. Times(taken, d) = 1
        BY <3>1, <3>2 DEF Times
      <3> QED
        BY <1>2, <1>3, <1>4, <2>2, <3>3
    <2> QED
      BY <2>1, <2>2
  <1>5. more \in [DOMAIN more -> {1}]
    BY <1>2, <1>3, <1>4
  <1> QED
    BY <1>3, <1>5 DEF OneMore, more, c

\* Nothing delivered changes nothing.
LEMMA DeliveredNone ==
  ASSUME NEW taken, taken \in [DOMAIN taken -> {1}]
  PROVE  Delivered(taken, {}) = taken
  <1>1. {Content(q) : q \in {}} = {}
    OBVIOUS
  <1>2. Delivered(taken, {}) = [d \in DOMAIN taken |-> Times(taken, d) + 0]
    BY <1>1 DEF Delivered
  <1>3. \A d \in DOMAIN taken : Times(taken, d) + 0 = taken[d]
    BY DEF Times
  <1> QED
    BY <1>2, <1>3

\* What is collected after entries were lost is what was collected.
LEMMA CollectingKept ==
  ASSUME SizesFit, NEW D, NEW b \in Buffer(ReassemblySize, D),
         NEW c \in Buffer(ReassemblySize, D), Windowed(b), Windowed(c),
         NEW m \in Nat, NEW l \in Nat, b.sequence = U16(m), Moved(m, l),
         KeptOutside(b, c, {}), NEW log, Collecting(log, m, b)
  PROVE  Collecting(log, l, c) /\ Ids(c, l) \subseteq Ids(b, m)
  <1>1. ASSUME NEW i \in Ids(c, l)
        PROVE  /\ i \in Ids(b, m)
               /\ c.entry_data[Slot(c, U16(i))] = b.entry_data[Slot(b, U16(i))]
    BY SizeNumbers, KeptIds DEF Moved
  <1> QED
    BY <1>1 DEF Collecting

\* It has not been taken, but for what is taken now.
LEMMA FreshKept ==
  ASSUME NEW log, NEW m, NEW b, NEW taken, NEW now, Fresh(log, m, b, taken, now),
         NEW l, NEW c, Ids(c, l) \subseteq Ids(b, m),
         NEW i, NEW more, OneMore(taken, ContentOf(log, i), more),
         i \in now \/ i \notin Ids(b, m)
  PROVE  Fresh(log, l, c, more, now)
  <1>1. SUFFICES ASSUME NEW k \in Ids(c, l), k \notin now, Took(log, k, more)
                 PROVE  FALSE
    BY DEF Fresh
  <1>2. k # i
    BY <1>1
  <1>3. ContentOf(log, k) # ContentOf(log, i)
    BY <1>2, ContentId
  <1>4. Took(log, k, taken)
    BY <1>1, <1>3 DEF Took, OneMore
  <1> QED
    BY <1>1, <1>4 DEF Fresh

\* The windows after a packet was taken, and what they say of what was taken.
LEMMA TakeInWindow ==
  ASSUME SizesFit, NEW D, NEW b \in Buffer(ReceivedSize, D), Windowed(b),
         NEW m \in Nat, b.sequence = U16(m), NEW i \in Nat, NearWindow(ReceivedSize, m, i),
         ~Stale(b, U16(i)), ~Exists(b, U16(i)), NEW sent \in Nat, m <= sent,
         NEW log, NEW taken, TakenOnce(log, m, b, taken)
  PROVE  /\ ContentOf(log, i) \notin DOMAIN taken
         /\ Ahead(b, U16(i)) \/ i < m
         /\ \A more, memory : OneMore(taken, ContentOf(log, i), more) =>
              /\ TakenOnce(log, Later(m, i), Insert(b, U16(i)), more)
              /\ HeldKnown(log, sent, memory, m, b, taken) =>
                   HeldKnown(log, sent, memory, Later(m, i), Insert(b, U16(i)), more)
  <1> DEFINE c == Insert(b, U16(i))
             l == Later(m, i)
  <1>1. i \in Int /\ m \in Int
    OBVIOUS
  <1>2. /\ i \in (l - ReceivedSize) .. (l - 1)
        /\ Ids(c, l) = {k \in Ids(b, m) : k >= l - ReceivedSize} \cup {i}
    BY <1>1, SizeNumbers, InsertIds
  <1>3. ~Ahead(b, U16(i)) => i \in (m - ReceivedSize) .. (m - 1)
    BY <1>1, SizeNumbers, CurrentId
  <1>4. Ahead(b, U16(i)) => i >= m
    BY <1>1, SizeNumbers, AheadId
  <1>5. l \in Nat /\ l >= m
    BY DEF Later
  <1> HIDE DEF c, l
  <1>6. i \notin Ids(b, m)
    BY <1>1, SizeNumbers, IdsIff
  <1>7. ContentOf(log, i) \notin DOMAIN taken
    <2>1. SUFFICES ASSUME Took(log, i, taken) PROVE FALSE
      BY DEF Took
    <2>2. /\ i \in 0 .. (m - 1)
          /\ i >= m - ReceivedSize => i \in Ids(b, m)
      BY <2>1, TookSeen, ExtendsItself
    <2> QED
      BY <1>3, <1>4, <1>6, <2>2
  <1>8. Ahead(b, U16(i)) \/ i < m
    BY <1>3
  <1>9. ASSUME NEW more, NEW memory, OneMore(taken, ContentOf(log, i), more)
        PROVE  /\ TakenOnce(log, l, c, more)
               /\ HeldKnown(log, sent, memory, m, b, taken) =>
                    HeldKnown(log, sent, memory, l, c, more)
    <2>1. DOMAIN more = DOMAIN taken \cup {ContentOf(log, i)}
      BY <1>9 DEF OneMore
    <2>2. TakenOnce(log, l, c, more)
      <3>1. SUFFICES ASSUME NEW d \in DOMAIN more
                     PROVE  \E k \in 0 .. (l - 1) :
                              /\ d = ContentOf(log, k)
                              /\ k >= l - ReceivedSize => k \in Ids(c, l)
        BY DEF TakenOnce
      <3>2. CASE d = ContentOf(log, i)
        <4>1. i \in 0 .. (l - 1) /\ i \in Ids(c, l)
          BY <1>2, <1>5
        <4> QED
          BY <3>2, <4>1
      <3>3. CASE d \in DOMAIN taken
        <4>1. PICK k \in 0 .. (m - 1) :
                /\ d = ContentOf(log, k)
                /\ k >= m - ReceivedSize => k \in Ids(b, m)
          BY <3>3 DEF TakenOnce
        <4>2. k \in 0 .. (l - 1) /\ (k >= l - ReceivedSize => k >= m - ReceivedSize)
          BY <1>5, SizeNumbers
        <4> QED
          BY <1>2, <4>1, <4>2
      <3> QED
        BY <2>1, <3>1, <3>2, <3>3
    <2>3. ASSUME HeldKnown(log, sent, memory, m, b, taken)
          PROVE  HeldKnown(log, sent, memory, l, c, more)
      <3>1. ASSUME NEW k \in Ids(b, m)
            PROVE  k \in Nat /\ Known(log, sent, k, memory, more)
        BY <2>1, <2>3, TookMore DEF HeldKnown, Known
      <3>2. Known(log, sent, i, memory, more)
        BY <2>1 DEF Known, Took
      <3> QED
        BY <1>2, <3>1, <3>2 DEF HeldKnown
    <2> QED
      BY <2>2, <2>3
  <1> QED
    BY <1>7, <1>8, <1>9 DEF c, l

\* End v after it took packet i from w, and before it reads the acks.
AfterTake(v, i, p, taker) ==
  /\ taker.log = v.log
  /\ taker.sent = v.sent
  /\ taker.newest = Later(v.newest, i)
  /\ taker.state = Recorded(v.state, U16(i))
  /\ taker.taken = Delivered(v.taken, {p})

\* The invariant survives the delivery of a packet.
LEMMA TakeKeepsBoth ==
  ASSUME SizesFit, NEW e, NEW o, NEW v, NEW w, NEW memory, NEW now, NEW to_v, NEW to_w,
         Both(e, o, v, w, memory, now, to_v, to_w),
         NEW i, Arrives(v, w, i), NEW p, WholeOf(w.log, i, p),
         ~Stale(v.state.received_packets, U16(i)), ~Exists(v.state.received_packets, U16(i)),
         i \in now \/ ~Fragmented(w.log[i].bytes),
         NEW taker, AfterTake(v, i, p, taker)
  PROVE  Both(e, o, taker, w, memory, now, to_v, to_w)
  <1> DEFINE b == v.state.received_packets
             r == v.state.fragment_reassembly
             m == v.newest
             l == Later(m, i)
             log == w.log
             s == U16(i)
             c == ContentOf(w.log, i)
             after == taker.state
  <1>1. /\ ProperEnd(v) /\ ProperEnd(w)
        /\ Receives(v, w, memory, now) /\ Receives(w, v, memory, {})
        /\ OnTheWay(e, o, v, w, to_v) /\ OnTheWay(o, e, w, v, to_w)
    BY DEF Both
  <1>2. /\ v.sent \in Nat /\ w.sent \in Nat /\ m \in Nat
        /\ WellFormed(SUBSET Messages, v.state) /\ AllWindowed(v.state)
        /\ v.state \in Endpoints(SUBSET Messages)
        /\ b \in Buffer(ReceivedSize, {NULL}) /\ Windowed(b) /\ b.sequence = U16(m)
        /\ r \in Buffer(ReassemblySize, {NULL} \cup Reassemblies(SUBSET Messages))
        /\ Windowed(r) /\ r.sequence = U16(m)
        /\ v.taken \in [DOMAIN v.taken -> {1}]
    BY <1>1 DEF ProperEnd, WellFormed, AllWindowed, Endpoints
  <1>3. /\ Hears(m, w.sent)
        /\ TakenOnce(log, m, b, v.taken)
        /\ HeldKnown(log, w.sent, memory, m, b, v.taken)
        /\ Collecting(log, m, r)
        /\ Fresh(log, m, r, v.taken, now)
        /\ Claims(v.log, v.sent, log, w.sent, memory, v.taken)
        /\ AckedTaken(log, w.sent, w.state.sent_packets, v.taken)
    BY <1>1 DEF Receives
  <1>4. /\ i \in Nat /\ s \in Seqs
        /\ NearWindow(ReceivedSize, m, i) /\ NearWindow(ReassemblySize, m, i)
        /\ l \in Nat /\ l >= m /\ Hears(l, w.sent)
        /\ ~Stale(b, s) /\ ~Exists(b, s)
    BY <1>2, <1>3, ArrivalNear, IdSequence DEF Arrives
  <1>5. /\ c \notin DOMAIN v.taken
        /\ Ahead(b, s) \/ i < m
        /\ \A more, mem : OneMore(v.taken, c, more) =>
             /\ TakenOnce(log, l, Insert(b, s), more)
             /\ HeldKnown(log, w.sent, mem, m, b, v.taken) =>
                  HeldKnown(log, w.sent, mem, l, Insert(b, s), more)
    <2>1. m <= w.sent
      BY <1>3 DEF Hears
    <2> HIDE DEF b, m, log
    <2> QED
      BY <1>2, <1>3, <1>4, <2>1, TakeInWindow DEF log
  <1>6. OneMore(v.taken, c, taker.taken) /\ DOMAIN v.taken \subseteq DOMAIN taker.taken
    <2>1. Content(p) = c
      BY DEF WholeOf
    <2>2. OneMore(v.taken, c, taker.taken)
      BY <1>2, <1>5, <2>1, DeliveredNew DEF AfterTake
    <2> QED
      BY <2>2 DEF OneMore
  <1>7. /\ after \in Endpoints(SUBSET Messages)
        /\ after.sent_packets = v.state.sent_packets
        /\ after.received_packets = Insert(b, s)
        /\ after.fragment_reassembly = AdvanceWithCleanup(r, s)
        /\ WellFormed(SUBSET Messages, after)
        /\ AllWindowed(after)
    <2>1. after = Recorded(v.state, s)
      BY DEF AfterTake
    <2>2. /\ Recorded(v.state, s) \in Endpoints(SUBSET Messages)
          /\ Recorded(v.state, s).sent_packets = v.state.sent_packets
          /\ Recorded(v.state, s).received_packets = Insert(b, s)
          /\ Recorded(v.state, s).fragment_reassembly = AdvanceWithCleanup(r, s)
      BY <1>2, <1>4, RecordedChanges
    <2>3. /\ WellFormed(SUBSET Messages, Recorded(v.state, s))
          /\ AllWindowed(Recorded(v.state, s))
      BY <1>2, <1>4, RecordedWellFormed DEF SizesFit
    <2> QED
      BY <2>1, <2>2, <2>3
  <1>8. Insert(b, s).sequence = U16(l)
    <2>1. i \in Int /\ m \in Int
      BY <1>2, <1>4
    <2> HIDE DEF b, m
    <2> QED
      BY <1>2, <1>4, <2>1, SizeNumbers, InsertIds
  <1>9. /\ Collecting(log, l, after.fragment_reassembly)
        /\ Ids(after.fragment_reassembly, l) \subseteq Ids(r, m)
    <2> DEFINE d == after.fragment_reassembly
               D == {NULL} \cup Reassemblies(SUBSET Messages)
    <2>1. d \in Buffer(ReassemblySize, D) /\ Windowed(d)
      BY <1>7 DEF Endpoints, AllWindowed
    <2>2. KeptOutside(r, d, {})
      <3>1. NULL \in D
        OBVIOUS
      <3> HIDE DEF D, r
      <3> QED
        BY <1>2, <1>4, <1>7, <3>1, SizeNumbers, AdvanceKept DEF D
    <2>3. Moved(m, l)
      <3> HIDE DEF b, m
      <3> QED
        BY <1>2, <1>4, <1>5, SizeNumbers, ArrivalMoves
    <2>4. Collecting(log, l, d) /\ Ids(d, l) \subseteq Ids(r, m)
      <3> HIDE DEF r, d, m, l, log
      <3> QED
        BY <1>2, <1>3, <1>4, <2>1, <2>2, <2>3, CollectingKept
    <2> QED
      BY <2>4
  <1>10. Fresh(log, l, after.fragment_reassembly, taker.taken, now)
    <2>1. i \in now \/ i \notin Ids(r, m)
      BY <1>3 DEF Collecting, EntryOf
    <2> HIDE DEF r, m, l, log
    <2> QED
      BY <1>3, <1>6, <1>9, <2>1, FreshKept DEF log
  <1>11. ProperEnd(taker)
    <2>1. taker.taken \in [DOMAIN taker.taken -> {1}]
      BY <1>6 DEF OneMore
    <2> QED
      BY <1>1, <1>4, <1>7, <1>8, <2>1 DEF ProperEnd, AfterTake
  <1>12. Receives(taker, w, memory, now)
    <2>1. /\ TakenOnce(log, l, after.received_packets, taker.taken)
          /\ HeldKnown(log, w.sent, memory, l, after.received_packets, taker.taken)
      BY <1>3, <1>5, <1>6, <1>7
    <2>2. Claims(v.log, v.sent, log, w.sent, memory, taker.taken)
      BY <1>3, <1>6, ClaimsMore
    <2>3. AckedTaken(log, w.sent, w.state.sent_packets, taker.taken)
      BY <1>3, <1>6, TookMore DEF AckedTaken
    <2> QED
      BY <1>4, <1>9, <1>10, <2>1, <2>2, <2>3 DEF Receives, AfterTake
  <1>13. Receives(w, taker, memory, {})
    BY <1>1, <1>7 DEF Receives, AfterTake
  <1>14. OnTheWay(e, o, taker, w, to_v) /\ OnTheWay(o, e, w, taker, to_w)
    BY <1>1 DEF OnTheWay, AfterTake
  <1> QED
    BY <1>1, <1>11, <1>12, <1>13, <1>14 DEF Both

-----------------------------------------------------------------------------
(* Acks are read                                                           *)

\* What new has acked and ep has not, a bit of p's mask stands for.
AckedByBits(ep, p, new) ==
  /\ new.sent_packets.entry_sequence = ep.sent_packets.entry_sequence
  /\ \A i \in 0 .. (SentSize - 1) : new.sent_packets.entry_data[i] =>
       \/ ep.sent_packets.entry_data[i]
       \/ \E j \in p.ack_bits \cap (0 .. (AckWidth - 1)) :
            /\ Exists(ep.sent_packets, U16(p.ack - j))
            /\ Slot(ep.sent_packets, U16(p.ack - j)) = i

\* The loop over the mask acks nothing else.
LEMMA WithAcksBits ==
  ASSUME NEW P, NEW ep \in Endpoints(P), NEW p, p.ack \in Seqs
  PROVE  AckedByBits(ep, p, WithAcks(ep, p))
  <1> DEFINE T == {x \in Endpoints(P) : AckedByBits(ep, p, x)}
  <1>1. ep \in T
    BY DEF AckedByBits
  <1>2. \A x \in T : \A i \in 0 .. (AckWidth - 1) : AckBit(x, p, i) \in T
    <2> TAKE x \in T
    <2> TAKE i \in 0 .. (AckWidth - 1)
    <2> DEFINE q == U16(p.ack - i)
               new == Reported(x, q)
    <2>1. x \in Endpoints(P) /\ AckedByBits(ep, p, x)
      OBVIOUS
    <2>2. AckBit(x, p, i) \in Endpoints(P)
      BY AckBitChanges
    <2>3. CASE AckBit(x, p, i) = x
      BY <2>1, <2>3
    <2>4. CASE AckBit(x, p, i) # x
      <3>1. AckBit(x, p, i) = new /\ Exists(x.sent_packets, q) /\ i \in p.ack_bits
        BY <2>4 DEF AckBit
      <3>2. q \in Seqs
        <4>1. PICK k \in Int : k = p.ack - i
          BY CircleNumbers
        <4> QED
          BY <4>1, IdSequence
      <3> HIDE DEF q
      <3>3. new \in Endpoints(P) /\ JustReported(x, q, new)
        BY <2>1, <3>2, ReportedChanges
      <3>4. x.sent_packets.num_entries = ep.sent_packets.num_entries
        BY <2>1 DEF Endpoints, Buffer
      <3>5. Exists(ep.sent_packets, q) /\ Slot(x.sent_packets, q) = Slot(ep.sent_packets, q)
        BY <2>1, <3>1, <3>4 DEF AckedByBits, Exists, Slot
      <3> HIDE DEF new
      <3>6. AckedByBits(ep, p, new)
        <4>1. new.sent_packets.entry_sequence = ep.sent_packets.entry_sequence
          BY <2>1, <3>3 DEF AckedByBits, JustReported
        <4>2. ASSUME NEW k \in 0 .. (SentSize - 1), new.sent_packets.entry_data[k],
                     k # Slot(ep.sent_packets, q)
              PROVE  x.sent_packets.entry_data[k]
          BY <3>3, <3>5, <4>2 DEF JustReported
        <4> QED
          BY <2>1, <3>1, <3>5, <4>1, <4>2 DEF AckedByBits, q
      <3> QED
        BY <2>2, <3>1, <3>6
    <2> QED
      BY <2>3, <2>4
  <1>3. WithAcks(ep, p) \in T
    <2> HIDE DEF T
    <2> QED
      BY <1>1, <1>2, AckLoop
  <1> QED
    BY <1>3

\* End v after it read the acks of p.
AfterAcks(v, p, acker) ==
  /\ acker.log = v.log
  /\ acker.sent = v.sent
  /\ acker.newest = v.newest
  /\ acker.state = WithAcks(v.state, p)
  /\ acker.taken = v.taken

\* What the acks of packet i say is true: the mask is not read a lap later.
LEMMA AcksTrue ==
  ASSUME SizesFit, NEW P, NEW ep \in Endpoints(P), Windowed(ep.sent_packets),
         NEW sent \in Nat, ep.sent_packets.sequence = U16(sent),
         NEW log, NEW memory \in Nat, memory >= SentSize, NEW taken,
         AckedTaken(log, sent, ep.sent_packets, taken),
         NEW claims \in Logs, NEW made, Claims(claims, made, log, sent, memory, taken),
         NEW i \in Nat, i < made, sent - claims[i].heard <= MaxLife,
         NEW p, Carries(claims, i, p)
  PROVE  AckedTaken(log, sent, WithAcks(ep, p).sent_packets, taken)
  <1> DEFINE b == ep.sent_packets
             c == WithAcks(ep, p).sent_packets
  <1>1. /\ p.ack = claims[i].ack /\ p.ack_bits = claims[i].ack_bits /\ p.ack \in Seqs
        /\ claims[i].heard \in Nat
    BY DEF Carries, Logs, LogEntries
  <1>2. /\ WithAcks(ep, p) \in Endpoints(P) /\ OnlyAcked(ep, WithAcks(ep, p))
        /\ AckedByBits(ep, p, WithAcks(ep, p))
    BY <1>1, WithAcksChanges, WithAcksBits
  <1>3. /\ b \in Buffer(SentSize, BOOLEAN) /\ c \in Buffer(SentSize, BOOLEAN)
        /\ b.num_entries = SentSize /\ c.num_entries = SentSize
        /\ c.sequence = b.sequence /\ c.entry_sequence = b.entry_sequence
    BY <1>2 DEF Endpoints, Buffer, OnlyAcked
  <1>4. \A k \in 0 .. (SentSize - 1) : c.entry_data[k] =>
          \/ b.entry_data[k]
          \/ \E j \in p.ack_bits \cap (0 .. (AckWidth - 1)) :
               Exists(b, U16(p.ack - j)) /\ Slot(b, U16(p.ack - j)) = k
    BY <1>2 DEF AckedByBits
  <1> HIDE DEF c
  <1>5. Ids(c, sent) = Ids(b, sent)
    <2>1. Present(c) = Present(b)
      BY <1>3, SizeNumbers, SameWindow
    <2> QED
      BY <1>3, <2>1 DEF Ids
  <1>6. ASSUME NEW k \in Ids(b, sent), Acked(c, U16(k))
        PROVE  Took(log, k, taken)
    <2>1. k \in Int /\ k >= sent - SentSize /\ k < sent /\ Exists(b, U16(k))
      <3>1. k \in Int
        BY <1>3, SizeNumbers DEF Ids
      <3> HIDE DEF b
      <3> QED
        BY <1>3, <3>1, SizeNumbers, IdsIff DEF b
    <2>2. Slot(c, U16(k)) = Slot(b, U16(k)) /\ Slot(b, U16(k)) \in 0 .. (SentSize - 1)
      <3>1. U16(k) \in Int
        BY <2>1, IdSequence, CircleNumbers
      <3> QED
        BY <1>3, <3>1, SizeNumbers, SlotType DEF Slot
    <2>3. CASE b.entry_data[Slot(b, U16(k))]
      BY <2>3 DEF AckedTaken, Acked
    <2>4. CASE ~b.entry_data[Slot(b, U16(k))]
      <3>1. PICK j \in p.ack_bits : Exists(b, U16(p.ack - j))
                                    /\ Slot(b, U16(p.ack - j)) = Slot(b, U16(k))
        BY <1>4, <1>6, <2>2, <2>4 DEF Acked
      <3>2. U16(p.ack - j) = U16(k)
        BY <2>1, <3>1 DEF Exists
      <3>3. /\ claims[i].heard <= sent
            /\ \E h \in Int : /\ U16(h) = U16(p.ack - j)
                              /\ h >= claims[i].heard - MaxLead - AckWidth
                              /\ h < claims[i].heard
                              /\ Known(log, sent, h, memory, taken)
        BY <1>1, <3>1 DEF Claims
      <3>4. PICK h \in Int : /\ U16(h) = U16(k)
                             /\ h >= claims[i].heard - MaxLead - AckWidth
                             /\ h < claims[i].heard
                             /\ Known(log, sent, h, memory, taken)
        BY <3>2, <3>3
      <3>5. h - k < SeqMod /\ k - h < SeqMod
        <4>1. h < sent /\ h >= sent - MaxLife - MaxLead - AckWidth
          BY <1>1, <3>3, <3>4, ConnectionNumbers
        <4>2. SentSize < SeqMod
          BY SizeNumbers
        <4> QED
          BY <2>1, <4>1, <4>2, SizeNumbers, ConnectionNumbers
      <3>6. h = k
        BY <2>1, <3>4, <3>5, SameId
      <3> QED
        BY <2>1, <3>4, <3>6, SizeNumbers DEF Known
    <2> QED
      BY <2>3, <2>4
  <1> QED
    BY <1>5, <1>6 DEF AckedTaken, c

\* The invariant survives the acks.
LEMMA AcksKeepBoth ==
  ASSUME SizesFit, NEW e, NEW o, NEW v, NEW w, NEW memory \in Nat, memory >= SentSize,
         NEW now, NEW to_v, NEW to_w,
         Both(e, o, v, w, memory, now, to_v, to_w),
         NEW i \in Nat, i < w.sent, v.sent - w.log[i].heard <= MaxLife,
         NEW p, Carries(w.log, i, p),
         NEW acker, AfterAcks(v, p, acker)
  PROVE  Both(e, o, acker, w, memory, now, to_v, to_w)
  <1>1. /\ ProperEnd(v) /\ ProperEnd(w)
        /\ Receives(v, w, memory, now) /\ Receives(w, v, memory, {})
        /\ OnTheWay(e, o, v, w, to_v) /\ OnTheWay(o, e, w, v, to_w)
    BY DEF Both
  <1>2. /\ v.sent \in Nat /\ w.log \in Logs
        /\ WellFormed(SUBSET Messages, v.state) /\ AllWindowed(v.state)
        /\ v.state \in Endpoints(SUBSET Messages) /\ Windowed(v.state.sent_packets)
        /\ v.state.sent_packets.sequence = U16(v.sent)
    BY <1>1 DEF ProperEnd, WellFormed, AllWindowed
  <1>3. acker.state = WithAcks(v.state, p)
    BY DEF AfterAcks
  <1>4. p.ack \in Seqs
    BY <1>2 DEF Carries, Logs, LogEntries
  <1>5. /\ acker.state \in Endpoints(SUBSET Messages) /\ OnlyAcked(v.state, acker.state)
        /\ WellFormed(SUBSET Messages, acker.state) /\ AllWindowed(acker.state)
    <2>1. WithAcks(v.state, p) \in Endpoints(SUBSET Messages)
          /\ OnlyAcked(v.state, WithAcks(v.state, p))
      BY <1>2, <1>4, WithAcksChanges
    <2> QED
      BY <1>2, <1>3, <2>1, OnlyAckedWellFormed
  <1>6. AckedTaken(v.log, v.sent, acker.state.sent_packets, w.taken)
    <2>1. /\ AckedTaken(v.log, v.sent, v.state.sent_packets, w.taken)
          /\ Claims(w.log, w.sent, v.log, v.sent, memory, w.taken)
      BY <1>1 DEF Receives
    <2> QED
      BY <1>2, <1>3, <2>1, AcksTrue
  <1>7. /\ acker.state.received_packets = v.state.received_packets
        /\ acker.state.fragment_reassembly = v.state.fragment_reassembly
        /\ acker.state.sent_packets.sequence = v.state.sent_packets.sequence
    BY <1>5 DEF OnlyAcked
  <1>8. ProperEnd(acker)
    BY <1>1, <1>5, <1>7 DEF ProperEnd, AfterAcks
  <1>9. Receives(acker, w, memory, now) /\ Receives(w, acker, memory, {})
    BY <1>1, <1>6, <1>7 DEF Receives, AfterAcks
  <1>10. OnTheWay(e, o, acker, w, to_v) /\ OnTheWay(o, e, w, acker, to_w)
    BY <1>1 DEF OnTheWay, AfterAcks
  <1> QED
    BY <1>1, <1>8, <1>9, <1>10 DEF Both

-----------------------------------------------------------------------------
(* A fragment is stored                                                    *)

\* Two ids of a window that share a slot are one.
LEMMA SameSlotId ==
  ASSUME NEW n \in Nat \ {0}, n < SeqMod, NEW D, NEW b \in Buffer(n, D), Windowed(b),
         NEW m \in Int, NEW i \in Ids(b, m), NEW k \in Ids(b, m),
         Slot(b, U16(i)) = Slot(b, U16(k))
  PROVE  i = k
  <1>1. b.num_entries = n
    BY DEF Buffer
  <1>2. /\ i \in Int /\ i >= m - n /\ i < m
        /\ k \in Int /\ k >= m - n /\ k < m
    BY <1>1 DEF Ids
  <1>3. Exists(b, U16(i)) /\ Exists(b, U16(k))
    BY <1>2, IdsIff
  <1>4. U16(i) = U16(k)
    BY <1>3 DEF Exists
  <1>5. i - k < SeqMod /\ k - i < SeqMod
    BY <1>2, CircleNumbers
  <1> QED
    BY <1>2, <1>4, <1>5, SameId

\* The windows after fragments of packet i: that of reassembly holds it, that of
\* received packets has moved along.
PartStored(ep, new, m, i) ==
  /\ new.sent_packets = ep.sent_packets
  /\ new.received_packets.sequence = U16(Later(m, i))
  /\ Ids(new.received_packets, Later(m, i)) =
       {k \in Ids(ep.received_packets, m) : k >= Later(m, i) - ReceivedSize}
  /\ Moved(m, Later(m, i))
  /\ i \in Ids(new.fragment_reassembly, Later(m, i))

\* Storing a fragment does so.
LEMMA StoreMoves ==
  ASSUME SizesFit, NEW P, NULL \notin Reassemblies(P), NEW ep, WellFormed(P, ep),
         AllWindowed(ep), NEW m \in Nat, ep.received_packets.sequence = U16(m),
         NEW i \in Nat, NearWindow(ReceivedSize, m, i), NearWindow(ReassemblySize, m, i),
         NEW p, p.sequence = U16(i), Storable(P, ep, p)
  PROVE  /\ WellFormed(P, AfterStore(ep, p)) /\ AllWindowed(AfterStore(ep, p))
         /\ PartStored(ep, AfterStore(ep, p), m, i)
  <1> DEFINE b == ep.fragment_reassembly
             r == ep.received_packets
             D == {NULL} \cup Reassemblies(P)
             new == AfterStore(ep, p)
             c == new.fragment_reassembly
             l == Later(m, i)
  <1>1. /\ ep \in Endpoints(P)
        /\ b \in Buffer(ReassemblySize, D) /\ Windowed(b) /\ b.sequence = U16(m)
        /\ r \in Buffer(ReceivedSize, {NULL}) /\ Windowed(r) /\ r.sequence = U16(m)
        /\ r.num_entries = ReceivedSize
    BY DEF WellFormed, AllWindowed, Endpoints, Buffer
  <1>2. /\ WellFormed(P, new) /\ AllWindowed(new) /\ Exists(c, U16(i))
    BY StoredWellFormed DEF SizesFit
  <1>3. /\ new.sent_packets = ep.sent_packets
        /\ new.received_packets = Opened(ep, p).received_packets
    BY <1>1, StoredKeeps
  <1>4. /\ new.received_packets.sequence = U16(l)
        /\ Ids(new.received_packets, l) = {k \in Ids(r, m) : k >= l - ReceivedSize}
        /\ Moved(m, l)
    <2>1. CASE Exists(b, U16(i))
      <3>1. new.received_packets = r
        BY <1>3, <2>1 DEF Opened
      <3>2. i \in Ids(b, m)
        BY <1>1, <2>1, SizeNumbers, ExistingId
      <3>3. b.num_entries = ReassemblySize
        BY <1>1 DEF Buffer
      <3>4. i < m
        BY <3>2, <3>3, SizeNumbers DEF Ids
      <3>5. l = m
        BY <3>4 DEF Later
      <3>6. \A k \in Ids(r, m) : k >= m - ReceivedSize
        BY <1>1, SizeNumbers DEF Ids
      <3>7. Moved(m, l)
        BY <3>5, SizeNumbers DEF Moved
      <3> HIDE DEF r, l
      <3> QED
        BY <1>1, <3>1, <3>5, <3>6, <3>7
    <2>2. CASE ~Exists(b, U16(i))
      <3>1. new.received_packets = Advance(r, U16(i))
        <4>1. ~Exists(ep.fragment_reassembly, p.sequence)
          BY <2>2
        <4>2. Opened(ep, p).received_packets = Advance(ep.received_packets, p.sequence)
          <5>1. ASSUME NEW a, NEW g, NEW k,
                       Opened(ep, p) = [ep EXCEPT !.fragment_reassembly = g,
                                                  !.received_packets = a, !.allocated = k]
                PROVE  Opened(ep, p).received_packets = a
            BY <1>1, <5>1 DEF Endpoints
          <5> QED
            BY <4>1, <5>1, Zenon DEF Opened
        <4> QED
          BY <1>3, <4>2
      <3>2. Ahead(b, U16(i)) \/ ~Stale(b, U16(i))
        BY <2>2, StorableFragment DEF InsertRefused
      <3>3. Ahead(r, U16(i)) <=> Ahead(b, U16(i))
        BY <1>1 DEF Ahead
      <3>4. ~Ahead(b, U16(i)) => i < m
        <4>1. ASSUME ~Ahead(b, U16(i)), ~Stale(b, U16(i))
              PROVE  i \in (m - ReassemblySize) .. (m - 1)
          <5> HIDE DEF b
          <5> QED
            BY <1>1, <4>1, SizeNumbers, CurrentId
        <4> QED
          BY <3>2, <4>1
      <3>5. Ahead(r, U16(i)) \/ i < m
        BY <3>3, <3>4
      <3> HIDE DEF r
      <3>6. /\ Advance(r, U16(i)).sequence = U16(l)
            /\ Ids(Advance(r, U16(i)), l) = {k \in Ids(r, m) : k >= l - ReceivedSize}
        BY <1>1, <3>5, SizeNumbers, AdvanceIds
      <3>7. Moved(m, l)
        BY <1>1, <3>5, SizeNumbers, ArrivalMoves
      <3> QED
        BY <3>1, <3>6, <3>7
    <2> QED
      BY <2>1, <2>2
  <1>5. i \in Ids(c, l)
    <2>1. c \in Buffer(ReassemblySize, D) /\ Windowed(c) /\ c.sequence = U16(l)
      BY <1>2, <1>4 DEF WellFormed, AllWindowed, Endpoints
    <2>2. l \in Int /\ NearWindow(ReassemblySize, l, i)
      BY SizeNumbers DEF Later, NearWindow
    <2> HIDE DEF c, l, D
    <2> QED
      BY <1>2, <2>1, <2>2, SizeNumbers, ExistingId
  <1> QED
    BY <1>2, <1>3, <1>4, <1>5 DEF PartStored

\* A new entry has nothing of any packet.
LEMMA NewEntryOf ==
  ASSUME NEW log, NEW i, NEW p, PartOf(log, i, p)
  PROVE  EntryOf(log, i, NewReassembly(p.num_fragments))
  <1>1. DOMAIN << >> = {}
    OBVIOUS
  <1> QED
    BY <1>1 DEF EntryOf, PartOf, NewReassembly

\* A fragment added to what was collected of its packet.
LEMMA EntryGrows ==
  ASSUME NEW log, NEW i, NEW P, NEW data \in Reassemblies(P), NEW p, StoredFields(P, p),
         PartOf(log, i, p), EntryOf(log, i, data)
  PROVE  EntryOf(log, i, WithFragment(data, p))
  <1> DEFINE new == WithFragment(data, p)
  <1>1. FragmentAdded(data, new, p)
    BY WithFragmentChanges
  <1>2. /\ new.ack = IF p.fragment_id = 0 THEN p.ack ELSE data.ack
        /\ new.ack_bits = IF p.fragment_id = 0 THEN p.ack_bits ELSE data.ack_bits
    BY DEF WithFragment, Reassemblies
  <1> HIDE DEF new
  <1>3. ASSUME NEW k \in DOMAIN new.parts
        PROVE  /\ k \in 0 .. (NumFragments(log[i].bytes) - 1)
               /\ new.parts[k].payload = {MessageOf(log, i)}
               /\ new.parts[k].bytes = PartSize(log[i].bytes, k)
    <2>1. CASE k = p.fragment_id
      BY <1>1, <2>1 DEF FragmentAdded, PartOf
    <2>2. CASE k # p.fragment_id
      BY <1>1, <1>3, <2>2 DEF FragmentAdded, EntryOf
    <2> QED
      BY <2>1, <2>2
  <1>4. 0 \in DOMAIN new.parts => new.ack = log[i].ack /\ new.ack_bits = log[i].ack_bits
    <2>1. CASE p.fragment_id = 0
      BY <1>2, <2>1 DEF PartOf, Carries
    <2>2. CASE p.fragment_id # 0
      BY <1>1, <1>2, <2>2 DEF FragmentAdded, EntryOf
    <2> QED
      BY <2>1, <2>2
  <1>5. new.num_fragments_total = NumFragments(log[i].bytes) /\ Fragmented(log[i].bytes)
    BY <1>1 DEF FragmentAdded, EntryOf
  <1> QED
    BY <1>3, <1>4, <1>5 DEF EntryOf, new

\* So an entry holds parts of one packet, and the others are as they were.
LEMMA StoreCollects ==
  ASSUME SizesFit, NEW P, NULL \notin Reassemblies(P), NEW ep, WellFormed(P, ep),
         AllWindowed(ep), NEW m \in Nat, ep.received_packets.sequence = U16(m),
         NEW i \in Nat, NearWindow(ReceivedSize, m, i), NearWindow(ReassemblySize, m, i),
         NEW log, NEW p, PartOf(log, i, p), Storable(P, ep, p),
         Collecting(log, m, ep.fragment_reassembly)
  PROVE  /\ Collecting(log, Later(m, i), AfterStore(ep, p).fragment_reassembly)
         /\ Ids(AfterStore(ep, p).fragment_reassembly, Later(m, i))
              \subseteq Ids(ep.fragment_reassembly, m) \cup {i}
  <1> DEFINE b == ep.fragment_reassembly
             s == U16(i)
             D == {NULL} \cup Reassemblies(P)
             new == AfterStore(ep, p)
             c == new.fragment_reassembly
             l == Later(m, i)
  <1>1. p.sequence = s
    BY DEF PartOf
  <1>2. /\ b \in Buffer(ReassemblySize, D) /\ Windowed(b) /\ b.sequence = U16(m)
        /\ b.num_entries = ReassemblySize
    BY DEF WellFormed, AllWindowed, Endpoints, Buffer
  <1>3. /\ WellFormed(P, new) /\ AllWindowed(new) /\ Moved(m, l) /\ i \in Ids(c, l)
        /\ c.sequence = U16(l)
    <2>1. /\ WellFormed(P, new) /\ AllWindowed(new) /\ PartStored(ep, new, m, i)
      BY <1>1, StoreMoves
    <2> QED
      BY <2>1 DEF PartStored, WellFormed
  <1>4. /\ c \in Buffer(ReassemblySize, D) /\ Windowed(c) /\ c.num_entries = ReassemblySize
    BY <1>3 DEF WellFormed, AllWindowed, Endpoints, Buffer
  <1>5. /\ KeptOutside(b, c, {Slot(b, s)})
        /\ UnderReassembly(new, s) = WithFragment(UnderReassembly(Opened(ep, p), s), p)
        /\ UnderReassembly(Opened(ep, p), s) \in Reassemblies(P)
        /\ UnderReassembly(Opened(ep, p), s) = IF Exists(b, s) THEN UnderReassembly(ep, s)
                                               ELSE NewReassembly(p.num_fragments)
    <2>1. /\ KeptOutside(b, c, {Slot(b, p.sequence)})
          /\ UnderReassembly(new, p.sequence)
               = WithFragment(UnderReassembly(Opened(ep, p), p.sequence), p)
      BY StoredWellFormed
    <2>2. /\ UnderReassembly(Opened(ep, p), p.sequence) \in Reassemblies(P)
          /\ UnderReassembly(Opened(ep, p), p.sequence)
               = IF Exists(b, p.sequence) THEN UnderReassembly(ep, p.sequence)
                 ELSE NewReassembly(p.num_fragments)
      BY OpenedWellFormed
    <2> QED
      BY ONLY <1>1, <2>1, <2>2
  <1>6. EntryOf(log, i, UnderReassembly(new, s))
    <2>1. EntryOf(log, i, UnderReassembly(Opened(ep, p), s))
      <3>1. CASE Exists(b, s)
        <4>1. i \in Ids(b, m)
          BY <1>2, <3>1, SizeNumbers, ExistingId
        <4>2. EntryOf(log, i, b.entry_data[Slot(b, U16(i))])
          BY <4>1 DEF Collecting
        <4> QED
          BY <1>5, <3>1, <4>2 DEF UnderReassembly
      <3>2. CASE ~Exists(b, s)
        BY <1>5, <3>2, NewEntryOf
      <3> QED
        BY <3>1, <3>2
    <2>2. StoredFields(P, p)
      BY StorableFragment DEF StoredFields
    <2> QED
      BY <1>5, <2>1, <2>2, EntryGrows
  <1>7. ASSUME NEW k \in Ids(c, l), k # i
        PROVE  /\ k \in Ids(b, m)
               /\ c.entry_data[Slot(c, U16(k))] = b.entry_data[Slot(b, U16(k))]
    <2>1. l \in Nat /\ l >= m /\ l - m <= Half
      BY <1>3 DEF Moved, Later
    <2>2. Slot(b, U16(k)) \notin {Slot(b, s)}
      <3>1. Slot(c, U16(k)) # Slot(c, U16(i))
        <4>1. SUFFICES ASSUME Slot(c, U16(k)) = Slot(c, U16(i)) PROVE FALSE
          OBVIOUS
        <4>2. k \in Ids(c, l) /\ i \in Ids(c, l) /\ l \in Int
          BY <1>3, <1>7, <2>1
        <4>3. ReassemblySize \in Nat \ {0} /\ ReassemblySize < SeqMod
          BY SizeNumbers
        <4> HIDE DEF c, l, D
        <4> QED
          BY <1>4, <1>7, <4>1, <4>2, <4>3, SameSlotId
      <3> QED
        BY <1>2, <1>4, <3>1 DEF Slot
    <2> HIDE DEF b, c, l, D, s
    <2> QED
      BY <1>2, <1>4, <1>5, <1>7, <2>1, <2>2, SizeNumbers, KeptIds
  <1>8. Collecting(log, l, c)
    <2>1. SUFFICES ASSUME NEW k \in Ids(c, l)
                   PROVE  k \in Nat /\ EntryOf(log, k, c.entry_data[Slot(c, U16(k))])
      BY DEF Collecting
    <2>2. CASE k = i
      BY <1>6, <2>2 DEF UnderReassembly
    <2>3. CASE k # i
      BY <1>7, <2>3 DEF Collecting
    <2> QED
      BY <2>2, <2>3
  <1> QED
    BY <1>7, <1>8

\* To the other end an end is its log, how much it has sent and what it sees acked.
LEMMA SameSenderBoth ==
  ASSUME NEW e, NEW o, NEW v, NEW w, NEW memory, NEW now, NEW to_v, NEW to_w,
         Both(e, o, v, w, memory, now, to_v, to_w),
         NEW u, u.log = v.log, u.sent = v.sent,
         u.state.sent_packets = v.state.sent_packets,
         NEW then, ProperEnd(u), Receives(u, w, memory, then)
  PROVE  Both(e, o, u, w, memory, then, to_v, to_w)
  <1>1. Receives(w, u, memory, {})
    BY DEF Both, Receives
  <1>2. OnTheWay(e, o, u, w, to_v) /\ OnTheWay(o, e, w, u, to_w)
    BY DEF Both, OnTheWay
  <1> QED
    BY <1>1, <1>2 DEF Both

\* End v after it stored p, a fragment of packet i.
AfterPart(v, i, p, keeper) ==
  /\ keeper.log = v.log
  /\ keeper.sent = v.sent
  /\ keeper.newest = Later(v.newest, i)
  /\ keeper.state = AfterStore(v.state, p)
  /\ keeper.taken = v.taken

\* The invariant survives a fragment, and its packet has not been taken.
LEMMA StoreKeepsBoth ==
  ASSUME SizesFit, NEW e, NEW o, NEW v, NEW w, NEW memory, NEW to_v, NEW to_w,
         Both(e, o, v, w, memory, {}, to_v, to_w),
         NEW i, Arrives(v, w, i), NEW p, PartOf(w.log, i, p),
         Storable(SUBSET Messages, v.state, p),
         NEW keeper, AfterPart(v, i, p, keeper)
  PROVE  /\ Both(e, o, keeper, w, memory, {}, to_v, to_w)
         /\ i \in Ids(keeper.state.fragment_reassembly, keeper.newest)
         /\ Hears(keeper.newest, w.sent)
  <1> DEFINE P == SUBSET Messages
             b == v.state.received_packets
             r == v.state.fragment_reassembly
             m == v.newest
             l == Later(m, i)
             log == w.log
             new == AfterStore(v.state, p)
  <1>1. ProperEnd(v) /\ ProperEnd(w) /\ Receives(v, w, memory, {})
    BY DEF Both
  <1>2. /\ w.sent \in Nat /\ m \in Nat
        /\ WellFormed(P, v.state) /\ AllWindowed(v.state)
        /\ b \in Buffer(ReceivedSize, {NULL}) /\ Windowed(b) /\ b.sequence = U16(m)
        /\ r.num_entries = ReassemblySize
    BY <1>1 DEF ProperEnd, WellFormed, AllWindowed, Endpoints, Buffer
  <1>3. /\ Hears(m, w.sent)
        /\ TakenOnce(log, m, b, v.taken)
        /\ HeldKnown(log, w.sent, memory, m, b, v.taken)
        /\ Collecting(log, m, r)
        /\ Fresh(log, m, r, v.taken, {})
        /\ Claims(v.log, v.sent, log, w.sent, memory, v.taken)
        /\ AckedTaken(log, w.sent, w.state.sent_packets, v.taken)
    BY <1>1 DEF Receives
  <1>4. /\ i \in Nat /\ p.sequence = U16(i)
        /\ NearWindow(ReceivedSize, m, i) /\ NearWindow(ReassemblySize, m, i)
        /\ l \in Nat /\ l >= m /\ Hears(l, w.sent)
    BY <1>2, <1>3, ArrivalNear DEF Arrives, PartOf
  <1>5. /\ WellFormed(P, new) /\ AllWindowed(new) /\ PartStored(v.state, new, m, i)
        /\ Collecting(log, l, new.fragment_reassembly)
        /\ Ids(new.fragment_reassembly, l) \subseteq Ids(r, m) \cup {i}
    <2>1. NULL \notin Reassemblies(P)
      BY ConnectionNumbers
    <2>2. WellFormed(P, new) /\ AllWindowed(new) /\ PartStored(v.state, new, m, i)
      <3> HIDE DEF P, m
      <3> QED
        BY <1>2, <1>4, <2>1, StoreMoves DEF P
    <2>3. /\ Collecting(log, l, new.fragment_reassembly)
          /\ Ids(new.fragment_reassembly, l) \subseteq Ids(r, m) \cup {i}
      <3> HIDE DEF P, m, log
      <3> QED
        BY <1>2, <1>3, <1>4, <2>1, StoreCollects DEF P, log
    <2> QED
      BY <2>2, <2>3
  <1>6. /\ new.sent_packets = v.state.sent_packets
        /\ new.received_packets.sequence = U16(l)
        /\ Ids(new.received_packets, l) = {k \in Ids(b, m) : k >= l - ReceivedSize}
        /\ i \in Ids(new.fragment_reassembly, l)
    BY <1>5 DEF PartStored
  <1>7. keeper.state = new /\ keeper.newest = l /\ keeper.log = v.log /\ keeper.sent = v.sent
        /\ keeper.taken = v.taken
    BY DEF AfterPart
  <1>8. ProperEnd(keeper)
    BY <1>1, <1>4, <1>5, <1>6, <1>7 DEF ProperEnd
  <1>9. TakenOnce(log, l, new.received_packets, v.taken)
    <2>1. SUFFICES ASSUME NEW d \in DOMAIN v.taken
                   PROVE  \E k \in 0 .. (l - 1) :
                            /\ d = ContentOf(log, k)
                            /\ k >= l - ReceivedSize => k \in Ids(new.received_packets, l)
      BY DEF TakenOnce
    <2>2. PICK k \in 0 .. (m - 1) :
            /\ d = ContentOf(log, k)
            /\ k >= m - ReceivedSize => k \in Ids(b, m)
      BY <1>3 DEF TakenOnce
    <2>3. k \in 0 .. (l - 1) /\ (k >= l - ReceivedSize => k >= m - ReceivedSize)
      BY <1>2, <1>4, SizeNumbers
    <2> QED
      BY <1>6, <2>2, <2>3
  <1>10. HeldKnown(log, w.sent, memory, l, new.received_packets, v.taken)
    BY <1>3, <1>6 DEF HeldKnown
  <1>11. ~Took(log, i, v.taken)
    <2>1. SUFFICES ASSUME Took(log, i, v.taken) PROVE FALSE
      OBVIOUS
    <2>2. i < m /\ (i >= m - ReceivedSize => i \in Ids(b, m))
      BY <1>2, <1>3, <2>1, TookSeen, ExtendsItself
    <2>3. l = m
      BY <1>2, <1>4, <2>2 DEF Later
    <2>4. i >= l - ReassemblySize
      <3>1. new.fragment_reassembly.num_entries = ReassemblySize
        BY <1>5 DEF WellFormed, Endpoints, Buffer
      <3> QED
        BY <1>4, <1>6, <3>1, SizeNumbers DEF Ids
    <2>5. i \in Ids(b, m)
      BY <1>2, <1>4, <2>2, <2>3, <2>4, SizeNumbers
    <2>6. Exists(b, U16(i))
      <3>1. i \in Int /\ m \in Int
        BY <1>2, <1>4
      <3> HIDE DEF b, m
      <3> QED
        BY <1>2, <2>5, <3>1, SizeNumbers, IdsIff
    <2>7. ~Exists(b, U16(i))
      BY <1>4, StorableFragment
    <2> QED
      BY <2>6, <2>7
  <1>12. Fresh(log, l, new.fragment_reassembly, v.taken, {})
    BY <1>3, <1>5, <1>11 DEF Fresh
  <1>13. Receives(keeper, w, memory, {})
    BY <1>3, <1>4, <1>5, <1>7, <1>9, <1>10, <1>12 DEF Receives
  <1>14. Both(e, o, keeper, w, memory, {}, to_v, to_w)
    BY <1>6, <1>7, <1>8, <1>13, SameSenderBoth
  <1> QED
    BY <1>4, <1>6, <1>7, <1>14

\* What is not taken just now stays so.
LEMMA FreshNow ==
  ASSUME NEW e, NEW o, NEW v, NEW w, NEW memory, NEW to_v, NEW to_w,
         Both(e, o, v, w, memory, {}, to_v, to_w), NEW now
  PROVE  Both(e, o, v, w, memory, now, to_v, to_w)
  BY DEF Both, Receives, Fresh

\* End v with another state of the endpoint.
WithState(v, new, u) ==
  /\ u.log = v.log /\ u.sent = v.sent /\ u.newest = v.newest
  /\ u.state = new /\ u.taken = v.taken

\* What changes neither the windows nor what they hold keeps the invariant.
LEMMA SameKeepsBoth ==
  ASSUME NEW e, NEW o, NEW v, NEW w, NEW memory, NEW now, NEW to_v, NEW to_w,
         Both(e, o, v, w, memory, now, to_v, to_w),
         NEW new, WellFormed(SUBSET Messages, new), AllWindowed(new),
         new.sent_packets = v.state.sent_packets,
         new.received_packets = v.state.received_packets,
         new.fragment_reassembly = v.state.fragment_reassembly,
         NEW u, WithState(v, new, u)
  PROVE  Both(e, o, u, w, memory, now, to_v, to_w)
  <1>1. ProperEnd(v) /\ Receives(v, w, memory, now)
    BY DEF Both
  <1>2. ProperEnd(u)
    BY <1>1 DEF ProperEnd, WithState
  <1>3. Receives(u, w, memory, now)
    BY <1>1 DEF Receives, WithState
  <1> QED
    BY <1>2, <1>3, SameSenderBoth DEF WithState

\* Counting is such a change.
LEMMA CountKeepsBoth ==
  ASSUME NEW e, NEW o, NEW v, NEW w, NEW memory, NEW now, NEW to_v, NEW to_w,
         Both(e, o, v, w, memory, now, to_v, to_w),
         NEW names, NEW u, WithState(v, Count(v.state, names), u)
  PROVE  Both(e, o, u, w, memory, now, to_v, to_w)
  <1> DEFINE new == Count(v.state, names)
  <1>1. WellFormed(SUBSET Messages, v.state) /\ AllWindowed(v.state)
    BY DEF Both, ProperEnd
  <1>2. new \in Endpoints(SUBSET Messages) /\ SameButCounters(v.state, new)
    BY <1>1, CountOneChanges DEF WellFormed
  <1> HIDE DEF new
  <1>3. WellFormed(SUBSET Messages, new) /\ AllWindowed(new)
    BY <1>1, <1>2, CountWellFormed
  <1>4. WithState(v, new, u)
    BY DEF new
  <1> QED
    BY <1>2, <1>3, <1>4, SameKeepsBoth DEF SameButCounters

\* The entry of the packet that was being taken goes.
LEMMA CloseKeepsBoth ==
  ASSUME SizesFit, NEW e, NEW o, NEW v, NEW w, NEW memory, NEW to_v, NEW to_w,
         NEW i \in Nat,
         Both(e, o, v, w, memory, {i}, to_v, to_w),
         NEW u, WithState(v, Closed(v.state, U16(i)), u)
  PROVE  Both(e, o, u, w, memory, {}, to_v, to_w)
  <1> DEFINE P == SUBSET Messages
             D == {NULL} \cup Reassemblies(P)
             r == v.state.fragment_reassembly
             new == Closed(v.state, U16(i))
             c == new.fragment_reassembly
             m == v.newest
             log == w.log
  <1>1. /\ ProperEnd(v) /\ Receives(v, w, memory, {i}) /\ U16(i) \in Seqs
    BY IdSequence DEF Both
  <1>2. /\ m \in Nat /\ WellFormed(P, v.state) /\ AllWindowed(v.state)
        /\ r \in Buffer(ReassemblySize, D) /\ Windowed(r) /\ r.sequence = U16(m)
        /\ r.num_entries = ReassemblySize
    BY <1>1 DEF ProperEnd, WellFormed, AllWindowed, Endpoints, Buffer
  <1>3. /\ WellFormed(P, new) /\ AllWindowed(new)
        /\ KeptOutside(r, c, {})
        /\ ~Occupied(c, Slot(r, U16(i)))
        /\ new.sent_packets = v.state.sent_packets
        /\ new.received_packets = v.state.received_packets
    <2> HIDE DEF P
    <2> QED
      BY <1>1, <1>2, ClosedWellFormed
  <1>4. c \in Buffer(ReassemblySize, D) /\ Windowed(c) /\ c.num_entries = ReassemblySize
    BY <1>3 DEF WellFormed, AllWindowed, Endpoints, Buffer
  <1>5. Collecting(log, m, c) /\ Ids(c, m) \subseteq Ids(r, m)
    <2>1. Collecting(log, m, r) /\ Moved(m, m)
      BY <1>1, <1>2, SizeNumbers DEF Receives, Moved
    <2> HIDE DEF r, c, D, m, log
    <2> QED
      BY <1>2, <1>3, <1>4, <2>1, CollectingKept
  <1>6. i \notin Ids(c, m)
    <2>1. Slot(c, U16(i)) = Slot(r, U16(i))
      BY <1>2, <1>4 DEF Slot
    <2>2. U16(i) # Empty
      BY <1>1, CircleNumbers DEF Empty
    <2>3. ~Exists(c, U16(i))
      BY <1>3, <2>1, <2>2 DEF Exists, Occupied
    <2>4. i \in Int /\ m \in Int
      BY <1>2
    <2> HIDE DEF c, D, m
    <2> QED
      BY <1>4, <2>3, <2>4, SizeNumbers, IdsIff
  <1>7. Fresh(log, m, c, v.taken, {})
    <2>1. Fresh(log, m, r, v.taken, {i})
      BY <1>1 DEF Receives
    <2> QED
      BY <1>5, <1>6, <2>1 DEF Fresh
  <1>8. ProperEnd(u) /\ Receives(u, w, memory, {})
    <2>1. ProperEnd(u)
      BY <1>1, <1>3 DEF ProperEnd, WithState
    <2>2. Receives(u, w, memory, {})
      BY <1>1, <1>3, <1>5, <1>7 DEF Receives, WithState
    <2> QED
      BY <2>1, <2>2
  <1> QED
    BY <1>3, <1>8, SameSenderBoth DEF WithState

-----------------------------------------------------------------------------
(* The packet that fragments make                                          *)

\* All parts of one packet make the packet as it was sent.
LEMMA PartsMakeWhole ==
  ASSUME NEW P, NEW data \in Reassemblies(P), NEW log \in Logs, NEW i \in Nat,
         EntryOf(log, i, data), Complete(data)
  PROVE  WholeOf(log, i, WholePacket(U16(i), data))
  <1> DEFINE bytes == log[i].bytes
             N == NumFragments(bytes)
             last == N - 1
             ids == DOMAIN data.parts
             p == WholePacket(U16(i), data)
  <1>1. bytes \in Nat /\ Fragmented(bytes)
    BY DEF Logs, LogEntries, EntryOf
  <1>2. /\ N \in Nat \ {0} /\ last * FragmentSize \in Int
        /\ bytes - last * FragmentSize \in Int
    <2> HIDE DEF bytes
    <2> QED
      BY <1>1, FragmentNumbers
  <1>3. /\ data.num_fragments_total = N
        /\ ids \subseteq 0 .. last
        /\ \A k \in ids : /\ data.parts[k].payload = {MessageOf(log, i)}
                          /\ data.parts[k].bytes = PartSize(bytes, k)
        /\ 0 \in ids => data.ack = log[i].ack /\ data.ack_bits = log[i].ack_bits
    BY DEF EntryOf
  <1>4. p.sequence = U16(i) /\ p.ack = data.ack /\ p.ack_bits = data.ack_bits
        /\ p.bytes = (data.num_fragments_total - 1) * FragmentSize
                       + data.parts[data.num_fragments_total - 1].bytes
        /\ p.payload = UNION {data.parts[k].payload : k \in ids}
    BY DEF WholePacket
  <1> HIDE DEF bytes, N, p
  <1>5. ids = 0 .. last
    <2>1. Cardinality(ids) = N
      BY <1>3 DEF Complete
    <2>2. last \in Int
      BY <1>2
    <2>3. IsFiniteSet(0 .. last) /\ Cardinality(0 .. last) = N
      <3>1. 0 \in Int /\ ~(0 > last) /\ last - 0 + 1 = N
        BY <1>2
      <3> HIDE DEF last
      <3> QED
        BY <2>2, <3>1, FS_Interval
    <2> HIDE DEF ids
    <2>4. ids \in SUBSET (0 .. last)
      BY <1>3
    <2> QED
      BY <2>1, <2>3, <2>4, FS_Subset
  <1>6. 0 \in ids /\ last \in ids
    BY <1>2, <1>5
  <1> HIDE DEF ids
  <1>7. p.bytes = bytes
    <2>1. data.parts[last].bytes = bytes - last * FragmentSize
      <3>1. last \in Int
        BY <1>2
      <3>2. ~(last < last)
        BY <3>1
      <3>3. PartSize(bytes, last) = bytes - last * FragmentSize
        BY ONLY <3>2, Zenon DEF PartSize, N
      <3> QED
        BY <1>3, <1>6, <3>3
    <2>2. p.bytes = last * FragmentSize + (bytes - last * FragmentSize)
      BY <1>3, <1>4, <2>1
    <2>3. PICK x \in Int : x = last * FragmentSize
      BY <1>2
    <2>4. bytes \in Int
      BY <1>1
    <2> QED
      BY <2>2, <2>3, <2>4
  <1>8. p.payload = {MessageOf(log, i)}
    <2>1. \A k \in ids : data.parts[k].payload = {MessageOf(log, i)}
      BY <1>3
    <2> QED
      BY <1>4, <1>6, <2>1
  <1>9. Content(p) = ContentOf(log, i)
    BY <1>7, <1>8 DEF Content, ContentOf, bytes
  <1>10. Carries(log, i, p)
    BY <1>3, <1>4, <1>6 DEF Carries
  <1> QED
    BY <1>9, <1>10 DEF WholeOf, p

-----------------------------------------------------------------------------
(* A packet is received                                                    *)

\* The callback found ep and sent a reply of so many bytes (0: none): end v and end w
\* after that, and what was transmitted.  The network had room for it.
AfterReply(e, o, v, w, reply, sender, receiver, packets) ==
  /\ sender.state = AfterCallback(v.state, reply)
  /\ sender.newest = v.newest
  /\ sender.taken = v.taken
  /\ receiver.log = w.log
  /\ receiver.sent = w.sent
  /\ receiver.newest = w.newest
  /\ receiver.state = w.state
  /\ IF reply = 0
       THEN /\ sender.log = v.log
            /\ sender.sent = v.sent
            /\ receiver.taken = w.taken
            /\ packets = {}
       ELSE /\ sender.log = [v.log EXCEPT ![v.sent] =
                               LogEntry(reply, w.sent, v.state.received_packets)]
            /\ sender.sent = v.sent + 1
            /\ receiver.taken = Remembered(w.taken, v.sent + 1)
            /\ MayTransmit(e, o, v.state, v.sent, w.sent, reply, packets)

\* There is room for another message of e.
Room(e, v, w, packets) ==
  v.sent - w.newest < MaxLead /\ \A x \in packets : v.sent - x.born[e] < MaxLife

\* The invariant survives the callback.
LEMMA ReplyKeepsBoth ==
  ASSUME SizesFit, NEW e, NEW o, NEW v, NEW w, NEW memory, NEW now, NEW to_v, NEW to_w,
         Both(e, o, v, w, memory, now, to_v, to_w),
         memory = Application.memory, memory \in Nat, memory >= SentSize,
         NEW reply \in Nat, reply # 0 => Room(e, v, w, to_v \cup to_w),
         NEW sender, NEW receiver, NEW packets,
         AfterReply(e, o, v, w, reply, sender, receiver, packets)
  PROVE  Both(e, o, sender, receiver, memory, now, to_v, to_w \cup packets)
  <1> DEFINE counted == Count(v.state, {"packets_received"})
             u == [log |-> v.log, sent |-> v.sent, newest |-> v.newest, state |-> counted,
                   taken |-> v.taken]
  <1>1. Both(e, o, u, w, memory, now, to_v, to_w)
    <2>1. WithState(v, counted, u)
      BY DEF WithState
    <2> HIDE DEF u
    <2> QED
      BY <2>1, CountKeepsBoth
  <1>2. SameButCounters(v.state, counted)
    BY CountOneChanges DEF Both, ProperEnd, WellFormed
  <1>3. u.log = v.log /\ u.sent = v.sent /\ u.newest = v.newest /\ u.state = counted
        /\ u.taken = v.taken
    OBVIOUS
  <1>4. AfterCallback(v.state, reply) = IF reply = 0 THEN counted ELSE Sent(counted, reply)
    BY DEF AfterCallback
  <1> HIDE DEF counted, u
  <1>5. CASE reply = 0
    <2>1. /\ sender.log = u.log /\ sender.sent = u.sent /\ sender.newest = u.newest
          /\ sender.state = u.state /\ sender.taken = u.taken
          /\ receiver.log = w.log /\ receiver.sent = w.sent /\ receiver.newest = w.newest
          /\ receiver.state = w.state /\ receiver.taken = w.taken /\ packets = {}
      BY <1>3, <1>4, <1>5 DEF AfterReply
    <2> QED
      BY <1>1, <2>1 DEF Both, ProperEnd, Receives, OnTheWay
  <1>6. CASE reply # 0
    <2>1. AfterSend(u, w, reply, sender, receiver)
      BY <1>2, <1>3, <1>4, <1>6 DEF AfterReply, AfterSend, SameButCounters
    <2>2. MayTransmit(e, o, u.state, u.sent, w.sent, reply, packets)
      <3>1. MayTransmit(e, o, v.state, v.sent, w.sent, reply, packets)
        BY <1>6 DEF AfterReply
      <3>2. /\ u.state.sequence = v.state.sequence
            /\ u.state.received_packets = v.state.received_packets
        BY <1>2, <1>3 DEF SameButCounters
      <3>3. \A payload : Transmitted(u.state, reply, payload, MaxHeader)
                           = Transmitted(v.state, reply, payload, MaxHeader)
        BY ONLY <3>2 DEF Transmitted
      <3> QED
        BY <1>3, <3>1, <3>3 DEF MayTransmit
    <2>3. u.sent - w.newest < MaxLead /\ \A x \in to_v \cup to_w : u.sent - x.born[e] < MaxLife
      BY <1>3, <1>6 DEF Room
    <2> QED
      BY <1>1, <2>1, <2>2, <2>3, SendKeepsBoth
  <1> QED
    BY <1>5, <1>6

\* A call of receive_packet with result r: end v, whose windows then end at newest,
\* and end w after it, and what was transmitted.
AfterResult(e, o, v, w, r, newest, caller, other, packets) ==
  /\ caller.state = r.endpoint
  /\ caller.newest = newest
  /\ caller.taken = Delivered(v.taken, r.taken)
  /\ other.log = w.log
  /\ other.sent = w.sent
  /\ other.newest = w.newest
  /\ other.state = w.state
  /\ IF r.reply = 0
       THEN /\ caller.log = v.log
            /\ caller.sent = v.sent
            /\ other.taken = w.taken
            /\ packets = {}
       ELSE /\ caller.log = [v.log EXCEPT ![v.sent] =
                               LogEntry(r.reply, w.sent, r.during.received_packets)]
            /\ caller.sent = v.sent + 1
            /\ other.taken = Remembered(w.taken, v.sent + 1)
            /\ MayTransmit(e, o, r.during, v.sent, w.sent, r.reply, packets)

\* Ends with the same fields have the same invariant.
LEMMA SameFieldsBoth ==
  ASSUME NEW e, NEW o, NEW v, NEW w, NEW memory, NEW now, NEW to_v, NEW to_w,
         Both(e, o, v, w, memory, now, to_v, to_w),
         NEW u, WithState(w, w.state, u), u.taken = w.taken
  PROVE  Both(e, o, v, u, memory, now, to_v, to_w)
  BY DEF Both, ProperEnd, Receives, OnTheWay, WithState

\* The invariant survives a packet that the callback takes.
LEMMA AcceptKeepsBoth ==
  ASSUME SizesFit, NEW e, NEW o, NEW v, NEW w, NEW memory, NEW now, NEW to_v, NEW to_w,
         Both(e, o, v, w, memory, now, to_v, to_w),
         memory = Application.memory, memory \in Nat, memory >= SentSize,
         NEW i, Arrives(v, w, i), v.sent - w.log[i].heard <= MaxLife,
         i \in now \/ ~Fragmented(w.log[i].bytes),
         NEW p, WholeOf(w.log, i, p),
         ~Stale(v.state.received_packets, U16(i)), ~Exists(v.state.received_packets, U16(i)),
         NEW reply \in Nat,
         reply # 0 => Room(e, v, w, to_v \cup to_w) /\ v.sent - w.log[i].heard < MaxLife,
         NEW r, r = Result(Accepted(v.state, p, reply), v.state, reply, {p}),
         NEW caller, NEW other, NEW packets,
         AfterResult(e, o, v, w, r, Later(v.newest, i), caller, other, packets)
  PROVE  Both(e, o, caller, other, memory, now, to_v, to_w \cup packets)
  <1> DEFINE ep == v.state
             called == AfterCallback(ep, reply)
             recorded == Recorded(called, p.sequence)
             u == [log |-> caller.log, sent |-> caller.sent, newest |-> v.newest,
                   state |-> called, taken |-> v.taken]
             t == [log |-> caller.log, sent |-> caller.sent, newest |-> Later(v.newest, i),
                   state |-> recorded, taken |-> Delivered(v.taken, {p})]
  <1>1. /\ r.endpoint = Accepted(ep, p, reply) /\ r.during = ep /\ r.reply = reply
        /\ r.taken = {p} /\ p.sequence = U16(i)
    BY DEF Result, WholeOf, Carries
  <1>2. Accepted(ep, p, reply) = WithAcks(recorded, p)
    BY Zenon DEF Accepted, Recorded
  <1>3. /\ u.log = caller.log /\ u.sent = caller.sent /\ u.newest = v.newest
        /\ u.state = called /\ u.taken = v.taken
        /\ t.log = caller.log /\ t.sent = caller.sent /\ t.newest = Later(v.newest, i)
        /\ t.state = recorded /\ t.taken = Delivered(v.taken, {p})
    OBVIOUS
  <1>4. called.received_packets = ep.received_packets
    <2>1. ep \in Endpoints(SUBSET Messages)
      BY DEF Both, ProperEnd, WellFormed
    <2> QED
      BY <2>1, CallbackChanges
  <1> HIDE DEF u, t
  <1>5. AfterReply(e, o, v, w, reply, u, other, packets)
    BY <1>1, <1>3 DEF AfterReply, AfterResult
  <1> HIDE DEF called
  <1>6. Both(e, o, u, other, memory, now, to_v, to_w \cup packets)
    BY <1>5, ReplyKeepsBoth
  <1>7. Both(e, o, t, other, memory, now, to_v, to_w \cup packets)
    <2>1. other.log = w.log /\ other.sent = w.sent
      BY DEF AfterResult
    <2>2. Arrives(u, other, i) /\ WholeOf(other.log, i, p)
          /\ (i \in now \/ ~Fragmented(other.log[i].bytes))
      BY <2>1 DEF Arrives
    <2>3. ~Stale(u.state.received_packets, U16(i)) /\ ~Exists(u.state.received_packets, U16(i))
      BY <1>3, <1>4
    <2>4. AfterTake(u, i, p, t)
      BY <1>1, <1>3 DEF AfterTake
    <2> QED
      BY <1>6, <2>2, <2>3, <2>4, TakeKeepsBoth
  <1> HIDE DEF recorded
  <1>8. Both(e, o, caller, other, memory, now, to_v, to_w \cup packets)
    <2>1. other.log = w.log /\ other.sent = w.sent
      BY DEF AfterResult
    <2>2. i \in Nat /\ i < other.sent /\ Carries(other.log, i, p)
      BY <2>1 DEF Arrives, WholeOf
    <2>3. t.sent - other.log[i].heard <= MaxLife
      <3>1. v.sent \in Nat /\ w.log[i].heard \in Nat /\ MaxLife \in Nat
        BY <2>2, ConnectionNumbers DEF Both, ProperEnd, Logs, LogEntries
      <3>2. t.sent = IF reply = 0 THEN v.sent ELSE v.sent + 1
        BY <1>1, <1>3 DEF AfterResult
      <3> QED
        BY <2>1, <3>1, <3>2
    <2>4. AfterAcks(t, p, caller)
      BY <1>1, <1>2, <1>3 DEF AfterAcks, AfterResult
    <2> QED
      BY <1>7, <2>2, <2>3, <2>4, AcksKeepBoth
  <1> QED
    BY <1>8

\* Where the windows of end v end after packet i, with result r.
NewestAfter(v, i, r) == IF r.taken = {} THEN v.newest ELSE Later(v.newest, i)

\* The invariant survives a packet in one piece.
LEMMA RegularKeepsBoth ==
  ASSUME SizesFit, NEW e, NEW o, NEW v, NEW w, NEW memory, NEW now, NEW to_v, NEW to_w,
         Both(e, o, v, w, memory, now, to_v, to_w),
         memory = Application.memory, memory \in Nat, memory >= SentSize,
         NEW i, Arrives(v, w, i), v.sent - w.log[i].heard <= MaxLife,
         i \in now \/ ~Fragmented(w.log[i].bytes),
         NEW p, WholeOf(w.log, i, p),
         NEW replies \in SUBSET Nat, NEW r \in RegularResults(v.state, p, replies),
         r.reply # 0 => Room(e, v, w, to_v \cup to_w) /\ v.sent - w.log[i].heard < MaxLife,
         NEW caller, NEW other, NEW packets,
         AfterResult(e, o, v, w, r, NewestAfter(v, i, r), caller, other, packets)
  PROVE  Both(e, o, caller, other, memory, now, to_v, to_w \cup packets)
  <1> DEFINE ep == v.state
  <1>1. p.sequence = U16(i) /\ v.taken \in [DOMAIN v.taken -> {1}]
    BY DEF WholeOf, Carries, Both, ProperEnd
  <1>2. CASE r = Unprocessed(Dropped(ep, p))
    <2>1. r.endpoint = Dropped(ep, p) /\ r.reply = 0 /\ r.taken = {}
      BY <1>2 DEF Unprocessed, Result
    <2>2. WithState(v, Count(ep, DropCounters[WhyDropped(ep, p)]), caller)
      BY <1>1, <2>1, DeliveredNone DEF AfterResult, NewestAfter, Dropped, WithState
    <2>3. Both(e, o, caller, w, memory, now, to_v, to_w)
      BY <2>2, CountKeepsBoth
    <2>4. WithState(w, w.state, other) /\ packets = {}
      BY <2>1 DEF AfterResult, WithState
    <2>5. Both(e, o, caller, other, memory, now, to_v, to_w)
      BY <2>3, <2>4, SameFieldsBoth DEF WithState
    <2> QED
      BY <2>4, <2>5
  <1>3. ASSUME NEW reply \in replies, r = Result(Rejected(ep, reply), ep, reply, {})
        PROVE  Both(e, o, caller, other, memory, now, to_v, to_w \cup packets)
    <2>1. r.endpoint = AfterCallback(ep, reply) /\ r.during = ep /\ r.reply = reply
          /\ r.taken = {}
      BY <1>3 DEF Result, Rejected
    <2>2. AfterReply(e, o, v, w, reply, caller, other, packets)
      BY <1>1, <2>1, DeliveredNone DEF AfterReply, AfterResult, NewestAfter
    <2> QED
      BY <2>1, <2>2, ReplyKeepsBoth
  <1>4. ASSUME NEW reply \in replies, r = Result(Accepted(ep, p, reply), ep, reply, {p}),
               ~Stale(ep.received_packets, p.sequence),
               ~Exists(ep.received_packets, p.sequence)
        PROVE  Both(e, o, caller, other, memory, now, to_v, to_w \cup packets)
    <2>1. r.reply = reply /\ r.taken = {p}
      BY <1>4 DEF Result
    <2>2. NewestAfter(v, i, r) = Later(v.newest, i)
      BY <2>1 DEF NewestAfter
    <2>3. /\ ~Stale(v.state.received_packets, U16(i))
          /\ ~Exists(v.state.received_packets, U16(i))
      BY <1>1, <1>4
    <2>4. AfterResult(e, o, v, w, r, Later(v.newest, i), caller, other, packets)
      BY <2>2
    <2>5. /\ reply \in Nat
          /\ reply # 0 => Room(e, v, w, to_v \cup to_w) /\ v.sent - w.log[i].heard < MaxLife
      BY <2>1
    <2>6. r = Result(Accepted(v.state, p, reply), v.state, reply, {p})
      BY <1>4
    <2> QED
      BY <2>3, <2>4, <2>5, <2>6, AcceptKeepsBoth
  <1>5. \/ r = Unprocessed(Dropped(ep, p))
        \/ /\ ~Stale(ep.received_packets, p.sequence)
           /\ ~Exists(ep.received_packets, p.sequence)
           /\ \E reply \in replies :
                 \/ r = Result(Rejected(ep, reply), ep, reply, {})
                 \/ r = Result(Accepted(ep, p, reply), ep, reply, {p})
    <2>1. RegularOutcome(ep, p, replies, r)
      BY ONLY RegularCases, r \in RegularResults(v.state, p, replies), replies \in SUBSET Nat
    <2> QED
      BY <2>1, Zenon DEF RegularOutcome
  <1> QED
    BY <1>2, <1>3, <1>4, <1>5

\* A packet that has moved the windows moves them no further.
LEMMA LaterAgain ==
  ASSUME NEW m \in Int, NEW i \in Int
  PROVE  Later(Later(m, i), i) = Later(m, i)
  BY DEF Later

\* The invariant survives the last fragment of a packet.
LEMMA CompletionKeepsBoth ==
  ASSUME SizesFit, NEW e, NEW o, NEW v, NEW w, NEW memory, NEW to_v, NEW to_w,
         Both(e, o, v, w, memory, {}, to_v, to_w),
         memory = Application.memory, memory \in Nat, memory >= SentSize,
         NEW i, Arrives(v, w, i), v.sent - w.log[i].heard <= MaxLife,
         NEW p, PartOf(w.log, i, p), Storable(SUBSET Messages, v.state, p),
         Completes(v.state, p),
         NEW replies \in SUBSET Nat, NEW r \in CompletionResults(v.state, p, replies),
         r.reply # 0 => Room(e, v, w, to_v \cup to_w) /\ v.sent - w.log[i].heard < MaxLife,
         NEW caller, NEW other, NEW packets,
         AfterResult(e, o, v, w, r, Later(v.newest, i), caller, other, packets)
  PROVE  Both(e, o, caller, other, memory, {}, to_v, to_w \cup packets)
  <1> DEFINE ep == v.state
             stored == AfterStore(ep, p)
             whole == Collected(ep, p)
             l == Later(v.newest, i)
             keeper == [log |-> v.log, sent |-> v.sent, newest |-> l, state |-> stored,
                        taken |-> v.taken]
  <1>1. p.sequence = U16(i) /\ i \in Nat /\ v.newest \in Nat /\ w.log \in Logs
    BY DEF PartOf, Arrives, Both, ProperEnd
  <1>2. PICK x \in RegularResults(stored, whole, replies) :
          /\ r.endpoint = CountFragment(Closed(x.endpoint, U16(i)))
          /\ r.during = x.during
          /\ r.reply = x.reply
          /\ r.taken = x.taken
    BY <1>1, CompletionCases
  <1>3. /\ keeper.log = v.log /\ keeper.sent = v.sent /\ keeper.newest = l
        /\ keeper.state = stored /\ keeper.taken = v.taken
    OBVIOUS
  <1> HIDE DEF keeper
  <1>4. AfterPart(v, i, p, keeper)
    BY <1>3 DEF AfterPart
  <1>5. /\ Both(e, o, keeper, w, memory, {}, to_v, to_w)
        /\ i \in Ids(stored.fragment_reassembly, l)
    <2>1. /\ Both(e, o, keeper, w, memory, {}, to_v, to_w)
          /\ i \in Ids(keeper.state.fragment_reassembly, keeper.newest)
      BY <1>4, StoreKeepsBoth, Zenon
    <2> QED
      BY <1>3, <2>1, Zenon
  <1>6. WholeOf(w.log, i, whole)
    <2> DEFINE data == UnderReassembly(stored, U16(i))
    <2>1. EntryOf(w.log, i, data)
      BY <1>3, <1>5 DEF Both, Receives, Collecting, UnderReassembly
    <2>2. data \in Reassemblies(SUBSET Messages)
      <3>1. WellFormed(SUBSET Messages, ep) /\ NULL \notin Reassemblies(SUBSET Messages)
        BY ConnectionNumbers DEF Both, ProperEnd
      <3>2. UnderReassembly(AfterStore(ep, p), p.sequence) \in Reassemblies(SUBSET Messages)
        BY <3>1, StoredWellFormed
      <3> QED
        BY <1>1, <3>2
    <2>3. Complete(data) /\ whole = WholePacket(U16(i), data)
      BY <1>1 DEF Completes, Collected
    <2> HIDE DEF data, whole
    <2> QED
      BY <1>1, <2>1, <2>2, <2>3, PartsMakeWhole
  <1> DEFINE mid == [log |-> caller.log, sent |-> caller.sent, newest |-> l,
                     state |-> x.endpoint, taken |-> caller.taken]
             closed == [mid EXCEPT !.state = Closed(x.endpoint, U16(i))]
  <1>7. /\ mid.log = caller.log /\ mid.sent = caller.sent /\ mid.newest = l
        /\ mid.state = x.endpoint /\ mid.taken = caller.taken
        /\ closed.log = caller.log /\ closed.sent = caller.sent /\ closed.newest = l
        /\ closed.state = Closed(x.endpoint, U16(i)) /\ closed.taken = caller.taken
    OBVIOUS
  <1>8. l = NewestAfter(keeper, i, x)
    BY <1>1, <1>3, LaterAgain DEF NewestAfter
  <1>9. caller.newest = l /\ caller.state = CountFragment(Closed(x.endpoint, U16(i)))
    BY <1>2 DEF AfterResult
  <1> HIDE DEF mid, closed, stored, whole, l
  <1>10. Both(e, o, mid, other, memory, {i}, to_v, to_w \cup packets)
    <2>1. Both(e, o, keeper, w, memory, {i}, to_v, to_w)
      BY <1>5, FreshNow
    <2>2. AfterResult(e, o, keeper, w, x, NewestAfter(keeper, i, x), mid, other, packets)
      <3>1. AfterResult(e, o, v, w, r, l, caller, other, packets)
        BY DEF l
      <3> QED
        BY <1>2, <1>3, <1>7, <1>8, <3>1 DEF AfterResult
    <2>3. /\ Arrives(keeper, w, i) /\ keeper.sent - w.log[i].heard <= MaxLife
          /\ i \in {i}
          /\ x.reply # 0 => /\ Room(e, keeper, w, to_v \cup to_w)
                            /\ keeper.sent - w.log[i].heard < MaxLife
      BY <1>2, <1>3 DEF Arrives, Room
    <2>4. x \in RegularResults(keeper.state, whole, replies)
      BY <1>2, <1>3
    <2> QED
      BY <1>6, <2>1, <2>2, <2>3, <2>4, RegularKeepsBoth
  <1>11. Both(e, o, closed, other, memory, {}, to_v, to_w \cup packets)
    <2>1. WithState(mid, Closed(mid.state, U16(i)), closed)
      BY <1>7 DEF WithState
    <2> QED
      BY <1>1, <1>10, <2>1, CloseKeepsBoth
  <1>12. Both(e, o, caller, other, memory, {}, to_v, to_w \cup packets)
    <2>1. WithState(closed, Count(closed.state, {"fragments_received"}), caller)
      BY <1>7, <1>9 DEF WithState, CountFragment
    <2> QED
      BY <1>11, <2>1, CountKeepsBoth
  <1> QED
    BY <1>12

\* With such a result the invariant holds, with windows that end at newest.
ResultKeepsBoth(e, o, v, w, memory, to_v, to_w, r, newest) ==
  /\ newest \in Nat
  /\ \A caller, other, packets :
       AfterResult(e, o, v, w, r, newest, caller, other, packets)
         => Both(e, o, caller, other, memory, {}, to_v, to_w \cup packets)

\* A call that changes the endpoint, and does nothing else, after which the
\* invariant holds.
LEMMA UnprocessedKeepsBoth ==
  ASSUME NEW e, NEW o, NEW v, NEW w, NEW memory, NEW to_v, NEW to_w,
         v.taken \in [DOMAIN v.taken -> {1}],
         NEW after, NEW newest \in Nat, NEW r, r = Unprocessed(after),
         \A u : /\ u.log = v.log /\ u.sent = v.sent /\ u.newest = newest
                /\ u.state = after /\ u.taken = v.taken
                => Both(e, o, u, w, memory, {}, to_v, to_w)
  PROVE  ResultKeepsBoth(e, o, v, w, memory, to_v, to_w, r, newest)
  <1>1. SUFFICES ASSUME NEW caller, NEW other, NEW packets,
                        AfterResult(e, o, v, w, r, newest, caller, other, packets)
                 PROVE  Both(e, o, caller, other, memory, {}, to_v, to_w \cup packets)
    BY DEF ResultKeepsBoth
  <1>2. r.endpoint = after /\ r.reply = 0 /\ r.taken = {}
    BY DEF Unprocessed, Result
  <1>3. /\ caller.log = v.log /\ caller.sent = v.sent /\ caller.newest = newest
        /\ caller.state = after /\ caller.taken = v.taken
    BY <1>1, <1>2, DeliveredNone DEF AfterResult
  <1>4. Both(e, o, caller, w, memory, {}, to_v, to_w)
    BY <1>3
  <1>5. WithState(w, w.state, other) /\ other.taken = w.taken /\ packets = {}
    BY <1>1, <1>2 DEF AfterResult, WithState
  <1>6. Both(e, o, caller, other, memory, {}, to_v, to_w)
    BY <1>4, <1>5, SameFieldsBoth
  <1> QED
    BY <1>5, <1>6

\* The invariant survives whatever arrives and whatever comes of it.
LEMMA ReceiveKeepsBoth ==
  ASSUME SizesFit, NEW e, NEW o, NEW v, NEW w, NEW memory, NEW to_v, NEW to_w,
         Both(e, o, v, w, memory, {}, to_v, to_w),
         memory = Application.memory, memory \in Nat, memory >= SentSize,
         NEW i, Arrives(v, w, i), v.sent - w.log[i].heard <= MaxLife,
         NEW p, PacketOf(w.log, i, p),
         NEW replies \in SUBSET Nat, NEW r \in Results(v.state, p, replies),
         r.reply # 0 => Room(e, v, w, to_v \cup to_w) /\ v.sent - w.log[i].heard < MaxLife
  PROVE  \E newest : ResultKeepsBoth(e, o, v, w, memory, to_v, to_w, r, newest)
  <1> DEFINE ep == v.state
  <1>1. /\ v.newest \in Nat /\ Later(v.newest, i) \in Nat
        /\ v.taken \in [DOMAIN v.taken -> {1}]
    BY ArrivalNear DEF Both, Receives, ProperEnd
  <1>2. CASE p \in RegularPackets(SUBSET Messages) /\ ~Fragmented(w.log[i].bytes)
             /\ WholeOf(w.log, i, p)
    <2>1. r \in RegularResults(ep, p, replies)
      BY <1>2 DEF Results, RegularPackets
    <2>2. ASSUME NEW caller, NEW other, NEW packets,
                 AfterResult(e, o, v, w, r, NewestAfter(v, i, r), caller, other, packets)
          PROVE  Both(e, o, caller, other, memory, {}, to_v, to_w \cup packets)
      BY <1>2, <2>1, <2>2, RegularKeepsBoth
    <2> QED
      BY <1>1, <2>2 DEF ResultKeepsBoth, NewestAfter
  <1>3. CASE p \in FragmentPackets(SUBSET Messages) /\ PartOf(w.log, i, p)
    <2>1. p.type # "regular"
      BY <1>3 DEF FragmentPackets
    <2>2. CASE ~Stored(ep, p)
      <3>1. r = Unprocessed(Ignored(ep, p))
        BY <2>1, <2>2 DEF Results
      <3>2. ASSUME NEW u, u.log = v.log, u.sent = v.sent, u.newest = v.newest,
                   u.state = Ignored(ep, p), u.taken = v.taken
            PROVE  Both(e, o, u, w, memory, {}, to_v, to_w)
        <4>1. WithState(v, Count(v.state, IgnoreCounters[WhyIgnored(ep, p)]), u)
          BY <3>2 DEF WithState, Ignored
        <4> QED
          BY <4>1, CountKeepsBoth
      <3>3. ResultKeepsBoth(e, o, v, w, memory, to_v, to_w, r, v.newest)
        BY <1>1, <3>1, <3>2, UnprocessedKeepsBoth
      <3> QED
        BY <3>3
    <2>3. CASE Stored(ep, p) /\ ~Completes(ep, p)
      <3>1. r = Unprocessed(CountFragment(AfterStore(ep, p)))
        BY <2>1, <2>3 DEF Results
      <3>2. Storable(SUBSET Messages, v.state, p)
        BY <1>3, <2>3 DEF Storable
      <3>3. ASSUME NEW u, u.log = v.log, u.sent = v.sent, u.newest = Later(v.newest, i),
                   u.state = CountFragment(AfterStore(ep, p)), u.taken = v.taken
            PROVE  Both(e, o, u, w, memory, {}, to_v, to_w)
        <4> DEFINE keeper == [log |-> v.log, sent |-> v.sent, newest |-> Later(v.newest, i),
                              state |-> AfterStore(ep, p), taken |-> v.taken]
        <4>1. AfterPart(v, i, p, keeper)
          BY DEF AfterPart
        <4>2. WithState(keeper, Count(keeper.state, {"fragments_received"}), u)
          BY <3>3 DEF WithState, CountFragment
        <4> HIDE DEF keeper
        <4>3. Both(e, o, keeper, w, memory, {}, to_v, to_w)
          BY <1>3, <3>2, <4>1, StoreKeepsBoth
        <4> QED
          BY <4>2, <4>3, CountKeepsBoth
      <3>4. ResultKeepsBoth(e, o, v, w, memory, to_v, to_w, r, Later(v.newest, i))
        BY <1>1, <3>1, <3>3, UnprocessedKeepsBoth
      <3> QED
        BY <3>4
    <2>4. CASE Stored(ep, p) /\ Completes(ep, p)
      <3>1. r \in CompletionResults(ep, p, replies)
        BY <2>1, <2>4 DEF Results
      <3>2. Storable(SUBSET Messages, v.state, p)
        BY <1>3, <2>4 DEF Storable
      <3>3. ASSUME NEW caller, NEW other, NEW packets,
                   AfterResult(e, o, v, w, r, Later(v.newest, i), caller, other, packets)
            PROVE  Both(e, o, caller, other, memory, {}, to_v, to_w \cup packets)
        BY <1>3, <2>4, <3>1, <3>2, <3>3, CompletionKeepsBoth
      <3> QED
        BY <1>1, <3>3 DEF ResultKeepsBoth
    <2> QED
      BY <2>2, <2>3, <2>4
  <1> QED
    BY <1>2, <1>3 DEF PacketOf

-----------------------------------------------------------------------------
(* The inductive invariant                                                 *)

\* Peer e as an end, from what the variables say of it and two histories: the logs, and
\* where the windows end.
PeerAsEnd(log, newest, sent, states, taken, e) ==
  [log |-> log[e], sent |-> sent[e], newest |-> newest[e], state |-> states[e],
   taken |-> taken[e]]

\* The invariant of the two ends.
Agree(log, newest, sent, states, taken, ways, memory) ==
  \A e \in Peers :
     Both(e, Other(e), PeerAsEnd(log, newest, sent, states, taken, e),
          PeerAsEnd(log, newest, sent, states, taken, Other(e)), memory, {},
          ways[e], ways[Other(e)])

\* The invariant of the connection: there are histories for which the two ends agree.
IInv ==
  /\ running \in DOMAIN Applications
  /\ endpoint = [e \in Peers |-> endpoint[e]]
  /\ net = [e \in Peers |-> net[e]]
  /\ sends = [e \in Peers |-> sends[e]]
  /\ delivered = [e \in Peers |-> delivered[e]]
  /\ \E log \in [Peers -> Logs], newest \in [Peers -> Nat] :
       Agree(log, newest, sends, endpoint, delivered, net, Application.memory)

\* One of the ends is as good as the other.
LEMMA OneSideAgrees ==
  ASSUME NEW log, NEW newest, NEW sent, NEW states, NEW taken, NEW ways, NEW memory,
         NEW e \in Peers,
         Both(e, Other(e), PeerAsEnd(log, newest, sent, states, taken, e),
              PeerAsEnd(log, newest, sent, states, taken, Other(e)), memory, {},
              ways[e], ways[Other(e)])
  PROVE  Agree(log, newest, sent, states, taken, ways, memory)
  <1> DEFINE o == Other(e)
             v == PeerAsEnd(log, newest, sent, states, taken, e)
             w == PeerAsEnd(log, newest, sent, states, taken, o)
  <1>1. Both(e, o, v, w, memory, {}, ways[e], ways[o])
    OBVIOUS
  <1>2. o \in Peers /\ Other(o) = e /\ \A p \in Peers : p = e \/ p = o
    BY OtherPeer
  <1> HIDE DEF v, w, o
  <1>3. Both(o, e, w, v, memory, {}, ways[o], ways[e])
    BY <1>1 DEF Both
  <1>4. Both(o, Other(o), PeerAsEnd(log, newest, sent, states, taken, o),
             PeerAsEnd(log, newest, sent, states, taken, Other(o)), memory, {},
             ways[o], ways[Other(o)])
    BY <1>2, <1>3 DEF v, w
  <1> QED
    BY <1>2, <1>4 DEF Agree

\* What is known of the application that runs.
LEMMA ApplicationNumbers ==
  ASSUME running \in DOMAIN Applications
  PROVE  /\ Application.memory \in Nat /\ Application.memory >= SentSize
         /\ Application.replies \in SUBSET Nat
         /\ \A e \in Peers : Application.sizes[e] \subseteq Nat
  <1>1. Application \in ApplicationRecords /\ Application.memory >= SentSize
    BY ConnectionAssumption DEF Application
  <1>2. 0 .. MaxPacketSize \subseteq Nat /\ 1 .. MaxPacketSize \subseteq Nat
    BY ConfigAssumption
  <1> QED
    BY <1>1, <1>2 DEF ApplicationRecords

-----------------------------------------------------------------------------
(* Nothing sent yet                                                        *)

\* An endpoint whose windows hold nothing.
Blank(P, ep) ==
  /\ WellFormed(P, ep) /\ AllWindowed(ep)
  /\ ep.sent_packets.sequence = 0 /\ ep.received_packets.sequence = 0
  /\ Present(ep.sent_packets) = {} /\ Present(ep.received_packets) = {}
  /\ Present(ep.fragment_reassembly) = {}

\* So is a new one.
LEMMA NewIsBlank ==
  ASSUME NEW P
  PROVE  Blank(P, NewEndpoint)
  <1>1. WellFormed(P, NewEndpoint) /\ AllWindowed(NewEndpoint)
    BY CreatedWellFormed
  <1>2. ASSUME NEW n, NEW d
        PROVE  Present(CreateBuffer(n, d)) = {}
    BY DEF CreateBuffer, Present, Occupied, Slots
  <1>3. /\ NewEndpoint.sent_packets = CreateBuffer(SentSize, FALSE)
        /\ NewEndpoint.received_packets = CreateBuffer(ReceivedSize, NULL)
        /\ NewEndpoint.fragment_reassembly = CreateBuffer(ReassemblySize, NULL)
    BY DEF NewEndpoint
  <1>4. \A n, d : CreateBuffer(n, d).sequence = 0
    BY DEF CreateBuffer
  <1> QED
    BY <1>1, <1>2, <1>3, <1>4 DEF Blank

\* And one after a reset.
LEMMA ResetIsBlank ==
  ASSUME NEW P, NEW ep, WellFormed(P, ep)
  PROVE  Blank(P, AfterReset(ep))
  <1>1. WellFormed(P, AfterReset(ep)) /\ AllWindowed(AfterReset(ep))
    BY ResetWellFormed
  <1> DEFINE b == ep.fragment_reassembly
             c == Cleanup(b, {i \in Slots(b) : Occupied(b, i)})
             D == {NULL} \cup Reassemblies(P)
  <1>2. /\ AfterReset(ep).sent_packets = ResetBuffer(ep.sent_packets)
        /\ AfterReset(ep).received_packets = ResetBuffer(ep.received_packets)
        /\ AfterReset(ep).fragment_reassembly = ResetBuffer(c)
    BY DEF AfterReset, WellFormed, Endpoints
  <1>3. ASSUME NEW n \in Nat \ {0}, NEW data, NEW a \in Buffer(n, data)
        PROVE  Present(ResetBuffer(a)) = {} /\ ResetBuffer(a).sequence = 0
    BY DEF ResetBuffer, Present, Occupied, Slots, Buffer
  <1>4. /\ ep.sent_packets \in Buffer(SentSize, BOOLEAN)
        /\ ep.received_packets \in Buffer(ReceivedSize, {NULL})
        /\ b \in Buffer(ReassemblySize, D) /\ NULL \in D
    BY DEF WellFormed, Endpoints
  <1>5. c \in Buffer(ReassemblySize, D)
    <2> HIDE DEF b, D
    <2> QED
      BY <1>4, ConfigNumbers, CleanupType
  <1> HIDE DEF c
  <1> QED
    BY <1>1, <1>2, <1>3, <1>4, <1>5, ConfigNumbers DEF Blank

\* An end that has sent and taken nothing.
Untouched(v) ==
  /\ v.log \in Logs /\ v.sent = 0 /\ v.newest = 0 /\ v.taken = << >>
  /\ Blank(SUBSET Messages, v.state)

\* Two such ends agree.
LEMMA BlankBoth ==
  ASSUME NEW e, NEW o, NEW v, NEW w, Untouched(v), Untouched(w), NEW memory
  PROVE  Both(e, o, v, w, memory, {}, {}, {})
  <1>1. U16(0) = 0 /\ 0 \in Nat /\ 0 <= MaxLead
    BY CircleNumbers, U16Value, ConnectionNumbers
  <1>2. DOMAIN << >> = {} /\ << >> \in [{} -> {1}]
    OBVIOUS
  <1>3. ASSUME NEW u, Untouched(u)
        PROVE  /\ ProperEnd(u)
               /\ Ids(u.state.sent_packets, 0) = {}
               /\ Ids(u.state.received_packets, 0) = {}
               /\ Ids(u.state.fragment_reassembly, 0) = {}
    BY <1>1, <1>2, <1>3 DEF Untouched, Blank, ProperEnd, Ids
  <1>4. ASSUME NEW u, NEW t, Untouched(u), Untouched(t)
        PROVE  Receives(u, t, memory, {})
    <2>1. Hears(0, 0) /\ Claims(u.log, 0, t.log, 0, memory, << >>)
      BY <1>1 DEF Hears, Claims
    <2>2. TakenOnce(t.log, 0, u.state.received_packets, << >>)
      BY <1>2 DEF TakenOnce
    <2>3. HeldKnown(t.log, 0, memory, 0, u.state.received_packets, << >>)
      BY <1>3, <1>4 DEF HeldKnown
    <2>4. /\ Collecting(t.log, 0, u.state.fragment_reassembly)
          /\ Fresh(t.log, 0, u.state.fragment_reassembly, << >>, {})
      BY <1>3, <1>4 DEF Collecting, Fresh
    <2>5. AckedTaken(t.log, 0, t.state.sent_packets, << >>)
      BY <1>3, <1>4 DEF AckedTaken
    <2> QED
      BY <1>4, <2>1, <2>2, <2>3, <2>4, <2>5 DEF Untouched, Receives
  <1> QED
    BY <1>3, <1>4 DEF Both, OnTheWay

-----------------------------------------------------------------------------
(* The steps                                                               *)

\* The invariant holds after a step if the two ends then agree on some histories.
LEMMA AgreeNext ==
  ASSUME running' \in DOMAIN Applications,
         endpoint' = [p \in Peers |-> endpoint'[p]], net' = [p \in Peers |-> net'[p]],
         sends' = [p \in Peers |-> sends'[p]], delivered' = [p \in Peers |-> delivered'[p]],
         NEW log \in [Peers -> Logs], NEW newest \in [Peers -> Nat], NEW e \in Peers,
         NEW v, v = PeerAsEnd(log, newest, sends', endpoint', delivered', e),
         NEW w, w = PeerAsEnd(log, newest, sends', endpoint', delivered', Other(e)),
         NEW memory, memory = Application.memory, running' = running,
         Both(e, Other(e), v, w, memory, {}, net'[e], net'[Other(e)])
  PROVE  IInv'
  <1>1. Application'.memory = memory
    BY DEF Application
  <1>2. Agree(log, newest, sends', endpoint', delivered', net', memory)
    BY OneSideAgrees
  <1> QED
    BY <1>1, <1>2 DEF IInv

\* What a peer has sent of its messages, the other end has seen but for MaxLead.
LEMMA SendHasRoom ==
  ASSUME NEW log, NEW newest,
         Agree(log, newest, sends, endpoint, delivered, net, Application.memory),
         NEW e \in Peers, MaySend(e)
  PROVE  Room(e, PeerAsEnd(log, newest, sends, endpoint, delivered, e),
              PeerAsEnd(log, newest, sends, endpoint, delivered, Other(e)),
              net[e] \cup net[Other(e)])
  <1> DEFINE v == PeerAsEnd(log, newest, sends, endpoint, delivered, e)
             w == PeerAsEnd(log, newest, sends, endpoint, delivered, Other(e))
  <1>1. /\ v.sent = sends[e] /\ w.newest = newest[Other(e)]
        /\ w.state = endpoint[Other(e)]
    BY DEF PeerAsEnd
  <1>2. Both(e, Other(e), v, w, Application.memory, {}, net[e], net[Other(e)])
    BY DEF Agree
  <1> HIDE DEF v, w
  <1>3. /\ v.sent \in Nat /\ w.newest \in Nat /\ Hears(w.newest, v.sent)
        /\ w.state.received_packets.sequence = U16(w.newest)
    BY <1>2 DEF Both, ProperEnd, Receives
  <1>4. v.sent - w.newest >= 0 /\ v.sent - w.newest < SeqMod
    <2>1. AckWidth >= 1 /\ SeqMod \in Nat /\ MaxLead < SeqMod
      BY ConnectionNumbers, ConfigNumbers, CircleNumbers
    <2> QED
      BY <1>3, <2>1, ConnectionNumbers DEF Hears
  <1>5. Distance(v.sent, U16(w.newest)) = v.sent - w.newest
    BY <1>3, <1>4, IdDistance
  <1>6. v.sent - w.newest < MaxLead
    <2>1. sends[e] - Seen(e) < MaxLead
      BY DEF MaySend
    <2>2. Seen(e) = v.sent - (v.sent - w.newest)
      BY <1>1, <1>3, <1>5 DEF Seen
    <2> QED
      BY <1>1, <1>3, <2>1, <2>2
  <1>7. \A x \in net[e] \cup net[Other(e)] : v.sent - x.born[e] < MaxLife
    BY <1>1, OtherPeer DEF MaySend
  <1> QED
    BY <1>6, <1>7 DEF Room, v, w

\* What a send transmits is what it may.
LEMMA OutgoingMay ==
  ASSUME NEW e \in Peers, NEW ep, NEW bytes, NEW packets, packets \subseteq Outgoing(e, ep, bytes)
  PROVE  MayTransmit(e, Other(e), ep, sends[e], sends[Other(e)], bytes, packets)
  <1>1. SUFFICES ASSUME NEW x \in packets
                 PROVE  /\ x.born[e] = sends[e] /\ x.born[Other(e)] = sends[Other(e)]
                        /\ x.packet \in Transmitted(ep, bytes, {[id |-> sends[e], bytes |-> bytes]},
                                                    MaxHeader)
    BY DEF MayTransmit
  <1>2. PICK p \in Transmitted(ep, bytes, {Message(e, bytes)}, MaxHeader) :
          x = [packet |-> p, born |-> sends]
    BY <1>1 DEF Outgoing
  <1> QED
    BY <1>2 DEF Message

\* Initially.
LEMMA InitAgrees ==
  ASSUME Init
  PROVE  IInv
  <1> DEFINE entry == [bytes |-> 0, heard |-> 0, ack |-> 0, ack_bits |-> {}]
             log == [e \in Peers |-> [i \in Nat |-> entry]]
             newest == [e \in Peers |-> 0]
  <1>1. log \in [Peers -> Logs] /\ newest \in [Peers -> Nat]
    BY CircleNumbers DEF Logs, LogEntries
  <1>2. ASSUME NEW e \in Peers
        PROVE  Untouched(PeerAsEnd(log, newest, sends, endpoint, delivered, e))
    BY <1>1, <1>2, NewIsBlank DEF Untouched, PeerAsEnd, Init
  <1>3. PICK e \in Peers : TRUE
    BY ConnectionAssumption
  <1>4. net[e] = {} /\ net[Other(e)] = {} /\ Other(e) \in Peers
    BY OtherPeer DEF Init
  <1>5. Agree(log, newest, sends, endpoint, delivered, net, Application.memory)
    <2> HIDE DEF log, newest
    <2> QED
      BY <1>2, <1>4, BlankBoth, OneSideAgrees
  <1> HIDE DEF log, newest
  <1> QED
    BY <1>1, <1>5 DEF IInv, Init

\* A message is sent.
LEMMA SendAgrees ==
  ASSUME SizesFit, IInv, UNCHANGED running, NEW e \in Peers, NEW bytes \in Nat,
         Send(e, bytes)
  PROVE  IInv'
  <1> DEFINE o == Other(e)
  <1>1. PICK log \in [Peers -> Logs], newest \in [Peers -> Nat] :
          Agree(log, newest, sends, endpoint, delivered, net, Application.memory)
    BY DEF IInv
  <1>2. o \in Peers /\ o # e /\ \A p \in Peers : p = e \/ p = o
    BY OtherPeer
  <1>3. PICK kept \in SUBSET Outgoing(e, endpoint[e], bytes) :
          net' = [net EXCEPT ![o] = @ \cup kept]
    BY DEF Send, Transmits
  <1> DEFINE v == PeerAsEnd(log, newest, sends, endpoint, delivered, e)
             w == PeerAsEnd(log, newest, sends, endpoint, delivered, o)
             entry == LogEntry(bytes, sends[o], endpoint[e].received_packets)
             more == [log EXCEPT ![e] = [log[e] EXCEPT ![sends[e]] = entry]]
             u == PeerAsEnd(more, newest, sends', endpoint', delivered', e)
             t == PeerAsEnd(more, newest, sends', endpoint', delivered', o)
             memory == Application.memory
  <1>4. /\ Both(e, o, v, w, memory, {}, net[e], net[o])
        /\ Room(e, v, w, net[e] \cup net[o])
    BY <1>1, SendHasRoom DEF Agree, Send
  <1>5. memory \in Nat /\ memory >= SentSize
    BY ApplicationNumbers DEF IInv
  <1>6. /\ v.log = log[e] /\ v.sent = sends[e] /\ v.newest = newest[e]
        /\ v.state = endpoint[e] /\ v.taken = delivered[e]
        /\ w.log = log[o] /\ w.sent = sends[o] /\ w.newest = newest[o]
        /\ w.state = endpoint[o] /\ w.taken = delivered[o]
    BY DEF PeerAsEnd
  <1>7. /\ u.log = more[e] /\ u.sent = sends'[e] /\ u.newest = newest[e]
        /\ u.state = endpoint'[e] /\ u.taken = delivered'[e]
        /\ t.log = more[o] /\ t.sent = sends'[o] /\ t.newest = newest[o]
        /\ t.state = endpoint'[o] /\ t.taken = delivered'[o]
    BY DEF PeerAsEnd
  <1>8. /\ endpoint'[e] = Sent(endpoint[e], bytes) /\ endpoint'[o] = endpoint[o]
        /\ sends'[e] = sends[e] + 1 /\ sends'[o] = sends[o]
        /\ delivered'[e] = delivered[e] /\ delivered'[o] = Remembered(delivered[o], sends[e] + 1)
        /\ net'[e] = net[e] /\ net'[o] = net[o] \cup kept
        /\ endpoint' = [p \in Peers |-> endpoint'[p]] /\ net' = [p \in Peers |-> net'[p]]
        /\ sends' = [p \in Peers |-> sends'[p]] /\ delivered' = [p \in Peers |-> delivered'[p]]
    <2> HIDE DEF o
    <2>1. sends' = [sends EXCEPT ![e] = @ + 1] /\ sends'[e] = sends[e] + 1
      BY DEF IInv, Send
    <2>2. delivered' = [delivered EXCEPT ![o] = Remembered(@, sends[e] + 1)]
      BY <2>1 DEF Send, o
    <2>3. endpoint' = [endpoint EXCEPT ![e] = Sent(@, bytes)]
      BY DEF Send
    <2> QED
      BY <1>2, <1>3, <2>1, <2>2, <2>3 DEF IInv
  <1>9. more \in [Peers -> Logs] /\ more[e] = [log[e] EXCEPT ![sends[e]] = entry]
        /\ more[o] = log[o]
    <2>1. LogEntry(bytes, sends[o], endpoint[e].received_packets) \in LogEntries
      <3>1. sends[o] \in Nat /\ endpoint[e].received_packets.sequence \in Seqs
        BY <1>4, <1>6 DEF Both, ProperEnd, WellFormed, Endpoints, Buffer
      <3> QED
        BY <3>1, LogEntryType
    <2>2. sends[e] \in Nat
      BY <1>4, <1>6 DEF Both, ProperEnd
    <2>3. [log[e] EXCEPT ![sends[e]] = entry] \in Logs
      <3> HIDE DEF entry
      <3> QED
        BY <2>1, <2>2, LoggedType DEF Logged, entry
    <2> HIDE DEF entry, o
    <2> QED
      BY <1>2, <2>3
  <1> HIDE DEF more, u, t, v, w, memory
  <1>10. AfterSend(v, w, bytes, u, t)
    BY <1>6, <1>7, <1>8, <1>9 DEF AfterSend
  <1>11. MayTransmit(e, o, v.state, v.sent, w.sent, bytes, kept)
    BY <1>3, <1>6, OutgoingMay
  <1>12. Both(e, o, u, t, memory, {}, net'[e], net'[o])
    <2>1. memory = Application.memory
      BY DEF memory
    <2>2. Both(e, o, u, t, memory, {}, net[e], net[o] \cup kept)
      <3>1. /\ v.sent - w.newest < MaxLead
            /\ \A x \in net[e] \cup net[o] : v.sent - x.born[e] < MaxLife
        BY <1>4 DEF Room
      <3> HIDE DEF o
      <3> QED
        BY <1>4, <1>5, <1>10, <1>11, <2>1, <3>1, SendKeepsBoth
    <2> QED
      BY <1>8, <2>2
  <1>13. running' \in DOMAIN Applications /\ running' = running
    BY DEF IInv
  <1>14. u = PeerAsEnd(more, newest, sends', endpoint', delivered', e)
         /\ t = PeerAsEnd(more, newest, sends', endpoint', delivered', Other(e))
         /\ memory = Application.memory
    BY DEF u, t, memory
  <1> QED
    BY <1>8, <1>9, <1>12, <1>13, <1>14, AgreeNext

\* A packet arrives.
LEMMA ReceiveAgrees ==
  ASSUME SizesFit, IInv, UNCHANGED running, NEW e \in Peers, NEW x \in net[e],
         Receive(e, x)
  PROVE  IInv'
  <1> DEFINE o == Other(e)
  <1>1. PICK log \in [Peers -> Logs], newest \in [Peers -> Nat] :
          Agree(log, newest, sends, endpoint, delivered, net, Application.memory)
    BY DEF IInv
  <1>2. o \in Peers /\ o # e /\ \A p \in Peers : p = e \/ p = o
    BY OtherPeer
  <1>3. PICK r \in Results(endpoint[e], x.packet, Application.replies) :
          /\ r.reply # 0 => MaySend(e)
          /\ endpoint' = [endpoint EXCEPT ![e] = r.endpoint]
          /\ LET heard == Delivered(delivered[e], r.taken)
             IN  IF r.reply = 0
                   THEN /\ delivered' = [delivered EXCEPT ![e] = heard]
                        /\ UNCHANGED <<sends, net>>
                   ELSE /\ sends' = [sends EXCEPT ![e] = @ + 1]
                        /\ delivered' = [p \in Peers |->
                             IF p = e THEN heard ELSE Remembered(delivered[p], sends'[e])]
                        /\ Transmits(e, Outgoing(e, r.during, r.reply))
    BY DEF Receive
  <1>4. PICK packets :
          /\ IF r.reply = 0 THEN packets = {} ELSE packets \subseteq Outgoing(e, r.during, r.reply)
          /\ net' = [net EXCEPT ![o] = @ \cup packets]
    <2>1. CASE r.reply = 0
      <3>1. net' = [net EXCEPT ![o] = @ \cup {}]
        BY <1>3, <2>1 DEF IInv
      <3> QED
        BY <2>1, <3>1
    <2>2. CASE r.reply # 0
      BY <1>3, <2>2 DEF Transmits
    <2> QED
      BY <2>1, <2>2
  <1> DEFINE v == PeerAsEnd(log, newest, sends, endpoint, delivered, e)
             w == PeerAsEnd(log, newest, sends, endpoint, delivered, o)
             i == x.born[o]
             memory == Application.memory
  <1>5. Both(e, o, v, w, memory, {}, net[e], net[o])
    BY <1>1 DEF Agree
  <1>6. /\ memory = Application.memory /\ memory \in Nat /\ memory >= SentSize
        /\ Application.replies \in SUBSET Nat
    BY ApplicationNumbers DEF IInv
  <1>7. /\ v.log = log[e] /\ v.sent = sends[e] /\ v.newest = newest[e]
        /\ v.state = endpoint[e] /\ v.taken = delivered[e]
        /\ w.log = log[o] /\ w.sent = sends[o] /\ w.newest = newest[o]
        /\ w.state = endpoint[o] /\ w.taken = delivered[o]
    BY DEF PeerAsEnd
  <1>8. r.reply # 0 => Room(e, v, w, net[e] \cup net[o])
    BY <1>1, <1>3, SendHasRoom
  <1> HIDE DEF v, w, memory, o
  <1>9. /\ Arrives(v, w, i) /\ v.sent - w.log[i].heard <= MaxLife
        /\ PacketOf(w.log, i, x.packet) /\ x.born[e] = w.log[i].heard
    BY <1>5 DEF Both, OnTheWay, Arrives
  <1>10. r.reply # 0 => v.sent - w.log[i].heard < MaxLife
    BY <1>8, <1>9 DEF Room
  <1>11. PICK n : ResultKeepsBoth(e, o, v, w, memory, net[e], net[o], r, n)
    <2>1. r \in Results(v.state, x.packet, Application.replies)
      BY <1>7
    <2> HIDE DEF i
    <2> QED
      BY <1>5, <1>6, <1>8, <1>9, <1>10, <2>1, ReceiveKeepsBoth
  <1> DEFINE entry == LogEntry(r.reply, sends[o], r.during.received_packets)
             more == IF r.reply = 0 THEN log
                     ELSE [log EXCEPT ![e] = [log[e] EXCEPT ![sends[e]] = entry]]
             later == [newest EXCEPT ![e] = n]
             u == PeerAsEnd(more, later, sends', endpoint', delivered', e)
             t == PeerAsEnd(more, later, sends', endpoint', delivered', o)
  <1>12. /\ u.log = more[e] /\ u.sent = sends'[e] /\ u.newest = later[e]
         /\ u.state = endpoint'[e] /\ u.taken = delivered'[e]
         /\ t.log = more[o] /\ t.sent = sends'[o] /\ t.newest = later[o]
         /\ t.state = endpoint'[o] /\ t.taken = delivered'[o]
    BY DEF PeerAsEnd
  <1>13. /\ endpoint'[e] = r.endpoint /\ endpoint'[o] = endpoint[o]
         /\ net'[e] = net[e] /\ net'[o] = net[o] \cup packets
         /\ endpoint' = [p \in Peers |-> endpoint'[p]] /\ net' = [p \in Peers |-> net'[p]]
    BY <1>2, <1>3, <1>4 DEF IInv
  <1>14. /\ delivered'[e] = Delivered(delivered[e], r.taken) /\ sends'[o] = sends[o]
         /\ sends'[e] = IF r.reply = 0 THEN sends[e] ELSE sends[e] + 1
         /\ delivered'[o] = IF r.reply = 0 THEN delivered[o]
                                           ELSE Remembered(delivered[o], sends[e] + 1)
         /\ sends' = [p \in Peers |-> sends'[p]]
         /\ delivered' = [p \in Peers |-> delivered'[p]]
    <2>1. CASE r.reply = 0
      BY <1>2, <1>3, <2>1 DEF IInv
    <2>2. CASE r.reply # 0
      <3>1. sends' = [sends EXCEPT ![e] = @ + 1] /\ sends'[e] = sends[e] + 1
        BY <1>3, <2>2 DEF IInv
      <3> QED
        BY <1>2, <1>3, <2>2, <3>1 DEF IInv
    <2> QED
      BY <2>1, <2>2
  <1>15. /\ more[e] = IF r.reply = 0 THEN log[e] ELSE [log[e] EXCEPT ![sends[e]] = entry]
         /\ more[o] = log[o] /\ more = [p \in Peers |-> more[p]]
    <2> HIDE DEF entry
    <2> QED
      BY <1>2
  <1>16. later[e] = n /\ later[o] = newest[o] /\ later \in [Peers -> Nat]
    BY <1>2, <1>11 DEF ResultKeepsBoth
  <1>17. r.reply # 0 => MayTransmit(e, o, r.during, v.sent, w.sent, r.reply, packets)
    BY <1>4, <1>7, OutgoingMay DEF o
  <1> HIDE DEF more, later, u, t
  <1>18. AfterResult(e, o, v, w, r, n, u, t, packets)
    BY <1>4, <1>7, <1>12, <1>13, <1>14, <1>15, <1>16, <1>17 DEF AfterResult
  <1>19. Both(e, o, u, t, memory, {}, net'[e], net'[o])
    BY <1>11, <1>13, <1>18 DEF ResultKeepsBoth
  <1>20. more \in [Peers -> Logs]
    <2>1. more[e] \in Logs
      BY <1>12, <1>19 DEF Both, ProperEnd
    <2> QED
      BY <1>2, <1>15, <2>1
  <1>21. running' \in DOMAIN Applications /\ running' = running
    BY DEF IInv
  <1>22. u = PeerAsEnd(more, later, sends', endpoint', delivered', e)
         /\ t = PeerAsEnd(more, later, sends', endpoint', delivered', Other(e))
         /\ memory = Application.memory
    BY DEF u, t, memory, o
  <1>23. Both(e, Other(e), u, t, memory, {}, net'[e], net'[Other(e)])
    BY <1>19 DEF o
  <1> QED
    BY <1>13, <1>14, <1>16, <1>20, <1>21, <1>22, <1>23, AgreeNext

\* A packet is lost.
LEMMA LoseAgrees ==
  ASSUME IInv, UNCHANGED running, NEW e \in Peers, NEW x \in net[e], Lose(e, x)
  PROVE  IInv'
  <1>1. PICK log \in [Peers -> Logs], newest \in [Peers -> Nat] :
          Agree(log, newest, sends, endpoint, delivered, net, Application.memory)
    BY DEF IInv
  <1>2. /\ Other(e) \in Peers /\ Other(e) # e
        /\ net'[e] \subseteq net[e] /\ net'[Other(e)] = net[Other(e)]
        /\ net' = [p \in Peers |-> net'[p]]
    BY OtherPeer DEF Lose, IInv
  <1> DEFINE v == PeerAsEnd(log, newest, sends', endpoint', delivered', e)
             w == PeerAsEnd(log, newest, sends', endpoint', delivered', Other(e))
             memory == Application.memory
  <1>3. Both(e, Other(e), v, w, memory, {}, net[e], net[Other(e)])
    BY <1>1 DEF Agree, Lose
  <1>4. running' \in DOMAIN Applications /\ running' = running
    BY DEF IInv
  <1>5. /\ v = PeerAsEnd(log, newest, sends', endpoint', delivered', e)
        /\ w = PeerAsEnd(log, newest, sends', endpoint', delivered', Other(e))
        /\ memory = Application.memory
    OBVIOUS
  <1> HIDE DEF v, w, memory
  <1>6. Both(e, Other(e), v, w, memory, {}, net'[e], net'[Other(e)])
    BY <1>2, <1>3 DEF Both, OnTheWay
  <1>7. /\ endpoint' = [p \in Peers |-> endpoint'[p]]
        /\ sends' = [p \in Peers |-> sends'[p]] /\ delivered' = [p \in Peers |-> delivered'[p]]
    BY DEF IInv, Lose
  <1> QED
    BY <1>1, <1>2, <1>4, <1>5, <1>6, <1>7, AgreeNext

\* An application clears its acks.
LEMMA ClearAgrees ==
  ASSUME IInv, UNCHANGED running, NEW e \in Peers, ClearAcks(e)
  PROVE  IInv'
  <1>1. PICK log \in [Peers -> Logs], newest \in [Peers -> Nat] :
          Agree(log, newest, sends, endpoint, delivered, net, Application.memory)
    BY DEF IInv
  <1>2. /\ Other(e) \in Peers /\ Other(e) # e
        /\ endpoint'[e] = AcksCleared(endpoint[e])
        /\ endpoint'[Other(e)] = endpoint[Other(e)]
        /\ endpoint' = [p \in Peers |-> endpoint'[p]]
        /\ net' = net /\ sends' = sends /\ delivered' = delivered
    BY OtherPeer DEF ClearAcks, IInv
  <1> DEFINE v == PeerAsEnd(log, newest, sends, endpoint, delivered, e)
             w == PeerAsEnd(log, newest, sends, endpoint, delivered, Other(e))
             u == PeerAsEnd(log, newest, sends', endpoint', delivered', e)
             t == PeerAsEnd(log, newest, sends', endpoint', delivered', Other(e))
             memory == Application.memory
  <1>3. Both(e, Other(e), v, w, memory, {}, net[e], net[Other(e)])
    BY <1>1 DEF Agree
  <1>4. running' \in DOMAIN Applications /\ running' = running
    BY DEF IInv
  <1>5. /\ u = PeerAsEnd(log, newest, sends', endpoint', delivered', e)
        /\ t = PeerAsEnd(log, newest, sends', endpoint', delivered', Other(e))
        /\ memory = Application.memory
    OBVIOUS
  <1>6. WithState(v, AcksCleared(v.state), u) /\ t = w
    BY <1>2 DEF WithState, PeerAsEnd
  <1> HIDE DEF v, w, u, t, memory
  <1>7. /\ WellFormed(SUBSET Messages, v.state) /\ AllWindowed(v.state)
        /\ v.state \in Endpoints(SUBSET Messages)
    BY <1>3 DEF Both, ProperEnd, WellFormed
  <1>8. AcksCleared(v.state).received_packets = v.state.received_packets
    BY <1>7 DEF AcksCleared, Endpoints
  <1>9. Both(e, Other(e), u, w, memory, {}, net[e], net[Other(e)])
    BY <1>3, <1>6, <1>7, <1>8, ClearedWellFormed, SameKeepsBoth
  <1>10. Both(e, Other(e), u, t, memory, {}, net'[e], net'[Other(e)])
    BY <1>2, <1>6, <1>9
  <1>11. /\ net' = [p \in Peers |-> net'[p]]
         /\ sends' = [p \in Peers |-> sends'[p]] /\ delivered' = [p \in Peers |-> delivered'[p]]
    BY <1>2 DEF IInv
  <1> QED
    BY <1>1, <1>2, <1>4, <1>5, <1>10, <1>11, AgreeNext

\* Both ends are reset.
LEMMA ResetAgrees ==
  ASSUME IInv, UNCHANGED running, ResetBoth
  PROVE  IInv'
  <1>1. PICK log \in [Peers -> Logs], newest \in [Peers -> Nat] :
          Agree(log, newest, sends, endpoint, delivered, net, Application.memory)
    BY DEF IInv
  <1>2. PICK e \in Peers : TRUE
    BY ConnectionAssumption
  <1> DEFINE zero == [p \in Peers |-> 0]
             v == PeerAsEnd(log, zero, sends', endpoint', delivered', e)
             w == PeerAsEnd(log, zero, sends', endpoint', delivered', Other(e))
             memory == Application.memory
  <1>3. ASSUME NEW p \in Peers
        PROVE  /\ sends'[p] = 0 /\ delivered'[p] = << >>
               /\ endpoint'[p] = AfterReset(endpoint[p])
               /\ net'[p] = {}
    BY DEF ResetBoth
  <1>4. ASSUME NEW p \in Peers
        PROVE  Untouched(PeerAsEnd(log, zero, sends', endpoint', delivered', p))
    <2> DEFINE x == PeerAsEnd(log, zero, sends', endpoint', delivered', p)
               y == PeerAsEnd(log, newest, sends, endpoint, delivered, p)
    <2>1. /\ x.log = log[p] /\ x.sent = sends'[p] /\ x.newest = 0
          /\ x.state = endpoint'[p] /\ x.taken = delivered'[p]
          /\ y.state = endpoint[p]
      BY <1>4 DEF PeerAsEnd
    <2>2. ProperEnd(y)
      BY <1>1, <1>4 DEF Agree, Both
    <2> HIDE DEF x, y
    <2>3. Blank(SUBSET Messages, AfterReset(endpoint[p]))
      BY <2>1, <2>2, ResetIsBlank DEF ProperEnd
    <2>4. log[p] \in Logs
      BY <1>1, <1>4
    <2>5. Untouched(x)
      BY <1>3, <1>4, <2>1, <2>3, <2>4 DEF Untouched
    <2> QED
      BY <2>5 DEF x
  <1>5. Other(e) \in Peers
    BY <1>2, OtherPeer
  <1>6. /\ v = PeerAsEnd(log, zero, sends', endpoint', delivered', e)
        /\ w = PeerAsEnd(log, zero, sends', endpoint', delivered', Other(e))
        /\ memory = Application.memory
    OBVIOUS
  <1>7. Untouched(v) /\ Untouched(w)
    BY <1>2, <1>4, <1>5
  <1>8. zero \in [Peers -> Nat]
    OBVIOUS
  <1> HIDE DEF v, w, zero, memory
  <1>9. Both(e, Other(e), v, w, memory, {}, {}, {})
    BY <1>7, BlankBoth
  <1>10. Both(e, Other(e), v, w, memory, {}, net'[e], net'[Other(e)])
    BY <1>2, <1>3, <1>5, <1>9
  <1>11. running' \in DOMAIN Applications /\ running' = running
    BY DEF IInv
  <1>12. /\ endpoint' = [p \in Peers |-> endpoint'[p]] /\ net' = [p \in Peers |-> net'[p]]
         /\ sends' = [p \in Peers |-> sends'[p]] /\ delivered' = [p \in Peers |-> delivered'[p]]
    BY DEF IInv, ResetBoth
  <1> QED
    BY <1>1, <1>2, <1>6, <1>8, <1>10, <1>11, <1>12, AgreeNext

\* Every step keeps the invariant.
LEMMA NextAgrees ==
  ASSUME SizesFit, IInv, Next
  PROVE  IInv'
  <1> UNCHANGED running
    BY DEF Next
  <1>1. ASSUME NEW e \in Peers, NEW bytes \in Application.sizes[e], Send(e, bytes)
        PROVE  IInv'
    <2>1. bytes \in Nat
      BY <1>1, ApplicationNumbers DEF IInv
    <2> QED
      BY <1>1, <2>1, SendAgrees
  <1>2. ASSUME NEW e \in Peers, NEW x \in net[e], Receive(e, x)
        PROVE  IInv'
    BY <1>2, ReceiveAgrees
  <1>3. ASSUME NEW e \in Peers, NEW x \in net[e], Lose(e, x)
        PROVE  IInv'
    BY <1>3, LoseAgrees
  <1>4. ASSUME NEW e \in Peers, ClearAcks(e)
        PROVE  IInv'
    BY <1>4, ClearAgrees
  <1>5. ASSUME ResetBoth
        PROVE  IInv'
    BY <1>5, ResetAgrees
  <1> QED
    BY <1>1, <1>2, <1>3, <1>4, <1>5 DEF Next

\* The two ends always agree on some histories.
LEMMA ConnectionAgrees ==
  ASSUME SizesFit
  PROVE  Spec => []IInv
  <1>1. Init => IInv
    BY InitAgrees
  <1>2. IInv /\ [Next]_vars => IInv'
    <2>1. ASSUME IInv, UNCHANGED vars
          PROVE  IInv'
      BY <2>1 DEF IInv, Agree, PeerAsEnd, vars, Application
    <2> QED
      BY <2>1, NextAgrees
  <1> QED
    BY <1>1, <1>2, PTL DEF Spec

-----------------------------------------------------------------------------
(* What the invariant says of the variables                                *)

\* What an occupied slot holds, the window holds under an id.
LEMMA OccupiedId ==
  ASSUME NEW n \in Nat \ {0}, NEW D, NEW b \in Buffer(n, D), Windowed(b),
         NEW m \in Int, b.sequence = U16(m), NEW i \in Slots(b), Occupied(b, i)
  PROVE  \E k \in Ids(b, m) : U16(k) = b.entry_sequence[i] /\ Slot(b, U16(k)) = i
  <1>1. b.entry_sequence[i] \in Present(b)
    BY DEF Present
  <1>2. PICK k \in Ids(b, m) : U16(k) = b.entry_sequence[i]
    BY <1>1, HeldId
  <1> QED
    BY <1>2 DEF Windowed

\* The buffers of an end as windows that end at an id.
LEMMA EndWindows ==
  ASSUME NEW v, ProperEnd(v)
  PROVE  /\ v.state.sent_packets \in Buffer(SentSize, BOOLEAN)
         /\ Windowed(v.state.sent_packets)
         /\ v.state.sent_packets.sequence = U16(v.sent)
         /\ v.state.fragment_reassembly
              \in Buffer(ReassemblySize, {NULL} \cup Reassemblies(SUBSET Messages))
         /\ Windowed(v.state.fragment_reassembly)
         /\ v.state.fragment_reassembly.sequence = U16(v.newest)
         /\ v.sent \in Nat /\ v.newest \in Nat
         /\ SentSize \in Nat \ {0} /\ ReassemblySize \in Nat \ {0}
  BY ConfigNumbers DEF ProperEnd, WellFormed, AllWindowed, Endpoints

\* Messages of other numbers have nothing in common.
LEMMA OtherMessages ==
  ASSUME NEW log, NEW i, NEW k, i # k
  PROVE  {MessageOf(log, i)} \cap {MessageOf(log, k)} = {}
  <1>1. MessageOf(log, i).id = i /\ MessageOf(log, k).id = k
    BY DEF MessageOf
  <1> QED
    BY <1>1

\* A peer as an end, and the other one.
LEMMA PeerEnds ==
  ASSUME IInv, NEW e \in Peers
  PROVE  \E v, w : /\ ProperEnd(v) /\ ProperEnd(w) /\ Receives(v, w, Application.memory, {})
                   /\ Receives(w, v, Application.memory, {})
                   /\ v.sent = sends[e] /\ v.state = endpoint[e] /\ v.taken = delivered[e]
                   /\ w.taken = delivered[Other(e)]
  <1>1. PICK log \in [Peers -> Logs], newest \in [Peers -> Nat] :
          Agree(log, newest, sends, endpoint, delivered, net, Application.memory)
    BY DEF IInv
  <1> DEFINE v == PeerAsEnd(log, newest, sends, endpoint, delivered, e)
             w == PeerAsEnd(log, newest, sends, endpoint, delivered, Other(e))
  <1>2. Both(e, Other(e), v, w, Application.memory, {}, net[e], net[Other(e)])
    BY <1>1 DEF Agree
  <1>3. /\ v.sent = sends[e] /\ v.state = endpoint[e] /\ v.taken = delivered[e]
        /\ w.taken = delivered[Other(e)]
    BY DEF PeerAsEnd
  <1> HIDE DEF v, w
  <1> QED
    BY <1>2, <1>3 DEF Both

\* What was taken is what a log holds.
LEMMA TakenAreLogged ==
  ASSUME IInv, NEW e \in Peers
  PROVE  \E log : /\ delivered[e] \in [DOMAIN delivered[e] -> {1}]
                  /\ \A c \in DOMAIN delivered[e] : \E i \in Nat : c = ContentOf(log, i)
  <1>1. PICK v, w : /\ ProperEnd(v) /\ Receives(v, w, Application.memory, {})
                    /\ v.taken = delivered[e]
    BY PeerEnds
  <1>2. v.newest \in Nat /\ delivered[e] \in [DOMAIN delivered[e] -> {1}]
    BY <1>1 DEF ProperEnd
  <1>3. \A c \in DOMAIN delivered[e] : \E i \in 0 .. (v.newest - 1) : c = ContentOf(w.log, i)
    BY <1>1 DEF Receives, TakenOnce
  <1>4. 0 .. (v.newest - 1) \subseteq Nat
    BY <1>2
  <1> QED
    BY <1>2, <1>3, <1>4

\* What is collected are parts of a message that the log holds and that was not taken.
LEMMA CollectedAreLogged ==
  ASSUME IInv, NEW e \in Peers, NEW i \in Slots(endpoint[e].fragment_reassembly),
         Occupied(endpoint[e].fragment_reassembly, i)
  PROVE  \E log, k :
           /\ EntryOf(log, k, endpoint[e].fragment_reassembly.entry_data[i])
           /\ ContentOf(log, k) \notin DOMAIN delivered[e]
           /\ \A c \in DOMAIN delivered[e] : \E j \in Nat : c = ContentOf(log, j)
  <1>1. PICK v, w : /\ ProperEnd(v) /\ Receives(v, w, Application.memory, {})
                    /\ v.state = endpoint[e] /\ v.taken = delivered[e]
    BY PeerEnds
  <1> DEFINE b == v.state.fragment_reassembly
  <1>2. PICK k \in Ids(b, v.newest) : Slot(b, U16(k)) = i
    <2>1. /\ b \in Buffer(ReassemblySize, {NULL} \cup Reassemblies(SUBSET Messages))
          /\ Windowed(b) /\ b.sequence = U16(v.newest)
          /\ v.newest \in Nat /\ ReassemblySize \in Nat \ {0}
      BY <1>1, EndWindows, Zenon
    <2>2. i \in Slots(b) /\ Occupied(b, i)
      BY <1>1
    <2> HIDE DEF b
    <2> QED
      BY <2>1, <2>2, OccupiedId
  <1>3. k \in Nat /\ EntryOf(w.log, k, b.entry_data[i])
    BY <1>1, <1>2 DEF Receives, Collecting
  <1>4. ~Took(w.log, k, v.taken)
    BY <1>1, <1>2 DEF Receives, Fresh
  <1>5. \A c \in DOMAIN delivered[e] : \E j \in 0 .. (v.newest - 1) : c = ContentOf(w.log, j)
    BY <1>1 DEF Receives, TakenOnce
  <1>6. 0 .. (v.newest - 1) \subseteq Nat
    BY <1>1 DEF ProperEnd
  <1>7. ContentOf(w.log, k) \notin DOMAIN delivered[e]
    BY <1>1, <1>3, <1>4 DEF Took
  <1>8. EntryOf(w.log, k, endpoint[e].fragment_reassembly.entry_data[i])
    BY <1>1, <1>3
  <1>9. \A c \in DOMAIN delivered[e] : \E j \in Nat : c = ContentOf(w.log, j)
    BY <1>5, <1>6
  <1> QED
    BY <1>7, <1>8, <1>9

\* What is acked was taken.
LEMMA AckedAreTaken ==
  ASSUME SizesFit, IInv, NEW e \in Peers, NEW i \in Slots(endpoint[e].sent_packets),
         Occupied(endpoint[e].sent_packets, i), endpoint[e].sent_packets.entry_data[i]
  PROVE  \E log : ContentOf(log, IdSent(e, endpoint[e].sent_packets.entry_sequence[i]))
                    \in DOMAIN delivered[Other(e)]
  <1>1. PICK v, w : /\ ProperEnd(v) /\ Receives(w, v, Application.memory, {})
                    /\ v.sent = sends[e] /\ v.state = endpoint[e]
                    /\ w.taken = delivered[Other(e)]
    BY PeerEnds
  <1> DEFINE b == v.state.sent_packets
  <1>2. /\ b \in Buffer(SentSize, BOOLEAN) /\ Windowed(b) /\ b.sequence = U16(v.sent)
        /\ v.sent \in Int /\ SentSize \in Nat \ {0} /\ b.num_entries = SentSize
    BY <1>1, EndWindows DEF Buffer
  <1>3. PICK k \in Ids(b, v.sent) : U16(k) = b.entry_sequence[i] /\ Slot(b, U16(k)) = i
    <2>1. i \in Slots(b) /\ Occupied(b, i)
      BY <1>1
    <2> HIDE DEF b
    <2> QED
      BY <1>2, <2>1, OccupiedId
  <1>4. Acked(b, U16(k))
    BY <1>1, <1>3 DEF Acked
  <1>5. Took(v.log, k, w.taken)
    BY <1>1, <1>3, <1>4 DEF Receives, AckedTaken
  <1>6. k \in Int /\ v.sent - k >= 0 /\ v.sent - k < SeqMod
    <2>1. k \in (v.sent - SentSize) .. (v.sent - 1)
      BY <1>2, <1>3 DEF Ids
    <2> HIDE DEF b
    <2> QED
      BY <1>2, <2>1, SizeNumbers
  <1>7. IdSent(e, b.entry_sequence[i]) = k
    <2>1. Distance(v.sent, U16(k)) = v.sent - k
      BY <1>2, <1>6, IdDistance
    <2>2. IdSent(e, U16(k)) = v.sent - Distance(v.sent, U16(k))
      BY <1>1 DEF IdSent
    <2>3. IdSent(e, U16(k)) = k
      BY <1>2, <1>6, <2>1, <2>2
    <2> QED
      BY <1>3, <2>3
  <1> QED
    BY <1>1, <1>5, <1>7 DEF Took

-----------------------------------------------------------------------------
(* The theorems                                                            *)

\* However packets of either end are lost, repeated, delayed and reordered, and
\* whatever the callbacks answer, no message is taken twice as long as a copy of
\* it may travel: not across the wrap of the sequence, not after its entry left
\* the buffer of received packets, not once whole and once from its fragments.
THEOREM TakenAtMostOnce ==
  ASSUME SizesFit
  PROVE  Spec => []DeliveredOnce
  <1>1. IInv => DeliveredOnce
    <2> SUFFICES ASSUME IInv, NEW e \in Peers, NEW c \in DOMAIN delivered[e]
                 PROVE  /\ delivered[e][c] = 1
                        /\ \A d \in DOMAIN delivered[e] \ {c} : c.payload \cap d.payload = {}
      BY DEF DeliveredOnce
    <2>1. PICK log : /\ delivered[e] \in [DOMAIN delivered[e] -> {1}]
                     /\ \A d \in DOMAIN delivered[e] : \E i \in Nat : d = ContentOf(log, i)
      BY TakenAreLogged
    <2>2. delivered[e][c] = 1
      BY <2>1
    <2>3. ASSUME NEW d \in DOMAIN delivered[e] \ {c}
          PROVE  c.payload \cap d.payload = {}
      <3>1. PICK i \in Nat, k \in Nat : c = ContentOf(log, i) /\ d = ContentOf(log, k)
        BY <2>1
      <3>2. i # k
        BY <2>3, <3>1
      <3>3. c.payload = {MessageOf(log, i)} /\ d.payload = {MessageOf(log, k)}
        BY <3>1 DEF ContentOf
      <3> QED
        BY <3>2, <3>3, OtherMessages
    <2> QED
      BY <2>2, <2>3
  <1> QED
    BY <1>1, ConnectionAgrees, PTL

\* The callback gets messages as they were sent: the fragments of two packets
\* are never put together, and a packet collected from its fragments has the
\* size it was sent with.
THEOREM TakenAsSent ==
  ASSUME SizesFit
  PROVE  Spec => []DeliveredIntact
  <1>1. IInv => DeliveredIntact
    <2> SUFFICES ASSUME IInv, NEW e \in Peers, NEW c \in DOMAIN delivered[e]
                 PROVE  \E m \in c.payload : c.payload = {m} /\ c.bytes = m.bytes
      BY DEF DeliveredIntact
    <2>1. PICK log, i : c = ContentOf(log, i)
      BY TakenAreLogged
    <2>2. /\ c.payload = {MessageOf(log, i)} /\ c.bytes = log[i].bytes
          /\ MessageOf(log, i).bytes = log[i].bytes
      BY <2>1 DEF ContentOf, MessageOf
    <2> QED
      BY <2>2
  <1> QED
    BY <1>1, ConnectionAgrees, PTL

\* A packet that was taken, whole or collected, is not collected again: its
\* sequence stays among the received ones for as long as a fragment of it could
\* open an entry.
THEOREM TakenNeverReassembled ==
  ASSUME SizesFit
  PROVE  Spec => []NotReassembledAgain
  <1>1. IInv => NotReassembledAgain
    <2> SUFFICES ASSUME IInv, NEW e \in Peers,
                        NEW i \in Slots(endpoint[e].fragment_reassembly),
                        Occupied(endpoint[e].fragment_reassembly, i),
                        NEW c \in DOMAIN delivered[e],
                        NEW k \in DOMAIN endpoint[e].fragment_reassembly.entry_data[i].parts
                 PROVE  endpoint[e].fragment_reassembly.entry_data[i].parts[k].payload
                          \cap c.payload = {}
      BY DEF NotReassembledAgain
    <2> DEFINE data == endpoint[e].fragment_reassembly.entry_data[i]
    <2>1. PICK log, n :
            /\ EntryOf(log, n, data)
            /\ ContentOf(log, n) \notin DOMAIN delivered[e]
            /\ \A d \in DOMAIN delivered[e] : \E j \in Nat : d = ContentOf(log, j)
      BY CollectedAreLogged
    <2>2. PICK j \in Nat : c = ContentOf(log, j)
      BY <2>1
    <2>3. n # j
      BY <2>1, <2>2
    <2>4. data.parts[k].payload = {MessageOf(log, n)} /\ c.payload = {MessageOf(log, j)}
      BY <2>1, <2>2 DEF EntryOf, ContentOf
    <2> QED
      BY <2>3, <2>4, OtherMessages
  <1> QED
    BY <1>1, ConnectionAgrees, PTL

\* An ack is true: a packet is marked acked only if the other end's callback
\* took it, however sequences wrap and however late the ack comes.
THEOREM AckedWasTaken ==
  ASSUME SizesFit
  PROVE  Spec => []AckedWasDelivered
  <1>1. IInv => AckedWasDelivered
    <2> SUFFICES ASSUME IInv, NEW e \in Peers, NEW i \in Slots(endpoint[e].sent_packets),
                        Occupied(endpoint[e].sent_packets, i),
                        endpoint[e].sent_packets.entry_data[i]
                 PROVE  \E c \in DOMAIN delivered[Other(e)] : \E m \in c.payload :
                          m.id = IdSent(e, endpoint[e].sent_packets.entry_sequence[i])
      BY DEF AckedWasDelivered
    <2> DEFINE n == IdSent(e, endpoint[e].sent_packets.entry_sequence[i])
    <2>1. PICK log : ContentOf(log, n) \in DOMAIN delivered[Other(e)]
      BY AckedAreTaken
    <2>2. MessageOf(log, n) \in ContentOf(log, n).payload /\ MessageOf(log, n).id = n
      BY DEF ContentOf, MessageOf
    <2> QED
      BY <2>1, <2>2
  <1> QED
    BY <1>1, ConnectionAgrees, PTL

-----------------------------------------------------------------------------
(* Counters.  While no delivery is forgotten, an end has counted at most   *)
(* one ack of every delivery the other end made, and none of those of      *)
(* packets it remembers unacked.                                           *)

\* The packets of n that an end remembers, and has not seen acked.
Unacked(packets, n) == {i \in Ids(packets, n) : ~Acked(packets, U16(i))}

\* The contents taken that an ack may have been counted for.
Settled(contents, packets, n) ==
  {c \in contents : \A m \in c.payload : m.id \notin Unacked(packets, n)}

\* Contents are those of the first n messages.
OfLog(log, n, contents) == \A c \in contents : \E i \in 0 .. (n - 1) : c = ContentOf(log, i)

\* What is acked is among contents.
AckedIn(log, n, packets, contents) ==
  \A i \in Ids(packets, n) : Acked(packets, U16(i)) => ContentOf(log, i) \in contents

\* There are at most as many contents as messages.
LEMMA ContentsCount ==
  ASSUME NEW log, NEW n \in Nat, NEW contents, OfLog(log, n, contents)
  PROVE  IsFiniteSet(contents) /\ Cardinality(contents) <= n
  <1> DEFINE I == 0 .. (n - 1)
             f == [c \in contents |-> CHOOSE i \in I : c = ContentOf(log, i)]
  <1>1. \A c \in contents : f[c] \in I /\ c = ContentOf(log, f[c])
    <2> TAKE c \in contents
    <2>1. \E i \in I : c = ContentOf(log, i)
      BY DEF OfLog
    <2> QED
      BY <2>1
  <1>2. f \in [contents -> I]
    BY <1>1
  <1> HIDE DEF f
  <1>3. \A c, d \in contents : f[c] = f[d] => c = d
    BY <1>1
  <1>4. f \in Injection(contents, I)
    BY <1>2, <1>3, Zenon DEF Injection, IsInjective
  <1>5. IsFiniteSet(I) /\ Cardinality(I) = n
    <2>1. 0 \in Int /\ n - 1 \in Int
      OBVIOUS
    <2>2. /\ IsFiniteSet(0 .. (n - 1))
          /\ Cardinality(0 .. (n - 1)) = IF 0 > n - 1 THEN 0 ELSE n - 1 - 0 + 1
      BY ONLY <2>1, FS_Interval, Zenon
    <2> QED
      BY <2>2
  <1> HIDE DEF I
  <1>6. IsFiniteSet(contents) /\ Cardinality(contents) <= Cardinality(I)
    BY <1>4, <1>5, FS_Injection
  <1> QED
    BY <1>5, <1>6

\* A content is settled unless the end waits for its ack.
LEMMA SettledContent ==
  ASSUME NEW log, NEW i, NEW contents, ContentOf(log, i) \in contents, NEW packets, NEW n
  PROVE  ContentOf(log, i) \in Settled(contents, packets, n) <=> i \notin Unacked(packets, n)
  <1>1. /\ ContentOf(log, i).payload = {MessageOf(log, i)}
        /\ MessageOf(log, i).id = i
    BY DEF ContentOf, MessageOf
  <1> QED
    BY <1>1 DEF Settled

\* What is remembered after a step was remembered before it, but for a packet
\* just sent.
LEMMA StepIds ==
  ASSUME SizesFit, NEW ep, NEW new, NEW n \in Nat, NEW reply, NEW m \in Nat,
         ep.sent_packets \in Buffer(SentSize, BOOLEAN),
         new.sent_packets \in Buffer(SentSize, BOOLEAN),
         ep.sequence = U16(n), m = IF reply = 0 THEN n ELSE n + 1,
         SendStep(ep, new, reply), NEW i \in Ids(new.sent_packets, m), i < n
  PROVE  i \in Ids(ep.sent_packets, n)
  <1>1. /\ SentSize \in Nat \ {0} /\ SentSize < SeqMod /\ SeqMod \in Nat
        /\ ep.sent_packets.num_entries = SentSize /\ new.sent_packets.num_entries = SentSize
    BY SizeNumbers DEF Buffer
  <1>2. i \in Int /\ n - i > 0 /\ n - i < SeqMod /\ i \in (n - SentSize) .. (n - 1)
    <2>1. i \in (m - SentSize) .. (m - 1)
      BY <1>1 DEF Ids
    <2> QED
      BY <1>1, <2>1
  <1>3. U16(i) # U16(n)
    <2>1. Distance(U16(n), U16(i)) = n - i
      BY <1>2, IdDistance
    <2>2. Distance(U16(n), U16(n)) = 0
      <3>1. n - n = 0 /\ n - n >= 0 /\ n - n < SeqMod
        BY <1>1
      <3> QED
        BY <3>1, IdDistance
    <2> QED
      BY <1>2, <2>1, <2>2
  <1>4. U16(i) \in Present(new.sent_packets)
    BY DEF Ids
  <1>5. U16(i) \in Present(ep.sent_packets)
    BY <1>3, <1>4 DEF SendStep, NothingSent, OneSent
  <1> QED
    BY <1>1, <1>2, <1>5 DEF Ids

\* The contents whose acks a step reports.
JustAcked(log, n, packets, reported, contents) ==
  {c \in contents : \E i \in Ids(packets, n) : c = ContentOf(log, i) /\ U16(i) \in reported}

\* Each ack reported is one of a content of its own.
LEMMA ReportedContents ==
  ASSUME NEW log, NEW packets, NEW n, NEW reported, NEW contents, NEW acked,
         acked = JustAcked(log, n, packets, reported, contents), IsFiniteSet(acked),
         \A q \in reported : \E i \in Ids(packets, n) :
            U16(i) = q /\ ContentOf(log, i) \in contents
  PROVE  IsFiniteSet(reported) /\ Cardinality(reported) <= Cardinality(acked)
  <1> DEFINE f == [c \in acked |-> U16((CHOOSE m \in c.payload : TRUE).id)]
  <1>1. ASSUME NEW i, ContentOf(log, i) \in acked
        PROVE  f[ContentOf(log, i)] = U16(i)
    <2>1. ContentOf(log, i).payload = {MessageOf(log, i)} /\ MessageOf(log, i).id = i
      BY DEF ContentOf, MessageOf
    <2>2. (CHOOSE m \in ContentOf(log, i).payload : TRUE) = MessageOf(log, i)
      BY <2>1
    <2> QED
      BY <1>1, <2>1, <2>2
  <1>2. ASSUME NEW c \in acked
        PROVE  f[c] \in reported
    <2>1. PICK i \in Ids(packets, n) : c = ContentOf(log, i) /\ U16(i) \in reported
      BY <1>2 DEF JustAcked
    <2> HIDE DEF f
    <2> QED
      BY <1>1, <2>1
  <1>3. ASSUME NEW q \in reported
        PROVE  \E c \in acked : f[c] = q
    <2>1. PICK i \in Ids(packets, n) : U16(i) = q /\ ContentOf(log, i) \in contents
      BY <1>3
    <2>2. ContentOf(log, i) \in acked
      BY <1>3, <2>1 DEF JustAcked
    <2> HIDE DEF f
    <2> QED
      BY <1>1, <2>1, <2>2
  <1>4. f \in [acked -> reported]
    BY <1>2
  <1> HIDE DEF f
  <1>5. f \in Surjection(acked, reported)
    BY <1>3, <1>4, Zenon DEF Surjection
  <1> QED
    BY <1>5, FS_Surjection

\* A step settles as many contents more as it reports acks: each of a packet that
\* the end remembered unacked, and that the other end has taken.
LEMMA StepSettles ==
  ASSUME SizesFit, NEW ep, NEW new, NEW n \in Nat, NEW reply, NEW m \in Nat,
         ep.sent_packets \in Buffer(SentSize, BOOLEAN), Windowed(ep.sent_packets),
         new.sent_packets \in Buffer(SentSize, BOOLEAN), Windowed(new.sent_packets),
         ep.sequence = U16(n), m = IF reply = 0 THEN n ELSE n + 1,
         new.sent_packets.sequence = U16(m),
         SendStep(ep, new, reply), AckStep(ep, new),
         NEW log, NEW contents, OfLog(log, n, contents),
         NEW later, AckedIn(later, m, new.sent_packets, contents)
  PROVE  Cardinality(Settled(contents, ep.sent_packets, n)) + Len(AddedAcks(ep, new))
           <= Cardinality(Settled(contents, new.sent_packets, m))
  <1> DEFINE b == ep.sent_packets
             c == new.sent_packets
             reported == Elements(AddedAcks(ep, new))
             before == Settled(contents, b, n)
             after == Settled(contents, c, m)
             acked == JustAcked(log, n, b, reported, contents)
  <1>1. /\ Cardinality(reported) = Len(AddedAcks(ep, new))
        /\ \A q \in reported : q \in Present(c) /\ Acked(c, q)
        /\ \A q \in Present(b) \cap Present(c) :
             IF Acked(b, q) THEN Acked(c, q) /\ q \notin reported
                            ELSE Acked(c, q) <=> q \in reported
    BY Zenon DEF AckStep
  <1>2. \A i \in Ids(c, m) : i < n => i \in Ids(b, n)
    BY StepIds
  <1>3. ASSUME NEW x \in contents
        PROVE  \E i \in 0 .. (n - 1) : x = ContentOf(log, i)
    BY <1>3 DEF OfLog
  <1> HIDE DEF reported, b, c
  <1>4. before \subseteq after
    <2> SUFFICES ASSUME NEW x \in before PROVE x \in after
      OBVIOUS
    <2>1. x \in contents
      BY DEF Settled
    <2>2. PICK i \in 0 .. (n - 1) : x = ContentOf(log, i)
      BY <1>3, <2>1
    <2>3. i \notin Unacked(b, n)
      BY <2>1, <2>2, SettledContent
    <2>4. ASSUME i \in Unacked(c, m) PROVE FALSE
      <3>1. i \in Ids(c, m) /\ ~Acked(c, U16(i)) /\ i < n
        BY <2>4 DEF Unacked
      <3>2. i \in Ids(b, n)
        BY <1>2, <3>1
      <3>3. U16(i) \in Present(b) \cap Present(c)
        BY <3>1, <3>2 DEF Ids
      <3>4. Acked(b, U16(i))
        BY <2>3, <3>2 DEF Unacked
      <3> QED
        BY <1>1, <3>1, <3>3, <3>4
    <2> QED
      BY <2>1, <2>2, <2>4, SettledContent
  <1>5. \A q \in reported : \E i \in Ids(b, n) :
           /\ U16(i) = q /\ ContentOf(log, i) \in contents /\ ContentOf(log, i) \in after
    <2> TAKE q \in reported
    <2>1. PICK i \in Ids(c, m) : U16(i) = q
      <3>1. q \in Present(c)
        BY <1>1
      <3>2. /\ c \in Buffer(SentSize, BOOLEAN) /\ Windowed(c) /\ c.sequence = U16(m)
            /\ SentSize \in Nat \ {0} /\ m \in Int
        BY SizeNumbers DEF c
      <3> QED
        BY <3>1, <3>2, HeldId
    <2>2. Acked(c, U16(i))
      BY <1>1, <2>1
    <2>3. ContentOf(later, i) \in contents
      BY <2>1, <2>2 DEF AckedIn, c
    <2>4. PICK k \in 0 .. (n - 1) : ContentOf(later, i) = ContentOf(log, k)
      BY <1>3, <2>3
    <2>5. i = k
      BY <2>4, ContentId
    <2>6. i < n
      BY <2>5
    <2>7. i \in Ids(b, n) /\ ContentOf(log, i) \in contents
      BY <1>2, <2>1, <2>3, <2>4, <2>5, <2>6
    <2>8. i \notin Unacked(c, m)
      BY <2>2 DEF Unacked
    <2> QED
      BY <2>1, <2>7, <2>8, SettledContent
  <1>6. acked \cap after \cap before = {}
    <2> SUFFICES ASSUME NEW x \in acked \cap after, x \in before PROVE FALSE
      OBVIOUS
    <2>1. PICK i \in Ids(b, n) : x = ContentOf(log, i) /\ U16(i) \in reported
      BY DEF JustAcked
    <2>2. x \in contents
      BY DEF JustAcked
    <2>3. i \notin Unacked(b, n)
      BY <2>1, <2>2, SettledContent
    <2>4. Acked(b, U16(i))
      BY <2>3 DEF Unacked
    <2>5. U16(i) \in Present(b) \cap Present(c)
      BY <1>1, <2>1 DEF Ids
    <2> QED
      BY <1>1, <2>1, <2>4, <2>5
  <1> DEFINE fresh == JustAcked(log, n, b, reported, after)
  <1>7. fresh \subseteq after /\ fresh \cap before = {}
    <2>1. after \subseteq contents
      BY DEF Settled
    <2>2. fresh \subseteq acked \cap after
      BY <2>1 DEF JustAcked
    <2> QED
      BY <1>6, <2>2
  <1>8. IsFiniteSet(after)
    <2>1. IsFiniteSet(contents) /\ after \in SUBSET contents
      BY ContentsCount DEF Settled
    <2> QED
      BY <2>1, FS_Subset
  <1>9. IsFiniteSet(fresh) /\ IsFiniteSet(before) /\ IsFiniteSet(before \cup fresh)
        /\ Cardinality(before \cup fresh) <= Cardinality(after)
    <2> HIDE DEF fresh, before, after
    <2>1. fresh \in SUBSET after /\ before \in SUBSET after /\ before \cup fresh \in SUBSET after
      BY <1>4, <1>7
    <2> QED
      BY ONLY <1>8, <2>1, FS_Subset
  <1>10. \A q \in reported : \E i \in Ids(b, n) :
           U16(i) = q /\ ContentOf(log, i) \in after
    BY <1>5
  <1> HIDE DEF before, after, acked
  <1>11. IsFiniteSet(reported) /\ Cardinality(reported) <= Cardinality(fresh)
    <2>1. fresh = JustAcked(log, n, b, reported, after)
      OBVIOUS
    <2> HIDE DEF fresh
    <2> QED
      BY ONLY <1>9, <1>10, <2>1, ReportedContents
  <1> HIDE DEF fresh
  <1>12. Cardinality(before \cup fresh) = Cardinality(before) + Cardinality(fresh)
    <2>1. before \cap fresh = {}
      BY <1>7
    <2>2. Cardinality(before \cap fresh) = 0
      BY <2>1, FS_EmptySet
    <2>3. Cardinality(before) \in Nat /\ Cardinality(fresh) \in Nat
      BY <1>9, FS_CardinalityType
    <2>4. Cardinality(before \cup fresh)
            = Cardinality(before) + Cardinality(fresh) - Cardinality(before \cap fresh)
      BY <1>9, FS_Union
    <2> QED
      BY <2>2, <2>3, <2>4
  <1>13. /\ Cardinality(before) \in Nat /\ Cardinality(fresh) \in Nat
         /\ Cardinality(after) \in Nat
    BY <1>8, <1>9, FS_CardinalityType
  <1>14. Cardinality(before) + Cardinality(reported) <= Cardinality(after)
    <2>1. Cardinality(reported) \in Int
      BY <1>11, FS_CardinalityType
    <2> QED
      BY <1>9, <1>11, <1>12, <1>13, <2>1
  <1> QED
    BY <1>1, <1>14 DEF before, after, b, c

\* What the invariant says of a sender: n messages sent, and of contents, those the
\* other end took, that each is of one of them, and that what is acked is among them.
EndTrue(ep, n, contents) ==
  /\ WellFormed(SUBSET Messages, ep) /\ AllWindowed(ep)
  /\ n \in Nat /\ ep.sent_packets.sequence = U16(n)
  /\ \E log : OfLog(log, n, contents) /\ AckedIn(log, n, ep.sent_packets, contents)

PeersTrue ==
  \A e \in Peers : EndTrue(endpoint[e], sends[e], DOMAIN delivered[Other(e)])

\* The counters of a sender against the same.
Counts(ep, n, contents) ==
  /\ ep.counters["packets_acked"] <= Cardinality(Settled(contents, ep.sent_packets, n))
  /\ ep.counters["packets_sent"] = n

\* The applications for which no delivery of what e sends is forgotten.
KeepsAll(e) == Application.memory >= Application.sends[e]

\* The invariant of the counters.
CountInv ==
  \A e \in Peers : KeepsAll(e) =>
     /\ sends[e] <= Application.sends[e]
     /\ Counts(endpoint[e], sends[e], DOMAIN delivered[Other(e)])

\* The two counters are kept, and do not wrap.
CountersWide ==
  /\ {"packets_sent", "packets_acked"} \subseteq Counted
  /\ \A name \in DOMAIN Applications : \A e \in Peers :
       Applications[name].sends[e] < CounterMod

\* The ends agree on what is true of each.
LEMMA EndsAreTrue == IInv => PeersTrue
  <1> SUFFICES ASSUME IInv, NEW e \in Peers
               PROVE  EndTrue(endpoint[e], sends[e], DOMAIN delivered[Other(e)])
    BY DEF PeersTrue
  <1>1. PICK v, w : /\ ProperEnd(v) /\ ProperEnd(w) /\ Receives(v, w, Application.memory, {})
                    /\ Receives(w, v, Application.memory, {})
                    /\ v.sent = sends[e] /\ v.state = endpoint[e] /\ v.taken = delivered[e]
                    /\ w.taken = delivered[Other(e)]
    BY PeerEnds
  <1>2. OfLog(v.log, v.sent, DOMAIN w.taken)
    <2> SUFFICES ASSUME NEW c \in DOMAIN w.taken
                 PROVE  \E i \in 0 .. (v.sent - 1) : c = ContentOf(v.log, i)
      BY DEF OfLog
    <2>1. PICK i \in 0 .. (w.newest - 1) : c = ContentOf(v.log, i)
      BY <1>1 DEF Receives, TakenOnce
    <2>2. w.newest <= v.sent /\ v.sent \in Nat /\ w.newest \in Nat
      BY <1>1 DEF Receives, Hears, ProperEnd
    <2>3. i \in 0 .. (v.sent - 1)
      BY <2>2
    <2> QED
      BY <2>1, <2>3
  <1>3. AckedIn(v.log, v.sent, v.state.sent_packets, DOMAIN w.taken)
    BY <1>1 DEF Receives, AckedTaken, AckedIn, Took
  <1>4. /\ WellFormed(SUBSET Messages, v.state) /\ AllWindowed(v.state)
        /\ v.sent \in Nat /\ v.state.sent_packets.sequence = U16(v.sent)
    BY <1>1 DEF ProperEnd
  <1> QED
    BY <1>1, <1>2, <1>3, <1>4 DEF EndTrue

\* The parts of an end that counting looks at.
LEMMA TrueEndFields ==
  ASSUME NEW ep, NEW n, NEW contents, EndTrue(ep, n, contents)
  PROVE  /\ ep.sent_packets \in Buffer(SentSize, BOOLEAN) /\ Windowed(ep.sent_packets)
         /\ ep.sequence = U16(n) /\ ep.sent_packets.sequence = U16(n) /\ n \in Nat
         /\ ep.counters \in [Counted -> 0 .. (CounterMod - 1)]
         /\ IsFiniteSet(contents) /\ Cardinality(contents) <= n
  <1>1. IsFiniteSet(contents) /\ Cardinality(contents) <= n
    BY ContentsCount DEF EndTrue
  <1> QED
    BY <1>1 DEF EndTrue, WellFormed, AllWindowed, Endpoints

\* A step of the sender keeps its counters right.
LEMMA OwnStepCounts ==
  ASSUME SizesFit, {"packets_sent", "packets_acked"} \subseteq Counted,
         NEW ep, NEW new, NEW n, NEW reply, NEW m, NEW contents,
         EndTrue(ep, n, contents), EndTrue(new, m, contents),
         m = IF reply = 0 THEN n ELSE n + 1, m < CounterMod,
         SendStep(ep, new, reply), AckStep(ep, new), Counts(ep, n, contents)
  PROVE  Counts(new, m, contents)
  <1> DEFINE before == Cardinality(Settled(contents, ep.sent_packets, n))
             after == Cardinality(Settled(contents, new.sent_packets, m))
             added == Len(AddedAcks(ep, new))
             acked == ep.counters["packets_acked"]
  <1>1. /\ ep.sent_packets \in Buffer(SentSize, BOOLEAN) /\ Windowed(ep.sent_packets)
        /\ ep.sequence = U16(n) /\ n \in Nat
        /\ ep.counters \in [Counted -> 0 .. (CounterMod - 1)]
        /\ IsFiniteSet(contents)
    BY TrueEndFields
  <1>2. /\ new.sent_packets \in Buffer(SentSize, BOOLEAN) /\ Windowed(new.sent_packets)
        /\ new.sent_packets.sequence = U16(m) /\ m \in Nat
    BY TrueEndFields
  <1>3. PICK log, later : OfLog(log, n, contents) /\ AckedIn(later, m, new.sent_packets, contents)
    BY DEF EndTrue
  <1>4. before + added <= after
    BY <1>1, <1>2, <1>3, StepSettles
  <1>5. before \in Nat /\ after \in Nat
    <2>1. /\ Settled(contents, ep.sent_packets, n) \in SUBSET contents
          /\ Settled(contents, new.sent_packets, m) \in SUBSET contents
      BY DEF Settled
    <2> QED
      BY <1>1, <2>1, FS_Subset, FS_CardinalityType
  <1>6. acked \in 0 .. (CounterMod - 1) /\ ep.counters["packets_sent"] \in 0 .. (CounterMod - 1)
    BY <1>1
  <1>7. added \in Nat
    <2>1. Cardinality(Elements(AddedAcks(ep, new))) = added
      BY Zenon DEF AckStep
    <2>2. new.acks \in Seq(Seqs) /\ ep.acks \in Seq(Seqs)
      BY DEF EndTrue, WellFormed, Endpoints
    <2> QED
      BY <2>2 DEF AddedAcks
  <1>8. new.counters["packets_acked"] = (acked + added) % CounterMod
    BY Zenon DEF AckStep
  <1>9. acked <= before /\ ep.counters["packets_sent"] = n
    BY DEF Counts
  <1> HIDE DEF before, after, added, acked
  <1>10. new.counters["packets_acked"] <= after
    <2>1. PICK k \in Nat : k = acked + added
      BY <1>6, <1>7, ConfigNumbers
    <2>2. k % CounterMod <= k
      BY ONLY <2>1, ConfigNumbers, CounterMod \in Nat \ {0}, Z3
    <2> QED
      BY <1>4, <1>5, <1>6, <1>7, <1>8, <1>9, <2>1, <2>2, ConfigNumbers
  <1>11. new.counters["packets_sent"] = m
    <2>1. CASE reply = 0
      BY <1>9, <2>1 DEF SendStep, NothingSent
    <2>2. CASE reply # 0
      <3>1. new.counters["packets_sent"] = (n + 1) % CounterMod /\ m = n + 1
        BY <1>9, <2>2 DEF SendStep, OneSent
      <3>2. (n + 1) % CounterMod = n + 1
        BY ONLY <1>1, <3>1, m < CounterMod, ConfigNumbers, CounterMod \in Nat \ {0}
      <3> QED
        BY <3>1, <3>2
    <2> QED
      BY <2>1, <2>2
  <1> QED
    BY <1>10, <1>11 DEF Counts, after

\* What the other end takes meanwhile does not spoil them.
LEMMA MoreContentsCount ==
  ASSUME NEW ep, NEW n, NEW contents, NEW more, contents \subseteq more,
         EndTrue(ep, n, contents), EndTrue(ep, n, more), Counts(ep, n, contents),
         "packets_acked" \in Counted
  PROVE  Counts(ep, n, more)
  <1>1. IsFiniteSet(more) /\ ep.counters["packets_acked"] \in 0 .. (CounterMod - 1)
    BY TrueEndFields
  <1> DEFINE before == Settled(contents, ep.sent_packets, n)
             after == Settled(more, ep.sent_packets, n)
  <1>2. after \in SUBSET more /\ before \in SUBSET after
    BY DEF Settled
  <1>3. ep.counters["packets_acked"] <= Cardinality(before) /\ ep.counters["packets_sent"] = n
    BY DEF Counts
  <1>4. ep.counters["packets_acked"] \in Int
    BY <1>1
  <1> HIDE DEF before, after
  <1>5. IsFiniteSet(after)
    BY <1>1, <1>2, FS_Subset
  <1>6. IsFiniteSet(before) /\ Cardinality(before) <= Cardinality(after)
    BY <1>2, <1>5, FS_Subset
  <1>7. Cardinality(before) \in Nat /\ Cardinality(after) \in Nat
    BY <1>5, <1>6, FS_CardinalityType
  <1>8. ep.counters["packets_acked"] <= Cardinality(after)
    BY <1>3, <1>4, <1>6, <1>7
  <1> QED
    BY <1>3, <1>8 DEF Counts, after

\* What arrives makes a step of acks and of at most one packet sent.
LEMMA ReceiveSteps ==
  ASSUME SizesFit, NEW ep, WellFormed(SUBSET Messages, ep), AllWindowed(ep),
         NEW log, NEW i, NEW p, PacketOf(log, i, p),
         NEW replies \in SUBSET Nat, NEW r \in Results(ep, p, replies)
  PROVE  AckStep(ep, r.endpoint) /\ SendStep(ep, r.endpoint, r.reply)
  <1>1. /\ Half > 1 /\ FitsCircle(SentSize) /\ ep \in Endpoints(SUBSET Messages)
        /\ Windowed(ep.sent_packets) /\ NULL \notin Reassemblies(SUBSET Messages)
    BY SizeNumbers, ConnectionNumbers DEF WellFormed, AllWindowed
  <1>2. ASSUME NEW new \in Endpoints(SUBSET Messages), r = Unprocessed(new),
               SameForAcks(ep, new), NothingSent(ep, new)
        PROVE  AckStep(ep, r.endpoint) /\ SendStep(ep, r.endpoint, r.reply)
    <2>1. r.endpoint = new /\ r.reply = 0
      BY <1>2 DEF Unprocessed, Result
    <2>2. SentOnly(ep, new) /\ Windowed(new.sent_packets)
      BY <1>1, <1>2 DEF SentOnly, SameForAcks
    <2> QED
      BY <1>1, <1>2, <2>1, <2>2, AckStepOfSend DEF SendStep
  <1>3. CASE p \in RegularPackets(SUBSET Messages)
    <2>1. r \in RegularResults(ep, p, replies) /\ p.sequence \in Seqs /\ p.ack \in Seqs
      BY <1>3 DEF Results, RegularPackets
    <2> QED
      BY <1>1, <2>1, RegularAckStep, RegularSends
  <1>4. CASE p \in FragmentPackets(SUBSET Messages)
    <2>1. p.type # "regular"
      BY <1>4 DEF FragmentPackets
    <2>2. CASE ~Stored(ep, p)
      <3>1. r = Unprocessed(Ignored(ep, p))
        BY <2>1, <2>2 DEF Results
      <3>2. /\ "packets_acked" \notin IgnoreCounters[WhyIgnored(ep, p)]
            /\ "packets_sent" \notin IgnoreCounters[WhyIgnored(ep, p)]
        BY <2>2 DEF Stored, WhyIgnored, IgnoreCounters
      <3>3. /\ Ignored(ep, p) \in Endpoints(SUBSET Messages)
            /\ SameForAcks(ep, Ignored(ep, p)) /\ NothingSent(ep, Ignored(ep, p))
        BY <1>1, <3>2, CountOneChanges, CountSameForAcks, CountNothingSent DEF Ignored
      <3> QED
        BY <1>2, <3>1, <3>3
    <2>3. CASE Stored(ep, p) /\ ~Completes(ep, p)
      <3> DEFINE stored == AfterStore(ep, p)
      <3>1. r = Unprocessed(CountFragment(stored))
        BY <2>1, <2>3 DEF Results
      <3>2. stored \in Endpoints(SUBSET Messages)
        <4>1. Storable(SUBSET Messages, ep, p)
          BY <1>4, <2>3 DEF Storable
        <4> QED
          BY <1>1, <4>1, StoredWellFormed DEF WellFormed
      <3>3. SameForAcks(ep, stored) /\ NothingSent(ep, stored)
        BY <1>1, StoredKeeps DEF SameForAcks, NothingSent
      <3> HIDE DEF stored
      <3>4. /\ CountFragment(stored) \in Endpoints(SUBSET Messages)
            /\ SameForAcks(stored, CountFragment(stored))
            /\ NothingSent(stored, CountFragment(stored))
        BY <3>2, CountOneChanges, CountSameForAcks, CountNothingSent DEF CountFragment
      <3>5. SameForAcks(ep, CountFragment(stored)) /\ NothingSent(ep, CountFragment(stored))
        BY <3>3, <3>4 DEF SameForAcks, NothingSent
      <3> QED
        BY <1>2, <3>1, <3>4, <3>5
    <2>4. CASE Stored(ep, p) /\ Completes(ep, p)
      <3>1. r \in CompletionResults(ep, p, replies) /\ Storable(SUBSET Messages, ep, p)
        BY <1>4, <2>1, <2>4 DEF Results, Storable
      <3> QED
        BY <1>1, <3>1, CompletionAckStep, CompletionSends
    <2> QED
      BY <2>2, <2>3, <2>4
  <1> QED
    BY <1>3, <1>4 DEF PacketOf

\* A step of one peer, which may send a message and take one of the other's.
LEMMA PeerStepCounts ==
  ASSUME SizesFit, CountersWide, running \in DOMAIN Applications, UNCHANGED running,
         PeersTrue, PeersTrue', CountInv, NEW e \in Peers, NEW reply,
         endpoint'[Other(e)] = endpoint[Other(e)], sends'[Other(e)] = sends[Other(e)],
         DOMAIN delivered[e] \subseteq DOMAIN delivered'[e],
         AckStep(endpoint[e], endpoint'[e]), SendStep(endpoint[e], endpoint'[e], reply),
         sends'[e] = (IF reply = 0 THEN sends[e] ELSE sends[e] + 1),
         reply # 0 => sends[e] < Application.sends[e],
         KeepsAll(e) => DOMAIN delivered'[Other(e)] = DOMAIN delivered[Other(e)]
  PROVE  CountInv'
  <1> DEFINE o == Other(e)
  <1>1. o \in Peers /\ Other(o) = e /\ \A p \in Peers : p = e \/ p = o
    BY OtherPeer
  <1>2. Application' = Application
    BY DEF Application
  <1>3. /\ EndTrue(endpoint[e], sends[e], DOMAIN delivered[o])
        /\ EndTrue(endpoint'[e], sends'[e], DOMAIN delivered'[o])
        /\ EndTrue(endpoint[o], sends[o], DOMAIN delivered[e])
        /\ EndTrue(endpoint'[o], sends'[o], DOMAIN delivered'[e])
    <2>1. /\ EndTrue(endpoint[e], sends[e], DOMAIN delivered[Other(e)])
          /\ EndTrue(endpoint'[e], sends'[e], DOMAIN delivered'[Other(e)])
      BY DEF PeersTrue
    <2>2. /\ EndTrue(endpoint[o], sends[o], DOMAIN delivered[Other(o)])
          /\ EndTrue(endpoint'[o], sends'[o], DOMAIN delivered'[Other(o)])
      BY <1>1 DEF PeersTrue
    <2> QED
      BY <1>1, <2>1, <2>2
  <1> HIDE DEF o
  <1>4. ASSUME KeepsAll(e)
        PROVE  /\ sends'[e] <= Application.sends[e]
               /\ Counts(endpoint'[e], sends'[e], DOMAIN delivered'[o])
    <2>1. /\ sends[e] <= Application.sends[e]
          /\ Counts(endpoint[e], sends[e], DOMAIN delivered[o])
          /\ DOMAIN delivered'[o] = DOMAIN delivered[o]
      BY <1>4 DEF CountInv, o
    <2>2. /\ Application.sends[e] < CounterMod /\ Application.sends[e] \in Nat
          /\ {"packets_sent", "packets_acked"} \subseteq Counted
      BY ConnectionAssumption DEF CountersWide, Application, ApplicationRecords
    <2>3. sends[e] \in Nat
      BY <1>3, TrueEndFields
    <2>4. sends'[e] <= Application.sends[e] /\ sends'[e] < CounterMod
      BY <2>1, <2>2, <2>3, ConfigNumbers
    <2>5. EndTrue(endpoint'[e], sends'[e], DOMAIN delivered[o])
      BY <1>3, <2>1
    <2>6. Counts(endpoint'[e], sends'[e], DOMAIN delivered[o])
      BY <1>3, <2>1, <2>2, <2>4, <2>5, OwnStepCounts
    <2> QED
      BY <2>1, <2>4, <2>6
  <1>5. ASSUME KeepsAll(o)
        PROVE  /\ sends'[o] <= Application.sends[o]
               /\ Counts(endpoint'[o], sends'[o], DOMAIN delivered'[e])
    <2>1. sends[o] <= Application.sends[o] /\ Counts(endpoint[o], sends[o], DOMAIN delivered[e])
      BY <1>1, <1>5 DEF CountInv
    <2>2. endpoint'[o] = endpoint[o] /\ sends'[o] = sends[o] /\ "packets_acked" \in Counted
      BY DEF CountersWide, o
    <2>3. EndTrue(endpoint[o], sends[o], DOMAIN delivered'[e])
      BY <1>3, <2>2
    <2>4. Counts(endpoint[o], sends[o], DOMAIN delivered'[e])
      BY <1>3, <2>1, <2>2, <2>3, MoreContentsCount
    <2> QED
      BY <2>1, <2>2, <2>4
  <1> SUFFICES ASSUME NEW p \in Peers, KeepsAll(p)
               PROVE  /\ sends'[p] <= Application.sends[p]
                      /\ Counts(endpoint'[p], sends'[p], DOMAIN delivered'[Other(p)])
    BY <1>2 DEF CountInv, KeepsAll
  <1>6. CASE p = e
    BY <1>4, <1>6 DEF o
  <1>7. CASE p = o
    BY <1>1, <1>5, <1>7
  <1> QED
    BY <1>1, <1>6, <1>7

\* An application that keeps the deliveries of what e sends forgets none of them.
LEMMA NoneForgotten ==
  ASSUME IInv, NEW e \in Peers, KeepsAll(e), sends[e] < Application.sends[e]
  PROVE  DOMAIN Remembered(delivered[Other(e)], sends[e] + 1) = DOMAIN delivered[Other(e)]
  <1> DEFINE taken == delivered[Other(e)]
             memory == Application.memory
  <1>1. sends[e] \in Nat /\ \E log : OfLog(log, sends[e], DOMAIN taken)
    BY EndsAreTrue DEF PeersTrue, EndTrue
  <1>2. PICK log : OfLog(log, sends[e], DOMAIN taken)
    BY <1>1
  <1>3. Application.sends[e] \in Nat /\ memory \in Nat /\ sends[e] + 1 <= memory
    <2>1. Application \in ApplicationRecords
      BY ConnectionAssumption DEF IInv, Application
    <2>2. Application.sends[e] \in Nat /\ memory \in Nat
      BY <2>1 DEF ApplicationRecords
    <2> QED
      BY <1>1, <2>2 DEF KeepsAll
  <1> HIDE DEF taken, memory
  <1>4. ASSUME NEW c \in DOMAIN taken
        PROVE  \E m \in c.payload : m.id >= (sends[e] + 1) - memory
    <2>1. PICK i \in 0 .. (sends[e] - 1) : c = ContentOf(log, i)
      BY <1>2 DEF OfLog
    <2>2. MessageOf(log, i) \in c.payload /\ MessageOf(log, i).id = i
      BY <2>1 DEF ContentOf, MessageOf
    <2>3. i >= (sends[e] + 1) - memory
      BY <1>1, <1>3
    <2> QED
      BY <2>2, <2>3
  <1>5. Recent(taken, sends[e] + 1) = DOMAIN taken
    BY <1>4 DEF Recent, memory
  <1> QED
    BY <1>5 DEF Remembered, taken

\* Sending keeps the counters right.
LEMMA SendCounts ==
  ASSUME SizesFit, CountersWide, IInv, UNCHANGED running, PeersTrue, PeersTrue', CountInv,
         NEW e \in Peers, NEW bytes \in Nat, Send(e, bytes)
  PROVE  CountInv'
  <1> DEFINE o == Other(e)
  <1>1. o \in Peers /\ o # e
    BY OtherPeer
  <1>2. /\ endpoint'[e] = Sent(endpoint[e], bytes) /\ endpoint'[o] = endpoint[o]
        /\ sends'[e] = sends[e] + 1 /\ sends'[o] = sends[o]
        /\ delivered'[e] = delivered[e] /\ delivered'[o] = Remembered(delivered[o], sends[e] + 1)
    <2> HIDE DEF o
    <2>1. sends' = [sends EXCEPT ![e] = @ + 1] /\ sends'[e] = sends[e] + 1
      BY DEF IInv, Send
    <2>2. delivered' = [delivered EXCEPT ![o] = Remembered(@, sends[e] + 1)]
      BY <2>1 DEF Send, o
    <2>3. endpoint' = [endpoint EXCEPT ![e] = Sent(@, bytes)]
      BY DEF Send
    <2> QED
      BY <1>1, <2>1, <2>2, <2>3 DEF IInv
  <1>3. sends[e] < Application.sends[e]
    BY DEF Send, MaySend
  <1>4. WellFormed(SUBSET Messages, endpoint[e]) /\ AllWindowed(endpoint[e])
    BY DEF PeersTrue, EndTrue
  <1>5. Half > 1 /\ FitsCircle(SentSize)
    BY SizeNumbers
  <1>6. AckStep(endpoint[e], endpoint'[e])
    <2>1. Windowed(endpoint[e].sent_packets)
      BY <1>4 DEF AllWindowed
    <2>2. /\ SentOnly(endpoint[e], Sent(endpoint[e], bytes))
          /\ Windowed(Sent(endpoint[e], bytes).sent_packets)
      BY <1>4, <1>5, <2>1, SendSentOnly
    <2>3. /\ Sent(endpoint[e], bytes) \in Endpoints(SUBSET Messages)
          /\ endpoint[e] \in Endpoints(SUBSET Messages)
      BY <1>4, <1>5, SentWellFormed DEF WellFormed
    <2> QED
      BY <1>2, <2>1, <2>2, <2>3, AckStepOfSend
  <1>7. SendStep(endpoint[e], endpoint'[e], 1)
    <2>1. Windowed(endpoint[e].sent_packets)
      BY <1>4 DEF AllWindowed
    <2>2. OneSent(endpoint[e], Sent(endpoint[e], bytes))
      BY <1>4, <1>5, <2>1, SentOne
    <2> QED
      BY <1>2, <2>2 DEF SendStep
  <1>8. KeepsAll(e) => DOMAIN delivered'[Other(e)] = DOMAIN delivered[Other(e)]
    BY <1>2, <1>3, NoneForgotten
  <1>9. running \in DOMAIN Applications
    BY DEF IInv
  <1>10. sends'[e] = IF 1 = 0 THEN sends[e] ELSE sends[e] + 1
    BY <1>2
  <1> QED
    BY <1>2, <1>3, <1>6, <1>7, <1>8, <1>9, <1>10, PeerStepCounts

\* What arrives keeps the counters right, of the end it arrives at and of the one
\* whose packet is taken.
LEMMA ReceiveCounts ==
  ASSUME SizesFit, CountersWide, IInv, UNCHANGED running, PeersTrue, PeersTrue', CountInv,
         NEW e \in Peers, NEW x \in net[e], Receive(e, x)
  PROVE  CountInv'
  <1> DEFINE o == Other(e)
  <1>1. o \in Peers /\ o # e
    BY OtherPeer
  <1>2. PICK r \in Results(endpoint[e], x.packet, Application.replies) :
          /\ r.reply # 0 => MaySend(e)
          /\ endpoint' = [endpoint EXCEPT ![e] = r.endpoint]
          /\ LET heard == Delivered(delivered[e], r.taken)
             IN  IF r.reply = 0
                   THEN /\ delivered' = [delivered EXCEPT ![e] = heard]
                        /\ UNCHANGED <<sends, net>>
                   ELSE /\ sends' = [sends EXCEPT ![e] = @ + 1]
                        /\ delivered' = [p \in Peers |->
                             IF p = e THEN heard ELSE Remembered(delivered[p], sends'[e])]
                        /\ Transmits(e, Outgoing(e, r.during, r.reply))
    BY DEF Receive
  <1>3. \E log, i : PacketOf(log, i, x.packet)
    <2>1. PICK log \in [Peers -> Logs], newest \in [Peers -> Nat] :
            Agree(log, newest, sends, endpoint, delivered, net, Application.memory)
      BY DEF IInv
    <2> DEFINE v == PeerAsEnd(log, newest, sends, endpoint, delivered, e)
               w == PeerAsEnd(log, newest, sends, endpoint, delivered, o)
    <2>2. Both(e, o, v, w, Application.memory, {}, net[e], net[o])
      BY <2>1 DEF Agree
    <2> HIDE DEF v, w, o
    <2>3. PacketOf(w.log, x.born[o], x.packet)
      BY <2>2 DEF Both, OnTheWay
    <2> QED
      BY <2>3
  <1>4. endpoint'[e] = r.endpoint /\ endpoint'[o] = endpoint[o]
    BY <1>1, <1>2 DEF IInv
  <1>5. /\ delivered'[e] = Delivered(delivered[e], r.taken) /\ sends'[o] = sends[o]
        /\ sends'[e] = IF r.reply = 0 THEN sends[e] ELSE sends[e] + 1
        /\ delivered'[o] = IF r.reply = 0 THEN delivered[o]
                                          ELSE Remembered(delivered[o], sends[e] + 1)
    <2> HIDE DEF o
    <2>1. CASE r.reply = 0
      BY <1>1, <1>2, <2>1 DEF IInv
    <2>2. CASE r.reply # 0
      <3>1. sends' = [sends EXCEPT ![e] = @ + 1] /\ sends'[e] = sends[e] + 1
        BY <1>2, <2>2 DEF IInv
      <3> QED
        BY <1>1, <1>2, <2>2, <3>1 DEF IInv
    <2> QED
      BY <2>1, <2>2
  <1>6. r.reply # 0 => sends[e] < Application.sends[e]
    BY <1>2 DEF MaySend
  <1>7. AckStep(endpoint[e], endpoint'[e]) /\ SendStep(endpoint[e], endpoint'[e], r.reply)
    <2>1. WellFormed(SUBSET Messages, endpoint[e]) /\ AllWindowed(endpoint[e])
      BY DEF PeersTrue, EndTrue
    <2>2. Application.replies \in SUBSET Nat
      BY ApplicationNumbers DEF IInv
    <2>3. AckStep(endpoint[e], r.endpoint) /\ SendStep(endpoint[e], r.endpoint, r.reply)
      BY <1>3, <2>1, <2>2, ReceiveSteps
    <2> QED
      BY <1>4, <2>3
  <1>8. DOMAIN delivered[e] \subseteq DOMAIN delivered'[e]
    BY <1>5 DEF Delivered
  <1>9. KeepsAll(e) => DOMAIN delivered'[Other(e)] = DOMAIN delivered[Other(e)]
    <2>1. CASE r.reply = 0
      BY <1>5, <2>1
    <2>2. CASE r.reply # 0
      BY <1>5, <1>6, <2>2, NoneForgotten
    <2> QED
      BY <2>1, <2>2
  <1>10. running \in DOMAIN Applications
    BY DEF IInv
  <1> QED
    BY <1>4, <1>5, <1>6, <1>7, <1>8, <1>9, <1>10, PeerStepCounts

\* A step that leaves the packets sent, their counters and what was taken alone.
LEMMA SameCounts ==
  ASSUME UNCHANGED running, CountInv,
         \A e \in Peers : /\ endpoint'[e].sent_packets = endpoint[e].sent_packets
                          /\ endpoint'[e].counters = endpoint[e].counters
                          /\ sends'[e] = sends[e] /\ delivered'[e] = delivered[e]
  PROVE  CountInv'
  <1>1. Application' = Application
    BY DEF Application
  <1> SUFFICES ASSUME NEW e \in Peers, KeepsAll(e)
               PROVE  /\ sends'[e] <= Application.sends[e]
                      /\ Counts(endpoint'[e], sends'[e], DOMAIN delivered'[Other(e)])
    BY <1>1 DEF CountInv, KeepsAll
  <1>2. sends[e] <= Application.sends[e] /\ Counts(endpoint[e], sends[e], DOMAIN delivered[Other(e)])
    BY DEF CountInv
  <1>3. Other(e) \in Peers
    BY OtherPeer
  <1> QED
    BY <1>2, <1>3 DEF Counts

\* After a reset nothing is counted, and nothing taken.
LEMMA ResetCounts ==
  ASSUME CountersWide, IInv, UNCHANGED running, PeersTrue', ResetBoth
  PROVE  CountInv'
  <1>1. Application' = Application /\ running \in DOMAIN Applications
    BY DEF Application, IInv
  <1> SUFFICES ASSUME NEW e \in Peers
               PROVE  /\ sends'[e] <= Application.sends[e]
                      /\ Counts(endpoint'[e], sends'[e], DOMAIN delivered'[Other(e)])
    BY <1>1 DEF CountInv, KeepsAll
  <1>2. Application.sends[e] \in Nat
    BY <1>1, ConnectionAssumption DEF Application, ApplicationRecords
  <1>3. sends'[e] = 0 /\ endpoint'[e] = AfterReset(endpoint[e])
    BY DEF ResetBoth
  <1>4. endpoint[e] \in Endpoints(SUBSET Messages)
    BY EndsAreTrue DEF PeersTrue, EndTrue, WellFormed
  <1>5. endpoint'[e].counters = [c \in Counted |-> 0]
    BY <1>3, <1>4 DEF AfterReset, Endpoints
  <1>6. DOMAIN delivered'[Other(e)] = {}
    BY OtherPeer DEF ResetBoth
  <1>7. Settled({}, endpoint'[e].sent_packets, 0) = {}
    BY DEF Settled
  <1>8. Cardinality({}) = 0
    BY FS_EmptySet
  <1>9. endpoint'[e].counters["packets_acked"] = 0 /\ endpoint'[e].counters["packets_sent"] = 0
    BY <1>5 DEF CountersWide
  <1> QED
    BY <1>2, <1>3, <1>6, <1>7, <1>8, <1>9 DEF Counts

\* Initially.
LEMMA InitCounts ==
  ASSUME CountersWide, Init
  PROVE  CountInv
  <1> SUFFICES ASSUME NEW e \in Peers
               PROVE  /\ sends[e] <= Application.sends[e]
                      /\ Counts(endpoint[e], sends[e], DOMAIN delivered[Other(e)])
    BY DEF CountInv
  <1>1. Application.sends[e] \in Nat
    BY ConnectionAssumption DEF Init, Application, ApplicationRecords
  <1>2. /\ sends[e] = 0 /\ endpoint[e] = NewEndpoint
        /\ DOMAIN delivered[Other(e)] = {}
    BY OtherPeer DEF Init
  <1>3. endpoint[e].counters = [c \in Counted |-> 0]
    BY <1>2 DEF NewEndpoint
  <1>4. Settled({}, endpoint[e].sent_packets, 0) = {}
    BY DEF Settled
  <1>5. Cardinality({}) = 0
    BY FS_EmptySet
  <1>6. endpoint[e].counters["packets_acked"] = 0 /\ endpoint[e].counters["packets_sent"] = 0
    BY <1>3 DEF CountersWide
  <1> QED
    BY <1>1, <1>2, <1>4, <1>5, <1>6 DEF Counts

\* Every step keeps the counters right.
LEMMA NextCounts ==
  ASSUME SizesFit, CountersWide, IInv, PeersTrue, PeersTrue', CountInv, [Next]_vars
  PROVE  CountInv'
  <1> UNCHANGED running
    BY DEF Next, vars
  <1>1. ASSUME NEW e \in Peers, NEW bytes \in Application.sizes[e], Send(e, bytes)
        PROVE  CountInv'
    <2>1. bytes \in Nat
      BY <1>1, ApplicationNumbers DEF IInv
    <2> QED
      BY <1>1, <2>1, SendCounts
  <1>2. ASSUME NEW e \in Peers, NEW x \in net[e], Receive(e, x)
        PROVE  CountInv'
    BY <1>2, ReceiveCounts
  <1>3. ASSUME NEW e \in Peers, NEW x \in net[e], Lose(e, x)
        PROVE  CountInv'
    BY <1>3, SameCounts DEF Lose
  <1>4. ASSUME NEW e \in Peers, ClearAcks(e)
        PROVE  CountInv'
    <2>1. ASSUME NEW p \in Peers
          PROVE  /\ endpoint'[p].sent_packets = endpoint[p].sent_packets
                 /\ endpoint'[p].counters = endpoint[p].counters
      <3>1. endpoint'[p] = IF p = e THEN AcksCleared(endpoint[p]) ELSE endpoint[p]
        BY <1>4 DEF ClearAcks, IInv
      <3>2. WellFormed(SUBSET Messages, endpoint[p])
        BY DEF PeersTrue, EndTrue
      <3> QED
        BY <3>1, <3>2, ClearedWellFormed
    <2>2. sends' = sends /\ delivered' = delivered
      BY <1>4 DEF ClearAcks
    <2> QED
      BY <2>1, <2>2, SameCounts
  <1>5. ASSUME ResetBoth
        PROVE  CountInv'
    BY <1>5, ResetCounts
  <1>6. ASSUME UNCHANGED vars
        PROVE  CountInv'
    BY <1>6, SameCounts DEF vars
  <1> QED
    BY <1>1, <1>2, <1>3, <1>4, <1>5, <1>6 DEF Next

\* As long as no delivery is forgotten, an end never counts more packets acked than
\* the callback of the other end took, nor did that take more than the end counts as
\* sent: however often acks are repeated, acks that found no room are reported later,
\* and entries that wait for an ack are overwritten.
THEOREM CountersAgreeHolds ==
  ASSUME SizesFit, CountersWide
  PROVE  Spec => []CountersAgree
  <1>1. Init => CountInv
    BY InitCounts
  <1>2. IInv /\ IInv' /\ CountInv /\ [Next]_vars => CountInv'
    <2> SUFFICES ASSUME IInv, IInv', CountInv, [Next]_vars
                 PROVE  CountInv'
      OBVIOUS
    <2>1. PeersTrue
      BY EndsAreTrue
    <2>2. PeersTrue'
      BY EndsAreTrue, PTL
    <2> QED
      BY <2>1, <2>2, NextCounts
  <1>3. IInv /\ CountInv => CountersAgree
    <2> SUFFICES ASSUME IInv, CountInv, NEW e \in Peers, KeepsAll(e)
                 PROVE  /\ endpoint[e].counters["packets_acked"]
                             <= Cardinality(DOMAIN delivered[Other(e)])
                        /\ Cardinality(DOMAIN delivered[Other(e)])
                             <= endpoint[e].counters["packets_sent"]
      BY DEF CountersAgree, KeepsAll
    <2> DEFINE contents == DOMAIN delivered[Other(e)]
               settled == Settled(contents, endpoint[e].sent_packets, sends[e])
    <2>1. EndTrue(endpoint[e], sends[e], contents)
      BY EndsAreTrue DEF PeersTrue
    <2>2. Counts(endpoint[e], sends[e], contents)
      BY DEF CountInv
    <2>3. /\ IsFiniteSet(contents) /\ Cardinality(contents) <= sends[e]
          /\ endpoint[e].counters \in [Counted -> 0 .. (CounterMod - 1)]
      BY <2>1, TrueEndFields
    <2>4. /\ endpoint[e].counters["packets_acked"] <= Cardinality(settled)
          /\ endpoint[e].counters["packets_sent"] = sends[e]
      BY <2>2 DEF Counts
    <2>5. settled \in SUBSET contents
      BY DEF Settled
    <2> HIDE DEF settled, contents
    <2>6. /\ Cardinality(settled) \in Nat /\ Cardinality(contents) \in Nat
          /\ Cardinality(settled) <= Cardinality(contents)
      BY <2>3, <2>5, FS_Subset, FS_CardinalityType
    <2>7. endpoint[e].counters["packets_acked"] \in Int
      BY <2>3 DEF CountersWide
    <2>8. endpoint[e].counters["packets_acked"] <= Cardinality(contents)
      BY <2>4, <2>6, <2>7
    <2> QED
      BY <2>3, <2>4, <2>8 DEF contents
  <1> QED
    BY <1>1, <1>2, <1>3, ConnectionAgrees, PTL DEF Spec
=============================================================================
