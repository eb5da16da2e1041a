--------------------------- MODULE Endpoint_proofs ----------------------------
(***************************************************************************)
(* What an endpoint keeps true for every configuration, whatever its       *)
(* application calls and the network delivers.  The inductive invariant is *)
(* that it is WellFormed (EndpointState_proofs): its type, its buffers in  *)
(* step, acks that fit, and a block for every occupied reassembly entry    *)
(* have to be proved together.  That the buffers are windows, that no      *)
(* entry holds a whole packet, that an ack is reported once and that what  *)
(* is stored of a packet only grows, are proved on top of it.              *)
(***************************************************************************)
EXTENDS Endpoint, EndpointState_proofs

\* The inductive invariant of Spec.
EndpointWellFormed == WellFormed(Payloads, endpoint)

\* What the network delivers has the fields the lemmas ask for.
LEMMA PacketFields ==
  ASSUME NEW p \in Packets
  PROVE  /\ p.sequence \in Seqs /\ p.ack \in Seqs
         /\ p.type = "fragment" => p \in FragmentPackets(Payloads)
  BY TrafficAssumption DEF RegularPackets, FragmentPackets

\* The assumptions on the traffic, in the form the lemmas ask for.
LEMMA TrafficSizes ==
  /\ ReplySizes \in SUBSET Nat
  /\ \A bytes \in SendSizes : bytes \in Nat
  /\ NULL \notin Reassemblies(Payloads)
  <1>1. MaxPacketSize \in Nat
    BY ConfigAssumption
  <1> QED
    BY <1>1, TrafficAssumption, BlockAssumption

\* Every step leaves a well formed endpoint, and three windows where there were
\* three.
LEMMA StepWellFormed ==
  ASSUME Half > 1, WellFormed(Payloads, endpoint), [Next]_endpoint
  PROVE  /\ WellFormed(Payloads, endpoint')
         /\ SizesFitCircle /\ AllWindowed(endpoint) => AllWindowed(endpoint')
  <1> DEFINE Kept == /\ WellFormed(Payloads, endpoint')
                     /\ SizesFitCircle /\ AllWindowed(endpoint) => AllWindowed(endpoint')
  <1>1. ASSUME NEW bytes \in SendSizes, Send(bytes)
        PROVE  Kept
    BY <1>1, TrafficSizes, SentWellFormed DEF Send, SizesFitCircle
  <1>2. ASSUME NEW bytes \in SendSizes, RefuseToSend(bytes)
        PROVE  Kept
    <2>1. /\ endpoint' \in Endpoints(Payloads)
          /\ SameButCounters(endpoint, endpoint')
      BY <1>2, CountOneChanges DEF RefuseToSend, SendTooLarge, WellFormed
    <2> QED
      BY <2>1, CountWellFormed
  <1>3. ASSUME NEW p \in Packets, ReceiveRegular(p)
        PROVE  Kept
    <2>1. PICK r \in RegularResults(endpoint, p, ReplySizes) : endpoint' = r.endpoint
      BY <1>3 DEF ReceiveRegular
    <2> QED
      BY <2>1, TrafficSizes, PacketFields, RegularWellFormed
  <1>4. ASSUME NEW p \in Packets, ReceiveIgnored(p)
        PROVE  Kept
    BY <1>4, IgnoredWellFormed DEF ReceiveIgnored
  <1>5. ASSUME NEW p \in Packets, ReceivePart(p)
        PROVE  Kept
    <2>1. Storable(Payloads, endpoint, p)
      BY <1>5, PacketFields DEF Storable, ReceivePart
    <2>2. endpoint' = CountFragment(AfterStore(endpoint, p))
      BY <1>5 DEF ReceivePart
    <2> QED
      BY <2>1, <2>2, TrafficSizes, PartWellFormed
  <1>6. ASSUME NEW p \in Packets, ReceiveLastPart(p)
        PROVE  Kept
    <2>1. Storable(Payloads, endpoint, p)
      BY <1>6, PacketFields DEF Storable, ReceiveLastPart
    <2>2. PICK r \in CompletionResults(endpoint, p, ReplySizes) : endpoint' = r.endpoint
      BY <1>6 DEF ReceiveLastPart
    <2> QED
      BY <2>1, <2>2, TrafficSizes, CompletionWellFormed
  <1>7. ASSUME ClearAcks
        PROVE  Kept
    BY <1>7, ClearedWellFormed DEF ClearAcks
  <1>8. ASSUME Reset
        PROVE  Kept
    BY <1>8, ResetWellFormed DEF Reset
  <1>9. ASSUME UNCHANGED endpoint
        PROVE  Kept
    BY <1>9
  <1> QED
    BY <1>1, <1>2, <1>3, <1>4, <1>5, <1>6, <1>7, <1>8, <1>9 DEF Next, Call, Receive

\* The invariant holds always.
LEMMA AlwaysWellFormed ==
  ASSUME Half > 1
  PROVE  Spec => []EndpointWellFormed
  <1>1. Init => EndpointWellFormed
    BY CreatedWellFormed DEF Init, EndpointWellFormed
  <1>2. EndpointWellFormed /\ [Next]_endpoint => EndpointWellFormed'
    BY StepWellFormed DEF EndpointWellFormed
  <1> QED
    BY <1>1, <1>2, PTL DEF Spec

-----------------------------------------------------------------------------
(* What the invariant says.                                                *)

\* Every field of reliable_endpoint_t keeps its type: 16-bit sequences, buffers
\* of the configured sizes whose entries hold what their owner puts there,
\* counters below CounterMod.
THEOREM TypeCorrect ==
  ASSUME Half > 1
  PROVE  Spec => []TypeOK
  <1>1. EndpointWellFormed => TypeOK
    BY DEF EndpointWellFormed, WellFormed, TypeOK
  <1> QED
    BY <1>1, AlwaysWellFormed, PTL

\* Whatever is sent, received, refused, reassembled or reset, received packets
\* and fragment reassembly end at the same sequence, and the sent packets at
\* the next one to send.
THEOREM BuffersInLockstep ==
  ASSUME Half > 1
  PROVE  Spec => []Lockstep
  <1>1. EndpointWellFormed => Lockstep
    BY DEF EndpointWellFormed, WellFormed, Lockstep
  <1> QED
    BY <1>1, AlwaysWellFormed, PTL

\* However many packets one mask acks, the acks array is never written past its
\* end: an ack that finds it full is left for later.
THEOREM AckArrayFits ==
  ASSUME Half > 1
  PROVE  Spec => []AcksFit
  <1>1. EndpointWellFormed => AcksFit
    BY DEF EndpointWellFormed, WellFormed, AcksFit
  <1> QED
    BY <1>1, AlwaysWellFormed, PTL

\* Reassembly neither leaks a packet_data block nor frees one twice: in every
\* state the blocks not yet freed are those of the occupied entries.
THEOREM NoBlockLost ==
  ASSUME Half > 1
  PROVE  Spec => []BlocksAccounted
  <1>1. EndpointWellFormed => BlocksAccounted
    BY DEF EndpointWellFormed, WellFormed, BlocksAccounted, Accounted
  <1> QED
    BY <1>1, AlwaysWellFormed, PTL

\* The assertion on the entry of a sent packet cannot fail: with a buffer of
\* fewer than 32768 sent packets, send_packet finds room in every state, however
\* many packets were sent before and whatever has come in.
THEOREM SendAlwaysAccepted ==
  ASSUME Half > 1, SentSize < Half
  PROVE  Spec => []SendNeverBlocked
  <1>1. EndpointWellFormed => SendNeverBlocked
    <2> SUFFICES ASSUME WellFormed(Payloads, endpoint)
                 PROVE  TestInsert(endpoint.sent_packets, endpoint.sequence)
      BY DEF EndpointWellFormed, SendNeverBlocked, CanSend
    <2>1. /\ endpoint.sent_packets \in Buffer(SentSize, BOOLEAN)
          /\ endpoint.sent_packets.sequence = endpoint.sequence
      BY DEF WellFormed, Endpoints
    <2> QED
      BY <2>1, NextAccepted, ConfigNumbers
  <1> QED
    BY <1>1, AlwaysWellFormed, PTL

\* With sizes that fit the circle of sequences, as the default ones do, every
\* sequence that a buffer holds lies in its slot, within the num_entries before
\* the newest: nothing older survives, however far the sequences jump.
THEOREM BuffersAreWindows ==
  ASSUME Half > 1, SizesFitCircle
  PROVE  Spec => []Windows
  <1> DEFINE IInv == EndpointWellFormed /\ AllWindowed(endpoint)
  <1>1. Init => IInv
    BY CreatedWellFormed DEF Init, EndpointWellFormed
  <1>2. IInv /\ [Next]_endpoint => IInv'
    BY StepWellFormed DEF EndpointWellFormed
  <1>3. IInv => Windows
    BY DEF AllWindowed, Windows
  <1> QED
    BY <1>1, <1>2, <1>3, PTL DEF Spec

-----------------------------------------------------------------------------
(* Reassembly entries                                                      *)

NoneComplete(b) == \A i \in Slots(b) : Occupied(b, i) => ~Complete(b.entry_data[i])

\* Entries that are kept stay incomplete.
LEMMA KeptNoneComplete ==
  ASSUME NEW b, NEW c, NEW J, Slots(c) = Slots(b), NoneComplete(b), KeptOutside(b,
         c, J),
         \A i \in J : Occupied(c, i) => ~Complete(c.entry_data[i])
  PROVE  NoneComplete(c)
  BY DEF NoneComplete, KeptOutside, Occupied

\* The slots of the reassembly buffer.
LEMMA SlotsOfReassembly ==
  ASSUME NEW P, NEW ep, WellFormed(P, ep)
  PROVE  Slots(ep.fragment_reassembly) = 0 .. (ReassemblySize - 1)
  BY SlotsValue, ConfigNumbers DEF WellFormed, Endpoints

\* A packet whose last fragment has come does not stay in the buffer, whether
\* its process callback takes it, refuses it, or is never called.
THEOREM NoPacketLeftWhole ==
  ASSUME Half > 1
  PROVE  Spec => []ReassemblyOpen
  <1> DEFINE IInv == EndpointWellFormed /\ NoneComplete(endpoint.fragment_reassembly)
  <1>1. Init => IInv
    <2>1. \A b : (\A i \in Slots(b) : ~Occupied(b, i)) => NoneComplete(b)
      BY DEF NoneComplete
    <2>2. \A i \in Slots(NewEndpoint.fragment_reassembly) :
             ~Occupied(NewEndpoint.fragment_reassembly, i)
      BY DEF NewEndpoint, CreateBuffer, Slots, Occupied
    <2> QED
      BY <2>1, <2>2, CreatedWellFormed DEF Init, EndpointWellFormed
  <1>2. ASSUME IInv, [Next]_endpoint PROVE IInv'
    <2> DEFINE b == endpoint.fragment_reassembly
               c == endpoint'.fragment_reassembly
    <2>1. WellFormed(Payloads, endpoint) /\ WellFormed(Payloads, endpoint')
      BY <1>2, StepWellFormed DEF EndpointWellFormed
    <2>2. Slots(c) = Slots(b) /\ Slots(b) = 0 .. (ReassemblySize - 1) /\ NoneComplete(b)
      BY <1>2, <2>1, SlotsOfReassembly
    <2>3. ASSUME c = b PROVE NoneComplete(c)
      BY <2>2, <2>3
    <2>4. ASSUME NEW bytes \in SendSizes, Send(bytes)
          PROVE  NoneComplete(c)
      BY <2>1, <2>3, <2>4, TrafficSizes, SentChanges DEF Send, WellFormed
    <2>5. ASSUME NEW bytes \in SendSizes, RefuseToSend(bytes)
          PROVE  NoneComplete(c)
      BY <2>1, <2>3, <2>5, CountOneChanges
         DEF RefuseToSend, SendTooLarge, WellFormed, SameButCounters
    <2>6. ASSUME NEW p \in Packets, ReceiveRegular(p)
          PROVE  NoneComplete(c)
      <3>1. PICK r \in RegularResults(endpoint, p, ReplySizes) : endpoint' = r.endpoint
        BY <2>6 DEF ReceiveRegular
      <3>2. KeptOutside(b, c, {})
        BY <2>1, <3>1, TrafficSizes, PacketFields, RegularKept DEF WellFormed
      <3> QED
        BY <2>2, <3>2, KeptNoneComplete
    <2>7. ASSUME NEW p \in Packets, ReceiveIgnored(p)
          PROVE  NoneComplete(c)
      BY <2>1, <2>3, <2>7, IgnoredWellFormed DEF ReceiveIgnored, SameButCounters
    <2>8. ASSUME NEW p \in Packets, ReceivePart(p)
          PROVE  NoneComplete(c)
      <3> DEFINE j == Slot(b, p.sequence)
                 stored == AfterStore(endpoint, p)
      <3>1. Storable(Payloads, endpoint, p) /\ ~Complete(UnderReassembly(stored, p.sequence))
        BY <2>8, PacketFields DEF Storable, ReceivePart, Completes
      <3>2. /\ KeptOutside(b, stored.fragment_reassembly, {j})
            /\ WellFormed(Payloads, stored)
        BY <2>1, <3>1, TrafficSizes, StoredWellFormed
      <3>3. c = stored.fragment_reassembly
        BY <2>1, <2>8, <3>1, TrafficSizes, PartWellFormed DEF ReceivePart, SameButCounters
      <3>4. Slot(c, p.sequence) = j
        <4>1. b.num_entries = ReassemblySize /\ c.num_entries = ReassemblySize
          BY <2>1, SlotsValue, ConfigNumbers DEF WellFormed, Endpoints
        <4> QED
          BY <4>1 DEF Slot
      <3>5. ~Complete(c.entry_data[j])
        BY <3>1, <3>3, <3>4 DEF UnderReassembly
      <3> HIDE DEF j, c, b, stored
      <3> QED
        BY <2>2, <3>2, <3>3, <3>5, KeptNoneComplete
    <2>9. ASSUME NEW p \in Packets, ReceiveLastPart(p)
          PROVE  NoneComplete(c)
      <3>1. Storable(Payloads, endpoint, p)
        BY <2>9, PacketFields DEF Storable, ReceiveLastPart
      <3>2. PICK r \in CompletionResults(endpoint, p, ReplySizes) : endpoint' = r.endpoint
        BY <2>9 DEF ReceiveLastPart
      <3>3. /\ KeptOutside(b, c, {Slot(b, p.sequence)})
            /\ ~Occupied(c, Slot(b, p.sequence))
        BY <2>1, <3>1, <3>2, TrafficSizes, CompletionWellFormed
      <3> HIDE DEF c, b
      <3> QED
        BY <2>2, <3>3, KeptNoneComplete
    <2>10. ASSUME ClearAcks
          PROVE  NoneComplete(c)
      BY <2>1, <2>3, <2>10, ClearedWellFormed DEF ClearAcks
    <2>11. ASSUME Reset
          PROVE  NoneComplete(c)
      <3>1. \A i \in 0 .. (ReassemblySize - 1) : ~Occupied(c, i)
        BY <2>1, <2>11, ResetWellFormed DEF Reset
      <3> QED
        BY <2>2, <3>1 DEF NoneComplete
    <2>12. NoneComplete(c)
      BY <1>2, <2>3, <2>4, <2>5, <2>6, <2>7, <2>8, <2>9, <2>10, <2>11
         DEF Next, Call, Receive
    <2> QED
      BY <2>1, <2>12 DEF EndpointWellFormed
  <1>3. IInv => ReassemblyOpen
    BY DEF NoneComplete, ReassemblyOpen
  <1> QED
    BY <1>1, <1>2, <1>3, PTL DEF Spec

-----------------------------------------------------------------------------
(* Acks and reassembly from one step to the next                           *)

\* A step that does about acks what AckStep allows is one of the property.
LEMMA AckStepReports ==
  ASSUME AckStep(endpoint, endpoint')
  PROVE  ReportStep
  BY Zenon DEF AckStep, AddedAcks, Elements, ReportStep, SentPackets, AckedNow, Acked

\* send_packet reports nothing, and forgets one packet at most.
LEMMA SendReports ==
  ASSUME Half > 1, SizesFitCircle, WellFormed(Payloads, endpoint),
         AllWindowed(endpoint),
         NEW bytes \in SendSizes, Send(bytes) \/ RefuseToSend(bytes)
  PROVE  ReportStep
  <1>1. WellFormed(Payloads, endpoint') /\ AllWindowed(endpoint')
    BY StepWellFormed DEF Next, Call
  <1>2. CASE Send(bytes)
    <2>1. SentOnly(endpoint, endpoint')
      BY <1>2, TrafficSizes, SendSentOnly DEF Send, SizesFitCircle, AllWindowed
    <2> QED
      BY <1>1, <2>1, AckStepOfSend, AckStepReports DEF WellFormed, AllWindowed
  <1>3. CASE RefuseToSend(bytes)
    <2>1. SameForAcks(endpoint, endpoint')
      BY <1>3, CountSameForAcks DEF RefuseToSend, SendTooLarge, WellFormed
    <2>2. SentOnly(endpoint, endpoint')
      BY <2>1 DEF SentOnly, SameForAcks
    <2> QED
      BY <1>1, <2>2, AckStepOfSend, AckStepReports DEF WellFormed, AllWindowed
  <1> QED
    BY <1>2, <1>3

\* A fragment that is ignored reports nothing.
LEMMA IgnoredReports ==
  ASSUME Half > 1, SizesFitCircle, WellFormed(Payloads, endpoint),
         AllWindowed(endpoint),
         NEW p \in Packets, ReceiveIgnored(p)
  PROVE  ReportStep
  <1>1. WellFormed(Payloads, endpoint') /\ AllWindowed(endpoint')
    BY StepWellFormed DEF Next, Receive
  <1>2. "packets_acked" \notin IgnoreCounters[WhyIgnored(endpoint, p)]
    BY DEF ReceiveIgnored, Stored, WhyIgnored, IgnoreCounters
  <1>3. SameForAcks(endpoint, endpoint')
    BY <1>2, CountSameForAcks DEF ReceiveIgnored, Ignored, WellFormed
  <1>4. SentOnly(endpoint, endpoint')
    BY <1>3 DEF SentOnly, SameForAcks
  <1> QED
    BY <1>1, <1>4, AckStepOfSend, AckStepReports DEF WellFormed, AllWindowed

\* Nor does one that does not complete its packet.
LEMMA PartReports ==
  ASSUME Half > 1, SizesFitCircle, WellFormed(Payloads, endpoint),
         AllWindowed(endpoint),
         NEW p \in Packets, ReceivePart(p)
  PROVE  ReportStep
  <1> DEFINE stored == AfterStore(endpoint, p)
  <1>1. WellFormed(Payloads, endpoint') /\ AllWindowed(endpoint')
    BY StepWellFormed DEF Next, Receive
  <1>2. Storable(Payloads, endpoint, p) /\ endpoint' = CountFragment(stored)
    BY PacketFields DEF Storable, ReceivePart
  <1>3. WellFormed(Payloads, stored)
    BY <1>2, TrafficSizes, StoredWellFormed
  <1>4. SameForAcks(endpoint, stored)
    BY StoredKeeps DEF WellFormed, SameForAcks
  <1> HIDE DEF stored
  <1>5. SameForAcks(stored, CountFragment(stored))
    BY <1>3, CountSameForAcks DEF CountFragment, WellFormed
  <1>6. SentOnly(endpoint, endpoint')
    BY <1>2, <1>4, <1>5 DEF SentOnly, SameForAcks
  <1> QED
    BY <1>1, <1>6, AckStepOfSend, AckStepReports DEF WellFormed, AllWindowed

\* clear_acks and reset empty the array.
LEMMA EmptiedReports ==
  ASSUME WellFormed(Payloads, endpoint), ClearAcks \/ Reset
  PROVE  ReportStep
  <1> DEFINE added == AddedAcks(endpoint, endpoint')
  <1>1. endpoint \in Endpoints(Payloads)
    BY DEF WellFormed
  <1>2. endpoint'.acks = << >>
    BY ClearedWellFormed, ResetWellFormed DEF ClearAcks, Reset
  <1>3. \A q \in Present(endpoint.sent_packets) \cap Present(endpoint'.sent_packets) :
           Acked(endpoint'.sent_packets, q) = Acked(endpoint.sent_packets, q)
    <2>1. CASE ClearAcks
      BY <2>1, ClearedWellFormed DEF ClearAcks
    <2>2. CASE Reset
      <3>1. WellFormed(Payloads, endpoint')
        BY <2>2, ResetWellFormed DEF Reset
      <3>2. \A i \in 0 .. (SentSize - 1) : ~Occupied(endpoint'.sent_packets, i)
        BY <2>2, ResetWellFormed DEF Reset
      <3>3. endpoint'.sent_packets \in Buffer(SentSize, BOOLEAN)
        BY <3>1 DEF WellFormed, Endpoints
      <3>4. Present(endpoint'.sent_packets) = {}
        BY <3>2, <3>3, SlotsValue, ConfigNumbers DEF Present, Occupied
      <3> QED
        BY <3>4
    <2> QED
      BY <2>1, <2>2
  <1>4. ClearAcks => \A c \in Counted \cap {"packets_acked"} :
                        endpoint'.counters[c] = (endpoint.counters[c] + 0) % CounterMod
    <2> SUFFICES ASSUME ClearAcks, NEW c \in Counted
                 PROVE  endpoint'.counters[c] = (endpoint.counters[c] + 0) % CounterMod
      OBVIOUS
    <2>1. endpoint'.counters = endpoint.counters
      BY ClearedWellFormed DEF ClearAcks
    <2>2. endpoint.counters[c] \in 0 .. (CounterMod - 1)
      BY <1>1 DEF Endpoints
    <2> QED
      BY <2>1, <2>2, ConfigNumbers
  <1>5. /\ Len(added) = 0
        /\ Cardinality(Elements(added)) = Len(added)
        /\ \A q \in Elements(added) : q \in Present(endpoint'.sent_packets)
                                      /\ Acked(endpoint'.sent_packets, q)
        /\ \A q \in Present(endpoint.sent_packets) \cap Present(endpoint'.sent_packets) :
             IF Acked(endpoint.sent_packets, q)
               THEN Acked(endpoint'.sent_packets, q) /\ q \notin Elements(added)
               ELSE Acked(endpoint'.sent_packets, q) <=> q \in Elements(added)
    BY <1>1, <1>2, <1>3, EmptyAckStep
  <1>6. \A c \in Counted \cap {"packets_acked"} :
           \/ endpoint'.counters[c] = (endpoint.counters[c] + Len(added)) % CounterMod
           \/ Reset
    <2> HIDE DEF added
    <2> QED
      BY <1>4, <1>5
  <1> QED
    BY <1>5, <1>6, Zenon DEF AddedAcks, Elements, ReportStep, SentPackets, AckedNow, Acked

\* Whatever acks come in, in whatever order, repeated, late or of packets long
\* forgotten: a sent packet is reported at most once while it is remembered,
\* becomes acked exactly when it is reported, and stays acked.
THEOREM AcksReportedOnce ==
  ASSUME Half > 1, SizesFitCircle
  PROVE  Spec => AckReportedOnce
  <1> DEFINE IInv == EndpointWellFormed /\ AllWindowed(endpoint)
  <1>1. Init => IInv
    BY CreatedWellFormed DEF Init, EndpointWellFormed
  <1>2. IInv /\ [Next]_endpoint => IInv'
    BY StepWellFormed DEF EndpointWellFormed
  <1>3. IInv /\ [Next]_endpoint => [ReportStep]_endpoint
    <2> SUFFICES ASSUME WellFormed(Payloads, endpoint), AllWindowed(endpoint), Next
                 PROVE  ReportStep
      BY DEF EndpointWellFormed
    <2>1. ASSUME NEW p \in Packets, ReceiveRegular(p)
          PROVE  ReportStep
      <3>1. PICK r \in RegularResults(endpoint, p, ReplySizes) : endpoint' = r.endpoint
        BY <2>1 DEF ReceiveRegular
      <3>2. AckStep(endpoint, r.endpoint)
        BY TrafficSizes, PacketFields, RegularAckStep DEF SizesFitCircle, AllWindowed
      <3> QED
        BY <3>1, <3>2, AckStepReports
    <2>2. ASSUME NEW p \in Packets, ReceiveLastPart(p)
          PROVE  ReportStep
      <3>1. Storable(Payloads, endpoint, p)
        BY <2>2, PacketFields DEF Storable, ReceiveLastPart
      <3>2. PICK r \in CompletionResults(endpoint, p, ReplySizes) : endpoint' = r.endpoint
        BY <2>2 DEF ReceiveLastPart
      <3>3. AckStep(endpoint, r.endpoint)
        BY <3>1, TrafficSizes, CompletionAckStep DEF SizesFitCircle, AllWindowed
      <3> QED
        BY <3>2, <3>3, AckStepReports
    <2> QED
      BY <2>1, <2>2, SendReports, IgnoredReports, PartReports, EmptiedReports
         DEF Next, Call, Receive
  <1> QED
    BY <1>1, <1>2, <1>3, PTL DEF Spec, AckReportedOnce

\* While an entry is held, nothing that has been stored in it is replaced or
\* dropped, and the number of its fragments stays: a repeated fragment, one of
\* another size of packet or one of another lap of the sequences changes nothing.
THEOREM ReassemblyGrows ==
  ASSUME Half > 1, SizesFitCircle
  PROVE  Spec => ReassemblyOnlyGrows
  <1> DEFINE IInv == EndpointWellFormed /\ AllWindowed(endpoint)
             b == endpoint.fragment_reassembly
             c == endpoint'.fragment_reassembly
  <1>1. Init => IInv
    BY CreatedWellFormed DEF Init, EndpointWellFormed
  <1>2. IInv /\ [Next]_endpoint => IInv'
    BY StepWellFormed DEF EndpointWellFormed
  <1>3. IInv /\ [Next]_endpoint => [GrowStep]_endpoint
    <2> SUFFICES ASSUME WellFormed(Payloads, endpoint), AllWindowed(endpoint), Next
                 PROVE  Grown(endpoint, endpoint')
      BY DEF EndpointWellFormed, Grown, GrowStep, Reassembling
    <2>1. /\ WellFormed(Payloads, endpoint') /\ AllWindowed(endpoint')
          /\ Windowed(b) /\ Windowed(c)
      BY StepWellFormed DEF AllWindowed
    <2>2. ASSUME c = b PROVE Grown(endpoint, endpoint')
      BY <2>2 DEF Grown, UnderReassembly
    <2>3. ASSUME NEW bytes \in SendSizes, Send(bytes) \/ RefuseToSend(bytes)
          PROVE  c = b
      <3>1. CASE Send(bytes)
        BY <3>1, TrafficSizes, SentChanges DEF Send, WellFormed
      <3>2. CASE RefuseToSend(bytes)
        BY <3>2, CountOneChanges DEF RefuseToSend, SendTooLarge, WellFormed, SameButCounters
      <3> QED
        BY <2>3, <3>1, <3>2
    <2>4. ASSUME NEW p \in Packets, ReceiveRegular(p)
          PROVE  Grown(endpoint, endpoint')
      <3>1. PICK r \in RegularResults(endpoint, p, ReplySizes) : endpoint' = r.endpoint
        BY <2>4 DEF ReceiveRegular
      <3>2. KeptOutside(b, c, {})
        BY <3>1, TrafficSizes, PacketFields, RegularKept DEF WellFormed
      <3> QED
        BY <2>1, <3>2, TrafficSizes, KeptGrown
    <2>5. ASSUME NEW p \in Packets, ReceiveIgnored(p)
          PROVE  c = b
      BY <2>5, IgnoredWellFormed DEF ReceiveIgnored, SameButCounters
    <2>6. ASSUME NEW p \in Packets, ReceivePart(p)
          PROVE  Grown(endpoint, endpoint')
      <3>1. Storable(Payloads, endpoint, p)
        BY <2>6, PacketFields DEF Storable, ReceivePart
      <3>2. c = AfterStore(endpoint, p).fragment_reassembly
        BY <2>6, <3>1, TrafficSizes, PartWellFormed DEF ReceivePart, SameButCounters
      <3>3. Grown(endpoint, AfterStore(endpoint, p))
        BY <2>1, <3>1, <3>2, TrafficSizes, StoredGrows
      <3> QED
        BY <3>2, <3>3, SameGrown
    <2>7. ASSUME NEW p \in Packets, ReceiveLastPart(p)
          PROVE  Grown(endpoint, endpoint')
      <3>1. Storable(Payloads, endpoint, p)
        BY <2>7, PacketFields DEF Storable, ReceiveLastPart
      <3>2. PICK r \in CompletionResults(endpoint, p, ReplySizes) : endpoint' = r.endpoint
        BY <2>7 DEF ReceiveLastPart
      <3>3. /\ KeptOutside(b, c, {Slot(b, p.sequence)})
            /\ ~Occupied(c, Slot(b, p.sequence))
        BY <3>1, <3>2, TrafficSizes, CompletionWellFormed
      <3> QED
        BY <2>1, <3>3, TrafficSizes, KeptGrown
    <2>8. ASSUME ClearAcks PROVE c = b
      BY <2>8, ClearedWellFormed DEF ClearAcks
    <2>9. ASSUME Reset PROVE Grown(endpoint, endpoint')
      <3>1. \A i \in 0 .. (ReassemblySize - 1) : ~Occupied(c, i)
        BY <2>9, ResetWellFormed DEF Reset
      <3>2. Present(c) = {}
        BY <2>1, <3>1, SlotsOfReassembly DEF Present
      <3> QED
        BY <3>2 DEF Grown
    <2> QED
      BY <2>2, <2>3, <2>4, <2>5, <2>6, <2>7, <2>8, <2>9 DEF Next, Call, Receive
  <1> QED
    BY <1>1, <1>2, <1>3, PTL DEF Spec, ReassemblyOnlyGrows
=============================================================================
