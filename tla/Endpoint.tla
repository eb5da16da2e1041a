------------------------------- MODULE Endpoint -------------------------------
(***************************************************************************)
(* One endpoint, its application, and a network that may deliver any of    *)
(* the Packets at any time: nothing is assumed of a peer.  A call of the   *)
(* API runs to its end before the next one, as in the code, which takes    *)
(* no locks; only the process callback may call send_packet in between.    *)
(***************************************************************************)
EXTENDS EndpointState

CONSTANTS Packets,             \* what the network may deliver
          SendSizes,           \* sizes the application sends
          ReplySizes           \* sizes the process callback sends; 0: nothing

VARIABLE endpoint

Payloads == {p.payload : p \in Packets}

ASSUME TrafficAssumption ==
  /\ Packets \subseteq RegularPackets(Payloads) \cup FragmentPackets(Payloads)
  /\ SendSizes \subseteq Nat \ {0}
  /\ ReplySizes \subseteq 0 .. MaxPacketSize

\* packet_data is NULL only where there is no block.
ASSUME BlockAssumption == NULL \notin Reassemblies(Payloads)

Init == endpoint = NewEndpoint

-----------------------------------------------------------------------------
Send(bytes) ==
  /\ bytes <= MaxPacketSize
  /\ CanSend(endpoint)
  /\ endpoint' = Sent(endpoint, bytes)

RefuseToSend(bytes) ==
  /\ bytes > MaxPacketSize
  /\ endpoint' = SendTooLarge(endpoint)

\* receive_packet, one action for each of its ways through.
ReceiveRegular(p) ==
  /\ p.type = "regular"
  /\ \E r \in RegularResults(endpoint, p, ReplySizes) : endpoint' = r.endpoint

ReceiveIgnored(p) ==
  /\ p.type = "fragment"
  /\ ~Stored(endpoint, p)
  /\ endpoint' = Ignored(endpoint, p)

ReceivePart(p) ==
  /\ p.type = "fragment"
  /\ Stored(endpoint, p)
  /\ ~Completes(endpoint, p)
  /\ endpoint' = CountFragment(AfterStore(endpoint, p))

ReceiveLastPart(p) ==
  /\ p.type = "fragment"
  /\ Stored(endpoint, p)
  /\ Completes(endpoint, p)
  /\ \E r \in CompletionResults(endpoint, p, ReplySizes) : endpoint' = r.endpoint

ClearAcks == endpoint' = AcksCleared(endpoint)

Reset == endpoint' = AfterReset(endpoint)

\* What the application does, and what the network does.
Call == \/ \E bytes \in SendSizes : Send(bytes) \/ RefuseToSend(bytes)
        \/ ClearAcks
        \/ Reset

Receive(p) == ReceiveRegular(p) \/ ReceiveIgnored(p) \/ ReceivePart(p) \/ ReceiveLastPart(p)

Next == Call \/ \E p \in Packets : Receive(p)

Spec == Init /\ [][Next]_endpoint

-----------------------------------------------------------------------------
\* The types of the fields of reliable_endpoint_t.
TypeOK == endpoint \in Endpoints(Payloads)

\* The buffers an endpoint keeps move together on every path: received packets
\* and fragment reassembly end at the same sequence (so a fragment that is too
\* old to be received is also too old to be reassembled), and the sent packets
\* end at the next sequence to send.
Lockstep ==
  /\ endpoint.received_packets.sequence = endpoint.fragment_reassembly.sequence
  /\ endpoint.sent_packets.sequence = endpoint.sequence

\* reliable_assert( sent_packet_data ): the buffer of sent packets takes the
\* next sequence, whatever was sent before it.
SendNeverBlocked == CanSend(endpoint)

\* A block of packet_data for every occupied reassembly entry and no other:
\* eviction by newer packets, completion, the recursive receive and reset
\* neither leak one nor free it twice.
BlocksAccounted ==
  LET reassembly == endpoint.fragment_reassembly
  IN  /\ \A i \in Slots(reassembly) :
            Occupied(reassembly, i) <=> reassembly.entry_data[i] # NULL
      /\ endpoint.allocated = Freed(reassembly, Slots(reassembly))

\* An entry left in the buffer always misses a fragment: a packet whose last
\* fragment has come is handed on, and its entry freed, within the same call.
ReassemblyOpen ==
  LET reassembly == endpoint.fragment_reassembly
  IN  \A i \in Slots(reassembly) :
         Occupied(reassembly, i) => ~Complete(reassembly.entry_data[i])

\* All three buffers stay windows whatever the network delivers.
Windows ==
  /\ Windowed(endpoint.sent_packets)
  /\ Windowed(endpoint.received_packets)
  /\ Windowed(endpoint.fragment_reassembly)

\* The ack array is never written past its end.
AcksFit == Len(endpoint.acks) <= AckBufferSize

\* STANDARD.md on ack_bits: bit n set means ack - n - 1 was received.
AckBitsAsDocumented ==
  LET received == endpoint.received_packets
  IN  \A n \in 0 .. (AckWidth - 1) :
         n \in AckBits(received, AckWidth) <=> Exists(received, U16(Ack(received) - n - 1))

-----------------------------------------------------------------------------
SentPackets == Present(endpoint.sent_packets)

AckedNow(q) == endpoint.sent_packets.entry_data[Slot(endpoint.sent_packets, q)]

ReportStep ==
  LET added    == SubSeq(endpoint'.acks, Len(endpoint.acks) + 1, Len(endpoint'.acks))
      reported == {added[k] : k \in DOMAIN added}
  IN  /\ Cardinality(reported) = Len(added)
      /\ \A q \in reported : q \in SentPackets' /\ AckedNow(q)'
      /\ \A q \in SentPackets \cap SentPackets' :
           IF AckedNow(q) THEN AckedNow(q)' /\ q \notin reported
                          ELSE AckedNow(q)' <=> q \in reported
      /\ \A c \in Counted \cap {"packets_acked"} :
           \/ endpoint'.counters[c] = (endpoint.counters[c] + Len(added)) % CounterMod
           \/ Reset

\* Acks are reported once and none is lost on the way: while a packet is
\* remembered it stays acked once it is, it becomes acked exactly when its
\* sequence is added to the ack array, and it is added and counted only once.
\* (An ack that finds the array full leaves its packet unacked, to be reported
\* later.)
AckReportedOnce == [][ReportStep]_endpoint

Reassembling == Present(endpoint.fragment_reassembly)

GrowStep ==
  \A s \in Reassembling \cap Reassembling' :
    LET before == UnderReassembly(endpoint, s)
        after  == UnderReassembly(endpoint', s)
    IN  /\ after.num_fragments_total = before.num_fragments_total
        /\ \A i \in DOMAIN before.parts :
             i \in DOMAIN after.parts /\ after.parts[i] = before.parts[i]

\* Fragments of a packet only ever add to it: while its entry is held, what
\* has been stored of it and the number of fragments it is made of stay as
\* they are, whatever duplicates or fragments of another lap come in.
ReassemblyOnlyGrows == [][GrowStep]_endpoint
=============================================================================
