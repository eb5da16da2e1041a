------------------------------ MODULE Connection ------------------------------
(***************************************************************************)
(* Two endpoints and the network between them.  What one transmits may be  *)
(* lost, come twice, come late and come in any order; the applications     *)
(* send, take or reject what they get, read their acks when they like, and *)
(* reset both ends together once the network is empty.                     *)
(*                                                                         *)
(* Sequences wrap, so what an endpoint promises depends on how long the    *)
(* network keeps packets and how far an endpoint runs ahead of what the    *)
(* other has seen.  The code cannot enforce either; MaxLife and MaxLead    *)
(* say what is assumed.  The message number id counts the packets sent and *)
(* does not wrap; it exists only in the model.                             *)
(***************************************************************************)
EXTENDS EndpointState

CONSTANTS Peers,               \* the two endpoints
          Applications,        \* [names -> what the applications do, and bounds]
          MaxLife,             \* sends of an endpoint a packet may live through
          MaxLead              \* packets sent and not seen by the other end

\* sizes of the packets each end sends, and of those its process callback sends
\* (0: nothing); bounds on its sends since the reset, on what is on the way to
\* it, and on the messages whose deliveries are kept.
ApplicationRecords ==
  [sizes   : [Peers -> SUBSET (1 .. MaxPacketSize)],
   replies : SUBSET (0 .. MaxPacketSize),
   sends   : [Peers -> Nat],
   flight  : [Peers -> Nat],
   memory  : Nat \ {0}]

ASSUME ConnectionAssumption ==
  /\ \E e, o \in Peers : e # o /\ Peers = {e, o}
  /\ \A name \in DOMAIN Applications :
       /\ Applications[name] \in ApplicationRecords
       /\ Applications[name].memory >= MaxLife
       /\ Applications[name].memory >= SentSize
  /\ {MaxLife, MaxLead} \subseteq Nat \ {0}

Messages == [id : Nat, bytes : Nat]

\* A pointer to a block is not the null pointer.
ASSUME BlockAssumption == NULL \notin Reassemblies(SUBSET Messages)

\* No packet outlives half the sequence space, and no ack the whole of it: an
\* ack can name a packet AckWidth older than the newest seen, which is MaxLead
\* behind the newest sent, and arrive MaxLife sends later.
ASSUME NetworkAssumption ==
  /\ MaxLife <= Half
  /\ MaxLead + MaxLife + AckWidth <= SeqMod

VARIABLES running,     \* the applications that run, by name; never changes
          endpoint,    \* [Peers -> the state of the endpoint]
          net,         \* [Peers -> set of packets on their way to it]
          sends,       \* [Peers -> number of packets it has sent]
          delivered    \* [Peers -> message contents taken -> how many times]

vars == <<running, endpoint, net, sends, delivered>>

Other(e) == CHOOSE o \in Peers : o # e

Application == Applications[running]

Init == /\ running \in DOMAIN Applications
        /\ endpoint = [e \in Peers |-> NewEndpoint]
        /\ net = [e \in Peers |-> {}]
        /\ sends = [e \in Peers |-> 0]
        /\ delivered = [e \in Peers |-> << >>]

-----------------------------------------------------------------------------
\* The number of the message that has sequence s, as e sent it or will.
IdSent(e, s) == sends[e] - Distance(sends[e], s)

\* The number of e's messages its peer has seen the sequence of.
Seen(e) == sends[e] - Distance(sends[e], endpoint[Other(e)].received_packets.sequence)

\* Another send neither outlives a packet in the network nor runs too far ahead.
MaySend(e) ==
  /\ sends[e] < Application.sends[e]
  /\ sends[e] - Seen(e) < MaxLead
  /\ \A o \in Peers : \A x \in net[o] : sends[e] - x.born[e] < MaxLife

Message(e, bytes) == [id |-> sends[e], bytes |-> bytes]

\* What e, in state ep, transmits when it sends bytes.
Outgoing(e, ep, bytes) ==
  {[packet |-> p, born |-> sends] : p \in Transmitted(ep, bytes, {Message(e, bytes)}, MaxHeader)}

\* The network takes some of the packets; the others are lost.
Transmits(e, packets) ==
  \E kept \in SUBSET packets :
     /\ net' = [net EXCEPT ![Other(e)] = @ \cup kept]
     /\ Cardinality(net'[Other(e)]) <= Application.flight[Other(e)]

\* Deliveries of messages too old to come again are forgotten.
Recent(contents, n) ==
  {c \in DOMAIN contents : \E m \in c.payload : m.id >= n - Application.memory}

Remembered(contents, n) == [c \in Recent(contents, n) |-> contents[c]]

Send(e, bytes) ==
  /\ MaySend(e)
  /\ CanSend(endpoint[e])
  /\ endpoint' = [endpoint EXCEPT ![e] = Sent(@, bytes)]
  /\ sends' = [sends EXCEPT ![e] = @ + 1]
  /\ Transmits(e, Outgoing(e, endpoint[e], bytes))
  /\ delivered' = [delivered EXCEPT ![Other(e)] = Remembered(@, sends'[e])]

-----------------------------------------------------------------------------
Content(p) == [payload |-> p.payload, bytes |-> p.bytes]

Times(contents, c) == IF c \in DOMAIN contents THEN contents[c] ELSE 0

Delivered(contents, taken) ==
  LET new == {Content(p) : p \in taken}
  IN  [c \in DOMAIN contents \cup new |->
         Times(contents, c) + (IF c \in new THEN 1 ELSE 0)]

\* A packet arrives, and may stay in the network to arrive again.
Receive(e, x) ==
  \E r \in Results(endpoint[e], x.packet, Application.replies) :
     /\ r.reply # 0 => MaySend(e)
     /\ endpoint' = [endpoint EXCEPT ![e] = r.endpoint]
     /\ LET heard == Delivered(delivered[e], r.taken)
        IN  IF r.reply = 0
              THEN /\ delivered' = [delivered EXCEPT ![e] = heard]
                   /\ UNCHANGED <<sends, net>>
              ELSE /\ sends' = [sends EXCEPT ![e] = @ + 1]
                   /\ delivered' = [o \in Peers |->
                        IF o = e THEN heard ELSE Remembered(delivered[o], sends'[e])]
                   /\ Transmits(e, Outgoing(e, r.during, r.reply))

Lose(e, x) == /\ net' = [net EXCEPT ![e] = @ \ {x}]
              /\ UNCHANGED <<endpoint, sends, delivered>>

ClearAcks(e) == /\ endpoint' = [endpoint EXCEPT ![e] = AcksCleared(@)]
                /\ UNCHANGED <<net, sends, delivered>>

ResetBoth == /\ \A e \in Peers : net[e] = {}
             /\ endpoint' = [e \in Peers |-> AfterReset(endpoint[e])]
             /\ sends' = [e \in Peers |-> 0]
             /\ delivered' = [e \in Peers |-> << >>]
             /\ UNCHANGED net

Next ==
  /\ \E e \in Peers :
       \/ \E bytes \in Application.sizes[e] : Send(e, bytes)
       \/ \E x \in net[e] : Receive(e, x) \/ Lose(e, x)
       \/ ClearAcks(e)
       \/ ResetBoth
  /\ UNCHANGED running

Spec == Init /\ [][Next]_vars

-----------------------------------------------------------------------------
\* No message is taken twice by the process callback, for as long as a copy
\* of it may travel: not across the wrap of the sequence, not after its entry
\* left the buffer of received packets, not whole and in fragments.
DeliveredOnce ==
  \A e \in Peers : \A c \in DOMAIN delivered[e] :
     /\ delivered[e][c] = 1
     /\ \A d \in DOMAIN delivered[e] \ {c} : c.payload \cap d.payload = {}

\* What the callback takes is one message as it was sent: reassembly never
\* mixes the fragments of two packets, nor hands on a packet of another size.
DeliveredIntact ==
  \A e \in Peers : \A c \in DOMAIN delivered[e] :
     \E m \in c.payload : c.payload = {m} /\ c.bytes = m.bytes

\* A packet is acked only if the other end's callback took it: an ack is
\* never read as one for a packet of another lap, nor sent for a packet that
\* was rejected, dropped, or only received in part.
AckedWasDelivered ==
  \A e \in Peers : \A i \in Slots(endpoint[e].sent_packets) :
     LET sent == endpoint[e].sent_packets
     IN  Occupied(sent, i) /\ sent.entry_data[i] =>
           \E c \in DOMAIN delivered[Other(e)] :
              \E m \in c.payload : m.id = IdSent(e, sent.entry_sequence[i])

\* A packet that was taken is not collected again: fragments of it that come
\* late or twice do not open a reassembly entry anew.
NotReassembledAgain ==
  \A e \in Peers : \A i \in Slots(endpoint[e].fragment_reassembly) :
     LET reassembly == endpoint[e].fragment_reassembly
         parts == reassembly.entry_data[i].parts
     IN  Occupied(reassembly, i) =>
           \A c \in DOMAIN delivered[e] : \A k \in DOMAIN parts :
              parts[k].payload \cap c.payload = {}

\* While no delivery is forgotten: no endpoint counts more packets acked than
\* the other end's callback has taken, nor those more than it counts as sent,
\* however acks are repeated, dropped for want of room and reported later.
CountersAgree ==
  \A e \in Peers :
     LET taken == Cardinality(DOMAIN delivered[Other(e)])
     IN  Application.memory >= Application.sends[e] =>
           /\ endpoint[e].counters["packets_acked"] <= taken
           /\ taken <= endpoint[e].counters["packets_sent"]
=============================================================================
