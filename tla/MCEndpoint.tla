----------------------------- MODULE MCEndpoint ------------------------------
EXTENDS Endpoint

Regular(s, ack, bits, bytes) ==
  [type |-> "regular", readable |-> TRUE, sequence |-> s, ack |-> ack,
   ack_bits |-> bits, header |-> 1, bytes |-> bytes, payload |-> {"x"}]

Fragment(s, ack, bits, bytes, id, total) ==
  [type |-> "fragment", readable |-> TRUE, sequence |-> s, ack |-> ack,
   ack_bits |-> bits, header |-> IF id = 0 THEN 1 ELSE 0, bytes |-> bytes,
   payload |-> {"x"}, fragment_id |-> id, num_fragments |-> total]

Unreadable(p) == [p EXCEPT !.readable = FALSE]

\* Packets with every sequence and every ack, some of them too long or
\* unreadable.  The masks ack one packet or two; a packet that acks nothing
\* new is among them whenever ack is not in the buffer.
AckTraffic ==
  {Regular(s, ack, bits, 1) : s \in Seqs, ack \in Seqs, bits \in {{1}, {0, 1}}}
    \cup {Unreadable(Regular(0, 0, {0}, 1)), Regular(1, 0, {0}, MaxPacketSize + 1),
          Regular(1, 0, {0}, MaxPacketSize + 100)}

\* Fragments of two and of three for every sequence, and regular packets
\* among them.
FragmentTraffic ==
  UNION {{Fragment(s, 1, {0, 1}, 2, 0, 2), Fragment(s, 0, {}, 1, 1, 2),
          Fragment(s, 2, {1}, 2, 0, 3), Regular(s, 1, {0}, 1)} : s \in Seqs}
    \cup {Unreadable(Fragment(0, 0, {}, 2, 0, 2)), Fragment(1, 0, {}, 1, 0, 2),
          Fragment(1, 0, {}, 1, 2, 2), Fragment(2, 0, {}, 100, 1, 2),
          Fragment(2, 0, {}, 1, 0, 1), Fragment(0, 0, {}, 2, 0, 4)}

\* The two kinds of traffic, each with behaviours of its own.
Kinds == [acks |-> AckTraffic, fragments |-> FragmentTraffic]

Traffic == UNION {Kinds[kind] : kind \in DOMAIN Kinds}

VARIABLE network

NextOfNetwork == /\ Call \/ \E p \in Kinds[network] : Receive(p)
                 /\ UNCHANGED network

InitOfNetwork == Init /\ network \in DOMAIN Kinds

SpecOfNetwork == InitOfNetwork /\ [][NextOfNetwork]_<<endpoint, network>>
=============================================================================
