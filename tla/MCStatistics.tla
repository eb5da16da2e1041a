----------------------------- MODULE MCStatistics -----------------------------
EXTENDS Statistics

\* Packets of the peer: under sequence s, with acks up to ack.
From(s, ack, bits) ==
  [type |-> "regular", readable |-> TRUE, sequence |-> s, ack |-> ack, ack_bits |-> bits,
   header |-> 1, bytes |-> 1, payload |-> {}]

\* One packet acked.
OnePacket == {From(0, 0, {0})}

\* Acks that come in order, late and twice; the last names a packet that is in
\* the slot of the first two, one window later.  The window of received packets
\* moves far enough for its older half to be sampled.
FewPackets == {From(0, 1, {0, 1}), From(1, 0, {0}), From(3, 4, {0, 1})}
=============================================================================
