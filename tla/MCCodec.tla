------------------------------- MODULE MCCodec ---------------------------------
EXTENDS Codec

\* The corners of the encoding that gen_vectors.c walks through.
Sequences == {0, 1, 255, 256, 1000, 32768, 65535, 7}

Acks == {0, 1, 254, 255, 256, 999, 65535, 32760}

Masks == {<<255, 255, 255, 255>>, <<0, 0, 0, 0>>, <<0, 255, 255, 255>>,
          <<255, 255, 255, 0>>, <<239, 190, 173, 222>>, <<0, 255, 0, 255>>,
          <<255, 0, 0, 0>>, <<255, 0, 255, 255>>}

Header(s, ack, mask) == [sequence |-> s, ack |-> ack, ack_bits |-> mask]

\* Every header of the conformance vectors, with payloads sent whole and split.
Vectors == {[header |-> Header(s, ack, mask), payload |-> p]
              : s \in Sequences, ack \in Acks, mask \in Masks,
                p \in {<<77>>, <<255, 0, 32, 1, 2>>}}

\* Two and three fragments; payload bytes that look like headers.
Split == {[header |-> Header(256, 0, <<255, 254, 255, 255>>), payload |-> <<1, 32, 255>>],
          [header |-> Header(1, 0, <<127, 255, 255, 255>>), payload |-> <<0, 255, 1, 1, 32>>]}

VectorsAndSplit == Vectors \cup Split

\* What other senders may put on the wire under sequence 256: a fragment 0 with
\* a byte too few or with a mask byte that should be absent, a last fragment
\* with a byte too many, and half a header.
Forged ==
  {<<1, 0, 1, 0, 1, 32, 0, 1, 255, 9>>,
   <<1, 0, 1, 0, 1, 34, 0, 1, 255, 255, 9, 8>>,
   <<1, 0, 1, 1, 1, 9, 8, 7>>,
   <<62, 0, 1, 255, 0, 0, 0>>}
=============================================================================
