---------------------------- MODULE MCConnection -----------------------------
EXTENDS Connection

CONSTANTS A, B

BothPeers == {A, B}

Each(ofA, ofB) == [e \in {A, B} |-> IF e = A THEN ofA ELSE ofB]

\* A wraps around its sequences and B sends what brings the acks, of which two
\* can overtake each other; the process callbacks answer.
Acks == [sizes   |-> Each({1}, {1}),
         replies |-> {0, 1},
         sends   |-> Each(SeqMod + 2, 2),
         flight  |-> Each(2, 1),
         memory  |-> 3]

\* Both send, and every delivery is kept.
Counts == [sizes   |-> Each({1}, {1}),
           replies |-> {0, 1},
           sends   |-> Each(4, 3),
           flight  |-> Each(1, 1),
           memory  |-> 4]

\* A sends packets that fit and packets of two fragments, and B nothing.
Fragments == [sizes   |-> Each({1, 3}, {}),
              replies |-> {0},
              sends   |-> Each(SeqMod + 2, 0),
              flight  |-> Each(0, 3),
              memory  |-> 3]

All == [acks |-> Acks, counts |-> Counts, fragments |-> Fragments]

OnlyFragments == [fragments |-> Fragments]
=============================================================================
