--------------------------- MODULE SequenceNumbers ---------------------------
(***************************************************************************)
(* 16-bit packet sequence numbers of reliable.c and the comparison that    *)
(* makes them circular.  The code has uint16_t, so Half = 32768; a model   *)
(* with a smaller Half keeps every wrap-around and every tie.              *)
(***************************************************************************)
EXTENDS Integers

CONSTANT Half                        \* 32768: half of the sequence space

ASSUME HalfAssumption == Half \in Nat \ {0}

SeqMod == 2 * Half                   \* 65536

Seqs == 0 .. (SeqMod - 1)            \* uint16_t

\* Conversion of an int to uint16_t.
U16(x) == x % SeqMod

\* reliable_sequence_greater_than: numbers exactly Half apart are ordered as
\* integers, so the relation stays a total one on distinct numbers.
GreaterThan(s1, s2) == \/ s1 > s2 /\ s1 - s2 <= Half
                       \/ s1 < s2 /\ s2 - s1 > Half

LessThan(s1, s2) == GreaterThan(s2, s1)

\* How far one must count up from b to reach a, in 0..SeqMod-1.
Distance(a, b) == U16(a - b)
=============================================================================
