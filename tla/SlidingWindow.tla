---------------------------- MODULE SlidingWindow ----------------------------
(***************************************************************************)
(* What a sequence buffer promises, without slots and without comparisons  *)
(* of wrapping integers: it remembers a set of sequences, all of them      *)
(* among the Size that precede next on the circle, and it forgets one only *)
(* when next has moved past it by more than Size, or on request.           *)
(***************************************************************************)
EXTENDS SequenceNumbers

CONSTANT Size

VARIABLES next,       \* one past the newest sequence
          present     \* the sequences the buffer says it holds

window == <<next, present>>

Age(q) == Distance(next, q)

InWindow(q) == Age(q) \in 1 .. Size

\* The number of sequences next moves by when s becomes the newest.
Step(s) == Distance(s + 1, next)

Forward(s) == Step(s) \in 1 .. Half

\* What is still in the window once next has moved d further.
Kept(d) == {q \in present : Age(q) + d <= Size}

Init == next = 0 /\ present = {}

\* A new sequence becomes the newest.
Push(s) == /\ Forward(s)
           /\ next' = U16(s + 1)
           /\ present' = Kept(Step(s)) \cup {s}

\* A sequence of the window arrives late.
Fill(s) == /\ InWindow(s)
           /\ present' = present \cup {s}
           /\ UNCHANGED next

\* The window moves, and s itself is not remembered.
Skip(s) == /\ Forward(s)
           /\ next' = U16(s + 1)
           /\ present' = Kept(Step(s))

Forget(s) == /\ s \in present
             /\ present' = present \ {s}
             /\ UNCHANGED next

Clear == next' = 0 /\ present' = {}

Next == \/ \E s \in Seqs : Push(s) \/ Fill(s) \/ Skip(s) \/ Forget(s)
        \/ Clear

Spec == Init /\ [][Next]_window
=============================================================================
