--------------------------- MODULE SequenceBuffers ---------------------------
(***************************************************************************)
(* The operations of reliable_sequence_buffer_t as operators on a record   *)
(*   [num_entries, sequence, entry_sequence, entry_data]                   *)
(* whose entry_sequence and entry_data are functions on 0..num_entries-1.  *)
(* What an entry holds belongs to the buffer's owner; an owner that never  *)
(* reads it leaves entry_data out.  The *_with_cleanup operations apply to *)
(* owners whose entry holds a heap block, or NULL once it has been freed.  *)
(***************************************************************************)
EXTENDS SequenceNumbers, FiniteSets

CONSTANT NULL                        \* no heap block

Empty == -1                          \* 0xFFFFFFFF: the slot holds no sequence

Slots(b) == 0 .. (b.num_entries - 1)

Slot(b, s) == s % b.num_entries

\* The buffers of n entries, each of which holds one of data.
Buffer(n, data) ==
  [num_entries    : {n},
   sequence       : Seqs,
   entry_sequence : [0 .. (n - 1) -> Seqs \cup {Empty}],
   entry_data     : [0 .. (n - 1) -> data]]

\* reliable_sequence_buffer_create; data is what the zeroed entry stands for.
CreateBuffer(n, data) ==
  [num_entries    |-> n,
   sequence       |-> 0,
   entry_sequence |-> [i \in 0 .. (n - 1) |-> Empty],
   entry_data     |-> [i \in 0 .. (n - 1) |-> data]]

\* reliable_sequence_buffer_reset: the entries' data stays as it is.
ResetBuffer(b) ==
  [b EXCEPT !.sequence = 0, !.entry_sequence = [i \in Slots(b) |-> Empty]]

-----------------------------------------------------------------------------
Exists(b, s) == b.entry_sequence[Slot(b, s)] = s

\* What at_index returns an entry for.
Occupied(b, i) == b.entry_sequence[i] # Empty

\* Mutants of Stale: one entry less than the buffer has; no wrap-around.
StaleTooSoon(b, s) == LessThan(s, U16(b.sequence - U16(b.num_entries) + 1))

StaleNoWrap(b, s) == s < U16(b.sequence - U16(b.num_entries))

\* The sequence is too old for the window that ends at b.sequence.
Stale(b, s) == LessThan(s, U16(b.sequence - U16(b.num_entries)))

TestInsert(b, s) == ~Stale(b, s)

\* The sequence lies beyond everything seen so far.
Ahead(b, s) == GreaterThan(U16(s + 1), b.sequence)

\* Mutants of ClearedSlots: the last sequence is left out; no wrap-around.
ClearedSlotsButLast(b, start, finish) ==
  LET last == IF finish < start THEN finish + SeqMod ELSE finish
  IN  IF last - start < b.num_entries
        THEN {Slot(b, q) : q \in start .. (last - 1)}
        ELSE Slots(b)

ClearedSlotsNoWrap(b, start, finish) ==
  IF finish - start < b.num_entries
    THEN {Slot(b, q) : q \in start .. finish}
    ELSE Slots(b)

\* The slots remove_entries( start, finish ) clears.
ClearedSlots(b, start, finish) ==
  LET last == IF finish < start THEN finish + SeqMod ELSE finish
  IN  IF last - start < b.num_entries
        THEN {Slot(b, q) : q \in start .. last}
        ELSE Slots(b)

\* The slots cleared when s is inserted or advanced to.
Overtaken(b, s) == IF Ahead(b, s) THEN ClearedSlots(b, b.sequence, s) ELSE {}

\* Mutant of Advance: the next sequence is not cut to 16 bits.
AdvanceNoWrap(b, s) ==
  [b EXCEPT !.sequence = IF Ahead(b, s) THEN s + 1 ELSE @,
            !.entry_sequence =
               [i \in Slots(b) |-> IF i \in Overtaken(b, s) THEN Empty ELSE @[i]]]

Advance(b, s) ==
  [b EXCEPT !.sequence = IF Ahead(b, s) THEN U16(s + 1) ELSE @,
            !.entry_sequence =
               [i \in Slots(b) |-> IF i \in Overtaken(b, s) THEN Empty ELSE @[i]]]

Store(b, s) == [b EXCEPT !.entry_sequence[Slot(b, s)] = s]

\* reliable_sequence_buffer_insert where it does not return NULL; it returns
\* NULL, and changes nothing, exactly for a Stale sequence.
Insert(b, s) == Store(Advance(b, s), s)

-----------------------------------------------------------------------------
\* Mutant of Cleanup: the pointer stays where the block was freed.
CleanupDangling(b, slots) == b

\* The cleanup function on a set of slots: free the block, leave NULL behind.
Cleanup(b, slots) ==
  [b EXCEPT !.entry_data = [i \in Slots(b) |-> IF i \in slots THEN NULL ELSE @[i]]]

\* How many blocks the cleanup of these slots hands back to the allocator.
Freed(b, slots) == Cardinality({i \in slots : b.entry_data[i] # NULL})

AdvanceWithCleanup(b, s) == Cleanup(Advance(b, s), Overtaken(b, s))

\* insert_with_cleanup asks first whether s is ahead: unlike Insert it takes
\* the num_entries sequences that are both ahead and too far from the window.
InsertRefused(b, s) == ~Ahead(b, s) /\ Stale(b, s)

\* The slots an accepted insert_with_cleanup cleans: those it overtakes, and
\* its own when something still occupies it.
InsertCleans(b, s) ==
  Overtaken(b, s) \cup {i \in {Slot(b, s)} : Occupied(Advance(b, s), i)}

InsertWithCleanup(b, s) == Store(Cleanup(Advance(b, s), InsertCleans(b, s)), s)

\* The slots remove_with_cleanup frees: the slot of s, whatever occupies it.
RemoveCleans(b, s) == {i \in {Slot(b, s)} : Occupied(b, i)}

Remove(b, s) == [b EXCEPT !.entry_sequence[Slot(b, s)] = Empty]

RemoveWithCleanup(b, s) == Cleanup(Remove(b, s), RemoveCleans(b, s))

-----------------------------------------------------------------------------
\* reliable_sequence_buffer_generate_ack_bits: the newest sequence, and the
\* set of bit positions set in the mask; width is 32.
Ack(b) == U16(b.sequence - 1)

AckBits(b, width) == {i \in 0 .. (width - 1) : Exists(b, U16(Ack(b) - i))}

-----------------------------------------------------------------------------
\* The sequences the buffer holds.
Present(b) == {b.entry_sequence[i] : i \in {j \in Slots(b) : Occupied(b, j)}}

\* Every occupied slot holds a sequence at its own index, and one of the
\* num_entries sequences before b.sequence.
Windowed(b) ==
  \A i \in Slots(b) : Occupied(b, i) =>
     /\ Slot(b, b.entry_sequence[i]) = i
     /\ Distance(b.sequence, b.entry_sequence[i]) \in 1 .. b.num_entries
=============================================================================
