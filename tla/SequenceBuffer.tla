--------------------------- MODULE SequenceBuffer ----------------------------
(***************************************************************************)
(* One reliable_sequence_buffer_t driven by its owner.  An endpoint has    *)
(* two kinds of owner: the sent and received packet buffers use the plain  *)
(* operations, fragment reassembly the ones with a cleanup function, and   *)
(* stores a heap block in every entry it inserts.                          *)
(***************************************************************************)
EXTENDS SequenceBuffers

CONSTANT NumEntries

\* The asserts of reliable_sequence_buffer_create.
ASSUME NumEntriesAssumption == NumEntries \in Nat \ {0}

VARIABLES buffer,
          allocated        \* blocks the owner got and the buffer has not freed

vars == <<buffer, allocated>>

Block == "block"

ASSUME NullAssumption == NULL # Block

Init == buffer = CreateBuffer(NumEntries, NULL) /\ allocated = 0

-----------------------------------------------------------------------------
(* The plain operations, for any 16-bit sequence.                          *)

InsertPlain(s) == /\ TestInsert(buffer, s)
                  /\ buffer' = Insert(buffer, s)
                  /\ UNCHANGED allocated

AdvancePlain(s) == buffer' = Advance(buffer, s) /\ UNCHANGED allocated

\* An owner removes only what it has found.
RemovePlain(s) == /\ Exists(buffer, s)
                  /\ buffer' = Remove(buffer, s)
                  /\ UNCHANGED allocated

ResetPlain == buffer' = ResetBuffer(buffer) /\ UNCHANGED allocated

NextPlain == \/ \E s \in Seqs : InsertPlain(s) \/ AdvancePlain(s) \/ RemovePlain(s)
             \/ ResetPlain

-----------------------------------------------------------------------------
(* The operations of an owner whose entries hold blocks.                   *)

\* The owner inserts what it has not found, then allocates the entry's block.
InsertOwned(s) ==
  /\ ~Exists(buffer, s)
  /\ ~InsertRefused(buffer, s)
  /\ buffer' = [InsertWithCleanup(buffer, s) EXCEPT !.entry_data[Slot(buffer, s)] = Block]
  /\ allocated' = allocated - Freed(buffer, InsertCleans(buffer, s)) + 1

AdvanceOwned(s) ==
  /\ buffer' = AdvanceWithCleanup(buffer, s)
  /\ allocated' = allocated - Freed(buffer, Overtaken(buffer, s))

RemoveOwned(s) ==
  /\ Exists(buffer, s)
  /\ buffer' = RemoveWithCleanup(buffer, s)
  /\ allocated' = allocated - Freed(buffer, RemoveCleans(buffer, s))

\* reliable_endpoint_reset frees the blocks of the occupied slots itself.
ResetOwned ==
  LET held == {i \in Slots(buffer) : Occupied(buffer, i)}
  IN  /\ buffer' = ResetBuffer(Cleanup(buffer, held))
      /\ allocated' = allocated - Freed(buffer, held)

NextOwned == \/ \E s \in Seqs : InsertOwned(s) \/ AdvanceOwned(s) \/ RemoveOwned(s)
             \/ ResetOwned

SpecPlain == Init /\ [][NextPlain]_vars

SpecOwned == Init /\ [][NextOwned]_vars

-----------------------------------------------------------------------------
Buffers == Buffer(NumEntries, {NULL, Block})

\* The buffer's fields have the types of reliable_sequence_buffer_t; an entry
\* is -1 (0xFFFFFFFF in the code) or a 16-bit sequence.
TypeOK == buffer \in Buffers /\ allocated \in Int

\* The sizes for which the slots stay a window across the wrap from 65535 to
\* 0.  The default sizes (256 and 64) are such; create asserts only n > 0.
WindowSize == /\ NumEntries > 1
              /\ NumEntries < Half
              /\ SeqMod % NumEntries = 0

\* Every occupied slot holds a sequence at its own index, and one of the
\* num_entries sequences before buffer.sequence: nothing survives from an
\* earlier lap of the ring or of the sequence space, whatever is inserted.
WindowInv == Windowed(buffer)

\* A sequence the buffer holds is never called stale (so the receive path
\* reaches its duplicate test) and never ahead (so inserting it again leaves
\* the rest of the window alone).
HeldIsCurrent ==
  \A s \in Seqs : Exists(buffer, s) => ~Stale(buffer, s) /\ ~Ahead(buffer, s)

\* Only occupied slots hold blocks, and the owner's blocks are those of the
\* slots: none leaks when it is overtaken, replaced, removed or reset, and none
\* is freed twice.
BlocksAccounted ==
  /\ \A i \in Slots(buffer) : buffer.entry_data[i] # NULL => Occupied(buffer, i)
  /\ allocated = Freed(buffer, Slots(buffer))

Window == INSTANCE SlidingWindow
            WITH Size <- NumEntries,
                 next <- buffer.sequence,
                 present <- Present(buffer)

\* insert, advance, remove and reset, as done on the slots, are the steps of
\* the sliding window of SlidingWindow: what is forgotten is forgotten by age.
ImplementsWindow == Window!Spec
=============================================================================
