------------------------ MODULE SequenceBuffer_proofs ------------------------
(***************************************************************************)
(* Theorems about one sequence buffer, for every Half and NumEntries.      *)
(***************************************************************************)
EXTENDS SequenceBuffer, SequenceBuffers_proofs

\* The lemmas about buffers of n entries, for NumEntries.
LEMMA ThisBuffer ==
  /\ NumEntries \in Nat \ {0} /\ NULL \in {NULL, Block} /\ Block # NULL
  /\ Buffers = Buffer(NumEntries, {NULL, Block})
  /\ WindowSize => FitsCircle(NumEntries)
  BY NumEntriesAssumption, NullAssumption DEF Buffers, WindowSize, FitsCircle

-----------------------------------------------------------------------------
(* The specifications.                                                     *)

\* Every reachable buffer is well formed.
THEOREM TypeCorrectPlain == SpecPlain => []TypeOK
<1>1. Init => TypeOK
  BY ThisBuffer, CreateType DEF Init, TypeOK
<1>2. TypeOK /\ [NextPlain]_vars => TypeOK'
  <2> SUFFICES ASSUME TypeOK, [NextPlain]_vars PROVE TypeOK'
    OBVIOUS
  <2> USE DEF TypeOK
  <2>1. ASSUME NEW s \in Seqs, InsertPlain(s) PROVE TypeOK'
    BY <2>1, ThisBuffer, AdvanceType, StoreType DEF InsertPlain, Insert
  <2>2. ASSUME NEW s \in Seqs, AdvancePlain(s) PROVE TypeOK'
    BY <2>2, ThisBuffer, AdvanceType DEF AdvancePlain
  <2>3. ASSUME NEW s \in Seqs, RemovePlain(s) PROVE TypeOK'
    BY <2>3, ThisBuffer, RemoveType DEF RemovePlain
  <2>4. CASE ResetPlain
    BY <2>4, ThisBuffer, ResetType DEF ResetPlain
  <2>5. CASE UNCHANGED vars
    BY <2>5 DEF vars
  <2> QED
    BY <2>1, <2>2, <2>3, <2>4, <2>5 DEF NextPlain
<1> QED
  BY <1>1, <1>2, PTL DEF SpecPlain

\* The plain operations keep the window, for every size that divides the
\* sequence space: from any history of insertions, advances and removals.
THEOREM WindowPlain == ASSUME WindowSize PROVE SpecPlain => []WindowInv
<1>1. Init => WindowInv
  BY ThisBuffer, CreateWindow DEF Init, WindowInv
<1>2. TypeOK /\ WindowInv /\ [NextPlain]_vars => WindowInv'
  <2> SUFFICES ASSUME TypeOK, WindowInv, [NextPlain]_vars PROVE WindowInv'
    OBVIOUS
  <2> USE DEF TypeOK, WindowInv
  <2>1. ASSUME NEW s \in Seqs, InsertPlain(s) PROVE WindowInv'
    BY <2>1, ThisBuffer, InsertWindow DEF InsertPlain, TestInsert
  <2>2. ASSUME NEW s \in Seqs, AdvancePlain(s) PROVE WindowInv'
    <3>1. CASE Ahead(buffer, s)
      BY <2>2, <3>1, ThisBuffer, AdvanceWindow DEF AdvancePlain
    <3>2. CASE ~Ahead(buffer, s)
      BY <2>2, <3>2, ThisBuffer, NoAdvance DEF AdvancePlain
    <3> QED
      BY <3>1, <3>2
  <2>3. ASSUME NEW s \in Seqs, RemovePlain(s) PROVE WindowInv'
    BY <2>3, ThisBuffer, RemoveWindow DEF RemovePlain
  <2>4. CASE ResetPlain
    BY <2>4, ThisBuffer, ResetWindow DEF ResetPlain
  <2>5. CASE UNCHANGED vars
    BY <2>5 DEF vars
  <2> QED
    BY <2>1, <2>2, <2>3, <2>4, <2>5 DEF NextPlain
<1> QED
  BY <1>1, <1>2, TypeCorrectPlain, PTL DEF SpecPlain

\* No sequence the buffer holds is ever taken for a stale or a newer one.
THEOREM HeldPlain == ASSUME WindowSize PROVE SpecPlain => []HeldIsCurrent
<1>1. TypeOK /\ WindowInv => HeldIsCurrent
  <2> SUFFICES ASSUME TypeOK, WindowInv, NEW s \in Seqs, Exists(buffer, s)
               PROVE  ~Stale(buffer, s) /\ ~Ahead(buffer, s)
    BY DEF HeldIsCurrent
  <2>1. s \in Present(buffer)
    BY ThisBuffer, PresentIff DEF TypeOK, WindowInv
  <2> QED
    BY <2>1, ThisBuffer, PresentWindow, CurrentIff DEF TypeOK, WindowInv
<1> QED
  BY <1>1, TypeCorrectPlain, WindowPlain, PTL

\* The operators of the abstract window are those of this module.
LEMMA WindowOperators ==
  /\ Window!Seqs = Seqs
  /\ \A x : Window!U16(x) = U16(x)
  /\ \A a, c : Window!Distance(a, c) = Distance(a, c)
  BY DEF Window!Seqs, Seqs, Window!U16, U16, Window!Distance, Distance,
         Window!SeqMod, SeqMod

\* The abstract steps, in this module's terms.
LEMMA WindowSteps ==
  ASSUME NEW s \in Seqs
  PROVE  /\ Window!Push(s) <=>
              /\ Distance(s + 1, buffer.sequence) \in 1 .. Half
              /\ buffer'.sequence = U16(s + 1)
              /\ Present(buffer') =
                   {q \in Present(buffer) : Distance(buffer.sequence, q)
                        + Distance(s + 1, buffer.sequence) <= NumEntries} \cup {s}
         /\ Window!Skip(s) <=>
              /\ Distance(s + 1, buffer.sequence) \in 1 .. Half
              /\ buffer'.sequence = U16(s + 1)
              /\ Present(buffer') =
                   {q \in Present(buffer) : Distance(buffer.sequence, q)
                        + Distance(s + 1, buffer.sequence) <= NumEntries}
         /\ Window!Fill(s) <=>
              /\ Distance(buffer.sequence, s) \in 1 .. NumEntries
              /\ Present(buffer') = Present(buffer) \cup {s}
              /\ buffer'.sequence = buffer.sequence
         /\ Window!Forget(s) <=>
              /\ s \in Present(buffer)
              /\ Present(buffer') = Present(buffer) \ {s}
              /\ buffer'.sequence = buffer.sequence
  <1>1. \A q : Window!Age(q) = Distance(buffer.sequence, q)
    BY WindowOperators DEF Window!Age
  <1>2. Window!Step(s) = Distance(s + 1, buffer.sequence)
    BY WindowOperators DEF Window!Step
  <1>3. \A d : Window!Kept(d) =
               {q \in Present(buffer) : Distance(buffer.sequence, q) + d <= NumEntries}
    BY <1>1 DEF Window!Kept
  <1>4. Window!U16(s + 1) = U16(s + 1)
    BY WindowOperators
  <1> QED
    BY <1>1, <1>2, <1>3, <1>4
    DEF Window!Push, Window!Skip, Window!Fill, Window!Forget, Window!Forward,
        Window!InWindow

\* The plain operations implement the sliding window.
THEOREM RefinementPlain == ASSUME WindowSize PROVE SpecPlain => ImplementsWindow
<1>1. Init => Window!Init
  <2>1. CreateBuffer(NumEntries, NULL).sequence = 0
    BY DEF CreateBuffer
  <2> QED
    BY <2>1, ThisBuffer, CreateWindow DEF Init, Window!Init
<1>2. TypeOK /\ WindowInv /\ [NextPlain]_vars => [Window!Next]_(Window!window)
  <2> SUFFICES ASSUME TypeOK, WindowInv, [NextPlain]_vars
               PROVE  Window!Next \/ UNCHANGED Window!window
    OBVIOUS
  <2> USE DEF TypeOK, WindowInv
  <2>1. ASSUME NEW s \in Seqs, InsertPlain(s) PROVE Window!Push(s) \/ Window!Fill(s)
    <3>1. /\ buffer' = Insert(buffer, s) /\ ~Stale(buffer, s)
          /\ buffer'.sequence = IF Ahead(buffer, s) THEN U16(s + 1) ELSE buffer.sequence
          /\ Present(buffer') = Present(Advance(buffer, s)) \cup {s}
      BY <2>1, ThisBuffer, InsertWindow DEF InsertPlain, TestInsert
    <3>2. CASE Ahead(buffer, s)
      BY <3>1, <3>2, ThisBuffer, AdvanceWindow, AheadStep, WindowSteps
    <3>3. CASE ~Ahead(buffer, s)
      BY <3>1, <3>3, ThisBuffer, NoAdvance, CurrentIff, WindowSteps
    <3> QED
      BY <3>2, <3>3
  <2>2. ASSUME NEW s \in Seqs, AdvancePlain(s)
        PROVE  Window!Skip(s) \/ UNCHANGED Window!window
    <3>1. buffer' = Advance(buffer, s)
      BY <2>2 DEF AdvancePlain
    <3>2. CASE Ahead(buffer, s)
      <4>1. buffer'.sequence = U16(s + 1)
        BY <3>1, <3>2, ThisBuffer, AdvanceFields
      <4> QED
        BY <3>1, <3>2, <4>1, ThisBuffer, AdvanceWindow, AheadStep, WindowSteps
    <3>3. CASE ~Ahead(buffer, s)
      BY <3>1, <3>3, ThisBuffer, NoAdvance DEF Window!window
    <3> QED
      BY <3>2, <3>3
  <2>3. ASSUME NEW s \in Seqs, RemovePlain(s) PROVE Window!Forget(s)
    <3>1. buffer' = Remove(buffer, s) /\ Exists(buffer, s)
      BY <2>3 DEF RemovePlain
    <3>2. buffer'.sequence = buffer.sequence
      BY <3>1 DEF Remove, Buffers
    <3> QED
      BY <3>1, <3>2, ThisBuffer, PresentIff, RemoveWindow, WindowSteps
  <2>4. CASE ResetPlain
    <3>1. buffer' = ResetBuffer(buffer) /\ buffer'.sequence = 0
      BY <2>4 DEF ResetPlain, ResetBuffer, Buffers
    <3> QED
      BY <3>1, ThisBuffer, ResetWindow DEF Window!Next, Window!Clear
  <2>5. CASE UNCHANGED vars
    BY <2>5 DEF vars, Window!window
  <2> QED
    BY <2>1, <2>2, <2>3, <2>4, <2>5, WindowOperators DEF NextPlain, Window!Next
<1> QED
  BY <1>1, <1>2, TypeCorrectPlain, WindowPlain, PTL
  DEF SpecPlain, ImplementsWindow, Window!Spec

-----------------------------------------------------------------------------
(* The owner whose entries hold blocks.                                    *)

\* An entry of fragment reassembly always has its block.
BlocksHeld == \A i \in Slots(buffer) : Occupied(buffer, i) => buffer.entry_data[i] # NULL

\* Blocks and slots correspond, whatever the size of the buffer: no block
\* leaks and none is freed twice.
THEOREM BlocksOwned == SpecOwned => [](TypeOK /\ BlocksAccounted /\ BlocksHeld)
<1> DEFINE Inv == buffer \in Buffers /\ Accounted(buffer, allocated)
<1>1. Init => Inv
  BY ThisBuffer, CreateType, CreateAccounted DEF Init
<1>2. Inv /\ [NextOwned]_vars => Inv'
  <2> SUFFICES ASSUME Inv, [NextOwned]_vars PROVE Inv'
    OBVIOUS
  <2>1. ASSUME NEW s \in Seqs, InsertOwned(s) PROVE Inv'
    <3>1. buffer' = [InsertWithCleanup(buffer, s) EXCEPT !.entry_data[Slot(buffer, s)] = Block]
          /\ allocated' = allocated - Freed(buffer, InsertCleans(buffer, s)) + 1
      BY <2>1 DEF InsertOwned
    <3>2. buffer' \in Buffers
      BY <3>1, ThisBuffer, InsertOwnedBuffer
    <3>3. Accounted([InsertWithCleanup(buffer, s) EXCEPT !.entry_data[Slot(buffer, s)] = Block],
                    allocated - Freed(buffer, InsertCleans(buffer, s)) + 1)
      BY ThisBuffer, InsertAccounted
    <3> QED
      BY <3>1, <3>2, <3>3
  <2>2. ASSUME NEW s \in Seqs, AdvanceOwned(s) PROVE Inv'
    BY <2>2, ThisBuffer, AdvanceType, CleanupType, AdvanceAccounted
    DEF AdvanceOwned, AdvanceWithCleanup
  <2>3. ASSUME NEW s \in Seqs, RemoveOwned(s) PROVE Inv'
    BY <2>3, ThisBuffer, RemoveType, CleanupType, RemoveAccounted
    DEF RemoveOwned, RemoveWithCleanup
  <2>4. CASE ResetOwned
    BY <2>4, ThisBuffer, ResetAccounted DEF ResetOwned
  <2>5. CASE UNCHANGED vars
    BY <2>5 DEF vars
  <2> QED
    BY <2>1, <2>2, <2>3, <2>4, <2>5 DEF NextOwned
<1>3. Inv => TypeOK /\ BlocksAccounted /\ BlocksHeld
  BY ThisBuffer, AccountedNumber DEF Accounted, TypeOK, BlocksAccounted, BlocksHeld
<1> QED
  BY <1>1, <1>2, <1>3, PTL DEF SpecOwned

\* An insertion with cleanup and its allocation, seen as a window.
LEMMA InsertOwnedStep ==
  ASSUME WindowSize, TypeOK, WindowInv, NEW s \in Seqs, InsertOwned(s)
  PROVE  /\ Windowed(buffer')
         /\ Window!Push(s) \/ Window!Fill(s)
  <1>1. buffer \in Buffers /\ Windowed(buffer)
    BY DEF TypeOK, WindowInv
  <1>2. /\ buffer' \in Buffers
        /\ buffer'.sequence = Insert(buffer, s).sequence
        /\ buffer'.entry_sequence = Insert(buffer, s).entry_sequence
    BY <1>1, ThisBuffer, InsertOwnedBuffer DEF InsertOwned
  <1>3. Ahead(buffer, s) \/ ~Stale(buffer, s)
    BY DEF InsertOwned, InsertRefused
  <1>4. /\ Insert(buffer, s) \in Buffers
        /\ Insert(buffer, s).sequence = IF Ahead(buffer, s) THEN U16(s + 1) ELSE buffer.sequence
        /\ Windowed(Insert(buffer, s))
        /\ Present(Insert(buffer, s)) = Present(Advance(buffer, s)) \cup {s}
    BY <1>1, <1>3, ThisBuffer, InsertWindow
  <1>5. Windowed(buffer') /\ Present(buffer') = Present(Insert(buffer, s))
    BY <1>2, <1>4, ThisBuffer, SameWindow
  <1>6. CASE Ahead(buffer, s)
    BY <1>1, <1>2, <1>4, <1>5, <1>6, ThisBuffer, AdvanceWindow, AheadStep, WindowSteps
  <1>7. CASE ~Ahead(buffer, s)
    BY <1>1, <1>2, <1>3, <1>4, <1>5, <1>7, ThisBuffer, NoAdvance, CurrentIff, WindowSteps
  <1> QED
    BY <1>5, <1>6, <1>7

\* Advancing with cleanup maps to a step of the window.
LEMMA AdvanceOwnedStep ==
  ASSUME WindowSize, TypeOK, WindowInv, NEW s \in Seqs, AdvanceOwned(s)
  PROVE  /\ Windowed(buffer')
         /\ Window!Skip(s) \/ UNCHANGED Window!window
  <1> DEFINE a == Advance(buffer, s)
  <1>1. buffer \in Buffers /\ Windowed(buffer) /\ a \in Buffers
    BY ThisBuffer, AdvanceType DEF TypeOK, WindowInv
  <1>2. buffer' = Cleanup(a, Overtaken(buffer, s))
    BY DEF AdvanceOwned, AdvanceWithCleanup
  <1> HIDE DEF a
  <1>3. buffer' \in Buffers /\ buffer'.sequence = a.sequence
        /\ buffer'.entry_sequence = a.entry_sequence
    BY <1>1, <1>2, ThisBuffer, CleanupAt
  <1>4. (Windowed(buffer') <=> Windowed(a)) /\ Present(buffer') = Present(a)
    BY <1>1, <1>3, ThisBuffer, SameWindow
  <1> USE DEF a
  <1>5. CASE Ahead(buffer, s)
    <2>1. buffer'.sequence = U16(s + 1)
      BY <1>1, <1>3, <1>5, ThisBuffer, AdvanceFields
    <2> QED
      BY <1>1, <1>4, <1>5, <2>1, ThisBuffer, AdvanceWindow, AheadStep, WindowSteps
  <1>6. CASE ~Ahead(buffer, s)
    <2>1. a = buffer
      BY <1>1, <1>6, ThisBuffer, NoAdvance
    <2> QED
      BY <1>1, <1>3, <1>4, <2>1 DEF Window!window
  <1> QED
    BY <1>5, <1>6

\* So does removing with cleanup.
LEMMA RemoveOwnedStep ==
  ASSUME TypeOK, WindowInv, NEW s \in Seqs, RemoveOwned(s)
  PROVE  Windowed(buffer') /\ Window!Forget(s)
  <1> DEFINE a == Remove(buffer, s)
  <1>1. buffer \in Buffers /\ Windowed(buffer) /\ Exists(buffer, s)
        /\ a \in Buffers /\ a.sequence = buffer.sequence
    BY ThisBuffer, RemoveAt DEF TypeOK, WindowInv, RemoveOwned
  <1>2. buffer' = Cleanup(a, RemoveCleans(buffer, s))
    BY DEF RemoveOwned, RemoveWithCleanup
  <1> HIDE DEF a
  <1>3. buffer' \in Buffers /\ buffer'.sequence = a.sequence
        /\ buffer'.entry_sequence = a.entry_sequence
    BY <1>1, <1>2, ThisBuffer, CleanupAt
  <1>4. (Windowed(buffer') <=> Windowed(a)) /\ Present(buffer') = Present(a)
    BY <1>1, <1>3, ThisBuffer, SameWindow
  <1> USE DEF a
  <1> QED
    BY <1>1, <1>3, <1>4, ThisBuffer, RemoveWindow, PresentIff, WindowSteps

\* And so does reset.
LEMMA ResetOwnedStep ==
  ASSUME TypeOK, ResetOwned
  PROVE  Windowed(buffer') /\ Window!Clear
  <1>1. PICK S : buffer' = ResetBuffer(Cleanup(buffer, S))
    BY DEF ResetOwned
  <1>2. Cleanup(buffer, S) \in Buffers
    BY ThisBuffer, CleanupType DEF TypeOK
  <1>3. Windowed(buffer') /\ Present(buffer') = {}
    BY <1>1, <1>2, ThisBuffer, ResetWindow
  <1>4. buffer'.sequence = 0
    BY <1>1, <1>2 DEF ResetBuffer, Buffers
  <1> QED
    BY <1>3, <1>4 DEF Window!Clear

\* The operations with cleanup keep the window too: those that accept a
\* sequence insert would refuse still slide it as an advance does.
THEOREM WindowOwned == ASSUME WindowSize PROVE SpecOwned => []WindowInv
<1>1. Init => WindowInv
  BY ThisBuffer, CreateWindow DEF Init, WindowInv
<1>2. TypeOK /\ WindowInv /\ [NextOwned]_vars => WindowInv'
  <2> SUFFICES ASSUME TypeOK, WindowInv, [NextOwned]_vars PROVE Windowed(buffer')
    BY DEF WindowInv
  <2>1. CASE UNCHANGED vars
    BY <2>1 DEF vars, WindowInv
  <2> QED
    BY <2>1, InsertOwnedStep, AdvanceOwnedStep, RemoveOwnedStep, ResetOwnedStep
    DEF NextOwned
<1>3. TypeOK /\ BlocksAccounted /\ BlocksHeld => TypeOK
  OBVIOUS
<1> QED
  BY <1>1, <1>2, <1>3, BlocksOwned, PTL DEF SpecOwned

\* The operations with cleanup implement the sliding window.
THEOREM RefinementOwned == ASSUME WindowSize PROVE SpecOwned => ImplementsWindow
<1>1. Init => Window!Init
  <2>1. CreateBuffer(NumEntries, NULL).sequence = 0
    BY DEF CreateBuffer
  <2> QED
    BY <2>1, ThisBuffer, CreateWindow DEF Init, Window!Init
<1>2. TypeOK /\ WindowInv /\ [NextOwned]_vars => [Window!Next]_(Window!window)
  <2> SUFFICES ASSUME TypeOK, WindowInv, [NextOwned]_vars
               PROVE  Window!Next \/ UNCHANGED Window!window
    OBVIOUS
  <2>1. CASE UNCHANGED vars
    BY <2>1 DEF vars, Window!window
  <2>2. CASE ResetOwned
    BY <2>2, ResetOwnedStep DEF Window!Next
  <2>3. ASSUME NEW s \in Seqs, InsertOwned(s) \/ AdvanceOwned(s) \/ RemoveOwned(s)
        PROVE  Window!Next \/ UNCHANGED Window!window
    BY <2>3, InsertOwnedStep, AdvanceOwnedStep, RemoveOwnedStep, WindowOperators
    DEF Window!Next
  <2> QED
    BY <2>1, <2>2, <2>3 DEF NextOwned
<1>3. TypeOK /\ BlocksAccounted /\ BlocksHeld => TypeOK
  OBVIOUS
<1> QED
  BY <1>1, <1>2, <1>3, BlocksOwned, WindowOwned, PTL
  DEF SpecOwned, ImplementsWindow, Window!Spec
=============================================================================
