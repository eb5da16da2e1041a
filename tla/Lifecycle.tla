------------------------------ MODULE Lifecycle -------------------------------
(***************************************************************************)
(* Endpoints created, used and destroyed over one allocator_context.  The  *)
(* allocator hands the lowest free address out first, so what is freed is  *)
(* reused at once, by another endpoint as well as by the same one.         *)
(*                                                                         *)
(* Of an endpoint only its pointers are kept: those to the blocks that     *)
(* create allocates, and fragment_reassembly, whose entries hold           *)
(* packet_data, an address or NULL.  What fragments and packets do to it   *)
(* are the operations of SequenceBuffers, for any sequence.                *)
(***************************************************************************)
EXTENDS SequenceBuffers, Sequences

Ext == INSTANCE SequencesExt

CONSTANTS Endpoints,
          Receivers,           \* the endpoints that packets reach
          ReassemblySize,      \* config: fragment_reassembly_buffer_size
          MaxCreated           \* bound: endpoints created

ASSUME LifecycleAssumption ==
  /\ Receivers \subseteq Endpoints
  /\ ReassemblySize \in Nat \ {0} /\ MaxCreated \in Nat

VARIABLES endpoint,    \* [Endpoints -> pointers, or NULL where there is none]
          heap,        \* the addresses allocated and not freed
          freed,       \* the blocks freed by the last call, in order
          created      \* how many endpoints have been created

vars == <<endpoint, heap, freed, created>>

-----------------------------------------------------------------------------
\* The pointers of the structs, in the order in which create fills them in.
BufferBlocks(b) == <<<<b, "buffer">>, <<b, "entry_sequence">>, <<b, "entry_data">>>>

CreatedBlocks ==
  <<<<"endpoint", "endpoint">>, <<"endpoint", "acks">>>>
    \o BufferBlocks("sent_packets")
    \o BufferBlocks("received_packets")
    \o BufferBlocks("fragment_reassembly")
    \o <<<<"endpoint", "rtt_history_buffer">>, <<"endpoint", "transmit_buffer">>>>

PacketData == <<"fragment_reassembly", "packet_data">>

\* The blocks the code reads to find a block and the function that frees it.
FoundThrough(block) ==
  CASE block = <<"endpoint", "endpoint">> -> {}
    [] block = PacketData -> {<<"endpoint", "endpoint">>}
                              \cup Ext!ToSet(BufferBlocks("fragment_reassembly"))
    [] block[2] \in {"entry_sequence", "entry_data"} ->
         {<<"endpoint", "endpoint">>, <<block[1], "buffer">>}
    [] OTHER -> {<<"endpoint", "endpoint">>}

\* What is left of an endpoint's struct: its pointers.
Structs ==
  [pointers            : [Ext!ToSet(CreatedBlocks) -> Nat],
   fragment_reassembly : Buffer(ReassemblySize, Nat \cup {NULL})]

ASSUME NullAssumption == NULL \notin Nat /\ NULL \notin Structs

\* The members of a finite set of numbers, in their order.
InOrder(numbers) ==
  [k \in 1 .. Cardinality(numbers) |->
     CHOOSE i \in numbers : Cardinality({j \in numbers : j < i}) = k - 1]

\* What the allocator returns next while these addresses are live, n times.
Allocate(live, n) ==
  SubSeq(InOrder((0 .. (Cardinality(live) + n - 1)) \ live), 1, n)

-----------------------------------------------------------------------------
Init == /\ endpoint = [e \in Endpoints |-> NULL]
        /\ heap = {}
        /\ freed = << >>
        /\ created = 0

Frees(blocks) == /\ freed' = blocks
                 /\ heap' = heap \ {blocks[k].address : k \in DOMAIN blocks}
                 /\ UNCHANGED created

\* The packet_data of these slots, as the cleanup function frees them.
PacketBlocks(b, slots) ==
  LET held == InOrder({i \in slots : b.entry_data[i] # NULL})
  IN  [k \in DOMAIN held |-> [block |-> PacketData, address |-> b.entry_data[held[k]]]]

\* reliable_endpoint_create
Create(e) ==
  LET addresses == Allocate(heap, Len(CreatedBlocks))
      at(block) == addresses[CHOOSE k \in DOMAIN CreatedBlocks : CreatedBlocks[k] = block]
  IN  /\ created < MaxCreated
      /\ created' = created + 1
      /\ endpoint[e] = NULL
      /\ endpoint' = [endpoint EXCEPT ![e] =
            [pointers            |-> [block \in Ext!ToSet(CreatedBlocks) |-> at(block)],
             fragment_reassembly |-> CreateBuffer(ReassemblySize, NULL)]]
      /\ heap' = heap \cup Ext!ToSet(addresses)
      /\ freed' = << >>

Exist(e) == endpoint[e] # NULL

Reassembly(e) == endpoint[e].fragment_reassembly

\* A fragment of a packet that has no entry yet.
Open(e, s) ==
  LET b == Reassembly(e)
      cleaned == InsertCleans(b, s)
      live    == heap \ {b.entry_data[i] : i \in cleaned}
      address == Allocate(live, 1)[1]
  IN  /\ Exist(e)
      /\ ~Exists(b, s)
      /\ ~InsertRefused(b, s)
      /\ endpoint' = [endpoint EXCEPT ![e].fragment_reassembly =
            [InsertWithCleanup(b, s) EXCEPT !.entry_data[Slot(b, s)] = address]]
      /\ freed' = PacketBlocks(b, cleaned)
      /\ heap' = live \cup {address}
      /\ UNCHANGED created

\* The last fragment of a packet.
Complete(e, s) ==
  LET b == Reassembly(e)
  IN  /\ Exist(e)
      /\ Exists(b, s)
      /\ endpoint' = [endpoint EXCEPT ![e].fragment_reassembly = RemoveWithCleanup(b, s)]
      /\ Frees(PacketBlocks(b, RemoveCleans(b, s)))

\* A packet that is not a fragment.
Advanced(e, s) ==
  LET b == Reassembly(e)
  IN  /\ Exist(e)
      /\ endpoint' = [endpoint EXCEPT ![e].fragment_reassembly = AdvanceWithCleanup(b, s)]
      /\ Frees(PacketBlocks(b, Overtaken(b, s)))

\* Mutant of HeldSlots: reset and destroy know only the newest packet.
HeldSlotsNewest(b) == {i \in Slots(b) : b.entry_sequence[i] = U16(b.sequence - 1)}

\* The slots for which at_index returns an entry.
HeldSlots(b) == {i \in Slots(b) : Occupied(b, i)}

Reset(e) ==
  LET b == Reassembly(e)
  IN  /\ Exist(e)
      /\ endpoint' = [endpoint EXCEPT ![e].fragment_reassembly =
                        ResetBuffer(Cleanup(b, HeldSlots(b)))]
      /\ Frees(PacketBlocks(b, HeldSlots(b)))

\* Mutant of DestroyOrder: the buffer before what it points to.
DestroyOrderBufferFirst(b) == BufferBlocks(b)

\* reliable_sequence_buffer_destroy
DestroyOrder(b) == <<<<b, "entry_sequence">>, <<b, "entry_data">>, <<b, "buffer">>>>

DestroyedBlocks ==
  <<<<"endpoint", "acks">>>>
    \o DestroyOrder("sent_packets")
    \o DestroyOrder("received_packets")
    \o DestroyOrder("fragment_reassembly")
    \o <<<<"endpoint", "rtt_history_buffer">>, <<"endpoint", "transmit_buffer">>,
         <<"endpoint", "endpoint">>>>

\* reliable_endpoint_destroy
Destroy(e) ==
  LET b == Reassembly(e)
      freeing(block) == [block |-> block, address |-> endpoint[e].pointers[block]]
  IN  /\ Exist(e)
      /\ endpoint' = [endpoint EXCEPT ![e] = NULL]
      /\ Frees(PacketBlocks(b, HeldSlots(b))
                 \o [k \in DOMAIN DestroyedBlocks |-> freeing(DestroyedBlocks[k])])

Next == \/ \E e \in Endpoints : Create(e) \/ Reset(e) \/ Destroy(e)
        \/ \E e \in Receivers, s \in Seqs : Open(e, s) \/ Complete(e, s) \/ Advanced(e, s)

Spec == Init /\ [][Next]_vars

-----------------------------------------------------------------------------
\* The addresses an endpoint still points to.
Owned(e) ==
  IF ~Exist(e) THEN {}
  ELSE {endpoint[e].pointers[block] : block \in Ext!ToSet(CreatedBlocks)}
         \cup ({Reassembly(e).entry_data[i] : i \in Slots(Reassembly(e))} \ {NULL})

\* destroys an endpoint, freeing everything it allocated; nor is anything lost
\* before, and no endpoint is left with a pointer to a block that is freed or
\* has become another's.
NothingLost ==
  /\ heap = UNION {Owned(e) : e \in Endpoints}
  /\ \A e, o \in Endpoints : e # o => Owned(e) \cap Owned(o) = {}
  /\ \A e \in Endpoints : Exist(e) =>
       Cardinality(Owned(e)) = Len(CreatedBlocks) + Freed(Reassembly(e), Slots(Reassembly(e)))

\* What a call frees it frees once, and it was the endpoint's own.
FreesItsOwn ==
  [][/\ \E e \in Endpoints : {freed'[k].address : k \in DOMAIN freed'} \subseteq Owned(e)
     /\ \A k, l \in DOMAIN freed' : k # l => freed'[k].address # freed'[l].address]_vars

\* No block is read, to find another or the function that frees it, after it
\* has been freed itself.
NoneReadAfterFreed ==
  \A k, l \in DOMAIN freed : k < l => freed[k].block \notin FoundThrough(freed[l].block)
=============================================================================
