# A formal model of `reliable`

`reliable` (one file, `reliable.c`) adds packet acknowledgement and
fragmentation to an unreliable datagram transport. It does not retransmit: it
says which packets arrived, drops stale and duplicate ones, and puts fragments
together. This directory holds TLA+ modules translated from `reliable.c`, TLC
configurations that check them on small instances, and TLAPS proofs about them.
`PROJECT.json` lists the runs, the mutants, the source lines every definition
stands for, the hazards and the theorems.

## The system

| part | state | operations | modules |
|---|---|---|---|
| sequence numbers | none | `greater_than`, `less_than`, 16-bit arithmetic | `SequenceNumbers` |
| sequence buffer | `sequence` (one past the newest), `entry_sequence[]`, `entry_data[]` | create, reset, `test_insert`, `insert`, `advance`, `remove`, the `_with_cleanup` forms, `exists`/`find`/`at_index`, `generate_ack_bits` | `SequenceBuffers`, `SequenceBuffer` |
| endpoint, sending | `sequence`, `sent_packets` (acked flags), counters | `send_packet` | `EndpointState`, `Endpoint` |
| endpoint, receiving | `received_packets`, `acks[]`, counters | `receive_packet`, process callback, `clear_acks` | `EndpointState`, `Endpoint` |
| reassembly | `fragment_reassembly`, one heap block per entry | `receive_packet` on fragments, `store_fragment_data`, cleanup | `EndpointState`, `Endpoint`; its bytes `Codec` |
| header codec | none | `write_packet_header`, `read_packet_header`, `read_fragment_header`, 8- and 16-bit I/O | `PacketHeader`, `Codec` |
| statistics | `time`, rtt and its history, jitter, loss, bandwidth | `update`, and what `send_packet` and `receive_packet` measure | `Statistics` |
| life cycle | the heap, the pointers of the structs | create, reset, destroy | `Lifecycle` |
| two endpoints and a network | packets in flight | transmit callback, loss, repetition, delay | `Connection` |
| two endpoints in a loop | whose turn it is, faults | the main loop and the transports of the drivers | `Exchange` |

An endpoint has no threads and no locks. Its hard behaviour comes from
elsewhere: sequences wrap at 65536 while ring buffers are indexed by
`sequence % num_entries`; packets are lost, repeated, late, damaged and out of
order; one call touches three buffers that have to stay together; a completed
packet is received by a recursive call while its entry is still in the buffer;
the process callback may send on the endpoint that is calling it, or refuse the
packet; acks repeat 32 times and may find the ack array full; one end may be
reset while the other goes on; a header of 4 to 9 bytes is written a second time
into the middle of a block that fragments fill in any order. `PROJECT.json`
names each of these hazards at its line.

What makes each part correct:

* a sequence buffer is a window of the sequence circle (nothing survives from
  an earlier lap), and every block of its entries is freed once;
* an endpoint reports an ack once and loses none, keeps its three buffers in
  step, never keeps a complete packet under reassembly, never overwrites a part;
* a connection delivers a message at most once and as it was sent, and acks
  only what the other application took;
* a loop of two endpoints recovers from every outage and every reset of one end,
  and then reports every ack and measures the loss as it is;
* a header is read as it was written, and what the callback gets is what
  arrived, byte for byte;
* the statistics are taken from the newest measurements and never become NaN;
* what an endpoint allocates is freed once, by itself, and in an order in which
  nothing is read after it is freed.

## Modules

* `SequenceNumbers`: `Half` (32768 in the code) is a parameter, so that a
  small model has every wrap and the tie at exactly half the circle. `U16` is the
  conversion to `uint16_t`, which the code does implicitly.
* `SequenceBuffers`: the operations as operators on a record with the fields of
  `reliable_sequence_buffer_t`. `Overtaken` is the set of slots `remove_entries`
  clears; `Cleanup` and `Freed` say what the cleanup function does to blocks.
* `SlidingWindow`: what a buffer promises, abstractly: a set of sequences, all
  of them at most `Size` behind the newest.
* `SequenceBuffer`: one buffer as a state machine, in the two ways an endpoint
  uses it: `SpecPlain` (sent and received packets) and `SpecOwned` (reassembly,
  where an entry owns a block and `allocated` counts blocks). `ImplementsWindow`
  is the refinement of `SlidingWindow`.
* `EndpointState`: `reliable_endpoint_t` as a record, and for each way through
  `send_packet` and `receive_packet` its condition and its effect, in the order
  of the code: `WhyDropped` and `WhyIgnored` name the first test a packet fails,
  `Accepted` is the rest of the function after the callback returned 1,
  `Opened`/`WithFragment`/`WholePacket`/`Closed` are reassembly, and
  `CompletionResults` the recursive call with what follows it. `Sampled` is the
  older half of a window, over which `update` computes.
* `Endpoint`: one endpoint; the network may deliver any packet of a given set
  at any time. One action per API call, and one per way a received packet takes.
* `Connection`: two endpoints and a network, built from the same operators. A
  packet stays in `net` until it is lost, so it can arrive again and be overtaken;
  `kept` in `Transmits` is the set of fragments that are not lost at once. The
  number of a message (`id`) does not wrap and exists in the model only. What
  the two applications do is one of `Applications`, chosen at the start.
* `Exchange`: the same endpoints, driven as `stats.c`, `example.c` and
  `fuzz_target.c` drive them, one packet each per turn, straight from the
  transmit callback into `receive_packet`. The transport loses every
  `DropEvery`-th sequence for ever (the drivers lose some packets for ever), and
  there are outages of one direction, of any length, and resets of one end.
* `PacketHeader`: the readers and writers of the packet header and the fragment
  header, on sequences of bytes. `ack_bits` is four bytes here, low byte first,
  as the code writes it.
* `Codec`: one packet byte for byte: written, split, carried by a link that
  flips bits, repeats, reorders and lets forged packets in (what `fuzz.c` does),
  stored in `packet_data` with the header written again in front of the payload,
  and read by the recursive call. The windows of the receiver are replaced by
  their effect: an entry may go at any time. A byte nobody wrote is `Unset`.
* `Statistics`: `time`, round trips, jitter, loss and bandwidth, on top of the
  `EndpointState` of one endpoint. The loop over the acks of a packet is a fold
  (`Measured`), that over the packets of a window a sum over their slots (`Sum`).
  `samples` exists in the model only: what was measured, of which packet.
* `Lifecycle`: endpoints created, used, reset and destroyed on one allocator.
  Of an endpoint it keeps the pointers: those of the structs, and the
  `packet_data` of the reassembly buffer, whose operations are those of
  `SequenceBuffers`. The allocator reuses the lowest free address at once, so an
  address freed too early is soon somebody else's.
* `MCSequenceBuffer`, `MCEndpoint`, `MCConnection`, `MCExchange`, `MCCodec`,
  `MCStatistics`, `MCLifecycle`: constants for TLC. The first two also choose at
  the start how the buffer is used, and which kind of packets the network
  brings.
* `SequenceBuffers_proofs`, `SequenceBuffer_proofs`, `EndpointState_proofs`,
  `Endpoint_proofs`, `Connection_proofs`, `Codec_proofs`, `Lifecycle_proofs`,
  `Statistics_proofs`: proofs. The first and `EndpointState_proofs` state lemmas
  about operators: remainders and sequence numbers, a buffer of any size and
  contents, windows of numbers that do not wrap, of which a buffer holds the
  sequences; and one call on an endpoint. The modules named after a state machine
  are about its behaviours.

The definitions whose comments begin with "Mutant of" are faulty variants of the
definition that follows; each stands for a plausible bug, and substituting it
makes the property `PROJECT.json` pairs with it fail. No specification uses them.

Data is abstracted as follows. In `Endpoint` and `Connection` a packet is a
record; the payload is the set of messages its bytes come from; `ack_bits` is a
set of bit positions; header bytes are not spelled out, a packet that the
readers reject has `readable` false, and `header` is the number of header bytes,
which the size checks use. `PacketHeader` and `Codec` say what stands behind
`readable` and `header`. Only the counters named in `Counted` are kept; the
state machine counts all of them in the code's places. In `Statistics` the
floats are integers, rounded down at every division, with `NotANumber` for 0/0,
and the branch that sets an average to the sample when they are closer than
0.00001 is the case of equality. Of the averages over the history (`rtt_avg`,
`jitter_avg_vs_min_rtt`, `jitter_stddev_vs_avg_rtt`) only whether they are
numbers is kept, and nothing is said of their values: the code adds floats and
rounds each time, so an average can lie above the largest of its terms. (Ten
round trips of 0.1f have the average 0.10000001f, and so a deviation above
`jitter_max_vs_min_rtt`, which is 0.) `RttWithinSamples` is about the smoothed
value, `rtt += (sample - rtt) * factor`; for factors of at most 1/2 (the default
is 0.0025) rounding cannot carry that past the sample, so the exact bound is the
bound of the code. Allocation succeeds, as the asserts after it demand.

## Runs

| run | what it asks | bounds |
|---|---|---|
| `buffer` | window, held entries are current, refinement, blocks; plain and with cleanup | `Half` 8, 4 entries: four laps of the ring per lap of the sequence, gaps up to half |
| `endpoint` | acks reported and counted once, none lost, room for every send; reassembly, blocks, windows in step | `Half` 4, buffers of 2, ack array of 1 (so it fills), replies; every sequence and ack, masks of one and two bits; or packets of two and three fragments for every sequence, mismatching, unreadable, oversized and impossible fragments |
| `connection` | delivered once and intact, acked only if delivered, not collected again, counters of the two ends | `Half` 4, buffers of 2; ten messages of A (past the wrap at 8), two of B, two acks in flight, replies; or ten messages of A, whole or in two fragments, three packets in flight; or four of A and three of B with every delivery kept |
| `exchange` | recovery, loss as it is, every ack reported | `Half` 8, buffers of 4, ack array of 2 cleared every second turn, every fourth packet lost, two faults |
| `codec` | header round trip, sizes, payload as it arrived, no unwritten byte | real bytes and `Half` 32768; the 1024 headers and payloads of the conformance vectors undamaged; two, of two and of three fragments, with two flipped bits or forged packets |
| `statistics` | smoothed rtt within the samples, a slot of the history holds the newest measurement, no NaN, no loss of young packets | `Half` 6, windows and history of 4, five sends, two updates, clock 0 to 2, resets |
| `lifecycle` | nothing lost or freed twice, frees its own, order of destroy | two endpoints, three created, packets for one of them, reassembly of 3, every sequence |
| `uneven_received` | violation: duplicate processed at the wrap | received buffer of 3 in a sequence space of 8 |
| `long_reassembly` | violation: reassembly restarts | reassembly buffer of 4, received buffer of 2 |
| `long_sent` | violation: `reliable_assert( sent_packet_data )` | sent buffer of `Half` |
| `ack_bits_standard` | violation: STANDARD.md's meaning of the mask | as `endpoint` |
| `statistics_reset` | violation: reset keeps the statistics | windows of 4, history of 2, acks of one packet |

A buffer of two entries and a circle of 8 has all the regions a buffer
of 256 on a circle of 65536 has: inside the window, too old, ahead by less and
by more than the window, the tie, and the far side. What a run finds depends on
these regions, not on their sizes; the proofs about the buffer confirm it for
every size. The history of `statistics` is as long as the window of packets sent,
the smallest for which `HistoryIsNewest` holds; packets share a slot when a fifth
is sent and after every reset, and the proof covers the wrap. In `lifecycle` a third endpoint is created over the remains of the
first two. `codec` has a sequence, ack and mask on either side of every choice
the encoding makes; the proof covers the others. `MaxDamage` and `Damageable`
only bound that run (`MayDamage`): `fuzz.c` flips bits and invents packets
without end. In `Statistics`, `MaxTime`, `MaxSends` and `MaxUpdates` are such
bounds.

The tie of `sequence_greater_than`, numbers exactly half the circle apart, is a
matter of `long_sent` only. A window below half the circle meets it when a
packet is exactly that far from its end, and then the tie decides whether that
packet is new or stale; the invariants hold whichever way. With a window of half
the circle the very first insert compares 0 with such a number.

Deadlock is checked except in two runs. In `codec` one packet is sent, and
nothing remains to be done when it has been taken or refused. In `lifecycle` a
program ends when its endpoints are destroyed (here, when `MaxCreated` have
been).

**Assumptions on the network** (`NetworkAssumption` in `Connection`). Sequences
wrap, so no implementation of this protocol is right over a network that keeps
packets for ever. `MaxLife <= Half`: no packet arrives after its sender has
sent half the circle more. `MaxLead + MaxLife + AckWidth <= SeqMod`: no ack
arrives a whole lap after the packet it names was sent. With a weaker second
condition TLC does find an old ack taken for a newer packet. At 60 packets per
second half the circle is nine minutes. The `sends`, `flight` and `memory` of an
application only bound the model; deliveries are forgotten when no copy and no
ack of the message can be left (`memory` at least `MaxLife` and `SentSize`).
Both ends are reset together there, over an empty network: the protocol has no
epoch, so nothing can be promised about packets of before a reset. What can be
asked when one end is reset alone, that it all works again, is asked in
`Exchange`.

**Fairness.** Only `Exchange` has any: `LoopGoesOn`, weak fairness of the turn
passing on. The body of `while ( !quit )` in the drivers waits for nothing and
returns nowhere, so the next call is always made. Nothing says that a fault
ends; "the outages end" is the hypothesis of the properties instead
(`OutagesEnd`), and the packets that the transport always loses stay lost.
`Recovers` is about more than half the sequence space lost in a row: the
receiver then takes new packets for stale, until the sender has come half way
round the circle. The other specifications leave every call to the application
or the network, and nothing is claimed there to happen eventually. The runs of
`Connection` end in states where the bounds on sends are exhausted, but
`ClearAcks` and `ResetBoth` keep them from deadlocking.

## Proofs

All theorems hold for every value of the constants, under the assumptions named
in the modules (`HalfAssumption`, `NumEntriesAssumption`, `NullAssumption`,
`ConfigAssumption`, `TrafficAssumption`, `ConnectionAssumption`,
`NetworkAssumption`, `BlockAssumption`: NULL is not a block, `CodecAssumption`,
`FragmentAssumption`, `ByteAssumption`: a sequence is two bytes,
`LifecycleAssumption`, `StatisticsAssumption`). What a theorem needs beyond them
is a hypothesis of it, named below. Every safety invariant and every action
property of the passing runs is a theorem.

* Sequence numbers: the comparison is total on distinct numbers
  (`GreaterThanTotal`) and agrees with the distance on the circle
  (`GreaterThanDistance`), from a few facts about `%`.
* Sequence buffer: types (`TypeCorrectPlain`), the window (`WindowPlain`,
  `WindowOwned`), held entries (`HeldPlain`), the refinement of `SlidingWindow`
  (`RefinementPlain`, `RefinementOwned`), blocks (`BlocksOwned`).
  The window theorems assume `WindowSize`: more than one entry, fewer than half
  the circle, and a number that divides it. The inductive invariant is `Windowed`
  with the types: every occupied slot holds a sequence that belongs at its index
  and is 1 to `num_entries` behind `sequence`. The core is `OvertakenIff`: when
  the window moves, the cleared slots are exactly those whose sequence becomes
  too old, which needs that distances on the circle add and that
  `num_entries` divides it. `BlocksOwned` needs no condition on the size; it is
  inductive only with `BlocksHeld`, that no entry is ever without its block.
* Endpoint: every property of its run, for any packets the network may deliver,
  replies from inside the process callback and resets included. The inductive
  invariant is `WellFormed`: the type, the three buffers in step, acks that fit
  the array, and a block for every occupied reassembly entry. They have to be
  proved together, since the end of a window stays a 16-bit number only because
  the sequence that moved it was one, and a block is freed once only if the
  entry that owns it is where the window says. From it, `TypeCorrect`,
  `BuffersInLockstep`, `AckArrayFits` and `NoBlockLost` are immediate; the work
  is in one lemma per operation of `EndpointState_proofs` (`SentWellFormed`,
  `AcceptedWellFormed`, `OpenedWellFormed`, `StoredWellFormed`,
  `ClosedWellFormed`, `ResetWellFormed`...), composed along the calls of the
  code as the operators are. `Half > 1` is assumed, since with only two sequence
  numbers 0 does not come after 1. `SendAlwaysAccepted` (the assertion of
  `send_packet`) also assumes `SentSize < Half`, and `long_sent` shows what
  happens without it.
  - `BuffersAreWindows` adds `SizesFitCircle` (every size is above 1, below half
    the circle, and divides it) and follows from the window lemmas of the
    buffer: a stale packet never reaches an insert.
  - `NoPacketLeftWhole`: an entry left in the buffer misses a fragment. A call
    touches the entry of one slot and otherwise only drops entries
    (`KeptOutside`); the touched one is incomplete or has been closed, also when
    the recursive call drops the packet or the callback rejects it.
  - `AcksReportedOnce` is the action property `AckReportedOnce`: a sent packet
    becomes acked exactly when its sequence is appended to `acks`, once while it
    is remembered, and the counter counts that. The loop over the mask is an
    induction with `ReportedOnce` as its invariant (`AckBitReports`), and
    `AckStep` is what survives the sends from inside the callback around it.
  - `ReassemblyGrows` is `ReassemblyOnlyGrows`: while an entry is held, nothing
    stored in it is replaced or dropped.
* Connection: what two endpoints promise over the network of the module, for
  any applications and every configuration that satisfies `SizesFit`. No message
  is taken twice (`TakenAtMostOnce`), every one is taken as it was sent
  (`TakenAsSent`), none is collected again (`TakenNeverReassembled`), what is
  acked was taken (`AckedWasTaken`), and the counters of the two ends agree with
  the deliveries (`CountersAgreeHolds`).
  - `SizesFit` has three parts. The buffers fit the circle (`SizesFitCircle`, as
    above; `uneven_received` shows what happens otherwise). `ReassemblySize <=
    ReceivedSize`: a fragment must not open an entry for a packet that the
    received buffer has forgotten (`long_reassembly`). `MaxLead + ReceivedSize <=
    SeqMod`, which belongs to the assumptions on the network: a packet further
    ahead than that would seem to lie in the window of the lap before. The default
    configuration satisfies it if no end is more than 65280 packets ahead of what
    the other has seen; so does the run `connection`.
  - The variables alone are not inductive: a 16-bit sequence does not say which
    message it stands for. `IInv` says that there are two histories that explain
    them. One is the log of each end: of every message its size, the acks its
    packet carried, and how many messages of the other end had been sent by then.
    The other is `newest`, the id at which the windows of each receiver end. The
    code keeps neither; each step says how they go on (`AgreeNext`).
  - For an end as a receiver, `Receives` says: what was taken is in the log, and
    in the window if it is recent (`TakenOnce`); what is in the window was taken
    (`HeldKnown`, up to deliveries forgotten); an entry under reassembly holds parts
    of one logged message (`Collecting`) that was not taken (`Fresh`); a bit of a
    mask stands for the id that it stood for when the packet was made, and that
    was taken (`Claims`); and what is acked was taken (`AckedTaken`).
    `OnTheWay` says that every packet in the network is one its sender logged.
  - The last part of `SequenceBuffers_proofs` carries the step from sequences
    to ids: a window holds a sequence under exactly one id (`HeldId`), and for
    a packet that is `NearWindow`, the buffer's tests and moves are those on
    ids (`AheadId`, `InsertIds`, `AdvanceIds`). `NetworkAssumption` makes
    packets that arrive near (`ArrivalNear`) and acks be read as they were
    meant (`AcksTrue`).
  - `Fresh` fails in the middle of the call that completes a packet: it has been
    taken, and its entry is still there. So the lemmas about parts of that call
    (`TakeKeepsBoth`, `ReplyKeepsBoth`, `AcksKeepBoth`, `CloseKeepsBoth`) have
    the invariant with the set `now` of ids being taken, which the last empties.
  - `CountersAgreeHolds` adds `CountersWide`: both counters are kept and no
    application sends so much that they wrap (they have 64 bits). That the acked
    packets were taken does not bound the counter, since the entry of an acked
    packet is overwritten and the count stays; a sum over all acks ever reported
    would need a third history. `CountInv` does without: it compares
    `packets_acked` with the contents that are `Settled`, taken by the other end
    and not those of a packet that is still remembered unacked. A step settles at
    least as many contents as it reports acks (`StepSettles`): by `AckStep` each
    of these was remembered unacked and is no longer, by `IInv` it was taken, so
    it goes from the one side to the other; and a packet that leaves the window
    unacked becomes settled without being counted, which keeps the inequality.
    `SendStep` is what a call may do to the packets sent and their counter.
* Header codec: every header is read back as it was written, and is 4 to 9 bytes
  long (`HeaderRoundTrip`), for each of the 2^64. `BitsOfSum` reads the bits back
  from the sum of flags that is the prefix byte, and so `PrefixBits` says which
  fields are present; `AckFieldValue` and `Recovered` are the two encodings of
  the ack; `Layout` puts each field at the offset that the lengths of those
  before it add up to, and `ReadBack` reads them from there.
* Packets as bytes: what was sent is what is taken (`RoundTripHolds`) as long as
  the link only loses, repeats and reorders; and whatever bits it flips and
  whatever it lets in, the callback takes what arrived (`TakenAsArrivedHolds`),
  every byte of a fragment marked as received is in its place
  (`StoredInPlaceHolds`), and the scratch buffer and the size limit are large
  enough (`TransmitFitsHolds`). This is for every fragment size, up to 256
  fragments, every payload and every order, where the run has two and three
  fragments of a few bytes. `BytesAccounted` is the inductive invariant. Its first
  part, `Structure`, holds on any link: a block has as many bytes as it may need,
  and every fragment it counts as received is laid out in it as the one packet on
  record for it (`InPlace`), header included, which is written into the nine bytes
  before the payload and ends where fragment 0 begins. Its second part,
  `Undamaged`, holds while nothing was flipped or invented: all that is on the
  link, in the blocks and taken was written for the one packet sent. Both are
  about products `i * FragmentSize` of two unknowns, which the SMT solver does not
  handle; so each product is named, and what is known of it (`ProductNat` and the
  lemmas after it) is linear.
* Life cycle: nothing is lost or shared (`NothingLostHolds`), no call frees a
  block that is not its endpoint's, or frees it twice (`FreesItsOwnHolds`), and
  destroy reads nothing it has freed (`NoneReadAfterFreedHolds`), for any
  number of endpoints and any size of the reassembly buffer. The inductive
  invariant `IInv` (`HeapAccounted`) says that the heap is the disjoint union
  of what the endpoints point to (`OwnedBy`), that each of their pointers is to
  an address of its own, none of them shared with a block under reassembly, and
  a block for every occupied slot (`Sound`), and that the last call freed in an
  order in which nothing is read later (`InDestroyOrder`). That the allocator
  returns different addresses, and free ones, is `InOrderValue`: the rank of an
  address among the free ones is an injection into as many numbers, so it is
  onto, and its inverse enumerates them.
* Statistics: the smoothed round trip lies between the extremes of what was
  measured (`RttWithinSamplesHolds`), nothing is divided by 0 (`NumbersHold`),
  loss goes up only for packets of the older half of the window that are not
  acked (`LossOnlyOfOldPacketsHolds`, which adds `SentSize < SeqMod`), and the
  history holds the newest measurements (`HistoryIsNewestHolds`, below). All
  assume `Half > 1`. A sum over a set of slots is a fold; its equations are
  proved by induction on the cardinality of the set (`NatSetInduction`,
  induction about a set of numbers, derived from the well-foundedness of finite
  sets under inclusion, since the library's induction takes an operator).
  `InvHolds` states the first inductive invariant: the endpoint is
  `WellFormed`, no entry was sent in the future (`NotLater`), and the round trip
  is 0 or lies between two samples (`Measures`).
  - `HistoryIsNewestHolds` assumes `HistoryFits`: the window of packets sent and
    the history have more than one entry, fewer than half the circle, and
    numbers that divide it, and `SentSize <= HistorySize`. The defaults, 256 and
    512, do. With a shorter history two packets of one window share a slot, and
    when the older is acked last its round trip is what stays: for such a
    configuration the property is false.
  - Its invariant is `HistoryInv`. A sequence does not say how old a packet is,
    so each sample keeps the number of its packet among all ever sent, which
    the code does not have. `Remembers` ties the two: whatever was measured
    since a packet that is still in the window was sent lies on the circle as far
    back as its number says, and if it was measured of that packet itself, the
    packet is acked. A packet whose ack is added was not acked (`NewlyAcked`), so
    it is none of those measured before, and nothing measured of a later packet
    shares its slot (`HistoryInjective`): the entry written is the newest
    (`AcksNewest`, an induction over the acks added). A reset empties the window,
    and what is sent afterwards has higher numbers than all samples.

## Findings

* A `received_packets_buffer_size` that does not divide 65536 lets a duplicate
  through at the wrap (`uneven_received`).
* A `sent_packets_buffer_size` of 32768 or more fails the assert in
  `send_packet` on the first packet (`long_sent`).
* A reassembly buffer larger than the received buffer restarts reassembly of a
  delivered packet, which a test says must not happen (`long_reassembly`).
* STANDARD.md shifts the meaning of `ack_bits` by one (`ack_bits_standard`).
* `reliable_endpoint_reset` leaves round trips, loss and bandwidth of before,
  where `reliable.h` says it returns to the initial state (`statistics_reset`).

The default configuration (256, 256, 64) is affected by the last two only.

Two more came up while translating and no run states them. `read_packet_header`
accepts headers that are not canonical (a mask byte 0xFF that is present, a near
ack in two bytes) in regular packets; only the header in fragment 0 is compared
with its re-encoding, although STANDARD.md says of every decoder that it must
get identical bytes back. And `update` starts its search for `rtt_min` at
10000.0f and takes that result for an empty history, so round trips that are all
10 seconds or more give an `rtt_min` of 0 and jitters as large as themselves
(`SmallestRtt`).

## Only model-checked, and not modelled

Only model-checked: the liveness properties of `Exchange`. Out of the prover's
reach: liveness, ENABLED, and what recursive definitions compute. What the
violation runs state is false of the code, so there is nothing to prove; the
theorems' hypotheses (`SizesFit`, `SizesFitCircle`, `SentSize < Half`) are what
excludes them. The inductive invariant of `Connection` quantifies over histories
of any length and so cannot be a TLC invariant; its consequences are, in the run
`connection`.

Not modelled: logging and its handlers; the 32- and 64-bit integer readers and
writers, which have no caller; `free_packet`, which hands a pointer of the
application to its own allocator; build files; and, of the tests and drivers,
printing, arguments and their own checks. A process callback that calls
`receive_packet`, `reset` or `destroy` on its own endpoint. Rounding of floats, and
with it the values of the averages over the history.
