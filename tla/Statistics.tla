------------------------------ MODULE Statistics ------------------------------
(***************************************************************************)
(* What an endpoint measures: round-trip times of acked packets, jitter,   *)
(* packet loss and bandwidth, taken from the clock of the application.     *)
(*                                                                         *)
(* stats holds the fields of reliable_endpoint_t that EndpointState leaves *)
(* out, and the time and packet_bytes of the entries of sent_packets and   *)
(* received_packets.  Numbers are integers, rounded down where the code    *)
(* divides: time in units of Tick milliseconds, bandwidth in bytes per     *)
(* unit.  Of an average over the history, a sum of floats each of whose    *)
(* additions is rounded, only that it is a number is kept.                 *)
(***************************************************************************)
EXTENDS EndpointState

Ext == INSTANCE SequencesExt

Sets == INSTANCE FiniteSetsExt

CONSTANTS HistorySize,         \* config: rtt_history_size
          HeaderSize,          \* config: packet_header_size
          Tick,                \* milliseconds in a unit of time
          RttSmoothing, LossSmoothing, BandwidthSmoothing,
                               \* config: 1 over the smoothing factors
          Packets,             \* regular packets the peer may send
          SendSizes,           \* sizes the application sends
          MaxTime,             \* bound: the last time the model updates to
          MaxSends, MaxUpdates \* bounds: packets sent, calls of update

ASSUME StatisticsAssumption ==
  /\ {HistorySize, HeaderSize, Tick, MaxTime, MaxSends, MaxUpdates} \subseteq Nat \ {0}
  /\ {RttSmoothing, LossSmoothing, BandwidthSmoothing} \subseteq Nat \ {0}
  /\ Packets \subseteq RegularPackets({p.payload : p \in Packets})
  /\ SendSizes \subseteq 1 .. MaxPacketSize

VARIABLES endpoint,
          stats,
          sent,        \* how many packets have been sent
          updates,     \* how often update has been called
          samples      \* what acks have measured so far: only in the model

vars == <<endpoint, stats, sent, updates, samples>>

Unused == -1

NoEntry == [time |-> 0, packet_bytes |-> 0]

NewStatistics ==
  [time |-> 0, rtt |-> 0,
   rtt_history_buffer |-> [i \in 0 .. (HistorySize - 1) |-> Unused],
   sent_packets     |-> [i \in 0 .. (SentSize - 1) |-> NoEntry],
   received_packets |-> [i \in 0 .. (ReceivedSize - 1) |-> NoEntry],
   rtt_min |-> 0, rtt_max |-> 0, rtt_avg |-> 0,
   jitter_avg |-> 0, jitter_max |-> 0, jitter_stddev |-> 0,
   packet_loss |-> 0,
   sent_bandwidth |-> 0, received_bandwidth |-> 0, acked_bandwidth |-> 0]

Init == /\ endpoint = NewEndpoint
        /\ stats = NewStatistics
        /\ sent = 0
        /\ updates = 0
        /\ samples = {}

-----------------------------------------------------------------------------
\* A quotient of floats: not a number when nothing is divided by nothing.
NotANumber == -1

Quotient(a, b) == IF b = 0 THEN NotANumber ELSE a \div b

Sum(f, of) == Sets!MapThenSumSet(LAMBDA i : f[i], of)

\* An average over so many slots of the history, whatever it comes to.
SomeNumber == 1

Average(count) == IF count = 0 THEN NotANumber ELSE SomeNumber

\* The mean over some slots, which is 0 where nothing is measured.
Mean(of) == IF of = {} THEN 0 ELSE Average(Cardinality(of))

\* average += ( sample - average ) * factor, or the sample where the two are
\* closer than 0.00001.
Smoothed(average, sample, n) == average + (sample - average) \div n

-----------------------------------------------------------------------------
(* send_packet and receive_packet.  samples holds one record per ack that  *)
(* was measured: the number of its packet among all that were ever sent,   *)
(* resets or not, its sequence, and the round trip.                        *)

Entry(bytes) == [time |-> stats.time, packet_bytes |-> HeaderSize + bytes]

Send(bytes) ==
  /\ sent < MaxSends
  /\ CanSend(endpoint)
  /\ sent' = sent + 1
  /\ endpoint' = Sent(endpoint, bytes)
  /\ stats' = [stats EXCEPT
                 !.sent_packets[Slot(endpoint.sent_packets, endpoint.sequence)] = Entry(bytes)]
  /\ UNCHANGED <<updates, samples>>

\* Mutant of SmoothedRtt: the first round trip is smoothed like the others.
SmoothedRttFromZero(rtt, sample) == Smoothed(rtt, sample, RttSmoothing)

\* The first round trip that is not zero is taken as it is.
SmoothedRtt(rtt, sample) ==
  IF rtt = 0 THEN sample ELSE Smoothed(rtt, sample, RttSmoothing)

\* The acks that p adds to the ack array, in the order of its bits.
AcksAdded(p) ==
  LET acks == Accepted(endpoint, p, 0).acks
  IN  SubSeq(acks, Len(endpoint.acks) + 1, Len(acks))

RoundTrip(q) ==
  (stats.time - stats.sent_packets[Slot(endpoint.sent_packets, q)].time) * Tick

Measured(st, q) ==
  [st EXCEPT !.rtt_history_buffer[q % HistorySize] = RoundTrip(q),
             !.rtt = SmoothedRtt(@, RoundTrip(q))]

Sample(q) ==
  [id |-> sent - Distance(endpoint.sent_packets.sequence, q), sequence |-> q,
   trip |-> RoundTrip(q)]

\* The process callback takes the packet.
Receive(p) ==
  /\ Processed(endpoint, p)
  /\ endpoint' = Accepted(endpoint, p, 0)
  /\ stats' = Ext!FoldLeft(Measured,
                [stats EXCEPT
                   !.received_packets[Slot(endpoint.received_packets, p.sequence)] =
                      Entry(p.header + p.bytes)],
                AcksAdded(p))
  /\ samples' = samples \cup {Sample(AcksAdded(p)[k]) : k \in DOMAIN AcksAdded(p)}
  /\ UNCHANGED <<sent, updates>>

-----------------------------------------------------------------------------
(* reliable_endpoint_update                                                *)

UsedSlots(history) == {i \in DOMAIN history : history[i] >= 0}

\* The smallest round trip, where it is below 10000 milliseconds.
SmallestRtt(history) ==
  LET rtts == {history[i] : i \in UsedSlots(history)}
      min  == Sets!Min(rtts \cup {10000})
  IN  IF min = 10000 THEN 0 ELSE min

\* rtt_min, rtt_max, rtt_avg and the three jitters.
WithRtts(st) ==
  LET history == st.rtt_history_buffer
      used  == UsedSlots(history)
      min   == SmallestRtt(history)
      max   == Sets!Max({history[i] : i \in used} \cup {0})
  IN  [st EXCEPT
         !.rtt_min = min, !.rtt_max = max, !.rtt_avg = Mean(used),
         !.jitter_avg = Mean(used),
         !.jitter_max = Sets!Max({history[i] - min : i \in used} \cup {0}),
         !.jitter_stddev = Mean(used)]

\* packet_loss, in percent.
WithLoss(st, ep) ==
  LET of      == Sampled(ep.sent_packets)
      dropped == {q \in of : ~Acked(ep.sent_packets, q)}
      loss    == Quotient(Cardinality(dropped) * 100, Cardinality(of))
  IN  [st EXCEPT !.packet_loss = IF of = {} THEN 0 ELSE Smoothed(@, loss, LossSmoothing)]

\* Mutant of Bandwidth: packets of one moment give a bandwidth, too.
BandwidthOfMoment(average, entries, of) ==
  LET times  == {entries[i].time : i \in of}
      span   == Sets!Max(times \cup {0}) - Sets!Min(times)
      sample == Quotient(Sum([i \in of |-> entries[i].packet_bytes], of), span)
  IN  IF times = {} THEN average ELSE Smoothed(average, sample, BandwidthSmoothing)

\* The average after the entries in the slots of; it stays as it is when they
\* span no time.
Bandwidth(average, entries, of) ==
  LET times  == {entries[i].time : i \in of}
      span   == Sets!Max(times \cup {0}) - Sets!Min(times)
      sample == Quotient(Sum([i \in of |-> entries[i].packet_bytes], of), span)
  IN  IF times = {} \/ span = 0 THEN average ELSE Smoothed(average, sample, BandwidthSmoothing)

SlotsOf(b, sequences) == {Slot(b, q) : q \in sequences}

WithBandwidths(st, ep) ==
  LET outgoing == ep.sent_packets
      incoming == ep.received_packets
      acked    == {q \in Sampled(outgoing) : Acked(outgoing, q)}
  IN  [st EXCEPT
         !.sent_bandwidth = Bandwidth(@, st.sent_packets, SlotsOf(outgoing, Sampled(outgoing))),
         !.received_bandwidth =
            Bandwidth(@, st.received_packets, SlotsOf(incoming, Sampled(incoming))),
         !.acked_bandwidth = Bandwidth(@, st.sent_packets, SlotsOf(outgoing, acked))]

\* The application's clock does not run backwards.
Update(time) ==
  /\ updates < MaxUpdates
  /\ updates' = updates + 1
  /\ time >= stats.time
  /\ stats' = WithBandwidths(WithLoss(WithRtts([stats EXCEPT !.time = time]), endpoint), endpoint)
  /\ UNCHANGED <<endpoint, sent, samples>>

ClearAcks == /\ endpoint' = AcksCleared(endpoint)
             /\ UNCHANGED <<stats, sent, updates, samples>>

\* reliable_endpoint_reset leaves every statistic, and the history, as it is.
Reset == /\ endpoint' = AfterReset(endpoint)
         /\ UNCHANGED <<stats, sent, updates, samples>>

Next ==
  \/ \E bytes \in SendSizes : Send(bytes)
  \/ \E p \in Packets : Receive(p)
  \/ \E time \in 0 .. MaxTime : Update(time)
  \/ ClearAcks
  \/ Reset

Spec == Init /\ [][Next]_vars

-----------------------------------------------------------------------------
\* The smoothed round-trip time never leaves the range of what was measured,
\* however few samples there are: it does not creep up from the 0 it starts at.
RttWithinSamples ==
  LET trips == {m.trip : m \in samples}
  IN  stats.rtt = 0 \/ stats.rtt \in Sets!Min(trips) .. Sets!Max(trips)

\* A slot of the history holds the round trip of the newest packet measured of
\* those that share the slot, if the history is no shorter than the window of
\* packets sent: acks that come again, late, out of order, after a wrap of the
\* sequence or after a reset never put an older round trip back, and never
\* overwrite the one that was measured first.
HistoryIsNewest ==
  \A i \in DOMAIN stats.rtt_history_buffer :
     LET of == {m \in samples : m.sequence % HistorySize = i}
     IN  IF of = {} THEN stats.rtt_history_buffer[i] = Unused
         ELSE \E m \in of : /\ \A other \in of \ {m} : other.id < m.id
                            /\ stats.rtt_history_buffer[i] = m.trip

\* No statistic is ever not a number: not with an empty history, not with an
\* empty window, not when all the packets of a window left at the same moment.
Numbers ==
  \A field \in {"rtt", "rtt_avg", "jitter_avg", "jitter_stddev", "packet_loss",
                "sent_bandwidth", "received_bandwidth", "acked_bandwidth"} :
     stats[field] >= 0

\* The loss goes up only for packets that had half a window of time to be
\* acked: what is still on its way is not counted lost.
LossOnlyOfOldPackets ==
  [][LET b == endpoint.sent_packets
     IN  stats'.packet_loss > stats.packet_loss =>
           \E q \in Present(b) : ~Acked(b, q) /\ 2 * Distance(b.sequence, q) > b.num_entries
    ]_vars

\* reliable.h: reset returns the endpoint to its initial state; here, what its
\* getters tell of the past and the history behind them.
ResetIsInitial ==
  [][Reset => \A field \in DOMAIN NewStatistics \ {"time", "sent_packets", "received_packets"} :
                stats'[field] = NewStatistics[field]]_vars
=============================================================================
