------------------------------- MODULE Exchange -------------------------------
(***************************************************************************)
(* Two endpoints back to back in one loop, as the drivers of the library   *)
(* run them: in every iteration each sends a packet, which the transmit    *)
(* callback hands straight to the other or loses, then both are updated,   *)
(* and every ClearEvery-th time (in the drivers, every time) both clear    *)
(* their acks.  Nothing replies from the process callback.                 *)
(*                                                                         *)
(* The loop never stops, which is all the fairness there is: nothing says  *)
(* that a fault ends.  The callback loses every DropEvery-th sequence for  *)
(* ever.  On top of that come faults, at most MaxFaults of them: an outage *)
(* of one direction for any number of packets, and one endpoint reset      *)
(* while the other goes on.                                                *)
(***************************************************************************)
EXTENDS EndpointState

LOCAL Fun == INSTANCE Functions

CONSTANTS DropEvery,           \* the transport loses these sequences; 0: none
          ClearEvery,          \* iterations from one clear_acks to the next
          MaxFaults            \* bound: outages and resets

ASSUME ExchangeAssumption ==
  DropEvery \in Nat /\ ClearEvery \in Nat \ {0} /\ MaxFaults \in Nat

Peers == {"client", "server"}

Other(e) == CHOOSE o \in Peers : o # e

VARIABLES endpoint,    \* [Peers -> the state of the endpoint]
          turn,        \* what the loop does next
          iteration,   \* iterations since the acks were cleared
          outages,     \* the peers whose packets are all lost at present
          occurred,    \* how many outages and resets there have been
          heard,       \* [Peers -> what became of the last packet it got]
          reported,    \* [Peers -> the sequences it was told are acked, as long
                       \* as it remembers them]
          loss         \* [Peers -> what the last update counted]

vars == <<endpoint, turn, iteration, outages, occurred, heard, reported, loss>>

Turns == {"client sends", "server sends", "update", "clear acks"}

Init == /\ endpoint = [e \in Peers |-> NewEndpoint]
        /\ turn = "client sends"
        /\ iteration = 0
        /\ outages = {}
        /\ occurred = 0
        /\ heard = [e \in Peers |-> "processed"]
        /\ reported = [e \in Peers |-> {}]
        /\ loss = [e \in Peers |-> [of |-> {}, dropped |-> {}, unreported |-> {}]]

-----------------------------------------------------------------------------
Loses(s) == DropEvery # 0 /\ s % DropEvery = 0

Lost(e) == Loses(endpoint[e].sequence) \/ e \in outages

\* receive_packet of a regular packet that the callback takes if it gets it.
Delivered(ep, p) == IF Processed(ep, p) THEN Accepted(ep, p, 0) ELSE Dropped(ep, p)

\* The packet e sends next.
Packet(e) == CHOOSE p \in Transmitted(endpoint[e], 1, {}, MaxHeader) : TRUE

\* The acks that ep has in its array after its step to after.
NewlyReported(ep, after) ==
  Fun!Range(SubSeq(after.acks, Len(ep.acks) + 1, Len(after.acks)))

Send(e) ==
  LET o == Other(e)
      p == Packet(e)
  IN  /\ turn = (IF e = "client" THEN "client sends" ELSE "server sends")
      /\ turn' = (IF e = "client" THEN "server sends" ELSE "update")
      /\ CanSend(endpoint[e])
      /\ endpoint' = [endpoint EXCEPT ![e] = Sent(@, 1),
                                      ![o] = IF Lost(e) THEN @ ELSE Delivered(@, p)]
      /\ heard' = [heard EXCEPT ![o] = IF Lost(e) THEN @ ELSE WhyDropped(endpoint[o], p)]
      /\ reported' =
           [q \in Peers |-> (reported[q] \cup NewlyReported(endpoint[q], endpoint'[q]))
                             \cap Present(endpoint'[q].sent_packets)]
      /\ UNCHANGED <<iteration, outages, occurred, loss>>

\* What reliable_endpoint_update counts for the packet loss, and what the
\* application of e would.
LossSample(e) ==
  LET b  == endpoint[e].sent_packets
      of == Sampled(b)
  IN  [of |-> of, dropped |-> {q \in of : ~Acked(b, q)}, unreported |-> of \ reported[e]]

Update == /\ turn = "update"
          /\ turn' = "clear acks"
          /\ loss' = [e \in Peers |-> LossSample(e)]
          /\ UNCHANGED <<endpoint, iteration, outages, occurred, heard, reported>>

ClearAcks ==
  /\ turn = "clear acks"
  /\ turn' = "client sends"
  /\ iteration' = (iteration + 1) % ClearEvery
  /\ endpoint' = [e \in Peers |-> IF iteration' = 0 THEN AcksCleared(endpoint[e]) ELSE endpoint[e]]
  /\ UNCHANGED <<outages, occurred, heard, reported, loss>>

Iterate == (\E e \in Peers : Send(e)) \/ Update \/ ClearAcks

-----------------------------------------------------------------------------
MayFail == occurred < MaxFaults

Begin(e) == /\ MayFail
            /\ e \notin outages
            /\ outages' = outages \cup {e}
            /\ occurred' = occurred + 1
            /\ UNCHANGED <<endpoint, turn, iteration, heard, reported, loss>>

End(e) == /\ e \in outages
          /\ outages' = outages \ {e}
          /\ UNCHANGED <<endpoint, turn, iteration, occurred, heard, reported, loss>>

Reset(e) == /\ MayFail
            /\ endpoint' = [endpoint EXCEPT ![e] = AfterReset(@)]
            /\ reported' = [reported EXCEPT ![e] = {}]
            /\ occurred' = occurred + 1
            /\ UNCHANGED <<turn, iteration, outages, heard, loss>>

Next == Iterate \/ \E e \in Peers : Begin(e) \/ End(e) \/ Reset(e)

\* while ( !quit ): nothing in the body of the loop waits or returns, and every
\* step of it, and no fault, changes the turn.
LoopGoesOn == WF_turn(\E next \in Turns \ {turn} : turn' = next)

Spec == Init /\ [][Next]_vars /\ LoopGoesOn

-----------------------------------------------------------------------------
OutagesEnd == <>[](outages = {})

\* However long one direction was dead, more than half of the sequence space
\* included, and whichever end was reset: once the faults are over there comes
\* a time from which on every packet that gets through is taken.
Recovers == OutagesEnd => <>[](\A e \in Peers : heard[e] = "processed")

\* From some time on the packet loss is computed over half a window, and what
\* it counts as dropped is what the transport lost, no packet more or less:
\* not the packets whose acks were late or found no room.
LossMeasured ==
  OutagesEnd =>
    <>[](\A e \in Peers :
           /\ Cardinality(loss[e].of) = SentSize \div 2
           /\ loss[e].dropped = {q \in loss[e].of : Loses(q)})

\* From some time on every packet that the transport does not lose is reported
\* in the ack array before it is half a window old, although the packets that
\* carry its ack may be lost, and an ack that finds the array full is dropped.
AckReported ==
  OutagesEnd =>
    <>[](\A e \in Peers : loss[e].unreported = {q \in loss[e].of : Loses(q)})
=============================================================================
