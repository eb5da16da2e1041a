SPECIFICATION Spec
CONSTANTS
  A = A
  B = B
  Peers <- BothPeers
  NULL = NULL
  Half = 4
  SentSize = 2
  ReceivedSize = 2
  ReassemblySize = 2
  AckBufferSize = 1
  MaxPacketSize = 5
  FragmentAbove = 2
  FragmentSize = 2
  MaxFragments = 3
  AckWidth = 2
  Counted = {"packets_sent", "packets_acked"}
  CounterMod = 16
  Applications <- All
  MaxLife = 3
  MaxLead = 3
INVARIANTS DeliveredOnce AckedWasDelivered DeliveredIntact NotReassembledAgain CountersAgree
