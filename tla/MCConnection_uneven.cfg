SPECIFICATION Spec
CONSTANTS
  A = A
  B = B
  Peers <- BothPeers
  NULL = NULL
  Half = 4
  SentSize = 2
  ReceivedSize = 3
  ReassemblySize = 2
  AckBufferSize = 1
  MaxPacketSize = 5
  FragmentAbove = 2
  FragmentSize = 2
  MaxFragments = 3
  AckWidth = 2
  Counted = {}
  CounterMod = 4
  Applications <- OnlyFragments
  MaxLife = 3
  MaxLead = 3
INVARIANTS DeliveredOnce
