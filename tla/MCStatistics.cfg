SPECIFICATION Spec
CONSTANTS
  NULL = NULL
  Half = 6
  SentSize = 4
  ReceivedSize = 4
  ReassemblySize = 1
  AckBufferSize = 2
  MaxPacketSize = 2
  FragmentAbove = 2
  FragmentSize = 2
  MaxFragments = 1
  AckWidth = 2
  Counted = {}
  CounterMod = 2
  HistorySize = 4
  HeaderSize = 1
  Tick = 3
  RttSmoothing = 2
  LossSmoothing = 1
  BandwidthSmoothing = 2
  Packets <- FewPackets
  SendSizes = {1}
  MaxTime = 2
  MaxSends = 5
  MaxUpdates = 2
INVARIANTS RttWithinSamples HistoryIsNewest Numbers
PROPERTIES LossOnlyOfOldPackets
