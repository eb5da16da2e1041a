SPECIFICATION Spec
CONSTANTS
  NULL = NULL
  Half = 8
  SentSize = 4
  ReceivedSize = 4
  ReassemblySize = 1
  AckBufferSize = 2
  MaxPacketSize = 2
  FragmentAbove = 2
  FragmentSize = 2
  MaxFragments = 1
  AckWidth = 2
  Counted = {}
  CounterMod = 2
  HistorySize = 2
  HeaderSize = 1
  Tick = 3
  RttSmoothing = 2
  LossSmoothing = 2
  BandwidthSmoothing = 2
  Packets <- OnePacket
  SendSizes = {1}
  MaxTime = 2
  MaxSends = 4
  MaxUpdates = 3
PROPERTIES ResetIsInitial
