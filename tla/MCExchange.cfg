SPECIFICATION Spec
CONSTANTS
  NULL = NULL
  Half = 8
  SentSize = 4
  ReceivedSize = 4
  ReassemblySize = 1
  AckBufferSize = 2
  MaxPacketSize = 2
  FragmentAbove = 2
  FragmentSize = 2
  MaxFragments = 1
  AckWidth = 4
  Counted = {}
  CounterMod = 2
  DropEvery = 4
  ClearEvery = 2
  MaxFaults = 2
PROPERTIES Recovers LossMeasured AckReported
