SPECIFICATION SpecOfNetwork
CONSTANTS
  NULL = NULL
  Half = 4
  SentSize = 4
  ReceivedSize = 2
  ReassemblySize = 2
  AckBufferSize = 1
  MaxPacketSize = 5
  FragmentAbove = 2
  FragmentSize = 2
  MaxFragments = 3
  AckWidth = 2
  Counted = {}
  CounterMod = 4
  Packets <- Traffic
  SendSizes = {1, 6}
  ReplySizes = {0, 1}
INVARIANTS SendNeverBlocked
