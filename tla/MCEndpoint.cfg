SPECIFICATION SpecOfNetwork
CONSTANTS
  NULL = NULL
  Half = 4
  SentSize = 2
  ReceivedSize = 2
  ReassemblySize = 2
  AckBufferSize = 1
  MaxPacketSize = 5
  FragmentAbove = 2
  FragmentSize = 2
  MaxFragments = 3
  AckWidth = 2
  Counted = {"packets_acked"}
  CounterMod = 2
  Packets <- Traffic
  SendSizes = {3, 6}
  ReplySizes = {0, 1}
INVARIANTS TypeOK Lockstep SendNeverBlocked AcksFit BlocksAccounted ReassemblyOpen Windows
PROPERTIES AckReportedOnce ReassemblyOnlyGrows
