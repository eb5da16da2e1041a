SPECIFICATION Spec
CONSTANTS
  Half = 32768
  MaxFragments = 3
  FragmentSize = 2
  MaxPacketSize = 5
  FragmentAbove = 2
  MaxDamage = 2
  Damageable <- Split
  Sends <- VectorsAndSplit
  Strays <- Forged
INVARIANTS RoundTrip TransmitFits TakenAsArrived StoredInPlace
CHECK_DEADLOCK FALSE
