SPECIFICATION SpecOfOwner
CONSTANTS
  NULL = NULL
  Half = 8
  NumEntries = 4
INVARIANTS TypeOK WindowInv HeldIsCurrent BlocksAccounted
PROPERTIES ImplementsWindow
