SPECIFICATION Spec
CONSTANTS
  NULL = NULL
  Half = 4
  Endpoints = {first, second}
  Receivers = {first}
  ReassemblySize = 3
  MaxCreated = 3
CHECK_DEADLOCK FALSE
INVARIANTS NothingLost NoneReadAfterFreed
PROPERTIES FreesItsOwn
