SPECIFICATION Spec
CHECK_DEADLOCK FALSE
CONSTANTS
  A = A
  B = B
  Wrong = Wrong
  Nil = Nil
  Regions = {A, B}
  Blank = Wrong
  None = Nil
  Encodings <- MCEncodings
  End = 2
  MaxEvents = 2
  MaxDepth = 2
  MaxSteps = 4
  Setups <- MCSetups
  Tables <- MCTables
  RootOps <- MCRootOps
  Bits <- MCBits
INVARIANTS GuestIntact HostIntact EventsKept HandlerHasFrame GuestSees
PROPERTIES ImplementsStore
