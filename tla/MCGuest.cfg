CONSTANTS
  ByteBits = 2
  PageBytes = 8
  RamBytes = 56
  None = None
  Entry = 6
  Steps = 8
  Frame <- MCFrame
  Pages <- MCPages
  Descriptors <- MCDescriptors
  FlagAt <- MCFlagAt
  Cases <- MCCases
SPECIFICATION Spec
INVARIANTS FaultsInvisible NumbersKept RoundTrips
CHECK_DEADLOCK FALSE
