CONSTANTS
  ByteBits = 2
  PageBytes = 8
  RamBytes = 56
  None = None
  Entry = 6
  Steps = 8
  Frame <- MCFrame
  Pages <- MCPages
  Descriptors <- MCDescriptors
  FlagAt <- MCFlagAt
  Cases <- MCByteCases
SPECIFICATION Spec
INVARIANT NumbersKept
CHECK_DEADLOCK FALSE
