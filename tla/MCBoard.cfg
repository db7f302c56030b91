CONSTANTS
  Words <- MCWords
  Heads = 2
  Track = 1
  Present <- MCPresent
  Disk = 1
  BarSize = 64
  Radix = 2
  Minute = 2
  Hour = 4
  Day = 8
  Ram <- MCRam
  Rows = 2
  Cols = 2
  Blank = " "
  Conventional = 2
  Adapter = 4
  Meg = 24
  Window = 8
  WindowEnd = 24
  Hole = 40
  High = 64
  Zero = 0
  Open <- MCOpen
  Image <- MCImage
  Epochs <- MCEpochs
  Sizes <- MCSizes
  Outs <- MCOuts
  Ins <- MCIns
  Sites <- MCSites
  Blocks <- MCBlocks
  ChannelBytes = {0, 1}
  Modes <- MCModes
  Cursors <- MCCursors
  Chars = {"a", "b"}
  Addresses <- MCAddresses
  MaxSteps <- MCMaxSteps
SPECIFICATION Spec
INVARIANTS SectorsInOrder BarKeepsShape WindowHides HalvesPair ScreenTail MemoryIsFlat MapDescribesRam
PROPERTY DateFollows
CHECK_DEADLOCK FALSE
