CONSTANTS
  Width = 4
  Cascade = 2
  PicBytes <- MCPicBytes
  MaskOf <- MCMaskOf
  BaseOf <- MCBaseOf
  Radix = 8
  Clocks = 1
  KbdBytes <- MCKbdBytes
  CtrOf <- MCCtrOf
  DiskIrq <- MCDisk
  Interval = 3
  KeyInterval = 5
  Location <- MCLocation
  Program <- MCFaulty
  Start <- MCStart
  Entry <- MCEntry
  OwnerOf <- MCOwnerOf
  Script = 3
  MaxDepth = 9
  Closed <- MCClosed
  Serving <- MCServing
  Drained <- MCDrained
  Ready <- MCReady
  Bases <- MCBases
  Awaits <- MCAwaits
SPECIFICATION FairSpec
INVARIANTS ServiceHasHandler KeySignalled FaultAtInstruction
PROPERTIES HaltWakes ScriptTyped DevicesServed
