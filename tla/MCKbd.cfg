CONSTANTS
  Bytes <- MCBytes
  CtrOf <- MCCtrOf
  Scancodes = {"a"}
  MaxOut = 4
SPECIFICATION Spec
INVARIANTS Irq1HasCause
PROPERTIES HeadAnnounced QueueOrder ArgumentNotLeaked
