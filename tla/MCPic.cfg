CONSTANTS
  Width = 4
  Cascade = 2
  Sources = {1, 3, 4, 6}
  Bytes <- MCBytes
  MaskOf <- MCMaskOf
  BaseOf <- MCBaseOf
SPECIFICATION Spec
INVARIANT NextIrqIsBest
PROPERTIES AckOutranks RequestsKept
