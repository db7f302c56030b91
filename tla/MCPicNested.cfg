CONSTANTS
  Width = 4
  Cascade = 2
  Sources = {1, 3, 4, 6}
  Bytes <- MCNested
  MaskOf <- MCMaskOf
  BaseOf <- MCBaseOf
SPECIFICATION Spec

PROPERTIES ImplementsNested
