CONSTANTS
  Fan = 2
  Table = {10, 11, 12, 13}
  Frame = {0, 1, 2, 3, 4, 5, 10, 11, 12, 13}
  Page = {0, 2, 3}
  NonCanonical = {3}
  Slots = 2
  Kinds <- MCKinds
  Writes <- MCWrites
  Settings <- MCSettings
  Lazy = FALSE
  Tables0 <- MCTables0
SPECIFICATION Spec
INVARIANTS Coherent
PROPERTIES ImplementsMmu
