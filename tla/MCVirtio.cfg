CONSTANTS
  Sectors = 2
  Address = {0, 1}
  Value = {0, 1}
  Zero = 0
  Size = 2
  Wrap = 4
  Chains <- MCChains
  Cases <- MCCases
SPECIFICATION Spec
INVARIANTS CompletionSignalled RequestsCorrect
PROPERTIES ImplementsQueue
