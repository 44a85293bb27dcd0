SPECIFICATION Spec
CONSTANTS
  Keys <- ThreeKeys
  Nodes <- FiveNodes
  Data <- FourHandles
  Null = null
  Stored = {1, 2}
  MaxSizes = {0, 1}
  Callers <- MayOne
  Deglobs = {1}
  Correct <- TwoCorrect
INVARIANTS ListIntact CallsReturn HandlesOwned SameAnswer
PROPERTY KeepsRecency
CHECK_DEADLOCK FALSE
