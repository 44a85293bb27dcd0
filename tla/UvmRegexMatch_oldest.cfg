SPECIFICATION Spec
CONSTANTS
  Keys <- ThreeKeys
  Nodes <- FiveNodes
  Data <- FourHandles
  Null = null
  Stored = {1, 2}
  MaxSizes = {0, 1}
  Callers <- MayBoth
  Deglobs = {1}
  Correct <- TwoCorrect
PROPERTY TrimsOldest
CHECK_DEADLOCK FALSE
