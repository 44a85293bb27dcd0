SPECIFICATION Spec
CONSTANTS
  Size = 3
  MaxWidth = 4
  ChunkWidth = 2
  Calls <- AllCalls
  CallsIn <- AllCallsIn
  DesignValues <- ThreeBits
INVARIANTS TypeOK FoundMeansDone
PROPERTY KeepsPromise
CHECK_DEADLOCK FALSE
