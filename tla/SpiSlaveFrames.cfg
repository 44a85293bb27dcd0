SPECIFICATION Spec
CONSTANTS
  W = 2
  ADDR_ID <- AddrId
  ADDR_GPIO_IN <- AddrGpioIn
  ADDR_GPIO_OUT <- AddrGpioOut
  ID_VALUE <- IdHex
  Inputs <- OneInput
INVARIANTS Decoded WriteTaken ReadAnswered
PROPERTIES OnlyFramesWrite FollowsTheWire
CONSTRAINT OneRegister
ACTION_CONSTRAINT CsMovesAlone
