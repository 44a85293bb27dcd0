SPECIFICATION FairSpec
CONSTANTS
  Lines <- FileLines
  MaxLines = 4
  Atoi <- MCAtoi
  Atohex <- MCAtohex
  ADDR_ID = 0
  ADDR_GPIO_IN = 1
  ADDR_GPIO_OUT = 2
  ID_VALUE = 165
INVARIANTS TypeOK SequentialOutcome
PROPERTIES StableInputs TestEnds
CHECK_DEADLOCK FALSE
