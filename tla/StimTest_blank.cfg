SPECIFICATION Spec
CONSTANTS
  Lines <- WithBlank
  MaxLines = 3
  Atoi <- MCAtoi
  Atohex <- MCAtohex
  ADDR_ID = 0
  ADDR_GPIO_IN = 1
  ADDR_GPIO_OUT = 2
  ID_VALUE = 165
INVARIANT MalformedReported
CHECK_DEADLOCK FALSE
