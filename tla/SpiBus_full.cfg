SPECIFICATION Spec
CONSTANTS
  W = 8
  Configs <- OnlyStimTest
  MaxItems = 2
  ADDR_ID <- AddrId
  ADDR_GPIO_IN <- AddrGpioIn
  ADDR_GPIO_OUT <- AddrGpioOut
  ID_VALUE <- IdHex
  Offsets = {8}
  Addresses <- RegisterMap
  Data <- OneData
INVARIANT EdgesConserved
PROPERTY ImplementsRegMap
