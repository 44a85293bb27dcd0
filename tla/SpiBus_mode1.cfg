SPECIFICATION Spec
CONSTANTS
  W = 2
  Configs <- OnlyMode1
  MaxItems = 2
  ADDR_ID <- AddrId
  ADDR_GPIO_IN <- AddrGpioIn
  ADDR_GPIO_OUT <- AddrGpioOut
  ID_VALUE <- IdHex
  Offsets = {1, 2}
  Addresses <- OutputOnly
  Data <- OneData
INVARIANT ReceivesWhileSelected
