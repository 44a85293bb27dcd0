SPECIFICATION FairSpec
CONSTANTS
  W = 2
  Configs <- SmallConfigs
  MaxItems = 2
  ADDR_ID <- AddrId
  ADDR_GPIO_IN <- AddrGpioIn
  ADDR_GPIO_OUT <- AddrGpioOut
  ID_VALUE <- IdHex
  Offsets = {1, 2}
  Addresses <- AllBytes
  Data <- OneData
INVARIANTS TypeOK EdgesConserved MonitorFollowsDriver
PROPERTIES ImplementsRegMap EveryItemScored
