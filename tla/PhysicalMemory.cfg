SPECIFICATION Spec
CONSTANTS
  SYSTEM_PAGE_SIZE = 128
  U32_MAX = 1023
  MB16 = 1024
  GB4 = 2048
  MemMaps <- AllMaps
INVARIANT TypeOK
PROPERTIES
  PoolSpec
  KindRespected
  NormalSparesLowMemory
  FailsOnlyWhenExhausted
  OnlyMisuseHalts
  EveryCallReturns
