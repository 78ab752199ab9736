SPECIFICATION Spec
CONSTANTS
  SYSTEM_PAGE_SIZE = 32
  U32_MAX = 287
  AddressBase = 96
  PageCount = 9
INVARIANTS
  TypeOK
  PagesPartitioned
  BitmapAgreesWithStack
PROPERTIES
  OnlyDoubleFreeHalts
  PoolSpec
