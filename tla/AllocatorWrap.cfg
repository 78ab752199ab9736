SPECIFICATION Spec
CONSTANTS
  SYSTEM_PAGE_SIZE = 32
  U32_MAX = 159
  AddressBase = 96
  PageCount = 10
INVARIANT HeldPagesMarkedUsed
