SPECIFICATION Spec
CONSTANTS
  Stubs <- MCStubs
  Firmwares <- WholeFirmwares
  MaxItem = 3
  Exceptions = {14}
  IrqLines = {0}
INVARIANT AssertedItemsExist
