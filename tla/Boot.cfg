SPECIFICATION Spec
CONSTANTS
  Stubs <- MCStubs
  Firmwares <- MCFirmwares
  MaxItem = 3
  Exceptions = {0, 2, 8, 14, 21, 30}
  IrqLines = {0, 4}
INVARIANTS
  FrameMatchesCpu
  IrqOnlyInPicWindow
  SegmentsUsable
  ReadsInsideCheckedTable
