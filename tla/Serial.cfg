SPECIFICATION Spec
CONSTANTS
  Messages <- MCMessages
  PanicMessage <- MCPanicMessage
  InterruptMessage <- MCInterruptMessage
  FifoSize = 2
  Input <- MCInput
  ReadSizes = {0, 1, 2}
  MaxCalls = 3
INVARIANTS
  NothingLost
  InputInOrder
PROPERTY PanicReachesWire
