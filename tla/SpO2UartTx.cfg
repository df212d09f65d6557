SPECIFICATION FairSpec
CONSTANTS
  TxBUFSIZE = 4
  Byte = {1, 2}
  Packets <- MCPackets
  Idle = Idle
INVARIANTS
  TypeOK
  NoLostWakeup
PROPERTIES
  FifoRefinement
  PublishedBytesLeave
  SendBufReturns
