SPECIFICATION Spec
CONSTANTS
  Writer = {a, b}
  Sizes = {0, 1, 3}
  HeaderSize = 2
  BlockSize = 2
  MaxSendBlocks = 2
  WireSize = 3
  MaxPackets = 2
INVARIANTS
  TypeOK
  StreamKept
  NoStall
  TailDelivered
PROPERTY
  IsChannel
CHECK_DEADLOCK FALSE
