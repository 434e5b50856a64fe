SPECIFICATION Spec
CONSTANTS
  Thread = {a, b}
  MaxMsgs = 2
  MaxIo = 2
  TimeMod = 16
  StartTime = 0
  MaxTicks = 0
  Delays = {}
  Ops = {"post", "send"}
  Quits = {a}
PROPERTIES PendingDelivered
CHECK_DEADLOCK FALSE
