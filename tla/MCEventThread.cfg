SPECIFICATION Spec
CONSTANTS
  Thread = {a, b}
  MaxMsgs = 3
  MaxIo = 2
  TimeMod = 16
  StartTime = 0
  MaxTicks = 0
  Delays = {}
  Ops = {"post", "send"}
  Quits = {a, b}
SYMMETRY Symmetry
INVARIANTS TypeOK NoLostWakeUp SendMeansHandled
CHECK_DEADLOCK FALSE
