SPECIFICATION FairSpec
CONSTANTS
  Thread = {a, b}
  MaxMsgs = 2
  MaxIo = 1
  TimeMod = 16
  StartTime = 0
  MaxTicks = 1
  Delays = {1, 2}
  Ops = {"post","delay", "send", "clear"}
  Quits = {}
INVARIANTS DelayedNotForgotten SendMeansHandled
PROPERTIES SendsReturn PostsHandled
CHECK_DEADLOCK FALSE
