SPECIFICATION FairSpec
CONSTANTS
  Thread = {t1}
  Signal = {s1, s2}
  MaxCalls = 2
  MaxBreaks = 1
  IdMax = 7
  Kinds = {"send", "remote", "listen"}
  HasServer = TRUE
  Found = {"REQUEST", "INVALID"}
  Results = {0, 1}
PROPERTIES
  KeepsPromise
  CallsReturn
CHECK_DEADLOCK FALSE
