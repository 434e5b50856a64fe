SPECIFICATION Spec
CONSTANTS
  Thread = {t1}
  Signal = {s1, s2}
  MaxCalls = 2
  MaxBreaks = 0
  IdMax = 7
  Kinds = {"send"}
  HasServer = TRUE
  Found = {"INVALID"}
  Results = {1}
INVARIANT SuccessMeansAnswered
CHECK_DEADLOCK FALSE
