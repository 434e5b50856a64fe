SPECIFICATION Spec
CONSTANTS
  Thread = {t1, t2}
  Signal = {s1, s2}
  MaxCalls = 2
  MaxBreaks = 1
  IdMax = 1
  Kinds = {"send", "listen"}
  HasServer = TRUE
  Found = {"REQUEST", "MESSAGE", "INVALID"}
  Results = {1}
SYMMETRY Symmetry
INVARIANTS
  TypeOK
  SignalsExclusive
  MapOnlyInFlight
CHECK_DEADLOCK FALSE
