SPECIFICATION Spec
CONSTANTS
  Method = {1, 2}
  Requests = {1}
  Conn = {c1, c2}
  Signal = {s1, s2}
  MaxOps = 2
  MaxBreaks = 1
INVARIANTS
  TypeOK
  NotGivenUp
  Registered
  
SYMMETRY Interchangeable
CHECK_DEADLOCK FALSE
