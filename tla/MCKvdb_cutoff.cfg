SPECIFICATION Spec
CONSTANTS
  Key = {k}
  v1 = v1
  v2 = v2
  Empty = Empty
  Garbage = Garbage
  Joined = Joined
  RuleText = RuleText
  Value <- MCValue
  Valid <- MCValid
  Default = v1
  OldText = {v2}
  MaxCalls = 2
  MaxFaults = 1
INVARIANT
  MainErrorReadsBackup
CHECK_DEADLOCK FALSE
