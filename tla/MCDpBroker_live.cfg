SPECIFICATION FairSpec
CONSTANTS
  c1 = c1
  c2 = c2
  c3 = c3
  p1 = p1
  p2 = p2
  NoPid = NoPid
  NoCall = NoCall
  Method = {"m"}
  Conn <- MCTwoConn
  Pid <- MCPid
  PidOf <- MCTwoPidOf
  Mortal = {c2}
  Uses <- MCTwoUses
  Hasty = {}
  IdMod = 4
  MaxSend <- MCTwoSend
PROPERTIES
  CallsAnswered
  DeadAgentsForgotten
CHECK_DEADLOCK FALSE
