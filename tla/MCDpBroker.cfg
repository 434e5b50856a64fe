SPECIFICATION Spec
CONSTANTS
  c1 = c1
  c2 = c2
  c3 = c3
  p1 = p1
  p2 = p2
  NoPid = NoPid
  NoCall = NoCall
  Method = {"m"}
  Conn <- MCConn
  Pid <- MCPid
  PidOf <- MCPidOf
  Mortal = {c2}
  Uses <- MCUses
  Hasty = {c3}
  IdMod = 4
  MaxSend <- MCMaxSend
INVARIANTS
  TypeOK
  RegistryConsistent
  RequestListenerUnique
  ConfirmedIsBound
  RepliesGoHome
  AtMostOneAnswer
  NoEcho
PROPERTY
  UnboundOnlyByOwner
CHECK_DEADLOCK FALSE
