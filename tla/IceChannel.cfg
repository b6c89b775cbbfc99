CONSTANTS
  c1 = c1
  c2 = c2
  None = None
  Conn <- MCConn
  Priority <- SamePriority
  Rtt <- MCRtt
  InitialRtt = 9
  MinImprovement = 2
  ConnectFails = 2
  PeerRejects = TRUE
SPECIFICATION Spec
INVARIANTS StateIsCurrent ControllerIsSound
CHECK_DEADLOCK FALSE
