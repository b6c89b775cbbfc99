CONSTANTS
  r1 = r1
  r2 = r2
  stream1 = stream1
  sw1 = sw1
  sw2 = sw2
  rw1 = rw1
  rw2 = rw2
  f1 = f1
  f2 = f2
  c1 = c1
  c2 = c2
  Ss = Ss
  Rs = Rs
  None = None
  Req <- TwoReq
  Streams <- OneStream
  SW <- TwoSW
  RW <- TwoRW
  Fd <- TwoFd
  Addr <- TwoAddr
  HashOf <- HashOne
  CertMayFail = TRUE
SPECIFICATION FairSpec
INVARIANTS OneTokenPerMessage ConnectionsAreSound
PROPERTIES ServesRequests RequestIsAnswered
CHECK_DEADLOCK FALSE
