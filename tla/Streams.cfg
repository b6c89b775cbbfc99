CONSTANTS
  u1 = u1
  u2 = u2
  n1 = n1
  n2 = n2
  s1 = s1
  s2 = s2
  s3 = s3
  Null = Null
  Uid <- MCUid
  Name <- MCName
  Stream <- MCThreeStreams
  Pusher <- TwoPushers
  Viewer <- RivalViewers
SPECIFICATION FairSpec
INVARIANTS OneSourcePerViewer
PROPERTIES OrphansAreRivalled ConnectedIsKept UnconnectedIsRemoved
