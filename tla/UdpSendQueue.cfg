CONSTANTS
  MaxRoom <- MCRoom
  MaxPackets <- MCPackets
SPECIFICATION UdpFairSpec
INVARIANTS PendingIsWatched
PROPERTIES PendingLeaves
CHECK_DEADLOCK FALSE
