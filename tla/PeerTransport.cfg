SPECIFICATION Spec
CONSTANTS
  audio = audio
  video = video
  f1 = f1
  f2 = f2
  short = short
  Mids <- MCMids
  Prints <- MCPrints
  BadPrints <- MCBad
  NoPrint = NoPrint
  MaxSetups = 3
SYMMETRY MCSymmetry
INVARIANTS
  PcStateIsCurrent
  SrtpFollowsDtls
  HandshakeIsDue
