--------------------------- MODULE MCPeerTransport ---------------------------
(* Two media sections; two good fingerprints and one of the wrong length *)
EXTENDS PeerTransport, TLC
CONSTANTS audio, video, f1, f2, short
MCMids == {audio, video}
MCPrints == {f1, f2, short}
MCBad == {short}
MCSymmetry == Permutations(MCMids) \cup Permutations({f1, f2})
=============================================================================
