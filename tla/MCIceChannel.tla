---------------------------- MODULE MCIceChannel ----------------------------
(* IceChannel with two connections. *)
EXTENDS IceChannel

CONSTANTS c1, c2

MCConn == {c1, c2}
\* Two round-trip times: one is an improvement on the other that is worth a switch.
MCRtt == {1, 3}
SamePriority == [c \in Conn |-> 1]
=============================================================================
