--------------------------- MODULE MCUdpSendQueue --------------------------
(* UdpSendQueue with a small kernel buffer; the queue outgrows it. *)
EXTENDS UdpSendQueue

MCRoom == 3
MCPackets == 8
=============================================================================
