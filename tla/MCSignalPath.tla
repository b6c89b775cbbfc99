---------------------------- MODULE MCSignalPath ----------------------------
(* SignalPath with two clients, two workers of each kind. *)
EXTENDS SignalPath

CONSTANTS r1, r2, stream1, sw1, sw2, rw1, rw2, f1, f2, c1, c2

TwoReq == {r1, r2}
OneStream == {stream1}
OneSW == <<sw1>>
TwoSW == <<sw1, sw2>>
OneRW == {rw1}
TwoRW == {rw1, rw2}
OneFd == {f1}
TwoFd == {f1, f2}
OneAddr == {c1}
TwoAddr == {c1, c2}
HashOne == [s \in Streams |-> rw1]
=============================================================================
