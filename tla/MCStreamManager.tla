-------------------------- MODULE MCStreamManager --------------------------
(* StreamManager with few users, names and objects. *)
EXTENDS StreamManager, TLC

CONSTANTS u1, u2, n1, n2, s1, s2, s3

\* Two names: both users push and pull the first, as rivals; one pushes and the
\* other pulls the second.
MCUid == {u1, u2}
MCName == {n1, n2}
MCThreeStreams == {s1, s2, s3}
TwoPushers == n1 :> {u1, u2} @@ n2 :> {u1}
RivalViewers == n1 :> {u1, u2} @@ n2 :> {u2}
============================================================================
