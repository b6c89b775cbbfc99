---------------------------- MODULE MCSrtpLibrary ----------------------------
(* Four sessions: both of two peers on two threads *)
EXTENDS SrtpLibrary
CONSTANTS s1, s2, s3, s4
MCSessions == {s1, s2, s3, s4}
=============================================================================
