-------------------------- MODULE MCLockFreeQueue --------------------------
(* LockFreeQueue on few addresses, so that freed ones are reused at once. *)
EXTENDS LockFreeQueue

CONSTANTS v1, v2, a1, a2, a3, a4

MCValue == {v1, v2}
MCAddr  == {a1, a2, a3, a4}
============================================================================
