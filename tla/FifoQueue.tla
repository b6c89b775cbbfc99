----------------------------- MODULE FifoQueue -----------------------------
(***************************************************************************)
(* What base/lock_free_queue.h promises to its two users (RtcWorker's      *)
(* message queue and SignalingWorker's queue of accepted sockets): a queue *)
(* with one producer and one consumer that hands every value over once, in *)
(* the order of the produce() calls.  LockFreeQueue implements it.         *)
(***************************************************************************)
EXTENDS Sequences

CONSTANT Value        \* what can be produced

VARIABLES items,      \* produced and not yet consumed, oldest first
          got         \* the last value taken: <<>> before the first, then <<v>>

vars == <<items, got>>

TypeOK == items \in Seq(Value) /\ got \in Seq(Value)

Init == items = <<>> /\ got = <<>>

Put(v) == /\ items' = Append(items, v)
          /\ UNCHANGED got

Take == /\ items # <<>>
        /\ got' = <<Head(items)>>
        /\ items' = Tail(items)

Next == Take \/ \E v \in Value : Put(v)

Spec == Init /\ [][Next]_vars
============================================================================
