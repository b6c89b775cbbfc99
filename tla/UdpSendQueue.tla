---------------------------- MODULE UdpSendQueue ---------------------------
(***************************************************************************)
(* base/async_udp_socket.cpp: the packets a UDP port could not send, and   *)
(* the write watcher (base/event_loop.cpp) that has to be on for them to   *)
(* leave.  Packets are numbered in the order of the calls of send_to.  The *)
(* kernel is its send buffer: a packet that finds room is accepted, one    *)
(* that finds none is EAGAIN, and any may be refused by an error.          *)
(***************************************************************************)
EXTENDS Integers, Sequences

CONSTANTS MaxRoom,    \* packets that fit the kernel's send buffer
          MaxPackets  \* bound: calls of send_to

ASSUME BoundsAssumption == MaxRoom \in Nat \ {0} /\ MaxPackets \in Nat

VARIABLES
  queue,    \* _udp_packet_list
  watched,  \* WRITE is among the events of _socket_watcher
  due,      \* a callback with the WRITE event is under way
  given,    \* packets given to send_to so far
  last,     \* the last packet the kernel accepted, 0 before the first
  room      \* free places of the kernel's send buffer

udpVars == <<queue, watched, due, given, last, room>>

UdpTypeOK ==
  /\ queue \in Seq(1 .. MaxPackets)
  /\ watched \in BOOLEAN /\ due \in BOOLEAN
  /\ given \in 0 .. MaxPackets /\ last \in 0 .. given
  /\ room \in 0 .. MaxRoom

UdpInit ==
  /\ queue = <<>>
  /\ watched = FALSE /\ due = FALSE
  /\ given = 0 /\ last = 0
  /\ room = MaxRoom

----------------------------------------------------------------------------
(* The loop over the queue, the same in send_data and in _add_udp_packet:   *)
(* n packets are sent, then the queue is empty, the kernel's buffer full or *)
(* the next packet in error.                                                *)

Emptied(n) == n = Len(queue) /\ n <= room
Again(n) == n = room /\ n < Len(queue)
Failed(n) == n < Len(queue) /\ n <= room

Behind(n) == SubSeq(queue, n + 1, Len(queue))
LastOf(n) == IF n = 0 THEN last ELSE queue[n]

----------------------------------------------------------------------------
(* send_to, of a packet numbered given' *)

\* The queue could be sent and the packet as well.
SendNow ==
  /\ given < MaxPackets /\ given' = given + 1
  /\ \E n \in 0 .. Len(queue) :
       /\ Emptied(n) /\ n < room
       /\ queue' = <<>> /\ last' = given' /\ room' = room - n - 1
  /\ UNCHANGED <<watched, due>>

\* Mutant: the watcher is started only from the loop, not for the packet's own
\* EAGAIN.
QueueUnwatched ==
  /\ given < MaxPackets /\ given' = given + 1
  /\ \E n \in 0 .. Len(queue) :
       /\ Again(n) \/ (Emptied(n) /\ n = room)
       /\ queue' = Append(Behind(n), given') /\ last' = LastOf(n) /\ room' = room - n
       /\ watched' = (watched \/ n < Len(queue))
  /\ UNCHANGED due

\* SEND_AGAIN, from the loop or from the packet's own EAGAIN
Queue ==
  /\ given < MaxPackets /\ given' = given + 1
  /\ \E n \in 0 .. Len(queue) :
       /\ Again(n) \/ (Emptied(n) /\ n = room)
       /\ queue' = Append(Behind(n), given') /\ last' = LastOf(n) /\ room' = room - n
  /\ watched' = TRUE
  /\ UNCHANGED due

\* -1: a waiting packet in error is dropped and the new one not tried, or the
\* new one is in error itself.
Refuse ==
  /\ given < MaxPackets /\ given' = given + 1
  /\ \E n \in 0 .. Len(queue) :
       /\ \/ Failed(n) /\ queue' = Behind(n + 1)
          \/ Emptied(n) /\ queue' = <<>>
       /\ last' = LastOf(n) /\ room' = room - n
  /\ UNCHANGED <<watched, due>>

SendTo == SendNow \/ Queue \/ Refuse

----------------------------------------------------------------------------
(* The event loop *)

\* The loop calls back for a socket that can be written.  The callback reads
\* first, which may call send_to, and then calls send_data.
Report ==
  /\ watched /\ room > 0 /\ ~due
  /\ due' = TRUE
  /\ UNCHANGED <<queue, watched, given, last, room>>

\* Mutant: the watcher is stopped however the loop ends.
SendDataStops ==
  /\ due /\ due' = FALSE
  /\ \E n \in 0 .. Len(queue) :
       /\ \/ Emptied(n) /\ queue' = <<>>
          \/ Again(n) /\ queue' = Behind(n)
          \/ Failed(n) /\ queue' = Behind(n + 1)
       /\ last' = LastOf(n) /\ room' = room - n
  /\ watched' = FALSE
  /\ UNCHANGED given

\* send_data: only the end of the queue stops the watcher.
SendData ==
  /\ due /\ due' = FALSE
  /\ \E n \in 0 .. Len(queue) :
       /\ \/ Emptied(n) /\ queue' = <<>> /\ watched' = FALSE
          \/ Again(n) /\ queue' = Behind(n) /\ UNCHANGED watched
          \/ Failed(n) /\ queue' = Behind(n + 1) /\ UNCHANGED watched
       /\ last' = LastOf(n) /\ room' = room - n
  /\ UNCHANGED given

\* The kernel puts a packet on the wire.
Drain ==
  /\ room < MaxRoom
  /\ room' = room + 1
  /\ UNCHANGED <<queue, watched, due, given, last>>

UdpNext == SendTo \/ Report \/ SendData \/ Drain

UdpSpec == UdpInit /\ [][UdpNext]_udpVars

\* The loop runs and the network takes what is buffered.
UdpFairSpec == UdpSpec /\ WF_udpVars(Report) /\ WF_udpVars(SendData) /\ WF_udpVars(Drain)

----------------------------------------------------------------------------
(* Properties *)

\* Packets wait only while the watcher that will send them is on: not after an
\* error in the middle of the queue, nor when send_to empties the queue the
\* watcher was started for.
PendingIsWatched == queue # <<>> => watched

\* The kernel gets packets in the order of send_to, none of them twice: what
\* waits is younger than what was sent, and its order is that of the calls.
SentInOrder ==
  /\ \A i \in 1 .. Len(queue) : last < queue[i] /\ queue[i] <= given
  /\ \A i, j \in 1 .. Len(queue) : i < j => queue[i] < queue[j]

\* A packet send_to has accepted does not wait forever.
PendingLeaves ==
  \A p \in 1 .. MaxPackets :
    (\E i \in 1 .. Len(queue) : queue[i] = p) ~> \A i \in 1 .. Len(queue) : queue[i] # p
=============================================================================
