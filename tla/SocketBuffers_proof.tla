-------------------------- MODULE SocketBuffers_proof --------------------------
(* What a TCP connection has read, and what a UDP socket has yet to write.  *)
EXTENDS QueryBuffer, UdpSendQueue, SequenceTheorems, TLAPS

-----------------------------------------------------------------------------
(***************************************************************************)
(* Proofs about QueryBuffer, for every size of header, bodies and mark.    *)
(*                                                                         *)
(* The property speaks of the moments when the worker waits.  Inside the   *)
(* loop it is the frame that knows how far it is: the header is not found, *)
(* found, or the request was run (Progress); and the loop is left only     *)
(* when the frame has nothing more to find (Waiting).                      *)
(***************************************************************************)

\* How often the request has been run, by what the frame says.
Progress ==
  conn # "closed" =>
    /\ processed # ShortMark => runs = 0
    /\ processed = ShortMark => /\ runs > 0
                                /\ buffered >= HeadSize + request.body
                                /\ runs > 1 => buffered >= ShortMark + request.body

Waiting == conn = "waiting" => buffered < processed + expected

IInv == TypeOK /\ Progress /\ Waiting

-----------------------------------------------------------------------------
LEMMA InitIInv == Init => IInv
<1>. SUFFICES ASSUME Init PROVE IInv
  OBVIOUS
<1>1. /\ HeadSize \in Nat /\ HeadSize > 0 /\ ShortMark \in Nat /\ ShortMark > 0
      /\ MaxSent \in Nat
  BY SizesAssumption
<1>2. TypeOK
  <2>1. sent \in 0 .. MaxSent /\ buffered \in 0 .. sent /\ runs \in Nat
    BY <1>1 DEF Init
  <2>2. gone \in BOOLEAN
    BY DEF Init
  <2>. QED  BY <2>1, <2>2 DEF Init, TypeOK
<1>3. Progress
  BY <1>1 DEF Init, Progress
<1>4. Waiting
  BY <1>1 DEF Init, Waiting
<1>. QED  BY <1>2, <1>3, <1>4 DEF IInv

\* The numbers in a state of the right types
LEMMA Numbers ==
  ASSUME TypeOK
  PROVE  /\ HeadSize \in Nat /\ ShortMark \in Nat /\ HeadSize > 0 /\ HeadSize < ShortMark
         /\ request.body \in Nat /\ buffered \in Nat /\ sent \in Nat /\ runs \in Nat
         /\ expected \in Nat /\ processed \in Nat /\ buffered <= sent
<1>1. HeadSize \in Nat /\ ShortMark \in Nat /\ HeadSize > 0 /\ HeadSize < ShortMark /\ MaxSent \in Nat
  BY SizesAssumption
<1>2. request.body \in Nat
  BY SizesAssumption DEF TypeOK, Request
<1>3. sent \in Nat /\ buffered \in Nat /\ buffered <= sent /\ runs \in Nat
  BY <1>1 DEF TypeOK
<1>4. expected \in Nat /\ processed \in Nat
  BY <1>1, <1>2 DEF TypeOK
<1>. QED  BY <1>1, <1>2, <1>3, <1>4

LEMMA ReadIInv == IInv /\ ReadQuery => IInv'
<1>. SUFFICES ASSUME IInv, ReadQuery PROVE IInv'
  OBVIOUS
<1>1. /\ UNCHANGED <<client, frame, runs>>
      /\ conn = "waiting" /\ conn' \in {"busy", "closed"}
  BY DEF ReadQuery
<1>2. buffered' = buffered + Readable /\ Readable \in 0 .. sent - buffered
  BY Numbers DEF ReadQuery, Readable, IInv
<1>3. buffered' \in 0 .. sent /\ buffered' >= buffered
  BY <1>2, Numbers DEF IInv
<1>4. TypeOK'
  BY <1>1, <1>3 DEF IInv, TypeOK, client, frame
<1>5. Progress'
  BY <1>1, <1>3, Numbers DEF IInv, Progress, client, frame
<1>. QED  BY <1>1, <1>4, <1>5 DEF IInv, Waiting

LEMMA TakeHeadIInv == IInv /\ TakeHead => IInv'
<1>. SUFFICES ASSUME IInv, TakeHead PROVE IInv'
  OBVIOUS
<1>1. /\ UNCHANGED <<client, buffered, runs>>
      /\ conn = "busy" /\ conn' # "waiting" /\ conn' \in {"busy", "closed"}
      /\ state = "head"
  BY DEF TakeHead
<1>2. Waiting'
  BY <1>1 DEF Waiting
<1>3. CASE request.fault # "magic"
  <2>1. state' = "body" /\ processed' = HeadSize /\ expected' = request.body
    BY <1>3 DEF TakeHead
  <2>2. TypeOK'
    BY <1>1, <2>1 DEF IInv, TypeOK, client
  <2>3. processed = 0
    BY <1>1 DEF IInv, TypeOK
  <2>4. Progress'
    BY <1>1, <2>1, <2>3, Numbers DEF IInv, Progress, client
  <2>. QED  BY <1>2, <2>2, <2>4 DEF IInv
<1>4. CASE request.fault = "magic"
  <2>1. conn' = "closed" /\ UNCHANGED frame
    BY <1>4 DEF TakeHead
  <2>. QED  BY <1>1, <1>2, <2>1 DEF IInv, TypeOK, Progress, client, frame
<1>. QED  BY <1>3, <1>4

LEMMA RunIInv == IInv /\ Run => IInv'
<1>. SUFFICES ASSUME IInv, Run PROVE IInv'
  OBVIOUS
<1>1. /\ UNCHANGED <<client, buffered, state, expected>>
      /\ conn = "busy" /\ conn' # "waiting" /\ conn' \in {"busy", "closed"}
      /\ state = "body" /\ runs' = runs + 1 /\ buffered >= processed + expected
  BY DEF Run, Complete
<1>2. expected = request.body /\ processed \in {HeadSize, ShortMark}
  BY <1>1 DEF IInv, TypeOK
<1>3. Waiting'
  BY <1>1 DEF Waiting
<1>4. \/ processed' = ShortMark
      \/ conn' = "closed" /\ processed' = processed
  BY DEF Run
<1>5. TypeOK'
  <2>1. processed' \in {HeadSize, ShortMark} /\ runs' \in Nat
    BY <1>1, <1>2, <1>4, Numbers DEF IInv
  <2>2. state' = "body" /\ expected' = request'.body
    BY <1>1, <1>2 DEF client
  <2>. QED  BY <1>1, <2>1, <2>2 DEF IInv, TypeOK, client
<1>6. Progress'
  <2>1. CASE conn' = "closed"
    BY <2>1 DEF Progress
  <2>2. CASE conn' # "closed"
    <3>1. /\ runs' > 0 /\ buffered >= HeadSize + request.body
          /\ processed = ShortMark => buffered >= ShortMark + request.body
          /\ processed # ShortMark => runs' = 1
      BY <1>1, <1>2, Numbers DEF IInv, Progress
    <3>. QED  BY <1>1, <1>4, <2>2, <3>1 DEF Progress, client
  <2>. QED  BY <2>1, <2>2
<1>. QED  BY <1>3, <1>5, <1>6 DEF IInv

LEMMA NextIInv == IInv /\ [Next]_vars => IInv'
<1>. SUFFICES ASSUME IInv, [Next]_vars PROVE IInv'
  OBVIOUS
<1>1. CASE Send
  <2>1. sent' \in 0 .. MaxSent /\ sent' >= sent
    BY <1>1, Numbers DEF Send, IInv, TypeOK
  <2>2. UNCHANGED <<request, gone, conn, buffered, frame, runs>>
    BY <1>1 DEF Send
  <2>3. buffered' \in 0 .. sent'
    BY <2>1, <2>2, Numbers DEF IInv
  <2>. QED  BY <2>1, <2>2, <2>3 DEF IInv, TypeOK, Progress, Waiting, frame
<1>2. CASE Leave
  BY <1>2 DEF Leave, IInv, TypeOK, Progress, Waiting, frame
<1>3. CASE Wait
  <2>1. buffered < processed + expected
    BY <1>3, Numbers DEF Wait, Complete, IInv
  <2>. QED  BY <1>3, <2>1 DEF Wait, IInv, TypeOK, Progress, Waiting, client, frame
<1>4. CASE Timeout
  BY <1>4 DEF Timeout, IInv, TypeOK, Progress, Waiting, client, frame
<1>5. CASE UNCHANGED vars
  BY <1>5 DEF vars, IInv, TypeOK, Progress, Waiting, client, frame
<1>. QED
  BY <1>1, <1>2, <1>3, <1>4, <1>5, ReadIInv, TakeHeadIInv, RunIInv DEF Next, Worker

-----------------------------------------------------------------------------
\* The invariant holds in every reachable state.
THEOREM IInvHolds == Spec => []IInv
BY InitIInv, NextIInv, PTL DEF Spec

\* A request is run exactly when its last byte has been read, and again only
\* beyond the mark (SignalingWorker::_process_query_buffer).
THEOREM RunsWhenComplete == Spec => []RunWhenComplete
<1>1. IInv => RunWhenComplete
  <2>. SUFFICES ASSUME IInv, conn = "waiting"
                PROVE  /\ runs = 0 <=> buffered < HeadSize + request.body
                       /\ runs > 1 => buffered >= ShortMark + request.body
    BY DEF RunWhenComplete
  <2>1. /\ buffered < processed + expected
        /\ processed # ShortMark => runs = 0
        /\ processed = ShortMark => /\ runs > 0
                                    /\ buffered >= HeadSize + request.body
                                    /\ runs > 1 => buffered >= ShortMark + request.body
    BY DEF IInv, Waiting, Progress
  <2>2. CASE processed = ShortMark
    BY <2>1, <2>2, Numbers DEF IInv
  <2>3. CASE processed # ShortMark
    <3>1. \/ expected = HeadSize /\ processed = 0
          \/ expected = request.body /\ processed = HeadSize
      BY <2>3 DEF IInv, TypeOK
    <3>. QED  BY <2>1, <2>3, <3>1, Numbers DEF IInv
  <2>. QED  BY <2>2, <2>3
<1>. QED  BY <1>1, IInvHolds, PTL

-----------------------------------------------------------------------------
(***************************************************************************)
(* Proofs about UdpSendQueue, for every number of packets and of places in *)
(* the kernel's buffer.  UdpTypeOK, PendingIsWatched and SentInOrder are      *)
(* inductive together.  Every action keeps an end of the queue (Behind)    *)
(* and remembers the last packet before it (LastOf): the lemma Flushed     *)
(* says once what that does to the order.                                  *)
(***************************************************************************)

UdpIInv == UdpTypeOK /\ PendingIsWatched /\ SentInOrder

-----------------------------------------------------------------------------
LEMMA UdpInitIInv == UdpInit => UdpIInv
<1>. SUFFICES ASSUME UdpInit PROVE UdpIInv
  OBVIOUS
<1>1. queue = <<>> /\ Len(queue) = 0 /\ last = 0 /\ given = 0 /\ room = MaxRoom
  BY DEF UdpInit
<1>2. UdpTypeOK
  <2>1. queue \in Seq(1 .. MaxPackets)
    BY <1>1
  <2>2. given \in 0 .. MaxPackets /\ last \in 0 .. given /\ room \in 0 .. MaxRoom
    BY <1>1, BoundsAssumption
  <2>3. watched \in BOOLEAN /\ due \in BOOLEAN
    BY DEF UdpInit
  <2>. QED  BY <2>1, <2>2, <2>3 DEF UdpTypeOK
<1>3. SentInOrder
  BY <1>1 DEF SentInOrder
<1>. QED  BY <1>1, <1>2, <1>3 DEF UdpIInv, PendingIsWatched

\* UdpNumbers and ranges in a state of the right types
LEMMA UdpNumbers ==
  ASSUME UdpTypeOK
  PROVE  /\ Len(queue) \in Nat /\ room \in Nat /\ given \in Nat /\ last \in Nat
         /\ last <= given /\ given <= MaxPackets /\ MaxPackets \in Nat
         /\ MaxRoom \in Nat /\ room <= MaxRoom
         /\ \A i \in 1 .. Len(queue) : queue[i] \in 1 .. MaxPackets
<1>1. MaxPackets \in Nat /\ MaxRoom \in Nat
  BY BoundsAssumption
<1>2. queue \in Seq(1 .. MaxPackets)
  BY DEF UdpTypeOK
<1>3. given \in 0 .. MaxPackets /\ last \in 0 .. given /\ room \in 0 .. MaxRoom
  BY DEF UdpTypeOK
<1>. QED  BY <1>1, <1>2, <1>3

\* The elements of any sequence
LEMMA UdpElements ==
  ASSUME NEW S, NEW q \in Seq(S)
  PROVE  Len(q) \in Nat /\ \A i \in 1 .. Len(q) : q[i] \in S
BY ElementOfSeq, LenProperties

\* What is left of the queue when it lost its first d packets, of which the
\* kernel took n: still in order, younger than the last one taken.
LEMMA Flushed ==
  ASSUME UdpIInv, NEW n \in 0 .. Len(queue), NEW d \in n .. Len(queue)
  PROVE  /\ Behind(d) \in Seq(1 .. MaxPackets)
         /\ Len(Behind(d)) = Len(queue) - d
         /\ \A i \in 1 .. Len(Behind(d)) : Behind(d)[i] = queue[i + d]
         /\ LastOf(n) \in 0 .. given
         /\ \A i \in 1 .. Len(Behind(d)) :
              LastOf(n) < Behind(d)[i] /\ Behind(d)[i] <= given
         /\ \A i, j \in 1 .. Len(Behind(d)) : i < j => Behind(d)[i] < Behind(d)[j]
<1>1. queue \in Seq(1 .. MaxPackets)
  BY DEF UdpIInv, UdpTypeOK
<1>2. d \in Nat /\ n \in Nat /\ n <= d /\ d <= Len(queue) /\ Len(queue) \in Nat
  BY <1>1
<1>3. /\ Behind(d) \in Seq(1 .. MaxPackets)
      /\ Len(Behind(d)) = Len(queue) - d
      /\ \A i \in 1 .. Len(Behind(d)) : Behind(d)[i] = queue[i + d]
  <2>1. d + 1 \in Int /\ Len(queue) \in Int
    BY <1>2
  <2>2. \A i \in d + 1 .. Len(queue) : queue[i] \in 1 .. MaxPackets
    <3>. SUFFICES ASSUME NEW i \in d + 1 .. Len(queue) PROVE queue[i] \in 1 .. MaxPackets
      OBVIOUS
    <3>1. i \in 1 .. Len(queue)
      BY <1>2
    <3>. QED  BY <3>1, <1>1, UdpElements
  <2>3. /\ Behind(d) \in Seq(1 .. MaxPackets)
        /\ Len(Behind(d)) = IF d + 1 <= Len(queue) THEN Len(queue) - (d + 1) + 1 ELSE 0
        /\ \A i \in 1 .. Len(queue) - (d + 1) + 1 : Behind(d)[i] = queue[d + 1 + i - 1]
    BY <2>1, <2>2, SubSeqProperties DEF Behind
  <2>4. Len(Behind(d)) = Len(queue) - d
    BY <2>3, <1>2
  <2>5. \A i \in 1 .. Len(Behind(d)) : Behind(d)[i] = queue[i + d]
    <3>. SUFFICES ASSUME NEW i \in 1 .. Len(Behind(d)) PROVE Behind(d)[i] = queue[i + d]
      OBVIOUS
    <3>1. i \in 1 .. Len(queue) - (d + 1) + 1 /\ d + 1 + i - 1 = i + d
      BY <1>2, <2>4
    <3>. QED  BY <2>3, <3>1
  <2>. QED  BY <2>3, <2>4, <2>5
<1>4. /\ \A i \in 1 .. Len(queue) : last < queue[i] /\ queue[i] <= given
      /\ \A i, j \in 1 .. Len(queue) : i < j => queue[i] < queue[j]
  BY DEF UdpIInv, SentInOrder
<1>5. \A i \in 1 .. Len(Behind(d)) : i + d \in 1 .. Len(queue)
  BY <1>2, <1>3
<1>6. LastOf(n) \in 0 .. given
  BY <1>2, <1>4, UdpNumbers DEF LastOf, UdpIInv
<1>7. \A i \in 1 .. Len(Behind(d)) : LastOf(n) < Behind(d)[i]
  <2>. SUFFICES ASSUME NEW i \in 1 .. Len(Behind(d)) PROVE LastOf(n) < queue[i + d]
    BY <1>3
  <2>1. CASE n = 0
    BY <2>1, <1>4, <1>5 DEF LastOf
  <2>2. CASE n # 0
    <3>1. n \in 1 .. Len(queue) /\ i + d \in 1 .. Len(queue) /\ n < i + d
      BY <2>2, <1>2, <1>5
    <3>. QED  BY <2>2, <3>1, <1>4 DEF LastOf
  <2>. QED  BY <2>1, <2>2
<1>8. \A i \in 1 .. Len(Behind(d)) : Behind(d)[i] <= given
  BY <1>3, <1>4, <1>5
<1>9. \A i, j \in 1 .. Len(Behind(d)) : i < j => Behind(d)[i] < Behind(d)[j]
  <2>. SUFFICES ASSUME NEW i \in 1 .. Len(Behind(d)), NEW j \in 1 .. Len(Behind(d)), i < j
                PROVE  queue[i + d] < queue[j + d]
    BY <1>3
  <2>1. i + d < j + d
    BY <1>2
  <2>. QED  BY <2>1, <1>4, <1>5
<1>. QED  BY <1>3, <1>6, <1>7, <1>8, <1>9

\* An end of the queue that is left as it is
LEMMA KeptEnd ==
  ASSUME UdpIInv, NEW n \in 0 .. Len(queue), NEW d \in n .. Len(queue), n <= room,
         queue' = Behind(d), last' = LastOf(n), room' = room - n,
         given' \in given .. MaxPackets,
         watched' \in BOOLEAN, due' \in BOOLEAN,
         watched' = watched \/ d = Len(queue)
  PROVE  UdpIInv'
<1>1. n \in Nat /\ d \in Nat /\ d <= Len(queue)
  BY UdpNumbers DEF UdpIInv
<1>2. given' \in 0 .. MaxPackets /\ last' \in 0 .. given' /\ given <= given'
  BY Flushed, UdpNumbers, SMTT(30) DEF UdpIInv
<1>3. room' \in 0 .. MaxRoom
  BY <1>1, UdpNumbers DEF UdpIInv
<1>4. queue' \in Seq(1 .. MaxPackets)
  BY Flushed
<1>5. PendingIsWatched'
  <2>1. Len(queue') = Len(queue) - d
    BY Flushed
  <2>2. CASE watched' = watched
    <3>1. queue = <<>> => queue' = <<>>
      <4>. SUFFICES ASSUME queue = <<>> PROVE queue' = <<>>
        OBVIOUS
      <4>1. Len(queue) = 0 /\ Len(queue') = 0
        BY <1>1, <2>1
      <4>. QED  BY <4>1, <1>4
    <3>. QED  BY <3>1, <2>2 DEF UdpIInv, PendingIsWatched
  <2>3. CASE d = Len(queue)
    <3>1. Len(queue') = 0
      BY <2>1, <2>3, <1>1
    <3>. QED  BY <3>1, <1>4 DEF PendingIsWatched
  <2>. QED  BY <2>2, <2>3
<1>6. SentInOrder'
  <2>1. \A i \in 1 .. Len(queue') : queue'[i] \in 1 .. MaxPackets
    BY <1>4, UdpElements
  <2>2. /\ \A i \in 1 .. Len(queue') : last' < queue'[i] /\ queue'[i] <= given
        /\ \A i, j \in 1 .. Len(queue') : i < j => queue'[i] < queue'[j]
    BY Flushed
  <2>3. \A i \in 1 .. Len(queue') : queue'[i] <= given'
    BY <1>2, <2>1, <2>2, UdpNumbers DEF UdpIInv
  <2>. QED  BY <2>2, <2>3 DEF SentInOrder
<1>7. UdpTypeOK'
  BY <1>2, <1>3, <1>4 DEF UdpTypeOK
<1>. QED  BY <1>5, <1>6, <1>7 DEF UdpIInv

\* Every step either keeps an end of the queue, or has sent the new packet after
\* the whole queue, or appends it to an end.
LEMMA UdpNextIInv == UdpIInv /\ [UdpNext]_udpVars => UdpIInv'
<1>. SUFFICES ASSUME UdpIInv, [UdpNext]_udpVars PROVE UdpIInv'
  OBVIOUS
<1>n. Len(queue) \in Nat /\ room \in Nat /\ given \in Nat /\ MaxPackets \in Nat
  BY UdpNumbers DEF UdpIInv
<1>b. watched \in BOOLEAN /\ due \in BOOLEAN
  BY DEF UdpIInv, UdpTypeOK
<1>e. Behind(Len(queue)) = <<>>
  BY <1>n DEF Behind
<1>1. CASE SendNow
  <2>1. PICK n \in 0 .. Len(queue) :
          Emptied(n) /\ n < room /\ queue' = <<>> /\ last' = given' /\ room' = room - n - 1
    BY <1>1 DEF SendNow
  <2>2. given' \in 0 .. MaxPackets /\ UNCHANGED <<watched, due>>
    BY <1>1, <1>n DEF SendNow
  <2>3. room' \in 0 .. MaxRoom
    BY <2>1, <1>n, UdpNumbers DEF UdpIInv
  <2>4. Len(queue') = 0 /\ queue' \in Seq(1 .. MaxPackets)
    BY <2>1
  <2>5. UdpTypeOK'
    BY <2>1, <2>2, <2>3, <2>4, <1>b DEF UdpTypeOK
  <2>. QED  BY <2>1, <2>4, <2>5 DEF UdpIInv, PendingIsWatched, SentInOrder
<1>2. CASE Queue
  <2>1. PICK n \in 0 .. Len(queue) :
          /\ n = room
          /\ queue' = Append(Behind(n), given') /\ last' = LastOf(n) /\ room' = room - n
    BY <1>2 DEF Queue, Again, Emptied
  <2>2. given' = given + 1 /\ given' \in 1 .. MaxPackets /\ watched' = TRUE /\ due' = due
    BY <1>2, <1>n DEF Queue
  <2>3. /\ Behind(n) \in Seq(1 .. MaxPackets)
        /\ LastOf(n) \in 0 .. given
        /\ \A i \in 1 .. Len(Behind(n)) : LastOf(n) < Behind(n)[i] /\ Behind(n)[i] <= given
        /\ \A i, j \in 1 .. Len(Behind(n)) : i < j => Behind(n)[i] < Behind(n)[j]
    BY Flushed
  <2>4. /\ queue' \in Seq(1 .. MaxPackets) /\ Len(queue') = Len(Behind(n)) + 1
        /\ \A i \in 1 .. Len(Behind(n)) : queue'[i] = Behind(n)[i]
        /\ queue'[Len(Behind(n)) + 1] = given'
    BY <2>1, <2>2, <2>3, AppendProperties
  <2>5. last' \in 0 .. given' /\ room' \in 0 .. MaxRoom
    BY <2>1, <2>2, <2>3, <1>n, UdpNumbers DEF UdpIInv
  <2>6. UdpTypeOK'
    BY <2>2, <2>4, <2>5, <1>b DEF UdpTypeOK
  <2>7. SentInOrder'
    <3>1. Len(Behind(n)) \in Nat /\ \A i \in 1 .. Len(Behind(n)) : Behind(n)[i] \in 1 .. MaxPackets
      BY <2>3, UdpElements
    <3>2. \A i \in 1 .. Len(queue') : last' < queue'[i] /\ queue'[i] <= given'
      BY <2>1, <2>2, <2>3, <2>4, <3>1, <1>n
    <3>3. \A i, j \in 1 .. Len(queue') : i < j => queue'[i] < queue'[j]
      <4>. SUFFICES ASSUME NEW i \in 1 .. Len(queue'), NEW j \in 1 .. Len(queue'), i < j
                    PROVE  queue'[i] < queue'[j]
        OBVIOUS
      <4>1. i \in 1 .. Len(Behind(n)) /\ queue'[i] = Behind(n)[i]
        BY <2>4, <3>1
      <4>2. CASE j \in 1 .. Len(Behind(n))
        BY <4>1, <4>2, <2>3, <2>4
      <4>3. CASE j = Len(Behind(n)) + 1
        <5>1. queue'[j] = given + 1 /\ Behind(n)[i] <= given /\ Behind(n)[i] \in 1 .. MaxPackets
          BY <4>1, <4>3, <2>2, <2>3, <2>4, <3>1
        <5>. QED  BY <4>1, <5>1, <1>n
      <4>. QED  BY <4>2, <4>3, <2>4, <3>1
    <3>. QED  BY <3>2, <3>3 DEF SentInOrder
  <2>. QED  BY <2>2, <2>6, <2>7 DEF UdpIInv, PendingIsWatched
<1>3. CASE Refuse
  <2>1. PICK n \in 0 .. Len(queue) :
          /\ \/ Failed(n) /\ queue' = Behind(n + 1)
             \/ Emptied(n) /\ queue' = <<>>
          /\ last' = LastOf(n) /\ room' = room - n
    BY <1>3 DEF Refuse
  <2>2. given' \in given .. MaxPackets /\ UNCHANGED <<watched, due>>
    BY <1>3, <1>n DEF Refuse
  <2>3. CASE Failed(n) /\ queue' = Behind(n + 1)
    <3>1. n + 1 \in n .. Len(queue) /\ n <= room
      BY <2>3, <1>n DEF Failed
    <3>. QED  BY <2>1, <2>2, <2>3, <3>1, <1>b, KeptEnd
  <2>4. CASE Emptied(n) /\ queue' = <<>>
    <3>1. Len(queue) \in n .. Len(queue) /\ n <= room /\ queue' = Behind(Len(queue))
      BY <2>4, <1>n, <1>e DEF Emptied
    <3>. QED  BY <2>1, <2>2, <3>1, <1>b, KeptEnd
  <2>. QED  BY <2>1, <2>3, <2>4
<1>4. CASE SendData
  <2>1. PICK n \in 0 .. Len(queue) :
          /\ \/ Emptied(n) /\ queue' = <<>> /\ watched' = FALSE
             \/ Again(n) /\ queue' = Behind(n) /\ UNCHANGED watched
             \/ Failed(n) /\ queue' = Behind(n + 1) /\ UNCHANGED watched
          /\ last' = LastOf(n) /\ room' = room - n
    BY <1>4 DEF SendData
  <2>2. due' = FALSE /\ given' \in given .. MaxPackets
    BY <1>4, UdpNumbers DEF SendData, UdpIInv
  <2>3. CASE Emptied(n) /\ queue' = <<>> /\ watched' = FALSE
    <3>1. Len(queue) \in n .. Len(queue) /\ n <= room /\ queue' = Behind(Len(queue))
      BY <2>3, <1>n, <1>e DEF Emptied
    <3>. QED  BY <2>1, <2>2, <2>3, <3>1, KeptEnd
  <2>4. CASE Again(n) /\ queue' = Behind(n) /\ UNCHANGED watched
    <3>1. n \in n .. Len(queue) /\ n <= room
      BY <2>4, <1>n DEF Again
    <3>. QED  BY <2>1, <2>2, <2>4, <3>1, <1>b, KeptEnd
  <2>5. CASE Failed(n) /\ queue' = Behind(n + 1) /\ UNCHANGED watched
    <3>1. n + 1 \in n .. Len(queue) /\ n <= room
      BY <2>5, <1>n DEF Failed
    <3>. QED  BY <2>1, <2>2, <2>5, <3>1, <1>b, KeptEnd
  <2>. QED  BY <2>1, <2>3, <2>4, <2>5
<1>5. CASE Report
  BY <1>5 DEF Report, UdpIInv, UdpTypeOK, PendingIsWatched, SentInOrder
<1>6. CASE Drain
  <2>1. room' \in 0 .. MaxRoom
    BY <1>6, UdpNumbers DEF Drain, UdpIInv
  <2>. QED  BY <1>6, <2>1 DEF Drain, UdpIInv, UdpTypeOK, PendingIsWatched, SentInOrder
<1>7. CASE UNCHANGED udpVars
  BY <1>7 DEF udpVars, UdpIInv, UdpTypeOK, PendingIsWatched, SentInOrder
<1>. QED
  BY <1>1, <1>2, <1>3, <1>4, <1>5, <1>6, <1>7 DEF UdpNext, SendTo

-----------------------------------------------------------------------------
THEOREM UdpIInvHolds == UdpSpec => []UdpIInv
BY UdpInitIInv, UdpNextIInv, PTL DEF UdpSpec

\* Packets never wait with the write watcher off (AsyncUdpSocket::send_data and
\* _add_udp_packet with EventLoop::start_io_event and stop_io_event).
THEOREM AlwaysWatched == UdpSpec => []PendingIsWatched
BY UdpIInvHolds, PTL DEF UdpIInv

\* Packets leave in the order they were given, each at most once.
THEOREM AlwaysInOrder == UdpSpec => []SentInOrder
BY UdpIInvHolds, PTL DEF UdpIInv

=============================================================================
