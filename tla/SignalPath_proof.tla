-------------------------- MODULE SignalPath_proof --------------------------
(***************************************************************************)
(* Proofs about SignalPath, for every number of requests, streams, threads *)
(* of either kind, descriptors and addresses.                              *)
(*                                                                         *)
(* Four invariants, each built on the ones before it:                      *)
(*   Ownership   who holds a descriptor, where a connection is             *)
(*   MessageInv  a request's messages: at most one, on its way             *)
(*   OneAnswer   its answer: at most one, after it was read                *)
(*   OrderInv    what was answered before is ahead in the same queue       *)
(***************************************************************************)
EXTENDS SignalPath, SequenceTheorems, FiniteSetTheorems, TLAPS

Has(s, q) == \E i \in 1 .. Len(s) : s[i].req = q
OnceEach(s) == \A i, j \in 1 .. Len(s) : s[i].req = s[j].req => i = j

\* An accepted descriptor is queued in one place or open at one worker; a
\* client is at one end of one connection.
Ownership ==
  /\ \A w, u \in Workers : \A i \in 1 .. Len(qConn[w]), j \in 1 .. Len(qConn[u]) :
       qConn[w][i] = qConn[u][j] => w = u /\ i = j
  /\ \A w, u \in Workers, f \in Fd : Open(w, f) /\ Open(u, f) => w = u
  /\ \A w, u \in Workers : \A i \in 1 .. Len(qConn[w]) : ~Open(u, qConn[w][i])
  /\ \A w \in Workers : \A i \in 1 .. Len(qConn[w]) : sock[qConn[w][i]] # None
  /\ \A w \in Workers, f \in Fd : Open(w, f) => sock[f] # None
  /\ \A f \in Fd : sock[f] # None =>
       \E w \in Workers : Open(w, f) \/ \E i \in 1 .. Len(qConn[w]) : qConn[w][i] = f

OnePlace ==
  /\ \A f, g \in Fd : sock[f] # None /\ sock[f] = sock[g] => f = g
  /\ \A i, j \in 1 .. Len(backlog) : backlog[i] = backlog[j] => i = j
  /\ \A i \in 1 .. Len(backlog), f \in Fd : backlog[i] # sock[f]
  /\ \A i \in 1 .. Len(backlog) : client[backlog[i]] # "idle"
  /\ \A f \in Fd : sock[f] # None => client[sock[f]] # "idle"
  /\ \A q \in Req : client[q] \in {"idle", "connected"} => cmd[q] = None
  /\ \A q \in Req : cmd[q] = None => seen[q] = {}

\* Requests no worker has read yet.
Fresh == {q \in Req :
  \/ client[q] = "idle"
  \/ \E i \in 1 .. Len(backlog) : backlog[i] = q
  \/ \E w \in Workers : \E i \in 1 .. Len(qConn[w]) : sock[qConn[w][i]] = q
  \/ \E w \in Workers, f \in Fd : Open(w, f) /\ ~conns[w][f].asked /\ sock[f] = q}

Done(q) == q \in applied \cup dropped
Waiting(q) == Has(qRtc, q) \/ \E v \in RW : Has(qWork[v], q)

\* A message is of a request that was read, and names a connection only when it
\* is of an offer.
SoundMsg(m) == /\ cmd[m.req] # None
               /\ m.req \notin Fresh
               /\ m.worker # None => /\ cmd[m.req][1] = "offer"
                                     /\ m.conn # None /\ m.fd # None

SoundQueues ==
  /\ \A q \in Fresh : ~Done(q)
  /\ \A i \in 1 .. Len(qRtc) : SoundMsg(qRtc[i])
  /\ \A v \in RW : \A i \in 1 .. Len(qWork[v]) :
       SoundMsg(qWork[v][i]) /\ Route(qWork[v][i]) = v
  /\ \A w \in Workers : \A i \in 1 .. Len(qReply[w]) :
       /\ SoundMsg(qReply[w][i])
       /\ qReply[w][i].worker = w
       /\ qReply[w][i].req \in applied

OneMessage ==
  /\ OnceEach(qRtc)
  /\ \A v \in RW : OnceEach(qWork[v])
  /\ \A w \in Workers : OnceEach(qReply[w])
  /\ \A q \in Req, v \in RW : Has(qRtc, q) => ~Has(qWork[v], q)
  /\ \A q \in Req : Waiting(q) => ~Done(q)
  /\ \A w, u \in Workers, q \in Req : Has(qReply[w], q) /\ Has(qReply[u], q) => w = u

MessageInv == SoundQueues /\ OneMessage

Names(s, q) == \E i \in 1 .. Len(s) : s[i] = q
NoTwice(s) == \A i, j \in 1 .. Len(s) : s[i] = s[j] => i = j

Answered(q) == \/ \E r \in Req : Names(got[r], q)
               \/ \E w \in Workers, f \in Fd : Names(conns[w][f].replies, q)

\* What was answered was read before, and its message is not on its way back.
AnswersAreLate ==
  \A q \in Req : Answered(q) =>
    /\ q \notin Fresh
    /\ cmd[q] # None
    /\ Done(q) \/ Waiting(q)
    /\ cmd[q][1] = "offer" => q \in applied
    /\ \A w \in Workers : ~Has(qReply[w], q)

OneAnswer ==
  /\ \A r \in Req : NoTwice(got[r])
  /\ \A w \in Workers, f \in Fd : NoTwice(conns[w][f].replies)
  /\ \A q, r, t \in Req : Names(got[r], q) /\ Names(got[t], q) => r = t
  /\ \A q \in Req, w, u \in Workers, f, g \in Fd :
       Names(conns[w][f].replies, q) /\ Names(conns[u][g].replies, q) => w = u /\ f = g
  /\ \A q, r \in Req, w \in Workers, f \in Fd :
       ~(Names(conns[w][f].replies, q) /\ Names(got[r], q))

Before(s, q, r) ==
  \A i \in 1 .. Len(s) : s[i].req = r => \E j \in 1 .. i - 1 : s[j].req = q

SameStream(q, r) == cmd[q][2] = cmd[r][2]
At(q) == HashOf[cmd[q][2]]

\* Whoever was answered when r was sent is ahead of r wherever r waits.
OrderInv ==
  \A r \in Req : \A q \in seen[r] :
    /\ Names(got[q], q)
    /\ SameStream(q, r) /\ ~Done(q) =>
         /\ Has(qWork[At(q)], q) \/ Before(qRtc, q, r)
         /\ Before(qWork[At(q)], q, r)

\* What RtcServer reads it can route.
Known == \A i \in 1 .. Len(qRtc) : cmd[qRtc[i].req] # None

Base == TypeOK /\ Ownership /\ OnePlace /\ Known

-----------------------------------------------------------------------------
(* Sequences and constants *)

LEMMA Appended ==
  ASSUME NEW S, NEW s \in Seq(S), NEW x \in S
  PROVE  /\ Append(s, x) \in Seq(S)
         /\ Len(s) \in Nat /\ Len(Append(s, x)) = Len(s) + 1
         /\ \A i \in 1 .. Len(s) : Append(s, x)[i] = s[i] /\ s[i] \in S
         /\ Append(s, x)[Len(s) + 1] = x
BY AppendProperties, ElementOfSeq, LenProperties

LEMMA Taken ==
  ASSUME NEW S, NEW s \in Seq(S), s # <<>>
  PROVE  /\ Tail(s) \in Seq(S) /\ Head(s) \in S /\ Head(s) = s[1]
         /\ Len(s) \in Nat /\ Len(s) >= 1 /\ Len(Tail(s)) = Len(s) - 1
         /\ \A i \in 1 .. Len(s) : s[i] \in S
         /\ \A i \in 1 .. Len(s) - 1 : Tail(s)[i] = s[i + 1]
BY HeadTailProperties, ElementOfSeq, LenProperties, EmptySeq

LEMMA Elements ==
  ASSUME NEW S, NEW s \in Seq(S)
  PROVE  /\ Len(s) \in Nat /\ DOMAIN s = 1 .. Len(s)
         /\ \A i \in 1 .. Len(s) : s[i] \in S
BY ElementOfSeq, LenProperties

LEMMA MessageType ==
  ASSUME NEW m \in Message
  PROVE  m.req \in Req /\ m.worker \in Workers \cup {None} /\ m.fd \in Fd \cup {None}
BY DEF Message

LEMMA Messages ==
  ASSUME NEW s \in Seq(Message)
  PROVE  /\ Len(s) \in Nat
         /\ \A i \in 1 .. Len(s) : s[i] \in Message /\ s[i].req \in Req
BY Elements, MessageType

LEMMA Constants ==
  /\ Len(SW) \in Nat /\ Len(SW) > 0 /\ \A i \in 1 .. Len(SW) : SW[i] \in Workers
  /\ IsFiniteSet(Workers) /\ IsFiniteSet(Thread)
  /\ None \notin Req /\ None \notin Fd /\ None \notin Addr /\ None \notin Workers
<1>1. Len(SW) \in Nat /\ DOMAIN SW = 1 .. Len(SW) /\ \A i \in 1 .. Len(SW) : SW[i] \in Workers
  BY WorkersAssumption, Elements
<1>2. IsFiniteSet(Workers)
  <2>1. IsFiniteSet(1 .. Len(SW))
    BY <1>1, FS_Interval
  <2>2. SW \in Surjection(1 .. Len(SW), Workers)
    BY <1>1, WorkersAssumption DEF Workers, Range, Surjection
  <2>. QED  BY <2>1, <2>2, FS_Surjection
<1>3. IsFiniteSet(Thread)
  <2>1. IsFiniteSet({Ss}) /\ IsFiniteSet({Rs})
    BY FS_Singleton
  <2>2. {Ss, Rs} = {Ss} \cup {Rs}
    OBVIOUS
  <2>. QED  BY <2>1, <2>2, <1>2, WorkersAssumption, FS_Union DEF Thread
<1>. QED  BY <1>1, <1>2, <1>3, WorkersAssumption, NoneAssumption

-----------------------------------------------------------------------------
(* What the actions of a SignalingWorker do to its connections *)

LEMMA Fields ==
  ASSUME NEW c \in Connection
  PROVE  c.addr \in Addr \cup {None} /\ c.asked \in BOOLEAN /\ c.replies \in Seq(Req)
BY DEF Connection

\* One entry of one worker's table becomes c.
Becomes(w, f, c) ==
  /\ conns' \in [Workers -> [Fd -> Connection]]
  /\ \A u \in Workers, g \in Fd :
       conns'[u][g] = IF u = w /\ g = f THEN c ELSE conns[u][g]

LEMMA ConnsEdit ==
  ASSUME TypeOK, NEW w \in Workers, NEW f \in Fd, NEW c \in Connection,
         conns' = [conns EXCEPT ![w][f] = c]
  PROVE  Becomes(w, f, c)
<1>1. [conns[w] EXCEPT ![f] = c] \in [Fd -> Connection]
  BY DEF TypeOK
<1>. QED  BY <1>1 DEF TypeOK, Becomes

LEMMA NoConnFields ==
  NoConn \in Connection /\ NoConn.addr = None /\ NoConn.asked = FALSE /\ NoConn.replies = <<>>
<1>1. <<>> \in Seq(Req)
  OBVIOUS
<1>. QED  BY <1>1 DEF NoConn, Connection

LEMMA NewConnEffect ==
  ASSUME TypeOK, NEW w \in Workers, NewConn(w)
  PROVE  \/ qConn' = qConn /\ conns' = conns
         \/ /\ qConn[w] # <<>> /\ Head(qConn[w]) \in Fd
            /\ qConn' = [qConn EXCEPT ![w] = Tail(@)]
            /\ \E c \in Connection :
                 /\ c.addr # None /\ c.asked = FALSE /\ c.replies = <<>>
                 /\ Becomes(w, Head(qConn[w]), c)
<1>1. CASE qConn[w] = <<>>
  BY <1>1 DEF NewConn
<1>2. CASE qConn[w] # <<>>
  <2>1. PICK a \in Addr : conns' = [conns EXCEPT ![w][Head(qConn[w])] = [NoConn EXCEPT !.addr = a]]
    BY <1>2 DEF NewConn
  <2>2. Head(qConn[w]) \in Fd
    <3>1. qConn[w] \in Seq(Fd)
      BY DEF TypeOK
    <3>. QED  BY <3>1, <1>2, Taken
  <2> DEFINE c == [NoConn EXCEPT !.addr = a]
  <2>3. c \in Connection /\ c.addr # None /\ c.asked = FALSE /\ c.replies = <<>>
    BY NoConnFields, Constants DEF Connection
  <2> HIDE DEF c
  <2>4. Becomes(w, Head(qConn[w]), c)
    BY <2>1, <2>2, <2>3, ConnsEdit DEF c
  <2>. QED  BY <1>2, <2>2, <2>3, <2>4 DEF NewConn
<1>. QED  BY <1>1, <1>2

LEMMA CloseEffect ==
  ASSUME TypeOK, NEW w \in Workers, NEW f \in Fd, CloseConn(w, f)
  PROVE  sock' = [sock EXCEPT ![f] = None] /\ Becomes(w, f, NoConn)
BY NoConnFields, ConnsEdit DEF CloseConn

LEMMA ReadRequestEffect ==
  ASSUME TypeOK, NEW w \in Workers, NEW f \in Fd, ReadRequest(w, f), sock[f] \in Req
  PROVE  \E c \in Connection :
           /\ c.addr = conns[w][f].addr /\ c.asked = TRUE
           /\ IF cmd[sock[f]][1] = "offer" THEN c.replies = conns[w][f].replies
              ELSE c.replies = Append(conns[w][f].replies, sock[f])
           /\ Becomes(w, f, c)
<1> DEFINE rs == IF cmd[sock[f]][1] = "offer" THEN conns[w][f].replies
                 ELSE Append(conns[w][f].replies, sock[f])
           c == [conns[w][f] EXCEPT !.asked = TRUE, !.replies = rs]
<1>1. conns[w][f] \in Connection
  BY DEF TypeOK
<1>2. rs \in Seq(Req)
  BY <1>1, Fields, Appended
<1>3. c \in Connection /\ c.addr = conns[w][f].addr /\ c.asked = TRUE /\ c.replies = rs
  BY <1>1, <1>2 DEF Connection
<1>4. conns' = [conns EXCEPT ![w][f] = c]
  BY DEF ReadRequest, TypeOK
<1>5. Becomes(w, f, c)
  <2> HIDE DEF c
  <2>. QED  BY <1>3, <1>4, ConnsEdit
<1>. QED  BY <1>3, <1>5

LEMMA WriteReplyEffect ==
  ASSUME TypeOK, NEW w \in Workers, NEW f \in Fd, WriteReply(w, f)
  PROVE  \E c \in Connection :
           /\ c.addr = conns[w][f].addr /\ c.asked = conns[w][f].asked /\ c.replies = <<>>
           /\ Becomes(w, f, c)
<1> DEFINE c == [conns[w][f] EXCEPT !.replies = <<>>]
<1>1. conns[w][f] \in Connection /\ <<>> \in Seq(Req)
  BY DEF TypeOK
<1>2. /\ c \in Connection
      /\ c.addr = conns[w][f].addr /\ c.asked = conns[w][f].asked /\ c.replies = <<>>
  BY <1>1 DEF Connection
<1>3. conns' = [conns EXCEPT ![w][f] = c]
  BY DEF WriteReply, TypeOK
<1>4. Becomes(w, f, c)
  <2> HIDE DEF c
  <2>. QED  BY <1>2, <1>3, ConnsEdit
<1>. QED  BY <1>2, <1>4

\* A message that comes back is listed on the connection it names, or on none.
LEMMA RtcMsgBackEffect ==
  ASSUME TypeOK, NEW w \in Workers, RtcMsgBack(w)
  PROVE  \/ qReply' = qReply /\ conns' = conns
         \/ /\ qReply[w] # <<>> /\ Head(qReply[w]) \in Message
            /\ qReply' = [qReply EXCEPT ![w] = Tail(@)]
            /\ \/ conns' = conns
               \/ \E f \in Fd, c \in Connection :
                    /\ Open(w, f)
                    /\ c.addr = conns[w][f].addr /\ c.asked = conns[w][f].asked
                    /\ c.replies = Append(conns[w][f].replies, Head(qReply[w]).req)
                    /\ Becomes(w, f, c)
<1> DEFINE m == Head(qReply[w])
<1>1. CASE qReply[w] = <<>>
  BY <1>1 DEF RtcMsgBack
<1>2. CASE qReply[w] # <<>>
  <2>1. qReply' = [qReply EXCEPT ![w] = Tail(@)]
    BY <1>2 DEF RtcMsgBack
  <2>2. m \in Message
    <3>1. qReply[w] \in Seq(Message)
      BY DEF TypeOK
    <3>. QED  BY <3>1, <1>2, Taken
  <2>3. CASE ~Answers(w, m)
    BY <1>2, <2>1, <2>2, <2>3 DEF RtcMsgBack
  <2>4. CASE Answers(w, m) /\ m.fd \notin Fd
    <3>1. conns' = [conns EXCEPT ![w][m.fd].replies = Append(@, m.req)]
      BY <1>2, <2>4 DEF RtcMsgBack
    <3>2. conns \in [Workers -> [Fd -> Connection]]
      BY DEF TypeOK
    <3>3. conns' = conns
      BY <3>1, <3>2, <2>4
    <3>. QED  BY <3>3, <2>1, <2>2, <1>2
  <2>5. CASE Answers(w, m) /\ m.fd \in Fd
    <3> DEFINE f == m.fd
               rs == Append(conns[w][f].replies, m.req)
               c == [conns[w][f] EXCEPT !.replies = rs]
    <3>1. conns[w][f] \in Connection
      BY <2>5 DEF TypeOK
    <3>2. rs \in Seq(Req)
      <4>1. m.req \in Req /\ conns[w][f].replies \in Seq(Req)
        BY <2>2, <3>1 DEF Connection, Message
      <4>. QED  BY <4>1, Appended
    <3>3. /\ c \in Connection /\ c.addr = conns[w][f].addr
          /\ c.asked = conns[w][f].asked /\ c.replies = rs
      <4> HIDE DEF f, rs
      <4>. QED  BY <3>1, <3>2 DEF Connection
    <3>4. conns' = [conns EXCEPT ![w][f].replies = Append(@, m.req)]
      BY <1>2, <2>5 DEF RtcMsgBack
    <3>5. conns' = [conns EXCEPT ![w][f] = c]
      BY <3>4, <2>5 DEF TypeOK
    <3>6. Open(w, f) /\ f \in Fd
      BY <2>5 DEF Answers, Open
    <3> HIDE DEF m, c, f
    <3>7. Becomes(w, f, c)
      BY <3>3, <3>5, <3>6, ConnsEdit
    <3>. QED  BY <1>2, <2>1, <2>2, <3>3, <3>6, <3>7 DEF m
  <2>. QED  BY <2>3, <2>4, <2>5
<1>. QED  BY <1>1, <1>2

-----------------------------------------------------------------------------
(* Types *)

LEMMA InitTypeOK == Init => TypeOK
<1>. SUFFICES ASSUME Init PROVE TypeOK
  OBVIOUS
<1>1. <<>> \in Seq(Req) /\ <<>> \in Seq(Fd) /\ <<>> \in Seq(Message) /\ <<>> \in Seq({"conn", "msg"})
  OBVIOUS
<1>2. NoConn \in Connection
  BY <1>1 DEF NoConn, Connection
<1>3. nextWorker \in 1 .. Len(SW)
  BY Constants DEF Init
<1>4. conns \in [Workers -> [Fd -> Connection]]
  BY <1>2 DEF Init
<1>5. /\ qConn \in [Workers -> Seq(Fd)] /\ qRtc \in Seq(Message)
      /\ qWork \in [RW -> Seq(Message)] /\ qReply \in [Workers -> Seq(Message)]
      /\ pipe \in [Thread -> Seq({"conn", "msg"})] /\ got \in [Req -> Seq(Req)]
      /\ backlog \in Seq(Req)
  BY <1>1 DEF Init
<1>6. /\ client \in [Req -> {"idle", "connected", "sent", "left"}]
      /\ cmd \in [Req -> (Command \X Streams) \cup {None}]
      /\ seen \in [Req -> SUBSET Req] /\ sock \in [Fd -> Req \cup {None}]
      /\ owes \in [Thread -> (Thread \X {"conn", "msg"}) \cup {None}]
      /\ applied \subseteq Req /\ dropped \subseteq Req
  BY DEF Init
<1>. QED  BY <1>3, <1>4, <1>5, <1>6 DEF TypeOK

\* A worker whose request was read is told which, and knows the client.
LEMMA OpenHasClient ==
  ASSUME TypeOK, Ownership, NEW w \in Workers, NEW f \in Fd, Open(w, f)
  PROVE  sock[f] \in Req /\ sock[f] # None
BY DEF TypeOK, Ownership

\* Messages whose connection was read: who sends and what
LEMMA ReadMessage ==
  ASSUME TypeOK, Ownership, NEW w \in Workers, NEW f \in Fd, ReadRequest(w, f)
  PROVE  \E m \in Message :
           /\ qRtc' = Append(qRtc, m)
           /\ m.req = sock[f]
           /\ m.worker # None => cmd[m.req][1] = "offer" /\ m.conn # None /\ m.fd # None
           /\ owes' = [owes EXCEPT ![w] = <<Rs, "msg">>]
<1>1. sock[f] \in Req /\ conns[w][f].addr \in Addr /\ conns[w][f].addr # None
  <2>1. conns[w][f] \in Connection /\ conns[w][f].addr # None
    BY DEF TypeOK, ReadRequest, Open
  <2>. QED  BY <2>1, OpenHasClient, Fields DEF ReadRequest
<1>2. CASE cmd[sock[f]][1] = "offer"
  <2> DEFINE m == [req |-> sock[f], worker |-> w, conn |-> conns[w][f].addr, fd |-> f]
  <2>1. m \in Message
    BY <1>1 DEF Message
  <2>2. qRtc' = Append(qRtc, m)
    BY <1>2 DEF ReadRequest
  <2>3. f # None
    BY Constants
  <2>. QED  BY <1>1, <1>2, <2>1, <2>2, <2>3 DEF ReadRequest, Owes
<1>3. CASE cmd[sock[f]][1] # "offer"
  <2> DEFINE m == [req |-> sock[f], worker |-> None, conn |-> None, fd |-> None]
  <2>1. m \in Message
    BY <1>1 DEF Message
  <2>2. qRtc' = Append(qRtc, m)
    BY <1>3 DEF ReadRequest
  <2>. QED  BY <2>1, <2>2 DEF ReadRequest, Owes
<1>. QED  BY <1>2, <1>3

LEMMA OwesType ==
  ASSUME TypeOK, NEW t \in Thread, NEW u \in Thread, NEW k \in {"conn", "msg"},
         owes' = [owes EXCEPT ![t] = <<u, k>>]
  PROVE  owes' \in [Thread -> (Thread \X {"conn", "msg"}) \cup {None}]
BY DEF TypeOK

LEMMA ReadsType ==
  ASSUME TypeOK, NEW t \in Thread, NEW k, Reads(t, k)
  PROVE  pipe' \in [Thread -> Seq({"conn", "msg"})]
<1>1. pipe[t] \in Seq({"conn", "msg"}) /\ pipe[t] # <<>>
  BY DEF TypeOK, Reads
<1>2. Tail(pipe[t]) \in Seq({"conn", "msg"})
  BY <1>1, Taken
<1>. QED  BY <1>2 DEF Reads, TypeOK

\* A sequence of a family loses its head or gets one element more.
LEMMA FamilyTail ==
  ASSUME NEW D, NEW S, NEW q \in [D -> Seq(S)], NEW d \in D, q[d] # <<>>
  PROVE  [q EXCEPT ![d] = Tail(@)] \in [D -> Seq(S)]
BY Taken
LEMMA FamilyAppend ==
  ASSUME NEW D, NEW S, NEW q \in [D -> Seq(S)], NEW d \in D, NEW x \in S
  PROVE  [q EXCEPT ![d] = Append(@, x)] \in [D -> Seq(S)]
BY Appended

LEMMA RouteType ==
  ASSUME TypeOK, NEW m \in Message, cmd[m.req] # None
  PROVE  Route(m) \in RW /\ Route(m) \in Thread
<1>1. m.req \in Req
  BY DEF Message
<1>2. cmd[m.req] \in Command \X Streams
  BY <1>1 DEF TypeOK
<1>. QED  BY <1>2, WorkersAssumption DEF Route, Thread

LEMMA TypeStep == Base /\ [Next]_vars => TypeOK'
<1>. SUFFICES ASSUME Base, [Next]_vars PROVE TypeOK'
  OBVIOUS
<1>. USE DEF Base
<1>1. ASSUME NEW r \in Req, Connect(r) PROVE TypeOK'
  <2>1. backlog' \in Seq(Req)
    BY <1>1, Appended DEF Connect, TypeOK
  <2>. QED  BY <1>1, <2>1 DEF Connect, TypeOK, queueVars, historyVars
<1>2. ASSUME NEW r \in Req, SendRequest(r) PROVE TypeOK'
  <2>1. cmd' \in [Req -> (Command \X Streams) \cup {None}]
    BY <1>2 DEF SendRequest, TypeOK
  <2>2. seen' \in [Req -> SUBSET Req]
    <3> DEFINE S == {q \in Req : \E i \in DOMAIN got[q] : got[q][i] = q}
    <3>1. S \in SUBSET Req /\ seen' = [seen EXCEPT ![r] = S]
      BY <1>2 DEF SendRequest
    <3> HIDE DEF S
    <3>. QED  BY <3>1 DEF TypeOK
  <2>. QED  BY <1>2, <2>1, <2>2 DEF SendRequest, TypeOK, queueVars, historyVars, kernelVars
<1>3. ASSUME NEW r \in Req, Leave(r) PROVE TypeOK'
  BY <1>3 DEF Leave, TypeOK, queueVars, historyVars, kernelVars
<1>4. ASSUME Accept PROVE TypeOK'
  <2>1. backlog # <<>> /\ backlog \in Seq(Req) /\ Head(backlog) \in Req /\ Tail(backlog) \in Seq(Req)
    BY <1>4, Taken DEF Accept, TypeOK
  <2>2. SW[nextWorker] \in Workers /\ SW[nextWorker] \in Thread /\ Ss \in Thread
    BY Constants DEF TypeOK, Thread
  <2>3. nextWorker' \in 1 .. Len(SW)
    BY <1>4, Constants DEF Accept, TypeOK
  <2>4. owes' \in [Thread -> (Thread \X {"conn", "msg"}) \cup {None}]
    BY <1>4, <2>2, OwesType DEF Accept, Owes
  <2>5. PICK f \in Fd : /\ sock' = [sock EXCEPT ![f] = Head(backlog)]
                        /\ qConn' = [qConn EXCEPT ![SW[nextWorker]] = Append(@, f)]
    BY <1>4 DEF Accept
  <2>6. sock' \in [Fd -> Req \cup {None}] /\ qConn' \in [Workers -> Seq(Fd)]
    <3>1. qConn' \in [Workers -> Seq(Fd)]
      BY <2>2, <2>5, FamilyAppend DEF TypeOK
    <3>. QED  BY <2>1, <2>5, <3>1 DEF TypeOK
  <2>7. backlog' \in Seq(Req)
    BY <1>4, <2>1 DEF Accept
  <2>. QED  BY <1>4, <2>3, <2>4, <2>6, <2>7 DEF Accept, TypeOK, clientVars, historyVars
<1>5. ASSUME NEW t \in Thread, Notify(t) PROVE TypeOK'
  <2>1. owes[t] \in Thread \X {"conn", "msg"}
    BY <1>5 DEF Notify, TypeOK
  <2>2. pipe' \in [Thread -> Seq({"conn", "msg"})]
    BY <1>5, <2>1, FamilyAppend DEF Notify, TypeOK
  <2>3. owes' \in [Thread -> (Thread \X {"conn", "msg"}) \cup {None}]
    BY <1>5 DEF Notify, TypeOK
  <2>. QED  BY <1>5, <2>2, <2>3 DEF Notify, TypeOK, clientVars, historyVars, kernelVars, queueVars
<1>6. ASSUME NEW w \in Workers, NewConn(w) PROVE TypeOK'
  <2>1. pipe' \in [Thread -> Seq({"conn", "msg"})]
    BY <1>6, ReadsType DEF NewConn, Thread
  <2>2. /\ conns' \in [Workers -> [Fd -> Connection]]
        /\ qConn' \in [Workers -> Seq(Fd)]
    <3>1. /\ conns \in [Workers -> [Fd -> Connection]]
          /\ qConn \in [Workers -> Seq(Fd)]
      BY DEF TypeOK
    <3>2. qConn[w] # <<>> => [qConn EXCEPT ![w] = Tail(@)] \in [Workers -> Seq(Fd)]
      BY <3>1, FamilyTail
    <3>. QED  BY <1>6, <3>1, <3>2, NewConnEffect DEF Becomes
  <2>. QED  BY <1>6, <2>1, <2>2 DEF NewConn, TypeOK, clientVars, historyVars, kernelVars
<1>7. ASSUME NEW w \in Workers, RtcMsgBack(w) PROVE TypeOK'
  <2>1. pipe' \in [Thread -> Seq({"conn", "msg"})]
    BY <1>7, ReadsType DEF RtcMsgBack, Thread
  <2>2. /\ conns' \in [Workers -> [Fd -> Connection]]
        /\ qReply' \in [Workers -> Seq(Message)]
    <3>1. /\ conns \in [Workers -> [Fd -> Connection]]
          /\ qReply \in [Workers -> Seq(Message)]
      BY DEF TypeOK
    <3>2. qReply[w] # <<>> => [qReply EXCEPT ![w] = Tail(@)] \in [Workers -> Seq(Message)]
      BY <3>1, FamilyTail
    <3>. QED  BY <1>7, <3>1, <3>2, RtcMsgBackEffect DEF Becomes
  <2>. QED  BY <1>7, <2>1, <2>2 DEF RtcMsgBack, TypeOK, clientVars, historyVars, kernelVars
<1>8. ASSUME NEW w \in Workers, NEW f \in Fd, ReadRequest(w, f) PROVE TypeOK'
  <2>1. PICK m \in Message : /\ qRtc' = Append(qRtc, m)
                             /\ owes' = [owes EXCEPT ![w] = <<Rs, "msg">>]
    BY <1>8, ReadMessage
  <2>2. qRtc' \in Seq(Message)
    BY <2>1, Appended DEF TypeOK
  <2>3. owes' \in [Thread -> (Thread \X {"conn", "msg"}) \cup {None}]
    BY <2>1, OwesType DEF Thread
  <2>4. conns' \in [Workers -> [Fd -> Connection]]
    BY <1>8, OpenHasClient, ReadRequestEffect DEF ReadRequest, Becomes
  <2>. QED  BY <1>8, <2>2, <2>3, <2>4 DEF ReadRequest, TypeOK, clientVars, historyVars, kernelVars
<1>9. ASSUME NEW w \in Workers, NEW f \in Fd, CloseConn(w, f),
             UNCHANGED <<clientVars, backlog, nextWorker, pipe, owes, queueVars, historyVars>>
      PROVE TypeOK'
  <2>1. conns' \in [Workers -> [Fd -> Connection]] /\ sock' \in [Fd -> Req \cup {None}]
    BY <1>9, CloseEffect, ZenonT(30) DEF TypeOK, Becomes
  <2>. QED  BY <1>9, <2>1 DEF TypeOK, clientVars, historyVars, queueVars
<1>10. ASSUME NEW w \in Workers, NEW f \in Fd, WriteReply(w, f) PROVE TypeOK'
  <2>1. conns' \in [Workers -> [Fd -> Connection]]
    BY <1>10, WriteReplyEffect DEF Becomes
  <2>2. got' \in [Req -> Seq(Req)]
    <3>1. conns[w][f].replies \in Seq(Req)
      BY Fields DEF TypeOK
    <3>2. sock[f] \in Req
      BY <1>10, OpenHasClient DEF WriteReply
    <3>3. got[sock[f]] \o conns[w][f].replies \in Seq(Req)
      BY <3>1, <3>2, ConcatProperties DEF TypeOK
    <3>. QED  BY <1>10, <3>2, <3>3 DEF WriteReply, TypeOK
  <2>. QED  BY <1>10, <2>1, <2>2 DEF WriteReply, TypeOK, historyVars, kernelVars, queueVars
<1>11. ASSUME RtcServerMsg PROVE TypeOK'
  <2>0. Rs \in Thread
    BY DEF Thread
  <2>1. pipe' \in [Thread -> Seq({"conn", "msg"})]
    BY <1>11, <2>0, ReadsType DEF RtcServerMsg
  <2>2. CASE qRtc = <<>>
    BY <1>11, <2>1, <2>2 DEF RtcServerMsg, TypeOK, clientVars, historyVars, kernelVars
  <2>3. CASE qRtc # <<>>
    <3>1. Head(qRtc) \in Message /\ Head(qRtc) = qRtc[1] /\ Tail(qRtc) \in Seq(Message) /\ 1 \in 1 .. Len(qRtc)
      BY <2>3, Taken DEF TypeOK
    <3>2. Route(Head(qRtc)) \in RW /\ Route(Head(qRtc)) \in Thread
      BY <3>1, RouteType DEF Known
    <3>3. qWork' \in [RW -> Seq(Message)]
      <4>1. /\ qWork' = [qWork EXCEPT ![Route(Head(qRtc))] = Append(@, Head(qRtc))]
            /\ qWork \in [RW -> Seq(Message)]
        BY <1>11, <2>3 DEF RtcServerMsg, TypeOK
      <4>. QED  BY <4>1, <3>1, <3>2, FamilyAppend
    <3>4. owes' \in [Thread -> (Thread \X {"conn", "msg"}) \cup {None}]
      BY <1>11, <2>0, <2>3, <3>2, OwesType DEF RtcServerMsg, Owes
    <3>. QED  BY <1>11, <2>1, <2>3, <3>1, <3>3, <3>4
              DEF RtcServerMsg, TypeOK, clientVars, historyVars, kernelVars
  <2>. QED  BY <2>2, <2>3
<1>12. ASSUME CertFails PROVE TypeOK'
  <2>1. pipe' \in [Thread -> Seq({"conn", "msg"})]
    BY <1>12, ReadsType DEF CertFails, Thread
  <2>2. Head(qRtc) \in Message /\ Tail(qRtc) \in Seq(Message)
    BY <1>12, Taken DEF TypeOK, CertFails
  <2>3. Head(qRtc).req \in Req
    BY <2>2 DEF Message
  <2>. QED  BY <1>12, <2>1, <2>2, <2>3 DEF CertFails, TypeOK, clientVars, kernelVars
<1>13. ASSUME NEW v \in RW, RtcWorkerMsg(v) PROVE TypeOK'
  <2>0. v \in Thread
    BY DEF Thread
  <2>1. pipe' \in [Thread -> Seq({"conn", "msg"})]
    BY <1>13, <2>0, ReadsType DEF RtcWorkerMsg
  <2>2. CASE qWork[v] = <<>>
    BY <1>13, <2>1, <2>2 DEF RtcWorkerMsg, TypeOK, clientVars, kernelVars
  <2>3. CASE qWork[v] # <<>>
    <3> DEFINE m == Head(qWork[v])
    <3>1. m \in Message
      BY <2>3, Taken DEF TypeOK
    <3>2. m.req \in Req /\ m.worker \in Workers \cup {None}
      BY <3>1 DEF Message
    <3>3. qWork' \in [RW -> Seq(Message)]
      <4>1. qWork' = [qWork EXCEPT ![v] = Tail(@)] /\ qWork \in [RW -> Seq(Message)]
        BY <1>13, <2>3 DEF RtcWorkerMsg, TypeOK
      <4>. QED  BY <4>1, <2>3, FamilyTail
    <3>4. applied' \subseteq Req
      BY <1>13, <2>3, <3>2 DEF RtcWorkerMsg, TypeOK
    <3>5. /\ qReply' \in [Workers -> Seq(Message)]
          /\ owes' \in [Thread -> (Thread \X {"conn", "msg"}) \cup {None}]
      <4>1. CASE m.worker = None
        BY <1>13, <2>3, <4>1 DEF RtcWorkerMsg, TypeOK
      <4>2. CASE m.worker # None
        <5>1. m.worker \in Workers /\ m.worker \in Thread
          BY <3>2, <4>2 DEF Thread
        <5>2. /\ qReply' = [qReply EXCEPT ![m.worker] = Append(@, m)]
              /\ owes' = [owes EXCEPT ![v] = <<m.worker, "msg">>]
          BY <1>13, <2>3, <4>2 DEF RtcWorkerMsg, Owes
        <5> HIDE DEF m
        <5>3. qReply' \in [Workers -> Seq(Message)]
          BY <3>1, <5>1, <5>2, FamilyAppend DEF TypeOK
        <5>. QED  BY <2>0, <5>1, <5>2, <5>3, OwesType
      <4>. QED  BY <4>1, <4>2
    <3>. QED  BY <1>13, <2>1, <3>3, <3>4, <3>5 DEF RtcWorkerMsg, TypeOK, clientVars, kernelVars
  <2>. QED  BY <2>2, <2>3
<1>14. ASSUME UNCHANGED vars PROVE TypeOK'
  BY <1>14 DEF vars, TypeOK, clientVars, historyVars, kernelVars, queueVars
<1>. QED
  BY <1>1, <1>2, <1>3, <1>4, <1>5, <1>6, <1>7, <1>8, <1>9, <1>10, <1>11, <1>12, <1>13, <1>14
  DEF Next, ClientStep, ConnStep, ReadFails, Timeout, WriteFails

-----------------------------------------------------------------------------
(* Descriptors *)

LEMMA InitOwnership == Init => Ownership /\ OnePlace /\ Known
<1>. SUFFICES ASSUME Init PROVE Ownership /\ OnePlace /\ Known
  OBVIOUS
<1>1. /\ \A w \in Workers : qConn[w] = <<>>
      /\ \A w \in Workers, f \in Fd : ~Open(w, f)
      /\ \A f \in Fd : sock[f] = None
  BY DEF Init, Open, NoConn
<1>2. qRtc = <<>> /\ backlog = <<>> /\ \A r \in Req : cmd[r] = None /\ seen[r] = {}
  BY DEF Init
<1>. QED  BY <1>1, <1>2 DEF Ownership, OnePlace, Known

\* A step that leaves sockets, _q_conn and the addresses of connections alone
LEMMA KeepsOwnership ==
  ASSUME TypeOK, Ownership, sock' = sock, qConn' = qConn,
         \A w \in Workers, f \in Fd : conns'[w][f].addr = conns[w][f].addr
  PROVE  Ownership'
<1>1. \A w \in Workers, f \in Fd : Open(w, f)' <=> Open(w, f)
  BY DEF Open
<1>2. \A w \in Workers : \A i \in 1 .. Len(qConn[w]) : qConn[w][i] \in Fd
  BY Elements DEF TypeOK
<1>. QED  BY <1>1, <1>2 DEF Ownership, Open

\* The descriptor accept() returns was nobody's; the last element of one
\* worker's _q_conn is it, every other element was there.
LEMMA AcceptEffect ==
  ASSUME Base, Accept
  PROVE  \E v \in Workers, f \in Fd :
           /\ sock[f] = None
           /\ backlog[1] \in Req /\ 1 \in 1 .. Len(backlog)
           /\ \A w \in Workers : ~Open(w, f)
           /\ \A g \in Fd : sock'[g] = IF g = f THEN backlog[1] ELSE sock[g]
           /\ \A w \in Workers : Len(qConn'[w]) \in Nat /\ \A i \in 1 .. Len(qConn[w]) :
                i \in 1 .. Len(qConn'[w]) /\ qConn'[w][i] = qConn[w][i]
           /\ Len(qConn[v]) + 1 \in 1 .. Len(qConn'[v]) /\ qConn'[v][Len(qConn[v]) + 1] = f
           /\ \A w \in Workers : \A i \in 1 .. Len(qConn'[w]) :
                \/ /\ i \in 1 .. Len(qConn[w]) /\ qConn'[w][i] = qConn[w][i]
                   /\ qConn'[w][i] # f /\ qConn'[w][i] \in Fd
                \/ w = v /\ i = Len(qConn[v]) + 1 /\ qConn'[w][i] = f
<1> DEFINE v == SW[nextWorker]
<1>1. PICK f \in Fd : /\ sock[f] = None
                      /\ sock' = [sock EXCEPT ![f] = Head(backlog)]
                      /\ qConn' = [qConn EXCEPT ![v] = Append(@, f)]
  BY DEF Accept
<1>2. v \in Workers
  BY Constants DEF Base, TypeOK
<1>3. Head(backlog) \in Req /\ Head(backlog) = backlog[1] /\ 1 \in 1 .. Len(backlog)
  BY Taken DEF Accept, Base, TypeOK
<1>4. sock \in [Fd -> Req \cup {None}] /\ qConn \in [Workers -> Seq(Fd)]
  BY DEF Base, TypeOK
<1> HIDE DEF v
<1>5. /\ \A w \in Workers : w # v => qConn'[w] = qConn[w]
      /\ qConn'[v] = Append(qConn[v], f)
  BY <1>1, <1>2, <1>4
<1>6. \A w \in Workers : Len(qConn[w]) \in Nat /\ \A i \in 1 .. Len(qConn[w]) : qConn[w][i] \in Fd
  BY <1>4, Elements
<1>7. /\ Len(qConn'[v]) = Len(qConn[v]) + 1 /\ qConn'[v][Len(qConn[v]) + 1] = f
      /\ \A i \in 1 .. Len(qConn[v]) : qConn'[v][i] = qConn[v][i]
  BY <1>2, <1>4, <1>5, Appended
<1>8. /\ \A w \in Workers : ~Open(w, f)
      /\ \A w \in Workers : \A i \in 1 .. Len(qConn[w]) : qConn[w][i] # f
  BY <1>1 DEF Base, Ownership
<1>9. \A g \in Fd : sock'[g] = IF g = f THEN backlog[1] ELSE sock[g]
  BY <1>1, <1>3, <1>4
<1>10. \A w \in Workers : \A i \in 1 .. Len(qConn'[w]) :
         \/ /\ i \in 1 .. Len(qConn[w]) /\ qConn'[w][i] = qConn[w][i]
            /\ qConn'[w][i] # f /\ qConn'[w][i] \in Fd
         \/ w = v /\ i = Len(qConn[v]) + 1 /\ qConn'[w][i] = f
  BY <1>2, <1>5, <1>6, <1>7, <1>8, SMTT(30)
<1>11. Len(qConn[v]) + 1 \in 1 .. Len(qConn'[v])
  BY <1>2, <1>6, <1>7
<1>12. \A w \in Workers : Len(qConn'[w]) \in Nat /\ \A i \in 1 .. Len(qConn[w]) :
         i \in 1 .. Len(qConn'[w]) /\ qConn'[w][i] = qConn[w][i]
  <2>1. ASSUME NEW w \in Workers, w # v
        PROVE  Len(qConn'[w]) \in Nat /\ \A i \in 1 .. Len(qConn[w]) :
                 i \in 1 .. Len(qConn'[w]) /\ qConn'[w][i] = qConn[w][i]
    BY <2>1, <1>5, <1>6
  <2>2. Len(qConn'[v]) \in Nat /\ \A i \in 1 .. Len(qConn[v]) :
          i \in 1 .. Len(qConn'[v]) /\ qConn'[v][i] = qConn[v][i]
    BY <1>2, <1>6, <1>7
  <2>. QED  BY <2>1, <2>2
<1>. QED  BY <1>1, <1>2, <1>3, <1>7, <1>8, <1>9, <1>10, <1>11, <1>12

LEMMA AcceptOwnership == ASSUME Base, Accept PROVE Ownership'
<1>1. PICK v \in Workers, f \in Fd :
         /\ sock[f] = None
         /\ backlog[1] \in Req /\ 1 \in 1 .. Len(backlog)
         /\ \A w \in Workers : ~Open(w, f)
         /\ \A g \in Fd : sock'[g] = IF g = f THEN backlog[1] ELSE sock[g]
         /\ \A w \in Workers : Len(qConn'[w]) \in Nat /\ \A i \in 1 .. Len(qConn[w]) :
              i \in 1 .. Len(qConn'[w]) /\ qConn'[w][i] = qConn[w][i]
         /\ Len(qConn[v]) + 1 \in 1 .. Len(qConn'[v]) /\ qConn'[v][Len(qConn[v]) + 1] = f
         /\ \A w \in Workers : \A i \in 1 .. Len(qConn'[w]) :
              \/ /\ i \in 1 .. Len(qConn[w]) /\ qConn'[w][i] = qConn[w][i]
                 /\ qConn'[w][i] # f /\ qConn'[w][i] \in Fd
              \/ w = v /\ i = Len(qConn[v]) + 1 /\ qConn'[w][i] = f
  BY AcceptEffect
<1>3. backlog[1] # None
  BY <1>1, Constants
<1>8. \A w \in Workers, g \in Fd : Open(w, g)' <=> Open(w, g)
  BY DEF Accept, Open
<1>12. \A w, u \in Workers : \A i \in 1 .. Len(qConn'[w]), j \in 1 .. Len(qConn'[u]) :
         qConn'[w][i] = qConn'[u][j] => w = u /\ i = j
  <2>1. \A w, u \in Workers : \A i \in 1 .. Len(qConn[w]), j \in 1 .. Len(qConn[u]) :
          qConn[w][i] = qConn[u][j] => w = u /\ i = j
    BY DEF Base, Ownership
  <2>. QED  BY <2>1, <1>1, SMTT(30)
<1>13. /\ \A w, u \in Workers : \A i \in 1 .. Len(qConn'[w]) : conns'[u][qConn'[w][i]].addr = None
       /\ \A w \in Workers : \A i \in 1 .. Len(qConn'[w]) : sock'[qConn'[w][i]] # None
  <2>. SUFFICES ASSUME NEW w \in Workers, NEW i \in 1 .. Len(qConn'[w])
                PROVE  /\ \A u \in Workers : conns'[u][qConn'[w][i]].addr = None
                       /\ sock'[qConn'[w][i]] # None
    OBVIOUS
  <2>1. CASE /\ i \in 1 .. Len(qConn[w]) /\ qConn'[w][i] = qConn[w][i]
             /\ qConn'[w][i] # f /\ qConn'[w][i] \in Fd
    <3>1. sock[qConn[w][i]] # None /\ \A u \in Workers : ~Open(u, qConn[w][i])
      BY <2>1 DEF Base, Ownership
    <3>2. sock'[qConn'[w][i]] # None
      BY <2>1, <3>1, <1>1
    <3>3. ASSUME NEW u \in Workers PROVE conns'[u][qConn'[w][i]].addr = None
      BY <2>1, <3>1, <1>8 DEF Open
    <3>. QED  BY <3>2, <3>3
  <2>2. CASE qConn'[w][i] = f
    BY <2>2, <1>1, <1>3, <1>8 DEF Open
  <2>. QED  BY <2>1, <2>2, <1>1
<1>14. \A g \in Fd : sock'[g] # None =>
         \E w \in Workers : Open(w, g)' \/ \E i \in 1 .. Len(qConn'[w]) : qConn'[w][i] = g
  <2>. SUFFICES ASSUME NEW g \in Fd, sock'[g] # None, g # f
                PROVE  \E w \in Workers : Open(w, g)' \/ \E i \in 1 .. Len(qConn'[w]) : qConn'[w][i] = g
    BY <1>1
  <2>1. PICK w \in Workers : Open(w, g) \/ \E i \in 1 .. Len(qConn[w]) : qConn[w][i] = g
    BY <1>1 DEF Base, Ownership
  <2>. QED  BY <2>1, <1>1, <1>8
<1>15. \A w, u \in Workers, g \in Fd : Open(w, g)' /\ Open(u, g)' => w = u
  BY <1>8 DEF Base, Ownership
<1>16. \A w \in Workers, g \in Fd : Open(w, g)' => sock'[g] # None
  BY <1>1, <1>3, <1>8 DEF Base, Ownership
<1>. QED  BY <1>12, <1>13, <1>14, <1>15, <1>16 DEF Ownership, Open

\* A worker that takes a connection opens the first descriptor of its queue.
LEMMA NewConnMoves ==
  ASSUME Base, NEW v \in Workers, NewConn(v), ~(qConn' = qConn /\ conns' = conns)
  PROVE  \E f \in Fd, c \in Connection :
           /\ c.addr # None /\ c.asked = FALSE /\ c.replies = <<>> /\ Becomes(v, f, c)
           /\ \A u \in Workers, g \in Fd : Open(u, g)' <=> Open(u, g) \/ (u = v /\ g = f)
           /\ 1 \in 1 .. Len(qConn[v]) /\ qConn[v][1] = f
           /\ \A w \in Workers : \A i \in 1 .. Len(qConn[w]) : qConn[w][i] \in Fd
           /\ \A w \in Workers : \A i \in 1 .. Len(qConn'[w]) :
                \E j \in 1 .. Len(qConn[w]) :
                  /\ qConn'[w][i] = qConn[w][j] /\ qConn'[w][i] # f
                  /\ i \in Nat /\ j = IF w = v THEN i + 1 ELSE i
           /\ \A w \in Workers : \A j \in 1 .. Len(qConn[w]) : qConn[w][j] # f =>
                \E i \in 1 .. Len(qConn'[w]) : qConn'[w][i] = qConn[w][j]
<1> DEFINE f == Head(qConn[v])
<1>1. PICK c \in Connection :
        /\ qConn[v] # <<>> /\ Head(qConn[v]) \in Fd
        /\ qConn' = [qConn EXCEPT ![v] = Tail(@)]
        /\ c.addr # None /\ c.asked = FALSE /\ c.replies = <<>> /\ Becomes(v, f, c)
  BY NewConnEffect DEF Base
<1>2. \A u \in Workers, g \in Fd : Open(u, g)' <=> Open(u, g) \/ (u = v /\ g = f)
  BY <1>1 DEF Open, Becomes
<1>3. qConn \in [Workers -> Seq(Fd)]
  BY DEF Base, TypeOK
<1>4. /\ \A w \in Workers : w # v => qConn'[w] = qConn[w]
      /\ qConn'[v] = Tail(qConn[v])
  BY <1>1, <1>3
<1>5. \A w \in Workers : Len(qConn[w]) \in Nat /\ \A i \in 1 .. Len(qConn[w]) : qConn[w][i] \in Fd
  BY <1>3, Elements
<1>6. /\ Len(qConn'[v]) = Len(qConn[v]) - 1 /\ Len(qConn[v]) >= 1
      /\ qConn[v][1] = f /\ f \in Fd
      /\ \A i \in 1 .. Len(qConn[v]) - 1 : qConn'[v][i] = qConn[v][i + 1]
  BY <1>1, <1>3, <1>4, Taken
<1> HIDE DEF f
\* f leaves the queue
<1>7. \A w \in Workers : \A i \in 1 .. Len(qConn'[w]) :
        \E j \in 1 .. Len(qConn[w]) :
          /\ qConn'[w][i] = qConn[w][j] /\ qConn'[w][i] # f
          /\ i \in Nat /\ j = IF w = v THEN i + 1 ELSE i
  <2>. SUFFICES ASSUME NEW w \in Workers, NEW i \in 1 .. Len(qConn'[w])
                PROVE  \E j \in 1 .. Len(qConn[w]) :
                         /\ qConn'[w][i] = qConn[w][j] /\ qConn'[w][i] # f
                         /\ i \in Nat /\ j = IF w = v THEN i + 1 ELSE i
    OBVIOUS
  <2>0. i \in Nat
    BY <1>4, <1>5, <1>6
  <2>1. CASE w = v
    <3>1. i + 1 \in 1 .. Len(qConn[v]) /\ 1 \in 1 .. Len(qConn[v]) /\ qConn'[v][i] = qConn[v][i + 1]
      BY <2>1, <1>5, <1>6
    <3>2. qConn[v][i + 1] # qConn[v][1]
      BY <3>1 DEF Base, Ownership
    <3>. QED  BY <2>1, <3>1, <3>2, <1>6
  <2>2. CASE w # v
    <3>1. 1 \in 1 .. Len(qConn[v]) /\ i \in 1 .. Len(qConn[w]) /\ qConn'[w][i] = qConn[w][i]
      BY <2>2, <1>4, <1>5, <1>6
    <3>2. qConn[w][i] # qConn[v][1]
      BY <2>2, <3>1 DEF Base, Ownership
    <3>. QED  BY <2>2, <3>1, <3>2, <1>6
  <2>. QED  BY <2>0, <2>1, <2>2
<1>8. \A w \in Workers : \A j \in 1 .. Len(qConn[w]) : qConn[w][j] # f =>
        \E i \in 1 .. Len(qConn'[w]) : qConn'[w][i] = qConn[w][j]
  <2>. SUFFICES ASSUME NEW w \in Workers, NEW j \in 1 .. Len(qConn[w]), qConn[w][j] # f
                PROVE  \E i \in 1 .. Len(qConn'[w]) : qConn'[w][i] = qConn[w][j]
    OBVIOUS
  <2>1. CASE w = v
    <3>1. j # 1
      BY <2>1, <1>6
    <3>2. j - 1 \in 1 .. Len(qConn'[v]) /\ j - 1 \in 1 .. Len(qConn[v]) - 1 /\ j - 1 + 1 = j
      BY <2>1, <3>1, <1>5, <1>6
    <3>3. qConn'[v][j - 1] = qConn[v][j]
      BY <3>2, <1>6
    <3>. QED  BY <2>1, <3>2, <3>3
  <2>2. CASE w # v
    BY <2>2, <1>4
  <2>. QED  BY <2>1, <2>2
<1>9. 1 \in 1 .. Len(qConn[v])
  BY <1>5, <1>6
<1>. QED  BY <1>1, <1>2, <1>5, <1>6, <1>7, <1>8, <1>9

LEMMA NewConnOwnership == ASSUME Base, NEW v \in Workers, NewConn(v) PROVE Ownership'
<1>0. sock' = sock
  BY DEF NewConn, kernelVars
<1>1. CASE qConn' = qConn /\ conns' = conns
  BY <1>0, <1>1, KeepsOwnership DEF Base
<1>2. CASE ~(qConn' = qConn /\ conns' = conns)
  <2>1. PICK f \in Fd, c \in Connection :
           /\ c.addr # None /\ c.asked = FALSE /\ c.replies = <<>> /\ Becomes(v, f, c)
           /\ \A u \in Workers, g \in Fd : Open(u, g)' <=> Open(u, g) \/ (u = v /\ g = f)
           /\ 1 \in 1 .. Len(qConn[v]) /\ qConn[v][1] = f
           /\ \A w \in Workers : \A i \in 1 .. Len(qConn[w]) : qConn[w][i] \in Fd
           /\ \A w \in Workers : \A i \in 1 .. Len(qConn'[w]) :
                \E j \in 1 .. Len(qConn[w]) :
                  /\ qConn'[w][i] = qConn[w][j] /\ qConn'[w][i] # f
                  /\ i \in Nat /\ j = IF w = v THEN i + 1 ELSE i
           /\ \A w \in Workers : \A j \in 1 .. Len(qConn[w]) : qConn[w][j] # f =>
                \E i \in 1 .. Len(qConn'[w]) : qConn'[w][i] = qConn[w][j]
    BY <1>2, NewConnMoves
  <2>8. \A w, u \in Workers : \A i \in 1 .. Len(qConn'[w]), j \in 1 .. Len(qConn'[u]) :
          qConn'[w][i] = qConn'[u][j] => w = u /\ i = j
    <3>. SUFFICES ASSUME NEW w \in Workers, NEW u \in Workers,
                         NEW i \in 1 .. Len(qConn'[w]), NEW j \in 1 .. Len(qConn'[u]),
                         qConn'[w][i] = qConn'[u][j]
                  PROVE  w = u /\ i = j
      OBVIOUS
    <3>1. PICK k \in 1 .. Len(qConn[w]) : qConn'[w][i] = qConn[w][k] /\ k = IF w = v THEN i + 1 ELSE i
      BY <2>1
    <3>2. PICK l \in 1 .. Len(qConn[u]) : qConn'[u][j] = qConn[u][l] /\ l = IF u = v THEN j + 1 ELSE j
      BY <2>1
    <3>3. w = u /\ k = l
      <4>1. \A x, y \in Workers : \A m \in 1 .. Len(qConn[x]), n \in 1 .. Len(qConn[y]) :
              qConn[x][m] = qConn[y][n] => x = y /\ m = n
        BY DEF Base, Ownership
      <4>2. qConn[w][k] = qConn[u][l]
        BY <3>1, <3>2
      <4>. QED  BY <4>1, <4>2
    <3>4. i \in Nat /\ j \in Nat
      BY <2>1
    <3>. QED  BY <3>1, <3>2, <3>3, <3>4
  <2>9. /\ \A w \in Workers : ~Open(w, f)
        /\ sock[f] # None
    BY <2>1 DEF Base, Ownership
  <2>10. /\ \A w, u \in Workers : \A i \in 1 .. Len(qConn'[w]) : conns'[u][qConn'[w][i]].addr = None
         /\ \A w \in Workers : \A i \in 1 .. Len(qConn'[w]) : sock'[qConn'[w][i]] # None
    <3>. SUFFICES ASSUME NEW w \in Workers, NEW i \in 1 .. Len(qConn'[w])
                  PROVE  /\ \A u \in Workers : conns'[u][qConn'[w][i]].addr = None
                         /\ sock'[qConn'[w][i]] # None
      OBVIOUS
    <3>1. PICK j \in 1 .. Len(qConn[w]) : qConn'[w][i] = qConn[w][j] /\ qConn'[w][i] # f
      BY <2>1
    <3>2. /\ qConn[w][j] \in Fd /\ sock[qConn[w][j]] # None
          /\ \A u \in Workers : ~Open(u, qConn[w][j])
      BY <2>1 DEF Base, Ownership
    <3>3. sock'[qConn'[w][i]] # None
      BY <3>1, <3>2, <1>0
    <3>4. ASSUME NEW u \in Workers PROVE conns'[u][qConn'[w][i]].addr = None
      <4>1. PICK g \in Fd : g = qConn[w][j]
        BY <3>2
      <4>2. ~Open(u, g) /\ g # f /\ qConn'[w][i] = g
        BY <3>1, <3>2, <4>1
      <4>3. ~Open(u, g)'
        BY <2>1, <4>2
      <4>. QED  BY <4>2, <4>3 DEF Open
    <3>. QED  BY <3>3, <3>4
  <2>11. \A w, u \in Workers, g \in Fd : Open(w, g)' /\ Open(u, g)' => w = u
    BY <2>1, <2>9 DEF Base, Ownership
  <2>12. \A w \in Workers, g \in Fd : Open(w, g)' => sock'[g] # None
    BY <2>1, <2>9, <1>0 DEF Base, Ownership
  <2>13. \A g \in Fd : sock'[g] # None =>
           \E w \in Workers : Open(w, g)' \/ \E i \in 1 .. Len(qConn'[w]) : qConn'[w][i] = g
    <3>. SUFFICES ASSUME NEW g \in Fd, sock'[g] # None, g # f
                  PROVE  \E w \in Workers : Open(w, g)' \/ \E i \in 1 .. Len(qConn'[w]) : qConn'[w][i] = g
      BY <2>1
    <3>1. PICK w \in Workers : Open(w, g) \/ \E i \in 1 .. Len(qConn[w]) : qConn[w][i] = g
      BY <1>0 DEF Base, Ownership
    <3>2. CASE Open(w, g)
      BY <3>2, <2>1
    <3>3. CASE \E i \in 1 .. Len(qConn[w]) : qConn[w][i] = g
      BY <3>3, <2>1
    <3>. QED  BY <3>1, <3>2, <3>3
  <2>. QED  BY <2>8, <2>10, <2>11, <2>12, <2>13 DEF Ownership, Open
<1>. QED  BY <1>1, <1>2

LEMMA CloseOwnership ==
  ASSUME Base, NEW v \in Workers, NEW f \in Fd, Open(v, f), CloseConn(v, f), qConn' = qConn
  PROVE  Ownership'
<1>1. sock \in [Fd -> Req \cup {None}]
  BY DEF Base, TypeOK
<1>2. \A g \in Fd : sock'[g] = IF g = f THEN None ELSE sock[g]
  BY <1>1, CloseEffect DEF Base
<1>3. \A u \in Workers, g \in Fd : Open(u, g)' <=> Open(u, g) /\ ~(u = v /\ g = f)
  BY CloseEffect, NoConnFields DEF Base, Open, Becomes
<1>4. /\ \A u \in Workers : ~Open(u, f)'
      /\ \A w \in Workers : \A i \in 1 .. Len(qConn[w]) : qConn[w][i] # f
  BY <1>3 DEF Base, Ownership
<1>5. \A w \in Workers : \A i \in 1 .. Len(qConn[w]) : qConn[w][i] \in Fd
  BY Elements DEF Base, TypeOK
<1>6. \A w, u \in Workers : \A i \in 1 .. Len(qConn'[w]), j \in 1 .. Len(qConn'[u]) :
        qConn'[w][i] = qConn'[u][j] => w = u /\ i = j
  BY DEF Base, Ownership
<1>7. \A w, u \in Workers, g \in Fd : Open(w, g)' /\ Open(u, g)' => w = u
  BY <1>3 DEF Base, Ownership
<1>8. \A w, u \in Workers : \A i \in 1 .. Len(qConn'[w]) : conns'[u][qConn'[w][i]].addr = None
  BY <1>3, <1>5 DEF Base, Ownership, Open
<1>9. \A w \in Workers : \A i \in 1 .. Len(qConn'[w]) : sock'[qConn'[w][i]] # None
  BY <1>2, <1>4, <1>5 DEF Base, Ownership
<1>10. \A w \in Workers, g \in Fd : Open(w, g)' => sock'[g] # None
  BY <1>2, <1>3, <1>4 DEF Base, Ownership
<1>11. \A g \in Fd : sock'[g] # None =>
         \E w \in Workers : Open(w, g)' \/ \E i \in 1 .. Len(qConn'[w]) : qConn'[w][i] = g
  BY <1>2, <1>3 DEF Base, Ownership
<1>. QED  BY <1>6, <1>7, <1>8, <1>9, <1>10, <1>11, SMTT(30) DEF Ownership, Open

\* Addresses of connections that a step leaves alone
LEMMA OwnershipStep == Base /\ [Next]_vars => Ownership'
<1>. SUFFICES ASSUME Base, [Next]_vars PROVE Ownership'
  OBVIOUS
<1>. USE DEF Base
<1>1. ASSUME sock' = sock, qConn' = qConn, conns' = conns PROVE Ownership'
  BY <1>1, KeepsOwnership
<1>2. ASSUME NEW r \in Req, Connect(r) \/ SendRequest(r) \/ Leave(r) PROVE Ownership'
  BY <1>1, <1>2 DEF Connect, SendRequest, Leave, kernelVars, queueVars
<1>3. ASSUME NEW t \in Thread, Notify(t) PROVE Ownership'
  BY <1>1, <1>3 DEF Notify, kernelVars, queueVars
<1>4. ASSUME NEW w \in Workers, RtcMsgBack(w) PROVE Ownership'
  <2>1. sock' = sock /\ qConn' = qConn
    BY <1>4 DEF RtcMsgBack, kernelVars
  <2>2. \A u \in Workers, f \in Fd : conns'[u][f].addr = conns[u][f].addr
    BY <1>4, RtcMsgBackEffect DEF Becomes
  <2>. QED  BY <2>1, <2>2, KeepsOwnership
<1>5. ASSUME NEW w \in Workers, NEW f \in Fd, ReadRequest(w, f) PROVE Ownership'
  <2>1. sock' = sock /\ qConn' = qConn /\ sock[f] \in Req
    BY <1>5, OpenHasClient DEF ReadRequest, kernelVars
  <2>2. \A u \in Workers, g \in Fd : conns'[u][g].addr = conns[u][g].addr
    <3>1. PICK c \in Connection : c.addr = conns[w][f].addr /\ Becomes(w, f, c)
      BY <1>5, <2>1, ReadRequestEffect
    <3>. QED  BY <3>1 DEF Becomes
  <2>. QED  BY <2>1, <2>2, KeepsOwnership
<1>6. ASSUME NEW w \in Workers, NEW f \in Fd, WriteReply(w, f) PROVE Ownership'
  <2>1. sock' = sock /\ qConn' = qConn
    BY <1>6 DEF WriteReply, kernelVars, queueVars
  <2>2. \A u \in Workers, g \in Fd : conns'[u][g].addr = conns[u][g].addr
    BY <1>6, WriteReplyEffect DEF Becomes
  <2>. QED  BY <2>1, <2>2, KeepsOwnership
<1>7. ASSUME NEW w \in Workers, NEW f \in Fd, ReadFails(w, f) \/ Timeout(w, f) \/ WriteFails(w, f)
      PROVE Ownership'
  BY <1>7, CloseOwnership DEF ReadFails, Timeout, WriteFails, queueVars
<1>8. ASSUME RtcServerMsg \/ CertFails PROVE Ownership'
  BY <1>1, <1>8 DEF RtcServerMsg, CertFails, kernelVars
<1>9. ASSUME NEW v \in RW, RtcWorkerMsg(v) PROVE Ownership'
  BY <1>1, <1>9 DEF RtcWorkerMsg, kernelVars
<1>10. ASSUME UNCHANGED vars PROVE Ownership'
  BY <1>1, <1>10 DEF vars, kernelVars, queueVars
<1>. QED
  BY <1>2, <1>3, <1>4, <1>5, <1>6, <1>7, <1>8, <1>9, <1>10, AcceptOwnership, NewConnOwnership
  DEF Next, ClientStep, ConnStep

-----------------------------------------------------------------------------
(* Clients and requests not read yet *)

LEMMA OnePlaceStep == Base /\ [Next]_vars => OnePlace'
<1>. SUFFICES ASSUME Base, [Next]_vars PROVE OnePlace'
  OBVIOUS
<1>. USE DEF Base
<1>1. ASSUME UNCHANGED <<client, cmd, seen, backlog, sock>> PROVE OnePlace'
  BY <1>1 DEF OnePlace
<1>0. Len(backlog) \in Nat /\ \A i \in 1 .. Len(backlog) : backlog[i] \in Req
  BY Elements DEF TypeOK
<1>2. ASSUME NEW r \in Req, Connect(r) PROVE OnePlace'
  <2>1. /\ Len(backlog') = Len(backlog) + 1 /\ backlog'[Len(backlog) + 1] = r
        /\ \A i \in 1 .. Len(backlog) : backlog'[i] = backlog[i]
    BY <1>2, Appended DEF Connect, TypeOK
  <2>2. \A i \in 1 .. Len(backlog') :
          \/ i \in 1 .. Len(backlog) /\ backlog'[i] = backlog[i] /\ backlog'[i] # r
          \/ i = Len(backlog) + 1 /\ backlog'[i] = r
    BY <1>0, <1>2, <2>1 DEF OnePlace, Connect
  <2>3. /\ UNCHANGED <<cmd, seen, sock>> /\ client[r] = "idle"
        /\ \A q \in Req : client'[q] = IF q = r THEN "connected" ELSE client[q]
    BY <1>2 DEF Connect, TypeOK
  <2>4. \A i, j \in 1 .. Len(backlog') : backlog'[i] = backlog'[j] => i = j
    BY <2>2 DEF OnePlace
  <2>5. \A i \in 1 .. Len(backlog'), f \in Fd : backlog'[i] # sock'[f]
    BY <2>2, <2>3, Constants DEF OnePlace
  <2>6. \A i \in 1 .. Len(backlog') : client'[backlog'[i]] # "idle"
    BY <1>0, <2>2, <2>3 DEF OnePlace
  <2>7. \A f \in Fd : sock'[f] # None => client'[sock'[f]] # "idle"
    <3>1. \A f \in Fd : sock[f] # None => sock[f] \in Req
      BY DEF TypeOK
    <3>. QED  BY <3>1, <2>3 DEF OnePlace
  <2>. QED  BY <2>3, <2>4, <2>5, <2>6, <2>7 DEF OnePlace
<1>3. ASSUME NEW r \in Req, SendRequest(r) PROVE OnePlace'
  <2>1. /\ UNCHANGED <<backlog, sock>>
        /\ \A q \in Req : client'[q] = IF q = r THEN "sent" ELSE client[q]
        /\ \A q \in Req : q # r => cmd'[q] = cmd[q] /\ seen'[q] = seen[q]
    BY <1>3 DEF SendRequest, TypeOK, kernelVars
  <2>2. cmd'[r] # None
    <3>1. PICK c \in Command, s \in Streams : cmd' = [cmd EXCEPT ![r] = <<c, s>>]
      BY <1>3 DEF SendRequest
    <3>. QED  BY <3>1, NoneAssumption DEF TypeOK
  <2>3. \A f \in Fd : sock[f] # None => sock[f] \in Req
    BY DEF TypeOK
  <2>. QED  BY <1>0, <2>1, <2>2, <2>3 DEF OnePlace
<1>4. ASSUME NEW r \in Req, Leave(r) PROVE OnePlace'
  <2>1. /\ UNCHANGED <<backlog, sock, cmd, seen>>
        /\ \A q \in Req : client'[q] = IF q = r THEN "left" ELSE client[q]
    BY <1>4 DEF Leave, TypeOK, kernelVars
  <2>3. \A f \in Fd : sock[f] # None => sock[f] \in Req
    BY DEF TypeOK
  <2>. QED  BY <1>0, <2>1, <2>3 DEF OnePlace
<1>5. ASSUME Accept PROVE OnePlace'
  <2>1. PICK f \in Fd : sock[f] = None /\ sock' = [sock EXCEPT ![f] = Head(backlog)]
    BY <1>5 DEF Accept
  <2>2. /\ Head(backlog) = backlog[1] /\ Len(backlog) >= 1
        /\ backlog' = Tail(backlog) /\ Len(backlog') = Len(backlog) - 1
        /\ \A i \in 1 .. Len(backlog) - 1 : backlog'[i] = backlog[i + 1]
    BY <1>5, Taken DEF Accept, TypeOK
  <2>3. \A i \in 1 .. Len(backlog') : backlog'[i] # backlog[1]
    <3>. SUFFICES ASSUME NEW i \in 1 .. Len(backlog') PROVE backlog'[i] # backlog[1]
      OBVIOUS
    <3>1. i + 1 \in 1 .. Len(backlog) /\ 1 \in 1 .. Len(backlog) /\ backlog'[i] = backlog[i + 1] /\ i + 1 # 1
      BY <1>0, <2>2
    <3>. QED  BY <3>1 DEF OnePlace
  <2>4. \A g \in Fd : sock'[g] = IF g = f THEN backlog[1] ELSE sock[g]
    BY <2>1, <2>2 DEF TypeOK
  <2>5. UNCHANGED <<client, cmd, seen>>
    BY <1>5 DEF Accept, clientVars
  <2>6. 1 \in 1 .. Len(backlog)
    BY <1>0, <2>2
  <2>7. \A i \in 1 .. Len(backlog') : i + 1 \in 1 .. Len(backlog) /\ backlog'[i] = backlog[i + 1]
    BY <1>0, <2>2
  <2>8. \A i, j \in 1 .. Len(backlog') : backlog'[i] = backlog'[j] => i = j
    <3>. SUFFICES ASSUME NEW i \in 1 .. Len(backlog'), NEW j \in 1 .. Len(backlog'), backlog'[i] = backlog'[j]
                  PROVE  i = j
      OBVIOUS
    <3>1. i + 1 = j + 1
      BY <2>7 DEF OnePlace
    <3>2. i \in Nat /\ j \in Nat
      BY <1>0, <2>2
    <3>. QED  BY <3>1, <3>2
  <2>9. /\ \A g, h \in Fd : sock'[g] # None /\ sock'[g] = sock'[h] => g = h
        /\ \A g \in Fd : sock'[g] # None => client'[sock'[g]] # "idle"
    BY <2>4, <2>5, <2>6 DEF OnePlace
  <2>10. /\ \A i \in 1 .. Len(backlog'), g \in Fd : backlog'[i] # sock'[g]
         /\ \A i \in 1 .. Len(backlog') : client'[backlog'[i]] # "idle"
    BY <2>3, <2>4, <2>5, <2>7 DEF OnePlace
  <2>. QED  BY <2>5, <2>8, <2>9, <2>10 DEF OnePlace
<1>6. ASSUME NEW w \in Workers, NEW f \in Fd, ReadFails(w, f) \/ Timeout(w, f) \/ WriteFails(w, f)
      PROVE OnePlace'
  <2>1. sock' = [sock EXCEPT ![f] = None] /\ UNCHANGED <<client, cmd, seen, backlog>>
    BY <1>6 DEF ReadFails, Timeout, WriteFails, CloseConn, clientVars
  <2>2. \A g \in Fd : sock'[g] = IF g = f THEN None ELSE sock[g]
    BY <2>1 DEF TypeOK
  <2>. QED  BY <1>0, <2>1, <2>2, Constants DEF OnePlace
<1>7. ASSUME NEW t \in Thread, Notify(t) PROVE OnePlace'
  BY <1>1, <1>7 DEF Notify, clientVars, kernelVars
<1>8. ASSUME NEW w \in Workers, NewConn(w) \/ RtcMsgBack(w) PROVE OnePlace'
  BY <1>1, <1>8 DEF NewConn, RtcMsgBack, clientVars, kernelVars
<1>9. ASSUME NEW w \in Workers, NEW f \in Fd, ReadRequest(w, f) \/ WriteReply(w, f) PROVE OnePlace'
  BY <1>1, <1>9 DEF ReadRequest, WriteReply, clientVars, kernelVars
<1>10. ASSUME RtcServerMsg \/ CertFails PROVE OnePlace'
  BY <1>1, <1>10 DEF RtcServerMsg, CertFails, clientVars, kernelVars
<1>11. ASSUME NEW v \in RW, RtcWorkerMsg(v) PROVE OnePlace'
  BY <1>1, <1>11 DEF RtcWorkerMsg, clientVars, kernelVars
<1>12. ASSUME UNCHANGED vars PROVE OnePlace'
  BY <1>1, <1>12 DEF vars, clientVars, kernelVars
<1>. QED
  BY <1>2, <1>3, <1>4, <1>5, <1>6, <1>7, <1>8, <1>9, <1>10, <1>11, <1>12
  DEF Next, ClientStep, ConnStep

\* A request's command is chosen once.
LEMMA CmdKept ==
  ASSUME Base, [Next]_vars, NEW q \in Req, cmd[q] # None
  PROVE  cmd'[q] = cmd[q]
<1>. USE DEF Base
<1>1. ASSUME NEW r \in Req, SendRequest(r) PROVE cmd'[q] = cmd[q]
  <2>1. cmd[r] = None
    BY <1>1 DEF SendRequest, OnePlace
  <2>2. q # r
    BY <2>1
  <2>. QED  BY <1>1, <2>2 DEF SendRequest, TypeOK
<1>2. ASSUME NEW r \in Req, Connect(r) \/ Leave(r) PROVE cmd'[q] = cmd[q]
  BY <1>2 DEF Connect, Leave
<1>3. ASSUME Accept \/ RtcServerMsg \/ CertFails PROVE cmd'[q] = cmd[q]
  BY <1>3 DEF Accept, RtcServerMsg, CertFails, clientVars
<1>4. ASSUME NEW w \in Workers, NewConn(w) \/ RtcMsgBack(w) PROVE cmd'[q] = cmd[q]
  BY <1>4 DEF NewConn, RtcMsgBack, clientVars
<1>5. ASSUME NEW w \in Workers, NEW f \in Fd, ConnStep(w, f) \/ Timeout(w, f) PROVE cmd'[q] = cmd[q]
  BY <1>5 DEF ConnStep, ReadRequest, ReadFails, WriteReply, WriteFails, Timeout, clientVars
<1>6. ASSUME NEW t \in Thread, Notify(t) PROVE cmd'[q] = cmd[q]
  BY <1>6 DEF Notify, clientVars
<1>7. ASSUME NEW v \in RW, RtcWorkerMsg(v) PROVE cmd'[q] = cmd[q]
  BY <1>7 DEF RtcWorkerMsg, clientVars
<1>8. ASSUME UNCHANGED vars PROVE cmd'[q] = cmd[q]
  BY <1>8 DEF vars, clientVars
<1>. QED  BY <1>1, <1>2, <1>3, <1>4, <1>5, <1>6, <1>7, <1>8 DEF Next, ClientStep

LEMMA KnownStep == Base /\ [Next]_vars => Known'
<1>. SUFFICES ASSUME Base, [Next]_vars PROVE Known'
  OBVIOUS
<1>. USE DEF Base
<1>0. Len(qRtc) \in Nat /\ \A i \in 1 .. Len(qRtc) : qRtc[i] \in Message /\ qRtc[i].req \in Req
  BY Messages DEF TypeOK
<1>1. ASSUME qRtc' = qRtc PROVE Known'
  BY <1>0, <1>1, CmdKept DEF Known
<1>2. ASSUME NEW w \in Workers, NEW f \in Fd, ReadRequest(w, f) PROVE Known'
  <2>1. PICK m \in Message : qRtc' = Append(qRtc, m) /\ m.req = sock[f]
    BY <1>2, ReadMessage
  <2>2. \A i \in 1 .. Len(qRtc') : \/ i \in 1 .. Len(qRtc) /\ qRtc'[i] = qRtc[i]
                                   \/ qRtc'[i].req = sock[f]
    <3>1. qRtc \in Seq(Message)
      BY DEF TypeOK
    <3>2. /\ Len(qRtc') = Len(qRtc) + 1 /\ qRtc'[Len(qRtc) + 1] = m
          /\ \A i \in 1 .. Len(qRtc) : qRtc'[i] = qRtc[i]
      BY <2>1, <3>1, Appended
    <3>. QED  BY <1>0, <2>1, <3>2
  <2>3. cmd[sock[f]] # None /\ cmd' = cmd
    BY <1>2 DEF ReadRequest, clientVars
  <2>. QED  BY <2>2, <2>3 DEF Known
<1>3. ASSUME qRtc # <<>>, qRtc' = Tail(qRtc), cmd' = cmd PROVE Known'
  <2>1. \A i \in 1 .. Len(qRtc') : i + 1 \in 1 .. Len(qRtc) /\ qRtc'[i] = qRtc[i + 1]
    BY <1>0, <1>3, Taken DEF TypeOK
  <2>. QED  BY <1>3, <2>1 DEF Known
<1>4. ASSUME RtcServerMsg \/ CertFails PROVE Known'
  BY <1>1, <1>3, <1>4 DEF RtcServerMsg, CertFails, clientVars
<1>5. ASSUME NEW r \in Req, Connect(r) \/ SendRequest(r) \/ Leave(r) PROVE qRtc' = qRtc
  BY <1>5 DEF Connect, SendRequest, Leave, queueVars
<1>6. ASSUME NEW w \in Workers, NewConn(w) \/ RtcMsgBack(w) PROVE qRtc' = qRtc
  BY <1>6 DEF NewConn, RtcMsgBack
<1>7. ASSUME NEW w \in Workers, NEW f \in Fd,
             ReadFails(w, f) \/ WriteReply(w, f) \/ WriteFails(w, f) \/ Timeout(w, f)
      PROVE  qRtc' = qRtc
  BY <1>7 DEF ReadFails, WriteReply, WriteFails, Timeout, queueVars
<1>8. ASSUME NEW t \in Thread, Notify(t) PROVE qRtc' = qRtc
  BY <1>8 DEF Notify, queueVars
<1>9. ASSUME NEW v \in RW, RtcWorkerMsg(v) PROVE qRtc' = qRtc
  BY <1>9 DEF RtcWorkerMsg
<1>10. ASSUME Accept \/ UNCHANGED vars PROVE qRtc' = qRtc
  BY <1>10 DEF Accept, vars, queueVars
<1>. QED
  BY <1>1, <1>2, <1>4, <1>5, <1>6, <1>7, <1>8, <1>9, <1>10 DEF Next, ClientStep, ConnStep

LEMMA InitBase == Init => Base
BY InitTypeOK, InitOwnership DEF Base

LEMMA BaseStep == Base /\ [Next]_vars => Base'
BY TypeStep, OwnershipStep, OnePlaceStep, KnownStep DEF Base

\* TypeOK of the whole path, for every number of clients, threads of either
\* kind, descriptors and addresses: what RtcServer reads can be routed, and an
\* open connection has a client.
THEOREM TypeCorrect == Spec => []TypeOK
<1>1. Spec => []Base
  BY InitBase, BaseStep, PTL DEF Spec
<1>2. Base => TypeOK
  BY DEF Base
<1>. QED  BY <1>1, <1>2, PTL

\* OneOwnerPerFd: a socket has one owner.
LEMMA OwnershipIsOne == Base => OneOwnerPerFd
<1>. SUFFICES ASSUME Base, NEW f \in Fd
              PROVE  Cardinality(Owners(f)) = IF sock[f] = None THEN 0 ELSE 1
  BY DEF OneOwnerPerFd
<1> DEFINE A == {w \in Workers : Open(w, f)}
           I(w) == {i \in DOMAIN qConn[w] : qConn[w][i] = f}
<1>0. \A w \in Workers : DOMAIN qConn[w] = 1 .. Len(qConn[w])
  BY Elements DEF Base, TypeOK
<1>1. CASE sock[f] = None
  <2>1. A = {}
    BY <1>1 DEF Base, Ownership
  <2>2. \A w \in Workers : I(w) = {}
    BY <1>0, <1>1 DEF Base, Ownership
  <2>3. Owners(f) = {}
    BY <2>1, <2>2 DEF Owners
  <2>. QED  BY <1>1, <2>3, FS_EmptySet
<1>2. CASE sock[f] # None
  <2>1. PICK w \in Workers : Open(w, f) \/ \E i \in 1 .. Len(qConn[w]) : qConn[w][i] = f
    BY <1>2 DEF Base, Ownership
  <2>2. \E x : Owners(f) = {x}
    <3>1. CASE Open(w, f)
      <4>1. A = {w}
        BY <3>1 DEF Base, Ownership
      <4>2. \A u \in Workers : I(u) = {}
        BY <1>0, <3>1 DEF Base, Ownership
      <4>. QED  BY <4>1, <4>2, SMTT(30) DEF Owners
    <3>2. ASSUME NEW i \in 1 .. Len(qConn[w]), qConn[w][i] = f PROVE Owners(f) = {<<w, i>>}
      <4>1. A = {}
        BY <3>2 DEF Base, Ownership
      <4>2. \A u \in Workers : \A j \in I(u) : u = w /\ j = i
        BY <1>0, <3>2 DEF Base, Ownership
      <4>3. i \in I(w)
        BY <1>0, <3>2
      <4>. QED  BY <4>1, <4>2, <4>3 DEF Owners
    <3>. QED  BY <2>1, <3>1, <3>2
  <2>. QED  BY <1>2, <2>2, FS_Singleton
<1>. QED  BY <1>1, <1>2

-----------------------------------------------------------------------------
(* Ints and messages *)

Kind == {"conn", "msg"}
In(s, k) == {i \in DOMAIN s : s[i] = k}
Owing(o, t, k) == {u \in Thread : o[u] = <<t, k>>}
\* Tokens with the pipes p and the owed writes o
Ints(p, o, t, k) == Cardinality(In(p[t], k)) + Cardinality(Owing(o, t, k))

LEMMA CountFinite ==
  ASSUME NEW S, NEW s \in Seq(S), NEW k
  PROVE  IsFiniteSet(In(s, k)) /\ Cardinality(In(s, k)) \in Nat
<1>1. In(s, k) \subseteq 1 .. Len(s) /\ Len(s) \in Nat
  BY Elements DEF In
<1>2. IsFiniteSet(1 .. Len(s))
  BY <1>1, FS_Interval
<1>. QED  BY <1>1, <1>2, FS_Subset, FS_CardinalityType

LEMMA CountAppend ==
  ASSUME NEW S, NEW s \in Seq(S), NEW x \in S, NEW k
  PROVE  Cardinality(In(Append(s, x), k)) = Cardinality(In(s, k)) + IF x = k THEN 1 ELSE 0
<1> DEFINE n == Len(s) + 1
<1>1. /\ Len(s) \in Nat /\ DOMAIN s = 1 .. Len(s)
      /\ DOMAIN Append(s, x) = 1 .. n
      /\ \A i \in 1 .. Len(s) : Append(s, x)[i] = s[i]
      /\ Append(s, x)[n] = x
  BY Appended, Elements
<1>2. CASE x = k
  <2>1. In(Append(s, x), k) = In(s, k) \cup {n}
    BY <1>1, <1>2 DEF In
  <2>2. n \notin In(s, k)
    BY <1>1 DEF In
  <2>3. IsFiniteSet(In(s, k))
    BY CountFinite
  <2>. QED  BY <1>2, <2>1, <2>2, <2>3, FS_AddElement
<1>3. CASE x # k
  <2>1. In(Append(s, x), k) = In(s, k)
    BY <1>1, <1>3 DEF In
  <2>2. Cardinality(In(s, k)) \in Nat
    BY CountFinite
  <2>. QED  BY <1>3, <2>1, <2>2
<1>. QED  BY <1>2, <1>3

LEMMA CountTail ==
  ASSUME NEW S, NEW s \in Seq(S), s # <<>>, NEW k
  PROVE  Cardinality(In(s, k)) = Cardinality(In(Tail(s), k)) + IF Head(s) = k THEN 1 ELSE 0
<1> DEFINE T == In(Tail(s), k)
           R == In(s, k) \ {1}
           shift == [i \in T |-> i + 1]
<1>1. /\ Len(s) \in Nat /\ Len(s) >= 1 /\ DOMAIN s = 1 .. Len(s)
      /\ Tail(s) \in Seq(S) /\ Head(s) = s[1]
      /\ DOMAIN Tail(s) = 1 .. Len(s) - 1
      /\ \A i \in 1 .. Len(s) - 1 : Tail(s)[i] = s[i + 1]
  BY Taken, Elements
<1>2. \A i \in T : i \in Nat /\ i >= 1 /\ i + 1 \in R
  BY <1>1 DEF In
<1>3. \A j \in R : j - 1 \in T /\ j = j - 1 + 1
  <2>. SUFFICES ASSUME NEW j \in R PROVE j - 1 \in T /\ j = j - 1 + 1
    OBVIOUS
  <2>1. j \in 1 .. Len(s) /\ j # 1 /\ s[j] = k
    BY <1>1 DEF In
  <2>2. j - 1 \in 1 .. Len(s) - 1 /\ j - 1 + 1 = j
    BY <1>1, <2>1
  <2>. QED  BY <1>1, <2>1, <2>2 DEF In
<1>4. shift \in Bijection(T, R)
  <2>1. shift \in [T -> R]
    BY <1>2
  <2>2. \A a, b \in T : shift[a] = shift[b] => a = b
    BY <1>2
  <2>3. \A j \in R : \E i \in T : shift[i] = j
    BY <1>3
  <2> HIDE DEF T, R, shift
  <2>. QED  BY <2>1, <2>2, <2>3 DEF Bijection, Injection, Surjection, IsInjective
<1>5. IsFiniteSet(T) /\ Cardinality(T) \in Nat
  BY <1>1, CountFinite
<1>6. IsFiniteSet(R) /\ Cardinality(R) = Cardinality(T)
  <2> HIDE DEF T, R, shift
  <2>. QED  BY <1>4, <1>5, FS_Bijection DEF ExistsBijection
<1>7. CASE Head(s) = k
  <2>1. In(s, k) = R \cup {1} /\ 1 \notin R
    BY <1>1, <1>7 DEF In
  <2>2. Cardinality(R \cup {1}) = Cardinality(R) + 1
    <3> HIDE DEF R
    <3>. QED  BY <1>6, <2>1, FS_AddElement
  <2> HIDE DEF R, T
  <2>3. Cardinality(In(s, k)) = Cardinality(T) + 1
    BY <1>6, <2>1, <2>2
  <2>. QED  BY <1>7, <2>3 DEF T
<1>8. CASE Head(s) # k
  <2>1. In(s, k) = R
    BY <1>1, <1>8 DEF In
  <2> HIDE DEF R, T
  <2>2. Cardinality(In(s, k)) = Cardinality(T) + 0
    BY <1>5, <1>6, <2>1
  <2>. QED  BY <1>8, <2>2 DEF T
<1>. QED  BY <1>7, <1>8

LEMMA TokensAre ==
  ASSUME TypeOK, NEW t \in Thread, NEW k \in Kind
  PROVE  /\ Ints(pipe, owes, t, k) = Cardinality(In(pipe[t], k)) + Cardinality(Owing(owes, t, k))
         /\ Cardinality(In(pipe[t], k)) \in Nat
         /\ IsFiniteSet(Owing(owes, t, k)) /\ Cardinality(Owing(owes, t, k)) \in Nat
<1>1. Ints(pipe, owes, t, k) = Cardinality(In(pipe[t], k)) + Cardinality(Owing(owes, t, k))
  BY DEF Ints
<1>2. Cardinality(In(pipe[t], k)) \in Nat
  BY CountFinite DEF TypeOK
<1>3. IsFiniteSet(Owing(owes, t, k))
  BY Constants, FS_Subset DEF Owing
<1>. QED  BY <1>1, <1>2, <1>3, FS_CardinalityType

\* A thread that owed nothing owes an int of the kind k to u.
LEMMA OwingMore ==
  ASSUME TypeOK, NEW t \in Thread, NEW u \in Thread, NEW k \in Kind,
         Free(t), Owes(t, u, k)
  PROVE  \A x \in Thread, l \in Kind :
           Cardinality(Owing(owes', x, l)) = Cardinality(Owing(owes, x, l)) + IF x = u /\ l = k THEN 1 ELSE 0
<1>. SUFFICES ASSUME NEW x \in Thread, NEW l \in Kind
              PROVE  Cardinality(Owing(owes', x, l))
                       = Cardinality(Owing(owes, x, l)) + IF x = u /\ l = k THEN 1 ELSE 0
  OBVIOUS
<1>1. /\ owes[t] = None /\ owes'[t] = <<u, k>>
      /\ \A y \in Thread : y # t => owes'[y] = owes[y]
  BY DEF Free, Owes, TypeOK
<1>2. <<x, l>> # None
  BY NoneAssumption DEF Kind
<1>3. IsFiniteSet(Owing(owes, x, l)) /\ Cardinality(Owing(owes, x, l)) \in Nat
  BY TokensAre
<1>4. t \notin Owing(owes, x, l)
  BY <1>1, <1>2 DEF Owing
<1>5. CASE x = u /\ l = k
  <2>1. Owing(owes', x, l) = Owing(owes, x, l) \cup {t}
    BY <1>1, <1>5 DEF Owing
  <2>. QED  BY <1>3, <1>4, <1>5, <2>1, FS_AddElement
<1>6. CASE ~(x = u /\ l = k)
  <2>1. Owing(owes', x, l) = Owing(owes, x, l)
    BY <1>1, <1>2, <1>6 DEF Owing
  <2>. QED  BY <1>3, <1>6, <2>1
<1>. QED  BY <1>5, <1>6

\* A thread that owed an int wrote it.
LEMMA OwingLess ==
  ASSUME TypeOK, NEW t \in Thread, Notify(t)
  PROVE  \A x \in Thread, l \in Kind :
           Cardinality(Owing(owes, x, l)) = Cardinality(Owing(owes', x, l)) + IF owes[t] = <<x, l>> THEN 1 ELSE 0
<1>. SUFFICES ASSUME NEW x \in Thread, NEW l \in Kind
              PROVE  Cardinality(Owing(owes, x, l))
                       = Cardinality(Owing(owes', x, l)) + IF owes[t] = <<x, l>> THEN 1 ELSE 0
  OBVIOUS
<1>1. /\ owes'[t] = None
      /\ \A y \in Thread : y # t => owes'[y] = owes[y]
  BY DEF TypeOK, Notify
<1>2. <<x, l>> # None
  BY NoneAssumption DEF Kind
<1>3. IsFiniteSet(Owing(owes, x, l)) /\ Cardinality(Owing(owes, x, l)) \in Nat
  BY TokensAre
<1>4. t \notin Owing(owes', x, l) /\ Owing(owes', x, l) \subseteq Owing(owes, x, l)
  BY <1>1, <1>2 DEF Owing
<1>5. IsFiniteSet(Owing(owes', x, l)) /\ Cardinality(Owing(owes', x, l)) \in Nat
  BY <1>3, <1>4, FS_Subset, FS_CardinalityType
<1>6. CASE owes[t] = <<x, l>>
  <2>1. Owing(owes, x, l) = Owing(owes', x, l) \cup {t}
    BY <1>1, <1>2, <1>6 DEF Owing
  <2>2. Cardinality(Owing(owes', x, l) \cup {t}) = Cardinality(Owing(owes', x, l)) + 1
    BY <1>4, <1>5, FS_AddElement
  <2>. QED  BY <1>6, <2>1, <2>2
<1>7. CASE owes[t] # <<x, l>>
  <2>1. Owing(owes', x, l) = Owing(owes, x, l)
    BY <1>1, <1>2, <1>7 DEF Owing
  <2>. QED  BY <1>5, <1>7, <2>1
<1>. QED  BY <1>6, <1>7

\* A send makes one token, the write() of the int none, a read takes one.
LEMMA TokensSent ==
  ASSUME TypeOK, NEW t \in Thread, NEW u \in Thread, NEW k \in Kind,
         Free(t), Owes(t, u, k), pipe' = pipe
  PROVE  /\ Ints(pipe', owes', u, k) = Ints(pipe, owes, u, k) + 1
         /\ \A x \in Thread, l \in Kind : ~(x = u /\ l = k) => Ints(pipe', owes', x, l) = Ints(pipe, owes, x, l)
<1>1. ASSUME NEW x \in Thread, NEW l \in Kind
      PROVE  Ints(pipe', owes', x, l) = Ints(pipe, owes, x, l) + IF x = u /\ l = k THEN 1 ELSE 0
  <2>1. Ints(pipe', owes', x, l) = Cardinality(In(pipe[x], l)) + Cardinality(Owing(owes', x, l))
    BY DEF Ints
  <2>2. Cardinality(Owing(owes', x, l)) = Cardinality(Owing(owes, x, l)) + IF x = u /\ l = k THEN 1 ELSE 0
    BY OwingMore
  <2>. QED  BY <2>1, <2>2, TokensAre
<1>. QED  BY <1>1, TokensAre

LEMMA TokensWritten ==
  ASSUME TypeOK, NEW t \in Thread, Notify(t)
  PROVE  \A x \in Thread, l \in Kind : Ints(pipe', owes', x, l) = Ints(pipe, owes, x, l)
<1>. SUFFICES ASSUME NEW x \in Thread, NEW l \in Kind PROVE Ints(pipe', owes', x, l) = Ints(pipe, owes, x, l)
  OBVIOUS
<1> DEFINE u == owes[t][1]
           k == owes[t][2]
<1>1. owes[t] = <<u, k>> /\ u \in Thread /\ k \in Kind
  <2>1. owes[t] \in Thread \X Kind
    BY DEF Notify, TypeOK, Kind
  <2>. QED  BY <2>1
<1>2. pipe' = [pipe EXCEPT ![u] = Append(@, k)]
  BY DEF Notify
<1>3. Cardinality(Owing(owes, x, l)) = Cardinality(Owing(owes', x, l)) + IF owes[t] = <<x, l>> THEN 1 ELSE 0
  BY OwingLess
<1> HIDE DEF u, k
<1>4. Cardinality(In(pipe'[x], l))
        = Cardinality(In(pipe[x], l)) + IF owes[t] = <<x, l>> THEN 1 ELSE 0
  <2>1. pipe[x] \in Seq(Kind) /\ pipe \in [Thread -> Seq(Kind)]
    BY DEF TypeOK, Kind
  <2>2. CASE x = u
    <3>1. pipe'[x] = Append(pipe[x], k)
      BY <1>2, <2>1, <2>2
    <3>2. Cardinality(In(Append(pipe[x], k), l)) = Cardinality(In(pipe[x], l)) + IF k = l THEN 1 ELSE 0
      BY <1>1, <2>1, CountAppend
    <3>. QED  BY <1>1, <2>2, <3>1, <3>2
  <2>3. CASE x # u
    <3>1. pipe'[x] = pipe[x]
      BY <1>2, <2>1, <2>3
    <3>2. Cardinality(In(pipe[x], l)) \in Nat
      BY <2>1, CountFinite
    <3>. QED  BY <1>1, <2>3, <3>1, <3>2
  <2>. QED  BY <2>2, <2>3
<1>5. Ints(pipe', owes', x, l) = Cardinality(In(pipe'[x], l)) + Cardinality(Owing(owes', x, l))
  BY DEF Ints
<1>6. IsFiniteSet(Owing(owes', x, l)) /\ Cardinality(Owing(owes', x, l)) \in Nat
  <2>1. Owing(owes', x, l) \subseteq Thread
    BY DEF Owing
  <2>. QED  BY <2>1, Constants, FS_Subset, FS_CardinalityType
<1>. QED  BY <1>3, <1>4, <1>5, <1>6, TokensAre

\* What a read leaves in the pipes
LEMMA PipeRead ==
  ASSUME TypeOK, NEW t \in Thread, NEW k \in Kind, Reads(t, k)
  PROVE  \A x \in Thread, l \in Kind :
           /\ Cardinality(In(pipe[x], l))
                = Cardinality(In(pipe'[x], l)) + IF x = t /\ l = k THEN 1 ELSE 0
           /\ Cardinality(In(pipe'[x], l)) \in Nat
<1>. SUFFICES ASSUME NEW x \in Thread, NEW l \in Kind
              PROVE  /\ Cardinality(In(pipe[x], l))
                          = Cardinality(In(pipe'[x], l)) + IF x = t /\ l = k THEN 1 ELSE 0
                     /\ Cardinality(In(pipe'[x], l)) \in Nat
  OBVIOUS
<1>1. pipe \in [Thread -> Seq(Kind)] /\ pipe[t] # <<>> /\ Head(pipe[t]) = k
  BY DEF TypeOK, Kind, Reads
<1>2. CASE x = t
  <2>1. pipe'[x] = Tail(pipe[x])
    BY <1>1, <1>2 DEF Reads
  <2>2. Cardinality(In(pipe[x], l)) = Cardinality(In(Tail(pipe[x]), l)) + IF k = l THEN 1 ELSE 0
    BY <1>1, <1>2, CountTail
  <2>3. Tail(pipe[x]) \in Seq(Kind)
    BY <1>1, <1>2, Taken
  <2>. QED  BY <1>2, <2>1, <2>2, <2>3, CountFinite
<1>3. CASE x # t
  <2>1. pipe'[x] = pipe[x]
    BY <1>1, <1>3 DEF Reads
  <2>2. Cardinality(In(pipe[x], l)) \in Nat
    BY <1>1, CountFinite
  <2>. QED  BY <1>3, <2>1, <2>2
<1>. QED  BY <1>2, <1>3

LEMMA TokensRead ==
  ASSUME TypeOK, NEW t \in Thread, NEW k \in Kind, Reads(t, k), owes' = owes
  PROVE  /\ Ints(pipe, owes, t, k) = Ints(pipe', owes', t, k) + 1
         /\ \A x \in Thread, l \in Kind :
              /\ Ints(pipe', owes', x, l) \in Nat
              /\ ~(x = t /\ l = k) => Ints(pipe', owes', x, l) = Ints(pipe, owes, x, l)
<1>1. ASSUME NEW x \in Thread, NEW l \in Kind
      PROVE  /\ Ints(pipe, owes, x, l) = Ints(pipe', owes', x, l) + IF x = t /\ l = k THEN 1 ELSE 0
             /\ Ints(pipe', owes', x, l) \in Nat
  <2>1. Ints(pipe', owes', x, l) = Cardinality(In(pipe'[x], l)) + Cardinality(Owing(owes, x, l))
    BY DEF Ints
  <2>. QED  BY <2>1, PipeRead, TokensAre
<1>. QED  BY <1>1

\* A thread that reads one message and sends one on to another
LEMMA TokensPassed ==
  ASSUME TypeOK, NEW t \in Thread, NEW k \in Kind, Reads(t, k),
         NEW u \in Thread, NEW j \in Kind, Owes(t, u, j), t # u
  PROVE  /\ Ints(pipe, owes, t, k) = Ints(pipe', owes', t, k) + 1
         /\ Ints(pipe', owes', u, j) = Ints(pipe, owes, u, j) + 1
         /\ \A x \in Thread, l \in Kind :
              /\ Ints(pipe', owes', x, l) \in Nat
              /\ ~(x = t /\ l = k) /\ ~(x = u /\ l = j) => Ints(pipe', owes', x, l) = Ints(pipe, owes, x, l)
<1>1. ASSUME NEW x \in Thread, NEW l \in Kind
      PROVE  /\ Ints(pipe', owes', x, l) + (IF x = t /\ l = k THEN 1 ELSE 0)
                  = Ints(pipe, owes, x, l) + IF x = u /\ l = j THEN 1 ELSE 0
             /\ Ints(pipe', owes', x, l) \in Nat /\ Ints(pipe, owes, x, l) \in Nat
  <2>1. Ints(pipe', owes', x, l) = Cardinality(In(pipe'[x], l)) + Cardinality(Owing(owes', x, l))
    BY DEF Ints
  <2>2. Cardinality(Owing(owes', x, l)) = Cardinality(Owing(owes, x, l)) + IF x = u /\ l = j THEN 1 ELSE 0
    BY OwingMore DEF Reads
  <2>. QED  BY <2>1, <2>2, PipeRead, TokensAre
<1>2. Ints(pipe, owes, t, k) = Ints(pipe', owes', t, k) + 1
  BY <1>1
<1>3. Ints(pipe', owes', u, j) = Ints(pipe, owes, u, j) + 1
  BY <1>1
<1>4. \A x \in Thread, l \in Kind :
        ~(x = t /\ l = k) /\ ~(x = u /\ l = j) => Ints(pipe', owes', x, l) = Ints(pipe, owes, x, l)
  BY <1>1
<1>. QED  BY <1>1, <1>2, <1>3, <1>4

LEMMA InitTokens == Init => OneTokenPerMessage
<1>. SUFFICES ASSUME Init PROVE OneTokenPerMessage
  OBVIOUS
<1>1. ASSUME NEW t \in Thread, NEW k \in Kind PROVE Ints(pipe, owes, t, k) = 0
  <2>1. pipe[t] = <<>> /\ \A u \in Thread : owes[u] = None
    BY DEF Init
  <2>2. <<t, k>> # None
    BY NoneAssumption DEF Kind
  <2>3. In(pipe[t], k) = {}
    BY <2>1 DEF In
  <2>5. Owing(owes, t, k) = {}
    BY <2>1, <2>2 DEF Owing
  <2>4. Cardinality({}) = 0
    BY FS_EmptySet
  <2>. QED  BY <2>3, <2>4, <2>5 DEF Ints
<1>2. /\ \A w \in Workers : Len(qConn[w]) = 0 /\ Len(qReply[w]) = 0
      /\ \A v \in RW : Len(qWork[v]) = 0
      /\ Len(qRtc) = 0
  BY DEF Init
<1>. QED  BY <1>1, <1>2 DEF OneTokenPerMessage, Thread, Kind, Tokens, Ints, In, Owing

LEMMA TokenStep == Base /\ OneTokenPerMessage /\ [Next]_vars => OneTokenPerMessage'
<1>. SUFFICES ASSUME Base, OneTokenPerMessage, [Next]_vars PROVE OneTokenPerMessage'
  OBVIOUS
<1>. USE DEF Base
<1>a. /\ Rs \in Thread /\ Ss \in Thread /\ Rs \notin Workers /\ Rs \notin RW
      /\ \A w \in Workers : w \in Thread /\ w \notin RW
      /\ \A v \in RW : v \in Thread /\ v \notin Workers
      /\ "conn" \in Kind /\ "msg" \in Kind /\ "conn" # "msg"
  BY ThreadsAssumption DEF Thread, Kind
<1>b. /\ qRtc \in Seq(Message) /\ Len(qRtc) \in Nat
      /\ \A w \in Workers : /\ qConn[w] \in Seq(Fd) /\ Len(qConn[w]) \in Nat
                             /\ qReply[w] \in Seq(Message) /\ Len(qReply[w]) \in Nat
      /\ \A v \in RW : qWork[v] \in Seq(Message) /\ Len(qWork[v]) \in Nat
  BY DEF TypeOK
<1>d. /\ \A w \in Workers : Ints(pipe, owes, w, "conn") = Len(qConn[w])
      /\ \A w \in Workers : Ints(pipe, owes, w, "msg") = Len(qReply[w])
      /\ \A v \in RW : Ints(pipe, owes, v, "msg") = Len(qWork[v])
      /\ Ints(pipe, owes, Rs, "msg") = Len(qRtc)
  BY DEF OneTokenPerMessage, Tokens, Ints, In, Owing
<1>e. ASSUME \A w \in Workers : Ints(pipe', owes', w, "conn") = Len(qConn'[w]),
             \A w \in Workers : Ints(pipe', owes', w, "msg") = Len(qReply'[w]),
             \A v \in RW : Ints(pipe', owes', v, "msg") = Len(qWork'[v]),
             Ints(pipe', owes', Rs, "msg") = Len(qRtc')
      PROVE  OneTokenPerMessage'
  BY <1>e DEF OneTokenPerMessage, Tokens, Ints, In, Owing
\* The message an int stands for is there.
<1>c. ASSUME NEW t \in Thread, NEW k \in Kind, Reads(t, k) PROVE Ints(pipe, owes, t, k) \in Nat /\ Ints(pipe, owes, t, k) >= 1
  BY <1>c, TokensAre, PipeRead
<1>1. ASSUME UNCHANGED <<pipe, owes, qConn, qRtc, qWork, qReply>> PROVE OneTokenPerMessage'
  BY <1>1 DEF OneTokenPerMessage, Tokens, In, Owing
<1>2. ASSUME Accept PROVE OneTokenPerMessage'
  <2> DEFINE v == SW[nextWorker]
  <2>1. v \in Workers
    BY Constants DEF TypeOK
  <2>2. PICK f \in Fd : qConn' = [qConn EXCEPT ![v] = Append(@, f)]
    BY <1>2 DEF Accept
  <2>3. /\ Free(Ss) /\ Owes(Ss, v, "conn")
        /\ UNCHANGED <<pipe, qRtc, qWork, qReply>>
    BY <1>2 DEF Accept
  <2> HIDE DEF v
  <2>4. /\ Ints(pipe', owes', v, "conn") = Ints(pipe, owes, v, "conn") + 1
       /\ \A x \in Thread, l \in Kind : ~(x = v /\ l = "conn") => Ints(pipe', owes', x, l) = Ints(pipe, owes, x, l)
    BY <1>a, <2>1, <2>3, TokensSent
  <2>5. /\ Len(qConn'[v]) = Len(qConn[v]) + 1
       /\ \A w \in Workers : w # v => qConn'[w] = qConn[w]
    BY <1>b, <2>1, <2>2, Appended DEF TypeOK
  <2>w. \A y \in Workers : Ints(pipe', owes', y, "conn") = Len(qConn'[y])
    BY <1>a, <1>b, <2>1, <2>3, <2>4, <2>5, <1>d
  <2>x. \A y \in Workers : Ints(pipe', owes', y, "msg") = Len(qReply'[y])
    BY <1>a, <1>b, <2>1, <2>3, <2>4, <2>5, <1>d
  <2>y. \A y \in RW : Ints(pipe', owes', y, "msg") = Len(qWork'[y])
    BY <1>a, <1>b, <2>1, <2>3, <2>4, <2>5, <1>d
  <2>z. Ints(pipe', owes', Rs, "msg") = Len(qRtc')
    BY <1>a, <1>b, <2>1, <2>3, <2>4, <2>5, <1>d
  <2>. QED  BY <2>w, <2>x, <2>y, <2>z, <1>e
<1>3. ASSUME NEW t \in Thread, Notify(t) PROVE OneTokenPerMessage'
  BY <1>3, <1>a, <1>d, <1>e, TokensWritten DEF Notify, queueVars
<1>4. ASSUME NEW v \in Workers, NewConn(v) PROVE OneTokenPerMessage'
  <2>1. Reads(v, "conn") /\ UNCHANGED <<owes, qRtc, qWork, qReply>>
    BY <1>4 DEF NewConn
  <2>2. qConn[v] # <<>>
    BY <1>a, <1>c, <2>1, <1>b, <1>d
  <2>3. qConn' = [qConn EXCEPT ![v] = Tail(@)]
    BY <1>4, <2>2 DEF NewConn
  <2>4. /\ Len(qConn[v]) = Len(qConn'[v]) + 1
       /\ \A w \in Workers : w # v => qConn'[w] = qConn[w]
    BY <1>b, <2>2, <2>3, Taken DEF TypeOK
  <2>5. /\ Ints(pipe, owes, v, "conn") = Ints(pipe', owes', v, "conn") + 1
       /\ \A x \in Thread, l \in Kind :
            /\ Ints(pipe', owes', x, l) \in Nat
            /\ ~(x = v /\ l = "conn") => Ints(pipe', owes', x, l) = Ints(pipe, owes, x, l)
    BY <1>a, <2>1, TokensRead
  <2>6. \A w \in Workers : Len(qConn'[w]) \in Nat
    BY <1>b, <2>2, <2>3, Taken DEF TypeOK
  <2>w. \A y \in Workers : Ints(pipe', owes', y, "conn") = Len(qConn'[y])
    <3>. SUFFICES ASSUME NEW y \in Workers PROVE Ints(pipe', owes', y, "conn") = Len(qConn'[y])
      OBVIOUS
    <3>1. CASE y = v
      BY <3>1, <1>a, <1>b, <2>4, <2>5, <2>6, <1>d
    <3>2. CASE y # v
      BY <3>2, <1>a, <1>b, <2>4, <2>5, <1>d
    <3>. QED  BY <3>1, <3>2
  <2>x. \A y \in Workers : Ints(pipe', owes', y, "msg") = Len(qReply'[y])
    BY <1>a, <1>b, <2>1, <2>4, <2>5, <2>6, <1>d
  <2>y. \A y \in RW : Ints(pipe', owes', y, "msg") = Len(qWork'[y])
    BY <1>a, <1>b, <2>1, <2>4, <2>5, <2>6, <1>d
  <2>z. Ints(pipe', owes', Rs, "msg") = Len(qRtc')
    BY <1>a, <1>b, <2>1, <2>4, <2>5, <2>6, <1>d
  <2>. QED  BY <2>w, <2>x, <2>y, <2>z, <1>e
<1>5. ASSUME NEW v \in Workers, RtcMsgBack(v) PROVE OneTokenPerMessage'
  <2>1. Reads(v, "msg") /\ UNCHANGED <<owes, qRtc, qWork, qConn>>
    BY <1>5 DEF RtcMsgBack
  <2>2. qReply[v] # <<>>
    BY <1>a, <1>c, <2>1, <1>b, <1>d
  <2>3. qReply' = [qReply EXCEPT ![v] = Tail(@)]
    BY <1>5, <2>2 DEF RtcMsgBack
  <2>4. /\ Len(qReply[v]) = Len(qReply'[v]) + 1
       /\ \A w \in Workers : w # v => qReply'[w] = qReply[w]
    BY <1>b, <2>2, <2>3, Taken DEF TypeOK
  <2>5. /\ Ints(pipe, owes, v, "msg") = Ints(pipe', owes', v, "msg") + 1
       /\ \A x \in Thread, l \in Kind :
            /\ Ints(pipe', owes', x, l) \in Nat
            /\ ~(x = v /\ l = "msg") => Ints(pipe', owes', x, l) = Ints(pipe, owes, x, l)
    BY <1>a, <2>1, TokensRead
  <2>6. \A w \in Workers : Len(qReply'[w]) \in Nat
    BY <1>b, <2>2, <2>3, Taken DEF TypeOK
  <2>w. \A y \in Workers : Ints(pipe', owes', y, "conn") = Len(qConn'[y])
    BY <1>a, <1>b, <2>1, <2>4, <2>5, <2>6, <1>d
  <2>x. \A y \in Workers : Ints(pipe', owes', y, "msg") = Len(qReply'[y])
    BY <1>a, <1>b, <2>1, <2>4, <2>5, <2>6, <1>d, SMTT(30)
  <2>y. \A y \in RW : Ints(pipe', owes', y, "msg") = Len(qWork'[y])
    BY <1>a, <1>b, <2>1, <2>4, <2>5, <2>6, <1>d
  <2>z. Ints(pipe', owes', Rs, "msg") = Len(qRtc')
    BY <1>a, <1>b, <2>1, <2>4, <2>5, <2>6, <1>d
  <2>. QED  BY <2>w, <2>x, <2>y, <2>z, <1>e
<1>6. ASSUME NEW w \in Workers, NEW f \in Fd, ReadRequest(w, f) PROVE OneTokenPerMessage'
  <2>1. PICK m \in Message : qRtc' = Append(qRtc, m)
    BY <1>6, ReadMessage
  <2>2. Free(w) /\ Owes(w, Rs, "msg") /\ UNCHANGED <<pipe, qConn, qWork, qReply>>
    BY <1>6 DEF ReadRequest
  <2>3. Len(qRtc') = Len(qRtc) + 1
    BY <1>b, <2>1, Appended
  <2>4. /\ Ints(pipe', owes', Rs, "msg") = Ints(pipe, owes, Rs, "msg") + 1
       /\ \A x \in Thread, l \in Kind : ~(x = Rs /\ l = "msg") => Ints(pipe', owes', x, l) = Ints(pipe, owes, x, l)
    BY <1>a, <2>2, TokensSent
  <2>w. \A y \in Workers : Ints(pipe', owes', y, "conn") = Len(qConn'[y])
    BY <1>a, <1>b, <2>2, <2>3, <2>4, <1>d
  <2>x. \A y \in Workers : Ints(pipe', owes', y, "msg") = Len(qReply'[y])
    BY <1>a, <1>b, <2>2, <2>3, <2>4, <1>d
  <2>y. \A y \in RW : Ints(pipe', owes', y, "msg") = Len(qWork'[y])
    BY <1>a, <1>b, <2>2, <2>3, <2>4, <1>d
  <2>z. Ints(pipe', owes', Rs, "msg") = Len(qRtc')
    BY <1>a, <1>b, <2>2, <2>3, <2>4, <1>d
  <2>. QED  BY <2>w, <2>x, <2>y, <2>z, <1>e
<1>7. ASSUME RtcServerMsg PROVE OneTokenPerMessage'
  <2>1. Reads(Rs, "msg") /\ UNCHANGED <<qConn, qReply>>
    BY <1>7 DEF RtcServerMsg
  <2>2. qRtc # <<>>
    BY <1>a, <1>b, <1>c, <2>1, <1>b, <1>d
  <2> DEFINE m == Head(qRtc)
             v == Route(m)
  <2>3. /\ m \in Message /\ m = qRtc[1] /\ 1 \in 1 .. Len(qRtc)
        /\ Len(Tail(qRtc)) = Len(qRtc) - 1 /\ Len(qRtc) >= 1
    BY <1>b, <2>2, Taken
  <2>4. v \in RW /\ v \in Thread
    BY <2>3, RouteType DEF Known
  <2>5. qRtc' = Tail(qRtc) /\ qWork' = [qWork EXCEPT ![v] = Append(@, m)] /\ Owes(Rs, v, "msg")
    BY <1>7, <2>2 DEF RtcServerMsg
  <2> HIDE DEF m, v
  <2>6. /\ Len(qWork'[v]) = Len(qWork[v]) + 1
       /\ \A u \in RW : u # v => qWork'[u] = qWork[u]
    BY <1>b, <2>3, <2>4, <2>5, Appended DEF TypeOK
  <2>7. /\ Ints(pipe, owes, Rs, "msg") = Ints(pipe', owes', Rs, "msg") + 1
       /\ Ints(pipe', owes', v, "msg") = Ints(pipe, owes, v, "msg") + 1
       /\ \A x \in Thread, l \in Kind :
            /\ Ints(pipe', owes', x, l) \in Nat
            /\ ~(x = Rs /\ l = "msg") /\ ~(x = v /\ l = "msg") => Ints(pipe', owes', x, l) = Ints(pipe, owes, x, l)
    BY <1>a, <2>1, <2>4, <2>5, TokensPassed
  <2>8. ASSUME NEW y \in Workers, NEW l \in Kind PROVE Ints(pipe', owes', y, l) = Ints(pipe, owes, y, l)
    <3>1. y \in Thread /\ y # Rs /\ y # v
      BY <1>a, <2>4
    <3>. QED  BY <2>7, <3>1
  <2>w. \A y \in Workers : Ints(pipe', owes', y, "conn") = Len(qConn'[y])
    BY <1>a, <2>1, <2>8, <1>d
  <2>x. \A y \in Workers : Ints(pipe', owes', y, "msg") = Len(qReply'[y])
    BY <1>a, <2>1, <2>8, <1>d
  <2>y. \A y \in RW : Ints(pipe', owes', y, "msg") = Len(qWork'[y])
    <3>. SUFFICES ASSUME NEW y \in RW PROVE Ints(pipe', owes', y, "msg") = Len(qWork'[y])
      OBVIOUS
    <3>1. CASE y = v
      BY <3>1, <2>6, <2>7, <1>d
    <3>2. CASE y # v
      <4>1. y \in Thread /\ y # Rs /\ "msg" \in Kind
        BY <1>a
      <4>2. Ints(pipe', owes', y, "msg") = Ints(pipe, owes, y, "msg")
        BY <2>7, <3>2, <4>1
      <4>. QED  BY <4>2, <3>2, <2>6, <1>d
    <3>. QED  BY <3>1, <3>2
  <2>z. Ints(pipe', owes', Rs, "msg") = Len(qRtc')
    BY <1>a, <1>b, <2>1, <2>3, <2>4, <2>5, <2>6, <2>7, <1>d
  <2>. QED  BY <2>w, <2>x, <2>y, <2>z, <1>e
<1>8. ASSUME CertFails PROVE OneTokenPerMessage'
  <2>1. Reads(Rs, "msg") /\ UNCHANGED <<owes, qConn, qWork, qReply>> /\ qRtc # <<>> /\ qRtc' = Tail(qRtc)
    BY <1>8 DEF CertFails
  <2>2. Len(qRtc) = Len(qRtc') + 1 /\ Len(qRtc') \in Nat
    BY <1>b, <2>1, Taken
  <2>3. /\ Ints(pipe, owes, Rs, "msg") = Ints(pipe', owes', Rs, "msg") + 1
       /\ \A x \in Thread, l \in Kind :
            /\ Ints(pipe', owes', x, l) \in Nat
            /\ ~(x = Rs /\ l = "msg") => Ints(pipe', owes', x, l) = Ints(pipe, owes, x, l)
    BY <1>a, <2>1, TokensRead
  <2>w. \A y \in Workers : Ints(pipe', owes', y, "conn") = Len(qConn'[y])
    BY <1>a, <1>b, <2>1, <2>2, <2>3, <1>d
  <2>x. \A y \in Workers : Ints(pipe', owes', y, "msg") = Len(qReply'[y])
    BY <1>a, <1>b, <2>1, <2>2, <2>3, <1>d
  <2>y. \A y \in RW : Ints(pipe', owes', y, "msg") = Len(qWork'[y])
    BY <1>a, <1>b, <2>1, <2>2, <2>3, <1>d
  <2>z. Ints(pipe', owes', Rs, "msg") = Len(qRtc')
    BY <1>a, <1>b, <2>1, <2>2, <2>3, <1>d
  <2>. QED  BY <2>w, <2>x, <2>y, <2>z, <1>e
<1>9. ASSUME NEW v \in RW, RtcWorkerMsg(v) PROVE OneTokenPerMessage'
  <2>1. Reads(v, "msg") /\ UNCHANGED <<qConn, qRtc>>
    BY <1>9 DEF RtcWorkerMsg
  <2>2. qWork[v] # <<>>
    BY <1>a, <1>b, <1>c, <2>1, <1>b, <1>d
  <2> DEFINE m == Head(qWork[v])
  <2>3. m \in Message /\ qWork' = [qWork EXCEPT ![v] = Tail(@)]
    BY <1>9, <1>b, <2>2, Taken DEF RtcWorkerMsg
  <2>4. m.worker \in Workers \cup {None}
    BY <2>3, MessageType
  <2>5. /\ Len(qWork[v]) = Len(qWork'[v]) + 1 /\ Len(qWork'[v]) \in Nat
        /\ \A u \in RW : u # v => qWork'[u] = qWork[u]
    <3>1. /\ qWork'[v] = Tail(qWork[v])
          /\ \A u \in RW : u # v => qWork'[u] = qWork[u]
      BY <2>3 DEF TypeOK
    <3>2. Len(Tail(qWork[v])) = Len(qWork[v]) - 1 /\ Len(qWork[v]) >= 1
      BY <1>b, <2>2, Taken
    <3>. QED  BY <1>b, <3>1, <3>2
  <2>6. CASE m.worker = None
    <3>1. UNCHANGED <<qReply, owes>>
      BY <1>9, <2>2, <2>6 DEF RtcWorkerMsg
    <3>2. /\ Ints(pipe, owes, v, "msg") = Ints(pipe', owes', v, "msg") + 1
         /\ \A x \in Thread, l \in Kind :
              /\ Ints(pipe', owes', x, l) \in Nat
              /\ ~(x = v /\ l = "msg") => Ints(pipe', owes', x, l) = Ints(pipe, owes, x, l)
      BY <1>a, <2>1, <3>1, TokensRead
    <3>w. \A y \in Workers : Ints(pipe', owes', y, "conn") = Len(qConn'[y])
      BY <1>a, <1>b, <2>1, <2>5, <3>1, <3>2, <1>d
    <3>x. \A y \in Workers : Ints(pipe', owes', y, "msg") = Len(qReply'[y])
      BY <1>a, <1>b, <2>1, <2>5, <3>1, <3>2, <1>d
    <3>y. \A y \in RW : Ints(pipe', owes', y, "msg") = Len(qWork'[y])
      BY <1>a, <1>b, <2>1, <2>5, <3>1, <3>2, <1>d, SMTT(30)
    <3>z. Ints(pipe', owes', Rs, "msg") = Len(qRtc')
      BY <1>a, <1>b, <2>1, <2>5, <3>1, <3>2, <1>d
    <3>. QED  BY <3>w, <3>x, <3>y, <3>z, <1>e
  <2>7. CASE m.worker # None
    <3> DEFINE u == m.worker
    <3>1. /\ u \in Workers /\ u \in Thread
          /\ qReply' = [qReply EXCEPT ![u] = Append(@, m)] /\ Owes(v, u, "msg")
      BY <1>9, <1>a, <2>2, <2>4, <2>7 DEF RtcWorkerMsg
    <3> HIDE DEF m, u
    <3>2. /\ Len(qReply'[u]) = Len(qReply[u]) + 1
       /\ \A w \in Workers : w # u => qReply'[w] = qReply[w]
      BY <1>b, <2>3, <3>1, Appended DEF TypeOK
    <3>3. /\ Ints(pipe, owes, v, "msg") = Ints(pipe', owes', v, "msg") + 1
         /\ Ints(pipe', owes', u, "msg") = Ints(pipe, owes, u, "msg") + 1
         /\ \A x \in Thread, l \in Kind :
              /\ Ints(pipe', owes', x, l) \in Nat
              /\ ~(x = v /\ l = "msg") /\ ~(x = u /\ l = "msg") => Ints(pipe', owes', x, l) = Ints(pipe, owes, x, l)
      BY <1>a, <2>1, <3>1, TokensPassed
    <3>w. \A y \in Workers : Ints(pipe', owes', y, "conn") = Len(qConn'[y])
      <4>. SUFFICES ASSUME NEW y \in Workers PROVE Ints(pipe', owes', y, "conn") = Len(qConn'[y])
        OBVIOUS
      <4>1. y \in Thread /\ "conn" \in Kind /\ "conn" # "msg"
        BY <1>a
      <4>2. Ints(pipe', owes', y, "conn") = Ints(pipe, owes, y, "conn")
        BY <3>3, <4>1
      <4>. QED  BY <4>2, <1>d, <2>1
    <3>x. \A y \in Workers : Ints(pipe', owes', y, "msg") = Len(qReply'[y])
      <4>. SUFFICES ASSUME NEW y \in Workers PROVE Ints(pipe', owes', y, "msg") = Len(qReply'[y])
        OBVIOUS
      <4>1. y \in Thread /\ "msg" \in Kind /\ y # v
        BY <1>a
      <4>2. CASE y = u
        BY <4>2, <1>d, <3>2, <3>3
      <4>3. CASE y # u
        <5>1. Ints(pipe', owes', y, "msg") = Ints(pipe, owes, y, "msg")
          BY <3>3, <4>1, <4>3
        <5>. QED  BY <4>3, <5>1, <1>d, <3>2
      <4>. QED  BY <4>2, <4>3
    <3>y. \A y \in RW : Ints(pipe', owes', y, "msg") = Len(qWork'[y])
      <4>. SUFFICES ASSUME NEW y \in RW PROVE Ints(pipe', owes', y, "msg") = Len(qWork'[y])
        OBVIOUS
      <4>1. CASE y = v
        BY <4>1, <1>a, <1>b, <2>5, <3>3, <1>d
      <4>2. CASE y # v
        <5>1. y # u /\ y \in Thread
          BY <1>a, <3>1
        <5>. QED  BY <4>2, <5>1, <1>a, <1>b, <2>5, <3>3, <1>d
      <4>. QED  BY <4>1, <4>2
    <3>z. Ints(pipe', owes', Rs, "msg") = Len(qRtc')
      BY <1>a, <1>b, <2>1, <2>5, <3>1, <3>2, <3>3, <1>d
    <3>. QED  BY <3>w, <3>x, <3>y, <3>z, <1>e
  <2>. QED  BY <2>6, <2>7
<1>10. ASSUME NEW r \in Req, Connect(r) \/ SendRequest(r) \/ Leave(r) PROVE OneTokenPerMessage'
  BY <1>1, <1>10 DEF Connect, SendRequest, Leave, queueVars
<1>11. ASSUME NEW w \in Workers, NEW f \in Fd,
              ReadFails(w, f) \/ WriteReply(w, f) \/ WriteFails(w, f) \/ Timeout(w, f)
       PROVE  OneTokenPerMessage'
  BY <1>1, <1>11 DEF ReadFails, WriteReply, WriteFails, Timeout, queueVars
<1>12. ASSUME UNCHANGED vars PROVE OneTokenPerMessage'
  BY <1>1, <1>12 DEF vars, queueVars
<1>. QED
  BY <1>2, <1>3, <1>4, <1>5, <1>6, <1>7, <1>8, <1>9, <1>10, <1>11, <1>12
  DEF Next, ClientStep, ConnStep

\* OneTokenPerMessage: in every state each message in a queue has an int in the
\* receiver's pipe or a sender about to write it, and no int stands for nothing.
THEOREM EveryMessageHasItsToken == Spec => []OneTokenPerMessage
<1>1. Init => Base /\ OneTokenPerMessage
  BY InitBase, InitTokens
<1>2. Base /\ OneTokenPerMessage /\ [Next]_vars => (Base /\ OneTokenPerMessage)'
  BY BaseStep, TokenStep
<1>. QED  BY <1>1, <1>2, PTL DEF Spec

-----------------------------------------------------------------------------
(* Requests no worker has read: there are only ever fewer *)

LEMMA KeepsFresh ==
  ASSUME client' = client, backlog' = backlog, qConn' = qConn, sock' = sock,
         \A w \in Workers, f \in Fd :
           /\ conns'[w][f].addr = conns[w][f].addr
           /\ conns[w][f].asked => conns'[w][f].asked
  PROVE  Fresh' \subseteq Fresh
<1>. SUFFICES ASSUME NEW q \in Req, q \in Fresh' PROVE q \in Fresh
  BY DEF Fresh
<1>1. \A w \in Workers, f \in Fd : Open(w, f)' => Open(w, f)
  BY DEF Open
<1>. QED  BY <1>1 DEF Fresh

LEMMA FreshShrinks == ASSUME Base, [Next]_vars PROVE Fresh' \subseteq Fresh
<1>. USE DEF Base
<1>1. ASSUME client' = client, backlog' = backlog, qConn' = qConn, sock' = sock, conns' = conns
      PROVE  Fresh' \subseteq Fresh
  BY <1>1, KeepsFresh
<1>2. ASSUME NEW r \in Req, Connect(r) PROVE Fresh' \subseteq Fresh
  <2>. SUFFICES ASSUME NEW q \in Req, q \in Fresh' PROVE q \in Fresh
    BY DEF Fresh
  <2>1. CASE q = r
    BY <1>2, <2>1 DEF Connect, Fresh
  <2>2. CASE q # r
    <3>1. client'[q] = client[q] /\ UNCHANGED <<sock, qConn, conns>>
      BY <1>2, <2>2 DEF Connect, TypeOK, queueVars
    <3>2. \A i \in 1 .. Len(backlog') : backlog'[i] = q => \E j \in 1 .. Len(backlog) : backlog[j] = q
      <4>1. /\ Len(backlog) \in Nat /\ Len(backlog') = Len(backlog) + 1
            /\ backlog'[Len(backlog) + 1] = r
            /\ \A i \in 1 .. Len(backlog) : backlog'[i] = backlog[i]
        BY <1>2, Appended DEF Connect, TypeOK
      <4>. QED  BY <2>2, <4>1
    <3>. QED  BY <3>1, <3>2 DEF Fresh, Open
  <2>. QED  BY <2>1, <2>2
<1>3. ASSUME NEW r \in Req, SendRequest(r) \/ Leave(r) PROVE Fresh' \subseteq Fresh
  <2>. SUFFICES ASSUME NEW q \in Req, q \in Fresh' PROVE q \in Fresh
    BY DEF Fresh
  <2>1. /\ UNCHANGED <<sock, qConn, conns, backlog>>
        /\ client'[q] = "idle" => client[q] = "idle"
    BY <1>3 DEF SendRequest, Leave, TypeOK, queueVars, kernelVars
  <2>. QED  BY <2>1 DEF Fresh, Open
<1>4. ASSUME Accept PROVE Fresh' \subseteq Fresh
  <2>. SUFFICES ASSUME NEW q \in Req, q \in Fresh', q \notin Fresh PROVE FALSE
    BY DEF Fresh
  <2>1. PICK v \in Workers, f \in Fd :
         /\ 1 \in 1 .. Len(backlog)
         /\ \A w \in Workers : ~Open(w, f)
         /\ \A g \in Fd : sock'[g] = IF g = f THEN backlog[1] ELSE sock[g]
         /\ \A w \in Workers : \A i \in 1 .. Len(qConn'[w]) :
              \/ /\ i \in 1 .. Len(qConn[w]) /\ qConn'[w][i] = qConn[w][i]
                 /\ qConn'[w][i] # f /\ qConn'[w][i] \in Fd
              \/ w = v /\ i = Len(qConn[v]) + 1 /\ qConn'[w][i] = f
    BY <1>4, AcceptEffect
  <2>2. UNCHANGED <<client, conns>> /\ backlog' = Tail(backlog) /\ backlog # <<>>
    BY <1>4 DEF Accept, clientVars
  <2>3. ASSUME NEW i \in 1 .. Len(backlog'), backlog'[i] = q PROVE FALSE
    <3>1. i + 1 \in 1 .. Len(backlog) /\ backlog[i + 1] = q
      BY <2>2, <2>3, Taken DEF TypeOK
    <3>. QED  BY <3>1 DEF Fresh
  <2>4. ASSUME NEW w \in Workers, NEW i \in 1 .. Len(qConn'[w]), sock'[qConn'[w][i]] = q PROVE FALSE
    <3>1. CASE qConn'[w][i] = f
      BY <2>1, <2>4, <3>1 DEF Fresh
    <3>2. CASE qConn'[w][i] # f
      BY <2>1, <2>4, <3>2 DEF Fresh
    <3>. QED  BY <3>1, <3>2
  <2>5. ASSUME NEW w \in Workers, NEW g \in Fd, conns[w][g].addr # None, ~conns[w][g].asked, sock'[g] = q
        PROVE  FALSE
    <3>1. Open(w, g)
      BY <2>5 DEF Open
    <3>2. g # f
      BY <2>1, <3>1
    <3>. QED  BY <2>1, <2>5, <3>1, <3>2 DEF Fresh
  <2>. QED  BY <2>2, <2>3, <2>4, <2>5 DEF Fresh, Open
<1>5. ASSUME NEW v \in Workers, NewConn(v), ~(qConn' = qConn /\ conns' = conns) PROVE Fresh' \subseteq Fresh
  <2>. SUFFICES ASSUME NEW q \in Req, q \in Fresh', q \notin Fresh PROVE FALSE
    BY DEF Fresh
  <2>1. PICK f \in Fd, c \in Connection :
           /\ c.addr # None /\ c.asked = FALSE /\ c.replies = <<>> /\ Becomes(v, f, c)
           /\ \A u \in Workers, g \in Fd : Open(u, g)' <=> Open(u, g) \/ (u = v /\ g = f)
           /\ 1 \in 1 .. Len(qConn[v]) /\ qConn[v][1] = f
           /\ \A w \in Workers : \A i \in 1 .. Len(qConn[w]) : qConn[w][i] \in Fd
           /\ \A w \in Workers : \A i \in 1 .. Len(qConn'[w]) :
                \E j \in 1 .. Len(qConn[w]) :
                  /\ qConn'[w][i] = qConn[w][j] /\ qConn'[w][i] # f
                  /\ i \in Nat /\ j = IF w = v THEN i + 1 ELSE i
           /\ \A w \in Workers : \A j \in 1 .. Len(qConn[w]) : qConn[w][j] # f =>
                \E i \in 1 .. Len(qConn'[w]) : qConn'[w][i] = qConn[w][j]
    BY <1>5, NewConnMoves
  <2>2. UNCHANGED <<client, sock, backlog>>
    BY <1>5 DEF NewConn, clientVars, kernelVars
  <2>3. sock[f] # q
    BY <2>1 DEF Fresh
  <2>4. ASSUME NEW w \in Workers, NEW i \in 1 .. Len(qConn'[w]), sock[qConn'[w][i]] = q PROVE FALSE
    <3>1. PICK j \in 1 .. Len(qConn[w]) : qConn'[w][i] = qConn[w][j] /\ j = IF w = v THEN i + 1 ELSE i
      BY <2>1
    <3>. QED  BY <2>4, <3>1 DEF Fresh
  <2>5. ASSUME NEW w \in Workers, NEW g \in Fd, conns'[w][g].addr # None, ~conns'[w][g].asked, sock[g] = q
        PROVE  FALSE
    <3>1. g # f
      BY <2>3, <2>5
    <3>2. conns'[w][g] = conns[w][g]
      BY <2>1, <3>1 DEF Becomes
    <3>. QED  BY <2>5, <3>2 DEF Fresh, Open
  <2>. QED  BY <2>2, <2>4, <2>5 DEF Fresh, Open
<1>6. ASSUME NEW v \in Workers, NewConn(v) PROVE Fresh' \subseteq Fresh
  BY <1>1, <1>5, <1>6 DEF NewConn, clientVars, kernelVars
<1>7. ASSUME NEW w \in Workers, RtcMsgBack(w) PROVE Fresh' \subseteq Fresh
  <2>1. UNCHANGED <<client, sock, backlog, qConn>>
    BY <1>7 DEF RtcMsgBack, clientVars, kernelVars
  <2>2. \A u \in Workers, g \in Fd : /\ conns'[u][g].addr = conns[u][g].addr
                                     /\ conns[u][g].asked => conns'[u][g].asked
    BY <1>7, RtcMsgBackEffect DEF Becomes
  <2>. QED  BY <2>1, <2>2, KeepsFresh
<1>8. ASSUME NEW w \in Workers, NEW f \in Fd, ReadRequest(w, f) PROVE Fresh' \subseteq Fresh
  <2>1. UNCHANGED <<client, sock, backlog, qConn>> /\ sock[f] \in Req
    BY <1>8, OpenHasClient DEF ReadRequest, clientVars, kernelVars
  <2>2. \A u \in Workers, g \in Fd : /\ conns'[u][g].addr = conns[u][g].addr
                                     /\ conns[u][g].asked => conns'[u][g].asked
    <3>1. PICK c \in Connection : c.addr = conns[w][f].addr /\ c.asked = TRUE /\ Becomes(w, f, c)
      BY <1>8, <2>1, ReadRequestEffect
    <3>. QED  BY <3>1 DEF Becomes
  <2>. QED  BY <2>1, <2>2, KeepsFresh
<1>9. ASSUME NEW w \in Workers, NEW f \in Fd, WriteReply(w, f) PROVE Fresh' \subseteq Fresh
  <2>1. UNCHANGED <<client, sock, backlog, qConn>>
    BY <1>9 DEF WriteReply, kernelVars, queueVars
  <2>2. \A u \in Workers, g \in Fd : /\ conns'[u][g].addr = conns[u][g].addr
                                     /\ conns[u][g].asked => conns'[u][g].asked
    BY <1>9, WriteReplyEffect DEF Becomes
  <2>. QED  BY <2>1, <2>2, KeepsFresh
<1>10. ASSUME NEW w \in Workers, NEW f \in Fd, ReadFails(w, f) \/ Timeout(w, f) \/ WriteFails(w, f)
       PROVE  Fresh' \subseteq Fresh
  <2>. SUFFICES ASSUME NEW q \in Req, q \in Fresh', q \notin Fresh PROVE FALSE
    BY DEF Fresh
  <2>1. /\ UNCHANGED <<client, backlog, qConn>>
        /\ \A g \in Fd : sock'[g] = IF g = f THEN None ELSE sock[g]
        /\ Becomes(w, f, NoConn)
    BY <1>10, CloseEffect DEF ReadFails, Timeout, WriteFails, clientVars, queueVars, TypeOK
  <2>2. \A u \in Workers : \A i \in 1 .. Len(qConn[u]) : qConn[u][i] \in Fd
    BY Elements DEF TypeOK
  <2>3. q # None
    BY Constants
  <2>4. ASSUME NEW u \in Workers, NEW g \in Fd, conns'[u][g].addr # None, ~conns'[u][g].asked, sock'[g] = q
        PROVE  FALSE
    <3>1. g # f
      BY <2>1, <2>3, <2>4
    <3>. QED  BY <2>1, <2>4, <3>1 DEF Fresh, Open, Becomes
  <2>5. ASSUME NEW u \in Workers, NEW i \in 1 .. Len(qConn[u]), sock'[qConn[u][i]] = q PROVE FALSE
    BY <2>1, <2>2, <2>3, <2>5 DEF Fresh
  <2>. QED  BY <2>1, <2>4, <2>5 DEF Fresh, Open
<1>11. ASSUME NEW t \in Thread, Notify(t) PROVE Fresh' \subseteq Fresh
  BY <1>1, <1>11 DEF Notify, clientVars, kernelVars, queueVars
<1>12. ASSUME RtcServerMsg \/ CertFails PROVE Fresh' \subseteq Fresh
  BY <1>1, <1>12 DEF RtcServerMsg, CertFails, clientVars, kernelVars
<1>13. ASSUME NEW v \in RW, RtcWorkerMsg(v) PROVE Fresh' \subseteq Fresh
  BY <1>1, <1>13 DEF RtcWorkerMsg, clientVars, kernelVars
<1>14. ASSUME UNCHANGED vars PROVE Fresh' \subseteq Fresh
  BY <1>1, <1>14 DEF vars, clientVars, kernelVars, queueVars
<1>. QED
  BY <1>2, <1>3, <1>4, <1>6, <1>7, <1>8, <1>9, <1>10, <1>11, <1>12, <1>13, <1>14
  DEF Next, ClientStep, ConnStep

\* A request is read once.
LEMMA ReadOnce ==
  ASSUME Base, NEW w \in Workers, NEW f \in Fd, ReadRequest(w, f)
  PROVE  sock[f] \in Fresh /\ sock[f] \notin Fresh'
<1>. USE DEF Base
<1>1. /\ UNCHANGED <<client, sock, backlog, qConn>> /\ sock[f] \in Req /\ sock[f] # None
      /\ Open(w, f) /\ ~conns[w][f].asked
  BY OpenHasClient DEF ReadRequest, clientVars, kernelVars
<1>2. sock[f] \in Fresh
  BY <1>1 DEF Fresh
<1>3. PICK c \in Connection : c.addr = conns[w][f].addr /\ c.asked = TRUE /\ Becomes(w, f, c)
  BY <1>1, ReadRequestEffect
<1>4. /\ client[sock[f]] # "idle"
      /\ \A i \in 1 .. Len(backlog) : backlog[i] # sock[f]
  BY <1>1 DEF OnePlace
<1>5. ASSUME NEW u \in Workers, NEW i \in 1 .. Len(qConn[u]) PROVE sock[qConn[u][i]] # sock[f]
  <2>1. qConn[u][i] \in Fd
    BY Elements DEF TypeOK
  <2>2. qConn[u][i] # f
    BY <1>1 DEF Ownership
  <2>. QED  BY <1>1, <2>1, <2>2 DEF OnePlace
<1>6. ASSUME NEW u \in Workers, NEW g \in Fd, conns'[u][g].addr # None, sock[g] = sock[f]
      PROVE  conns'[u][g].asked
  <2>1. g = f
    BY <1>1, <1>6 DEF OnePlace
  <2>2. Open(u, g)
    BY <1>3, <1>6 DEF Becomes, Open
  <2>3. u = w
    BY <1>1, <2>1, <2>2 DEF Ownership
  <2>. QED  BY <1>3, <2>1, <2>3 DEF Becomes
<1>. QED  BY <1>1, <1>2, <1>4, <1>5, <1>6 DEF Fresh, Open

-----------------------------------------------------------------------------
(* Messages in queues *)

LEMMA HasAppend ==
  ASSUME NEW s \in Seq(Message), NEW m \in Message, NEW q
  PROVE  Has(Append(s, m), q) <=> Has(s, q) \/ q = m.req
<1>1. /\ Len(s) \in Nat /\ Len(Append(s, m)) = Len(s) + 1
      /\ \A i \in 1 .. Len(s) : Append(s, m)[i] = s[i]
      /\ Append(s, m)[Len(s) + 1] = m
  BY Appended
<1>2. 1 .. Len(Append(s, m)) = (1 .. Len(s)) \cup {Len(s) + 1}
  BY <1>1
<1>3. ASSUME Has(s, q) \/ q = m.req PROVE Has(Append(s, m), q)
  <2>1. CASE q = m.req
    BY <1>1, <1>2, <2>1 DEF Has
  <2>2. CASE Has(s, q)
    BY <1>1, <1>2, <2>2 DEF Has
  <2>. QED  BY <1>3, <2>1, <2>2
<1>4. ASSUME Has(Append(s, m), q) PROVE Has(s, q) \/ q = m.req
  <2>1. PICK i \in 1 .. Len(Append(s, m)) : Append(s, m)[i].req = q
    BY <1>4 DEF Has
  <2>2. CASE i \in 1 .. Len(s)
    BY <1>1, <2>1, <2>2 DEF Has
  <2>3. CASE i = Len(s) + 1
    BY <1>1, <2>1, <2>3
  <2>. QED  BY <1>2, <2>2, <2>3
<1>. QED  BY <1>3, <1>4

LEMMA HasTail ==
  ASSUME NEW s \in Seq(Message), s # <<>>, NEW q
  PROVE  Has(s, q) <=> Has(Tail(s), q) \/ q = Head(s).req
<1>1. /\ Len(s) \in Nat /\ Len(s) >= 1 /\ Len(Tail(s)) = Len(s) - 1 /\ Head(s) = s[1]
      /\ \A i \in 1 .. Len(s) - 1 : Tail(s)[i] = s[i + 1]
  BY Taken
<1>2. ASSUME Has(Tail(s), q) \/ q = Head(s).req PROVE Has(s, q)
  <2>1. CASE q = Head(s).req
    <3>1. 1 \in 1 .. Len(s) /\ s[1].req = q
      BY <1>1, <2>1
    <3>. QED  BY <3>1 DEF Has
  <2>2. CASE Has(Tail(s), q)
    <3>1. PICK i \in 1 .. Len(s) - 1 : Tail(s)[i].req = q
      BY <1>1, <2>2 DEF Has
    <3>2. i + 1 \in 1 .. Len(s) /\ s[i + 1].req = q
      BY <1>1, <3>1
    <3>. QED  BY <3>2 DEF Has
  <2>. QED  BY <1>2, <2>1, <2>2
<1>3. ASSUME Has(s, q) PROVE Has(Tail(s), q) \/ q = Head(s).req
  <2>1. PICK i \in 1 .. Len(s) : s[i].req = q
    BY <1>3 DEF Has
  <2>2. CASE i = 1
    BY <1>1, <2>1, <2>2
  <2>3. CASE i # 1
    <3>1. i - 1 \in 1 .. Len(Tail(s)) /\ Tail(s)[i - 1] = s[i]
      BY <1>1, <2>3
    <3>. QED  BY <2>1, <3>1 DEF Has
  <2>. QED  BY <2>2, <2>3
<1>. QED  BY <1>2, <1>3

LEMMA OnceAppend ==
  ASSUME NEW s \in Seq(Message), NEW m \in Message, OnceEach(s), ~Has(s, m.req)
  PROVE  OnceEach(Append(s, m))
<1>1. /\ Len(s) \in Nat /\ Len(Append(s, m)) = Len(s) + 1
      /\ \A i \in 1 .. Len(s) : Append(s, m)[i] = s[i]
      /\ Append(s, m)[Len(s) + 1] = m
  BY Appended
<1>2. \A i \in 1 .. Len(s) : s[i].req # m.req
  BY DEF Has
<1>3. \A i, j \in 1 .. Len(s) : s[i].req = s[j].req => i = j
  BY DEF OnceEach
<1>. QED  BY <1>1, <1>2, <1>3 DEF OnceEach

LEMMA OnceTail ==
  ASSUME NEW s \in Seq(Message), s # <<>>, OnceEach(s)
  PROVE  OnceEach(Tail(s)) /\ ~Has(Tail(s), Head(s).req)
<1>1. /\ Len(s) \in Nat /\ Len(s) >= 1 /\ Len(Tail(s)) = Len(s) - 1 /\ Head(s) = s[1]
      /\ \A i \in 1 .. Len(s) - 1 : Tail(s)[i] = s[i + 1]
  BY Taken
<1>2. \A i, j \in 1 .. Len(s) : s[i].req = s[j].req => i = j
  BY DEF OnceEach
<1>3. ASSUME NEW i \in 1 .. Len(Tail(s)), NEW j \in 1 .. Len(Tail(s)), Tail(s)[i].req = Tail(s)[j].req
      PROVE  i = j
  <2>1. i + 1 \in 1 .. Len(s) /\ j + 1 \in 1 .. Len(s) /\ s[i + 1].req = s[j + 1].req
    BY <1>1, <1>3
  <2>2. i + 1 = j + 1
    BY <1>2, <2>1
  <2>. QED  BY <2>2, <1>1
<1>4. ASSUME NEW i \in 1 .. Len(Tail(s)), Tail(s)[i].req = s[1].req PROVE FALSE
  <2>1. i + 1 \in 1 .. Len(s) /\ 1 \in 1 .. Len(s) /\ s[i + 1].req = s[1].req
    BY <1>1, <1>4
  <2>2. i + 1 = 1
    BY <1>2, <2>1
  <2>. QED  BY <2>2, <1>1
<1>. QED  BY <1>1, <1>3, <1>4 DEF OnceEach, Has

\* The elements of a queue after a step
LEMMA InAppend ==
  ASSUME NEW s \in Seq(Message), NEW m \in Message
  PROVE  \A i \in 1 .. Len(Append(s, m)) :
           \/ i \in 1 .. Len(s) /\ Append(s, m)[i] = s[i]
           \/ Append(s, m)[i] = m
<1>1. /\ Len(s) \in Nat /\ Len(Append(s, m)) = Len(s) + 1
      /\ \A i \in 1 .. Len(s) : Append(s, m)[i] = s[i]
      /\ Append(s, m)[Len(s) + 1] = m
  BY Appended
<1>. QED  BY <1>1

LEMMA InTail ==
  ASSUME NEW s \in Seq(Message), s # <<>>
  PROVE  /\ 1 \in 1 .. Len(s) /\ Head(s) = s[1] /\ Head(s) \in Message
         /\ \A i \in 1 .. Len(Tail(s)) : i + 1 \in 1 .. Len(s) /\ Tail(s)[i] = s[i + 1]
<1>1. /\ Len(s) \in Nat /\ Len(s) >= 1 /\ Len(Tail(s)) = Len(s) - 1 /\ Head(s) = s[1]
      /\ \A i \in 1 .. Len(s) - 1 : Tail(s)[i] = s[i + 1] /\ Head(s) \in Message
  BY Taken
<1>2. Head(s) \in Message
  BY Taken
<1>. QED  BY <1>1, <1>2

-----------------------------------------------------------------------------
(* The steps that move a message *)

\* RtcServer and a worker take a message and hand it on.
LEMMA RouteEffect ==
  ASSUME Base, RtcServerMsg
  PROVE  /\ UNCHANGED <<cmd, seen, got, applied, dropped, qReply, conns, client, sock, backlog, qConn>>
         /\ \/ UNCHANGED <<qRtc, qWork>>
            \/ \E m \in Message, v \in RW :
                 /\ qRtc # <<>> /\ m = Head(qRtc) /\ v = Route(m) /\ m.req \in Req
                 /\ qRtc' = Tail(qRtc)
                 /\ qWork'[v] = Append(qWork[v], m)
                 /\ \A u \in RW : u # v => qWork'[u] = qWork[u]
<1>1. UNCHANGED <<cmd, seen, got, applied, dropped, qReply, conns, client, sock, backlog, qConn>>
  BY DEF RtcServerMsg, clientVars, historyVars, kernelVars
<1>2. CASE qRtc = <<>>
  BY <1>1, <1>2 DEF RtcServerMsg
<1>3. CASE qRtc # <<>>
  <2>1. qRtc \in Seq(Message) /\ qWork \in [RW -> Seq(Message)]
    BY DEF Base, TypeOK
  <2>2. Head(qRtc) \in Message /\ 1 \in 1 .. Len(qRtc) /\ Head(qRtc) = qRtc[1]
    BY <1>3, <2>1, InTail
  <2>3. Head(qRtc).req \in Req /\ cmd[Head(qRtc).req] # None
    BY <2>2, MessageType DEF Base, Known
  <2>4. Route(Head(qRtc)) \in RW
    BY <2>2, <2>3, RouteType DEF Base
  <2> DEFINE m == Head(qRtc)
             v == Route(m)
  <2>5. /\ qRtc' = Tail(qRtc) /\ qWork' = [qWork EXCEPT ![v] = Append(@, m)]
    BY <1>3 DEF RtcServerMsg
  <2>6. m \in Message /\ v \in RW /\ m.req \in Req
    BY <2>2, <2>3, <2>4
  <2> HIDE DEF m, v
  <2>7. qWork'[v] = Append(qWork[v], m) /\ \A u \in RW : u # v => qWork'[u] = qWork[u]
    BY <2>1, <2>5, <2>6
  <2>. QED  BY <1>1, <1>3, <2>5, <2>6, <2>7 DEF m, v
<1>. QED  BY <1>2, <1>3

\* An RtcWorker takes a message out of its queue,
Takes(v, m) ==
  /\ qWork[v] # <<>> /\ m = Head(qWork[v]) /\ m.req \in Req
  /\ qWork'[v] = Tail(qWork[v])
  /\ \A u \in RW : u # v => qWork'[u] = qWork[u]

\* and gives it back to the signaling worker that waits for an offer.
Returns(m) ==
  \/ m.worker = None /\ qReply' = qReply
  \/ /\ m.worker # None /\ m.worker \in Workers
     /\ qReply'[m.worker] = Append(qReply[m.worker], m)
     /\ \A w \in Workers : w # m.worker => qReply'[w] = qReply[w]

LEMMA ApplyEffect ==
  ASSUME Base, NEW v \in RW, RtcWorkerMsg(v)
  PROVE  /\ UNCHANGED <<cmd, seen, got, dropped, qRtc, conns, client, sock, backlog, qConn>>
         /\ \/ UNCHANGED <<qWork, qReply, applied>>
            \/ \E m \in Message : Takes(v, m) /\ Returns(m) /\ applied' = applied \cup {m.req}
<1>1. UNCHANGED <<cmd, seen, got, dropped, qRtc, conns, client, sock, backlog, qConn>>
  BY DEF RtcWorkerMsg, clientVars, historyVars, kernelVars
<1>2. CASE qWork[v] = <<>>
  BY <1>1, <1>2 DEF RtcWorkerMsg
<1>3. CASE qWork[v] # <<>>
  <2>1. qReply \in [Workers -> Seq(Message)] /\ qWork \in [RW -> Seq(Message)]
    BY DEF Base, TypeOK
  <2>2. Head(qWork[v]) \in Message
    BY <1>3, <2>1, InTail
  <2>3. Head(qWork[v]).req \in Req /\ Head(qWork[v]).worker \in Workers \cup {None}
    BY <2>2, MessageType
  <2> DEFINE m == Head(qWork[v])
  <2>4. /\ qWork' = [qWork EXCEPT ![v] = Tail(@)]
        /\ applied' = applied \cup {m.req}
        /\ \/ m.worker = None /\ qReply' = qReply
           \/ m.worker # None /\ qReply' = [qReply EXCEPT ![m.worker] = Append(@, m)]
    BY <1>3 DEF RtcWorkerMsg
  <2>5. m \in Message /\ m.req \in Req /\ m.worker \in Workers \cup {None}
    BY <2>2, <2>3
  <2> HIDE DEF m
  <2>6. qWork'[v] = Tail(qWork[v]) /\ \A u \in RW : u # v => qWork'[u] = qWork[u]
    BY <2>1, <2>4
  <2>7. \/ m.worker = None /\ qReply' = qReply
        \/ /\ m.worker # None /\ m.worker \in Workers
           /\ qReply'[m.worker] = Append(qReply[m.worker], m)
           /\ \A w \in Workers : w # m.worker => qReply'[w] = qReply[w]
    BY <2>1, <2>4, <2>5
  <2>8. Takes(v, m)
    BY <1>3, <2>5, <2>6 DEF Takes, m
  <2>9. Returns(m)
    BY <2>7 DEF Returns
  <2>. QED  BY <1>1, <2>4, <2>5, <2>8, <2>9
<1>. QED  BY <1>2, <1>3

\* Every other step but ReadRequest and CertFails leaves the queues on the way
\* to the RtcWorkers alone.
LEMMA QueuesKept ==
  ASSUME [Next]_vars, ~RtcServerMsg, ~CertFails, \A v \in RW : ~RtcWorkerMsg(v),
         \A w \in Workers, f \in Fd : ~ReadRequest(w, f)
  PROVE  UNCHANGED <<qRtc, qWork, applied, dropped>>
<1>5. ASSUME NEW r \in Req, Connect(r) \/ SendRequest(r) \/ Leave(r) PROVE UNCHANGED <<qRtc, qWork, applied, dropped>>
  BY <1>5 DEF Connect, SendRequest, Leave, queueVars, historyVars
<1>6. ASSUME NEW w \in Workers, NewConn(w) \/ RtcMsgBack(w) PROVE UNCHANGED <<qRtc, qWork, applied, dropped>>
  BY <1>6 DEF NewConn, RtcMsgBack, historyVars
<1>7. ASSUME NEW w \in Workers, NEW f \in Fd,
             ReadFails(w, f) \/ WriteReply(w, f) \/ WriteFails(w, f) \/ Timeout(w, f)
      PROVE  UNCHANGED <<qRtc, qWork, applied, dropped>>
  BY <1>7 DEF ReadFails, WriteReply, WriteFails, Timeout, queueVars, historyVars
<1>8. ASSUME NEW t \in Thread, Notify(t) PROVE UNCHANGED <<qRtc, qWork, applied, dropped>>
  BY <1>8 DEF Notify, queueVars, historyVars
<1>10. ASSUME Accept \/ UNCHANGED vars PROVE UNCHANGED <<qRtc, qWork, applied, dropped>>
  BY <1>10 DEF Accept, vars, queueVars, historyVars
<1>. QED
  BY <1>5, <1>6, <1>7, <1>8, <1>10 DEF Next, ClientStep, ConnStep

\* The same of the queues on the way back, and RtcMsgBack.
LEMMA RepliesKept ==
  ASSUME [Next]_vars, \A v \in RW : ~RtcWorkerMsg(v), \A w \in Workers : ~RtcMsgBack(w)
  PROVE  qReply' = qReply
<1>5. ASSUME NEW r \in Req, Connect(r) \/ SendRequest(r) \/ Leave(r) PROVE qReply' = qReply
  BY <1>5 DEF Connect, SendRequest, Leave, queueVars
<1>6. ASSUME NEW w \in Workers, NewConn(w) PROVE qReply' = qReply
  BY <1>6 DEF NewConn
<1>7. ASSUME NEW w \in Workers, NEW f \in Fd,
             ReadRequest(w, f) \/ ReadFails(w, f) \/ WriteReply(w, f) \/ WriteFails(w, f) \/ Timeout(w, f)
      PROVE  qReply' = qReply
  BY <1>7 DEF ReadRequest, ReadFails, WriteReply, WriteFails, Timeout, queueVars
<1>8. ASSUME NEW t \in Thread, Notify(t) PROVE qReply' = qReply
  BY <1>8 DEF Notify, queueVars
<1>9. ASSUME RtcServerMsg \/ CertFails PROVE qReply' = qReply
  BY <1>9 DEF RtcServerMsg, CertFails
<1>10. ASSUME Accept \/ UNCHANGED vars PROVE qReply' = qReply
  BY <1>10 DEF Accept, vars, queueVars
<1>. QED
  BY <1>5, <1>6, <1>7, <1>8, <1>9, <1>10 DEF Next, ClientStep, ConnStep

\* CertFails drops the first message of RtcServer's queue.
LEMMA CertEffect ==
  ASSUME Base, CertFails
  PROVE  /\ UNCHANGED <<cmd, seen, got, applied, qWork, qReply, conns, client, sock, backlog, qConn>>
         /\ \E m \in Message :
              /\ qRtc # <<>> /\ m = Head(qRtc) /\ m.req \in Req
              /\ qRtc' = Tail(qRtc)
              /\ dropped' = dropped \cup {m.req}
<1>1. UNCHANGED <<cmd, seen, got, applied, qWork, qReply, conns, client, sock, backlog, qConn>>
  BY DEF CertFails, clientVars, kernelVars
<1>2. Head(qRtc) \in Message
  BY InTail DEF CertFails, Base, TypeOK
<1>. QED  BY <1>1, <1>2, MessageType DEF CertFails

\* What RtcMsgBack does to the queues
LEMMA BackEffect ==
  ASSUME Base, NEW w \in Workers, RtcMsgBack(w)
  PROVE  /\ UNCHANGED <<cmd, seen, got, applied, dropped, qRtc, qWork, client, sock, backlog, qConn>>
         /\ \A u \in Workers : u # w => qReply'[u] = qReply[u]
         /\ \/ qReply'[w] = qReply[w]
            \/ qReply[w] # <<>> /\ qReply'[w] = Tail(qReply[w])
<1>1. UNCHANGED <<cmd, seen, got, applied, dropped, qRtc, qWork, client, sock, backlog, qConn>>
  BY DEF RtcMsgBack, clientVars, kernelVars, historyVars
<1>2. qReply \in [Workers -> Seq(Message)]
  BY DEF Base, TypeOK
<1>. QED  BY <1>1, <1>2 DEF RtcMsgBack

-----------------------------------------------------------------------------
(* MessageInv *)

LEMMA SoundKept ==
  ASSUME Base, [Next]_vars, NEW m \in Message, SoundMsg(m)
  PROVE  cmd'[m.req] = cmd[m.req] /\ m.req \notin Fresh' /\ m.req \in Req
BY MessageType, CmdKept, FreshShrinks DEF SoundMsg

LEMMA SoundStep == Base /\ MessageInv /\ [Next]_vars => SoundQueues'
<1>. SUFFICES ASSUME Base, SoundQueues, OneMessage, [Next]_vars PROVE SoundQueues'
  BY DEF MessageInv
<1>. DEFINE Sound(m) == /\ cmd'[m.req] # None
                        /\ m.req \notin Fresh'
                        /\ m.worker # None => /\ cmd'[m.req][1] = "offer"
                                              /\ m.conn # None /\ m.fd # None
            Rtc == \A i \in 1 .. Len(qRtc') : Sound(qRtc'[i])
            Work == \A v \in RW : \A i \in 1 .. Len(qWork'[v]) :
                      /\ Sound(qWork'[v][i])
                      /\ HashOf[cmd'[qWork'[v][i].req][2]] = v
            Reply == \A w \in Workers : \A i \in 1 .. Len(qReply'[w]) :
                       /\ Sound(qReply'[w][i])
                       /\ qReply'[w][i].worker = w
                       /\ qReply'[w][i].req \in applied'
            Unread == \A q \in Fresh' : q \notin applied' \cup dropped'
<1>a. \A m \in Message : SoundMsg(m) => Sound(m) /\ cmd'[m.req] = cmd[m.req]
  BY SoundKept DEF SoundMsg
<1>b. /\ qRtc \in Seq(Message)
      /\ \A v \in RW : qWork[v] \in Seq(Message)
      /\ \A w \in Workers : qReply[w] \in Seq(Message)
  BY DEF Base, TypeOK
<1>c. /\ \A i \in 1 .. Len(qRtc) : qRtc[i] \in Message
      /\ \A v \in RW : \A i \in 1 .. Len(qWork[v]) : qWork[v][i] \in Message
      /\ \A w \in Workers : \A i \in 1 .. Len(qReply[w]) : qReply[w][i] \in Message
  BY <1>b, Messages
<1>d. /\ \A i \in 1 .. Len(qRtc) : SoundMsg(qRtc[i])
      /\ \A v \in RW : \A i \in 1 .. Len(qWork[v]) :
           SoundMsg(qWork[v][i]) /\ HashOf[cmd[qWork[v][i].req][2]] = v
      /\ \A w \in Workers : \A i \in 1 .. Len(qReply[w]) :
           SoundMsg(qReply[w][i]) /\ qReply[w][i].worker = w /\ qReply[w][i].req \in applied
      /\ \A q \in Fresh : q \notin applied \cup dropped
  BY DEF SoundQueues, Route, Done
<1>e. Fresh' \subseteq Fresh
  BY FreshShrinks
<1>1. ASSUME qRtc' = qRtc PROVE Rtc
  BY <1>1, <1>a, <1>c, <1>d
<1>2. ASSUME NEW v \in RW, qWork'[v] = qWork[v], NEW i \in 1 .. Len(qWork'[v])
      PROVE  Sound(qWork'[v][i]) /\ HashOf[cmd'[qWork'[v][i].req][2]] = v
  BY <1>2, <1>a, <1>c, <1>d
<1>3. ASSUME NEW w \in Workers, qReply'[w] = qReply[w], applied \subseteq applied', NEW i \in 1 .. Len(qReply'[w])
      PROVE  Sound(qReply'[w][i]) /\ qReply'[w][i].worker = w /\ qReply'[w][i].req \in applied'
  BY <1>3, <1>a, <1>c, <1>d
<1>4. ASSUME applied' = applied, dropped' = dropped PROVE Unread
  BY <1>4, <1>d, <1>e
<1>5. ASSUME qRtc # <<>>, qRtc' = Tail(qRtc) PROVE Rtc
  <2>1. \A i \in 1 .. Len(qRtc') : i + 1 \in 1 .. Len(qRtc) /\ qRtc'[i] = qRtc[i + 1]
    BY <1>5, <1>b, InTail
  <2>. QED  BY <2>1, <1>a, <1>c, <1>d
<1>6. ASSUME Rtc, Work, Reply, Unread PROVE SoundQueues'
  BY <1>6 DEF SoundQueues, SoundMsg, Done, Route
<1>. HIDE DEF Rtc, Work, Reply, Unread
<1>7. ASSUME NEW w \in Workers, NEW f \in Fd, ReadRequest(w, f) PROVE SoundQueues'
  <2>1. UNCHANGED <<cmd, qWork, qReply, applied, dropped>>
    BY <1>7 DEF ReadRequest, clientVars, historyVars
  <2>2. PICK m \in Message :
          /\ qRtc' = Append(qRtc, m)
          /\ m.req = sock[f]
          /\ m.worker # None => cmd[m.req][1] = "offer" /\ m.conn # None /\ m.fd # None
          /\ owes' = [owes EXCEPT ![w] = <<Rs, "msg">>]
    BY <1>7, ReadMessage DEF Base
  <2>3. Sound(m)
    <3>1. cmd[sock[f]] # None /\ sock[f] \notin Fresh'
      BY <1>7, ReadOnce DEF ReadRequest
    <3>. QED  BY <2>1, <2>2, <3>1
  <2>4. Rtc
    <3>1. \A i \in 1 .. Len(qRtc') : \/ i \in 1 .. Len(qRtc) /\ qRtc'[i] = qRtc[i]
                                     \/ qRtc'[i] = m
      BY <2>2, <1>b, InAppend
    <3>. QED  BY <2>3, <3>1, <1>a, <1>c, <1>d DEF Rtc
  <2>5. Work /\ Reply /\ Unread
    BY <2>1, <1>2, <1>3, <1>4 DEF Work, Reply
  <2>. QED  BY <1>6, <2>4, <2>5
<1>8. ASSUME RtcServerMsg PROVE SoundQueues'
  <2>1. UNCHANGED <<cmd, applied, dropped, qReply>>
    BY <1>8, RouteEffect
  <2>2. Reply /\ Unread
    BY <2>1, <1>3, <1>4 DEF Reply
  <2>3. CASE UNCHANGED <<qRtc, qWork>>
    BY <2>2, <2>3, <1>1, <1>2, <1>6 DEF Work
  <2>4. CASE ~UNCHANGED <<qRtc, qWork>>
    <3>1. PICK m \in Message, v \in RW :
            /\ qRtc # <<>> /\ m = Head(qRtc) /\ v = Route(m) /\ m.req \in Req
            /\ qRtc' = Tail(qRtc)
            /\ qWork'[v] = Append(qWork[v], m)
            /\ \A u \in RW : u # v => qWork'[u] = qWork[u]
      BY <1>8, <2>4, RouteEffect
    <3>2. SoundMsg(m)
      BY <3>1, <1>b, <1>d, InTail
    <3>3. Rtc
      BY <3>1, <1>5
    <3>4. ASSUME NEW i \in 1 .. Len(qWork'[v])
          PROVE  Sound(qWork'[v][i]) /\ HashOf[cmd'[qWork'[v][i].req][2]] = v
      <4>1. CASE qWork'[v][i] = m
        <5>1. HashOf[cmd[m.req][2]] = v
          BY <3>1 DEF Route
        <5>. QED  BY <5>1, <4>1, <3>2, <1>a
      <4>2. CASE i \in 1 .. Len(qWork[v]) /\ qWork'[v][i] = qWork[v][i]
        BY <4>2, <1>a, <1>c, <1>d
      <4>3. qWork[v] \in Seq(Message) /\ qWork'[v] = Append(qWork[v], m)
        BY <3>1, <1>b
      <4>4. \/ i \in 1 .. Len(qWork[v]) /\ qWork'[v][i] = qWork[v][i]
            \/ qWork'[v][i] = m
        BY <4>3, InAppend
      <4>. QED  BY <4>1, <4>2, <4>4
    <3>5. Work
      <4>1. SUFFICES ASSUME NEW u \in RW, NEW i \in 1 .. Len(qWork'[u])
                     PROVE  Sound(qWork'[u][i]) /\ HashOf[cmd'[qWork'[u][i].req][2]] = u
        BY DEF Work
      <4>2. CASE u = v
        BY <4>2, <3>4
      <4>3. CASE u # v
        <5>1. qWork'[u] = qWork[u]
          BY <4>3, <3>1
        <5>. QED  BY <5>1, <1>2
      <4>. QED  BY <4>2, <4>3
    <3>. QED  BY <3>3, <3>5, <2>2, <1>6
  <2>. QED  BY <2>3, <2>4
<1>9. ASSUME CertFails PROVE SoundQueues'
  <2>1. UNCHANGED <<applied, qWork, qReply>>
    BY <1>9, CertEffect
  <2>2. PICK m \in Message :
              /\ qRtc # <<>> /\ m = Head(qRtc) /\ m.req \in Req
              /\ qRtc' = Tail(qRtc)
              /\ dropped' = dropped \cup {m.req}
    BY <1>9, CertEffect
  <2>3. SoundMsg(m)
    BY <2>2, <1>b, <1>d, InTail
  <2>4. Unread
    BY <2>1, <2>2, <2>3, <1>d, <1>e DEF Unread, SoundMsg
  <2>5. Work /\ Reply
    BY <2>1, <1>2, <1>3 DEF Work, Reply
  <2>. QED  BY <2>2, <2>4, <2>5, <1>5, <1>6
<1>10. ASSUME NEW v \in RW, RtcWorkerMsg(v) PROVE SoundQueues'
  <2>1. qRtc' = qRtc /\ dropped' = dropped
    BY <1>10, ApplyEffect
  <2>2. Rtc
    BY <2>1, <1>1
  <2>3. CASE UNCHANGED <<qWork, qReply, applied>>
    BY <2>1, <2>2, <2>3, <1>2, <1>3, <1>4, <1>6 DEF Work, Reply
  <2>4. CASE ~UNCHANGED <<qWork, qReply, applied>>
    <3>1. PICK m \in Message : Takes(v, m) /\ Returns(m) /\ applied' = applied \cup {m.req}
      BY <1>10, <2>4, ApplyEffect
    <3>t. /\ qWork[v] # <<>> /\ m = Head(qWork[v]) /\ m.req \in Req
          /\ qWork'[v] = Tail(qWork[v]) /\ applied' = applied \cup {m.req}
          /\ \A u \in RW : u # v => qWork'[u] = qWork[u]
      BY <3>1 DEF Takes
    <3>2. SoundMsg(m)
      <4>1. qWork[v] \in Seq(Message) /\ qWork[v] # <<>>
        BY <3>t, <1>b
      <4>2. 1 \in 1 .. Len(qWork[v]) /\ m = qWork[v][1]
        BY <3>t, <4>1, InTail
      <4>. QED  BY <4>2, <1>d
    <3>3. Unread
      <4>1. \A q \in Fresh' : q # m.req
        BY <3>2, <1>e DEF SoundMsg
      <4>. QED  BY <2>1, <3>t, <4>1, <1>d, <1>e DEF Unread
    <3>4. ASSUME NEW i \in 1 .. Len(qWork'[v])
          PROVE  Sound(qWork'[v][i]) /\ HashOf[cmd'[qWork'[v][i].req][2]] = v
      <4>1. i + 1 \in 1 .. Len(qWork[v]) /\ qWork'[v][i] = qWork[v][i + 1]
        BY <3>t, <1>b, InTail, SMTT(30)
      <4>. QED  BY <4>1, <1>a, <1>c, <1>d
    <3>5. Work
      <4>1. SUFFICES ASSUME NEW u \in RW, NEW i \in 1 .. Len(qWork'[u])
                     PROVE  Sound(qWork'[u][i]) /\ HashOf[cmd'[qWork'[u][i].req][2]] = u
        BY DEF Work
      <4>2. CASE u = v
        BY <4>2, <3>4
      <4>3. CASE u # v
        <5>1. qWork'[u] = qWork[u]
          BY <4>3, <3>t
        <5>. QED  BY <5>1, <1>2
      <4>. QED  BY <4>2, <4>3
    <3>6. Reply
      <4>1. SUFFICES ASSUME NEW w \in Workers, NEW i \in 1 .. Len(qReply'[w])
                     PROVE  Sound(qReply'[w][i]) /\ qReply'[w][i].worker = w /\ qReply'[w][i].req \in applied'
        BY DEF Reply
      <4>2. CASE qReply'[w] = qReply[w]
        BY <3>t, <4>2, <1>3
      <4>3. CASE qReply'[w] # qReply[w]
        <5>1. m.worker = w /\ qReply'[w] = Append(qReply[w], m)
          BY <3>1, <4>3 DEF Returns
        <5>2. CASE qReply'[w][i] = m
          BY <5>1, <5>2, <3>t, <3>2, <1>a
        <5>3. CASE i \in 1 .. Len(qReply[w]) /\ qReply'[w][i] = qReply[w][i]
          <6>1. /\ qReply[w][i] \in Message /\ SoundMsg(qReply[w][i])
                /\ qReply[w][i].worker = w /\ qReply[w][i].req \in applied
            BY <5>3, <1>c, <1>d
          <6>2. Sound(qReply[w][i])
            BY <6>1, <1>a
          <6>. QED  BY <5>3, <6>1, <6>2, <3>t
        <5>4. qReply[w] \in Seq(Message)
          BY <1>b
        <5>5. \/ i \in 1 .. Len(qReply[w]) /\ qReply'[w][i] = qReply[w][i]
              \/ qReply'[w][i] = m
          BY <5>1, <5>4, InAppend
        <5>. QED  BY <5>2, <5>3, <5>5
      <4>. QED  BY <4>2, <4>3
    <3>. QED  BY <2>2, <3>3, <3>5, <3>6, <1>6
  <2>. QED  BY <2>3, <2>4
<1>11. ASSUME NEW w \in Workers, RtcMsgBack(w) PROVE SoundQueues'
  <2>1. UNCHANGED <<applied, dropped, qRtc, qWork>>
    BY <1>11, BackEffect
  <2>2. /\ \A u \in Workers : u # w => qReply'[u] = qReply[u]
        /\ \/ qReply'[w] = qReply[w]
           \/ qReply[w] # <<>> /\ qReply'[w] = Tail(qReply[w])
    BY <1>11, BackEffect
  <2>3. ASSUME NEW i \in 1 .. Len(qReply'[w]), qReply[w] # <<>>, qReply'[w] = Tail(qReply[w])
        PROVE  Sound(qReply'[w][i]) /\ qReply'[w][i].worker = w /\ qReply'[w][i].req \in applied'
    <3>1. i + 1 \in 1 .. Len(qReply[w]) /\ qReply'[w][i] = qReply[w][i + 1]
      BY <2>3, <1>b, InTail
    <3>. QED  BY <3>1, <2>1, <1>a, <1>c, <1>d
  <2>4. Reply
    BY <2>1, <2>2, <2>3, <1>3 DEF Reply
  <2>. QED  BY <2>1, <2>4, <1>1, <1>2, <1>4, <1>6 DEF Work
<1>12. ASSUME UNCHANGED <<qRtc, qWork, applied, dropped>>, qReply' = qReply PROVE SoundQueues'
  BY <1>12, <1>1, <1>2, <1>3, <1>4, <1>6 DEF Work, Reply
<1>. QED  BY <1>7, <1>8, <1>9, <1>10, <1>11, <1>12, QueuesKept, RepliesKept

\* What is in the queues is of requests that were read, and RtcWorkers get what
\* their streams hash to.
LEMMA InQueues ==
  ASSUME Base, SoundQueues, NEW q \in Req
  PROVE  /\ Has(qRtc, q) => q \notin Fresh /\ cmd[q] # None
         /\ \A v \in RW : Has(qWork[v], q) => q \notin Fresh /\ cmd[q] # None /\ v = At(q)
         /\ \A w \in Workers : Has(qReply[w], q) => q \notin Fresh /\ cmd[q] # None /\ q \in applied
BY DEF SoundQueues, SoundMsg, Has, Route, At

LEMMA OneStep == Base /\ MessageInv /\ [Next]_vars => OneMessage'
<1>. SUFFICES ASSUME Base, SoundQueues, OneMessage, [Next]_vars PROVE OneMessage'
  BY DEF MessageInv
<1>. DEFINE Once == /\ OnceEach(qRtc')
                    /\ \A v \in RW : OnceEach(qWork'[v])
                    /\ \A q \in Req, v \in RW : Has(qRtc', q) => ~Has(qWork'[v], q)
            Before1 == \A q \in Req : Has(qRtc', q) \/ (\E v \in RW : Has(qWork'[v], q)) => q \notin applied' \cup dropped'
            Reply == /\ \A w \in Workers : OnceEach(qReply'[w])
                     /\ \A w, u \in Workers, q \in Req : Has(qReply'[w], q) /\ Has(qReply'[u], q) => w = u
<1>b. /\ qRtc \in Seq(Message)
      /\ \A v \in RW : qWork[v] \in Seq(Message)
      /\ \A w \in Workers : qReply[w] \in Seq(Message)
  BY DEF Base, TypeOK
<1>c. /\ OnceEach(qRtc)
      /\ \A v \in RW : OnceEach(qWork[v])
      /\ \A w \in Workers : OnceEach(qReply[w])
      /\ \A q \in Req, v \in RW : Has(qRtc, q) => ~Has(qWork[v], q)
      /\ \A w, u \in Workers, q \in Req : Has(qReply[w], q) /\ Has(qReply[u], q) => w = u
      /\ \A q \in Req : Has(qRtc, q) \/ (\E v \in RW : Has(qWork[v], q)) => q \notin applied \cup dropped
  BY DEF OneMessage, Waiting, Done
<1>d. \A q \in Req : /\ Has(qRtc, q) => q \notin Fresh
                     /\ \A v \in RW : Has(qWork[v], q) => q \notin Fresh /\ v = At(q)
                     /\ \A w \in Workers : Has(qReply[w], q) => q \notin Fresh /\ q \in applied
                     /\ q \in Fresh => q \notin applied \cup dropped
  BY InQueues DEF SoundQueues, Done
<1>1. ASSUME Once, Before1, Reply PROVE OneMessage'
  BY <1>1 DEF OneMessage, Waiting, Done
<1>2. ASSUME qReply' = qReply PROVE Reply
  BY <1>2, <1>c
<1>3. ASSUME UNCHANGED <<qRtc, qWork, applied, dropped>> PROVE Once /\ Before1
  BY <1>3, <1>c
<1>. HIDE DEF Once, Before1, Reply
<1>4. ASSUME NEW w \in Workers, NEW f \in Fd, ReadRequest(w, f) PROVE OneMessage'
  <2>1. UNCHANGED <<cmd, qWork, qReply, applied, dropped>>
    BY <1>4 DEF ReadRequest, clientVars, historyVars
  <2>2. PICK m \in Message :
          /\ qRtc' = Append(qRtc, m)
          /\ m.req = sock[f]
          /\ m.worker # None => cmd[m.req][1] = "offer" /\ m.conn # None /\ m.fd # None
          /\ owes' = [owes EXCEPT ![w] = <<Rs, "msg">>]
    BY <1>4, ReadMessage DEF Base
  <2>3. m.req \in Fresh /\ m.req \in Req
    BY <1>4, <2>2, ReadOnce, MessageType
  <2>4. ~Has(qRtc, m.req) /\ (\A v \in RW : ~Has(qWork[v], m.req)) /\ m.req \notin applied \cup dropped
    BY <2>3, <1>d
  <2>5. \A q \in Req : Has(qRtc', q) <=> Has(qRtc, q) \/ q = m.req
    BY <2>2, <1>b, HasAppend
  <2>6. OnceEach(qRtc')
    BY <2>2, <2>4, <1>b, <1>c, OnceAppend
  <2>7. Once
    BY <2>1, <2>4, <2>5, <2>6, <1>c DEF Once
  <2>8. Before1
    BY <2>1, <2>4, <2>5, <1>c DEF Before1
  <2>. QED  BY <2>1, <2>7, <2>8, <1>1, <1>2
<1>5. ASSUME RtcServerMsg PROVE OneMessage'
  <2>1. UNCHANGED <<applied, dropped, qReply>>
    BY <1>5, RouteEffect
  <2>2. CASE UNCHANGED <<qRtc, qWork>>
    BY <2>1, <2>2, <1>1, <1>2, <1>3
  <2>3. CASE ~UNCHANGED <<qRtc, qWork>>
    <3>1. PICK m \in Message, v \in RW :
            /\ qRtc # <<>> /\ m = Head(qRtc) /\ v = Route(m) /\ m.req \in Req
            /\ qRtc' = Tail(qRtc)
            /\ qWork'[v] = Append(qWork[v], m)
            /\ \A u \in RW : u # v => qWork'[u] = qWork[u]
      BY <1>5, <2>3, RouteEffect
    <3>2. /\ \A q \in Req : Has(qRtc, q) <=> Has(qRtc', q) \/ q = m.req
          /\ OnceEach(qRtc') /\ ~Has(qRtc', m.req)
      BY <3>1, <1>b, <1>c, HasTail, OnceTail
    <3>3. \A q \in Req : Has(qWork'[v], q) <=> Has(qWork[v], q) \/ q = m.req
      BY <3>1, <1>b, HasAppend
    <3>4. OnceEach(qWork'[v])
      <4>1. ~Has(qWork[v], m.req)
        BY <3>1, <3>2, <1>c
      <4>. QED  BY <4>1, <3>1, <1>b, <1>c, OnceAppend
    <3>5. \A u \in RW, q \in Req : Has(qWork'[u], q) => Has(qWork[u], q) \/ q = m.req
      BY <3>1, <3>3
    <3>6. \A u \in RW : OnceEach(qWork'[u])
      BY <3>1, <3>4, <1>c
    <3>7. \A q \in Req, u \in RW : Has(qRtc', q) => ~Has(qWork'[u], q)
      BY <3>2, <3>5, <1>c
    <3>8. Once
      BY <3>2, <3>6, <3>7 DEF Once
    <3>9. Before1
      BY <2>1, <3>1, <3>2, <3>5, <1>c DEF Before1
    <3>. QED  BY <2>1, <3>8, <3>9, <1>1, <1>2
  <2>. QED  BY <2>2, <2>3
<1>6. ASSUME CertFails PROVE OneMessage'
  <2>1. UNCHANGED <<applied, qWork, qReply>>
    BY <1>6, CertEffect
  <2>2. PICK m \in Message :
              /\ qRtc # <<>> /\ m = Head(qRtc) /\ m.req \in Req
              /\ qRtc' = Tail(qRtc)
              /\ dropped' = dropped \cup {m.req}
    BY <1>6, CertEffect
  <2>3. /\ \A q \in Req : Has(qRtc, q) <=> Has(qRtc', q) \/ q = m.req
        /\ OnceEach(qRtc') /\ ~Has(qRtc', m.req)
    BY <2>2, <1>b, <1>c, HasTail, OnceTail
  <2>4. Once
    BY <2>1, <2>3, <1>c DEF Once
  <2>5. Before1
    BY <2>1, <2>2, <2>3, <1>c DEF Before1
  <2>. QED  BY <2>1, <2>4, <2>5, <1>1, <1>2
<1>7. ASSUME NEW v \in RW, RtcWorkerMsg(v) PROVE OneMessage'
  <2>1. qRtc' = qRtc /\ dropped' = dropped
    BY <1>7, ApplyEffect
  <2>2. CASE UNCHANGED <<qWork, qReply, applied>>
    BY <2>1, <2>2, <1>1, <1>2, <1>3
  <2>3. CASE ~UNCHANGED <<qWork, qReply, applied>>
    <3>1. PICK m \in Message : Takes(v, m) /\ Returns(m) /\ applied' = applied \cup {m.req}
      BY <1>7, <2>3, ApplyEffect
    <3>t. /\ qWork[v] # <<>> /\ m = Head(qWork[v]) /\ m.req \in Req
          /\ qWork'[v] = Tail(qWork[v]) /\ applied' = applied \cup {m.req}
          /\ \A u \in RW : u # v => qWork'[u] = qWork[u]
      BY <3>1 DEF Takes
    <3>2. /\ \A q \in Req : Has(qWork[v], q) <=> Has(qWork'[v], q) \/ q = m.req
          /\ OnceEach(qWork'[v]) /\ ~Has(qWork'[v], m.req)
      BY <3>t, <1>b, <1>c, HasTail, OnceTail
    <3>3. v = At(m.req) /\ ~Has(qRtc, m.req) /\ m.req \notin applied
      BY <3>t, <3>2, <1>c, <1>d
    <3>4. \A u \in RW, q \in Req : Has(qWork'[u], q) => Has(qWork[u], q) /\ q # m.req
      <4>1. SUFFICES ASSUME NEW u \in RW, NEW q \in Req, Has(qWork'[u], q) PROVE Has(qWork[u], q) /\ q # m.req
        OBVIOUS
      <4>2. CASE u = v
        BY <4>1, <4>2, <3>2
      <4>3. CASE u # v
        BY <4>1, <4>3, <3>t, <3>3, <1>d
      <4>. QED  BY <4>2, <4>3
    <3>5. \A u \in RW : OnceEach(qWork'[u])
      BY <3>t, <3>2, <1>c
    <3>6. Once
      BY <2>1, <3>4, <3>5, <1>c DEF Once
    <3>7. Before1
      BY <2>1, <3>t, <3>3, <3>4, <1>c DEF Before1
    <3>8. Reply
      <4>1. CASE qReply' = qReply
        BY <4>1, <1>2
      <4>2. CASE qReply' # qReply
        <5> DEFINE x == m.worker
        <5>1. /\ x \in Workers /\ qReply'[x] = Append(qReply[x], m)
              /\ \A w \in Workers : w # x => qReply'[w] = qReply[w]
          BY <3>1, <4>2 DEF Returns
        <5> HIDE DEF x
        <5>2. \A w \in Workers : ~Has(qReply[w], m.req)
          BY <3>t, <3>3, <1>d
        <5>3. \A q \in Req : Has(qReply'[x], q) <=> Has(qReply[x], q) \/ q = m.req
          BY <5>1, <1>b, HasAppend
        <5>4. OnceEach(qReply'[x])
          BY <5>1, <5>2, <1>b, <1>c, OnceAppend
        <5>5. \A w \in Workers : OnceEach(qReply'[w])
          BY <5>1, <5>4, <1>c
        <5>6. \A w \in Workers, q \in Req :
                Has(qReply'[w], q) => IF q = m.req THEN w = x ELSE Has(qReply[w], q)
          BY <5>1, <5>2, <5>3
        <5>. QED  BY <5>5, <5>6, <1>c DEF Reply
      <4>. QED  BY <4>1, <4>2
    <3>. QED  BY <3>6, <3>7, <3>8, <1>1
  <2>. QED  BY <2>2, <2>3
<1>8. ASSUME NEW w \in Workers, RtcMsgBack(w) PROVE OneMessage'
  <2>1. UNCHANGED <<applied, dropped, qRtc, qWork>>
    BY <1>8, BackEffect
  <2>2. /\ \A u \in Workers : u # w => qReply'[u] = qReply[u]
        /\ \/ qReply'[w] = qReply[w]
           \/ qReply[w] # <<>> /\ qReply'[w] = Tail(qReply[w])
    BY <1>8, BackEffect
  <2>3. OnceEach(qReply'[w]) /\ \A q \in Req : Has(qReply'[w], q) => Has(qReply[w], q)
    BY <2>2, <1>b, <1>c, HasTail, OnceTail
  <2>4. \A u \in Workers : OnceEach(qReply'[u]) /\ \A q \in Req : Has(qReply'[u], q) => Has(qReply[u], q)
    BY <2>2, <2>3, <1>c
  <2>5. Reply
    BY <2>4, <1>c DEF Reply
  <2>. QED  BY <2>1, <2>5, <1>1, <1>3
<1>9. ASSUME UNCHANGED <<qRtc, qWork, applied, dropped>>, qReply' = qReply PROVE OneMessage'
  BY <1>9, <1>1, <1>2, <1>3
<1>. QED  BY <1>4, <1>5, <1>6, <1>7, <1>8, <1>9, QueuesKept, RepliesKept

LEMMA InitMessages == Init => MessageInv
<1>. SUFFICES ASSUME Init PROVE MessageInv
  OBVIOUS
<1>1. /\ Len(qRtc) = 0
      /\ \A v \in RW : Len(qWork[v]) = 0
      /\ \A w \in Workers : Len(qReply[w]) = 0
  BY DEF Init
<1>2. applied = {} /\ dropped = {}
  BY DEF Init
<1>3. /\ \A q \in Req : ~Has(qRtc, q)
      /\ \A v \in RW, q \in Req : ~Has(qWork[v], q)
      /\ \A w \in Workers, q \in Req : ~Has(qReply[w], q)
  BY <1>1 DEF Has
<1>4. SoundQueues
  BY <1>1, <1>2 DEF SoundQueues, Done
<1>5. OneMessage
  BY <1>1, <1>2, <1>3 DEF OneMessage, OnceEach, Waiting, Done
<1>. QED  BY <1>4, <1>5 DEF MessageInv

LEMMA MessageStep == Base /\ MessageInv /\ [Next]_vars => MessageInv'
BY SoundStep, OneStep DEF MessageInv

-----------------------------------------------------------------------------
(* Lists of replies *)

LEMMA NamesAppend ==
  ASSUME NEW s \in Seq(Req), NEW x \in Req
  PROVE  /\ \A q : Names(Append(s, x), q) <=> Names(s, q) \/ q = x
         /\ NoTwice(s) /\ ~Names(s, x) => NoTwice(Append(s, x))
<1>1. /\ Len(s) \in Nat /\ Len(Append(s, x)) = Len(s) + 1
      /\ \A i \in 1 .. Len(s) : Append(s, x)[i] = s[i]
      /\ Append(s, x)[Len(s) + 1] = x
  BY Appended
<1>2. 1 .. Len(Append(s, x)) = (1 .. Len(s)) \cup {Len(s) + 1}
  BY <1>1
<1>3. ASSUME NEW q, Names(s, q) \/ q = x PROVE Names(Append(s, x), q)
  BY <1>1, <1>2, <1>3 DEF Names
<1>4. ASSUME NEW q, Names(Append(s, x), q) PROVE Names(s, q) \/ q = x
  BY <1>1, <1>2, <1>4 DEF Names
<1>5. ASSUME NoTwice(s), ~Names(s, x) PROVE NoTwice(Append(s, x))
  <2>1. \A i \in 1 .. Len(s) : s[i] # x
    BY <1>5 DEF Names
  <2>2. \A i, j \in 1 .. Len(s) : s[i] = s[j] => i = j
    BY <1>5 DEF NoTwice
  <2>. QED  BY <1>1, <1>2, <2>1, <2>2 DEF NoTwice
<1>. QED  BY <1>3, <1>4, <1>5

LEMMA NamesConcat ==
  ASSUME NEW s \in Seq(Req), NEW t \in Seq(Req)
  PROVE  /\ \A q : Names(s \o t, q) <=> Names(s, q) \/ Names(t, q)
         /\ NoTwice(s) /\ NoTwice(t) /\ (\A q \in Req : ~(Names(s, q) /\ Names(t, q))) => NoTwice(s \o t)
<1>1. /\ Len(s) \in Nat /\ Len(t) \in Nat /\ Len(s \o t) = Len(s) + Len(t)
      /\ \A i \in 1 .. Len(s) + Len(t) : (s \o t)[i] = IF i <= Len(s) THEN s[i] ELSE t[i - Len(s)]
      /\ \A i \in 1 .. Len(s) : s[i] \in Req
      /\ \A i \in 1 .. Len(t) : t[i] \in Req
  BY ConcatProperties, Elements
<1>2. \A i \in 1 .. Len(s) : i \in 1 .. Len(s \o t) /\ (s \o t)[i] = s[i]
  BY <1>1
<1>3. \A i \in 1 .. Len(t) : i + Len(s) \in 1 .. Len(s \o t) /\ (s \o t)[i + Len(s)] = t[i]
  <2>. SUFFICES ASSUME NEW i \in 1 .. Len(t)
                PROVE  i + Len(s) \in 1 .. Len(s \o t) /\ (s \o t)[i + Len(s)] = t[i]
    OBVIOUS
  <2>1. i + Len(s) \in 1 .. Len(s) + Len(t) /\ ~(i + Len(s) <= Len(s)) /\ (i + Len(s)) - Len(s) = i
    BY <1>1
  <2>. QED  BY <1>1, <2>1
<1>4. \A i \in 1 .. Len(s \o t) : \/ i \in 1 .. Len(s) /\ (s \o t)[i] = s[i]
                                  \/ i - Len(s) \in 1 .. Len(t) /\ (s \o t)[i] = t[i - Len(s)]
  BY <1>1
<1>5. ASSUME NEW q, Names(s \o t, q) PROVE Names(s, q) \/ Names(t, q)
  BY <1>4, <1>5 DEF Names
<1>6. ASSUME NEW q, Names(s, q) \/ Names(t, q) PROVE Names(s \o t, q)
  BY <1>2, <1>3, <1>6 DEF Names
<1>7. ASSUME NoTwice(s), NoTwice(t), \A q \in Req : ~(Names(s, q) /\ Names(t, q))
      PROVE  NoTwice(s \o t)
  <2>1. \A i \in 1 .. Len(s), j \in 1 .. Len(t) : s[i] # t[j]
    BY <1>1, <1>7 DEF Names
  <2>2. \A i, j \in 1 .. Len(s) : s[i] = s[j] => i = j
    BY <1>7 DEF NoTwice
  <2>3. \A i, j \in 1 .. Len(t) : t[i] = t[j] => i = j
    BY <1>7 DEF NoTwice
  <2>. SUFFICES ASSUME NEW i \in 1 .. Len(s \o t), NEW j \in 1 .. Len(s \o t), (s \o t)[i] = (s \o t)[j]
                PROVE  i = j
    BY DEF NoTwice
  <2>4. CASE i \in 1 .. Len(s) /\ (s \o t)[i] = s[i]
    <3>1. CASE j \in 1 .. Len(s) /\ (s \o t)[j] = s[j]
      BY <2>4, <3>1, <2>2
    <3>2. CASE j - Len(s) \in 1 .. Len(t) /\ (s \o t)[j] = t[j - Len(s)]
      BY <2>4, <3>2, <2>1
    <3>. QED  BY <3>1, <3>2, <1>4
  <2>5. CASE i - Len(s) \in 1 .. Len(t) /\ (s \o t)[i] = t[i - Len(s)]
    <3>1. CASE j \in 1 .. Len(s) /\ (s \o t)[j] = s[j]
      BY <2>5, <3>1, <2>1
    <3>2. CASE j - Len(s) \in 1 .. Len(t) /\ (s \o t)[j] = t[j - Len(s)]
      <4>1. i - Len(s) = j - Len(s)
        BY <2>5, <3>2, <2>3
      <4>2. i \in Nat /\ j \in Nat
        BY <1>1
      <4>. QED  BY <4>1, <4>2, <1>1
    <3>. QED  BY <3>1, <3>2, <1>4
  <2>. QED  BY <2>4, <2>5, <1>4
<1>. QED  BY <1>5, <1>6, <1>7

LEMMA NamesNone == (\A q : ~Names(<<>>, q)) /\ NoTwice(<<>>)
BY DEF Names, NoTwice

-----------------------------------------------------------------------------
(* What a step does to the answers: it lists one, writes a list, or neither *)

Fewer ==
  /\ got' = got
  /\ \A u \in Workers, g \in Fd : conns'[u][g].replies \in {conns[u][g].replies, <<>>}

Lists(w, f, x) ==
  /\ got' = got
  /\ conns'[w][f].replies = Append(conns[w][f].replies, x)
  /\ \A u \in Workers, g \in Fd : ~(u = w /\ g = f) => conns'[u][g].replies = conns[u][g].replies

Writes(w, f, r) ==
  /\ got'[r] = got[r] \o conns[w][f].replies
  /\ \A t \in Req : t # r => got'[t] = got[t]
  /\ conns'[w][f].replies = <<>>
  /\ \A u \in Workers, g \in Fd : ~(u = w /\ g = f) => conns'[u][g].replies = conns[u][g].replies

LEMMA ReadLists ==
  ASSUME Base, NEW w \in Workers, NEW f \in Fd, ReadRequest(w, f)
  PROVE  \/ Fewer
         \/ cmd[sock[f]] # None /\ cmd[sock[f]][1] # "offer" /\ Lists(w, f, sock[f])
<1>0. sock[f] \in Req
  BY OpenHasClient DEF Base, ReadRequest
<1>1. PICK c \in Connection :
           /\ c.addr = conns[w][f].addr /\ c.asked = TRUE
           /\ IF cmd[sock[f]][1] = "offer" THEN c.replies = conns[w][f].replies
              ELSE c.replies = Append(conns[w][f].replies, sock[f])
           /\ Becomes(w, f, c)
  BY <1>0, ReadRequestEffect DEF Base
<1>2. got' = got /\ cmd[sock[f]] # None
  BY DEF ReadRequest, clientVars
<1>3. CASE cmd[sock[f]][1] = "offer"
  BY <1>1, <1>2, <1>3 DEF Becomes, Fewer
<1>4. CASE cmd[sock[f]][1] # "offer"
  BY <1>1, <1>2, <1>4 DEF Becomes, Lists
<1>. QED  BY <1>3, <1>4

LEMMA BackLists ==
  ASSUME Base, NEW w \in Workers, RtcMsgBack(w)
  PROVE  \/ Fewer
         \/ \E f \in Fd : /\ qReply[w] # <<>> /\ qReply'[w] = Tail(qReply[w])
                          /\ Lists(w, f, Head(qReply[w]).req)
<1>1. got' = got
  BY DEF RtcMsgBack, clientVars
<1>2. CASE conns' = conns
  BY <1>1, <1>2 DEF Fewer
<1>3. CASE conns' # conns
  <2>1. /\ qReply[w] # <<>>
        /\ qReply' = [qReply EXCEPT ![w] = Tail(@)]
        /\ \E f \in Fd, c \in Connection :
             /\ Open(w, f)
             /\ c.addr = conns[w][f].addr /\ c.asked = conns[w][f].asked
             /\ c.replies = Append(conns[w][f].replies, Head(qReply[w]).req)
             /\ Becomes(w, f, c)
    BY <1>3, RtcMsgBackEffect DEF Base
  <2>2. PICK f \in Fd, c \in Connection :
             /\ c.replies = Append(conns[w][f].replies, Head(qReply[w]).req)
             /\ Becomes(w, f, c)
    BY <2>1
  <2>3. Lists(w, f, Head(qReply[w]).req)
    BY <1>1, <2>2 DEF Lists, Becomes
  <2>4. qReply'[w] = Tail(qReply[w])
    BY <2>1 DEF Base, TypeOK
  <2>. QED  BY <2>1, <2>3, <2>4
<1>. QED  BY <1>2, <1>3

LEMMA WriteWrites ==
  ASSUME Base, NEW w \in Workers, NEW f \in Fd, WriteReply(w, f)
  PROVE  Fewer \/ \E r \in Req : Writes(w, f, r)
<1>1. sock[f] \in Req
  BY OpenHasClient DEF Base, WriteReply
<1>2. PICK c \in Connection : c.replies = <<>> /\ Becomes(w, f, c)
  BY WriteReplyEffect DEF Base
<1>3. CASE client[sock[f]] = "left"
  BY <1>2, <1>3 DEF Fewer, Becomes, WriteReply
<1>4. CASE client[sock[f]] # "left"
  <2>1. got' = [got EXCEPT ![sock[f]] = @ \o conns[w][f].replies]
    BY <1>4 DEF WriteReply
  <2>2. Writes(w, f, sock[f])
    BY <1>1, <1>2, <2>1 DEF Writes, Becomes, Base, TypeOK
  <2>. QED  BY <1>1, <2>2
<1>. QED  BY <1>3, <1>4

LEMMA OthersFewer ==
  ASSUME Base, [Next]_vars, \A w \in Workers : ~RtcMsgBack(w),
         \A w \in Workers, f \in Fd : ~ReadRequest(w, f) /\ ~WriteReply(w, f)
  PROVE  Fewer
<1>1. ASSUME got' = got, conns' = conns PROVE Fewer
  BY <1>1 DEF Fewer
<1>2. ASSUME NEW r \in Req, Connect(r) \/ SendRequest(r) \/ Leave(r) PROVE Fewer
  BY <1>1, <1>2 DEF Connect, SendRequest, Leave
<1>3. ASSUME Accept \/ RtcServerMsg \/ CertFails PROVE Fewer
  BY <1>1, <1>3 DEF Accept, RtcServerMsg, CertFails, clientVars
<1>4. ASSUME NEW w \in Workers, NewConn(w) PROVE Fewer
  <2>1. got' = got
    BY <1>4 DEF NewConn, clientVars
  <2>2. CASE conns' = conns
    BY <1>1, <2>1, <2>2
  <2>3. CASE conns' # conns
    <3>1. PICK c \in Connection : c.replies = <<>> /\ Becomes(w, Head(qConn[w]), c)
      BY <1>4, <2>3, NewConnEffect DEF Base
    <3>. QED  BY <2>1, <3>1 DEF Fewer, Becomes
  <2>. QED  BY <2>2, <2>3
<1>5. ASSUME NEW w \in Workers, NEW f \in Fd, ReadFails(w, f) \/ Timeout(w, f) \/ WriteFails(w, f)
      PROVE  Fewer
  <2>1. got' = got /\ Becomes(w, f, NoConn)
    BY <1>5, CloseEffect DEF ReadFails, Timeout, WriteFails, clientVars, Base
  <2>. QED  BY <2>1, NoConnFields DEF Fewer, Becomes
<1>6. ASSUME NEW t \in Thread, Notify(t) PROVE Fewer
  BY <1>1, <1>6 DEF Notify, clientVars
<1>7. ASSUME NEW v \in RW, RtcWorkerMsg(v) PROVE Fewer
  BY <1>1, <1>7 DEF RtcWorkerMsg, clientVars
<1>8. ASSUME UNCHANGED vars PROVE Fewer
  BY <1>1, <1>8 DEF vars, clientVars
<1>. QED  BY <1>2, <1>3, <1>4, <1>5, <1>6, <1>7, <1>8 DEF Next, ClientStep, ConnStep

-----------------------------------------------------------------------------
(* AnswersAreLate *)

\* A request that was read waits for an RtcWorker until it is done.
LEMMA UnderWay ==
  ASSUME Base, [Next]_vars, NEW q \in Req, Done(q) \/ Waiting(q)
  PROVE  /\ q \in applied' \cup dropped' \/ Has(qRtc', q) \/ \E v \in RW : Has(qWork'[v], q)
         /\ applied \subseteq applied'
<1>. DEFINE Goal == /\ q \in applied' \cup dropped' \/ Has(qRtc', q) \/ \E v \in RW : Has(qWork'[v], q)
                    /\ applied \subseteq applied'
<1>b. /\ qRtc \in Seq(Message)
      /\ \A v \in RW : qWork[v] \in Seq(Message)
  BY DEF Base, TypeOK
<1>c. q \in applied \cup dropped \/ Has(qRtc, q) \/ \E v \in RW : Has(qWork[v], q)
  BY DEF Done, Waiting
<1>1. ASSUME UNCHANGED <<qRtc, qWork, applied, dropped>> PROVE Goal
  BY <1>1, <1>c
<1>2. ASSUME NEW w \in Workers, NEW f \in Fd, ReadRequest(w, f) PROVE Goal
  <2>1. UNCHANGED <<qWork, applied, dropped>>
    BY <1>2 DEF ReadRequest, historyVars
  <2>2. PICK m \in Message :
          /\ qRtc' = Append(qRtc, m)
          /\ m.req = sock[f]
          /\ m.worker # None => cmd[m.req][1] = "offer" /\ m.conn # None /\ m.fd # None
          /\ owes' = [owes EXCEPT ![w] = <<Rs, "msg">>]
    BY <1>2, ReadMessage DEF Base
  <2>3. Has(qRtc, q) => Has(qRtc', q)
    BY <2>2, <1>b, HasAppend
  <2>. QED  BY <2>1, <2>3, <1>c
<1>3. ASSUME RtcServerMsg PROVE Goal
  <2>1. UNCHANGED <<applied, dropped>>
    BY <1>3, RouteEffect
  <2>2. CASE UNCHANGED <<qRtc, qWork>>
    BY <2>1, <2>2, <1>1
  <2>3. CASE ~UNCHANGED <<qRtc, qWork>>
    <3>1. PICK m \in Message, v \in RW :
            /\ qRtc # <<>> /\ m = Head(qRtc) /\ v = Route(m) /\ m.req \in Req
            /\ qRtc' = Tail(qRtc)
            /\ qWork'[v] = Append(qWork[v], m)
            /\ \A u \in RW : u # v => qWork'[u] = qWork[u]
      BY <1>3, <2>3, RouteEffect
    <3>2. Has(qRtc, q) => Has(qRtc', q) \/ q = m.req
      BY <3>1, <1>b, HasTail
    <3>3. Has(qWork[v], q) \/ q = m.req => Has(qWork'[v], q)
      BY <3>1, <1>b, HasAppend
    <3>4. \A u \in RW : Has(qWork[u], q) => Has(qWork'[u], q)
      BY <3>1, <3>3
    <3>. QED  BY <2>1, <3>2, <3>3, <3>4, <1>c
  <2>. QED  BY <2>2, <2>3
<1>4. ASSUME CertFails PROVE Goal
  <2>1. UNCHANGED <<applied, qWork>>
    BY <1>4, CertEffect
  <2>2. PICK m \in Message :
              /\ qRtc # <<>> /\ m = Head(qRtc) /\ m.req \in Req
              /\ qRtc' = Tail(qRtc)
              /\ dropped' = dropped \cup {m.req}
    BY <1>4, CertEffect
  <2>3. Has(qRtc, q) => Has(qRtc', q) \/ q = m.req
    BY <2>2, <1>b, HasTail
  <2>. QED  BY <2>1, <2>2, <2>3, <1>c
<1>5. ASSUME NEW v \in RW, RtcWorkerMsg(v) PROVE Goal
  <2>1. qRtc' = qRtc /\ dropped' = dropped
    BY <1>5, ApplyEffect
  <2>2. CASE UNCHANGED <<qWork, qReply, applied>>
    BY <2>1, <2>2, <1>1
  <2>3. CASE ~UNCHANGED <<qWork, qReply, applied>>
    <3>1. PICK m \in Message : Takes(v, m) /\ Returns(m) /\ applied' = applied \cup {m.req}
      BY <1>5, <2>3, ApplyEffect
    <3>t. /\ qWork[v] # <<>> /\ m = Head(qWork[v]) /\ m.req \in Req
          /\ qWork'[v] = Tail(qWork[v]) /\ applied' = applied \cup {m.req}
          /\ \A u \in RW : u # v => qWork'[u] = qWork[u]
      BY <3>1 DEF Takes
    <3>2. Has(qWork[v], q) => Has(qWork'[v], q) \/ q = m.req
      BY <3>t, <1>b, HasTail
    <3>3. \A u \in RW : Has(qWork[u], q) => Has(qWork'[u], q) \/ q = m.req
      BY <3>t, <3>2
    <3>. QED  BY <2>1, <3>t, <3>3, <1>c
  <2>. QED  BY <2>2, <2>3
<1>. QED  BY <1>1, <1>2, <1>3, <1>4, <1>5, QueuesKept

\* What is late stays late.
LEMMA LateKept ==
  ASSUME Base, MessageInv, AnswersAreLate, [Next]_vars, NEW q \in Req, Answered(q)
  PROVE  /\ q \notin Fresh' /\ cmd'[q] # None
         /\ q \in applied' \cup dropped' \/ Has(qRtc', q) \/ \E v \in RW : Has(qWork'[v], q)
         /\ cmd'[q][1] = "offer" => q \in applied'
         /\ \A w \in Workers : ~Has(qReply'[w], q)
<1>1. /\ q \notin Fresh /\ cmd[q] # None /\ (Done(q) \/ Waiting(q))
      /\ cmd[q][1] = "offer" => q \in applied
      /\ \A w \in Workers : ~Has(qReply[w], q)
  BY DEF AnswersAreLate
<1>2. q \notin Fresh' /\ cmd'[q] = cmd[q]
  BY <1>1, CmdKept, FreshShrinks
<1>3. /\ q \in applied' \cup dropped' \/ Has(qRtc', q) \/ \E v \in RW : Has(qWork'[v], q)
      /\ applied \subseteq applied'
  BY <1>1, UnderWay
<1>b. \A w \in Workers : qReply[w] \in Seq(Message)
  BY DEF Base, TypeOK
<1>4. ASSUME NEW v \in RW, RtcWorkerMsg(v) PROVE \A w \in Workers : ~Has(qReply'[w], q)
  <2>1. CASE qReply' = qReply
    BY <1>1, <2>1
  <2>2. CASE qReply' # qReply
    <3>1. PICK m \in Message : Takes(v, m) /\ Returns(m) /\ applied' = applied \cup {m.req}
      BY <1>4, <2>2, ApplyEffect
    <3>t. /\ qWork[v] # <<>> /\ m = Head(qWork[v]) /\ m.req \in Req
          /\ qWork'[v] = Tail(qWork[v]) /\ applied' = applied \cup {m.req}
          /\ \A u \in RW : u # v => qWork'[u] = qWork[u]
      BY <3>1 DEF Takes
    <3>2. qWork[v] \in Seq(Message)
      BY DEF Base, TypeOK
    <3>3. Has(qWork[v], m.req)
      BY <3>t, <3>2, HasTail
    <3>4. m.req \notin applied
      BY <3>t, <3>3 DEF MessageInv, OneMessage, Waiting, Done
    <3>5. cmd[m.req][1] = "offer"
      <4>1. SoundMsg(m)
        BY <3>t, <3>2, InTail DEF MessageInv, SoundQueues
      <4>. QED  BY <4>1, <3>1, <2>2 DEF SoundMsg, Returns
    <3>6. q # m.req
      BY <3>4, <3>5, <1>1
    <3> DEFINE x == m.worker
    <3>7. /\ x \in Workers /\ qReply'[x] = Append(qReply[x], m)
          /\ \A w \in Workers : w # x => qReply'[w] = qReply[w]
      BY <2>2, <3>1 DEF Returns
    <3> HIDE DEF x
    <3>8. ~Has(qReply'[x], q)
      BY <3>6, <3>7, <1>1, <1>b, HasAppend
    <3>. QED  BY <3>7, <3>8, <1>1
  <2>. QED  BY <2>1, <2>2
<1>5. ASSUME NEW w \in Workers, RtcMsgBack(w) PROVE \A u \in Workers : ~Has(qReply'[u], q)
  <2>1. /\ \A u \in Workers : u # w => qReply'[u] = qReply[u]
        /\ \/ qReply'[w] = qReply[w]
           \/ qReply[w] # <<>> /\ qReply'[w] = Tail(qReply[w])
    BY <1>5, BackEffect
  <2>2. ~Has(qReply'[w], q)
    BY <2>1, <1>1, <1>b, HasTail
  <2>. QED  BY <2>1, <2>2, <1>1
<1>6. ASSUME qReply' = qReply PROVE \A u \in Workers : ~Has(qReply'[u], q)
  BY <1>6, <1>1
<1>7. \A u \in Workers : ~Has(qReply'[u], q)
  BY <1>4, <1>5, <1>6, RepliesKept
<1>. QED  BY <1>1, <1>2, <1>3, <1>7

\* An answer not listed before is of a request just read, or of a message that
\* has just come back; neither was answered.
LEMMA NewAnswers ==
  ASSUME Base, MessageInv, AnswersAreLate, [Next]_vars, NEW w \in Workers, NEW f \in Fd, NEW x,
         \/ ReadRequest(w, f) /\ cmd[sock[f]][1] # "offer" /\ x = sock[f]
         \/ /\ RtcMsgBack(w) /\ qReply[w] # <<>> /\ qReply'[w] = Tail(qReply[w])
            /\ x = Head(qReply[w]).req
  PROVE  /\ x \in Req /\ ~Answered(x)
         /\ x \notin Fresh' /\ cmd'[x] # None
         /\ x \in applied' \cup dropped' \/ Has(qRtc', x) \/ \E v \in RW : Has(qWork'[v], x)
         /\ cmd'[x][1] = "offer" => x \in applied'
         /\ \A u \in Workers : ~Has(qReply'[u], x)
<1>1. CASE ReadRequest(w, f) /\ cmd[sock[f]][1] # "offer" /\ x = sock[f]
  <2>1. x \in Req /\ cmd[x] # None /\ UNCHANGED <<cmd, qReply>>
    BY <1>1, OpenHasClient DEF Base, ReadRequest, clientVars
  <2>2. x \in Fresh /\ x \notin Fresh'
    BY <1>1, ReadOnce
  <2>3. ~Answered(x)
    BY <2>1, <2>2 DEF AnswersAreLate
  <2>4. \A u \in Workers : ~Has(qReply[u], x)
    BY <2>1, <2>2, InQueues DEF MessageInv
  <2>5. Has(qRtc', x)
    <3>1. PICK m \in Message :
            /\ qRtc' = Append(qRtc, m)
            /\ m.req = sock[f]
            /\ m.worker # None => cmd[m.req][1] = "offer" /\ m.conn # None /\ m.fd # None
            /\ owes' = [owes EXCEPT ![w] = <<Rs, "msg">>]
      BY <1>1, ReadMessage DEF Base
    <3>2. qRtc \in Seq(Message)
      BY DEF Base, TypeOK
    <3>. QED  BY <1>1, <3>1, <3>2, HasAppend
  <2>. QED  BY <1>1, <2>1, <2>2, <2>3, <2>4, <2>5
<1>2. CASE /\ RtcMsgBack(w) /\ qReply[w] # <<>> /\ qReply'[w] = Tail(qReply[w])
           /\ x = Head(qReply[w]).req
  <2>1. /\ UNCHANGED <<cmd, applied, dropped>>
        /\ \A u \in Workers : u # w => qReply'[u] = qReply[u]
    BY <1>2, BackEffect
  <2>2. qReply[w] \in Seq(Message)
    BY DEF Base, TypeOK
  <2>3. x \in Req
    BY <1>2, <2>2, InTail, MessageType
  <2>4. Has(qReply[w], x)
    BY <1>2, <2>2, HasTail
  <2>5. x \notin Fresh /\ cmd[x] # None /\ x \in applied
    BY <2>3, <2>4, InQueues DEF MessageInv
  <2>6. ~Answered(x)
    BY <2>3, <2>4 DEF AnswersAreLate
  <2>7. x \notin Fresh'
    BY <2>5, FreshShrinks
  <2>8. ~Has(qReply'[w], x)
    BY <1>2, <2>2, OnceTail DEF MessageInv, OneMessage
  <2>9. ASSUME NEW u \in Workers, u # w PROVE ~Has(qReply'[u], x)
    BY <2>1, <2>3, <2>4, <2>9 DEF MessageInv, OneMessage
  <2>. QED  BY <2>1, <2>3, <2>5, <2>6, <2>7, <2>8, <2>9
<1>. QED  BY <1>1, <1>2

LEMMA LateStep == Base /\ MessageInv /\ AnswersAreLate /\ [Next]_vars => AnswersAreLate'
<1>. SUFFICES ASSUME Base, MessageInv, AnswersAreLate, [Next]_vars PROVE AnswersAreLate'
  OBVIOUS
<1>. DEFINE Now(q) == \/ \E r \in Req : Names(got'[r], q)
                      \/ \E w \in Workers, f \in Fd : Names(conns'[w][f].replies, q)
            Late(q) == /\ q \notin Fresh' /\ cmd'[q] # None
                       /\ q \in applied' \cup dropped' \/ Has(qRtc', q) \/ \E v \in RW : Has(qWork'[v], q)
                       /\ cmd'[q][1] = "offer" => q \in applied'
                       /\ \A w \in Workers : ~Has(qReply'[w], q)
<1>1. ASSUME \A q \in Req : Now(q) => Late(q) PROVE AnswersAreLate'
  BY <1>1 DEF AnswersAreLate, Answered, Done, Waiting
<1>2. \A q \in Req : Answered(q) => Late(q)
  BY LateKept
<1>b. /\ \A w \in Workers, f \in Fd : conns[w][f].replies \in Seq(Req)
      /\ \A r \in Req : got[r] \in Seq(Req)
  BY Fields DEF Base, TypeOK
<1>. HIDE DEF Late
<1>3. ASSUME Fewer PROVE AnswersAreLate'
  <2>1. \A q \in Req : Now(q) => Answered(q)
    BY <1>3, NamesNone DEF Fewer, Answered
  <2>. QED  BY <2>1, <1>1, <1>2
<1>4. ASSUME NEW w \in Workers, NEW f \in Fd, NEW x \in Req, Lists(w, f, x), Late(x) PROVE AnswersAreLate'
  <2>0. conns[w][f].replies \in Seq(Req)
    BY <1>b
  <2>1. \A q : Names(conns'[w][f].replies, q) <=> Names(conns[w][f].replies, q) \/ q = x
    BY <1>4, <2>0, NamesAppend DEF Lists
  <2>2. \A q \in Req : Now(q) => Answered(q) \/ q = x
    BY <1>4, <2>1 DEF Lists, Answered
  <2>. QED  BY <2>2, <1>1, <1>2, <1>4
<1>5. ASSUME NEW w \in Workers, NEW f \in Fd, NEW r \in Req, Writes(w, f, r) PROVE AnswersAreLate'
  <2>0. conns[w][f].replies \in Seq(Req) /\ got[r] \in Seq(Req)
    BY <1>b
  <2>1. \A q : Names(got'[r], q) <=> Names(got[r], q) \/ Names(conns[w][f].replies, q)
    BY <1>5, <2>0, NamesConcat DEF Writes
  <2>2. \A q, t \in Req : Names(got'[t], q) => Answered(q)
    <3>. SUFFICES ASSUME NEW q \in Req, NEW t \in Req, Names(got'[t], q) PROVE Answered(q)
      OBVIOUS
    <3>1. CASE t = r
      BY <2>1, <3>1 DEF Answered
    <3>2. CASE t # r
      BY <1>5, <3>2 DEF Answered, Writes
    <3>. QED  BY <3>1, <3>2
  <2>3. \A q \in Req, u \in Workers, g \in Fd : Names(conns'[u][g].replies, q) => Answered(q)
    BY <1>5, NamesNone DEF Writes, Answered
  <2>4. \A q \in Req : Now(q) => Answered(q)
    BY <2>2, <2>3
  <2>. QED  BY <2>4, <1>1, <1>2
<1>. HIDE DEF Now
<1>6. ASSUME NEW w \in Workers, NEW f \in Fd, ReadRequest(w, f) PROVE AnswersAreLate'
  <2>1. CASE Fewer
    BY <2>1, <1>3
  <2>2. CASE ~Fewer
    <3>1. cmd[sock[f]][1] # "offer" /\ Lists(w, f, sock[f])
      BY <1>6, <2>2, ReadLists
    <3>2. sock[f] \in Req /\ Late(sock[f])
      BY <1>6, <3>1, NewAnswers DEF Late
    <3>. QED  BY <3>1, <3>2, <1>4
  <2>. QED  BY <2>1, <2>2
<1>7. ASSUME NEW w \in Workers, RtcMsgBack(w) PROVE AnswersAreLate'
  <2>1. CASE Fewer
    BY <2>1, <1>3
  <2>2. CASE ~Fewer
    <3>1. PICK f \in Fd : /\ qReply[w] # <<>> /\ qReply'[w] = Tail(qReply[w])
                          /\ Lists(w, f, Head(qReply[w]).req)
      BY <1>7, <2>2, BackLists
    <3>2. Head(qReply[w]).req \in Req /\ Late(Head(qReply[w]).req)
      BY <1>7, <3>1, NewAnswers DEF Late
    <3>. QED  BY <3>1, <3>2, <1>4
  <2>. QED  BY <2>1, <2>2
<1>8. ASSUME NEW w \in Workers, NEW f \in Fd, WriteReply(w, f) PROVE AnswersAreLate'
  BY <1>8, <1>3, <1>5, WriteWrites
<1>. QED  BY <1>3, <1>6, <1>7, <1>8, OthersFewer

-----------------------------------------------------------------------------
(* OneAnswer *)

LEMMA OneAnswerStep == Base /\ MessageInv /\ AnswersAreLate /\ OneAnswer /\ [Next]_vars => OneAnswer'
<1>. SUFFICES ASSUME Base, MessageInv, AnswersAreLate, OneAnswer, [Next]_vars PROVE OneAnswer'
  OBVIOUS
<1>b. /\ \A w \in Workers, f \in Fd : conns[w][f].replies \in Seq(Req)
      /\ \A r \in Req : got[r] \in Seq(Req)
  BY Fields DEF Base, TypeOK
<1>1. ASSUME Fewer PROVE OneAnswer'
  <2>1. /\ got' = got
        /\ \A w \in Workers, f \in Fd : NoTwice(conns[w][f].replies) => NoTwice(conns'[w][f].replies)
        /\ \A w \in Workers, f \in Fd, q \in Req : Names(conns'[w][f].replies, q) => Names(conns[w][f].replies, q)
    BY <1>1, NamesNone DEF Fewer
  <2>. QED  BY <2>1 DEF OneAnswer
<1>2. ASSUME NEW w \in Workers, NEW f \in Fd, NEW x \in Req, Lists(w, f, x), ~Answered(x) PROVE OneAnswer'
  <2>0. conns[w][f].replies \in Seq(Req) /\ got' = got
    BY <1>2, <1>b DEF Lists
  <2>1. \A q : Names(conns'[w][f].replies, q) <=> Names(conns[w][f].replies, q) \/ q = x
    BY <1>2, <2>0, NamesAppend DEF Lists
  <2>2. NoTwice(conns'[w][f].replies)
    BY <1>2, <2>0, NamesAppend DEF Lists, OneAnswer, Answered
  <2>3. /\ \A r \in Req : ~Names(got[r], x)
        /\ \A u \in Workers, g \in Fd : ~Names(conns[u][g].replies, x)
    BY <1>2 DEF Answered
  <2>4. \A u \in Workers, g \in Fd, q \in Req :
          Names(conns'[u][g].replies, q) =>
            IF q = x THEN u = w /\ g = f ELSE Names(conns[u][g].replies, q)
    BY <1>2, <2>1, <2>3 DEF Lists
  <2>5. \A u \in Workers, g \in Fd : NoTwice(conns'[u][g].replies)
    BY <1>2, <2>2 DEF Lists, OneAnswer
  <2>6. \A q \in Req, v, u \in Workers, h, g \in Fd :
          Names(conns'[v][h].replies, q) /\ Names(conns'[u][g].replies, q) => v = u /\ h = g
    BY <2>4 DEF OneAnswer
  <2>7. \A q, r \in Req, v \in Workers, g \in Fd : ~(Names(conns'[v][g].replies, q) /\ Names(got[r], q))
    BY <2>3, <2>4 DEF OneAnswer
  <2>. QED  BY <2>0, <2>5, <2>6, <2>7 DEF OneAnswer
<1>3. ASSUME NEW w \in Workers, NEW f \in Fd, NEW r \in Req, Writes(w, f, r) PROVE OneAnswer'
  <2>0. conns[w][f].replies \in Seq(Req) /\ got[r] \in Seq(Req)
    BY <1>b
  <2>1. \A q : Names(got'[r], q) <=> Names(got[r], q) \/ Names(conns[w][f].replies, q)
    BY <1>3, <2>0, NamesConcat DEF Writes
  <2>2. NoTwice(got'[r])
    BY <1>3, <2>0, NamesConcat DEF Writes, OneAnswer
  <2>3. \A t \in Req : NoTwice(got'[t])
    BY <1>3, <2>2 DEF Writes, OneAnswer
  <2>4. \A u \in Workers, g \in Fd : NoTwice(conns'[u][g].replies)
    BY <1>3, NamesNone DEF Writes, OneAnswer
  <2>5. \A u \in Workers, g \in Fd, q \in Req :
          Names(conns'[u][g].replies, q) => Names(conns[u][g].replies, q) /\ ~(u = w /\ g = f)
    BY <1>3, NamesNone DEF Writes
  <2>6. \A t \in Req, q \in Req :
          Names(got'[t], q) => Names(got[t], q) \/ (t = r /\ Names(conns[w][f].replies, q))
    BY <1>3, <2>1 DEF Writes
  <2>7. \A q, s, t \in Req : Names(got'[s], q) /\ Names(got'[t], q) => s = t
    <3>1. \A q, s, t \in Req : Names(got[s], q) /\ Names(got[t], q) => s = t
      BY DEF OneAnswer
    <3>2. \A q, s \in Req : ~(Names(conns[w][f].replies, q) /\ Names(got[s], q))
      BY DEF OneAnswer
    <3>. QED  BY <2>6, <3>1, <3>2
  <2>8. \A q \in Req, v, u \in Workers, h, g \in Fd :
          Names(conns'[v][h].replies, q) /\ Names(conns'[u][g].replies, q) => v = u /\ h = g
    BY <2>5 DEF OneAnswer
  <2>9. \A q, s \in Req, v \in Workers, g \in Fd : ~(Names(conns'[v][g].replies, q) /\ Names(got'[s], q))
    <3>1. \A q \in Req, u \in Workers, g \in Fd :
            Names(conns[u][g].replies, q) /\ Names(conns[w][f].replies, q) => u = w /\ g = f
      BY DEF OneAnswer
    <3>2. \A q, s \in Req, u \in Workers, g \in Fd : ~(Names(conns[u][g].replies, q) /\ Names(got[s], q))
      BY DEF OneAnswer
    <3>. QED  BY <2>5, <2>6, <3>1, <3>2
  <2>. QED  BY <2>3, <2>4, <2>7, <2>8, <2>9 DEF OneAnswer
<1>6. ASSUME NEW w \in Workers, NEW f \in Fd, ReadRequest(w, f) PROVE OneAnswer'
  <2>1. CASE Fewer
    BY <2>1, <1>1
  <2>2. CASE ~Fewer
    <3>1. cmd[sock[f]][1] # "offer" /\ Lists(w, f, sock[f])
      BY <1>6, <2>2, ReadLists
    <3>2. sock[f] \in Req /\ ~Answered(sock[f])
      BY <1>6, <3>1, NewAnswers
    <3>. QED  BY <3>1, <3>2, <1>2
  <2>. QED  BY <2>1, <2>2
<1>7. ASSUME NEW w \in Workers, RtcMsgBack(w) PROVE OneAnswer'
  <2>1. CASE Fewer
    BY <2>1, <1>1
  <2>2. CASE ~Fewer
    <3>1. PICK f \in Fd : /\ qReply[w] # <<>> /\ qReply'[w] = Tail(qReply[w])
                          /\ Lists(w, f, Head(qReply[w]).req)
      BY <1>7, <2>2, BackLists
    <3>2. Head(qReply[w]).req \in Req /\ ~Answered(Head(qReply[w]).req)
      BY <1>7, <3>1, NewAnswers
    <3>. QED  BY <3>1, <3>2, <1>2
  <2>. QED  BY <2>1, <2>2
<1>8. ASSUME NEW w \in Workers, NEW f \in Fd, WriteReply(w, f) PROVE OneAnswer'
  BY <1>8, <1>1, <1>3, WriteWrites
<1>. QED  BY <1>1, <1>6, <1>7, <1>8, OthersFewer

LEMMA InitAnswers == Init => AnswersAreLate /\ OneAnswer
<1>. SUFFICES ASSUME Init PROVE AnswersAreLate /\ OneAnswer
  OBVIOUS
<1>1. /\ \A r \in Req : got[r] = <<>>
      /\ \A w \in Workers, f \in Fd : conns[w][f].replies = <<>>
  BY NoConnFields DEF Init
<1>2. AnswersAreLate
  BY <1>1, NamesNone DEF AnswersAreLate, Answered
<1>3. OneAnswer
  BY <1>1, NamesNone DEF OneAnswer
<1>. QED  BY <1>2, <1>3

-----------------------------------------------------------------------------
(* ConnectionsAreSound *)

LEMMA Places ==
  ASSUME NEW q \in Req
  PROVE  /\ \A x \in Written(q) : \E r \in Req : \E i \in DOMAIN got[r] : x = <<r, i>> /\ got[r][i] = q
         /\ \A x \in Listed(q) : \E w \in Workers, f \in Fd : \E i \in DOMAIN conns[w][f].replies :
              /\ x = << <<w, f>>, i>>
              /\ conns[w][f].replies[i] = q
<1>1. ASSUME NEW x \in Written(q)
      PROVE  \E r \in Req : \E i \in DOMAIN got[r] : x = <<r, i>> /\ got[r][i] = q
  <2>1. PICK r \in Req : x \in {r} \X {i \in DOMAIN got[r] : got[r][i] = q}
    BY DEF Written
  <2>2. PICK i : x = <<r, i>> /\ i \in DOMAIN got[r] /\ got[r][i] = q
    BY <2>1
  <2>. QED  BY <2>2
<1>2. ASSUME NEW x \in Listed(q)
      PROVE  \E w \in Workers, f \in Fd : \E i \in DOMAIN conns[w][f].replies :
               /\ x = << <<w, f>>, i>>
               /\ conns[w][f].replies[i] = q
  <2>1. PICK w \in Workers, f \in Fd : x \in {<<w, f>>} \X ListedAt(w, f, q)
    BY DEF Listed
  <2>2. PICK i : x = << <<w, f>>, i>> /\ i \in ListedAt(w, f, q)
    BY <2>1
  <2>. QED  BY <2>2 DEF ListedAt
<1>. QED  BY <1>1, <1>2

LEMMA AtMostOne ==
  ASSUME NEW S, \A x, y \in S : x = y
  PROVE  S = {} \/ \E x : S = {x}
OBVIOUS

\* One occurrence of an answer is one place.
LEMMA AnswerIsOne == Base /\ OneAnswer => AnsweredOnce
<1>. SUFFICES ASSUME Base, OneAnswer, NEW q \in Req
              PROVE  Cardinality(Written(q)) + Cardinality(Listed(q)) <= 1
  BY DEF AnsweredOnce
<1>b. /\ \A w \in Workers, f \in Fd : DOMAIN conns[w][f].replies = 1 .. Len(conns[w][f].replies)
      /\ \A r \in Req : DOMAIN got[r] = 1 .. Len(got[r])
  BY Fields, Elements DEF Base, TypeOK
<1>1. \A x, y \in Written(q) : x = y
  <2>. SUFFICES ASSUME NEW x \in Written(q), NEW y \in Written(q) PROVE x = y
    OBVIOUS
  <2>1p. PICK r \in Req : \E i \in DOMAIN got[r] : x = <<r, i>> /\ got[r][i] = q
    BY Places
  <2>1. PICK i \in DOMAIN got[r] : x = <<r, i>> /\ got[r][i] = q
    BY <2>1p
  <2>2p. PICK t \in Req : \E j \in DOMAIN got[t] : y = <<t, j>> /\ got[t][j] = q
    BY Places
  <2>2. PICK j \in DOMAIN got[t] : y = <<t, j>> /\ got[t][j] = q
    BY <2>2p
  <2>3. r = t
    BY <2>1, <2>2, <1>b DEF OneAnswer, Names
  <2>4. i = j
    BY <2>1, <2>2, <2>3, <1>b DEF OneAnswer, NoTwice
  <2>. QED  BY <2>1, <2>2, <2>3, <2>4
<1>2. \A x, y \in Listed(q) : x = y
  <2>. SUFFICES ASSUME NEW x \in Listed(q), NEW y \in Listed(q) PROVE x = y
    OBVIOUS
  <2>1p. PICK w \in Workers, f \in Fd : \E i \in DOMAIN conns[w][f].replies :
              /\ x = << <<w, f>>, i>>
              /\ conns[w][f].replies[i] = q
    BY Places
  <2>1. PICK i \in DOMAIN conns[w][f].replies :
              /\ x = << <<w, f>>, i>>
              /\ conns[w][f].replies[i] = q
    BY <2>1p
  <2>2p. PICK u \in Workers, g \in Fd : \E j \in DOMAIN conns[u][g].replies :
              /\ y = << <<u, g>>, j>>
              /\ conns[u][g].replies[j] = q
    BY Places
  <2>2. PICK j \in DOMAIN conns[u][g].replies :
              /\ y = << <<u, g>>, j>>
              /\ conns[u][g].replies[j] = q
    BY <2>2p
  <2>3. w = u /\ f = g
    BY <2>1, <2>2, <1>b DEF OneAnswer, Names
  <2>4. NoTwice(conns[w][f].replies)
    BY DEF OneAnswer
  <2>5. /\ i \in 1 .. Len(conns[w][f].replies) /\ j \in 1 .. Len(conns[w][f].replies)
        /\ conns[w][f].replies[i] = q /\ conns[w][f].replies[j] = q
    BY <2>1, <2>2, <2>3, <1>b
  <2>6. i = j
    BY <2>4, <2>5 DEF NoTwice
  <2>. QED  BY <2>1, <2>2, <2>3, <2>6
<1>3. Written(q) = {} \/ Listed(q) = {}
  <2>. SUFFICES ASSUME NEW x \in Written(q), NEW y \in Listed(q) PROVE FALSE
    OBVIOUS
  <2>1p. PICK r \in Req : \E i \in DOMAIN got[r] : x = <<r, i>> /\ got[r][i] = q
    BY Places
  <2>1. PICK i \in DOMAIN got[r] : x = <<r, i>> /\ got[r][i] = q
    BY <2>1p
  <2>2p. PICK w \in Workers, f \in Fd : \E j \in DOMAIN conns[w][f].replies :
              /\ y = << <<w, f>>, j>>
              /\ conns[w][f].replies[j] = q
    BY Places
  <2>2. PICK j \in DOMAIN conns[w][f].replies :
              /\ y = << <<w, f>>, j>>
              /\ conns[w][f].replies[j] = q
    BY <2>2p
  <2>. QED  BY <2>1, <2>2, <1>b DEF OneAnswer, Names
<1>4. Cardinality(Written(q)) \in {0, 1} /\ (Written(q) = {} => Cardinality(Written(q)) = 0)
  BY <1>1, AtMostOne, FS_Singleton, FS_EmptySet
<1>5. Cardinality(Listed(q)) \in {0, 1} /\ (Listed(q) = {} => Cardinality(Listed(q)) = 0)
  BY <1>2, AtMostOne, FS_Singleton, FS_EmptySet
<1>. QED  BY <1>3, <1>4, <1>5

AnswerInv == Base /\ MessageInv /\ AnswersAreLate /\ OneAnswer

LEMMA AnswerInvariant == Spec => []AnswerInv
<1>1. Init => AnswerInv
  BY InitBase, InitMessages, InitAnswers DEF AnswerInv
<1>2. AnswerInv /\ [Next]_vars => AnswerInv'
  BY BaseStep, MessageStep, LateStep, OneAnswerStep DEF AnswerInv
<1>. QED  BY <1>1, <1>2, PTL DEF Spec

\* ConnectionsAreSound: a descriptor is queued for or open at one worker, and a
\* request's answer is in one place, listed once or read once by one client,
\* whatever closes the connection meanwhile and however late the offer comes.
THEOREM ConnectionsStaySound == Spec => []ConnectionsAreSound
<1>1. AnswerInv => ConnectionsAreSound
  BY OwnershipIsOne, AnswerIsOne DEF AnswerInv, Base, ConnectionsAreSound
<1>. QED  BY <1>1, AnswerInvariant, PTL

-----------------------------------------------------------------------------
(* OrderInv *)

LEMMA NotThere == ASSUME NEW s, NEW q, NEW r, ~Has(s, r) PROVE Before(s, q, r)
BY DEF Has, Before

LEMMA BeforeAppend ==
  ASSUME NEW s \in Seq(Message), NEW m \in Message, NEW q, NEW r,
         Before(s, q, r), m.req # r \/ Has(s, q)
  PROVE  Before(Append(s, m), q, r)
<1>1. /\ Len(s) \in Nat /\ Len(Append(s, m)) = Len(s) + 1
      /\ \A i \in 1 .. Len(s) : Append(s, m)[i] = s[i]
      /\ Append(s, m)[Len(s) + 1] = m
  BY Appended
<1>. SUFFICES ASSUME NEW i \in 1 .. Len(Append(s, m)), Append(s, m)[i].req = r
              PROVE  \E j \in 1 .. i - 1 : Append(s, m)[j].req = q
  BY DEF Before
<1>2. CASE i \in 1 .. Len(s)
  <2>1. PICK j \in 1 .. i - 1 : s[j].req = q
    BY <1>1, <1>2 DEF Before
  <2>2. j \in 1 .. Len(s)
    BY <1>1, <1>2
  <2>. QED  BY <1>1, <2>1, <2>2
<1>3. CASE i = Len(s) + 1
  <2>1. Has(s, q)
    BY <1>1, <1>3
  <2>2. PICK j \in 1 .. Len(s) : s[j].req = q
    BY <2>1 DEF Has
  <2>3. j \in 1 .. i - 1
    BY <1>1, <1>3
  <2>. QED  BY <1>1, <2>2, <2>3
<1>. QED  BY <1>1, <1>2, <1>3

LEMMA BeforeTail ==
  ASSUME NEW s \in Seq(Message), s # <<>>, NEW q, NEW r, Before(s, q, r), Head(s).req # q
  PROVE  Before(Tail(s), q, r) /\ Head(s).req # r
<1>1. /\ Len(s) \in Nat /\ Len(s) >= 1 /\ Len(Tail(s)) = Len(s) - 1 /\ Head(s) = s[1]
      /\ \A i \in 1 .. Len(s) - 1 : Tail(s)[i] = s[i + 1]
  BY Taken
<1>2. ASSUME NEW i \in 1 .. Len(Tail(s)), Tail(s)[i].req = r
      PROVE  \E j \in 1 .. i - 1 : Tail(s)[j].req = q
  <2>1. i + 1 \in 1 .. Len(s) /\ s[i + 1].req = r
    BY <1>1, <1>2
  <2>2. PICK j \in 1 .. (i + 1) - 1 : s[j].req = q
    BY <2>1 DEF Before
  <2>3. j # 1
    BY <1>1, <2>2
  <2>4. j - 1 \in 1 .. i - 1 /\ Tail(s)[j - 1] = s[j]
    BY <1>1, <2>3
  <2>. QED  BY <2>2, <2>4
<1>3. Head(s).req # r
  <2>. SUFFICES ASSUME s[1].req = r PROVE FALSE
    BY <1>1
  <2>1. 1 \in 1 .. Len(s)
    BY <1>1
  <2>2. \E j \in 1 .. 1 - 1 : s[j].req = q
    BY <2>1 DEF Before
  <2>. QED  BY <2>2
<1>. QED  BY <1>2, <1>3 DEF Before

\* A reply that was read stays read.
LEMMA GotKept ==
  ASSUME Base, [Next]_vars, NEW r \in Req, NEW q, Names(got[r], q)
  PROVE  Names(got'[r], q)
<1>b. /\ \A w \in Workers, f \in Fd : conns[w][f].replies \in Seq(Req)
      /\ \A t \in Req : got[t] \in Seq(Req)
  BY Fields DEF Base, TypeOK
<1>1. ASSUME got' = got PROVE Names(got'[r], q)
  BY <1>1
<1>2. ASSUME NEW w \in Workers, NEW f \in Fd, NEW t \in Req, Writes(w, f, t) PROVE Names(got'[r], q)
  <2>1. CASE r = t
    <3>1. got'[r] = got[r] \o conns[w][f].replies
      BY <1>2, <2>1 DEF Writes
    <3>. QED  BY <3>1, <1>b, NamesConcat
  <2>2. CASE r # t
    BY <1>2, <2>2 DEF Writes
  <2>. QED  BY <2>1, <2>2
<1>3. ASSUME NEW w \in Workers, NEW f \in Fd, ReadRequest(w, f) PROVE Names(got'[r], q)
  BY <1>1, <1>3 DEF ReadRequest, clientVars
<1>4. ASSUME NEW w \in Workers, RtcMsgBack(w) PROVE Names(got'[r], q)
  BY <1>1, <1>4 DEF RtcMsgBack, clientVars
<1>5. ASSUME Fewer PROVE Names(got'[r], q)
  BY <1>1, <1>5 DEF Fewer
<1>6. ASSUME NEW w \in Workers, NEW f \in Fd, WriteReply(w, f) PROVE Names(got'[r], q)
  BY <1>6, <1>2, <1>5, WriteWrites
<1>. QED  BY <1>3, <1>4, <1>5, <1>6, OthersFewer

LEMMA SeenKept ==
  ASSUME [Next]_vars, \A r \in Req : ~SendRequest(r)
  PROVE  seen' = seen
<1>1. ASSUME NEW r \in Req, Connect(r) \/ Leave(r) PROVE seen' = seen
  BY <1>1 DEF Connect, Leave
<1>2. ASSUME Accept \/ RtcServerMsg \/ CertFails PROVE seen' = seen
  BY <1>2 DEF Accept, RtcServerMsg, CertFails, clientVars
<1>3. ASSUME NEW w \in Workers, NewConn(w) \/ RtcMsgBack(w) PROVE seen' = seen
  BY <1>3 DEF NewConn, RtcMsgBack, clientVars
<1>4. ASSUME NEW w \in Workers, NEW f \in Fd, ConnStep(w, f) \/ Timeout(w, f) PROVE seen' = seen
  BY <1>4 DEF ConnStep, ReadRequest, ReadFails, WriteReply, WriteFails, Timeout, clientVars
<1>5. ASSUME NEW t \in Thread, Notify(t) PROVE seen' = seen
  BY <1>5 DEF Notify, clientVars
<1>6. ASSUME NEW v \in RW, RtcWorkerMsg(v) PROVE seen' = seen
  BY <1>6 DEF RtcWorkerMsg, clientVars
<1>7. ASSUME UNCHANGED vars PROVE seen' = seen
  BY <1>7 DEF vars, clientVars
<1>. QED  BY <1>1, <1>2, <1>3, <1>4, <1>5, <1>6, <1>7 DEF Next, ClientStep

\* Where a request that was answered before another is sent waits.
LEMMA SeenFacts ==
  ASSUME AnswerInv, OrderInv, NEW r \in Req, NEW q \in seen[r]
  PROVE  /\ q \in Req /\ cmd[q] # None /\ cmd[r] # None /\ q \notin Fresh
         /\ Names(got[q], q) /\ (Done(q) \/ Waiting(q)) /\ At(q) \in RW
<1>. USE DEF AnswerInv, Base
<1>1. q \in Req /\ Names(got[q], q)
  BY DEF OrderInv, TypeOK
<1>2. Answered(q)
  BY <1>1 DEF Answered
<1>3. cmd[q] # None /\ q \notin Fresh /\ (Done(q) \/ Waiting(q))
  BY <1>1, <1>2 DEF AnswersAreLate
<1>4. cmd[r] # None
  BY DEF OnePlace
<1>5. At(q) \in RW
  <2>1. cmd[q] \in Command \X Streams
    BY <1>1, <1>3 DEF TypeOK
  <2>. QED  BY <2>1, WorkersAssumption DEF At
<1>. QED  BY <1>1, <1>3, <1>4, <1>5

\* What was ahead stays ahead in a step that sends no request.
LEMMA AheadKept ==
  ASSUME AnswerInv, OrderInv, [Next]_vars, NEW r \in Req, NEW q \in seen[r], SameStream(q, r),
         q \notin applied' \cup dropped', ~Done(q)
  PROVE  /\ Has(qWork'[At(q)], q) \/ Before(qRtc', q, r)
         /\ Before(qWork'[At(q)], q, r)
<1>. DEFINE a == At(q)
            Goal == /\ Has(qWork'[a], q) \/ Before(qRtc', q, r)
                    /\ Before(qWork'[a], q, r)
<1>0. Base /\ MessageInv /\ AnswersAreLate
  BY DEF AnswerInv
<1>a. q \in Req /\ a \in RW /\ Waiting(q)
  BY SeenFacts
<1>b. qRtc \in Seq(Message) /\ \A v \in RW : qWork[v] \in Seq(Message)
  BY <1>0 DEF Base, TypeOK
<1>c. (Has(qWork[a], q) \/ Before(qRtc, q, r)) /\ Before(qWork[a], q, r)
  BY DEF OrderInv
<1>. HIDE DEF a
<1>1. ASSUME UNCHANGED <<qRtc, qWork, applied, dropped>> PROVE Goal
  BY <1>1, <1>c
<1>2. ASSUME NEW w \in Workers, NEW f \in Fd, ReadRequest(w, f) PROVE Goal
  <2>1. qWork' = qWork
    BY <1>2 DEF ReadRequest
  <2>2. PICK m \in Message :
          /\ qRtc' = Append(qRtc, m)
          /\ m.req = sock[f]
          /\ m.worker # None => cmd[m.req][1] = "offer" /\ m.conn # None /\ m.fd # None
          /\ owes' = [owes EXCEPT ![w] = <<Rs, "msg">>]
    BY <1>0, <1>2, ReadMessage DEF Base
  <2>3. CASE Has(qWork[a], q)
    BY <2>1, <2>3, <1>c
  <2>4. CASE ~Has(qWork[a], q)
    <3>1. Before(qRtc, q, r)
      BY <2>4, <1>c
    <3>2. Has(qRtc, q)
      <4>1. \A v \in RW : Has(qWork[v], q) => v = At(q)
        BY <1>0, <1>a, InQueues DEF MessageInv
      <4>. QED  BY <4>1, <2>4, <1>a DEF Waiting, a
    <3>3. Before(qRtc', q, r)
      BY <2>2, <3>1, <3>2, <1>b, BeforeAppend
    <3>. QED  BY <2>1, <3>3, <1>c
  <2>. QED  BY <2>3, <2>4
<1>3. ASSUME RtcServerMsg, ~UNCHANGED <<qRtc, qWork>> PROVE Goal
  <2>1. PICK m \in Message, v \in RW :
          /\ qRtc # <<>> /\ m = Head(qRtc) /\ v = Route(m) /\ m.req \in Req
          /\ qRtc' = Tail(qRtc)
          /\ qWork'[v] = Append(qWork[v], m)
          /\ \A u \in RW : u # v => qWork'[u] = qWork[u]
    BY <1>0, <1>3, RouteEffect
  <2>7. Has(qWork'[v], q) <=> Has(qWork[v], q) \/ q = m.req
    BY <2>1, <1>b, HasAppend
  <2>2. Has(qWork[a], q) => Has(qWork'[a], q)
    <3>1. CASE a = v
      BY <2>7, <3>1
    <3>2. CASE a # v
      BY <2>1, <3>2, <1>a
    <3>. QED  BY <3>1, <3>2
  <2>3. ASSUME m.req # r \/ Has(qWork[a], q) PROVE Before(qWork'[a], q, r)
    <3>1. CASE a = v
      BY <2>1, <2>3, <3>1, <1>b, <1>c, BeforeAppend
    <3>2. CASE a # v
      BY <2>1, <3>2, <1>a, <1>c
    <3>. QED  BY <3>1, <3>2
  <2>4. CASE Has(qWork[a], q)
    BY <2>2, <2>3, <2>4
  <2>5. CASE ~Has(qWork[a], q) /\ m.req # q
    <3>1. Before(qRtc', q, r) /\ m.req # r
      BY <2>1, <2>5, <1>b, <1>c, BeforeTail
    <3>. QED  BY <2>3, <3>1
  <2>6. CASE ~Has(qWork[a], q) /\ m.req = q
    <3>1. a = v
      BY <2>1, <2>6 DEF a, At, Route
    <3>2. Has(qWork'[a], q)
      BY <2>6, <2>7, <3>1
    <3>3. q # r
      <4>1. 1 \in 1 .. Len(qRtc) /\ qRtc[1].req = q
        BY <2>1, <2>6, <1>b, InTail
      <4>2. q = r => \E j \in 1 .. 1 - 1 : qRtc[j].req = q
        BY <4>1, <2>6, <1>c DEF Before
      <4>. QED  BY <4>2
    <3>. QED  BY <2>3, <2>6, <3>2, <3>3
  <2>. QED  BY <2>4, <2>5, <2>6
<1>4. ASSUME CertFails PROVE Goal
  <2>1. qWork' = qWork
    BY <1>0, <1>4, CertEffect
  <2>2. PICK m \in Message :
              /\ qRtc # <<>> /\ m = Head(qRtc) /\ m.req \in Req
              /\ qRtc' = Tail(qRtc)
              /\ dropped' = dropped \cup {m.req}
    BY <1>0, <1>4, CertEffect
  <2>3. m.req # q
    BY <2>2
  <2>4. Before(qRtc, q, r) => Before(qRtc', q, r)
    BY <2>2, <2>3, <1>b, BeforeTail
  <2>. QED  BY <2>1, <2>4, <1>c
<1>5. ASSUME NEW v \in RW, RtcWorkerMsg(v), ~UNCHANGED <<qWork, qReply, applied>> PROVE Goal
  <2>1. qRtc' = qRtc
    BY <1>0, <1>5, ApplyEffect
  <2>2. PICK m \in Message : Takes(v, m) /\ Returns(m) /\ applied' = applied \cup {m.req}
    BY <1>0, <1>5, ApplyEffect
  <2>t. /\ qWork[v] # <<>> /\ m = Head(qWork[v]) /\ m.req \in Req
        /\ qWork'[v] = Tail(qWork[v]) /\ applied' = applied \cup {m.req}
        /\ \A u \in RW : u # v => qWork'[u] = qWork[u]
    BY <2>2 DEF Takes
  <2>3. m.req # q
    BY <2>t
  <2>4. CASE a = v
    <3>1. Before(qWork'[a], q, r)
      BY <2>t, <2>3, <2>4, <1>b, <1>c, BeforeTail, SMTT(30)
    <3>2. Has(qWork[a], q) => Has(qWork'[a], q)
      BY <2>t, <2>3, <2>4, <1>b, HasTail, SMTT(30)
    <3>. QED  BY <2>1, <3>1, <3>2, <1>c
  <2>5. CASE a # v
    BY <2>1, <2>t, <2>5, <1>a, <1>c
  <2>. QED  BY <2>4, <2>5
<1>6. ASSUME RtcServerMsg PROVE Goal
  <2>1. UNCHANGED <<applied, dropped>>
    BY <1>0, <1>6, RouteEffect
  <2>. QED  BY <2>1, <1>1, <1>3, <1>6
<1>7. ASSUME NEW v \in RW, RtcWorkerMsg(v) PROVE Goal
  <2>1. UNCHANGED <<qRtc, dropped>>
    BY <1>0, <1>7, ApplyEffect
  <2>. QED  BY <2>1, <1>1, <1>5, <1>7
<1>8. Goal
  BY <1>1, <1>2, <1>4, <1>6, <1>7, QueuesKept
<1>. QED  BY <1>8 DEF a

LEMMA OrderStep == AnswerInv /\ OrderInv /\ [Next]_vars => OrderInv'
<1>. SUFFICES ASSUME AnswerInv, OrderInv, [Next]_vars PROVE OrderInv'
  OBVIOUS
<1>. DEFINE Ahead(q, r) ==
              /\ Names(got'[q], q)
              /\ cmd'[q][2] = cmd'[r][2] /\ q \notin applied' \cup dropped' =>
                   /\ Has(qWork'[HashOf[cmd'[q][2]]], q) \/ Before(qRtc', q, r)
                   /\ Before(qWork'[HashOf[cmd'[q][2]]], q, r)
<1>0. Base /\ MessageInv /\ AnswersAreLate /\ TypeOK
  BY DEF AnswerInv, Base
<1>1. ASSUME \A r \in Req : \A q \in seen'[r] : Ahead(q, r) PROVE OrderInv'
  BY <1>1 DEF OrderInv, SameStream, At, Done
<1>2. ASSUME NEW r \in Req, NEW q \in seen[r] PROVE Ahead(q, r)
  <2>1. /\ q \in Req /\ cmd[q] # None /\ cmd[r] # None
        /\ Names(got[q], q) /\ (Done(q) \/ Waiting(q))
    BY <1>2, SeenFacts
  <2>2. cmd'[q] = cmd[q] /\ cmd'[r] = cmd[r]
    BY <1>0, <2>1, CmdKept
  <2>3. Names(got'[q], q)
    BY <1>0, <2>1, GotKept
  <2>4. applied \subseteq applied' /\ dropped \subseteq dropped'
    <3>1. applied \subseteq applied'
      BY <1>0, <2>1, UnderWay
    <3>2. ASSUME CertFails PROVE dropped \subseteq dropped'
      BY <1>0, <3>2, CertEffect
    <3>3. ASSUME RtcServerMsg PROVE dropped \subseteq dropped'
      BY <1>0, <3>3, RouteEffect
    <3>4. ASSUME NEW v \in RW, RtcWorkerMsg(v) PROVE dropped \subseteq dropped'
      BY <1>0, <3>4, ApplyEffect
    <3>5. ASSUME NEW w \in Workers, NEW f \in Fd, ReadRequest(w, f) PROVE dropped \subseteq dropped'
      BY <3>5 DEF ReadRequest, historyVars
    <3>6. dropped \subseteq dropped'
      BY <3>2, <3>3, <3>4, <3>5, QueuesKept
    <3>. QED  BY <3>1, <3>6
  <2>5. ASSUME cmd'[q][2] = cmd'[r][2], q \notin applied' \cup dropped'
        PROVE  /\ Has(qWork'[HashOf[cmd'[q][2]]], q) \/ Before(qRtc', q, r)
               /\ Before(qWork'[HashOf[cmd'[q][2]]], q, r)
    <3>1. ~Done(q) /\ SameStream(q, r)
      BY <2>2, <2>4, <2>5 DEF Done, SameStream
    <3>2. At(q) = HashOf[cmd'[q][2]]
      BY <2>2 DEF At
    <3>. QED  BY <2>5, <3>1, <3>2, <1>2, AheadKept
  <2>. QED  BY <2>3, <2>5
<1>. HIDE DEF Ahead
<1>3. CASE \A r \in Req : ~SendRequest(r)
  BY <1>1, <1>2, <1>3, SeenKept
<1>4. ASSUME NEW t \in Req, SendRequest(t) PROVE OrderInv'
  <2>1. /\ seen' = [seen EXCEPT ![t] = {q \in Req : \E i \in DOMAIN got[q] : got[q][i] = q}]
        /\ UNCHANGED <<got, qRtc, qWork, applied, dropped>>
        /\ cmd[t] = None
    BY <1>0, <1>4 DEF SendRequest, queueVars, historyVars, Base, OnePlace
  <2>2. \A r \in Req : r # t => seen'[r] = seen[r]
    BY <1>0, <2>1 DEF TypeOK
  <2>3. ASSUME NEW q \in seen'[t] PROVE Ahead(q, t)
    <3>1. q \in Req /\ \E i \in DOMAIN got[q] : got[q][i] = q
      BY <1>0, <2>1, <2>3 DEF TypeOK
    <3>2. Names(got[q], q)
      <4>1. got[q] \in Seq(Req)
        BY <1>0, <3>1 DEF TypeOK
      <4>2. DOMAIN got[q] = 1 .. Len(got[q])
        BY <4>1, Elements
      <4>. QED  BY <3>1, <4>2 DEF Names
    <3>3. Answered(q)
      BY <3>1, <3>2 DEF Answered
    <3>4. cmd[q] # None
      BY <1>0, <3>1, <3>3 DEF AnswersAreLate
    <3>5. HashOf[cmd'[q][2]] \in RW
      <4>1. cmd'[q] = cmd[q] /\ cmd[q] \in Command \X Streams
        BY <1>0, <3>1, <3>4, CmdKept DEF TypeOK
      <4>. QED  BY <4>1, WorkersAssumption
    <3>6. ~Has(qRtc, t) /\ ~Has(qWork[HashOf[cmd'[q][2]]], t)
      BY <1>0, <2>1, <3>5, InQueues DEF MessageInv
    <3>7. Before(qRtc, q, t) /\ Before(qWork[HashOf[cmd'[q][2]]], q, t)
      BY <3>6, NotThere
    <3>. QED  BY <2>1, <3>2, <3>7 DEF Ahead
  <2>. QED  BY <1>1, <1>2, <2>2, <2>3
<1>. QED  BY <1>3, <1>4

LEMMA OrderInvariant == Spec => [](AnswerInv /\ OrderInv)
<1>1. Init => AnswerInv /\ OrderInv
  <2>1. ASSUME Init PROVE OrderInv
    BY <2>1 DEF Init, OrderInv
  <2>. QED  BY <2>1, InitBase, InitMessages, InitAnswers DEF AnswerInv
<1>2. AnswerInv /\ OrderInv /\ [Next]_vars => (AnswerInv /\ OrderInv)'
  BY OrderStep, BaseStep, MessageStep, LateStep, OneAnswerStep DEF AnswerInv
<1>. QED  BY <1>1, <1>2, PTL DEF Spec

\* Whoever's request is next in a worker's queue has nobody to wait for.
LEMMA NextIsInOrder ==
  ASSUME AnswerInv, OrderInv, NEW v \in RW, qWork[v] # <<>>,
         NEW r \in Req, Head(qWork[v]).req = r,
         NEW q \in seen[r], SameStream(q, r)
  PROVE  Done(q)
<1>. SUFFICES ASSUME ~Done(q) PROVE FALSE
  OBVIOUS
<1>1. qWork[v] \in Seq(Message) /\ Base /\ SoundQueues
  BY DEF AnswerInv, MessageInv, Base, TypeOK
<1>2. 1 \in 1 .. Len(qWork[v]) /\ qWork[v][1].req = r
  BY <1>1, InTail
<1>3. v = At(r)
  <2>1. Has(qWork[v], r)
    BY <1>2 DEF Has
  <2>. QED  BY <2>1, <1>1, InQueues
<1>4. Before(qWork[v], q, r)
  BY <1>3 DEF OrderInv, SameStream, At
<1>. QED  BY <1>2, <1>4 DEF Before

\* AppliedInOrder: a request whose client was answered before another was sent
\* for the same stream is run, or dropped, before the other is run, whichever
\* workers read them.
THEOREM RequestsAreAppliedInOrder == Spec => AppliedInOrder
<1>1. AnswerInv /\ OrderInv /\ [Next]_vars =>
        [\A r \in applied' \ applied : \A q \in seen[r] :
           cmd[q][2] = cmd[r][2] => q \in applied \cup dropped]_vars
  <2>. SUFFICES ASSUME AnswerInv, OrderInv, [Next]_vars,
                       NEW r \in applied' \ applied, NEW q \in seen[r], SameStream(q, r), ~Done(q)
                PROVE  FALSE
    BY DEF Done, SameStream
  <2>0. Base
    BY DEF AnswerInv
  <2>1. ASSUME NEW v \in RW, RtcWorkerMsg(v) PROVE FALSE
    <3>1. PICK m \in Message : Takes(v, m) /\ applied' = applied \cup {m.req}
      BY <2>0, <2>1, ApplyEffect
    <3>2. qWork[v] # <<>> /\ r \in Req /\ Head(qWork[v]).req = r
      BY <3>1 DEF Takes
    <3>. QED  BY <3>2, NextIsInOrder
  <2>2. ASSUME RtcServerMsg \/ CertFails PROVE FALSE
    BY <2>0, <2>2, RouteEffect, CertEffect
  <2>3. ASSUME NEW w \in Workers, NEW f \in Fd, ReadRequest(w, f) PROVE FALSE
    BY <2>3 DEF ReadRequest, historyVars
  <2>. QED  BY <2>1, <2>2, <2>3, QueuesKept
<1>. QED  BY <1>1, OrderInvariant, PTL DEF Spec, AppliedInOrder

-----------------------------------------------------------------------------
(* Refinement: SignalPath implements RequestService. *)

\* A step that neither sends a request, applies or drops one, nor writes replies.
LEMMA ServiceKept ==
  ASSUME Base, [Next]_vars, \A r \in Req : ~SendRequest(r), ~CertFails,
         \A v \in RW : ~RtcWorkerMsg(v), \A w \in Workers, f \in Fd : ~WriteReply(w, f)
  PROVE  UNCHANGED Service!vars
<1>. DEFINE Same == UNCHANGED <<cmd, got, seen, applied, dropped>>
<1>1. ASSUME NEW r \in Req, Connect(r) \/ Leave(r) PROVE Same
  BY <1>1 DEF Connect, Leave, historyVars
<1>2. ASSUME Accept PROVE Same
  BY <1>2 DEF Accept, clientVars, historyVars
<1>3. ASSUME RtcServerMsg PROVE Same
  BY <1>3, RouteEffect
<1>4. ASSUME NEW w \in Workers, NewConn(w) \/ RtcMsgBack(w) PROVE Same
  BY <1>4 DEF NewConn, RtcMsgBack, clientVars, historyVars
<1>5. ASSUME NEW w \in Workers, NEW f \in Fd,
             ReadRequest(w, f) \/ ReadFails(w, f) \/ WriteFails(w, f) \/ Timeout(w, f) PROVE Same
  BY <1>5 DEF ReadRequest, ReadFails, WriteFails, Timeout, clientVars, historyVars
<1>6. ASSUME NEW t \in Thread, Notify(t) PROVE Same
  BY <1>6 DEF Notify, clientVars, historyVars
<1>7. ASSUME UNCHANGED vars PROVE Same
  BY <1>7 DEF vars, clientVars, historyVars
<1>. HIDE DEF Same
<1>8. Same
  BY <1>1, <1>2, <1>3, <1>4, <1>5, <1>6, <1>7 DEF Next, ClientStep, ConnStep
<1>. QED  BY <1>8 DEF Same, Service!vars

\* A request that waits is pending, and stays so until it is applied or dropped.
LEMMA WaitingIsPending ==
  ASSUME Base, MessageInv, NEW r \in Req, Waiting(r)
  PROVE  Service!Pending(r)
<1>1. cmd[r] # None
  BY InQueues DEF MessageInv, Waiting
<1>2. ~Done(r)
  BY DEF MessageInv, OneMessage
<1>. QED  BY <1>1, <1>2 DEF Service!Pending, Done

\* A step of a worker applies the request at the head of its queue, or none.
LEMMA WorkerApplies ==
  ASSUME AnswerInv, OrderInv, NEW v \in RW, RtcWorkerMsg(v)
  PROVE  Service!Next \/ UNCHANGED Service!vars
<1>1. Base /\ MessageInv
  BY DEF AnswerInv
<1>2. UNCHANGED <<cmd, seen, got, dropped>>
  BY <1>1, ApplyEffect
<1>3. CASE applied' = applied
  BY <1>2, <1>3 DEF Service!vars
<1>4. CASE applied' # applied
  <2>1. PICK m \in Message : Takes(v, m) /\ applied' = applied \cup {m.req}
    BY <1>1, <1>4, ApplyEffect
  <2>2. qWork[v] # <<>> /\ m.req \in Req /\ Head(qWork[v]).req = m.req
    BY <2>1 DEF Takes
  <2>3. Service!Pending(m.req)
    <3>1. qWork[v] \in Seq(Message)
      BY <1>1 DEF Base, TypeOK
    <3>2. Waiting(m.req)
      BY <2>2, <3>1, InTail DEF Waiting, Has
    <3>. QED  BY <1>1, <2>2, <3>2, WaitingIsPending
  <2>4. \A q \in seen[m.req] : cmd[q][2] = cmd[m.req][2] => q \in applied \cup dropped
    BY <2>2, NextIsInOrder DEF SameStream, Done
  <2>5. Service!Apply(m.req)
    BY <1>2, <2>1, <2>3, <2>4 DEF Service!Apply
  <2>. QED  BY <2>2, <2>5 DEF Service!Next
<1>. QED  BY <1>3, <1>4

LEMMA CertDrops ==
  ASSUME Base, MessageInv, CertFails
  PROVE  Service!Next
<1>1. UNCHANGED <<cmd, seen, got, applied>>
  BY CertEffect
<1>2. PICK m \in Message : /\ qRtc # <<>> /\ m = Head(qRtc) /\ m.req \in Req
                           /\ dropped' = dropped \cup {m.req}
  BY CertEffect
<1>3. Service!Pending(m.req)
  <2>1. qRtc \in Seq(Message)
    BY DEF Base, TypeOK
  <2>2. Waiting(m.req)
    BY <1>2, <2>1, InTail DEF Waiting, Has
  <2>. QED  BY <1>2, <2>2, WaitingIsPending
<1>. QED  BY <1>1, <1>2, <1>3 DEF Service!Next, Service!Drop

\* What a connection lists is answerable, and listed once.
LEMMA ListedIsAnswerable ==
  ASSUME AnswerInv, NEW w \in Workers, NEW f \in Fd, NEW q \in Req, Names(conns[w][f].replies, q)
  PROVE  Service!Answerable(q)
<1>1. AnswersAreLate /\ OneAnswer /\ \A r \in Req : got[r] \in Seq(Req)
  BY DEF AnswerInv, Base, TypeOK
<1>2. cmd[q] # None /\ (cmd[q][1] = "offer" => q \in applied)
  BY <1>1 DEF AnswersAreLate, Answered
<1>3. ASSUME NEW r \in Req, NEW i \in DOMAIN got[r], got[r][i] = q PROVE FALSE
  <2>1. Names(got[r], q)
    BY <1>1, <1>3, Elements DEF Names
  <2>. QED  BY <1>1, <2>1 DEF OneAnswer
<1>. QED  BY <1>2, <1>3 DEF Service!Answerable, Service!Reads

\* What a concatenation is longer by is its second part.
LEMMA Longer ==
  ASSUME NEW S, NEW s \in Seq(S), NEW t \in Seq(S), NEW u, u = s \o t
  PROVE  [i \in 1 .. Len(u) - Len(s) |-> u[Len(s) + i]] = t
<1>1. /\ Len(s) \in Nat /\ Len(t) \in Nat /\ Len(u) = Len(s) + Len(t)
      /\ \A i \in 1 .. Len(s) + Len(t) : u[i] = IF i <= Len(s) THEN s[i] ELSE t[i - Len(s)]
  BY ConcatProperties, LenProperties
<1>2. Len(u) - Len(s) = Len(t)
  BY <1>1
<1>3. ASSUME NEW i \in 1 .. Len(t) PROVE u[Len(s) + i] = t[i]
  <2>1. Len(s) + i \in 1 .. Len(s) + Len(t) /\ ~(Len(s) + i <= Len(s)) /\ (Len(s) + i) - Len(s) = i
    BY <1>1
  <2>. QED  BY <1>1, <2>1
<1>4. t = [i \in 1 .. Len(t) |-> t[i]]
  BY LenProperties
<1>. QED  BY <1>2, <1>3, <1>4

LEMMA WriteAnswers ==
  ASSUME AnswerInv, NEW w \in Workers, NEW f \in Fd, WriteReply(w, f)
  PROVE  Service!Next \/ UNCHANGED Service!vars
<1>. DEFINE list == conns[w][f].replies
<1>1. Base /\ OneAnswer /\ TypeOK
  BY DEF AnswerInv, Base
<1>2. UNCHANGED <<cmd, seen, applied, dropped>>
  BY DEF WriteReply, historyVars
<1>3. PICK r \in Req : r = sock[f]
  BY <1>1, OpenHasClient DEF Base, WriteReply
<1>4. CASE client[r] = "left"
  BY <1>2, <1>3, <1>4 DEF WriteReply, Service!vars
<1>5. CASE client[r] # "left"
  <2>1. got' = [got EXCEPT ![r] = @ \o list]
    BY <1>3, <1>5 DEF WriteReply
  <2>2. got[r] \in Seq(Req) /\ list \in Seq(Req)
    BY <1>1, Fields DEF TypeOK
  <2>3. got'[r] = got[r] \o list
    BY <1>1, <2>1 DEF TypeOK
  <2>4. DOMAIN list = 1 .. Len(list) /\ \A i \in DOMAIN list : list[i] \in Req /\ Names(list, list[i])
    BY <2>2, Elements DEF Names
  <2>5. \A i \in DOMAIN list : Service!Answerable(list[i])
    BY <2>4, ListedIsAnswerable
  <2>6. \A i, j \in DOMAIN list : list[i] = list[j] => i = j
    BY <1>1, <2>4 DEF OneAnswer, NoTwice
  <2>. DEFINE more == [i \in 1 .. Len(got'[r]) - Len(got[r]) |-> got'[r][Len(got[r]) + i]]
  <2>7. more = list
    <3>. HIDE DEF list
    <3>1. PICK u, s : u = got'[r] /\ s = got[r]
      OBVIOUS
    <3>2. [i \in 1 .. Len(u) - Len(s) |-> u[Len(s) + i]] = list
      BY <2>2, <2>3, <3>1, Longer
    <3>. QED  BY <3>1, <3>2
  <2>. HIDE DEF list, more
  <2>8. /\ got' = [got EXCEPT ![r] = @ \o more]
        /\ \A i \in DOMAIN more : Service!Answerable(more[i])
        /\ \A i, j \in DOMAIN more : more[i] = more[j] => i = j
    BY <2>1, <2>5, <2>6, <2>7
  <2>9. Service!Answer(r)
    BY <1>2, <2>8, Zenon DEF more, Service!Answer
  <2>. QED  BY <2>9 DEF Service!Next
<1>. QED  BY <1>4, <1>5

LEMMA SendAsks ==
  ASSUME Base, NEW r \in Req, SendRequest(r)
  PROVE  Service!Next
<1>1. cmd[r] = None
  BY DEF SendRequest, Base, OnePlace
<1>2. Service!Ask(r)
  BY <1>1 DEF SendRequest, historyVars, Command, Service!Ask, Service!Reads
<1>. QED  BY <1>2 DEF Service!Next

\* ServesRequests: for any clients and threads, what the signaling workers, RtcServer
\* and the RtcWorkers do together is a behaviour of RequestService: each request
\* is applied once, in the order of its stream, and each answered once, an offer
\* only when it was applied.
THEOREM ThreadsServeRequests == Spec => ServesRequests
<1>1. Init => Service!Init
  BY DEF Init, Service!Init
<1>2. AnswerInv /\ OrderInv /\ [Next]_vars => [Service!Next]_(Service!vars)
  <2>. SUFFICES ASSUME AnswerInv, OrderInv, [Next]_vars PROVE Service!Next \/ UNCHANGED Service!vars
    OBVIOUS
  <2>1. Base /\ MessageInv
    BY DEF AnswerInv
  <2>2. CASE \E r \in Req : SendRequest(r)
    BY <2>1, <2>2, SendAsks
  <2>3. CASE CertFails
    BY <2>1, <2>3, CertDrops
  <2>4. CASE \E v \in RW : RtcWorkerMsg(v)
    BY <2>4, WorkerApplies
  <2>5. CASE \E w \in Workers, f \in Fd : WriteReply(w, f)
    BY <2>5, WriteAnswers
  <2>. QED  BY <2>1, <2>2, <2>3, <2>4, <2>5, ServiceKept
<1>. QED  BY <1>1, <1>2, OrderInvariant, PTL DEF Spec, ServesRequests, Service!Spec

=============================================================================
