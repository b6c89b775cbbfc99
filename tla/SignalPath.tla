----------------------------- MODULE SignalPath -----------------------------
(***************************************************************************)
(* server/: the way of a client's request through the server's threads.    *)
(*                                                                         *)
(*   SignalingServer   accepts and deals connections out to the workers    *)
(*   SignalingWorker   reads a request, sends it to RtcServer, and writes  *)
(*                     the reply                                           *)
(*   RtcServer         hands the request to the RtcWorker its stream's     *)
(*                     name hashes to                                      *)
(*   RtcWorker         applies it to its streams; the offer of a push or   *)
(*                     a pull goes back to the SignalingWorker             *)
(*                                                                         *)
(* A thread sends in two steps: it puts the message in the receiver's      *)
(* queue (push_msg, produce) and then writes one int to its pipe           *)
(* (notify); the receiver takes at most one message per int.               *)
(*                                                                         *)
(* A request is one client with one TCP connection, as the clients of this *)
(* server are: connect, send one frame, read one reply, close.             *)
(***************************************************************************)
EXTENDS Naturals, Sequences, FiniteSets, SequencesExt

CONSTANTS Req,         \* requests
          Streams,     \* stream names
          SW, RW,      \* the SignalingWorkers, in order of creation; the RtcWorkers
          Ss, Rs,      \* the threads of SignalingServer and of RtcServer
          Fd,          \* file descriptors connections get
          Addr,        \* addresses TcpConnections get
          None,
          HashOf,      \* HashOf[s]: the worker crc32(s) % worker_num stands for
          CertMayFail  \* whether making a certificate may fail

Workers == Range(SW)
Thread == {Ss, Rs} \cup Workers \cup RW

\* CMDNO_PUSH and CMDNO_PULL are answered with an offer once the RtcWorker has
\* run; the other three are answered at once.
Command == {"offer", "immediate"}

ASSUME WorkersAssumption ==
  /\ SW \in Seq(Workers) /\ Len(SW) > 0
  /\ IsFiniteSet(RW) /\ HashOf \in [Streams -> RW]
ASSUME ThreadsAssumption ==
  /\ Ss # Rs /\ {Ss, Rs} \cap (Workers \cup RW) = {}
  /\ Workers \cap RW = {}
ASSUME CertAssumption == CertMayFail \in BOOLEAN
ASSUME NoneAssumption ==
  /\ None \notin Req \cup Fd \cup Addr \cup Workers
  /\ None \notin Command \X Streams
  /\ None \notin Thread \X {"conn", "msg"}

VARIABLES
  client,    \* [Req -> where the client is]
  cmd,       \* [Req -> its command and stream, once sent]
  got,       \* [Req -> the requests whose replies this client has read]
  backlog,   \* connections the kernel holds for accept()
  sock,      \* [Fd -> the client at the other end, None if closed]
  nextWorker,\* _next_worker_index
  pipe,      \* [Thread -> ints waiting in its pipe, by kind]
  owes,      \* [Thread -> the notify() it has yet to do, as <<thread, kind>>]
  qConn,     \* [worker -> _q_conn]
  qRtc,      \* RtcServer::_q_msg
  qWork,     \* [RtcWorker -> _q_msg]
  qReply,    \* [worker -> SignalingWorker::_q_msg]
  conns,     \* [worker -> [Fd -> _conns[fd]]]
  applied,   \* requests an RtcWorker has run
  dropped,   \* requests RtcServer dropped for want of a certificate
  seen       \* [Req -> the requests already answered when it was sent]

clientVars == <<client, cmd, got, seen>>
kernelVars == <<backlog, sock>>
queueVars == <<qConn, qRtc, qWork, qReply>>
historyVars == <<applied, dropped>>
vars == <<clientVars, kernelVars, nextWorker, pipe, owes, queueVars, conns,
          historyVars>>

\* RtcMsg: the request, and of an offer the connection to answer.
Message == [req : Req, worker : Workers \cup {None}, conn : Addr \cup {None},
            fd : Fd \cup {None}]

\* TcpConnection: its address, whether its one request was read, and the
\* replies in reply_list (each named by the request it answers).
NoConn == [addr |-> None, asked |-> FALSE, replies |-> <<>>]
Connection == [addr : Addr \cup {None}, asked : BOOLEAN, replies : Seq(Req)]

TypeOK ==
  /\ client \in [Req -> {"idle", "connected", "sent", "left"}]
  /\ cmd \in [Req -> (Command \X Streams) \cup {None}]
  /\ got \in [Req -> Seq(Req)]
  /\ seen \in [Req -> SUBSET Req]
  /\ backlog \in Seq(Req)
  /\ sock \in [Fd -> Req \cup {None}]
  /\ nextWorker \in 1..Len(SW)
  /\ pipe \in [Thread -> Seq({"conn", "msg"})]
  /\ owes \in [Thread -> (Thread \X {"conn", "msg"}) \cup {None}]
  /\ qConn \in [Workers -> Seq(Fd)]
  /\ qRtc \in Seq(Message)
  /\ qWork \in [RW -> Seq(Message)]
  /\ qReply \in [Workers -> Seq(Message)]
  /\ conns \in [Workers -> [Fd -> Connection]]
  /\ applied \subseteq Req /\ dropped \subseteq Req

Init ==
  /\ client = [r \in Req |-> "idle"]
  /\ cmd = [r \in Req |-> None]
  /\ got = [r \in Req |-> <<>>]
  /\ seen = [r \in Req |-> {}]
  /\ backlog = <<>>
  /\ sock = [f \in Fd |-> None]
  /\ nextWorker = 1
  /\ pipe = [t \in Thread |-> <<>>]
  /\ owes = [t \in Thread |-> None]
  /\ qConn = [w \in Workers |-> <<>>]
  /\ qRtc = <<>>
  /\ qWork = [v \in RW |-> <<>>]
  /\ qReply = [w \in Workers |-> <<>>]
  /\ conns = [w \in Workers |-> [f \in Fd |-> NoConn]]
  /\ applied = {}
  /\ dropped = {}

----------------------------------------------------------------------------
(* Clients *)

Connect(r) ==
  /\ client[r] = "idle"
  /\ client' = [client EXCEPT ![r] = "connected"]
  /\ backlog' = Append(backlog, r)
  /\ UNCHANGED <<cmd, got, seen, sock, nextWorker, pipe, owes, queueVars, conns,
                 historyVars>>

SendRequest(r) ==
  /\ client[r] = "connected"
  /\ \E c \in Command, s \in Streams : cmd' = [cmd EXCEPT ![r] = <<c, s>>]
  /\ client' = [client EXCEPT ![r] = "sent"]
  /\ seen' = [seen EXCEPT ![r] = {q \in Req : \E i \in DOMAIN got[q] : got[q][i] = q}]
  /\ UNCHANGED <<got, kernelVars, nextWorker, pipe, owes, queueVars, conns,
                 historyVars>>

\* The client closes its end, answered or not.
Leave(r) ==
  /\ client[r] \in {"connected", "sent"}
  /\ client' = [client EXCEPT ![r] = "left"]
  /\ UNCHANGED <<cmd, got, seen, kernelVars, nextWorker, pipe, owes, queueVars,
                 conns, historyVars>>

----------------------------------------------------------------------------
(* Sending between threads *)

Free(t) == owes[t] = None

\* A mutant: no int is written when one is waiting already.
NotifyCoalesced(t) ==
  /\ owes[t] # None
  /\ pipe' = [pipe EXCEPT ![owes[t][1]] = IF @ = <<>> THEN <<owes[t][2]>> ELSE @]
  /\ owes' = [owes EXCEPT ![t] = None]
  /\ UNCHANGED <<clientVars, kernelVars, nextWorker, queueVars, conns, historyVars>>

\* write() to the receiver's pipe, the second half of every send.
Notify(t) ==
  /\ owes[t] # None
  /\ pipe' = [pipe EXCEPT ![owes[t][1]] = Append(@, owes[t][2])]
  /\ owes' = [owes EXCEPT ![t] = None]
  /\ UNCHANGED <<clientVars, kernelVars, nextWorker, queueVars, conns, historyVars>>

\* The thread t, free, reads one int of the kind k from its pipe.
Reads(t, k) ==
  /\ Free(t)
  /\ pipe[t] # <<>> /\ Head(pipe[t]) = k
  /\ pipe' = [pipe EXCEPT ![t] = Tail(@)]

Owes(t, receiver, k) == owes' = [owes EXCEPT ![t] = <<receiver, k>>]

----------------------------------------------------------------------------
(* SignalingServer *)

\* accept_new_conn and _dispatch_new_conn: deal the connection to the next worker.
Accept ==
  /\ Free(Ss)
  /\ backlog # <<>>
  /\ \E f \in {g \in Fd : sock[g] = None} :
       /\ sock' = [sock EXCEPT ![f] = Head(backlog)]
       /\ qConn' = [qConn EXCEPT ![SW[nextWorker]] = Append(@, f)]
  /\ backlog' = Tail(backlog)
  /\ nextWorker' = IF nextWorker = Len(SW) THEN 1 ELSE nextWorker + 1
  /\ Owes(Ss, SW[nextWorker], "conn")
  /\ UNCHANGED <<clientVars, pipe, qRtc, qWork, qReply, conns, historyVars>>

----------------------------------------------------------------------------
(* SignalingWorker *)

Open(w, f) == conns[w][f].addr # None

\* The TcpConnection at an address some allocation may return now.
Held == {conns[w][f].addr : w \in Workers, f \in Fd} \ {None}

NewConn(w) ==
  /\ Reads(w, "conn")
  /\ IF qConn[w] = <<>> THEN UNCHANGED <<qConn, conns>>
     ELSE /\ qConn' = [qConn EXCEPT ![w] = Tail(@)]
          /\ \E a \in Addr \ Held :
               conns' = [conns EXCEPT ![w][Head(qConn[w])] = [NoConn EXCEPT !.addr = a]]
  /\ UNCHANGED <<clientVars, kernelVars, nextWorker, owes, qRtc, qWork, qReply,
                 historyVars>>

\* A mutant: the table keeps the closed connection.
CloseConnKeepsEntry(w, f) ==
  /\ sock' = [sock EXCEPT ![f] = None]
  /\ conns' = conns

\* close(fd) and _remove_conn; replies still listed are freed unsent.
CloseConn(w, f) ==
  /\ sock' = [sock EXCEPT ![f] = None]
  /\ conns' = [conns EXCEPT ![w][f] = NoConn]

\* _read_query with a whole frame in the socket: the request goes to RtcServer;
\* one that needs no offer has its reply listed at once.
ReadRequest(w, f) ==
  LET r == sock[f]
  IN /\ Free(w) /\ Open(w, f) /\ ~conns[w][f].asked
     /\ cmd[r] # None
     /\ qRtc' = Append(qRtc,
          IF cmd[r][1] = "offer"
            THEN [req |-> r, worker |-> w, conn |-> conns[w][f].addr, fd |-> f]
            ELSE [req |-> r, worker |-> None, conn |-> None, fd |-> None])
     /\ conns' = [conns EXCEPT ![w][f].asked = TRUE,
                               ![w][f].replies = IF cmd[r][1] = "offer" THEN @
                                                 ELSE Append(@, r)]
     /\ Owes(w, Rs, "msg")
     /\ UNCHANGED <<clientVars, kernelVars, nextWorker, pipe, qConn, qWork, qReply,
                    historyVars>>

\* _read_query at the end of the stream, or with a frame it cannot parse.
ReadFails(w, f) ==
  /\ Free(w) /\ Open(w, f)
  /\ \/ client[sock[f]] = "left"
     \/ cmd[sock[f]] # None /\ ~conns[w][f].asked
  /\ CloseConn(w, f)
  /\ UNCHANGED <<clientVars, backlog, nextWorker, pipe, owes, queueVars, historyVars>>

\* _process_timeout of a connection idle for connection_timeout.
Timeout(w, f) ==
  /\ Free(w) /\ Open(w, f)
  /\ CloseConn(w, f)
  /\ UNCHANGED <<clientVars, backlog, nextWorker, pipe, owes, queueVars, historyVars>>

\* _write_reply: the whole list, to a client that may no longer read.
WriteReply(w, f) ==
  LET r == sock[f]
  IN /\ Free(w) /\ Open(w, f) /\ conns[w][f].replies # <<>>
     /\ conns' = [conns EXCEPT ![w][f].replies = <<>>]
     /\ got' = IF client[r] = "left" THEN got
               ELSE [got EXCEPT ![r] = @ \o conns[w][f].replies]
     /\ UNCHANGED <<client, cmd, seen, kernelVars, nextWorker, pipe, owes,
                    queueVars, historyVars>>

\* The same when the peer is gone and write() returns an error.
WriteFails(w, f) ==
  /\ Free(w) /\ Open(w, f) /\ conns[w][f].replies # <<>>
  /\ client[sock[f]] = "left"
  /\ CloseConn(w, f)
  /\ UNCHANGED <<clientVars, backlog, nextWorker, pipe, owes, queueVars, historyVars>>

\* A mutant: the comparison the wrong way round.
AnswersInverted(w, m) == m.conn # None /\ conns[w][m.fd].addr # m.conn

\* _response_server_offer: the connection table must still hold the address the
\* request came with.
Answers(w, m) == m.conn # None /\ conns[w][m.fd].addr = m.conn

RtcMsgBack(w) ==
  /\ Reads(w, "msg")
  /\ IF qReply[w] = <<>> THEN UNCHANGED <<qReply, conns>>
     ELSE LET m == Head(qReply[w])
          IN /\ qReply' = [qReply EXCEPT ![w] = Tail(@)]
             /\ conns' = IF Answers(w, m)
                           THEN [conns EXCEPT ![w][m.fd].replies = Append(@, m.req)]
                           ELSE conns
  /\ UNCHANGED <<clientVars, kernelVars, nextWorker, owes, qConn, qRtc, qWork,
                 historyVars>>

----------------------------------------------------------------------------
(* RtcServer and RtcWorker *)

\* A mutant: to the worker with the fewest messages.
RouteToLeastLoaded(m) ==
  CHOOSE v \in RW : \A u \in RW : Len(qWork[v]) <= Len(qWork[u])

\* _process_rtc_msg: to the worker the stream's name hashes to.
Route(m) == HashOf[cmd[m.req][2]]

RtcServerMsg ==
  /\ Reads(Rs, "msg")
  /\ IF qRtc = <<>> THEN UNCHANGED <<qRtc, qWork, owes>>
     ELSE /\ qRtc' = Tail(qRtc)
          /\ qWork' = [qWork EXCEPT ![Route(Head(qRtc))] = Append(@, Head(qRtc))]
          /\ Owes(Rs, Route(Head(qRtc)), "msg")
  /\ UNCHANGED <<clientVars, kernelVars, nextWorker, qConn, qReply, conns, historyVars>>

\* The same when there is no certificate: the message is gone.
CertFails ==
  /\ CertMayFail
  /\ Reads(Rs, "msg")
  /\ qRtc # <<>>
  /\ qRtc' = Tail(qRtc)
  /\ dropped' = dropped \cup {Head(qRtc).req}
  /\ UNCHANGED <<clientVars, kernelVars, nextWorker, owes, qConn, qWork, qReply,
                 conns, applied>>

\* _process_rtc_msg: run the command; a push or a pull goes back, with an offer
\* or with err_no -1, to the worker it came from.
RtcWorkerMsg(v) ==
  /\ Reads(v, "msg")
  /\ IF qWork[v] = <<>> THEN UNCHANGED <<qWork, qReply, owes, applied>>
     ELSE LET m == Head(qWork[v])
          IN /\ qWork' = [qWork EXCEPT ![v] = Tail(@)]
             /\ applied' = applied \cup {m.req}
             /\ IF m.worker = None THEN UNCHANGED <<qReply, owes>>
                ELSE /\ qReply' = [qReply EXCEPT ![m.worker] = Append(@, m)]
                     /\ Owes(v, m.worker, "msg")
  /\ UNCHANGED <<clientVars, kernelVars, nextWorker, qConn, qRtc, conns, dropped>>

----------------------------------------------------------------------------

ClientStep == \E r \in Req : Connect(r) \/ SendRequest(r) \/ Leave(r)

ConnStep(w, f) ==
  \/ ReadRequest(w, f) \/ ReadFails(w, f)
  \/ WriteReply(w, f) \/ WriteFails(w, f)

Next ==
  \/ ClientStep
  \/ Accept
  \/ \E t \in Thread : Notify(t)
  \/ \E w \in Workers :
       \/ NewConn(w)
       \/ RtcMsgBack(w)
       \/ \E f \in Fd : ConnStep(w, f) \/ Timeout(w, f)
  \/ RtcServerMsg
  \/ CertFails
  \/ \E v \in RW : RtcWorkerMsg(v)

Spec == Init /\ [][Next]_vars

\* Each event loop keeps running: libev reports readable pipes and sockets for
\* as long as they are.  Clients and the clock owe nothing.
Fairness ==
  /\ WF_vars(Accept)
  /\ \A t \in Thread : WF_vars(Notify(t))
  /\ \A w \in Workers :
       /\ WF_vars(NewConn(w))
       /\ WF_vars(RtcMsgBack(w))
       /\ \A f \in Fd : WF_vars(ConnStep(w, f))
  /\ WF_vars(RtcServerMsg \/ CertFails)
  /\ \A v \in RW : WF_vars(RtcWorkerMsg(v))

FairSpec == Spec /\ Fairness
----------------------------------------------------------------------------
(* Safety *)

Tokens(t, k) == Cardinality({i \in DOMAIN pipe[t] : pipe[t][i] = k})
                  + Cardinality({u \in Thread : owes[u] = <<t, k>>})

\* The queues and the pipes agree: every message waiting in a queue has an int
\* in the receiver's pipe, or a sender about to write it, and no int is there
\* without a message.  Each process_notify takes one message per int, so a
\* message without one would wait for the next request.
OneTokenPerMessage ==
  /\ \A w \in Workers : Tokens(w, "conn") = Len(qConn[w])
  /\ \A w \in Workers : Tokens(w, "msg") = Len(qReply[w])
  /\ \A v \in RW : Tokens(v, "msg") = Len(qWork[v])
  /\ Tokens(Rs, "msg") = Len(qRtc)

\* A socket has one owner: an accepted fd is in one worker's _q_conn or in one
\* worker's _conns, never in both or in two, and nobody keeps an fd after
\* close(), which the next accept() may hand to another client.
Owners(f) ==
  {w \in Workers : Open(w, f)}
    \cup UNION {{w} \X {i \in DOMAIN qConn[w] : qConn[w][i] = f} : w \in Workers}
OneOwnerPerFd ==
  \A f \in Fd : Cardinality(Owners(f)) = IF sock[f] = None THEN 0 ELSE 1

\* The places where the answer to q is: what clients have read, what waits in a
\* connection's list.
Written(q) == UNION {{r} \X {i \in DOMAIN got[r] : got[r][i] = q} : r \in Req}
ListedAt(w, f, q) == {i \in DOMAIN conns[w][f].replies : conns[w][f].replies[i] = q}
Listed(q) == UNION {{<<w, f>>} \X ListedAt(w, f, q) : w \in Workers, f \in Fd}

\* A request is answered once, whoever reads the answer.
AnsweredOnce == \A q \in Req : Cardinality(Written(q)) + Cardinality(Listed(q)) <= 1

\* A connection and the list of replies it owes have one owner each, however
\* its timer, its client and its late offer come.
ConnectionsAreSound == TypeOK /\ OneOwnerPerFd /\ AnsweredOnce

\* What _response_server_offer's comment says it guards against: "the
\* connection may have been closed by the timeout once the request has been
\* processed".  A client reads the replies to its own request only.
OfferReachesRequester == \A r \in Req : \A i \in DOMAIN got[r] : got[r][i] = r

\* A client that was answered before another sent a request for the same stream
\* had its own request applied first, although an immediate reply comes before
\* the request has left the signaling worker, and two workers share RtcServer's
\* queue: nobody's stop or answer overtakes what it follows.
AppliedInOrder ==
  [][\A r \in applied' \ applied : \A q \in seen[r] :
       cmd[q][2] = cmd[r][2] => q \in applied \cup dropped]_vars

\* The threads, queues and connections together serve requests as
\* RequestService says: applied once and in that order, answered once, an offer
\* only when the request was applied, whatever times out or leaves meanwhile.
Service == INSTANCE RequestService WITH asked <- cmd, answers <- got, before <- seen
ServesRequests == Service!Spec

(* Liveness *)

Asked(r) == \E w \in Workers, f \in Fd : sock[f] = r /\ conns[w][f].asked

\* A client that stays is answered, unless its connection is timed out or its
\* request dropped.
RequestIsAnswered ==
  \A r \in Req : Asked(r) ~> \/ r \in dropped
                            \/ Written(r) # {}
                            \/ client[r] = "left"
                            \/ ~Asked(r)
=============================================================================
