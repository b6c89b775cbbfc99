---------------------------- MODULE QueryBuffer ----------------------------
(***************************************************************************)
(* server/signaling_worker.cpp, lines 102-176: how a SignalingWorker finds *)
(* a request in the bytes of one TCP connection.  A request is a header    *)
(* of fixed size, which gives the length of the body, and the body; both   *)
(* arrive in pieces of any size.  Only numbers of bytes are modelled: what *)
(* the code reads is always the beginning of the buffer.                   *)
(***************************************************************************)
EXTENDS Integers

CONSTANTS HeadSize,    \* XHEAD_SIZE
          BodyLengths, \* lengths of bodies
          ShortMark,   \* the 65535 that ends a short connection
          MaxSent,     \* bound: bytes a client sends
          MaxRuns      \* bound: times the request is run

ASSUME SizesAssumption ==
  /\ HeadSize \in Nat \ {0}
  /\ BodyLengths \subseteq Nat
  /\ ShortMark \in Nat /\ HeadSize < ShortMark
  /\ MaxSent \in Nat /\ MaxRuns \in Nat

VARIABLES
  request,    \* the client's: body_len, and what is wrong with it, if anything
  sent, gone, \* bytes the client has written; whether it has closed its side
  conn,       \* the TcpConnection waits, is in _process_query_buffer or deleted
  buffered,   \* sdslen(querybuf)
  state, expected, processed,  \* current_state, bytes_expected, bytes_processed
  runs        \* calls of _process_request

client == <<request, sent, gone>>
frame == <<state, expected, processed>>
vars == <<client, conn, buffered, frame, runs>>

Request == [body : BodyLengths, fault : {"none", "magic", "json"}]

TypeOK ==
  /\ request \in Request
  /\ sent \in 0 .. MaxSent /\ gone \in BOOLEAN
  /\ conn \in {"waiting", "busy", "closed"}
  /\ buffered \in 0 .. sent
  /\ \/ state = "head" /\ expected = HeadSize /\ processed = 0
     \/ state = "body" /\ expected = request.body /\ processed \in {HeadSize, ShortMark}
  /\ runs \in Nat

Init ==
  /\ request \in Request
  /\ sent = 0 /\ gone = FALSE
  /\ conn = "waiting" /\ buffered = 0
  /\ state = "head" /\ expected = HeadSize /\ processed = 0
  /\ runs = 0

----------------------------------------------------------------------------
(* The client *)

Send ==
  /\ ~gone
  /\ sent' \in sent + 1 .. MaxSent
  /\ UNCHANGED <<request, gone, conn, buffered, frame, runs>>

Leave ==
  /\ ~gone /\ gone' = TRUE
  /\ UNCHANGED <<request, sent, conn, buffered, frame, runs>>

----------------------------------------------------------------------------
(* The worker *)

\* What read() gives: at most what is expected, however much of it is there.
Readable == IF expected <= sent - buffered THEN expected ELSE sent - buffered

\* Mutant: a read only until as much has come as is expected next.
ReadExpectedOnce ==
  /\ conn = "waiting" /\ buffered < expected
  /\ Readable > 0
  /\ buffered' = buffered + Readable
  /\ conn' = "busy"
  /\ UNCHANGED <<client, frame, runs>>

\* _read_query: a read of nothing, which is the end of the stream or a read for
\* 0 bytes, is taken for a close.
ReadQuery ==
  /\ conn = "waiting"
  /\ sent > buffered \/ gone
  /\ buffered' = buffered + Readable
  /\ conn' = IF Readable > 0 THEN "busy" ELSE "closed"
  /\ UNCHANGED <<client, frame, runs>>

Complete == buffered >= processed + expected

\* The end of the loop of _process_query_buffer.
Wait ==
  /\ conn = "busy" /\ ~Complete
  /\ conn' = "waiting"
  /\ UNCHANGED <<client, buffered, frame, runs>>

\* Mutant: the last byte of the body is not awaited.
TakeHeadShort ==
  /\ conn = "busy" /\ Complete /\ state = "head"
  /\ state' = "body" /\ processed' = HeadSize /\ expected' = request.body - 1
  /\ UNCHANGED <<client, conn, buffered, runs>>

\* An iteration that finds the header: without the magic number, the connection
\* is closed.
TakeHead ==
  /\ conn = "busy" /\ Complete /\ state = "head"
  /\ \/ /\ request.fault # "magic"
        /\ state' = "body" /\ processed' = HeadSize /\ expected' = request.body
        /\ UNCHANGED conn
     \/ /\ request.fault = "magic"
        /\ conn' = "closed"
        /\ UNCHANGED frame
  /\ UNCHANGED <<client, buffered, runs>>

\* An iteration that finds the body: the request is run, and the mark put where
\* the next one is expected to begin.  A body that is no JSON closes.
Run ==
  /\ conn = "busy" /\ Complete /\ state = "body" /\ runs < MaxRuns
  /\ runs' = runs + 1
  /\ \/ request.fault # "json" /\ processed' = ShortMark /\ UNCHANGED conn
     \/ request.fault = "json" /\ conn' = "closed" /\ UNCHANGED processed
  /\ UNCHANGED <<client, buffered, state, expected>>

\* _process_timeout
Timeout ==
  /\ conn = "waiting"
  /\ conn' = "closed"
  /\ UNCHANGED <<client, buffered, frame, runs>>

Worker == ReadQuery \/ Wait \/ TakeHead \/ Run

Next == Send \/ Leave \/ Worker \/ Timeout

Spec == Init /\ [][Next]_vars

\* The event loop reports a readable socket until it has been read.
FairSpec == Spec /\ WF_vars(Worker)

----------------------------------------------------------------------------
(* Properties *)

\* A request is run once, as soon as its last byte has been read and not before,
\* however the bytes were cut; an empty body needs none.  What follows it is not
\* run while it stays short of the mark of line 171.
RunWhenComplete ==
  conn = "waiting" =>
    /\ runs = 0 <=> buffered < HeadSize + request.body
    /\ runs > 1 => buffered >= ShortMark + request.body

\* A well-formed request that was sent to its end is run, unless its connection
\* is closed before.
CompleteIsRun == sent >= HeadSize + request.body ~> runs > 0 \/ conn = "closed"

\* "Short connection" (line 170): a connection has one request run.
OneRequestPerConnection == runs <= 1
=============================================================================
