------------------------------ MODULE ScreenShare ------------------------------
(***************************************************************************)
(* The demo page (src/screen_share/static/js/screen_share.js): two         *)
(* connections in one page, pc1 that pushes the screen and pc2 that shows  *)
(* it, negotiate with each other.  A browser runs the operations of a      *)
(* connection one after the other, in the order of the calls; a callback   *)
(* runs when its operation is done and uses pc1 and pc2 as they then are,  *)
(* null once stopped.                                                      *)
(***************************************************************************)
EXTENDS Naturals, Sequences

CONSTANTS
    MaxPushes,      \* bound on Push presses
    MaxPulls,       \* bound on Pull presses
    MaxCandidates   \* bound on the candidates a connection finds

Pc == {1, 2}
GetOther(i) == 3 - i

VARIABLES
    pushes, pulls,  \* presses so far
    asked,        \* screen-sharing dialogs that are open
    captures,       \* getUserMedia, unanswered
    alive,          \* pc -> it is not null
    queue,          \* pc -> its operations, the first one under way
    signaling,      \* pc -> "stable" or "offered"
    described,      \* pc -> the kinds of descriptions it has: "local", "remote"
    found,          \* pc -> candidates it has found
    remoteStream,   \* pc2 has announced the stream
    broken         \* the browser refused something, or a callback found null

pressVars == <<pushes, pulls, asked, captures>>
rtcVars == <<alive, queue, signaling, described>>
shareVars == <<pressVars, rtcVars, found, remoteStream, broken>>

ShareInit ==
    /\ pushes = 0 /\ pulls = 0 /\ asked = 0 /\ captures = 0
    /\ alive = [i \in Pc |-> TRUE]
    /\ queue = [i \in Pc |-> <<>>]
    /\ signaling = [i \in Pc |-> "stable"]
    /\ described = [i \in Pc |-> {}]
    /\ found = [i \in Pc |-> 0]
    /\ remoteStream = FALSE /\ broken = FALSE

\* The operations of two connections that a callback calls, in this order; at
\* the first that is null it throws.
Called(q, i, op) == [q EXCEPT ![i] = Append(@, op)]

-------------------------------------------------------------------------------
PressPush ==
    /\ pushes < MaxPushes
    /\ pushes' = pushes + 1 /\ asked' = asked + 1
    /\ UNCHANGED <<pulls, captures, rtcVars, found, remoteStream, broken>>

\* SS_DIALOG_SUCCESS or SS_DIALOG_CANCEL.
DialogAnswered ==
    /\ asked > 0 /\ asked' = asked - 1
    /\ captures' \in {captures, captures + 1}
    /\ UNCHANGED <<pushes, pulls, rtcVars, found, remoteStream, broken>>

\* handleSuccess or handleError.
Captured ==
    /\ captures > 0 /\ captures' = captures - 1
    /\ \/ /\ alive[1] /\ queue' = Called(queue, 1, "create")
          /\ UNCHANGED broken
       \/ broken' = TRUE /\ UNCHANGED queue
    /\ UNCHANGED <<pushes, pulls, asked, alive, signaling, described, found, remoteStream>>

PressPull ==
    /\ pulls < MaxPulls /\ pulls' = pulls + 1
    /\ IF alive[2] THEN queue' = Called(queue, 2, "create") /\ UNCHANGED broken
                   ELSE broken' = TRUE /\ UNCHANGED queue
    /\ UNCHANGED <<pushes, asked, captures, alive, signaling, described, found, remoteStream>>

\* stopPush and stopPull: the connection is closed for good, and with it
\* whatever it has under way.
StopPc(i) ==
    /\ alive[i]
    /\ alive' = [alive EXCEPT ![i] = FALSE]
    /\ queue' = [queue EXCEPT ![i] = <<>>]
    /\ UNCHANGED <<pressVars, signaling, described, found, remoteStream, broken>>

-------------------------------------------------------------------------------
\* Mutant: the other side is told only in the callback of setLocalDescription.
ExchangeLater(i, q) == Called(q, i, "local+")

\* onCreateOfferSuccess, onCreateAnswerSuccess: the description goes to both
\* connections in the same callback.
Exchange(i, q) ==
    IF alive[GetOther(i)] THEN Called(Called(q, i, "local"), GetOther(i), "remote")
                          ELSE Called(q, i, "local")

\* An offer can be created at any time, an answer to an offer.
CreateDone(i, q) ==
    IF i = 2 /\ signaling[2] = "stable" THEN queue' = q /\ UNCHANGED broken
    ELSE /\ queue' = Exchange(i, q)
         /\ broken' = (broken \/ ~alive[GetOther(i)])

\* A description is taken, if the state allows it: an answer needs an offer.
Offers(i, op) == (i = 1) = (op # "remote")

DescriptionDone(i, op) ==
    \/ /\ Offers(i, op) \/ signaling[i] = "offered"
       /\ signaling' = [signaling EXCEPT ![i] = IF Offers(i, op) THEN "offered" ELSE "stable"]
       /\ described' = [described EXCEPT ![i] = @ \cup {IF op = "remote" THEN op ELSE "local"}]
       /\ remoteStream' = (remoteStream \/ (i = 2 /\ op = "remote"))
       /\ UNCHANGED broken
    \/ /\ ~Offers(i, op) /\ signaling[i] = "stable"
       /\ UNCHANGED <<signaling, described, remoteStream, broken>>
    \/ broken' = TRUE /\ UNCHANGED <<signaling, described, remoteStream>>

\* The first operation of a connection is done.
OperationDone(i) ==
    /\ queue[i] # <<>>
    /\ LET op == Head(queue[i])
           rest == [queue EXCEPT ![i] = Tail(@)]
       IN \/ /\ op = "create" /\ CreateDone(i, rest)
             /\ UNCHANGED <<signaling, described, remoteStream>>
          \/ /\ op = "candidate" /\ queue' = rest
             /\ UNCHANGED <<signaling, described, remoteStream, broken>>
          \/ /\ op \in {"local", "local+", "remote"} /\ DescriptionDone(i, op)
             /\ queue' = IF op = "local+" /\ alive[GetOther(i)]
                         THEN Called(rest, GetOther(i), "remote") ELSE rest
    /\ UNCHANGED <<pressVars, alive, found>>

\* onIceCandidate: handed to the other connection, which may be null.
OnIceCandidate(i) ==
    /\ alive[i] /\ "local" \in described[i] /\ found[i] < MaxCandidates
    /\ found' = [found EXCEPT ![i] = @ + 1]
    /\ IF alive[GetOther(i)] THEN queue' = Called(queue, GetOther(i), "candidate") /\ UNCHANGED broken
                             ELSE broken' = TRUE /\ UNCHANGED queue
    /\ UNCHANGED <<pressVars, alive, signaling, described, remoteStream>>

ShareNext ==
    \/ PressPush \/ DialogAnswered \/ Captured \/ PressPull
    \/ \E i \in Pc : StopPc(i) \/ OperationDone(i) \/ OnIceCandidate(i)

-------------------------------------------------------------------------------
\* When both have nothing left to do they agree on whether an answer is due,
\* however presses, captures and callbacks were interleaved.
BothSidesAgree ==
    (\A i \in Pc : alive[i] /\ queue[i] = <<>>) /\ ~broken => signaling[1] = signaling[2]
===============================================================================
