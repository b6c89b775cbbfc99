------------------------------- MODULE PushPage -------------------------------
(***************************************************************************)
(* The page that pushes this computer's screen                             *)
(* (src/signaling/fronted/src/views/desktops/push-view.vue): a request for *)
(* an offer, a connection, the screen-sharing extension's dialog, two      *)
(* captures, an answer, and an end at any moment.  Every callback is a     *)
(* step of its own and reads this.pc as it is when it runs, not as it was  *)
(* when it was asked for.  The gateway, the extension and the browser are  *)
(* the environment; a closed connection settles none of its promises.      *)
(***************************************************************************)
EXTENDS Sequences, Naturals

CONSTANTS
    MaxPcs,         \* bound on connections made over the life of the page
    MaxFlows        \* bound on dialogs, captures and replies under way at once

Pcs == 1 .. MaxPcs
NoPc == 0

VARIABLES
    mounted,        \* the page is there; refs exist as long
    listening,      \* the window's message listener
    loading,        \* the Start button spins and takes no click
    pushRequest,    \* the reply to /signaling/push is awaited
    cur,            \* this.pc
    made,           \* connections made so far
    conn,           \* pc -> its state
    dialogs,        \* screen-sharing dialogs that are open
    screens,        \* getUserMedia of the screen, unanswered
    sounds,         \* getUserMedia of the microphone, unanswered
    localStream,
    answerReplies,  \* /signaling/sendanswer, unanswered
    intervals,      \* statistics timers that run
    statsInterval,  \* one of them is remembered
    refused         \* something the page asked for was refused or failed

requestVars == <<loading, pushRequest>>
captureVars == <<dialogs, screens, sounds, localStream>>
statsVars == <<answerReplies, intervals, statsInterval>>
pushVars == <<mounted, listening, requestVars, cur, made, conn, captureVars, statsVars, refused>>

ClosedPc == [live |-> FALSE, signaling |-> "stable", remote |-> "none",
           media |-> FALSE, chain |-> <<>>, answers |-> 0]

PushInit ==
    /\ mounted = TRUE /\ listening = TRUE
    /\ loading = FALSE /\ pushRequest = FALSE
    /\ cur = NoPc /\ made = 0
    /\ conn = [k \in Pcs |-> ClosedPc]
    /\ dialogs = 0 /\ screens = 0 /\ sounds = 0 /\ localStream = FALSE
    /\ answerReplies = 0 /\ intervals = 0 /\ statsInterval = FALSE
    /\ refused = FALSE

-------------------------------------------------------------------------------
\* The Start button.
StartPush ==
    /\ mounted /\ ~loading
    /\ made < MaxPcs
    /\ loading' = TRUE /\ pushRequest' = TRUE
    /\ UNCHANGED <<mounted, listening, cur, made, conn, captureVars, statsVars, refused>>

\* A new connection takes the place of the old one, which is not closed.
PushStream ==
    /\ made' = made + 1
    /\ cur' = made + 1
    /\ conn' = [conn EXCEPT ![made + 1] =
                  [ClosedPc EXCEPT !.live = TRUE, !.remote = "pending"]]

\* An offer, a refusal, or an HTTP error, for which there is no callback.
PushReply ==
    /\ pushRequest
    /\ pushRequest' = FALSE
    /\ \/ PushStream /\ loading' = FALSE /\ UNCHANGED refused
       \/ loading' \in BOOLEAN /\ refused' = TRUE /\ UNCHANGED <<cur, made, conn>>
    /\ UNCHANGED <<mounted, listening, captureVars, statsVars>>

\* pc.setRemoteDescription(offer) is settled; on success the page asks for the
\* screen.
RemoteDescriptionSet(k) ==
    /\ conn[k].live /\ conn[k].remote = "pending"
    /\ dialogs < MaxFlows
    /\ \/ /\ conn' = [conn EXCEPT ![k].remote = "set", ![k].signaling = "have-remote-offer"]
          /\ dialogs' = dialogs + 1
          /\ UNCHANGED refused
       \/ /\ conn' = [conn EXCEPT ![k].remote = "failed"]
          /\ refused' = TRUE
          /\ UNCHANGED dialogs
    /\ UNCHANGED <<mounted, listening, requestVars, cur, made, screens, sounds, localStream, statsVars>>

\* Mutant: while the page has a capture the dialog's result is dropped.
HandleWindowMessageIdle ==
    /\ dialogs > 0
    /\ dialogs' = dialogs - 1
    /\ \/ listening /\ screens' = (IF localStream THEN screens ELSE screens + 1) /\ UNCHANGED refused
       \/ ~listening /\ UNCHANGED <<screens, refused>>
       \/ refused' = TRUE /\ UNCHANGED screens
    /\ UNCHANGED <<mounted, listening, requestVars, cur, made, conn, sounds, localStream, statsVars>>

\* SS_DIALOG_SUCCESS or SS_DIALOG_CANCEL, if anyone still listens.
HandleWindowMessage ==
    /\ dialogs > 0
    /\ dialogs' = dialogs - 1
    /\ \/ listening /\ screens' = screens + 1 /\ UNCHANGED refused
       \/ ~listening /\ UNCHANGED <<screens, refused>>
       \/ refused' = TRUE /\ UNCHANGED screens
    /\ UNCHANGED <<mounted, listening, requestVars, cur, made, conn, sounds, localStream, statsVars>>

\* handleSuccess: there is a screen, now for the microphone.
ScreenCaptured ==
    /\ screens > 0
    /\ screens' = screens - 1
    /\ \/ sounds' = sounds + 1 /\ UNCHANGED refused
       \/ refused' = TRUE /\ UNCHANGED sounds
    /\ UNCHANGED <<mounted, listening, requestVars, cur, made, conn, dialogs, localStream, statsVars>>

\* Both are there.  Without the page the first statement throws, without a
\* connection the third; handleError takes the exception.
AudioCaptured ==
    /\ sounds > 0
    /\ sounds' = sounds - 1
    /\ \/ /\ localStream' = (localStream \/ mounted)
          /\ IF mounted /\ cur # NoPc
             THEN /\ conn' = [conn EXCEPT ![cur].media = TRUE, ![cur].chain = Append(@, "create")]
                  /\ UNCHANGED refused
             ELSE refused' = TRUE /\ UNCHANGED conn
       \/ refused' = TRUE /\ UNCHANGED <<localStream, conn>>
    /\ UNCHANGED <<mounted, listening, requestVars, cur, made, dialogs, screens, statsVars>>

\* The operations of a connection, setRemoteDescription before them, go one by one.
NextIs(k, op) ==
    /\ conn[k].live /\ conn[k].remote # "pending"
    /\ conn[k].chain # <<>> /\ Head(conn[k].chain) = op
Done(k) == [conn EXCEPT ![k].chain = Tail(@)]

\* createAnswer: the answer is set on whatever connection is current, and posted
\* without waiting.
AnswerCreated(k) ==
    /\ NextIs(k, "create")
    /\ IF conn[k].signaling = "have-remote-offer" /\ cur # NoPc
       THEN /\ answerReplies < MaxFlows
            /\ answerReplies' = answerReplies + 1
            /\ conn' = [Done(k) EXCEPT
                    ![k].answers = 1,
                    ![cur].chain = Append(@, IF cur = k THEN "local" ELSE "foreign")]
            /\ UNCHANGED refused
       ELSE /\ conn' = Done(k)
            /\ refused' = TRUE
            /\ UNCHANGED answerReplies
    /\ UNCHANGED <<mounted, listening, requestVars, cur, made, captureVars, intervals, statsInterval>>

\* setLocalDescription: a failure, as with another connection's answer or a second
\* one, is only reported.
LocalDescriptionSet(k) ==
    /\ \/ /\ NextIs(k, "local") /\ conn[k].signaling = "have-remote-offer"
          /\ conn' = [Done(k) EXCEPT ![k].signaling = "stable"]
       \/ (NextIs(k, "local") \/ NextIs(k, "foreign")) /\ conn' = Done(k)
    /\ UNCHANGED <<mounted, listening, requestVars, cur, made, captureVars, statsVars, refused>>

\* Every answer that is accepted starts a timer; only the last is remembered.
AnswerReply ==
    /\ answerReplies > 0
    /\ answerReplies' = answerReplies - 1
    /\ \/ intervals' = intervals + 1 /\ statsInterval' = TRUE /\ UNCHANGED refused
       \/ refused' = TRUE /\ UNCHANGED <<intervals, statsInterval>>
    /\ UNCHANGED <<mounted, listening, requestVars, cur, made, conn, captureVars>>

\* Stop: the capture, the connection and the timer that are remembered end.
StopAll ==
    /\ localStream' = FALSE
    /\ conn' = IF cur = NoPc THEN conn ELSE [conn EXCEPT ![cur].live = FALSE, ![cur].chain = <<>>]
    /\ cur' = NoPc
    /\ intervals' = IF statsInterval THEN intervals - 1 ELSE intervals
    /\ statsInterval' = FALSE
    /\ UNCHANGED <<requestVars, made, dialogs, screens, sounds, answerReplies, refused>>

StopPush == mounted /\ StopAll /\ UNCHANGED <<mounted, listening>>

PushUnmount ==
    /\ mounted
    /\ StopAll
    /\ mounted' = FALSE /\ listening' = FALSE

PushNext ==
    \/ StartPush \/ PushReply
    \/ \E k \in Pcs : RemoteDescriptionSet(k) \/ AnswerCreated(k) \/ LocalDescriptionSet(k)
    \/ HandleWindowMessage \/ ScreenCaptured \/ AudioCaptured \/ AnswerReply
    \/ StopPush \/ PushUnmount

\* The browser settles its promises and the user answers the dialogs.
PushFairness ==
    /\ \A k \in Pcs :
        /\ WF_pushVars(RemoteDescriptionSet(k)) /\ WF_pushVars(AnswerCreated(k))
        /\ WF_pushVars(LocalDescriptionSet(k))
    /\ WF_pushVars(HandleWindowMessage) /\ WF_pushVars(ScreenCaptured)
    /\ WF_pushVars(AudioCaptured) /\ WF_pushVars(AnswerReply)

-------------------------------------------------------------------------------
\* A connection that stays the page's own is answered in the end, though the
\* captures that lead to its answer may have been asked for by another one,
\* unless something was refused or the page is gone.
ConnectionIsAnswered ==
    \A k \in Pcs : cur = k ~> (conn[k].answers > 0 \/ cur # k \/ refused \/ ~mounted)
===============================================================================
