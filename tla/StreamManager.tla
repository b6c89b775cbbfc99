--------------------------- MODULE StreamManager ---------------------------
(***************************************************************************)
(* stream/rtc_stream_manager.cpp and stream/rtc_stream.cpp: the streams of *)
(* one RtcWorker.  A name has at most one PushStream and one PullStream in *)
(* the manager's two maps; everything here runs on the worker's event-loop *)
(* thread, one callback at a time, so each action is a whole callback.     *)
(*                                                                         *)
(* The callbacks that arrive from below are the state changes a stream's   *)
(* PeerConnection signals (TransportController::_update_state), the 30 s   *)
(* ICE timer, the 10 ms timer that deletes a PeerConnection, and packets.  *)
(***************************************************************************)
CONSTANTS Uid,        \* user ids
          Name,       \* stream names
          Stream,     \* addresses of stream objects (with their PeerConnection)
          Null,       \* no stream
          Pusher,     \* Pusher[n]: the users that push the stream named n
          Viewer      \* Viewer[n]: the users that pull it

ASSUME NullAssumption == Null \notin Stream
ASSUME UserAssumption == /\ Pusher \in [Name -> SUBSET Uid]
                         /\ Viewer \in [Name -> SUBSET Uid]

\* PeerConnectionState as far as the code tells it apart: k_new, k_connecting
\* and k_disconnected are all "unconnected".
PcState == {"unconnected", "connected", "failed"}

VARIABLES
  push, pull,   \* _push_streams and _pull_streams: [Name -> Stream or Null]
  obj,          \* the stream object at each address, Blank if there is none
  dying         \* deleted streams whose PeerConnection waits for its 10 ms timer

vars == <<push, pull, obj, dying>>

\* An object: what it was constructed with, RtcStream::_state, whether its ICE
\* timer is armed, and whether its transports were given an answer.
Object == [kind : {"push", "pull"}, uid : Uid, name : Name, state : PcState,
           timer : BOOLEAN, applied : BOOLEAN]
Blank == [kind |-> "none"]

live == {s \in Stream : obj[s].kind # "none"}

TypeOK ==
  /\ push \in [Name -> Stream \cup {Null}]
  /\ pull \in [Name -> Stream \cup {Null}]
  /\ obj \in [Stream -> Object \cup {Blank}]
  /\ dying \subseteq Stream \ live

Init ==
  /\ push = [n \in Name |-> Null]
  /\ pull = [n \in Name |-> Null]
  /\ obj = [s \in Stream |-> Blank]
  /\ dying = {}

----------------------------------------------------------------------------
(* Constructing and deleting streams *)

Unused == Stream \ (live \cup dying)

\* new PushStream / new PullStream, registered, started (which arms the ICE
\* timer) and offered.
NewObject(k, u, n) ==
  [kind |-> k, uid |-> u, name |-> n, state |-> "unconnected", timer |-> TRUE,
   applied |-> FALSE]

\* The objects once the streams in S are deleted (~RtcStream deletes the timer).
Without(S) == [s \in Stream |-> IF s \in S THEN Blank ELSE obj[s]]

\* Mutant: a stream is removed by its name alone.
OwnedByName(map, u, n) == {map[n]} \ {Null}

\* What _remove_push_stream(u, n) or _remove_pull_stream(u, n) finds to erase
\* and delete: at most one stream.
Owned(map, u, n) == {s \in {map[n]} \ {Null} : obj[s].uid = u}

Erase(map, S) == [n \in Name |-> IF map[n] \in S THEN Null ELSE map[n]]

Remove(S) ==
  /\ push' = Erase(push, S)
  /\ pull' = Erase(pull, S)
  /\ obj' = Without(S)
  /\ dying' = dying \cup S

Update(s, new) ==
  /\ obj' = [obj EXCEPT ![s] = new]
  /\ UNCHANGED <<push, pull, dying>>

----------------------------------------------------------------------------
(* Requests, from RtcWorker *)

\* Mutants: an old push stream, or the user's old pull stream, is overwritten only.
CreatePushKeepsOld(u, n, s) ==
  /\ u \in Pusher[n]
  /\ s \in Unused
  /\ push' = [push EXCEPT ![n] = s]
  /\ obj' = [obj EXCEPT ![s] = NewObject("push", u, n)]
  /\ UNCHANGED <<pull, dying>>
CreatePullKeepsOld(u, n, s) ==
  /\ u \in Viewer[n]
  /\ push[n] # Null
  /\ s \in Unused
  /\ pull' = [pull EXCEPT ![n] = s]
  /\ obj' = [obj EXCEPT ![s] = NewObject("pull", u, n)]
  /\ UNCHANGED <<push, dying>>

\* create_push_stream: whoever pushed that name before is replaced.
CreatePush(u, n, s) ==
  LET old == {push[n]} \ {Null} IN
  /\ u \in Pusher[n]
  /\ s \in Unused
  /\ push' = [push EXCEPT ![n] = s]
  /\ obj' = [Without(old) EXCEPT ![s] = NewObject("push", u, n)]
  /\ dying' = dying \cup old
  /\ UNCHANGED pull

\* create_pull_stream: the same user's old pull stream is deleted; another
\* user's is overwritten in the map and stays alive, owned by nobody.
CreatePull(u, n, s) ==
  LET old == Owned(pull, u, n) IN
  /\ u \in Viewer[n]
  /\ push[n] # Null
  /\ s \in Unused
  /\ pull' = [pull EXCEPT ![n] = s]
  /\ obj' = [Without(old) EXCEPT ![s] = NewObject("pull", u, n)]
  /\ dying' = dying \cup old
  /\ UNCHANGED push

\* set_answer: found by name, checked by user, then PeerConnection::
\* set_remote_sdp.  An answer that is empty or that the parser rejects does not
\* reach the transports.
SetAnswer(u, n, type) ==
  \E s \in Owned(IF type = "push" THEN push ELSE pull, u, n) :
    Update(s, [obj[s] EXCEPT !.applied = TRUE])

\* stop_push
StopPush(u, n) == LET S == Owned(push, u, n) IN S # {} /\ Remove(S)

\* stop_pull
StopPull(u, n) == LET S == Owned(pull, u, n) IN S # {} /\ Remove(S)

----------------------------------------------------------------------------
(* Callbacks from below *)

\* The stream that is removed when s fails or times out: the one its user has
\* in the map under its name, which need not be s.
Victim(s) ==
  Owned(IF obj[s].kind = "push" THEN push ELSE pull, obj[s].uid, obj[s].name)

\* _on_connection_state(k_connected): the ICE timer is deleted.
Connected(s) ==
  /\ s \in live /\ obj[s].applied /\ obj[s].state # "connected"
  /\ Update(s, [obj[s] EXCEPT !.state = "connected", !.timer = FALSE])

\* _on_connection_state(k_failed): the manager removes by user and name.  If
\* that removes another stream, s stays with the state "failed".
Failed(s) ==
  /\ s \in live /\ obj[s].state # "failed"
  /\ push' = Erase(push, Victim(s))
  /\ pull' = Erase(pull, Victim(s))
  /\ obj' = [t \in Stream |->
               IF t = s /\ s \notin Victim(s)
                 THEN [Without(Victim(s))[s] EXCEPT !.state = "failed"]
                 ELSE Without(Victim(s))[t]]
  /\ dying' = dying \cup Victim(s)

\* _on_connection_state with any other state: noted.
OtherState(s) ==
  /\ s \in live /\ obj[s].state # "unconnected"
  /\ Update(s, [obj[s] EXCEPT !.state = "unconnected"])

\* Mutant: the stream that timed out is left.
IceTimeoutLogs(s) ==
  /\ s \in live /\ obj[s].timer
  /\ Update(s, [obj[s] EXCEPT !.timer = FALSE])

\* ice_timeout_cb, 30 s after start(), once: on_stream_exception if the stream
\* is not connected.
IceTimeout(s) ==
  LET S == IF obj[s].state # "connected" THEN Victim(s) ELSE {} IN
  /\ s \in live /\ obj[s].timer
  /\ push' = Erase(push, S)
  /\ pull' = Erase(pull, S)
  /\ obj' = [t \in Stream |->
               IF t = s /\ s \notin S THEN [Without(S)[s] EXCEPT !.timer = FALSE]
                                      ELSE Without(S)[t]]
  /\ dying' = dying \cup S

\* destroy_timer_cb: delete pc
DestroyPc(s) ==
  /\ s \in dying
  /\ dying' = dying \ {s}
  /\ UNCHANGED <<push, pull, obj>>

(* Packets change nothing here; these are the streams that are sent the ones
   stream s receives. *)
Named(map, s) == {map[obj[s].name]} \ {Null}

\* on_rtp_packet_received: from push to pull only.  (RTCP and SCTP packets also go
\* back, through the same lookups.)
RtpTargets(s) == IF obj[s].kind = "push" THEN Named(pull, s) ELSE {}

----------------------------------------------------------------------------
Request ==
  \E u \in Uid, n \in Name :
    \/ \E s \in Stream : CreatePush(u, n, s) \/ CreatePull(u, n, s)
    \/ \E type \in {"push", "pull"} : SetAnswer(u, n, type)
    \/ StopPush(u, n)
    \/ StopPull(u, n)

Callback ==
  \E s \in Stream :
    \/ Connected(s)
    \/ Failed(s)
    \/ OtherState(s)
    \/ IceTimeout(s)
    \/ DestroyPc(s)

Next == Request \/ Callback

Spec == Init /\ [][Next]_vars

\* The event loop runs every timer that is due.
FairSpec == /\ Spec
            /\ \A s \in Stream : WF_vars(IceTimeout(s)) /\ WF_vars(DestroyPc(s))

----------------------------------------------------------------------------
(* Properties *)

\* The stream is the one a map has under its name, so a lookup can find it.
Registered(s) == s \in {push[obj[s].name], pull[obj[s].name]}

\* The maps hold no deleted stream, and every stream is under its own name: the
\* pointer found by a relay, an answer or a removal is the object it should be.
MapsAreLive ==
  \A n \in Name :
    /\ push[n] # Null => /\ push[n] \in live
                         /\ obj[push[n]].kind = "push" /\ obj[push[n]].name = n
    /\ pull[n] # Null => /\ pull[n] \in live
                         /\ obj[pull[n]].kind = "pull" /\ obj[pull[n]].name = n

\* Every push stream that is alive is the one the map has under its name:
\* create_push_stream's comment (line 23), "replace the old one if the name
\* exists", holds through failures, timeouts and stops.
PushIsOwned == \A s \in live : obj[s].kind = "push" => push[obj[s].name] = s

\* A stream leaves its map while it lives, and nothing can find it any more, in
\* one way only: another user pulls the same name (lines 54-68).  The requests of
\* its own user, failures and timeouts, which remove whatever they find by user
\* and name, never leave one behind, and a new stream is always in its map.
OrphansAreRivalled ==
  [][\A s \in live' :
       \/ Registered(s)'
       \/ /\ s \in live
          /\ \/ ~Registered(s)
             \/ \E v \in Uid \ {obj[s].uid}, t \in Stream : CreatePull(v, obj[s].name, t)]_vars

\* The media of two push streams never reach the same viewer: a push that was
\* replaced, stopped or timed out sends nothing more, although its
\* PeerConnection goes on for 10 ms.
OneSourcePerViewer ==
  \A s, t \in live : RtpTargets(s) \cap RtpTargets(t) # {} => s = t

\* The requests that end stream s: its user stops it or pulls again, or anyone
\* pushes its name again.
EndedByRequest(s) ==
  LET u == obj[s].uid
      n == obj[s].name
  IN  \/ StopPush(u, n) \/ StopPull(u, n)
      \/ \E t \in Stream : CreatePull(u, n, t) \/ \E v \in Uid : CreatePush(v, n, t)

\* A connected stream ends by such a request, by its own failure, or, as removals
\* are by user and name (lines 158-171, 221-228), by the failure or timeout of an
\* earlier stream of the same user and name that a rival viewer has pushed out of
\* the map; never by its own ICE timeout (rtc_stream.cpp 63-70) or in another way.
ConnectedIsKept ==
  [][\A s \in live \ live' :
       obj[s].state = "connected" =>
         \/ EndedByRequest(s)
         \/ Failed(s)
         \/ \E t \in live : /\ ~Registered(t)
                            /\ obj[t].uid = obj[s].uid /\ obj[t].name = obj[s].name
                            /\ Failed(t) \/ IceTimeout(t)]_vars

\* A stream that does not connect is removed, unless a rival viewer pushes it out
\* of the map: the ICE timer fires and finds it there (on_stream_exception, lines
\* 221-228).
UnconnectedIsRemoved ==
  \A s \in Stream :
    (s \in live /\ obj[s].timer /\ Registered(s))
      ~> (s \notin live \/ obj[s].state = "connected" \/ ~Registered(s))
============================================================================
