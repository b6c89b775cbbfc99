----------------------------- MODULE LocalStreams -----------------------------
(***************************************************************************)
(* What adapter.js promises a page about the streams it sends, whatever    *)
(* the browser: addStream, addTrack, removeStream, removeTrack and         *)
(* getLocalStreams "behave as in other browsers" (adapter.js:484).  A      *)
(* connection sends tracks, each on behalf of its stream, and shows the    *)
(* page a set of local streams.                                            *)
(***************************************************************************)
CONSTANTS
    Streams,    \* the page's MediaStreams
    Tracks,     \* their tracks
    TracksOf    \* TracksOf[s]: the tracks of stream s

VARIABLES
    sent,       \* the tracks the connection sends
    shown,      \* what getLocalStreams() returns
    call        \* the page's last call

lsVars == <<sent, shown, call>>

LSInit == sent = {} /\ shown = {} /\ call = "none"

\* addStream, or addTrack of one track.  A call that fails half-way may have
\* added a part, and may show the stream; what is sent is shown.
Add(s, T) ==
    /\ call' = "add"
    /\ sent' = sent \cup T
    /\ shown' \in {shown, shown \cup {s}}
    /\ T # {} => s \in shown'

\* removeStream: all of it goes, and only it.
Remove(s) ==
    /\ call' = "removeStream"
    /\ sent' = sent \ TracksOf[s]
    /\ shown' = shown \ {s}

\* removeTrack: a stream is dropped only with its last track.
RemoveTrack(s, t) ==
    /\ call' = "removeTrack"
    /\ sent' = sent \ {t}
    /\ \/ shown' = shown
       \/ /\ shown' = shown \ {s}
          /\ TracksOf[s] \cap sent' = {}

\* A closed connection sends nothing.
Shut == call' = "close" /\ sent' = {} /\ shown' = shown

LSNext ==
    \/ \E s \in Streams : \E T \in SUBSET TracksOf[s] : Add(s, T)
    \/ \E s \in Streams : Remove(s)
    \/ \E s \in Streams : \E t \in TracksOf[s] : RemoveTrack(s, t)
    \/ Shut

LSSpec == LSInit /\ [][LSNext]_lsVars
===============================================================================
