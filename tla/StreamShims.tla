----------------------------- MODULE StreamShims ------------------------------
(***************************************************************************)
(* The local streams of one RTCPeerConnection under                        *)
(* src/screen_share/static/js/adapter.js.  The library gives every browser *)
(* the same five calls (addStream, addTrack, removeStream, removeTrack,    *)
(* getLocalStreams) by a different bookkeeping in each:                    *)
(*                                                                         *)
(*   chrome50  Chrome before 65 without getSenders: an internal stream for *)
(*             every stream of the page (_streams, _reverseStreams), and   *)
(*             senders made up by shimGetSendersWithDtmf (_senders)        *)
(*   chrome64  the same with native senders                                *)
(*   chrome65  native calls and a map stream -> senders                    *)
(*             (_shimmedLocalStreams)                                      *)
(*   firefox   native calls, removeStream written with removeTrack         *)
(*   safari    addTrack is native, the streams are a list (_localStreams)  *)
(*                                                                         *)
(* A call is one action, as scripts run to completion.  A call that throws *)
(* before it has changed anything is no step.  A page does not change the  *)
(* tracks of a stream while the connection has it, gives a track to one    *)
(* stream only, and removes a track only after its sender was negotiated,  *)
(* so that the browser gives a new track a new sender.                     *)
(***************************************************************************)
EXTENDS Naturals, FiniteSets

CONSTANTS
    Streams,    \* MediaStreams of the page
    Tracks,
    TracksOf,   \* stream -> its tracks
    Audio,      \* the audio tracks among Tracks
    Ids,        \* ids of internal streams; one nothing refers to is as good as new
    NoId, NoStream

Old == {"chrome50", "chrome64"}
Browsers == Old \cup {"chrome65", "firefox", "safari"}

ASSUME TracksAssumption ==
    /\ TracksOf \in [Streams -> (SUBSET Tracks) \ {{}}]
    /\ \A r, s \in Streams : r # s => TracksOf[r] \cap TracksOf[s] = {}
ASSUME IdAssumption == NoId \notin Ids /\ NoStream \notin Streams

VARIABLES
    browser,
    closed,     \* signalingState is "closed"
    senders,    \* tracks that have a native sender (chrome65, firefox, safari)
    nat,        \* internal id -> tracks of that native local stream; none: not there
    streams,    \* _streams: stream -> internal id
    reverse,    \* _reverseStreams: internal id -> stream
    dtmf,       \* _senders: tracks of the senders made up for chrome50
    shimmed,    \* _shimmedLocalStreams: stream -> tracks of its senders; none: absent
    local,      \* _localStreams
    call        \* the page's last call

oldVars == <<nat, streams, reverse, dtmf>>
shimVars == <<browser, closed, senders, nat, streams, reverse, dtmf, shimmed, local, call>>

InUse == {i \in Ids : nat[i] # {}}

\* What the connection sends.
Sending ==
    IF closed THEN {}
    ELSE IF browser \in Old THEN UNION {nat[i] : i \in Ids} ELSE senders

\* getLocalStreams().
GetLocalStreams ==
    IF browser \in Old THEN {reverse[i] : i \in InUse}
    ELSE IF browser = "chrome65" THEN {s \in Streams : shimmed[s] # {}}
    ELSE IF browser = "firefox" THEN {s \in Streams : TracksOf[s] \cap senders # {}}
    ELSE local

\* The tracks of getSenders().
GetSenders ==
    IF browser = "chrome50" THEN dtmf
    ELSE IF browser = "chrome64" THEN UNION {nat[i] : i \in Ids}
    ELSE senders

ShimInit ==
    /\ browser \in Browsers
    /\ closed = FALSE
    /\ senders = {}
    /\ nat = [i \in Ids |-> {}]
    /\ streams = [s \in Streams |-> NoId]
    /\ reverse = [i \in Ids |-> NoStream]
    /\ dtmf = {}
    /\ shimmed = [s \in Streams |-> {}]
    /\ local = {}
    /\ call = "none"

-------------------------------------------------------------------------------
(***************************************************************************)
(* Chrome before 65: shimAddTrackRemoveTrack inside shimGetSendersWithDtmf *)
(***************************************************************************)
\* new MediaStream(): an id nothing refers to.
Fresh(i) == nat[i] = {} /\ reverse[i] = NoStream /\ \A s \in Streams : streams[s] # i

\* The made-up senders, in the browser that has none of its own.
Made(T) == IF browser = "chrome50" THEN dtmf \cup T ELSE dtmf
Unmade(T) == IF browser = "chrome50" THEN dtmf \ T ELSE dtmf

\* A new internal stream stands for s from now on.
Stand(s, i) ==
    /\ streams' = [streams EXCEPT ![s] = i]
    /\ reverse' = [reverse EXCEPT ![i] = s]

\* The maps are set before the native call, which throws on a closed connection.
OldAddStream(s) ==
    /\ call' = "add"
    /\ browser \in Old
    /\ TracksOf[s] \cap GetSenders = {}
    /\ \E i \in Ids :
        /\ Fresh(i)
        /\ Stand(s, i)
        /\ nat' = IF closed THEN nat ELSE [nat EXCEPT ![i] = TracksOf[s]]
    /\ dtmf' = IF closed THEN dtmf ELSE Made(TracksOf[s])
    /\ UNCHANGED <<browser, closed, senders, shimmed, local>>

\* Mutant: every track gets an internal stream of its own.
OldAddTrackApart(s, t) ==
    /\ call' = "add"
    /\ browser \in Old /\ ~closed
    /\ t \in TracksOf[s] \ GetSenders
    /\ \E i \in Ids :
        /\ Fresh(i)
        /\ Stand(s, i)
        /\ nat' = [nat EXCEPT ![i] = {t}]
    /\ dtmf' = Made({t})
    /\ UNCHANGED <<browser, closed, senders, shimmed, local>>

\* The first track of a stream makes its internal stream, the others join it.
OldAddTrack(s, t) ==
    /\ call' = "add"
    /\ browser \in Old /\ ~closed
    /\ t \in TracksOf[s] \ GetSenders
    /\ IF streams[s] # NoId
       THEN /\ nat' = [nat EXCEPT ![streams[s]] = @ \cup {t}]
            /\ UNCHANGED <<streams, reverse>>
       ELSE \E i \in Ids :
                /\ Fresh(i)
                /\ Stand(s, i)
                /\ nat' = [nat EXCEPT ![i] = {t}]
    /\ dtmf' = Made({t})
    /\ UNCHANGED <<browser, closed, senders, shimmed, local>>

\* What removeStream(s) does to the maps, also when removeTrack calls it.
Forget(s) ==
    LET i == streams[s] IN
    /\ nat' = IF i = NoId THEN nat ELSE [nat EXCEPT ![i] = {}]
    /\ reverse' = IF i = NoId THEN reverse ELSE [reverse EXCEPT ![i] = NoStream]
    /\ streams' = [streams EXCEPT ![s] = NoId]
    /\ dtmf' = Unmade(TracksOf[s])

OldRemoveStream(s) ==
    /\ call' = "removeStream"
    /\ browser \in Old /\ ~closed
    /\ Forget(s)
    /\ UNCHANGED <<browser, closed, senders, shimmed, local>>

\* Mutant: a track takes its stream along though others are left.
OldRemoveTrackWhole(s, t) ==
    /\ call' = "removeTrack"
    /\ browser \in Old /\ ~closed
    /\ t \in GetSenders
    /\ streams[s] # NoId /\ t \in nat[streams[s]]
    /\ Forget(s)
    /\ UNCHANGED <<browser, closed, senders, shimmed, local>>

\* The stream is looked up by its track; the last track takes the stream along.
OldRemoveTrack(s, t) ==
    /\ call' = "removeTrack"
    /\ browser \in Old /\ ~closed
    /\ t \in GetSenders
    /\ streams[s] # NoId /\ t \in nat[streams[s]]
    /\ IF nat[streams[s]] = {t}
       THEN Forget(s)
       ELSE /\ nat' = [nat EXCEPT ![streams[s]] = @ \ {t}]
            /\ dtmf' = Unmade({t})
            /\ UNCHANGED <<streams, reverse>>
    /\ UNCHANGED <<browser, closed, senders, shimmed, local>>

(***************************************************************************)
(* The ids in a session description: createOffer and createAnswer give the *)
(* page its own stream ids, setLocalDescription turns them back.           *)
(***************************************************************************)
ReplaceInternalStreamId(i) ==
    IF \E j \in Ids : reverse[j] # NoStream /\ streams[reverse[j]] = i
    THEN reverse[CHOOSE j \in Ids : reverse[j] # NoStream /\ streams[reverse[j]] = i]
    ELSE i

ReplaceExternalStreamId(x) ==
    IF \E j \in Ids : reverse[j] # NoStream /\ reverse[j] = x
    THEN streams[x] ELSE x

-------------------------------------------------------------------------------
(***************************************************************************)
(* Chrome 65 and later: shimAddTrackRemoveTrackWithNative                  *)
(***************************************************************************)
NewAddStream(s) ==
    /\ call' = "add"
    /\ browser = "chrome65" /\ ~closed
    /\ TracksOf[s] \cap GetSenders = {}
    /\ senders' = senders \cup TracksOf[s]
    /\ shimmed' = [shimmed EXCEPT ![s] = TracksOf[s]]
    /\ UNCHANGED <<browser, closed, oldVars, local>>

NewAddTrack(s, t) ==
    /\ call' = "add"
    /\ browser = "chrome65" /\ ~closed
    /\ t \in TracksOf[s] \ senders
    /\ senders' = senders \cup {t}
    /\ shimmed' = [shimmed EXCEPT ![s] = @ \cup {t}]
    /\ UNCHANGED <<browser, closed, oldVars, local>>

\* The map is changed first; on a closed connection the native call throws.
NewRemoveStream(s) ==
    /\ call' = "removeStream"
    /\ browser = "chrome65"
    /\ shimmed' = [shimmed EXCEPT ![s] = {}]
    /\ senders' = IF closed THEN senders ELSE senders \ TracksOf[s]
    /\ UNCHANGED <<browser, closed, oldVars, local>>

\* The sender leaves every entry that has it, and an entry without senders goes.
NewRemoveTrack(t) ==
    /\ call' = "removeTrack"
    /\ browser = "chrome65"
    /\ t \in senders
    /\ shimmed' = [s \in Streams |-> shimmed[s] \ {t}]
    /\ senders' = IF closed THEN senders ELSE senders \ {t}
    /\ UNCHANGED <<browser, closed, oldVars, local>>

-------------------------------------------------------------------------------
(***************************************************************************)
(* Firefox and Safari                                                      *)
(***************************************************************************)
\* Firefox: addStream and addTrack are native; a stream that is there is kept.
FirefoxAdd(s, T) ==
    /\ call' = "add"
    /\ browser = "firefox" /\ ~closed
    /\ T \subseteq TracksOf[s] \ senders
    /\ T # {}
    /\ senders' = senders \cup T
    /\ UNCHANGED <<browser, closed, oldVars, shimmed, local>>

\* Firefox: shimRemoveStream removes the sender of every track of the stream.
\* Safari: the same, if the stream is in the list, which it then leaves.
RemoveStreamByTracks(s) ==
    /\ call' = "removeStream"
    /\ \/ browser = "firefox" /\ ~closed /\ UNCHANGED local
       \/ browser = "safari" /\ s \in local /\ local' = local \ {s}
    /\ senders' = IF closed THEN senders ELSE senders \ TracksOf[s]
    /\ UNCHANGED <<browser, closed, oldVars, shimmed>>

\* removeTrack is native in both.
NativeRemoveTrack(t) ==
    /\ call' = "removeTrack"
    /\ browser \in {"firefox", "safari"} /\ ~closed
    /\ t \in senders
    /\ senders' = senders \ {t}
    /\ UNCHANGED <<browser, closed, oldVars, shimmed, local>>

\* Safari, addStream: the stream is listed first, then its audio and its video
\* tracks are added one by one until one is refused.
SafariAddStream(s) ==
    /\ call' = "add"
    /\ browser = "safari"
    /\ local' = local \cup {s}
    /\ \E T \in SUBSET (TracksOf[s] \ senders) :
        /\ T \ Audio # {} => TracksOf[s] \cap Audio \subseteq T
        /\ T = TracksOf[s] \/ TracksOf[s] \cap senders # {} \/ closed
        /\ closed => T = {}
        /\ senders' = senders \cup T
    /\ UNCHANGED <<browser, closed, oldVars, shimmed>>

\* Safari, addTrack: the stream is listed whether or not the track is accepted.
SafariAddTrack(s, t) ==
    /\ call' = "add"
    /\ browser = "safari"
    /\ t \in TracksOf[s]
    /\ local' = local \cup {s}
    /\ senders' = IF closed THEN senders ELSE senders \cup {t}
    /\ UNCHANGED <<browser, closed, oldVars, shimmed>>

Close ==
    /\ call' = "close"
    /\ ~closed
    /\ closed' = TRUE
    /\ UNCHANGED <<browser, senders, oldVars, shimmed, local>>

ShimNext ==
    \/ \E s \in Streams :
        \/ OldAddStream(s) \/ OldRemoveStream(s)
        \/ NewAddStream(s) \/ NewRemoveStream(s)
        \/ SafariAddStream(s) \/ RemoveStreamByTracks(s)
        \/ \E T \in SUBSET TracksOf[s] : FirefoxAdd(s, T)
        \/ \E t \in TracksOf[s] :
            OldAddTrack(s, t) \/ OldRemoveTrack(s, t) \/ NewAddTrack(s, t) \/ SafariAddTrack(s, t)
    \/ \E t \in Tracks : NewRemoveTrack(t) \/ NativeRemoveTrack(t)
    \/ Close

ShimSpec == ShimInit /\ [][ShimNext]_shimVars

-------------------------------------------------------------------------------
ShimTypeOK ==
    /\ browser \in Browsers
    /\ closed \in BOOLEAN
    /\ senders \in SUBSET Tracks
    /\ nat \in [Ids -> SUBSET Tracks]
    /\ streams \in [Streams -> Ids \cup {NoId}]
    /\ reverse \in [Ids -> Streams \cup {NoStream}]
    /\ dtmf \in SUBSET Tracks
    /\ shimmed \in [Streams -> SUBSET Tracks]
    /\ local \in SUBSET Streams
    /\ call \in {"none", "add", "removeStream", "removeTrack", "close"}

\* Every browser shows and sends what the abstract connection may: a stream is
\* shown as long as one of its tracks is sent, removeStream leaves nothing of
\* it, removeTrack nothing but that track.
LS == INSTANCE LocalStreams WITH sent <- Sending, shown <- GetLocalStreams
BehavesAsInOtherBrowsers == LS!LSSpec

\* Chrome before 65: every native stream stands for one stream of the page, so
\* that getLocalStreams() never shows an undefined one, the description a page
\* gets names no internal stream, and setLocalDescription() finds back the
\* native stream each of its ids came from.
IdsRoundTrip ==
    browser \in Old => \A i \in InUse :
        /\ ReplaceInternalStreamId(i) \in Streams
        /\ ReplaceExternalStreamId(ReplaceInternalStreamId(i)) = i

\* Chrome before 65: the senders the page is shown are the tracks that are sent.
SendersAreSent == browser \in Old /\ ~closed => GetSenders = Sending
===============================================================================
