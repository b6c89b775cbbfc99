------------------------------- MODULE PcEvents --------------------------------
(***************************************************************************)
(* Events of an RTCPeerConnection under adapter.js                         *)
(* (src/screen_share/static/js).  The library puts itself between the      *)
(* native event and the page's listener in four ways; a behaviour follows  *)
(* one of them, named by "group", as they share no field of the connection *)
(*                                                                         *)
(*   wrap    an event wrapped twice by wrapPeerConnectionEvent, as "track" *)
(*           in Chrome (shimOnTrack, shimSenderReceiverGetStats) and       *)
(*           "icecandidate" (shimRTCIceCandidate, ...RelayProtocol): both  *)
(*           layers keep their wrappers in the one _eventMap               *)
(*   state   connectionstatechange made from iceconnectionstatechange      *)
(*   stream  addstream made from track (Safari, shimRemoteStreamsAPI)      *)
(*   track   track made from addstream (old Chrome, shimOnTrack)           *)
(*                                                                         *)
(* A page does not register a function for an event for which it is        *)
(* registered already, as a listener or as the handler.  It may remove the *)
(* one it has set as the handler: the library knows only one registration  *)
(* of a function, so that ends the handler too.                            *)
(***************************************************************************)
EXTENDS Naturals, FiniteSets

CONSTANTS
    Cbs,        \* the page's callbacks
    Wraps,      \* wrapper functions; one nothing refers to is as good as new
    RStreams,   \* remote streams
    RTracks,    \* remote tracks, each of one remote stream
    StreamOf,   \* remote track -> its stream
    NoFn,
    MaxPolys    \* bound on the track listeners shimRemoteStreamsAPI leaves behind

Fns == Cbs \cup Wraps

\* A page has finitely many callbacks, and a new wrapper can always be made:
\* two for every callback are in use at most.
ASSUME FnsAssumption ==
    /\ Cbs \cap Wraps = {} /\ NoFn \notin Fns /\ IsFiniteSet(Cbs)
    /\ IsFiniteSet(Wraps) => Cardinality(Wraps) >= 2 * Cardinality(Cbs)

VARIABLES
    group,
    native,     \* wrap: functions registered with the browser
    eventMap,   \* wrap: _eventMap[event]: function -> its wrapper
    target,     \* wrap: wrapper -> the function it calls
    registered, \* wrap: the functions whose registering was the page's last word on them
    handler,    \* wrap, stream: _on..., the function the page has set
    ice,        \* state: iceConnectionState
    last,       \* state: _lastConnectionState
    poly,       \* state, stream, track: the library's own listener is installed
    queued,     \* state: native events not yet dispatched
    polys,      \* stream: track listeners of the library
    running,    \* stream: streams of the track event being dispatched, and listeners left
    remote,     \* stream: _remoteStreams;  track: streams whose addstream has fired
    arrived,    \* streams or tracks the peer has sent
    seen        \* a connection state the page was told, or how often each was announced

wrapVars == <<native, eventMap, target, registered>>
stateVars == <<ice, last, queued>>
streamVars == <<polys, running, remote, arrived>>
eventVars == <<group, wrapVars, handler, stateVars, poly, streamVars, seen>>

IceStates == {"new", "checking", "connected", "completed", "disconnected", "failed", "closed"}

EventInit ==
    /\ group \in {"wrap", "state", "stream", "track"}
    /\ native = {} /\ registered = {} /\ handler = NoFn
    /\ eventMap = [f \in Fns |-> NoFn]
    /\ target = [w \in Wraps |-> NoFn]
    /\ ice = "new" /\ last = "undefined" /\ queued = 0
    /\ poly = FALSE /\ polys = 0 /\ running = [streams |-> {}, left |-> 0]
    /\ remote = {} /\ arrived = {}
    /\ seen = IF group = "state" THEN "undefined"
              ELSE [x \in RStreams \cup RTracks |-> 0]

-------------------------------------------------------------------------------
(***************************************************************************)
(* wrapPeerConnectionEvent, two layers                                     *)
(***************************************************************************)
Maps == [native |-> native, map |-> eventMap, target |-> target]

Free(m, w) ==
    /\ w \notin m.native /\ m.map[w] = NoFn
    /\ \A f \in Fns : m.map[f] # w
    /\ \A v \in m.native : m.target[v] # w

\* One layer of addEventListener: wrap f and remember the wrapper.
WrapFn(m, f, w) == [m EXCEPT !.map[f] = w, !.target[w] = f]

\* The outer layer hands its wrapper to the inner one, the inner one to the browser.
AddEventListener(m, f) ==
    LET w == CHOOSE x \in Wraps : Free(m, x)
        outer == WrapFn(m, f, w)
        v == CHOOSE x \in Wraps \ {w} : Free(outer, x)
        inner == WrapFn(outer, w, v)
    IN [inner EXCEPT !.native = @ \cup {v}]

\* One layer of removeEventListener: forget f; what is removed further down.
Unwrapped(m, f) == IF m.map[f] = NoFn THEN f ELSE m.map[f]
UnwrapFn(m, f) == [m EXCEPT !.map[f] = NoFn]

\* Mutant: the inner layer does not find the wrapper it registered.
RemoveEventListenerOuter(m, f) ==
    LET outer == UnwrapFn(m, f)
    IN [outer EXCEPT !.native = @ \ {Unwrapped(m, f)}]

RemoveEventListener(m, f) ==
    LET outer == UnwrapFn(m, f)
        w == Unwrapped(m, f)
        inner == UnwrapFn(outer, w)
    IN [inner EXCEPT !.native = @ \ {Unwrapped(outer, w)}]

Become(m) ==
    /\ native' = m.native
    /\ eventMap' = m.map
    /\ target' = m.target

PageAdds(c) ==
    /\ group = "wrap"
    /\ c \notin registered
    /\ Become(AddEventListener(Maps, c))
    /\ registered' = registered \cup {c}
    /\ UNCHANGED <<group, handler, stateVars, poly, streamVars, seen>>

\* Also of a function that is not registered, or that is the handler.
PageRemoves(c) ==
    /\ group = "wrap"
    /\ Become(RemoveEventListener(Maps, c))
    /\ registered' = registered \ {c}
    /\ UNCHANGED <<group, handler, stateVars, poly, streamVars, seen>>

\* The setter of on<event>: the old function goes, the new one is added.
PageSetsHandler(c) ==
    /\ group = "wrap"
    /\ c \notin registered \ {handler}
    /\ LET m == IF handler = NoFn THEN Maps ELSE RemoveEventListener(Maps, handler)
       IN Become(IF c = NoFn THEN m ELSE AddEventListener(m, c))
    /\ registered' = (registered \ {handler}) \cup ({c} \ {NoFn})
    /\ handler' = c
    /\ UNCHANGED <<group, stateVars, poly, streamVars, seen>>

\* How often an event reaches callback c.
Reached(c) == Cardinality({v \in native : target[target[v]] = c})

-------------------------------------------------------------------------------
(***************************************************************************)
(* shimConnectionState                                                     *)
(***************************************************************************)
ConnectionState(i) ==
    IF i = "completed" THEN "connected" ELSE IF i = "checking" THEN "connecting" ELSE i

\* setLocalDescription or setRemoteDescription installs the listener once.
SetDescription ==
    /\ group = "state" /\ ~poly
    /\ poly' = TRUE
    /\ UNCHANGED <<group, wrapVars, handler, stateVars, streamVars, seen>>

\* The native state changes, after a description was set; the event comes later.
IceChanges(i) ==
    /\ group = "state" /\ poly
    /\ ice # "closed" /\ i \notin {ice, "closed", "new"}
    /\ queued < 2
    /\ ice' = i
    /\ queued' = queued + 1
    /\ UNCHANGED <<group, wrapVars, handler, last, poly, streamVars, seen>>

\* pc.close(): no event, and none that waits is dispatched.
ClosePc ==
    /\ group = "state" /\ ice # "closed"
    /\ ice' = "closed" /\ queued' = 0
    /\ UNCHANGED <<group, wrapVars, handler, last, poly, streamVars, seen>>

\* _connectionstatechangepoly compares with the state as it is now.
DispatchIceChange ==
    /\ group = "state" /\ queued > 0
    /\ queued' = queued - 1
    /\ IF last # ConnectionState(ice)
       THEN last' = ConnectionState(ice) /\ seen' = ConnectionState(ice)
       ELSE UNCHANGED <<last, seen>>
    /\ UNCHANGED <<group, wrapVars, handler, ice, poly, streamVars>>

-------------------------------------------------------------------------------
(***************************************************************************)
(* shimRemoteStreamsAPI                                                    *)
(***************************************************************************)
\* Mutant: a handler that is cleared takes the track listener with it.
SetOnAddStreamDeaf(c) ==
    /\ group = "stream"
    /\ LET kept == IF handler = NoFn THEN polys ELSE polys - 1
       IN kept < MaxPolys /\ polys' = IF c = NoFn THEN kept ELSE kept + 1
    /\ handler' = c
    /\ poly' = TRUE
    /\ UNCHANGED <<group, wrapVars, stateVars, running, remote, arrived, seen>>

\* The setter of onaddstream replaces the track listener only if it replaces a
\* handler; the one setRemoteDescription installed stays beside the new one.
SetOnAddStream(c) ==
    /\ group = "stream"
    /\ LET kept == IF handler = NoFn THEN polys ELSE polys - 1
       IN kept < MaxPolys /\ polys' = kept + 1
    /\ handler' = c
    /\ poly' = TRUE
    /\ UNCHANGED <<group, wrapVars, stateVars, running, remote, arrived, seen>>

SetRemoteDescription ==
    /\ group \in {"stream", "track"} /\ ~poly
    /\ poly' = TRUE
    /\ polys' = polys + 1
    /\ UNCHANGED <<group, wrapVars, handler, stateVars, running, remote, arrived, seen>>

\* A track event names the streams of the track; every listener gets it.
TrackEvent(S) ==
    /\ group = "stream" /\ poly /\ running.left = 0
    /\ running' = [streams |-> S, left |-> polys]
    /\ arrived' = arrived \cup S
    /\ UNCHANGED <<group, wrapVars, handler, stateVars, poly, polys, remote, seen>>

\* One listener: announce the streams that are new, and keep them.
RunTrackListener ==
    /\ group = "stream" /\ running.left > 0
    /\ running' = [running EXCEPT !.left = @ - 1]
    /\ remote' = remote \cup running.streams
    /\ seen' = [x \in DOMAIN seen |->
                  IF x \in running.streams \ remote THEN seen[x] + 1 ELSE seen[x]]
    /\ UNCHANGED <<group, wrapVars, handler, stateVars, poly, polys, arrived>>

-------------------------------------------------------------------------------
(***************************************************************************)
(* shimOnTrack of old Chrome                                               *)
(***************************************************************************)
\* The addstream event of a new remote stream: listen for further tracks, and
\* announce those that are there.
AddStreamEvent(s, T) ==
    /\ group = "track" /\ poly
    /\ s \notin remote
    /\ remote' = remote \cup {s}
    /\ arrived' = arrived \cup T
    /\ seen' = [x \in DOMAIN seen |-> IF x \in T THEN seen[x] + 1 ELSE seen[x]]
    /\ UNCHANGED <<group, wrapVars, handler, stateVars, poly, polys, running>>

\* A track that joins a stream later fires addtrack on the stream.
AddTrackEvent(t) ==
    /\ group = "track"
    /\ StreamOf[t] \in remote /\ t \notin arrived
    /\ arrived' = arrived \cup {t}
    /\ seen' = [seen EXCEPT ![t] = @ + 1]
    /\ UNCHANGED <<group, wrapVars, handler, stateVars, poly, polys, running, remote>>

EventNext ==
    \/ \E c \in Cbs : PageAdds(c) \/ PageRemoves(c)
    \/ \E c \in Cbs \cup {NoFn} : PageSetsHandler(c) \/ SetOnAddStream(c)
    \/ SetDescription \/ ClosePc \/ DispatchIceChange
    \/ \E i \in IceStates : IceChanges(i)
    \/ SetRemoteDescription \/ RunTrackListener
    \/ \E S \in SUBSET RStreams : TrackEvent(S)
    \/ \E s \in RStreams : \E T \in SUBSET {t \in RTracks : StreamOf[t] = s} : AddStreamEvent(s, T)
    \/ \E t \in RTracks : AddTrackEvent(t)

-------------------------------------------------------------------------------
\* Two wrapped layers that share one map still are one listener to the page: an
\* event reaches, once each, exactly the functions that were registered, added or
\* set as the handler, after they were last removed or replaced.  (A browser alone
\* would go on calling a handler that is only removed as a listener.)
ReachesRegistered ==
    group = "wrap" => \A c \in Cbs : Reached(c) = IF c \in registered THEN 1 ELSE 0

\* The page has been told the connection state once no event is waiting.
StateIsReported ==
    group = "state" /\ queued = 0 /\ ice \notin {"new", "closed"} => seen = ConnectionState(ice)

\* A remote stream or track that has arrived is announced once, as soon as the
\* event that brought it is dispatched, and never again.
AnnouncedOnce ==
    /\ group \in {"stream", "track"} => \A x \in DOMAIN seen : seen[x] <= 1
    /\ group = "track" => \A t \in arrived : seen[t] = 1
    /\ group = "stream" /\ running.left = 0 => \A x \in arrived : seen[x] = 1

\* What the library makes of native events the page learns, and learns once:
\* also if changes of the connection are dispatched late, if the onaddstream
\* handler is replaced or cleared, and if tracks join a stream later.
PageIsTold == StateIsReported /\ AnnouncedOnce
===============================================================================
