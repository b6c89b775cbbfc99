------------------------------ MODULE RemoteInput ------------------------------
(***************************************************************************)
(* Mouse and keyboard of the page that shows a remote desktop              *)
(* (src/signaling/fronted/src/views/desktops/cloud-desktop.vue): events of *)
(* the video element go over a reliable, ordered data channel, so the      *)
(* remote side is what was sent.  Each page makes one channel.  A button   *)
(* or key may go down or up where the video does not see it.  Positions    *)
(* are points of a small grid relative to the video.                       *)
(***************************************************************************)
EXTENDS Integers

CONSTANTS
    Buttons, Keys,
    Grid            \* the points <<x, y>>; <<0, 0>> is the corner

VARIABLES
    channel,        \* dataChannel: "none", "connecting", "open", "closed"; "lost" before onclose
    isActive,
    rectKnown,      \* videoRect holds the video's place
    over,           \* the pointer is over the video
    focused,        \* the video has the keyboard
    pointer,        \* where the pointer is
    lastMousePosition,
    throttled,      \* less than MOUSE_MOVE_THROTTLE since the last move that counted
    held,           \* buttons and keys that are down
    remoteHeld,     \* those the remote side was told of
    remotePointer,  \* the position it was told
    unseen          \* buttons and keys whose last change was not one over or in the
                    \* focused video while the channel was open

channelVars == <<channel, isActive, rectKnown>>
placeVars == <<over, focused, pointer>>
remoteVars == <<remoteHeld, remotePointer>>
inputVars == <<channelVars, placeVars, lastMousePosition, throttled, held, remoteVars, unseen>>

Corner == <<0, 0>>

InputInit ==
    /\ channel = "none" /\ isActive = FALSE /\ rectKnown = FALSE
    /\ over = FALSE /\ focused = FALSE /\ pointer \in Grid
    /\ lastMousePosition = <<-1, -1>>
    /\ throttled = FALSE
    /\ held = {} /\ remoteHeld = {} /\ unseen = {}
    /\ remotePointer = Corner

-------------------------------------------------------------------------------
\* createDataChannel, when the page has the offer.
CreateDataChannel ==
    /\ channel = "none"
    /\ channel' = "connecting"
    /\ UNCHANGED <<isActive, rectKnown, placeVars, lastMousePosition, throttled, held, remoteVars, unseen>>

\* onopen: input counts from here, and the video takes the keyboard.
DataChannelOpen ==
    /\ channel = "connecting"
    /\ channel' = "open" /\ isActive' = TRUE /\ focused' = TRUE
    /\ UNCHANGED <<rectKnown, over, pointer, lastMousePosition, throttled, held, remoteVars, unseen>>

\* The other side is gone, and with it what it held; the page hears of it later.
ChannelLost ==
    /\ channel = "open" /\ channel' = "lost"
    /\ remoteHeld' = {} /\ UNCHANGED remotePointer
    /\ UNCHANGED <<isActive, rectKnown, placeVars, lastMousePosition, throttled, held, unseen>>

\* onclose
DataChannelClose ==
    /\ channel = "lost"
    /\ channel' = "closed" /\ isActive' = FALSE
    /\ UNCHANGED <<rectKnown, placeVars, lastMousePosition, throttled, held, remoteVars, unseen>>

\* adjustVideoSize, on the first frame and when the window changes its size.
UpdateVideoRect ==
    /\ ~rectKnown /\ rectKnown' = TRUE
    /\ UNCHANGED <<channel, isActive, placeVars, lastMousePosition, throttled, held, remoteVars, unseen>>

RelativePosition(p) == IF rectKnown THEN p ELSE Corner

\* sendInputEvent
Told == isActive /\ channel = "open"

-------------------------------------------------------------------------------
\* A button or key goes down or up where the video does (not) see it.
Changes(now, x, seen) ==
    /\ held' = now
    /\ unseen' = IF seen /\ channel = "open" THEN unseen \ {x} ELSE unseen \cup {x}

\* What the handlers of buttons send: what is down there now, and where.
TellsButton(now) ==
    /\ lastMousePosition' = IF isActive THEN RelativePosition(pointer) ELSE lastMousePosition
    /\ IF Told THEN remoteHeld' = now /\ remotePointer' = RelativePosition(pointer)
               ELSE UNCHANGED remoteVars

HandleMouseDown(b) ==
    /\ over /\ b \notin held
    /\ Changes(held \cup {b}, b, TRUE)
    /\ TellsButton(remoteHeld \cup {b})
    /\ focused' = TRUE
    /\ UNCHANGED <<channelVars, over, pointer, throttled>>

\* Mutant: releases are throttled as moves are.
HandleMouseUpThrottled(b) ==
    /\ over /\ b \in held
    /\ Changes(held \ {b}, b, TRUE)
    /\ IF throttled THEN UNCHANGED <<lastMousePosition, remoteVars>> ELSE TellsButton(remoteHeld \ {b})
    /\ UNCHANGED <<channelVars, placeVars, throttled>>

HandleMouseUp(b) ==
    /\ over /\ b \in held
    /\ Changes(held \ {b}, b, TRUE)
    /\ TellsButton(remoteHeld \ {b})
    /\ UNCHANGED <<channelVars, placeVars, throttled>>

\* There is no listener anywhere but on the video.
Elsewhere(x) ==
    /\ IF x \in Buttons THEN ~over ELSE ~focused
    /\ Changes(IF x \in held THEN held \ {x} ELSE held \cup {x}, x, FALSE)
    /\ UNCHANGED <<channelVars, placeVars, lastMousePosition, throttled, remoteVars>>

\* The threshold for dy is the throttle's 10, which a part of the video never
\* exceeds: only a change of x is sent.
Moved(p) == p[1] # lastMousePosition[1]

HandleMouseMove(p) ==
    /\ over /\ pointer' = p
    /\ IF isActive /\ ~throttled
       THEN /\ throttled' = TRUE
            /\ LET at == RelativePosition(p) IN
               IF Moved(at)
               THEN /\ lastMousePosition' = at
                    /\ remotePointer' = IF Told THEN at ELSE remotePointer
               ELSE UNCHANGED <<lastMousePosition, remotePointer>>
       ELSE UNCHANGED <<throttled, lastMousePosition, remotePointer>>
    /\ UNCHANGED <<channelVars, over, focused, held, remoteHeld, unseen>>

ThrottleEnds ==
    /\ throttled /\ throttled' = FALSE
    /\ UNCHANGED <<channelVars, placeVars, lastMousePosition, held, remoteVars, unseen>>

\* The pointer enters or leaves the video.
CrossEdge ==
    /\ over' = ~over
    /\ UNCHANGED <<channelVars, focused, pointer, lastMousePosition, throttled, held, remoteVars, unseen>>

\* The keyboard goes elsewhere.
Blur ==
    /\ focused /\ focused' = FALSE
    /\ UNCHANGED <<channelVars, over, pointer, lastMousePosition, throttled, held, remoteVars, unseen>>

TellsKey(now) == remoteHeld' = IF Told THEN now ELSE remoteHeld

HandleKeyDown(k) ==
    /\ focused /\ k \notin held
    /\ Changes(held \cup {k}, k, TRUE)
    /\ TellsKey(remoteHeld \cup {k})
    /\ UNCHANGED <<channelVars, placeVars, lastMousePosition, throttled, remotePointer>>

HandleKeyUp(k) ==
    /\ focused /\ k \in held
    /\ Changes(held \ {k}, k, TRUE)
    /\ TellsKey(remoteHeld \ {k})
    /\ UNCHANGED <<channelVars, placeVars, lastMousePosition, throttled, remotePointer>>

InputNext ==
    \/ CreateDataChannel \/ DataChannelOpen \/ ChannelLost \/ DataChannelClose \/ UpdateVideoRect
    \/ ThrottleEnds \/ CrossEdge \/ Blur
    \/ \E b \in Buttons : HandleMouseDown(b) \/ HandleMouseUp(b)
    \/ \E k \in Keys : HandleKeyDown(k) \/ HandleKeyUp(k)
    \/ \E x \in Buttons \cup Keys : Elsewhere(x)
    \/ \E p \in Grid : HandleMouseMove(p)

-------------------------------------------------------------------------------
\* While the channel is open the remote side holds just what is held here, as
\* far as the video has seen: every press and release that reaches the video is
\* told, however moves are throttled and whenever the channel came, and one
\* that did not reach it is made up for by the next that does.  And the position
\* new moves are compared with is the one the remote side has.
RemoteIsAsSeen ==
    channel = "open" =>
        /\ \A x \in Buttons \cup Keys : x \notin unseen => (x \in remoteHeld <=> x \in held)
        /\ lastMousePosition \in {<<-1, -1>>, remotePointer}
===============================================================================
