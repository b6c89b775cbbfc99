----------------------------- MODULE MediaCapture -----------------------------
(***************************************************************************)
(* Capturing a camera, a microphone or a screen under                      *)
(* src/screen_share/static/js/adapter.js: a page states in one syntax what *)
(* it must have and what it would like, and each browser is asked in its   *)
(* own:                                                                    *)
(*                                                                         *)
(*   chrome60  mandatory and optional lists, older names, no facing mode   *)
(*   chrome63  today's syntax, older names of errors                       *)
(*   firefox   Firefox before 55: older names of the audio processing, no  *)
(*             getDisplayMedia                                             *)
(*   safari    Safari before 12.1: refuses a member that is undefined      *)
(*                                                                         *)
(* A member of the constraints is a set of demands <<word, value>>; a      *)
(* plain value is the demand "ideal".  One number (width), one name        *)
(* (deviceId), the facing mode and one switch of the audio processing      *)
(* stand for all.  Demands contradict neither each other nor themselves.   *)
(***************************************************************************)
EXTENDS Naturals, Sequences, FiniteSets

CONSTANTS
    Plugged,    \* the cameras in the order they are listed
    Requests,   \* what pages ask for: [form, kinds, audio, video]
    None

Cameras == {Plugged[k] : k \in DOMAIN Plugged}

Engines == {"chrome60", "chrome63", "firefox", "safari"}
Widths == 1..3
Words == {"front", "back", "plain"}     \* what a camera's label says

VARIABLES
    engine,
    label,      \* camera -> Words
    cams,       \* the cameras that are plugged in, in the order they are listed
    request,    \* the page's request
    asked,      \* the constraints the native call was given
    phase,      \* "idle", "listing", "listed" (enumerateDevices), "asked", "given", "refused"
    listing,       \* the cameras enumerateDevices listed
    media,      \* the native stream: [kinds, camera, width, agc, source]
    live,       \* its tracks capture
    error       \* what the page is told

captureVars == <<engine, label, cams, request, asked, phase, listing, media, live, error>>

\* A member of a kind's constraints; a kind is a set of pairs <<member, demands>>.
Demands(kind, member) == UNION {p[2] : p \in {q \in kind : q[1] = member}}
Without(kind, member) == {p \in kind : p[1] # member}
With(kind, member, demands) == Without(kind, member) \cup {<<member, demands>>}

\* A request: widths are numbers, and at most one facing mode is demanded.
IsRequest(r) ==
    /\ r \in [form : {"promise", "callback", "display"}, kinds : SUBSET {"audio", "video"},
              audio : {r.audio}, video : {r.video}]
    /\ \A d \in Demands(r.video, "width") : d[2] \in Nat \cup {None}
    /\ \A d \in Demands(r.video, "facingMode") :
            d[2] \in {"user", "environment", None} /\ Demands(r.video, "facingMode") = {d}

ASSUME RequestsAssumption == Plugged \in Seq(Cameras) /\ \A r \in Requests : IsRequest(r)

\* The camera's label as the page can read it.
LooksLike(cam, faces) == label[cam] = IF faces = "user" THEN "front" ELSE "back"

-------------------------------------------------------------------------------
(***************************************************************************)
(* Translations of the constraints                                         *)
(***************************************************************************)
\* remap(): the older name, unless the page has used that too.
Remap(audio) ==
    IF Demands(audio, "agc") # {} /\ Demands(audio, "nativeAgc") = {}
    THEN With(Without(audio, "agc"), "nativeAgc", Demands(audio, "agc"))
    ELSE audio

\* Mutant: an exact number is a lower bound only.
MandatoryLower(kind) ==
    {<<"minWidth", x[2]>> : x \in {y \in Demands(kind, "width") : y[1] \in {"min", "exact"}}}
    \cup {<<"maxWidth", x[2]>> : x \in {y \in Demands(kind, "width") : y[1] = "max"}}
    \cup {<<"sourceId", x[2]>> : x \in {y \in Demands(kind, "deviceId") : y[1] = "exact"}}
    \cup {<<"nativeAgc", x[2]>> : x \in {y \in Demands(kind, "nativeAgc") : y[1] = "exact"}}

\* constraintsToChrome_: exact numbers are both bounds; what is ideal is optional.
Mandatory(kind) ==
    UNION {
        {<<"minWidth", x[2]>> : x \in {y \in Demands(kind, "width") : y[1] \in {"min", "exact"}}},
        {<<"maxWidth", x[2]>> : x \in {y \in Demands(kind, "width") : y[1] \in {"max", "exact"}}},
        {<<"sourceId", x[2]>> : x \in {y \in Demands(kind, "deviceId") : y[1] = "exact"}},
        {<<"nativeAgc", x[2]>> : x \in {y \in Demands(kind, "nativeAgc") : y[1] = "exact"}} }

\* compactObject: members that are undefined, then those with nothing left.
Compact(video) ==
    {q \in {<<p[1], {d \in p[2] : d[2] # None}>> : p \in video} : q[2] # {}}

Defined(video) == \A p \in video : \A d \in p[2] : d[2] # None

\* shimConstraints_, facing mode: the first camera whose label says so, or for
\* the back the last one; none leaves the demand out.
Face(video) == {d[2] : d \in Demands(video, "facingMode")}

Match(list, faces) ==
    LET match == {k \in DOMAIN list : LooksLike(list[k], faces)} IN
    IF match # {} THEN {list[CHOOSE k \in match : \A j \in match : k <= j]}
    ELSE IF faces = "environment" /\ list # <<>> THEN {list[Len(list)]} ELSE {}

FacingToDevice(video, list) ==
    LET d == CHOOSE x \in Demands(video, "facingMode") : TRUE
        rest == Without(video, "facingMode")
        dev == Match(list, d[2])
    IN IF dev = {} THEN rest
       ELSE With(rest, "deviceId", {<<d[1], cam>> : cam \in dev})

-------------------------------------------------------------------------------
(***************************************************************************)
(* The page's calls                                                        *)
(***************************************************************************)
CaptureInit ==
    /\ engine \in Engines
    /\ label \in [Cameras -> Words]
    /\ cams = Plugged
    /\ request = None
    /\ asked = None
    /\ phase = "idle"
    /\ listing = <<>>
    /\ media = None
    /\ live = FALSE
    /\ error = None

Refuse(name) == phase' = "refused" /\ error' = name

\* getDisplayMedia, made of getUserMedia where the browser has none.
DisplayAsUser(r) ==
    [r EXCEPT !.video = With(r.video, "mediaSource", {<<"exact", "screen">>})]

\* The wrappers of getUserMedia in front of the native call.
WithOlderNames(r) == [r EXCEPT !.audio = Remap(r.audio)]
WithoutUndefined(r) == [r EXCEPT !.video = Compact(r.video)]

Native(r) ==
    IF engine \in {"chrome60", "firefox"} THEN WithOlderNames(r)
    ELSE IF engine = "safari" THEN WithoutUndefined(r) ELSE r

GetUserMedia(r) ==
    /\ phase = "idle"
    /\ engine = "safari" \/ Defined(r.video)
    /\ r.form = "display" => engine = "firefox"
    /\ request' = r
    /\ IF r.form = "display" /\ "video" \notin r.kinds
       THEN Refuse("NotFoundError") /\ UNCHANGED asked
       ELSE IF engine = "chrome60" /\ Face(r.video) \cap {"user", "environment"} # {}
       THEN phase' = "listing" /\ UNCHANGED <<asked, error>>
       ELSE /\ phase' = "asked"
            /\ asked' = Native(IF r.form = "display" THEN DisplayAsUser(r) ELSE r)
            /\ UNCHANGED error
    /\ UNCHANGED <<engine, label, cams, listing, media, live>>

\* enumerateDevices lists what is plugged in when it runs; the callback asks
\* for one of those later.
DevicesListed ==
    /\ phase = "listing"
    /\ phase' = "listed"
    /\ listing' = cams
    /\ UNCHANGED <<engine, label, cams, request, asked, media, live, error>>

AskListed ==
    /\ phase = "listed"
    /\ phase' = "asked"
    /\ asked' = Native([request EXCEPT !.video = FacingToDevice(request.video, listing)])
    /\ UNCHANGED <<engine, label, cams, request, listing, media, live, error>>

Unplug(k) ==
    /\ phase # "idle"
    /\ cams' = SubSeq(cams, 1, k - 1) \o SubSeq(cams, k + 1, Len(cams))
    /\ UNCHANGED <<engine, label, request, asked, phase, listing, media, live, error>>

-------------------------------------------------------------------------------
(***************************************************************************)
(* The browser's answer, and what the wrapper makes of it                  *)
(***************************************************************************)
\* What the browser takes for binding in its own syntax.
Binding(demands) == {d[2] : d \in {x \in demands : x[1] = "exact"}}

Meets(m, c) ==
    IF engine = "chrome60"
    THEN /\ \A d \in Mandatory(c.video) :
                /\ d[1] = "minWidth" => m.width >= d[2]
                /\ d[1] = "maxWidth" => m.width <= d[2]
                /\ d[1] = "sourceId" => m.camera = d[2]
         /\ "audio" \in m.kinds =>
                \A d \in Mandatory(c.audio) : d[1] = "nativeAgc" => m.agc = d[2]
    ELSE LET w == Demands(c.video, "width") IN
         /\ \A d \in w : /\ d[1] \in {"min", "exact"} => m.width >= d[2]
                         /\ d[1] \in {"max", "exact"} => m.width <= d[2]
         /\ \A cam \in Binding(Demands(c.video, "deviceId")) : m.camera = cam
         /\ \A f \in Binding(Demands(c.video, "facingMode")) : LooksLike(m.camera, f)
         /\ "audio" \in m.kinds =>
                \A on \in Binding(Demands(c.audio, IF engine = "firefox" THEN "nativeAgc" ELSE "agc")) :
                    m.agc = on
         /\ \A s \in Binding(Demands(c.video, "mediaSource")) : m.source = s

Captures ==
    [kinds : SUBSET {"audio", "video"}, camera : Cameras, width : Widths, agc : BOOLEAN,
     source : {"camera", "screen"}]

\* Old versions of Chrome may leave out a kind that has no device.
Answers(c) ==
    {m \in Captures :
        /\ m.kinds \subseteq c.kinds /\ m.kinds # {}
        /\ engine \notin {"chrome60", "chrome63"} => m.kinds = c.kinds
        /\ "video" \in m.kinds /\ m.source = "camera" => \E k \in DOMAIN cams : cams[k] = m.camera
        /\ m.source = "screen" => Demands(c.video, "mediaSource") # {}
        /\ "video" \notin m.kinds => m.camera = Plugged[1] /\ m.width = 1 /\ m.source = "camera"
        /\ "audio" \notin m.kinds => m.agc
        /\ Defined(c.video)
        /\ Meets(m, c)}

\* getUserMedia by promise: a stream without a kind that was asked for is stopped.
Fulfil(m) ==
    IF engine \in {"chrome60", "chrome63"} /\ request.form = "promise" /\ m.kinds # asked.kinds
    THEN /\ Refuse("NotFoundError")
         /\ live' = FALSE
    ELSE /\ phase' = "given"
         /\ live' = TRUE
         /\ UNCHANGED error

Capture ==
    /\ phase = "asked"
    /\ \E m \in Answers(asked) : media' = m /\ Fulfil(m)
    /\ UNCHANGED <<engine, label, cams, request, asked, listing>>

OldErrors == {"PermissionDeniedError", "DevicesNotFoundError", "ConstraintNotSatisfiedError",
              "TrackStartError", "ScreenCaptureError"}
Errors == {"NotAllowedError", "NotFoundError", "OverconstrainedError", "NotReadableError", "AbortError"}

\* shimError_ (one name of each kind).
ShimError(name) ==
    CASE name = "PermissionDeniedError" -> "NotAllowedError"
      [] name = "DevicesNotFoundError" -> "NotFoundError"
      [] name = "ConstraintNotSatisfiedError" -> "OverconstrainedError"
      [] name = "TrackStartError" -> "NotReadableError"
      [] name = "ScreenCaptureError" -> "AbortError"
      [] OTHER -> name

CaptureFails ==
    /\ phase = "asked"
    /\ IF engine \in {"chrome60", "chrome63"}
       THEN \E name \in OldErrors \cup Errors : Refuse(ShimError(name))
       ELSE \E name \in Errors : Refuse(name)
    /\ UNCHANGED <<engine, label, cams, request, asked, listing, media, live>>

\* applyConstraints of an audio track in Firefox: the demand is renamed too.
ApplyConstraints(on) ==
    /\ phase = "given" /\ engine = "firefox" /\ "audio" \in media.kinds
    /\ LET audio == {<<"agc", {<<"exact", on>>}>>} IN
        /\ request' = [request EXCEPT !.audio = audio]
        /\ asked' = [asked EXCEPT !.audio = Remap(audio)]
        /\ \E m \in {n \in Captures : \A b \in Binding(Demands(Remap(audio), "nativeAgc")) : n.agc = b} :
            media' = [media EXCEPT !.agc = m.agc]
    /\ UNCHANGED <<engine, label, cams, phase, listing, live, error>>

CaptureNext ==
    \/ \E r \in Requests : GetUserMedia(r)
    \/ DevicesListed \/ AskListed
    \/ \E k \in DOMAIN cams : Unplug(k)
    \/ Capture \/ CaptureFails
    \/ \E on \in BOOLEAN : ApplyConstraints(on)

-------------------------------------------------------------------------------
\* A stream the page is given is what it must have: every kind it asked for
\* (by promise), a width within the bounds, the camera it named (unless the
\* facing mode replaces it), a camera whose label said so where one was
\* listed, the audio processing, the screen.  A page that is refused is told
\* a name of today's, and nothing of its request goes on capturing.
CaptureIsAsDemanded ==
    /\ phase = "given" =>
        LET video == Compact(request.video) IN
        /\ request.form # "callback" => media.kinds = request.kinds
        /\ "video" \in media.kinds =>
            /\ \A d \in Demands(video, "width") :
                /\ d[1] = "exact" => media.width = d[2]
                /\ d[1] = "min" => media.width >= d[2]
                /\ d[1] = "max" => media.width <= d[2]
            /\ Face(video) = {} =>
                \A cam \in Binding(Demands(video, "deviceId")) : media.camera = cam
            /\ \A f \in Binding(Demands(video, "facingMode")) :
                (engine # "chrome60" \/ \E k \in DOMAIN listing : LooksLike(listing[k], f)) =>
                    LooksLike(media.camera, f)
            /\ request.form = "display" => media.source = "screen"
        /\ "audio" \in media.kinds =>
            \A on \in Binding(Demands(request.audio, "agc")) :
                Demands(request.audio, "nativeAgc") = {} => media.agc = on
    /\ phase = "refused" => ~live /\ error \in Errors
===============================================================================
