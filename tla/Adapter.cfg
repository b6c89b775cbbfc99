SPECIFICATION Spec
CONSTANTS
    s1 = s1  s2 = s2  a1 = a1  v1 = v1  a2 = a2  v2 = v2
    i1 = i1  i2 = i2  i3 = i3  e1 = e1  e2 = e2  e3 = e3
    c1 = c1  c2 = c2  c3 = c3
    w1 = w1  w2 = w2  w3 = w3  w4 = w4  w5 = w5  w6 = w6  w7 = w7  w8 = w8
    r1 = r1  r2 = r2  u1 = u1  u2 = u2  u3 = u3
    Streams <- MCStreams
    Tracks <- MCTracks
    TracksOf <- MCTracksOf
    Audio <- MCAudio
    Ids = {i1, i2, i3}
    NoId = NoId
    NoStream = NoStream
    Cbs = {c1, c2, c3}
    Wraps = {w1, w2, w3, w4, w5, w6, w7, w8}
    RStreams = {r1, r2}
    RTracks = {u1, u2, u3}
    StreamOf <- MCStreamOf
    NoFn = NoFn
    MaxPolys = 3
    Senders = {e1, e2, e3}
    MaxTransceivers = 3
    Lengths = {1000, 1001, 16384, 65536, 65537, 262145}
    k1 = k1  k2 = k2
    Plugged <- MCPlugged
    Requests <- MCRequests
    None = None
    StatSenders = {e1, e2}
    StatReceivers = {r1}
    StatTracks = {a1}
    Received <- MCReceived
    NoTrack = NoTrack
    Descriptions <- MCDescriptions
INVARIANTS
    DescriptionsSurvive
    CaptureIsAsDemanded
    StatsAreOfTrack
    IdsRoundTrip
    ReachesRegistered
    PageIsTold
    SendFits
PROPERTIES
    BehavesAsInOtherBrowsers
    OfferIsMade
    SendingIsKept
CHECK_DEADLOCK FALSE
