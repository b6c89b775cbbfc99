------------------------------ MODULE MCAdapter -------------------------------
(* A behaviour exercises one group of the shims of adapter.js; the groups     *)
(* share no field of the connection.                                          *)
EXTENDS StreamShims, PcEvents, OfferShims, MediaCapture, PcStats, SdpUtils

CONSTANTS
    s1, s2, a1, v1, a2, v2,
    c1, c2, c3, w1, w2, w3, w4, w5, w6, w7, w8, r1, r2, u1, u2, u3,
    i1, i2, i3, e1, e2, e3, k1, k2

MCStreams == {s1, s2}
MCTracks == {a1, v1, a2, v2}
MCTracksOf == [s \in {s1, s2} |-> IF s = s1 THEN {a1, v1} ELSE {a2, v2}]
MCAudio == {a1, a2}
MCStreamOf == [t \in {u1, u2, u3} |-> IF t = u3 THEN r2 ELSE r1]

MCPlugged == <<k1, k2>>
MCWidth == { {<<"width", {<<"exact", 2>>}>>}, {<<"width", {<<"min", 1>>, <<"max", 2>>}>>},
             {<<"width", {<<"min", 3>>}>>}, {<<"width", {<<"ideal", 1>>, <<"max", None>>}>>} }
MCDevice == { {}, {<<"deviceId", {<<"exact", k2>>}>>}, {<<"deviceId", {<<"ideal", k2>>}>>} }
MCFacing == { {}, {<<"facingMode", {<<"exact", "user">>}>>}, {<<"facingMode", {<<"ideal", "user">>}>>},
              {<<"facingMode", {<<"exact", "environment">>}>>} }
MCAgc == { {}, {<<"agc", {<<"exact", FALSE>>}>>}, {<<"agc", {<<"ideal", FALSE>>}>>},
           {<<"agc", {<<"exact", FALSE>>}>>, <<"nativeAgc", {<<"exact", TRUE>>}>>} }
MCVideos == MCWidth \cup {d \cup f : d \in MCDevice, f \in MCFacing}
MCRequests ==
    {[form |-> form, kinds |-> {"video"}, audio |-> {}, video |-> v] :
        form \in {"promise", "callback", "display"}, v \in MCVideos}
    \cup {[form |-> form, kinds |-> {"audio", "video"}, audio |-> a, video |-> {}] :
        form \in {"promise", "callback", "display"}, a \in MCAgc}
    \cup {[form |-> form, kinds |-> {"audio"}, audio |-> a, video |-> {}] :
        form \in {"promise", "display"}, a \in MCAgc}
MCReceived == [r \in {r1} |-> u1]
MCCandidates ==
    { << <<"candidate", "f", component, protocol, "p", "a", "9", "typ", type>>
         \o related \o tcp \o ufrag \o <<"generation", "0">> >> :
        component \in {"1", "2"}, protocol \in {"udp", "TCP"}, type \in {"host", "relay"},
        related \in {<<>>, <<"raddr", "r", "rport", "0">>, <<"raddr", "r", "rport", "5">>},
        tcp \in {<<>>, <<"tcptype", "passive">>}, ufrag \in {<<>>, <<"ufrag", "u">>} }
MCOptional == <<
    <<"rtpmap", "96", "VP8", "90000">>, <<"rtpmap", "97", "rtx", "90000">>,
    <<"rtpmap", "98", "red", "8000", "2">>, <<"fmtp", "97", <<"apt", "96">>, <<"once">>>>,
    <<"fmtp", "97", <<"later", "1">>>>,
    <<"rtcp-fb", "*", "nack">>, <<"rtcp-fb", "96", "nack">>,
    <<"extmap", <<"2", "sendonly">>, "toffset">>,
    <<"ssrc", "1", "cname", "c">>, <<"ssrc-group", "FID", "1", "2">> >>
MCSession == << <<"v", "0">>, <<"fingerprint", "SHA-256", "ab">>, <<"ice-pwd", "w">>, <<"recvonly">> >>
MCVideo ==
    { session \o << <<"m", "video", "9", "SAVPF", "96", "97", "98", "0">> >>
      \o SelectSeq(MCOptional, LAMBDA l : l \in on)
      \o << <<"ice-ufrag", "u">>, <<"crypto", "1", "AES", <<"k", "2^20">>, "x">>, <<"rtcp-mux-only">>,
            <<"extmap", <<"3">>, "mid", "attr">>, <<"extmap", <<"0", "recvonly">>, "none">>,
            <<"ssrc", "1", "msid", "s", "t">>, <<"b", "AS", 16>> >> :
        session \in {MCSession, << <<"v", "0">> >>}, on \in SUBSET {MCOptional[k] : k \in DOMAIN MCOptional} }
MCSctp ==
    { << <<"v", "0">>, <<"m", "application", "9", profile, "p">> >> \o lines \o size :
        profile \in {"DTLS/SCTP", "UDP/DTLS/SCTP"},
        lines \in {<<>>, << <<"sctp-port", "5">> >>, << <<"sctpmap", "5", "p", "1024">> >>},
        size \in {<<>>, << <<"max-message-size", "0">> >>} }
MCDescriptions == MCCandidates \cup MCVideo \cup MCSctp
MCIdleDescription == MCSession \o << <<"m", "application", "9", "DTLS/SCTP", "p">> >>

VARIABLE part

vars == <<part, shimVars, eventVars, offerVars, captureVars, statVars, sdpVars>>

Init ==
    /\ part \in {"streams", "events", "offers", "capture", "stats", "sdp"}
    /\ ShimInit /\ (part # "streams" => browser = "safari")
    /\ EventInit /\ (part # "events" => group = "wrap")
    /\ OfferInit /\ (part # "offers" => shim = "legacy")
    /\ StatInit /\ (part # "stats" => kind = "chrome")
    /\ IF part = "capture" THEN CaptureInit
       ELSE CaptureInit /\ engine = "safari" /\ label = [c \in Cameras |-> "plain"]
    /\ IF part = "sdp" THEN SdpInit
       ELSE origin = MCIdleDescription /\ text = origin

StreamsPart == part = "streams" /\ ShimNext /\ UNCHANGED
    <<part, eventVars, offerVars, captureVars, statVars, sdpVars>>
EventsPart == part = "events" /\ EventNext /\ UNCHANGED
    <<part, shimVars, offerVars, captureVars, statVars, sdpVars>>
OffersPart == part = "offers" /\ OfferNext /\ UNCHANGED
    <<part, shimVars, eventVars, captureVars, statVars, sdpVars>>
CapturePart == part = "capture" /\ CaptureNext /\ UNCHANGED
    <<part, shimVars, eventVars, offerVars, statVars, sdpVars>>
StatsPart == part = "stats" /\ StatNext /\ UNCHANGED
    <<part, shimVars, eventVars, offerVars, captureVars, sdpVars>>
SdpPart == part = "sdp" /\ SdpNext /\ UNCHANGED
    <<part, shimVars, eventVars, offerVars, captureVars, statVars>>

Next == StreamsPart \/ EventsPart \/ OffersPart \/ CapturePart \/ StatsPart \/ SdpPart

Spec == Init /\ [][Next]_vars /\ OfferFairness
===============================================================================
