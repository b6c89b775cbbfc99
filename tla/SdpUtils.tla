------------------------------- MODULE SdpUtils -------------------------------
(***************************************************************************)
(* The session description helpers of                                      *)
(* src/screen_share/static/js/adapter.js (SDPUtils), read as a pure        *)
(* algorithm: what is read from a description, written and read again must *)
(* be the same.                                                            *)
(*                                                                         *)
(* A description is a sequence of lines and a line the sequence of its     *)
(* tokens: the name before the colon, then what the line's separators      *)
(* part, with a token that is parted again (an id and its direction, a     *)
(* parameter and its value) as a sequence of its own.  A number is its     *)
(* decimal text, so that "0" is the number JavaScript takes for false.  A  *)
(* field a JavaScript object does not have is Undefined.                   *)
(***************************************************************************)
EXTENDS Integers, Sequences
SeqExt == INSTANCE SequencesExt

CONSTANTS
    Descriptions    \* what browsers write: candidate lines and media sections

VARIABLES
    text,           \* the lines of one description
    origin          \* the lines as the browser wrote them

sdpVars == <<text, origin>>

Undefined == "undefined"
Truthy(number) == number \notin {Undefined, "0"}

Rest(line, k) == SubSeq(line, k, Len(line))
Token(line, k) == IF k <= Len(line) THEN line[k] ELSE Undefined
First(lines) == IF lines = <<>> THEN <<>> ELSE lines[1]
Each(F(_), s) == [k \in DOMAIN s |-> F(s[k])]

\* toUpperCase and toLowerCase on the words of the inputs.
Cases == {<<"rtx", "RTX">>, <<"red", "RED">>, <<"ulpfec", "ULPFEC">>,
          <<"udp", "UDP">>, <<"tcp", "TCP">>, <<"sha-256", "SHA-256">>, <<"ab", "AB">>}
Upper(w) == IF \E p \in Cases : p[1] = w THEN (CHOOSE p \in Cases : p[1] = w)[2] ELSE w
Lower(w) == IF \E p \in Cases : p[2] = w THEN (CHOOSE p \in Cases : p[2] = w)[1] ELSE w

\* All but one of the prefixes end with the separator: they stand for one name.
MatchPrefix(lines, name) == SelectSeq(lines, LAMBDA l : l[1] = name)

\* The session part, then the media sections.
SplitSections(lines) ==
    LET start == {1} \cup {k \in DOMAIN lines : lines[k][1] = "m"}
        End(k) == CHOOSE e \in k..Len(lines) :
                    /\ e + 1 \in start \/ e = Len(lines)
                    /\ \A j \in (k + 1)..e : j \notin start
    IN Each(LAMBDA k : SubSeq(lines, k, End(k)),
            SelectSeq([k \in DOMAIN lines |-> k], LAMBDA k : k \in start))

-------------------------------------------------------------------------------
(***************************************************************************)
(* Candidates                                                              *)
(***************************************************************************)
ParseCandidate(line) ==
    LET names == {k \in 10..Len(line) : k % 2 = 0}
        Named(w) == {k \in names : line[k] = w}
        LastOf(w) == IF Named(w) = {} THEN Undefined
                     ELSE Token(line, (CHOOSE k \in Named(w) : \A j \in Named(w) : j <= k) + 1)
        other == {line[k] : k \in names} \ {"raddr", "rport", "tcptype", "ufrag"}
    IN [foundation |-> line[2],
        component |-> CASE line[3] = "1" -> "rtp" [] line[3] = "2" -> "rtcp" [] OTHER -> line[3],
        protocol |-> Lower(line[4]), priority |-> line[5],
        address |-> line[6], port |-> line[7], type |-> line[9],
        relatedAddress |-> LastOf("raddr"), relatedPort |-> LastOf("rport"),
        tcpType |-> LastOf("tcptype"), ufrag |-> LastOf("ufrag"),
        others |-> [w \in other |-> Token(line,
                        (CHOOSE k \in Named(w) : \A j \in Named(w) : k <= j) + 1)]]

WriteCandidate(c) ==
    <<"candidate", c.foundation,
      CASE c.component = "rtp" -> "1" [] c.component = "rtcp" -> "2" [] OTHER -> c.component,
      Upper(c.protocol), c.priority, c.address, c.port, "typ", c.type>>
    \o (IF c.type # "host" /\ c.relatedAddress # Undefined /\ Truthy(c.relatedPort)
        THEN <<"raddr", c.relatedAddress, "rport", c.relatedPort>> ELSE <<>>)
    \o (IF c.tcpType # Undefined /\ c.protocol = "tcp" THEN <<"tcptype", c.tcpType>> ELSE <<>>)
    \o (IF c.ufrag # Undefined THEN <<"ufrag", c.ufrag>> ELSE <<>>)

-------------------------------------------------------------------------------
(***************************************************************************)
(* Codecs and header extensions                                            *)
(***************************************************************************)
ParseRtpMap(line) ==
    [payloadType |-> line[2], name |-> line[3], clockRate |-> line[4],
     channels |-> IF Len(line) = 5 THEN line[5] ELSE "1"]

WriteRtpMap(codec) ==
    <<"rtpmap", codec.payloadType, codec.name, codec.clockRate>>
    \o (IF Truthy(codec.channels) /\ codec.channels # "1" THEN <<codec.channels>> ELSE <<>>)

ParseExtmap(line) ==
    [id |-> line[2][1],
     direction |-> IF Len(line[2]) > 1 THEN line[2][2] ELSE "sendrecv",
     uri |-> line[3], attributes |-> Rest(line, 4)]

\* Mutant: the direction is left out.
WriteExtmapPlain(e) == <<"extmap", <<e.id>>, e.uri>> \o e.attributes

\* The number 0 is taken for none, and the word "undefined" written for it.
WriteExtmap(e) ==
    LET id == IF Truthy(e.id) THEN e.id ELSE Undefined
    IN <<"extmap", IF e.direction # "sendrecv" THEN <<id, e.direction>> ELSE <<id>>, e.uri>>
       \o e.attributes

\* The last value of a parameter that is there twice; none for a bare name.
ParseFmtp(line) ==
    LET params == Rest(line, 3)
        At(w) == {k \in DOMAIN params : params[k][1] = w}
    IN [w \in {params[k][1] : k \in DOMAIN params} |->
            Token(params[CHOOSE k \in At(w) : \A j \in At(w) : j <= k], 2)]

WriteFmtp(codec) ==
    LET p == codec.parameters
        Param(w) == IF p[w] = Undefined THEN <<w>> ELSE <<w, p[w]>>
    IN IF DOMAIN p = {} THEN <<>>
       ELSE << <<"fmtp", codec.payloadType>> \o Each(Param, SeqExt!SetToSeq(DOMAIN p)) >>

ParseRtcpFb(line) == [type |-> line[3], parameter |-> Rest(line, 4)]

WriteRtcpFb(codec) ==
    Each(LAMBDA fb : <<"rtcp-fb", codec.payloadType, fb.type>> \o fb.parameter, codec.rtcpFeedback)

\* The lines of one payload type.
LinesOf(section, name, pt) == SelectSeq(MatchPrefix(section, name), LAMBDA l : l[2] = pt)

\* Feedback of every codec, unless the codec has it already.
WithWildcards(own, wild) ==
    SeqExt!FoldLeft(LAMBDA fbs, fb : IF SeqExt!Contains(fbs, fb) THEN fbs ELSE Append(fbs, fb), own, wild)

Codec(section, pt) ==
    LET map == ParseRtpMap(First(LinesOf(section, "rtpmap", pt)))
        fmtps == LinesOf(section, "fmtp", pt)
    IN [payloadType |-> map.payloadType, name |-> map.name,
        clockRate |-> map.clockRate, channels |-> map.channels,
        parameters |-> IF fmtps = <<>> THEN <<>> ELSE ParseFmtp(fmtps[1]),
        rtcpFeedback |-> WithWildcards(Each(ParseRtcpFb, LinesOf(section, "rtcp-fb", pt)),
                                       Each(ParseRtcpFb, LinesOf(section, "rtcp-fb", "*")))]

\* A payload type without a rtpmap line is no codec.
ParseRtpParameters(section) ==
    LET codecs == Each(LAMBDA pt : Codec(section, pt),
                       SelectSeq(Rest(section[1], 5), LAMBDA pt : LinesOf(section, "rtpmap", pt) # <<>>))
    IN [profile |-> section[1][4], codecs |-> codecs,
        headerExtensions |-> Each(ParseExtmap, MatchPrefix(section, "extmap")),
        fecMechanisms |-> SelectSeq(Each(LAMBDA c : Upper(c.name), codecs),
                                    LAMBDA w : w \in {"RED", "ULPFEC"})]

\* The codecs of a description that was read have neither a preferred payload
\* type nor a maxptime.
WriteRtpDescription(kind, caps) ==
    << <<"m", kind, IF caps.codecs # <<>> THEN "9" ELSE "0", caps.profile>>
       \o Each(LAMBDA c : c.payloadType, caps.codecs),
       <<"c", "0.0.0.0">>, <<"rtcp", "9">> >>
    \o SeqExt!FlattenSeq(Each(LAMBDA c : <<WriteRtpMap(c)>> \o WriteFmtp(c) \o WriteRtcpFb(c), caps.codecs))
    \o Each(WriteExtmap, caps.headerExtensions)

-------------------------------------------------------------------------------
(***************************************************************************)
(* Flows: sources, their encodings, their stream and track                 *)
(***************************************************************************)
ParseSsrcMedia(line) == [ssrc |-> line[2], attribute |-> line[3], value |-> Rest(line, 4)]

SourcesWith(section, attribute) ==
    SelectSeq(Each(ParseSsrcMedia, MatchPrefix(section, "ssrc")), LAMBDA s : s.attribute = attribute)

PrimarySsrc(section) ==
    LET s == SourcesWith(section, "cname") IN IF s = <<>> THEN Undefined ELSE s[1].ssrc

\* The source of retransmissions, if the first FID group starts with the primary one.
SecondarySsrc(section) ==
    LET flow == First(SelectSeq(MatchPrefix(section, "ssrc-group"), LAMBDA l : l[2] = "FID"))
    IN IF Len(flow) > 3 /\ Token(flow, 3) = PrimarySsrc(section) THEN flow[4] ELSE Undefined

\* Bits per second; a rate in kilobits leaves out the headers, and may be negative.
MaxBitrate(section) ==
    LET b == First(MatchPrefix(section, "b")) IN
    IF b = <<>> THEN {}
    ELSE IF b[2] = "TIAS" THEN {b[3]}
    ELSE IF b[2] = "AS" THEN {b[3] * 950 - 50 * 40 * 8} ELSE {}

ParseRtpEncodingParameters(section) ==
    LET d == ParseRtpParameters(section)
        primary == PrimarySsrc(section)
        Rtx(c) == /\ Upper(c.name) = "RTX"
                  /\ "apt" \in DOMAIN c.parameters /\ c.parameters["apt"] # Undefined
        Encoding(pt, fec) ==
            [ssrc |-> primary, codecPayloadType |-> pt, fec |-> fec,
             rtx |-> IF pt # Undefined /\ Truthy(primary) THEN SecondarySsrc(section) ELSE Undefined,
             maxBitrate |-> MaxBitrate(section)]
        fecs == IF SeqExt!Contains(d.fecMechanisms, "RED")
                THEN <<Undefined, IF SeqExt!Contains(d.fecMechanisms, "ULPFEC") THEN "red+ulpfec" ELSE "red">>
                ELSE <<Undefined>>
        encodings == SeqExt!FlattenSeq(Each(
            LAMBDA c : Each(LAMBDA fec : Encoding(c.parameters["apt"], fec), fecs),
            SelectSeq(d.codecs, Rtx)))
    IN IF encodings = <<>> /\ Truthy(primary) THEN <<Encoding(Undefined, Undefined)>> ELSE encodings

\* The prefix a=rtcp-mux is that of a=rtcp-mux-only too.
ParseRtcpParameters(section) ==
    LET s == SourcesWith(section, "cname") IN
    [cname |-> IF s = <<>> THEN Undefined ELSE s[1].value[1], ssrc |-> PrimarySsrc(section),
     reducedSize |-> MatchPrefix(section, "rtcp-rsize") # <<>>,
     mux |-> \E k \in DOMAIN section : section[k][1] \in {"rtcp-mux", "rtcp-mux-only"}]

WriteRtcpParameters(p) ==
    (IF p.reducedSize THEN << <<"rtcp-rsize">> >> ELSE <<>>)
    \o (IF p.mux THEN << <<"rtcp-mux">> >> ELSE <<>>)
    \o (IF p.ssrc # Undefined /\ p.cname # Undefined
        THEN << <<"ssrc", p.ssrc, "cname", p.cname>> >> ELSE <<>>)

\* Two a=msid lines count as none.
ParseMsid(section) ==
    LET spec == MatchPrefix(section, "msid")
        planB == SourcesWith(section, "msid")
    IN IF Len(spec) = 1 THEN Rest(spec[1], 2)
       ELSE IF planB # <<>> THEN planB[1].value ELSE <<>>

-------------------------------------------------------------------------------
(***************************************************************************)
(* Transports                                                              *)
(***************************************************************************)
ParseFingerprint(line) == [algorithm |-> Lower(line[2]), value |-> Upper(line[3])]

GetDtlsParameters(section, session) ==
    Each(ParseFingerprint, MatchPrefix(section \o session, "fingerprint"))

WriteDtlsParameters(fingerprints, setup) ==
    << <<"setup", setup>> >>
    \o Each(LAMBDA fp : <<"fingerprint", fp.algorithm, fp.value>>, fingerprints)

\* None unless both are there; the media section's come before the session's.
GetIceParameters(section, session) ==
    LET ufrag == First(MatchPrefix(section \o session, "ice-ufrag"))
        pwd == First(MatchPrefix(section \o session, "ice-pwd"))
    IN IF ufrag = <<>> \/ pwd = <<>> THEN <<>> ELSE <<ufrag[2], pwd[2]>>

WriteIceParameters(p) ==
    IF p = <<>> THEN <<>> ELSE << <<"ice-ufrag", p[1]>>, <<"ice-pwd", p[2]>> >>

\* Key parameters are split at each bar: a lifetime that is left out shifts the rest.
ParseCryptoLine(line) ==
    [tag |-> line[2], cryptoSuite |-> line[3], sessionParams |-> Rest(line, 5),
     keySalt |-> line[4][1], lifeTime |-> Token(line[4], 2), mki |-> Token(line[4], 3)]

WriteCryptoLine(p) ==
    <<"crypto", p.tag, p.cryptoSuite,
      <<p.keySalt>> \o (IF p.lifeTime # Undefined THEN <<p.lifeTime>> ELSE <<>>)
                    \o (IF p.mki # Undefined THEN <<p.mki>> ELSE <<>>)>>
    \o p.sessionParams

GetCryptoParameters(section, session) ==
    Each(ParseCryptoLine, MatchPrefix(section \o session, "crypto"))

MediaDirections == {"sendrecv", "sendonly", "recvonly", "inactive"}

GetDirection(section, session) ==
    LET found == SelectSeq(section \o session, LAMBDA l : l[1] \in MediaDirections)
    IN IF found = <<>> THEN "sendrecv" ELSE found[1][1]

GetMid(section) == LET mid == MatchPrefix(section, "mid") IN
                   IF mid = <<>> THEN Undefined ELSE mid[1][2]
GetKind(section) == section[1][2]
IsRejected(section) == section[1][3] = "0"

ParseMLine(section) ==
    [kind |-> section[1][2], port |-> section[1][3], protocol |-> section[1][4], fmt |-> section[1][5]]

\* The newer form first, then the older one; NaN counts as no size.
ParseSctpDescription(section) ==
    LET size == First(MatchPrefix(section, "max-message-size"))
        port == First(MatchPrefix(section, "sctp-port"))
        old == First(MatchPrefix(section, "sctpmap"))
        Says(p, protocol) == [port |-> p, protocol |-> protocol,
                              maxMessageSize |-> IF size = <<>> THEN "65536" ELSE size[2]]
    IN IF port # <<>> THEN {Says(port[2], ParseMLine(section).fmt)}
       ELSE IF old # <<>> THEN {Says(old[2], old[3])} ELSE {}

WriteSctpDescription(media, sctp) ==
    (IF media.protocol # "DTLS/SCTP"
     THEN << <<"m", media.kind, "9", media.protocol, sctp.protocol>>,
             <<"c", "0.0.0.0">>, <<"sctp-port", sctp.port>> >>
     ELSE << <<"m", media.kind, "9", media.protocol, sctp.port>>,
             <<"c", "0.0.0.0">>, <<"sctpmap", sctp.port, sctp.protocol, "65535">> >>)
    \o << <<"max-message-size", sctp.maxMessageSize>> >>

WriteSessionBoilerplate == << <<"v", "0">>, <<"o", "2">>, <<"s", "-">>, <<"t", "0">> >>

-------------------------------------------------------------------------------
(***************************************************************************)
(* A page that reads a description and writes it with the same helpers;    *)
(* mid, msid and direction it writes itself.                               *)
(***************************************************************************)
IsCandidate(lines) == lines[1][1] = "candidate"
SessionOf(lines) == SplitSections(lines)[1]
MediaOf(lines) == SplitSections(lines)[2]

WriteMedia(section, session) ==
    IF GetKind(section) = "application"
    THEN SeqExt!FlattenSeq(SeqExt!SetToSeq({WriteSctpDescription(ParseMLine(section), sctp) :
                                sctp \in ParseSctpDescription(section)}))
    ELSE WriteRtpDescription(GetKind(section), ParseRtpParameters(section))
         \o WriteIceParameters(GetIceParameters(section, session))
         \o WriteDtlsParameters(GetDtlsParameters(section, session), "actpass")
         \o Each(WriteCryptoLine, GetCryptoParameters(section, session))
         \o << <<GetDirection(section, session)>>, <<"mid", GetMid(section)>> >>
         \o (IF ParseMsid(section) = <<>> THEN <<>> ELSE << <<"msid">> \o ParseMsid(section) >>)
         \o WriteRtcpParameters(ParseRtcpParameters(section))

SdpInit == origin \in Descriptions /\ text = origin

\* A description that was not understood is not written.
Rewrite ==
    /\ ~IsCandidate(text) /\ GetKind(MediaOf(text)) = "application" =>
            ParseSctpDescription(MediaOf(text)) # {}
    /\ text' = IF IsCandidate(text) THEN <<WriteCandidate(ParseCandidate(text[1]))>>
               ELSE WriteSessionBoilerplate \o WriteMedia(MediaOf(text), SessionOf(text))
    /\ UNCHANGED origin

SdpNext == Rewrite

-------------------------------------------------------------------------------
\* What a candidate line says that is written again: not the base of a host
\* candidate or one whose port is 0, not the type of a connection that is
\* none, and no extension but the user name fragment.
CandidateSays(line) ==
    LET c == ParseCandidate(line)
        based == c.type # "host" /\ Truthy(c.relatedPort) /\ c.relatedAddress # Undefined
    IN [c EXCEPT !.others = {},
                 !.relatedAddress = IF based THEN @ ELSE Undefined,
                 !.relatedPort = IF based THEN @ ELSE Undefined,
                 !.tcpType = IF c.protocol = "tcp" THEN @ ELSE Undefined]

\* What a media section says that is written again: not that a header extension has
\* the number 0, not the source of retransmissions or the bitrate of an encoding, and
\* no source but the first with a name.
ExtensionSays(e) == [e EXCEPT !.id = IF Truthy(@) THEN @ ELSE Undefined]
EncodingSays(e) == [e EXCEPT !.rtx = Undefined, !.maxBitrate = {}]

MediaSays(section, session) ==
    IF GetKind(section) = "application" THEN <<ParseSctpDescription(section)>>
    ELSE LET rtp == ParseRtpParameters(section) IN
         <<[rtp EXCEPT !.headerExtensions = Each(ExtensionSays, @)], ParseRtcpParameters(section),
           GetIceParameters(section, session), GetDtlsParameters(section, session),
           GetCryptoParameters(section, session), GetDirection(section, session),
           GetMid(section), ParseMsid(section),
           Each(EncodingSays, ParseRtpEncodingParameters(section))>>

Says(lines) == IF IsCandidate(lines) THEN CandidateSays(lines[1])
               ELSE MediaSays(MediaOf(lines), SessionOf(lines))

\* However often a description is read and written, it says what the browser said,
\* but for the losses CandidateSays and MediaSays name: its codecs in their order
\* with their parameters and feedback (given for all codecs or for one), header
\* extensions, the first source, what each encoding is of, stream, track, credentials,
\* fingerprints, keys and direction, wherever they stood; and a section is rejected
\* just when it lists no codec.
DescriptionsSurvive ==
    /\ Says(text) = Says(origin)
    /\ (text # origin /\ ~IsCandidate(text) /\ GetKind(MediaOf(text)) # "application") =>
            (IsRejected(MediaOf(text)) <=> ParseRtpParameters(MediaOf(origin)).codecs = <<>>)
===============================================================================
