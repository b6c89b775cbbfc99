---------------------------- MODULE Adapter_proof -----------------------------
(***************************************************************************)
(* Proofs about the shims of adapter.js, for every set of streams, tracks, *)
(* functions, transceivers and cameras.  The groups of shims share no      *)
(* state, and each has its own invariant:                                  *)
(*                                                                         *)
(*   StreamShims   the two maps of an old Chrome are inverse to each other *)
(*   PcEvents      two layers of wrappers for each registered function;    *)
(*                 what the page was told, and what is still to be told    *)
(*   OfferShims    the directions that send go on sending (no invariant)   *)
(*   MediaCapture  the native call asks for the request in the browser's   *)
(*                 own syntax, and what was captured meets that            *)
(*   PcStats       what the page was given are the walks over the reports  *)
(*                 from the streams of one track                           *)
(*   SdpUtils      a candidate line, as it stands now, says what the first *)
(*                 one said                                                *)
(***************************************************************************)
EXTENDS StreamShims, PcEvents, OfferShims, MediaCapture, PcStats, SdpUtils,
        FiniteSetTheorems, SequenceTheorems, WellFoundedInduction, TLAPS

EventSpec == EventInit /\ [][EventNext]_eventVars
OfferSpec == OfferInit /\ [][OfferNext]_offerVars
CaptureSpec == CaptureInit /\ [][CaptureNext]_captureVars

-------------------------------------------------------------------------------
(***************************************************************************)
(* Streams.  In Chrome before 65 the two maps are inverse to each other    *)
(* where it matters: the id a stream has leads back to it, and a native    *)
(* stream stands for the stream of the page that has its tracks.  An       *)
(* addStream on a closed connection may leave an id in _reverseStreams     *)
(* that no stream has; its native stream is empty.  The invariant is       *)
(* stated on the maps (Inverses) and every change of them gets a lemma.    *)
(***************************************************************************)
Sent(n) == UNION {n[i] : i \in Ids}

NatType == [Ids -> SUBSET Tracks]
StreamsType == [Streams -> Ids \cup {NoId}]
ReverseType == [Ids -> Streams \cup {NoStream}]

\* _streams and _reverseStreams agree, and with the native streams n.
Inverses(n, st, rev) ==
    /\ \A s \in Streams : st[s] # NoId => rev[st[s]] = s
    /\ \A i \in Ids : n[i] # {} =>
        rev[i] # NoStream /\ st[rev[i]] = i /\ n[i] \subseteq TracksOf[rev[i]]

IInv ==
    /\ ShimTypeOK
    /\ browser \in Old => Inverses(nat, streams, reverse)
    /\ browser = "chrome50" => dtmf = Sent(nat)

-------------------------------------------------------------------------------
(* The maps *)

\* A track belongs to one native stream only, the one of its own stream.
LEMMA OneOwner ==
    ASSUME NEW n \in NatType, NEW st \in StreamsType, NEW rev \in ReverseType,
           Inverses(n, st, rev), NEW s \in Streams, NEW t \in TracksOf[s],
           NEW i \in Ids, t \in n[i]
    PROVE  st[s] = i
<1>1. n[i] # {} /\ rev[i] \in Streams /\ st[rev[i]] = i /\ t \in TracksOf[rev[i]]
    BY DEF Inverses, ReverseType
<1>2. rev[i] = s
    BY <1>1, TracksAssumption
<1>. QED  BY <1>1, <1>2

\* A new id for a stream none of whose tracks is sent.
LEMMA StandKeepsInverses ==
    ASSUME NEW n \in NatType, NEW st \in StreamsType, NEW rev \in ReverseType,
           Inverses(n, st, rev), NEW s \in Streams, NEW i \in Ids, NEW T \in SUBSET TracksOf[s],
           n[i] = {}, rev[i] = NoStream, \A r \in Streams : st[r] # i,
           TracksOf[s] \cap Sent(n) = {}
    PROVE  Inverses([n EXCEPT ![i] = T], [st EXCEPT ![s] = i], [rev EXCEPT ![i] = s])
<1>. DEFINE m == [n EXCEPT ![i] = T]
            a == [st EXCEPT ![s] = i]
            b == [rev EXCEPT ![i] = s]
<1>1. a[s] = i /\ \A r \in Streams \ {s} : a[r] = st[r]
    BY DEF StreamsType
<1>2. b[i] = s /\ \A j \in Ids \ {i} : b[j] = rev[j]
    BY DEF ReverseType
<1>3. m[i] = T /\ \A j \in Ids \ {i} : m[j] = n[j]
    BY DEF NatType
<1>. HIDE DEF m, a, b
<1>4. ASSUME NEW r \in Streams, a[r] # NoId PROVE b[a[r]] = r
    <2>1. CASE r = s
        BY <1>1, <1>2, <2>1
    <2>2. CASE r # s
        <3>1. a[r] = st[r] /\ st[r] \in Ids /\ st[r] # i
            BY <1>1, <1>4, <2>2 DEF StreamsType
        <3>. QED  BY <1>2, <1>4, <3>1 DEF Inverses
    <2>. QED  BY <2>1, <2>2
<1>5. ASSUME NEW j \in Ids, m[j] # {}
      PROVE  b[j] # NoStream /\ a[b[j]] = j /\ m[j] \subseteq TracksOf[b[j]]
    <2>1. CASE j = i
        BY <1>1, <1>2, <1>3, <2>1, IdAssumption
    <2>2. CASE j # i
        <3>1. n[j] # {} /\ rev[j] \in Streams /\ st[rev[j]] = j /\ n[j] \subseteq TracksOf[rev[j]]
            BY <1>3, <1>5, <2>2 DEF Inverses, ReverseType
        <3>2. rev[j] # s
            BY <3>1 DEF Sent
        <3>. QED  BY <1>1, <1>2, <1>3, <2>2, <3>1, <3>2, IdAssumption
    <2>. QED  BY <2>1, <2>2
<1>6. Inverses(m, a, b)
    BY <1>4, <1>5 DEF Inverses
<1>. QED  BY <1>6 DEF m, a, b

\* The native stream of a stream gets other tracks of that stream.
LEMMA ChangeKeepsInverses ==
    ASSUME NEW n \in NatType, NEW st \in StreamsType, NEW rev \in ReverseType,
           Inverses(n, st, rev), NEW s \in Streams, st[s] # NoId,
           NEW T \in SUBSET TracksOf[s]
    PROVE  Inverses([n EXCEPT ![st[s]] = T], st, rev)
<1>. DEFINE m == [n EXCEPT ![st[s]] = T]
<1>1. st[s] \in Ids /\ rev[st[s]] = s
    BY DEF Inverses, StreamsType
<1>2. m[st[s]] = T /\ \A j \in Ids \ {st[s]} : m[j] = n[j]
    BY <1>1 DEF NatType
<1>. HIDE DEF m
<1>3. ASSUME NEW j \in Ids, m[j] # {}
      PROVE  rev[j] # NoStream /\ st[rev[j]] = j /\ m[j] \subseteq TracksOf[rev[j]]
    <2>1. CASE j = st[s]
        BY <1>1, <1>2, <2>1, IdAssumption
    <2>2. CASE j # st[s]
        BY <1>2, <1>3, <2>2 DEF Inverses
    <2>. QED  BY <2>1, <2>2
<1>4. Inverses(m, st, rev)
    BY <1>3 DEF Inverses
<1>. QED  BY <1>4 DEF m

\* A stream and its id are forgotten together.
LEMMA ForgetKeepsInverses ==
    ASSUME NEW n \in NatType, NEW st \in StreamsType, NEW rev \in ReverseType,
           Inverses(n, st, rev), NEW s \in Streams, st[s] # NoId
    PROVE  Inverses([n EXCEPT ![st[s]] = {}], [st EXCEPT ![s] = NoId], [rev EXCEPT ![st[s]] = NoStream])
<1>. DEFINE i == st[s]
            m == [n EXCEPT ![i] = {}]
            a == [st EXCEPT ![s] = NoId]
            b == [rev EXCEPT ![i] = NoStream]
<1>1. i \in Ids /\ rev[i] = s
    BY DEF Inverses, StreamsType
<1>2. a[s] = NoId /\ \A r \in Streams \ {s} : a[r] = st[r]
    BY DEF StreamsType
<1>3. \A j \in Ids \ {i} : b[j] = rev[j] /\ m[j] = n[j]
    BY <1>1 DEF ReverseType, NatType
<1>4. m[i] = {}
    BY <1>1 DEF NatType
<1>. HIDE DEF m, a, b, i
<1>5. ASSUME NEW r \in Streams, a[r] # NoId PROVE b[a[r]] = r
    <2>1. r # s /\ a[r] = st[r] /\ st[r] \in Ids /\ rev[st[r]] = r
        BY <1>2, <1>5 DEF Inverses, StreamsType
    <2>2. st[r] # i
        BY <1>1, <2>1
    <2>. QED  BY <1>3, <2>1, <2>2
<1>6. ASSUME NEW j \in Ids, m[j] # {}
      PROVE  b[j] # NoStream /\ a[b[j]] = j /\ m[j] \subseteq TracksOf[b[j]]
    <2>1. j # i
        BY <1>4, <1>6
    <2>2. b[j] = rev[j] /\ m[j] = n[j] /\ rev[j] \in Streams /\ st[rev[j]] = j
          /\ n[j] \subseteq TracksOf[rev[j]]
        BY <1>3, <1>6, <2>1 DEF Inverses, ReverseType
    <2>3. rev[j] # s
        BY <2>1, <2>2 DEF i
    <2>. QED  BY <1>2, <2>2, <2>3, IdAssumption
<1>7. Inverses(m, a, b)
    BY <1>5, <1>6 DEF Inverses
<1>. QED  BY <1>7 DEF m, a, b, i

\* Only its own native stream has tracks of a stream.
LEMMA OthersHaveNone ==
    ASSUME NEW n \in NatType, NEW st \in StreamsType, NEW rev \in ReverseType,
           Inverses(n, st, rev), NEW s \in Streams, NEW j \in Ids, j # st[s]
    PROVE  n[j] \cap TracksOf[s] = {}
BY OneOwner

\* Without the tracks of a stream, or with its native stream gone: the same.
LEMMA SentForgotten ==
    ASSUME NEW n \in NatType, NEW st \in StreamsType, NEW rev \in ReverseType,
           Inverses(n, st, rev), NEW s \in Streams
    PROVE  /\ st[s] = NoId => Sent(n) \ TracksOf[s] = Sent(n)
           /\ st[s] # NoId => Sent([n EXCEPT ![st[s]] = {}]) = Sent(n) \ TracksOf[s]
<1>1. ASSUME st[s] = NoId PROVE Sent(n) \ TracksOf[s] = Sent(n)
    <2>1. \A j \in Ids : n[j] \cap TracksOf[s] = {}
        BY <1>1, OthersHaveNone, IdAssumption
    <2>. QED  BY <2>1 DEF Sent
<1>2. ASSUME st[s] # NoId PROVE Sent([n EXCEPT ![st[s]] = {}]) = Sent(n) \ TracksOf[s]
    <2>1. st[s] \in Ids /\ rev[st[s]] = s
        BY <1>2 DEF Inverses, StreamsType
    <2>2. n[st[s]] \subseteq TracksOf[s]
        BY <2>1 DEF Inverses
    <2>3. \A j \in Ids \ {st[s]} : n[j] \cap TracksOf[s] = {}
        BY OthersHaveNone
    <2>4. Sent([n EXCEPT ![st[s]] = {}]) = UNION {n[j] : j \in Ids \ {st[s]}}
        BY <2>1 DEF Sent, NatType
    <2>5. Sent(n) \ TracksOf[s] = UNION {n[j] : j \in Ids \ {st[s]}}
        BY <2>1, <2>2, <2>3 DEF Sent
    <2>. QED  BY <2>4, <2>5
<1>. QED  BY <1>1, <1>2

-------------------------------------------------------------------------------
(* The steps *)

LEMMA InitIInv == ShimInit => IInv
<1>. SUFFICES ASSUME ShimInit PROVE IInv
    OBVIOUS
<1>1. ShimTypeOK
    BY DEF ShimInit, ShimTypeOK
<1>2. Inverses(nat, streams, reverse)
    BY DEF ShimInit, Inverses
<1>3. dtmf = Sent(nat)
    BY DEF ShimInit, Sent
<1>. QED  BY <1>1, <1>2, <1>3 DEF IInv

\* What the page's senders cover when the invariant holds.
LEMMA SendersCover ==
    ASSUME IInv, browser \in Old
    PROVE  GetSenders = Sent(nat)
BY DEF IInv, GetSenders, Sent, Old

LEMMA OldAddStreamIInv ==
    ASSUME IInv, NEW s \in Streams, OldAddStream(s)
    PROVE  IInv' /\ Sent(nat') = Sent(nat) \cup (IF closed THEN {} ELSE TracksOf[s])
<1>1. PICK i \in Ids :
        /\ Fresh(i) /\ Stand(s, i)
        /\ nat' = IF closed THEN nat ELSE [nat EXCEPT ![i] = TracksOf[s]]
    BY DEF OldAddStream
<1>2. /\ nat \in NatType /\ streams \in StreamsType /\ reverse \in ReverseType
      /\ Inverses(nat, streams, reverse) /\ browser \in Old /\ TracksOf[s] \cap Sent(nat) = {}
      /\ TracksOf[s] \in SUBSET Tracks
    BY SendersCover, TracksAssumption
       DEF IInv, ShimTypeOK, OldAddStream, NatType, StreamsType, ReverseType
<1>3. /\ nat[i] = {} /\ reverse[i] = NoStream /\ \A r \in Streams : streams[r] # i
    BY <1>1 DEF Fresh
<1>4. /\ streams' = [streams EXCEPT ![s] = i] /\ reverse' = [reverse EXCEPT ![i] = s]
      /\ UNCHANGED <<browser, closed, senders, shimmed, local>> /\ call' = "add"
      /\ dtmf' = IF closed THEN dtmf ELSE Made(TracksOf[s])
    BY <1>1 DEF Stand, OldAddStream
<1>. DEFINE T == IF closed THEN {} ELSE TracksOf[s]
<1>5. nat' = [nat EXCEPT ![i] = T]
    BY <1>1, <1>2, <1>3 DEF NatType
<1>6. Inverses(nat', streams', reverse')
    <2>1. T \in SUBSET TracksOf[s]
        OBVIOUS
    <2>. HIDE DEF T
    <2>. QED  BY <1>2, <1>3, <1>4, <1>5, <2>1, StandKeepsInverses
<1>7. Sent(nat') = Sent(nat) \cup T
    BY <1>2, <1>3, <1>5 DEF Sent, NatType
<1>8. browser = "chrome50" => dtmf' = Sent(nat')
    BY <1>4, <1>7 DEF Made, IInv
<1>9. ShimTypeOK'
    BY <1>2, <1>4, <1>5 DEF IInv, ShimTypeOK, Made, NatType
<1>. QED  BY <1>4, <1>6, <1>7, <1>8, <1>9 DEF IInv

LEMMA OldAddTrackIInv ==
    ASSUME IInv, NEW s \in Streams, NEW t \in TracksOf[s], OldAddTrack(s, t)
    PROVE  IInv' /\ Sent(nat') = Sent(nat) \cup {t}
<1>1. /\ nat \in NatType /\ streams \in StreamsType /\ reverse \in ReverseType
      /\ Inverses(nat, streams, reverse) /\ browser \in Old /\ t \notin Sent(nat)
      /\ t \in Tracks
    BY SendersCover, TracksAssumption
       DEF IInv, ShimTypeOK, OldAddTrack, NatType, StreamsType, ReverseType
<1>2. /\ UNCHANGED <<browser, closed, senders, shimmed, local>> /\ call' = "add"
      /\ dtmf' = Made({t})
    BY DEF OldAddTrack
<1>3. /\ nat' \in NatType /\ streams' \in StreamsType /\ reverse' \in ReverseType
      /\ Inverses(nat', streams', reverse') /\ Sent(nat') = Sent(nat) \cup {t}
    <2>1. CASE streams[s] # NoId
        <3>1. /\ streams[s] \in Ids /\ nat[streams[s]] \subseteq TracksOf[s]
            BY <1>1, <2>1 DEF Inverses, StreamsType
        <3>2. /\ nat' = [nat EXCEPT ![streams[s]] = nat[streams[s]] \cup {t}]
              /\ streams' = streams /\ reverse' = reverse
            BY <2>1 DEF OldAddTrack
        <3>3. nat[streams[s]] \cup {t} \in SUBSET TracksOf[s]
            BY <3>1
        <3>4. Inverses(nat', streams', reverse')
            BY <1>1, <2>1, <3>2, <3>3, ChangeKeepsInverses
        <3>5. Sent(nat') = Sent(nat) \cup {t}
            BY <1>1, <3>1, <3>2 DEF Sent, NatType
        <3>6. nat' \in NatType
            BY <1>1, <3>1, <3>2 DEF NatType
        <3>. QED  BY <1>1, <3>2, <3>4, <3>5, <3>6
    <2>2. CASE streams[s] = NoId
        <3>1. PICK i \in Ids :
                /\ Fresh(i) /\ Stand(s, i)
                /\ nat' = [nat EXCEPT ![i] = {t}]
            BY <2>2 DEF OldAddTrack
        <3>2. /\ nat[i] = {} /\ reverse[i] = NoStream /\ \A r \in Streams : streams[r] # i
              /\ streams' = [streams EXCEPT ![s] = i] /\ reverse' = [reverse EXCEPT ![i] = s]
            BY <3>1 DEF Fresh, Stand
        <3>3. nat' \in NatType /\ streams' \in StreamsType /\ reverse' \in ReverseType
            BY <1>1, <3>1, <3>2 DEF NatType, StreamsType, ReverseType
        <3>4. TracksOf[s] \cap Sent(nat) = {}
            BY <1>1, <2>2, OthersHaveNone, IdAssumption DEF Sent
        <3>5. Inverses(nat', streams', reverse')
            BY <1>1, <3>1, <3>2, <3>4, StandKeepsInverses
        <3>6. Sent(nat') = Sent(nat) \cup {t}
            BY <1>1, <3>1, <3>2 DEF Sent, NatType
        <3>. QED  BY <3>3, <3>5, <3>6
    <2>. QED  BY <2>1, <2>2
<1>4. browser = "chrome50" => dtmf' = Sent(nat')
    BY <1>2, <1>3 DEF Made, IInv
<1>5. ShimTypeOK'
    BY <1>1, <1>2, <1>3 DEF IInv, ShimTypeOK, Made, NatType, StreamsType, ReverseType
<1>. QED  BY <1>2, <1>3, <1>4, <1>5 DEF IInv

\* Forgetting a stream leaves the maps, the native streams and the made-up
\* senders in agreement.
LEMMA ForgetIInv ==
    ASSUME IInv, browser \in Old, NEW s \in Streams, Forget(s)
    PROVE  /\ nat' \in NatType /\ streams' \in StreamsType /\ reverse' \in ReverseType
           /\ Inverses(nat', streams', reverse') /\ Sent(nat') = Sent(nat) \ TracksOf[s]
           /\ dtmf' = Unmade(TracksOf[s])
<1>1. /\ nat \in NatType /\ streams \in StreamsType /\ reverse \in ReverseType
      /\ Inverses(nat, streams, reverse)
    BY DEF IInv, ShimTypeOK, NatType, StreamsType, ReverseType
<1>2. /\ nat' = IF streams[s] = NoId THEN nat ELSE [nat EXCEPT ![streams[s]] = {}]
      /\ reverse' = IF streams[s] = NoId THEN reverse ELSE [reverse EXCEPT ![streams[s]] = NoStream]
      /\ streams' = [streams EXCEPT ![s] = NoId] /\ dtmf' = Unmade(TracksOf[s])
    BY DEF Forget
<1>3. nat' \in NatType /\ streams' \in StreamsType /\ reverse' \in ReverseType
    BY <1>1, <1>2 DEF NatType, StreamsType, ReverseType
<1>4. CASE streams[s] = NoId
    <2>1. streams' = streams
        BY <1>1, <1>2, <1>4 DEF StreamsType
    <2>. QED  BY <1>1, <1>2, <1>3, <1>4, <2>1, SentForgotten
<1>5. CASE streams[s] # NoId
    <2>1. Inverses(nat', streams', reverse')
        BY <1>1, <1>2, <1>5, ForgetKeepsInverses
    <2>2. Sent(nat') = Sent(nat) \ TracksOf[s]
        BY <1>1, <1>2, <1>5, SentForgotten
    <2>. QED  BY <1>2, <1>3, <2>1, <2>2
<1>. QED  BY <1>4, <1>5

LEMMA OldRemoveStreamIInv ==
    ASSUME IInv, NEW s \in Streams, OldRemoveStream(s)
    PROVE  IInv' /\ Sent(nat') = Sent(nat) \ TracksOf[s]
<1>1. /\ browser \in Old /\ Forget(s) /\ call' = "removeStream"
      /\ UNCHANGED <<browser, closed, senders, shimmed, local>>
    BY DEF OldRemoveStream
<1>2. /\ nat' \in NatType /\ streams' \in StreamsType /\ reverse' \in ReverseType
      /\ Inverses(nat', streams', reverse') /\ Sent(nat') = Sent(nat) \ TracksOf[s]
      /\ dtmf' = Unmade(TracksOf[s])
    BY <1>1, ForgetIInv
<1>3. browser = "chrome50" => dtmf' = Sent(nat')
    BY <1>2 DEF Unmade, IInv
<1>4. ShimTypeOK'
    BY <1>1, <1>2 DEF IInv, ShimTypeOK, Unmade, NatType, StreamsType, ReverseType
<1>. QED  BY <1>1, <1>2, <1>3, <1>4 DEF IInv

LEMMA OldRemoveTrackIInv ==
    ASSUME IInv, NEW s \in Streams, NEW t \in TracksOf[s], OldRemoveTrack(s, t)
    PROVE  IInv' /\ Sent(nat') = Sent(nat) \ {t}
<1>1. /\ browser \in Old /\ call' = "removeTrack" /\ streams[s] # NoId /\ t \in nat[streams[s]]
      /\ UNCHANGED <<browser, closed, senders, shimmed, local>>
    BY DEF OldRemoveTrack
<1>2. /\ nat \in NatType /\ streams \in StreamsType /\ reverse \in ReverseType
      /\ Inverses(nat, streams, reverse)
    BY <1>1 DEF IInv, ShimTypeOK, NatType, StreamsType, ReverseType
<1>3. /\ streams[s] \in Ids /\ nat[streams[s]] \subseteq TracksOf[s]
      /\ \A j \in Ids \ {streams[s]} : nat[j] \cap TracksOf[s] = {}
    BY <1>1, <1>2, OthersHaveNone DEF Inverses, StreamsType
<1>4. /\ nat' \in NatType /\ streams' \in StreamsType /\ reverse' \in ReverseType
      /\ Inverses(nat', streams', reverse') /\ Sent(nat') = Sent(nat) \ {t}
      /\ dtmf' \in {Unmade({t}), Unmade(TracksOf[s])}
      /\ browser = "chrome50" => dtmf' = Sent(nat')
    <2>1. CASE nat[streams[s]] = {t}
        <3>1. Forget(s)
            BY <2>1 DEF OldRemoveTrack
        <3>2. Sent(nat) \ TracksOf[s] = Sent(nat) \ {t}
            BY <1>3, <2>1 DEF Sent
        <3>3. /\ nat' \in NatType /\ streams' \in StreamsType /\ reverse' \in ReverseType
              /\ Inverses(nat', streams', reverse') /\ Sent(nat') = Sent(nat) \ TracksOf[s]
              /\ dtmf' = Unmade(TracksOf[s])
            BY <1>1, <3>1, ForgetIInv
        <3>. QED  BY <3>2, <3>3 DEF Unmade, IInv
    <2>2. CASE nat[streams[s]] # {t}
        <3>1. /\ nat' = [nat EXCEPT ![streams[s]] = nat[streams[s]] \ {t}]
              /\ streams' = streams /\ reverse' = reverse /\ dtmf' = Unmade({t})
            BY <2>2 DEF OldRemoveTrack
        <3>2. nat[streams[s]] \ {t} \in SUBSET TracksOf[s] /\ nat' \in NatType
            BY <1>2, <1>3, <3>1 DEF NatType
        <3>3. Inverses(nat', streams', reverse')
            BY <1>1, <1>2, <3>1, <3>2, ChangeKeepsInverses
        <3>4. Sent(nat') = Sent(nat) \ {t}
            BY <1>2, <1>3, <3>1 DEF Sent, NatType
        <3>. QED  BY <1>2, <3>1, <3>2, <3>3, <3>4 DEF Unmade, IInv
    <2>. QED  BY <2>1, <2>2
<1>5. ShimTypeOK'
    BY <1>1, <1>4 DEF IInv, ShimTypeOK, Unmade, NatType, StreamsType, ReverseType
<1>. QED  BY <1>1, <1>4, <1>5 DEF IInv

\* The other browsers, and close(), leave the old maps alone.
LEMMA OthersIInv ==
    ASSUME IInv, UNCHANGED <<browser, oldVars>>, ShimTypeOK'
    PROVE  IInv'
BY DEF IInv, oldVars, Inverses, Sent

LEMMA OthersType ==
    ASSUME IInv,
           \/ \E s \in Streams :
                \/ NewAddStream(s) \/ NewRemoveStream(s)
                \/ SafariAddStream(s) \/ RemoveStreamByTracks(s)
                \/ \E T \in SUBSET TracksOf[s] : FirefoxAdd(s, T)
                \/ \E t \in TracksOf[s] : NewAddTrack(s, t) \/ SafariAddTrack(s, t)
           \/ \E t \in Tracks : NewRemoveTrack(t) \/ NativeRemoveTrack(t)
           \/ Close
    PROVE  UNCHANGED <<browser, oldVars>> /\ ShimTypeOK'
<1>1. ShimTypeOK /\ \A s \in Streams : TracksOf[s] \in SUBSET Tracks
    BY TracksAssumption DEF IInv
<1>2. ASSUME NEW s \in Streams, NewAddStream(s) PROVE UNCHANGED <<browser, oldVars>> /\ ShimTypeOK'
    BY <1>1, <1>2 DEF NewAddStream, oldVars, ShimTypeOK
<1>3. ASSUME NEW s \in Streams, NewRemoveStream(s) PROVE UNCHANGED <<browser, oldVars>> /\ ShimTypeOK'
    BY <1>1, <1>3 DEF NewRemoveStream, oldVars, ShimTypeOK
<1>4. ASSUME NEW s \in Streams, SafariAddStream(s) PROVE UNCHANGED <<browser, oldVars>> /\ ShimTypeOK'
    BY <1>1, <1>4 DEF SafariAddStream, oldVars, ShimTypeOK
<1>5. ASSUME NEW s \in Streams, RemoveStreamByTracks(s)
      PROVE  UNCHANGED <<browser, oldVars>> /\ ShimTypeOK'
    BY <1>1, <1>5 DEF RemoveStreamByTracks, oldVars, ShimTypeOK
<1>6. ASSUME NEW s \in Streams, NEW T \in SUBSET TracksOf[s], FirefoxAdd(s, T)
      PROVE  UNCHANGED <<browser, oldVars>> /\ ShimTypeOK'
    BY <1>1, <1>6 DEF FirefoxAdd, oldVars, ShimTypeOK
<1>7. ASSUME NEW s \in Streams, NEW t \in TracksOf[s], NewAddTrack(s, t) \/ SafariAddTrack(s, t)
      PROVE  UNCHANGED <<browser, oldVars>> /\ ShimTypeOK'
    BY <1>1, <1>7 DEF NewAddTrack, SafariAddTrack, oldVars, ShimTypeOK
<1>8. ASSUME NEW t \in Tracks, NewRemoveTrack(t) \/ NativeRemoveTrack(t)
      PROVE  UNCHANGED <<browser, oldVars>> /\ ShimTypeOK'
    BY <1>1, <1>8 DEF NewRemoveTrack, NativeRemoveTrack, oldVars, ShimTypeOK
<1>9. CASE Close
    BY <1>1, <1>9 DEF Close, oldVars, ShimTypeOK
<1>. QED  BY <1>2, <1>3, <1>4, <1>5, <1>6, <1>7, <1>8, <1>9

LEMMA NextIInv == IInv /\ [ShimNext]_shimVars => IInv'
<1>. SUFFICES ASSUME IInv, [ShimNext]_shimVars PROVE IInv'
    OBVIOUS
<1>1. ASSUME NEW s \in Streams, OldAddStream(s) PROVE IInv'
    BY <1>1, OldAddStreamIInv
<1>2. ASSUME NEW s \in Streams, OldRemoveStream(s) PROVE IInv'
    BY <1>2, OldRemoveStreamIInv
<1>3. ASSUME NEW s \in Streams, NEW t \in TracksOf[s], OldAddTrack(s, t) PROVE IInv'
    BY <1>3, OldAddTrackIInv
<1>4. ASSUME NEW s \in Streams, NEW t \in TracksOf[s], OldRemoveTrack(s, t) PROVE IInv'
    BY <1>4, OldRemoveTrackIInv
<1>5. CASE \/ \E s \in Streams :
                \/ NewAddStream(s) \/ NewRemoveStream(s)
                \/ SafariAddStream(s) \/ RemoveStreamByTracks(s)
                \/ \E T \in SUBSET TracksOf[s] : FirefoxAdd(s, T)
                \/ \E t \in TracksOf[s] : NewAddTrack(s, t) \/ SafariAddTrack(s, t)
           \/ \E t \in Tracks : NewRemoveTrack(t) \/ NativeRemoveTrack(t)
           \/ Close
    BY <1>5, OthersType, OthersIInv
<1>6. CASE UNCHANGED shimVars
    <2>1. ShimTypeOK' /\ UNCHANGED <<browser, oldVars>>
        BY <1>6 DEF IInv, ShimTypeOK, shimVars, oldVars
    <2>. QED  BY <2>1, OthersIInv
<1>. QED  BY <1>1, <1>2, <1>3, <1>4, <1>5, <1>6 DEF ShimNext

-------------------------------------------------------------------------------
(* Streams: the theorems *)

\* Under every order of a page's calls the two maps of an old Chrome are the
\* inverse of each other on the streams that are there, no internal stream has
\* tracks of another one's, and the made-up senders are the tracks that are sent.
THEOREM ShimInv == ShimSpec => []IInv
BY InitIInv, NextIInv, PTL DEF ShimSpec

\* The state of the shims is always of its type.
THEOREM ShimTypeCorrect == ShimSpec => []ShimTypeOK
<1>1. IInv => ShimTypeOK
    BY DEF IInv
<1>. QED  BY <1>1, ShimInv, PTL

\* A description an old Chrome gives a page names the page's streams only, and
\* setLocalDescription turns each of their ids into the one it came from.
THEOREM RoundTrip == ShimSpec => []IdsRoundTrip
<1>1. IInv => IdsRoundTrip
    <2>. SUFFICES ASSUME IInv, browser \in Old, NEW i \in InUse
                  PROVE  /\ ReplaceInternalStreamId(i) \in Streams
                         /\ ReplaceExternalStreamId(ReplaceInternalStreamId(i)) = i
        BY DEF IdsRoundTrip
    <2>1. i \in Ids /\ reverse[i] \in Streams /\ reverse[i] # NoStream /\ streams[reverse[i]] = i
        BY DEF IInv, InUse, Inverses, ShimTypeOK
    <2>2. PICK j \in Ids : /\ reverse[j] # NoStream /\ streams[reverse[j]] = i
                           /\ ReplaceInternalStreamId(i) = reverse[j]
        BY <2>1 DEF ReplaceInternalStreamId
    <2>3. reverse[j] \in Streams
        BY <2>2 DEF IInv, ShimTypeOK
    <2>4. ReplaceExternalStreamId(reverse[j]) = streams[reverse[j]]
        BY <2>2 DEF ReplaceExternalStreamId
    <2>. QED  BY <2>2, <2>3, <2>4
<1>. QED  BY <1>1, ShimInv, PTL

\* A page of an old Chrome is shown a sender for every track that is sent, and
\* for no other, until the connection is closed.
THEOREM SentIsShown == ShimSpec => []SendersAreSent
<1>1. IInv => SendersAreSent
    <2>. SUFFICES ASSUME IInv, browser \in Old, ~closed PROVE GetSenders = Sending
        BY DEF SendersAreSent
    <2>1. Sending = Sent(nat)
        BY DEF Sending, Sent
    <2>. QED  BY <2>1, SendersCover
<1>. QED  BY <1>1, ShimInv, PTL

-------------------------------------------------------------------------------
(***************************************************************************)
(* The shims implement LocalStreams.  As long as the connection is open,   *)
(* every browser but Safari shows the streams that have a track which is   *)
(* sent; what a call does to the shown streams then follows from what it   *)
(* does to the tracks.  Safari's list and closed connections are apart.    *)
(***************************************************************************)
Showing(S) == {s \in Streams : TracksOf[s] \cap S # {}}

\* What the refinement needs besides IInv: senders send tracks of streams, and
\* _shimmedLocalStreams has the senders of each stream.
RInv ==
    /\ IInv
    /\ \A t \in senders : \E s \in Streams : t \in TracksOf[s]
    /\ browser = "chrome65" =>
        \A s \in Streams : /\ shimmed[s] \subseteq TracksOf[s]
                           /\ ~closed => shimmed[s] = TracksOf[s] \cap senders

\* Adding tracks of a stream, removing them all, or removing one.
LEMMA ShowingMore ==
    ASSUME NEW S, NEW s \in Streams, NEW T \in SUBSET TracksOf[s], T # {}
    PROVE  Showing(S \cup T) = Showing(S) \cup {s}
BY TracksAssumption DEF Showing

LEMMA ShowingLess ==
    ASSUME NEW S, NEW s \in Streams
    PROVE  Showing(S \ TracksOf[s]) = Showing(S) \ {s}
BY TracksAssumption DEF Showing

LEMMA ShowingLessTrack ==
    ASSUME NEW S, NEW s \in Streams, NEW t \in TracksOf[s]
    PROVE  \/ Showing(S \ {t}) = Showing(S)
           \/ Showing(S \ {t}) = Showing(S) \ {s} /\ TracksOf[s] \cap (S \ {t}) = {}
<1>1. \A r \in Streams \ {s} : t \notin TracksOf[r]
    BY TracksAssumption
<1>2. CASE TracksOf[s] \cap (S \ {t}) = {}
    <2>1. Showing(S \ {t}) = Showing(S) \ {s}
        BY <1>1, <1>2 DEF Showing
    <2>. QED  BY <1>2, <2>1
<1>3. CASE TracksOf[s] \cap (S \ {t}) # {}
    <2>1. Showing(S \ {t}) = Showing(S)
        BY <1>1, <1>3 DEF Showing
    <2>. QED  BY <2>1
<1>. QED  BY <1>2, <1>3

\* An old Chrome shows the streams that have a track in a native stream.
OldShows == GetLocalStreams = Showing(Sent(nat))

LEMMA OldView == IInv /\ browser \in Old => OldShows
<1>. SUFFICES ASSUME IInv, browser \in Old PROVE GetLocalStreams = Showing(Sent(nat))
    BY DEF OldShows
<1>1. /\ nat \in NatType /\ streams \in StreamsType /\ reverse \in ReverseType
      /\ Inverses(nat, streams, reverse)
    BY DEF IInv, ShimTypeOK, NatType, StreamsType, ReverseType
<1>2. GetLocalStreams = {reverse[i] : i \in InUse}
    BY DEF GetLocalStreams
<1>3. ASSUME NEW i \in InUse PROVE reverse[i] \in Showing(Sent(nat))
    <2>1. i \in Ids /\ nat[i] # {} /\ reverse[i] \in Streams /\ nat[i] \subseteq TracksOf[reverse[i]]
        BY <1>1 DEF InUse, Inverses, ReverseType
    <2>. QED  BY <2>1 DEF Showing, Sent
<1>4. ASSUME NEW s \in Showing(Sent(nat)) PROVE \E i \in InUse : s = reverse[i]
    <2>1. PICK i \in Ids : TracksOf[s] \cap nat[i] # {}
        BY DEF Showing, Sent
    <2>2. s \in Streams
        BY DEF Showing
    <2>3. PICK t \in TracksOf[s] : t \in nat[i]
        BY <2>1
    <2>4. reverse[i] \in Streams /\ t \in TracksOf[reverse[i]]
        BY <1>1, <2>3 DEF Inverses, ReverseType
    <2>5. s = reverse[i]
        BY <2>2, <2>3, <2>4, TracksAssumption
    <2>. QED  BY <2>3, <2>5 DEF InUse
<1>. QED  BY <1>2, <1>3, <1>4

LEMMA OldViewAfter == IInv' /\ browser' \in Old => OldShows'
<1>. DEFINE B == browser \in Old
<1>1. IInv /\ B => OldShows
    BY OldView
<1>2. IInv' /\ B' => OldShows'
    BY <1>1, PTL
<1>. QED  BY <1>2 DEF Old

\* An open connection of any browser but Safari shows what it sends.
OpenView == ~closed /\ browser # "safari"
Shows == GetLocalStreams = Showing(Sending)

LEMMA View == RInv /\ OpenView => Shows
<1>. SUFFICES ASSUME RInv, OpenView PROVE Shows
    OBVIOUS
<1>1. CASE browser \in Old
    BY <1>1, OldView DEF RInv, Sending, Sent, OpenView, Shows, OldShows
<1>2. CASE browser = "chrome65"
    BY <1>2 DEF RInv, Sending, GetLocalStreams, Showing, Old, OpenView, Shows
<1>3. CASE browser = "firefox"
    BY <1>3 DEF Sending, GetLocalStreams, Showing, Old, OpenView, Shows
<1>. QED  BY <1>1, <1>2, <1>3 DEF RInv, IInv, ShimTypeOK, Browsers, OpenView

LEMMA ViewAfter == RInv' /\ OpenView' => Shows'
BY View, PTL

\* RInv is inductive.
LEMMA InitRInv == ShimInit => RInv
<1>. SUFFICES ASSUME ShimInit PROVE RInv
    OBVIOUS
<1>1. senders = {} /\ \A s \in Streams : shimmed[s] = {}
    BY DEF ShimInit
<1>. QED  BY <1>1, InitIInv DEF RInv

LEMMA NextRInv == RInv /\ [ShimNext]_shimVars => RInv'
<1>. SUFFICES ASSUME RInv, [ShimNext]_shimVars PROVE RInv'
    OBVIOUS
<1>1. IInv'
    BY NextIInv DEF RInv
<1>2. shimmed \in [Streams -> SUBSET Tracks]
    BY DEF RInv, IInv, ShimTypeOK
<1>3. ASSUME UNCHANGED <<browser, senders, shimmed>>, closed => closed' PROVE RInv'
    BY <1>1, <1>3 DEF RInv
<1>4. ASSUME NEW s \in Streams, OldAddStream(s) \/ OldRemoveStream(s) PROVE RInv'
    BY <1>3, <1>4 DEF OldAddStream, OldRemoveStream
<1>5. ASSUME NEW s \in Streams, NEW t \in TracksOf[s], OldAddTrack(s, t) \/ OldRemoveTrack(s, t)
      PROVE  RInv'
    BY <1>3, <1>5 DEF OldAddTrack, OldRemoveTrack
<1>6. ASSUME NEW s \in Streams, NewAddStream(s) PROVE RInv'
    <2>1. \A r \in Streams \ {s} : TracksOf[r] \cap TracksOf[s] = {}
        BY TracksAssumption
    <2>. QED  BY <1>1, <1>2, <1>6, <2>1 DEF NewAddStream, RInv
<1>7. ASSUME NEW s \in Streams, NEW t \in TracksOf[s], NewAddTrack(s, t) PROVE RInv'
    <2>1. \A r \in Streams \ {s} : t \notin TracksOf[r]
        BY TracksAssumption
    <2>. QED  BY <1>1, <1>2, <1>7, <2>1 DEF NewAddTrack, RInv
<1>8. ASSUME NEW s \in Streams, NewRemoveStream(s) PROVE RInv'
    <2>1. \A r \in Streams \ {s} : TracksOf[r] \cap TracksOf[s] = {}
        BY TracksAssumption
    <2>. QED  BY <1>1, <1>2, <1>8, <2>1 DEF NewRemoveStream, RInv
<1>9. ASSUME NEW t \in Tracks, NewRemoveTrack(t) PROVE RInv'
    BY <1>1, <1>9 DEF NewRemoveTrack, RInv
<1>10. ASSUME browser \in {"firefox", "safari"}, browser' = browser,
              \A t \in senders' : \E s \in Streams : t \in TracksOf[s]
       PROVE  RInv'
    BY <1>1, <1>10 DEF RInv
<1>11. ASSUME NEW s \in Streams, \E T \in SUBSET TracksOf[s] : FirefoxAdd(s, T) PROVE RInv'
    BY <1>10, <1>11 DEF FirefoxAdd, RInv
<1>12. ASSUME NEW s \in Streams, SafariAddStream(s) PROVE RInv'
    BY <1>10, <1>12 DEF SafariAddStream, RInv
<1>13. ASSUME NEW s \in Streams, RemoveStreamByTracks(s) PROVE RInv'
    BY <1>10, <1>13 DEF RemoveStreamByTracks, RInv
<1>14. ASSUME NEW s \in Streams, NEW t \in TracksOf[s], SafariAddTrack(s, t) PROVE RInv'
    BY <1>10, <1>14 DEF SafariAddTrack, RInv
<1>15. ASSUME NEW t \in Tracks, NativeRemoveTrack(t) PROVE RInv'
    BY <1>10, <1>15 DEF NativeRemoveTrack, RInv
<1>16. CASE Close
    BY <1>1, <1>16 DEF Close, RInv
<1>17. CASE UNCHANGED shimVars
    BY <1>3, <1>17 DEF shimVars
<1>. QED  BY <1>4, <1>5, <1>6, <1>7, <1>8, <1>9, <1>11, <1>12, <1>13, <1>14, <1>15, <1>16, <1>17
             DEF ShimNext

-------------------------------------------------------------------------------
(* The steps of the abstract connection, on an open connection that shows  *)
(* what it sends.                                                          *)

LEMMA AddStep ==
    ASSUME RInv, RInv', OpenView, OpenView', NEW s \in Streams, NEW T \in SUBSET TracksOf[s],
           Sending' = Sending \cup T, T # {}, call' = "add"
    PROVE  LS!LSNext
<1>1. GetLocalStreams = Showing(Sending) /\ GetLocalStreams' = Showing(Sending')
    BY View, ViewAfter DEF Shows, Showing
<1>2. Showing(Sending') = Showing(Sending) \cup {s}
    BY ShowingMore
<1>3. LS!Add(s, T)
    BY <1>1, <1>2 DEF LS!Add
<1>. QED  BY <1>3 DEF LS!LSNext

LEMMA RemoveStep ==
    ASSUME RInv, RInv', OpenView, OpenView', NEW s \in Streams,
           Sending' = Sending \ TracksOf[s], call' = "removeStream"
    PROVE  LS!LSNext
<1>1. GetLocalStreams = Showing(Sending) /\ GetLocalStreams' = Showing(Sending')
    BY View, ViewAfter DEF Shows, Showing
<1>2. Showing(Sending') = Showing(Sending) \ {s}
    BY ShowingLess
<1>3. LS!Remove(s)
    BY <1>1, <1>2 DEF LS!Remove
<1>. QED  BY <1>3 DEF LS!LSNext

LEMMA RemoveTrackStep ==
    ASSUME RInv, RInv', OpenView, OpenView', NEW s \in Streams, NEW t \in TracksOf[s],
           Sending' = Sending \ {t}, call' = "removeTrack"
    PROVE  LS!LSNext
<1>1. GetLocalStreams = Showing(Sending) /\ GetLocalStreams' = Showing(Sending')
    BY View, ViewAfter DEF Shows, Showing
<1>2. \/ Showing(Sending') = Showing(Sending)
      \/ Showing(Sending') = Showing(Sending) \ {s} /\ TracksOf[s] \cap Sending' = {}
    BY ShowingLessTrack
<1>3. LS!RemoveTrack(s, t)
    BY <1>1, <1>2 DEF LS!RemoveTrack
<1>. QED  BY <1>3 DEF LS!LSNext

-------------------------------------------------------------------------------
(* Each call of a page is a step of the abstract connection. *)

LEMMA OldSteps ==
    ASSUME RInv, RInv', NEW s \in Streams,
           \/ OldAddStream(s) \/ OldRemoveStream(s)
           \/ \E t \in TracksOf[s] : OldAddTrack(s, t) \/ OldRemoveTrack(s, t)
    PROVE  LS!LSNext
<1>1. IInv /\ browser \in Old /\ browser' = browser /\ closed' = closed
    BY DEF RInv, OldAddStream, OldRemoveStream, OldAddTrack, OldRemoveTrack
<1>2. Sending = (IF closed THEN {} ELSE Sent(nat)) /\ Sending' = (IF closed THEN {} ELSE Sent(nat'))
    BY <1>1 DEF Sending, Sent, Old
<1>3. ~closed => OpenView /\ OpenView'
    BY <1>1 DEF OpenView, Old
<1>4. CASE OldAddStream(s) /\ ~closed
    <2>1. Sending' = Sending \cup TracksOf[s] /\ call' = "add"
        BY <1>1, <1>2, <1>4, OldAddStreamIInv DEF OldAddStream
    <2>2. TracksOf[s] # {}
        BY TracksAssumption
    <2>. QED  BY <1>3, <1>4, <2>1, <2>2, AddStep
<1>5. CASE OldAddStream(s) /\ closed
    <2>1. Sent(nat') = Sent(nat) /\ call' = "add"
        BY <1>1, <1>5, OldAddStreamIInv DEF OldAddStream
    <2>2. GetLocalStreams' = GetLocalStreams
        <3>1. OldShows /\ OldShows'
            BY <1>1, OldView, OldViewAfter DEF RInv
        <3>. QED  BY <2>1, <3>1 DEF OldShows, Showing
    <2>3. LS!Add(s, {})
        BY <1>2, <1>5, <2>1, <2>2 DEF LS!Add
    <2>. QED  BY <2>3 DEF LS!LSNext
<1>6. CASE OldRemoveStream(s)
    <2>1. ~closed /\ Sending' = Sending \ TracksOf[s] /\ call' = "removeStream"
        BY <1>1, <1>2, <1>6, OldRemoveStreamIInv DEF OldRemoveStream
    <2>. QED  BY <1>3, <2>1, RemoveStep
<1>7. ASSUME NEW t \in TracksOf[s], OldAddTrack(s, t) PROVE LS!LSNext
    <2>1. ~closed /\ Sending' = Sending \cup {t} /\ call' = "add"
        BY <1>1, <1>2, <1>7, OldAddTrackIInv DEF OldAddTrack
    <2>2. {t} \in SUBSET TracksOf[s]
        OBVIOUS
    <2>. QED  BY <1>3, <2>1, <2>2, AddStep
<1>8. ASSUME NEW t \in TracksOf[s], OldRemoveTrack(s, t) PROVE LS!LSNext
    <2>1. ~closed /\ Sending' = Sending \ {t} /\ call' = "removeTrack"
        BY <1>1, <1>2, <1>8, OldRemoveTrackIInv DEF OldRemoveTrack
    <2>. QED  BY <1>3, <2>1, RemoveTrackStep
<1>. QED  BY <1>4, <1>5, <1>6, <1>7, <1>8

LEMMA NewSteps ==
    ASSUME RInv, RInv', browser = "chrome65",
           \/ \E s \in Streams :
                \/ NewAddStream(s) \/ NewRemoveStream(s)
                \/ \E t \in TracksOf[s] : NewAddTrack(s, t)
           \/ \E t \in Tracks : NewRemoveTrack(t)
    PROVE  LS!LSNext
<1>1. browser' = browser /\ closed' = closed
    BY DEF NewAddStream, NewRemoveStream, NewAddTrack, NewRemoveTrack
<1>2. /\ Sending = (IF closed THEN {} ELSE senders)
      /\ Sending' = (IF closed THEN {} ELSE senders')
      /\ GetLocalStreams = {s \in Streams : shimmed[s] # {}}
      /\ GetLocalStreams' = {s \in Streams : shimmed'[s] # {}}
      /\ shimmed \in [Streams -> SUBSET Tracks]
    BY <1>1 DEF Sending, GetLocalStreams, Old, RInv, IInv, ShimTypeOK
<1>3. ~closed => OpenView /\ OpenView'
    BY <1>1 DEF OpenView
<1>4. ASSUME NEW s \in Streams, NewAddStream(s) PROVE LS!LSNext
    <2>1. ~closed /\ Sending' = Sending \cup TracksOf[s] /\ call' = "add"
        BY <1>2, <1>4 DEF NewAddStream
    <2>2. TracksOf[s] # {}
        BY TracksAssumption
    <2>. QED  BY <1>3, <2>1, <2>2, AddStep
<1>5. ASSUME NEW s \in Streams, NEW t \in TracksOf[s], NewAddTrack(s, t) PROVE LS!LSNext
    <2>1. ~closed /\ Sending' = Sending \cup {t} /\ call' = "add"
        BY <1>2, <1>5 DEF NewAddTrack
    <2>2. {t} \in SUBSET TracksOf[s]
        OBVIOUS
    <2>. QED  BY <1>3, <2>1, <2>2, AddStep
<1>6. ASSUME NEW s \in Streams, NewRemoveStream(s) PROVE LS!LSNext
    <2>1. call' = "removeStream" /\ shimmed' = [shimmed EXCEPT ![s] = {}]
          /\ senders' = IF closed THEN senders ELSE senders \ TracksOf[s]
        BY <1>6 DEF NewRemoveStream
    <2>2. GetLocalStreams' = GetLocalStreams \ {s}
        BY <1>2, <2>1
    <2>3. LS!Remove(s)
        BY <1>2, <2>1, <2>2 DEF LS!Remove
    <2>. QED  BY <2>3 DEF LS!LSNext
<1>7. ASSUME NEW t \in Tracks, NewRemoveTrack(t) PROVE LS!LSNext
    <2>1. PICK s \in Streams : t \in TracksOf[s]
        BY <1>7 DEF NewRemoveTrack, RInv
    <2>2. call' = "removeTrack"
          /\ shimmed' = [r \in Streams |-> shimmed[r] \ {t}]
          /\ senders' = IF closed THEN senders ELSE senders \ {t}
        BY <1>7 DEF NewRemoveTrack
    <2>3. CASE ~closed
        BY <1>2, <1>3, <2>1, <2>2, <2>3, RemoveTrackStep
    <2>4. CASE closed
        <3>1. \A r \in Streams \ {s} : t \notin TracksOf[r] /\ shimmed[r] \subseteq TracksOf[r]
            BY <2>1, TracksAssumption DEF RInv
        <3>2. \A r \in Streams \ {s} : shimmed'[r] = shimmed[r]
            BY <2>2, <3>1
        <3>3. GetLocalStreams' \in {GetLocalStreams, GetLocalStreams \ {s}}
            <4>1. CASE shimmed[s] \ {t} = {}
                BY <1>2, <2>2, <3>2, <4>1
            <4>2. CASE shimmed[s] \ {t} # {}
                BY <1>2, <2>2, <3>2, <4>2
            <4>. QED  BY <4>1, <4>2
        <3>4. LS!RemoveTrack(s, t)
            BY <1>2, <2>2, <2>4, <3>3 DEF LS!RemoveTrack
        <3>. QED  BY <2>1, <3>4 DEF LS!LSNext
    <2>. QED  BY <2>3, <2>4
<1>. QED  BY <1>4, <1>5, <1>6, <1>7

LEMMA FirefoxSteps ==
    ASSUME RInv, RInv', browser = "firefox",
           \/ \E s \in Streams :
                \/ RemoveStreamByTracks(s)
                \/ \E T \in SUBSET TracksOf[s] : FirefoxAdd(s, T)
           \/ \E t \in Tracks : NativeRemoveTrack(t)
    PROVE  LS!LSNext
<1>1. browser' = browser /\ ~closed /\ ~closed'
    BY DEF RemoveStreamByTracks, FirefoxAdd, NativeRemoveTrack
<1>2. Sending = senders /\ Sending' = senders' /\ OpenView /\ OpenView'
    BY <1>1 DEF Sending, Old, OpenView
<1>3. ASSUME NEW s \in Streams, RemoveStreamByTracks(s) PROVE LS!LSNext
    <2>1. Sending' = Sending \ TracksOf[s] /\ call' = "removeStream"
        BY <1>1, <1>2, <1>3 DEF RemoveStreamByTracks
    <2>. QED  BY <1>2, <2>1, RemoveStep
<1>4. ASSUME NEW s \in Streams, NEW T \in SUBSET TracksOf[s], FirefoxAdd(s, T) PROVE LS!LSNext
    <2>1. Sending' = Sending \cup T /\ T # {} /\ call' = "add"
        BY <1>2, <1>4 DEF FirefoxAdd
    <2>. QED  BY <1>2, <2>1, AddStep
<1>5. ASSUME NEW t \in Tracks, NativeRemoveTrack(t) PROVE LS!LSNext
    <2>1. Sending' = Sending \ {t} /\ call' = "removeTrack" /\ t \in senders
        BY <1>2, <1>5 DEF NativeRemoveTrack
    <2>2. PICK s \in Streams : t \in TracksOf[s]
        BY <2>1 DEF RInv
    <2>. QED  BY <1>2, <2>1, <2>2, RemoveTrackStep
<1>. QED  BY <1>3, <1>4, <1>5

LEMMA SafariSteps ==
    ASSUME RInv, browser = "safari",
           \/ \E s \in Streams :
                \/ SafariAddStream(s) \/ RemoveStreamByTracks(s)
                \/ \E t \in TracksOf[s] : SafariAddTrack(s, t)
           \/ \E t \in Tracks : NativeRemoveTrack(t)
    PROVE  LS!LSNext
<1>1. browser' = browser /\ closed' = closed
    BY DEF SafariAddStream, RemoveStreamByTracks, SafariAddTrack, NativeRemoveTrack
<1>2. /\ Sending = (IF closed THEN {} ELSE senders)
      /\ Sending' = (IF closed THEN {} ELSE senders')
      /\ GetLocalStreams = local /\ GetLocalStreams' = local'
    BY <1>1 DEF Sending, GetLocalStreams, Old
<1>3. ASSUME NEW s \in Streams, SafariAddStream(s) PROVE LS!LSNext
    <2>1. PICK T \in SUBSET TracksOf[s] : senders' = senders \cup T /\ (closed => T = {})
        BY <1>3 DEF SafariAddStream
    <2>2. LS!Add(s, T)
        BY <1>2, <1>3, <2>1 DEF SafariAddStream, LS!Add
    <2>. QED  BY <2>2 DEF LS!LSNext
<1>4. ASSUME NEW s \in Streams, NEW t \in TracksOf[s], SafariAddTrack(s, t) PROVE LS!LSNext
    <2>1. LS!Add(s, IF closed THEN {} ELSE {t})
        BY <1>2, <1>4 DEF SafariAddTrack, LS!Add
    <2>2. (IF closed THEN {} ELSE {t}) \in SUBSET TracksOf[s]
        OBVIOUS
    <2>. QED  BY <2>1, <2>2 DEF LS!LSNext
<1>5. ASSUME NEW s \in Streams, RemoveStreamByTracks(s) PROVE LS!LSNext
    <2>1. LS!Remove(s)
        BY <1>2, <1>5 DEF RemoveStreamByTracks, LS!Remove
    <2>. QED  BY <2>1 DEF LS!LSNext
<1>6. ASSUME NEW t \in Tracks, NativeRemoveTrack(t) PROVE LS!LSNext
    <2>1. PICK s \in Streams : t \in TracksOf[s]
        BY <1>6 DEF NativeRemoveTrack, RInv
    <2>2. LS!RemoveTrack(s, t)
        BY <1>2, <1>6 DEF NativeRemoveTrack, LS!RemoveTrack
    <2>. QED  BY <2>1, <2>2 DEF LS!LSNext
<1>. QED  BY <1>3, <1>4, <1>5, <1>6

LEMMA CloseStep ==
    ASSUME Close
    PROVE  LS!LSNext
<1>1. GetLocalStreams' = GetLocalStreams
    BY DEF Close, oldVars, GetLocalStreams, InUse
<1>2. LS!Shut
    BY <1>1 DEF Close, LS!Shut, Sending
<1>. QED  BY <1>2 DEF LS!LSNext

\* Whatever the browser, and in whatever order a page adds and removes streams
\* and tracks and closes the connection, the shims behave as LocalStreams says:
\* removeStream leaves nothing of the stream, removeTrack takes nothing but the
\* track, and a stream stays shown as long as one of its tracks is sent.
THEOREM ShimsImplementLocalStreams == ShimSpec => BehavesAsInOtherBrowsers
<1>1. ShimInit => LS!LSInit
    BY DEF ShimInit, LS!LSInit, Sending, GetLocalStreams, InUse
<1>2. RInv /\ RInv' /\ [ShimNext]_shimVars => [LS!LSNext]_LS!lsVars
    <2>. SUFFICES ASSUME RInv, RInv', [ShimNext]_shimVars PROVE [LS!LSNext]_LS!lsVars
        OBVIOUS
    <2>1. ASSUME NEW s \in Streams,
                 \/ OldAddStream(s) \/ OldRemoveStream(s)
                 \/ \E t \in TracksOf[s] : OldAddTrack(s, t) \/ OldRemoveTrack(s, t)
          PROVE  LS!LSNext
        BY <2>1, OldSteps
    <2>2. ASSUME \/ \E s \in Streams :
                      \/ NewAddStream(s) \/ NewRemoveStream(s)
                      \/ \E t \in TracksOf[s] : NewAddTrack(s, t)
                 \/ \E t \in Tracks : NewRemoveTrack(t)
          PROVE  LS!LSNext
        BY <2>2, NewSteps DEF NewAddStream, NewRemoveStream, NewAddTrack, NewRemoveTrack
    <2>3. ASSUME \/ \E s \in Streams :
                      \/ SafariAddStream(s) \/ RemoveStreamByTracks(s)
                      \/ \E T \in SUBSET TracksOf[s] : FirefoxAdd(s, T)
                      \/ \E t \in TracksOf[s] : SafariAddTrack(s, t)
                 \/ \E t \in Tracks : NativeRemoveTrack(t)
          PROVE  LS!LSNext
        <3>1. browser \in {"firefox", "safari"}
            BY <2>3 DEF SafariAddStream, RemoveStreamByTracks, FirefoxAdd, SafariAddTrack,
                        NativeRemoveTrack
        <3>2. CASE browser = "firefox"
            BY <2>3, <3>2, FirefoxSteps DEF SafariAddStream, SafariAddTrack
        <3>3. CASE browser = "safari"
            BY <2>3, <3>3, SafariSteps DEF FirefoxAdd
        <3>. QED  BY <3>1, <3>2, <3>3
    <2>4. CASE Close
        BY <2>4, CloseStep
    <2>5. CASE UNCHANGED shimVars
        <3>1. UNCHANGED <<Sending, GetLocalStreams, call>>
            BY <2>5 DEF shimVars, Sending, GetLocalStreams, InUse
        <3>. QED  BY <3>1 DEF LS!lsVars
    <2>. QED  BY <2>1, <2>2, <2>3, <2>4, <2>5 DEF ShimNext
<1>3. ShimSpec => []RInv
    BY InitRInv, NextRInv, PTL DEF ShimSpec
<1>. QED  BY <1>1, <1>2, <1>3, PTL DEF ShimSpec, BehavesAsInOtherBrowsers, LS!LSSpec

-------------------------------------------------------------------------------
(***************************************************************************)
(* Wrapped events.  Two wrappers stand in the map for every function of    *)
(* the page that is registered: the outer one leads to the function, the   *)
(* inner one, which the browser has, to the outer one.                     *)
(***************************************************************************)
MapsType ==
    [native : SUBSET Wraps, map : [Fns -> Wraps \cup {NoFn}], target : [Wraps -> Fns \cup {NoFn}]]

\* m holds two wrappers for each function in R, and nothing else.
Layered(m, R) ==
    /\ \A c \in Cbs \ R : m.map[c] = NoFn
    /\ \A c \in R : /\ m.map[c] \in Wraps /\ m.target[m.map[c]] = c
                    /\ m.map[m.map[c]] \in m.native /\ m.target[m.map[m.map[c]]] = m.map[c]
    /\ \A v \in m.native : \E c \in R : v = m.map[m.map[c]]
    /\ \A w \in Wraps : m.map[w] # NoFn => \E c \in R : w = m.map[c]

WrapInv ==
    /\ Maps \in MapsType /\ registered \subseteq Cbs /\ handler \in Cbs \cup {NoFn}
    /\ Layered(Maps, registered)

\* A wrapper that no registered function uses is free.
LEMMA UnusedIsFree ==
    ASSUME NEW m \in MapsType, NEW R \in SUBSET Cbs, Layered(m, R),
           NEW w \in Wraps, \A c \in R : w # m.map[c] /\ w # m.map[m.map[c]]
    PROVE  Free(m, w)
<1>1. m.native \subseteq Wraps /\ m.map \in [Fns -> Wraps \cup {NoFn}] /\ w # NoFn /\ w \notin Cbs
    BY FnsAssumption DEF MapsType, Fns
<1>2. w \notin m.native /\ m.map[w] = NoFn
    BY DEF Layered
<1>3. ASSUME NEW f \in Fns PROVE m.map[f] # w
    <2>1. CASE f \in R
        BY <2>1
    <2>2. CASE f \in Cbs \ R
        BY <1>1, <2>2 DEF Layered
    <2>3. CASE f \in Wraps /\ m.map[f] # NoFn
        BY <2>3 DEF Layered
    <2>4. CASE f \in Wraps /\ m.map[f] = NoFn
        BY <1>1, <2>4
    <2>. QED  BY <2>1, <2>2, <2>3, <2>4 DEF Fns
<1>4. ASSUME NEW v \in m.native PROVE m.target[v] # w
    BY DEF Layered
<1>. QED  BY <1>2, <1>3, <1>4 DEF Free

\* Some wrapper is outside a set that is small enough.
LEMMA MoreWraps ==
    ASSUME NEW U \in SUBSET Wraps, IsFiniteSet(U),
           IsFiniteSet(Wraps) => Cardinality(U) < Cardinality(Wraps)
    PROVE  \E w \in Wraps : w \notin U
<1>1. CASE IsFiniteSet(Wraps)
    <2>1. Cardinality(Wraps) \in Nat /\ Cardinality(U) \in Nat
        BY <1>1, FS_CardinalityType
    <2>2. U # Wraps
        BY <1>1, <2>1
    <2>. QED  BY <2>2
<1>2. CASE ~IsFiniteSet(Wraps)
    <2>1. U # Wraps
        BY <1>2
    <2>. QED  BY <2>1
<1>. QED  BY <1>1, <1>2

\* As many wrappers of one kind as registered functions at most.
LEMMA ImageIsSmall ==
    ASSUME NEW R, IsFiniteSet(R), NEW f
    PROVE  IsFiniteSet({f[c] : c \in R}) /\ Cardinality({f[c] : c \in R}) <= Cardinality(R)
<1>. DEFINE T == {f[c] : c \in R}
            g == [c \in R |-> f[c]]
<1>1. g \in Surjection(R, T)
    BY DEF Surjection
<1>. QED  BY <1>1, FS_Surjection

\* While a function of the page is not registered, two wrappers are free.
LEMMA TwoAreFree ==
    ASSUME NEW m \in MapsType, NEW R \in SUBSET Cbs, Layered(m, R), R # Cbs
    PROVE  \E w \in Wraps : Free(m, w) /\ \E x \in Wraps \ {w} : Free(m, x)
<1>. DEFINE outer == {m.map[c] : c \in R}
            g == [c \in R |-> m.map[m.map[c]]]
            inner == {g[c] : c \in R}
            U == outer \cup inner
<1>1. PICK c \in Cbs : c \notin R
    OBVIOUS
<1>2. IsFiniteSet(R) /\ Cardinality(R) <= Cardinality(Cbs) - 1
    <2>1. IsFiniteSet(Cbs \ {c}) /\ Cardinality(Cbs \ {c}) = Cardinality(Cbs) - 1
        BY FnsAssumption, FS_RemoveElement
    <2>2. R \in SUBSET (Cbs \ {c})
        BY <1>1
    <2>. QED  BY <2>1, <2>2, FS_Subset
<1>3. IsFiniteSet(outer) /\ Cardinality(outer) <= Cardinality(R)
    <2>. DEFINE h == m.map
    <2>1. IsFiniteSet({h[d] : d \in R}) /\ Cardinality({h[d] : d \in R}) <= Cardinality(R)
        <3>. HIDE DEF h
        <3>. QED  BY <1>2, ImageIsSmall
    <2>. QED  BY <2>1
<1>4. IsFiniteSet(inner) /\ Cardinality(inner) <= Cardinality(R)
    <2>. HIDE DEF g
    <2>. QED  BY <1>2, ImageIsSmall
<1>5. U \subseteq Wraps
    BY DEF Layered, MapsType
<1>6. \A d \in R : m.map[d] \in U /\ m.map[m.map[d]] \in U
    <2>1. \A d \in R : g[d] = m.map[m.map[d]]
        OBVIOUS
    <2>. QED  BY <2>1
<1>. HIDE DEF outer, inner, g
<1>7. IsFiniteSet(U) /\ Cardinality(U) <= 2 * Cardinality(R)
    <2>1. IsFiniteSet(outer \cap inner)
        BY <1>3, FS_Subset
    <2>2. /\ Cardinality(outer) \in Nat /\ Cardinality(inner) \in Nat /\ Cardinality(R) \in Nat
          /\ Cardinality(outer \cap inner) \in Nat
        BY <1>2, <1>3, <1>4, <2>1, FS_CardinalityType
    <2>3. IsFiniteSet(U) /\ Cardinality(U) = Cardinality(outer) + Cardinality(inner) - Cardinality(outer \cap inner)
        BY <1>3, <1>4, FS_Union
    <2>. QED  BY <1>3, <1>4, <2>2, <2>3
<1>. HIDE DEF U
<1>8. Cardinality(R) \in Nat /\ Cardinality(Cbs) \in Nat /\ Cardinality(U) \in Nat
    BY <1>2, <1>7, FnsAssumption, FS_CardinalityType
<1>9. PICK w \in Wraps : w \notin U
    <2>1. IsFiniteSet(Wraps) => Cardinality(U) < Cardinality(Wraps)
        <3>. SUFFICES ASSUME IsFiniteSet(Wraps) PROVE Cardinality(U) < Cardinality(Wraps)
            OBVIOUS
        <3>1. Cardinality(Wraps) \in Nat /\ Cardinality(Wraps) >= 2 * Cardinality(Cbs)
            BY FnsAssumption, FS_CardinalityType
        <3>. QED  BY <1>2, <1>7, <1>8, <3>1
    <2>. QED  BY <1>5, <1>7, <2>1, MoreWraps
<1>10. PICK x \in Wraps : x \notin U \cup {w}
    <2>1. IsFiniteSet(U \cup {w}) /\ Cardinality(U \cup {w}) = Cardinality(U) + 1
        BY <1>7, <1>9, FS_AddElement
    <2>2. IsFiniteSet(Wraps) => Cardinality(U \cup {w}) < Cardinality(Wraps)
        <3>. SUFFICES ASSUME IsFiniteSet(Wraps) PROVE Cardinality(U \cup {w}) < Cardinality(Wraps)
            OBVIOUS
        <3>1. Cardinality(Wraps) \in Nat /\ Cardinality(Wraps) >= 2 * Cardinality(Cbs)
            BY FnsAssumption, FS_CardinalityType
        <3>. QED  BY <1>2, <1>7, <1>8, <2>1, <3>1
    <2>3. U \cup {w} \in SUBSET Wraps
        BY <1>5
    <2>. QED  BY <2>1, <2>2, <2>3, MoreWraps
<1>11. Free(m, w) /\ Free(m, x) /\ x \in Wraps \ {w}
    <2>1. \A d \in R : w # m.map[d] /\ w # m.map[m.map[d]] /\ x # m.map[d] /\ x # m.map[m.map[d]]
        BY <1>6, <1>9, <1>10
    <2>. QED  BY <1>9, <1>10, <2>1, UnusedIsFree
<1>. QED  BY <1>11

\* The fields of maps that a layer has changed.
LEMMA WrapFnFields ==
    ASSUME NEW m \in MapsType, NEW f \in Fns, NEW w \in Wraps
    PROVE  /\ WrapFn(m, f, w) \in MapsType /\ WrapFn(m, f, w).native = m.native
           /\ WrapFn(m, f, w).map = [m.map EXCEPT ![f] = w]
           /\ WrapFn(m, f, w).target = [m.target EXCEPT ![w] = f]
BY DEF WrapFn, MapsType

LEMMA UnwrapFnFields ==
    ASSUME NEW m \in MapsType, NEW f \in Fns
    PROVE  /\ UnwrapFn(m, f) \in MapsType /\ UnwrapFn(m, f).native = m.native
           /\ UnwrapFn(m, f).map = [m.map EXCEPT ![f] = NoFn]
           /\ UnwrapFn(m, f).target = m.target
BY DEF UnwrapFn, MapsType

\* Both layers find a free wrapper, and the function is registered.
LEMMA AddLayers ==
    ASSUME NEW m \in MapsType, NEW R \in SUBSET Cbs, Layered(m, R), NEW c \in Cbs, c \notin R
    PROVE  AddEventListener(m, c) \in MapsType /\ Layered(AddEventListener(m, c), R \cup {c})
<1>. DEFINE w == CHOOSE x \in Wraps : Free(m, x)
            o == WrapFn(m, c, w)
            v == CHOOSE x \in Wraps \ {w} : Free(o, x)
            i == WrapFn(o, w, v)
            r == [i EXCEPT !.native = @ \cup {v}]
<1>1. PICK y \in Wraps : Free(m, y) /\ \E x \in Wraps \ {y} : Free(m, x)
    BY TwoAreFree
<1>2. w \in Wraps /\ Free(m, w)
    BY <1>1
<1>3. \E x \in Wraps \ {w} : Free(m, x)
    BY <1>1
<1>4. c \in Fns /\ w \in Fns /\ w # c /\ Cbs \cap Wraps = {} /\ NoFn \notin Wraps /\ NoFn \notin Cbs
    BY <1>2, FnsAssumption DEF Fns
<1>. HIDE DEF w
<1>5. /\ o \in MapsType /\ o.native = m.native /\ o.map = [m.map EXCEPT ![c] = w]
      /\ o.target = [m.target EXCEPT ![w] = c]
    BY <1>2, <1>4, WrapFnFields
<1>6. m.native \in SUBSET Wraps /\ m.map \in [Fns -> Wraps \cup {NoFn}] /\ m.target \in [Wraps -> Fns \cup {NoFn}]
    BY DEF MapsType
<1>. HIDE DEF o
<1>7. ASSUME NEW x \in Wraps \ {w}, Free(m, x) PROVE Free(o, x)
    <2>1. x \notin o.native /\ o.map[x] = NoFn
        BY <1>4, <1>5, <1>6, <1>7 DEF Free, Fns
    <2>2. \A f \in Fns : o.map[f] # x
        BY <1>4, <1>5, <1>6, <1>7 DEF Free
    <2>3. \A u \in o.native : o.target[u] # x
        BY <1>4, <1>5, <1>6, <1>7 DEF Free
    <2>. QED  BY <2>1, <2>2, <2>3 DEF Free
<1>8. v \in Wraps \ {w} /\ Free(o, v)
    BY <1>3, <1>7
<1>. HIDE DEF v
<1>9. /\ i \in MapsType /\ i.native = m.native /\ i.map = [o.map EXCEPT ![w] = v]
      /\ i.target = [o.target EXCEPT ![v] = w]
    <2>1. v \in Wraps /\ o \in MapsType /\ w \in Fns
        BY <1>4, <1>5, <1>8
    <2>2. PICK j : j = WrapFn(o, w, v)
        OBVIOUS
    <2>3. /\ j \in MapsType /\ j.native = o.native /\ j.map = [o.map EXCEPT ![w] = v]
          /\ j.target = [o.target EXCEPT ![v] = w]
        BY <2>1, <2>2, WrapFnFields
    <2>4. i = j
        BY <2>2
    <2>. HIDE DEF i
    <2>. QED  BY <1>5, <2>3, <2>4
<1>. HIDE DEF i
<1>10. r \in MapsType /\ r.native = m.native \cup {v} /\ r.map = i.map /\ r.target = i.target
    BY <1>8, <1>9 DEF MapsType
<1>11. AddEventListener(m, c) = r
    BY DEF AddEventListener, i, v, o, w
<1>. HIDE DEF r
<1>12. /\ r.map[c] = w /\ r.map[w] = v
       /\ \A f \in Fns : f # c /\ f # w => r.map[f] = m.map[f]
       /\ r.target[w] = c /\ r.target[v] = w
       /\ \A u \in Wraps : u # w /\ u # v => r.target[u] = m.target[u]
    BY <1>2, <1>4, <1>5, <1>6, <1>8, <1>9, <1>10
<1>13. /\ w \notin m.native /\ m.map[w] = NoFn /\ \A f \in Fns : m.map[f] # w
       /\ v \notin m.native /\ m.map[v] = NoFn /\ \A f \in Fns : m.map[f] # v
    <2>1. w \notin m.native /\ m.map[w] = NoFn /\ \A f \in Fns : m.map[f] # w
        BY <1>2 DEF Free
    <2>2. v \notin m.native /\ o.map[v] = NoFn /\ \A f \in Fns : o.map[f] # v
        BY <1>5, <1>8 DEF Free
    <2>3. v # c /\ v # w /\ v \in Fns
        BY <1>4, <1>8 DEF Fns
    <2>4. \A f \in Fns : f # c => o.map[f] = m.map[f]
        BY <1>5, <1>6
    <2>5. m.map[c] = NoFn
        BY DEF Layered
    <2>. QED  BY <1>4, <1>8, <2>1, <2>2, <2>3, <2>4, <2>5
<1>14. ASSUME NEW d \in R
       PROVE  /\ r.map[d] = m.map[d] /\ m.map[d] \in Wraps /\ m.map[d] # w /\ m.map[d] # v
              /\ r.map[m.map[d]] = m.map[m.map[d]]
              /\ r.target[m.map[d]] = d
              /\ m.map[m.map[d]] \in r.native /\ r.target[m.map[m.map[d]]] = m.map[d]
    <2>1. d \in Fns /\ d # c /\ d # w /\ m.map[d] \in Wraps /\ m.map[d] \in Fns
        BY <1>2, <1>4 DEF Layered, Fns
    <2>2. m.map[d] # w /\ m.map[d] # v /\ m.map[d] # c
        BY <1>4, <1>13, <2>1
    <2>3. m.map[m.map[d]] \in m.native /\ m.map[m.map[d]] \in Wraps
        BY <1>6 DEF Layered
    <2>4. m.target[m.map[d]] = d /\ m.target[m.map[m.map[d]]] = m.map[d]
        BY DEF Layered
    <2>. QED  BY <1>10, <1>12, <1>13, <2>1, <2>2, <2>3, <2>4
<1>15. \A d \in Cbs \ (R \cup {c}) : r.map[d] = NoFn
    BY <1>4, <1>12, <1>2 DEF Layered, Fns
<1>16. \A d \in R \cup {c} :
          /\ r.map[d] \in Wraps /\ r.target[r.map[d]] = d
          /\ r.map[r.map[d]] \in r.native /\ r.target[r.map[r.map[d]]] = r.map[d]
    BY <1>2, <1>8, <1>10, <1>12, <1>14
<1>17. \A u \in r.native : \E d \in R \cup {c} : u = r.map[r.map[d]]
    <2>. TAKE u \in r.native
    <2>1. CASE u = v
        BY <1>12, <2>1
    <2>2. CASE u \in m.native
        BY <1>14, <2>2 DEF Layered
    <2>. QED  BY <1>10, <2>1, <2>2
<1>18. \A u \in Wraps : r.map[u] # NoFn => \E d \in R \cup {c} : u = r.map[d]
    <2>. SUFFICES ASSUME NEW u \in Wraps, r.map[u] # NoFn PROVE \E d \in R \cup {c} : u = r.map[d]
        OBVIOUS
    <2>1. CASE u = w
        BY <1>12, <2>1
    <2>2. CASE u # w
        <3>1. u \in Fns /\ u # c
            BY <1>4 DEF Fns
        <3>2. m.map[u] # NoFn
            BY <1>12, <2>2, <3>1
        <3>. QED  BY <1>14, <3>2 DEF Layered
    <2>. QED  BY <2>1, <2>2
<1>. QED  BY <1>10, <1>11, <1>15, <1>16, <1>17, <1>18 DEF Layered

\* Both layers forget their wrapper, and the browser is given back the inner one.
LEMMA RemoveLayers ==
    ASSUME NEW m \in MapsType, NEW R \in SUBSET Cbs, Layered(m, R), NEW c \in Cbs
    PROVE  RemoveEventListener(m, c) \in MapsType /\ Layered(RemoveEventListener(m, c), R \ {c})
<1>. DEFINE o == UnwrapFn(m, c)
            w == Unwrapped(m, c)
            i == UnwrapFn(o, w)
            r == [i EXCEPT !.native = @ \ {Unwrapped(o, w)}]
<1>1. c \in Fns /\ Cbs \cap Wraps = {} /\ NoFn \notin Wraps /\ NoFn \notin Cbs
    BY FnsAssumption DEF Fns
<1>2. m.native \in SUBSET Wraps /\ m.map \in [Fns -> Wraps \cup {NoFn}] /\ m.target \in [Wraps -> Fns \cup {NoFn}]
    BY DEF MapsType
<1>3. o \in MapsType /\ o.native = m.native /\ o.map = [m.map EXCEPT ![c] = NoFn] /\ o.target = m.target
    BY <1>1, UnwrapFnFields
<1>4. w \in Fns
    BY <1>1, <1>2 DEF Unwrapped, Fns
<1>. HIDE DEF o, w
<1>5. i \in MapsType /\ i.native = m.native /\ i.map = [o.map EXCEPT ![w] = NoFn] /\ i.target = m.target
    BY <1>3, <1>4, UnwrapFnFields
<1>. HIDE DEF i
<1>6. /\ r \in MapsType /\ r.native = m.native \ {Unwrapped(o, w)}
      /\ r.map = i.map /\ r.target = m.target
    BY <1>5 DEF MapsType
<1>7. RemoveEventListener(m, c) = r
    BY DEF RemoveEventListener, i, w, o
<1>. HIDE DEF r
<1>8. /\ r.map[c] = NoFn /\ r.map[w] = NoFn /\ \A f \in Fns : f # c /\ f # w => r.map[f] = m.map[f]
    BY <1>1, <1>2, <1>3, <1>4, <1>5, <1>6
<1>9. CASE c \notin R
    <2>1. m.map[c] = NoFn
        BY <1>9 DEF Layered
    <2>2. w = c
        BY <2>1 DEF w, Unwrapped
    <2>3. o.map[w] = NoFn
        BY <1>1, <1>2, <1>3, <2>2
    <2>4. Unwrapped(o, w) = c
        BY <2>2, <2>3 DEF Unwrapped
    <2>5. r.native = m.native
        BY <1>1, <1>2, <1>6, <2>4
    <2>6. r.map = m.map
        <3>1. \A f \in Fns : r.map[f] = m.map[f]
            BY <1>8, <2>1, <2>2
        <3>. QED  BY <1>2, <1>6, <3>1 DEF MapsType
    <2>7. R \ {c} = R
        BY <1>9
    <2>. QED  BY <1>6, <1>7, <2>5, <2>6, <2>7 DEF Layered
<1>10. CASE c \in R
    <2>. DEFINE v == m.map[w]
    <2>1. w = m.map[c] /\ w \in Wraps /\ m.target[w] = c /\ v \in m.native /\ v \in Wraps /\ m.target[v] = w
        BY <1>1, <1>2, <1>10 DEF Layered, w, Unwrapped
    <2>2. Unwrapped(o, w) = v
        <3>1. o.map[w] = v
            BY <1>1, <1>2, <1>3, <1>4, <2>1
        <3>. QED  BY <1>1, <2>1, <3>1 DEF Unwrapped
    <2>. HIDE DEF v
    <2>3. r.native = m.native \ {v}
        BY <1>6, <2>2
    <2>4. ASSUME NEW d \in R \ {c}
          PROVE  /\ r.map[d] = m.map[d] /\ m.map[d] \in Wraps /\ r.map[m.map[d]] = m.map[m.map[d]]
                 /\ m.map[m.map[d]] \in r.native
                 /\ m.target[m.map[d]] = d /\ m.target[m.map[m.map[d]]] = m.map[d]
        <3>1. /\ m.map[d] \in Wraps /\ m.target[m.map[d]] = d
              /\ m.map[m.map[d]] \in m.native /\ m.target[m.map[m.map[d]]] = m.map[d]
            BY DEF Layered
        <3>2. d \in Fns /\ d # c /\ d # w /\ m.map[d] \in Fns /\ m.map[d] # c /\ m.map[d] # w
            BY <1>1, <2>1, <3>1 DEF Fns
        <3>3. m.map[m.map[d]] # v
            BY <2>1, <3>1, <3>2
        <3>. QED  BY <1>8, <2>3, <3>1, <3>2, <3>3
    <2>5. \A d \in Cbs \ (R \ {c}) : r.map[d] = NoFn
        BY <1>1, <1>8, <2>1 DEF Layered, Fns
    <2>6. \A d \in R \ {c} :
             /\ r.map[d] \in Wraps /\ r.target[r.map[d]] = d
             /\ r.map[r.map[d]] \in r.native /\ r.target[r.map[r.map[d]]] = r.map[d]
        BY <1>6, <2>4
    <2>7. \A u \in r.native : \E d \in R \ {c} : u = r.map[r.map[d]]
        <3>. TAKE u \in r.native
        <3>1. PICK d \in R : u = m.map[m.map[d]]
            BY <2>3 DEF Layered
        <3>2. d # c
            BY <2>1, <2>3, <3>1 DEF v
        <3>. QED  BY <2>4, <3>1, <3>2
    <2>8. \A u \in Wraps : r.map[u] # NoFn => \E d \in R \ {c} : u = r.map[d]
        <3>. SUFFICES ASSUME NEW u \in Wraps, r.map[u] # NoFn PROVE \E d \in R \ {c} : u = r.map[d]
            OBVIOUS
        <3>1. u \in Fns /\ u # c /\ u # w
            BY <1>1, <1>8 DEF Fns
        <3>2. PICK d \in R : u = m.map[d]
            BY <1>8, <3>1 DEF Layered
        <3>3. d # c
            BY <2>1, <3>1, <3>2
        <3>. QED  BY <2>4, <3>2, <3>3
    <2>. QED  BY <1>6, <1>7, <2>5, <2>6, <2>7, <2>8 DEF Layered
<1>. QED  BY <1>9, <1>10

LEMMA WrapStep ==
    ASSUME WrapInv, EventNext, group = "wrap"
    PROVE  WrapInv'
<1>1. /\ Maps \in MapsType /\ Layered(Maps, registered) /\ registered \in SUBSET Cbs
      /\ handler \in Cbs \cup {NoFn} /\ NoFn \notin Cbs
    BY FnsAssumption DEF WrapInv, Fns
<1>2. ASSUME NEW m \in MapsType, Become(m), Layered(m, registered'),
             registered' \subseteq Cbs, handler' \in Cbs \cup {NoFn}
      PROVE  WrapInv'
    <2>1. [native |-> native', map |-> eventMap', target |-> target'] = m
        BY <1>2 DEF Become, MapsType
    <2>. QED  BY <1>2, <2>1 DEF WrapInv, Maps
<1>3. ASSUME NEW c \in Cbs, PageAdds(c) PROVE WrapInv'
    <2>1. /\ c \notin registered /\ registered' = registered \cup {c} /\ handler' = handler
          /\ Become(AddEventListener(Maps, c))
        BY <1>3 DEF PageAdds
    <2>. QED  BY <1>1, <1>2, <2>1, AddLayers
<1>4. ASSUME NEW c \in Cbs, PageRemoves(c) PROVE WrapInv'
    <2>1. /\ registered' = registered \ {c} /\ handler' = handler
          /\ Become(RemoveEventListener(Maps, c))
        BY <1>4 DEF PageRemoves
    <2>. QED  BY <1>1, <1>2, <2>1, RemoveLayers
<1>5. ASSUME NEW c \in Cbs \cup {NoFn}, PageSetsHandler(c) PROVE WrapInv'
    <2>. DEFINE m == IF handler = NoFn THEN Maps ELSE RemoveEventListener(Maps, handler)
                S == registered \ {handler}
    <2>1. handler' = c /\ registered' = S \cup ({c} \ {NoFn}) /\ c \notin S
        BY <1>5 DEF PageSetsHandler
    <2>2. m \in MapsType /\ Layered(m, S)
        <3>1. CASE handler = NoFn
            <4>1. S = registered
                BY <1>1, <3>1
            <4>. HIDE DEF S
            <4>. QED  BY <1>1, <3>1, <4>1
        <3>2. CASE handler # NoFn
            BY <1>1, <3>2, RemoveLayers
        <3>. QED  BY <3>1, <3>2
    <2>3. Become(IF c = NoFn THEN m ELSE AddEventListener(m, c))
        BY <1>5 DEF PageSetsHandler
    <2>4. S \in SUBSET Cbs
        BY <1>1
    <2>. HIDE DEF m, S
    <2>5. CASE c = NoFn
        BY <1>2, <2>1, <2>2, <2>3, <2>4, <2>5
    <2>6. CASE c # NoFn
        <3>1. c \in Cbs /\ registered' = S \cup {c} /\ Become(AddEventListener(m, c))
            BY <2>1, <2>3, <2>6
        <3>. QED  BY <1>2, <2>1, <2>2, <2>4, <3>1, AddLayers
    <2>. QED  BY <2>5, <2>6
<1>. QED
    BY <1>3, <1>4, <1>5
    DEF EventNext, SetOnAddStream, SetDescription, ClosePc, DispatchIceChange, IceChanges,
        SetRemoteDescription, RunTrackListener, TrackEvent, AddStreamEvent, AddTrackEvent,
        WrapInv, Maps, wrapVars

\* Every event reaches the functions of the page that are registered, once.
LEMMA LayersReach ==
    ASSUME WrapInv, NEW c \in Cbs
    PROVE  Reached(c) = IF c \in registered THEN 1 ELSE 0
<1>. DEFINE S == {v \in native : target[target[v]] = c}
<1>1. /\ \A d \in registered :
             /\ eventMap[d] \in Wraps /\ target[eventMap[d]] = d
             /\ eventMap[eventMap[d]] \in native /\ target[eventMap[eventMap[d]]] = eventMap[d]
      /\ \A v \in native : \E d \in registered : v = eventMap[eventMap[d]]
    BY DEF WrapInv, Layered, Maps
<1>2. \A v \in native : v \in S <=> c \in registered /\ v = eventMap[eventMap[c]]
    BY <1>1
<1>3. CASE c \in registered
    <2>1. S = {eventMap[eventMap[c]]}
        BY <1>1, <1>2, <1>3
    <2>. QED  BY <1>3, <2>1, FS_Singleton DEF Reached
<1>4. CASE c \notin registered
    <2>1. S = {}
        BY <1>2, <1>4
    <2>. QED  BY <1>4, <2>1, FS_EmptySet DEF Reached
<1>. QED  BY <1>3, <1>4

LEMMA GroupStays == ASSUME [EventNext]_eventVars PROVE group' = group
BY DEF EventNext, PageAdds, PageRemoves, PageSetsHandler, SetOnAddStream, SetDescription, ClosePc,
       DispatchIceChange, IceChanges, SetRemoteDescription, RunTrackListener, TrackEvent,
       AddStreamEvent, AddTrackEvent, eventVars

\* Whatever a page adds, removes and sets, also if it removes the function that is
\* the handler, two layers of wrappers are one listener to it, as long as there are
\* functions to wrap with.
THEOREM WrappedReach == EventSpec => []ReachesRegistered
<1>. DEFINE Inv == group = "wrap" => WrapInv
<1>1. EventInit => Inv
    BY FnsAssumption DEF EventInit, WrapInv, Maps, MapsType, Layered, Fns
<1>2. Inv => ReachesRegistered
    BY LayersReach DEF ReachesRegistered
<1>3. Inv /\ [EventNext]_eventVars => Inv'
    <2>. SUFFICES ASSUME Inv, [EventNext]_eventVars, group = "wrap" PROVE WrapInv'
        BY GroupStays
    <2>1. CASE EventNext
        BY <2>1, WrapStep
    <2>2. CASE UNCHANGED eventVars
        BY <2>2 DEF eventVars, wrapVars, WrapInv, Maps
    <2>. QED  BY <2>1, <2>2
<1>. QED  BY <1>1, <1>2, <1>3, PTL DEF EventSpec

-------------------------------------------------------------------------------
(***************************************************************************)
(* Events the library makes up.  The page knows the state the library      *)
(* dispatched last, and that is the present one unless an event waits.  A  *)
(* remote stream was announced just when the library keeps it, and what    *)
(* has arrived is kept or in the event being dispatched: from the first    *)
(* description on, some listener gets that event.  A remote track was      *)
(* announced just when it has arrived.                                     *)
(***************************************************************************)
TheirXs == RStreams \cup RTracks

StateInv ==
    /\ seen = last
    /\ queued \in Nat
    /\ queued = 0 /\ ice \notin {"new", "closed"} => last = ConnectionState(ice)

Dispatched == IF running.left > 0 THEN running.streams ELSE {}

StreamInv ==
    /\ seen \in [TheirXs -> {0, 1}] /\ remote \subseteq RStreams
    /\ \A x \in TheirXs : seen[x] = 1 <=> x \in remote
    /\ polys \in Nat /\ (poly \/ handler # NoFn => polys > 0)
    /\ running.left \in Nat /\ running.streams \subseteq RStreams
    /\ arrived \subseteq remote \cup Dispatched

TrackInv ==
    /\ seen \in [TheirXs -> {0, 1}]
    /\ \A x \in TheirXs : seen[x] = IF x \in arrived THEN 1 ELSE 0
    /\ arrived \subseteq RTracks /\ \A t \in arrived : StreamOf[t] \in remote

ToldInv ==
    CASE group = "state" -> StateInv
      [] group = "stream" -> StreamInv
      [] group = "track" -> TrackInv
      [] OTHER -> TRUE

LEMMA StateStep ==
    ASSUME StateInv, group = "state", EventNext
    PROVE  StateInv'
<1>1. CASE SetDescription
    BY <1>1 DEF SetDescription, StateInv, stateVars, ConnectionState
<1>2. ASSUME NEW i \in IceStates, IceChanges(i) PROVE StateInv'
    BY <1>2 DEF IceChanges, StateInv
<1>3. CASE ClosePc
    BY <1>3 DEF ClosePc, StateInv
<1>4. CASE DispatchIceChange
    <2>1. last' = ConnectionState(ice) /\ seen' = last' /\ ice' = ice /\ queued' \in Nat
        BY <1>4 DEF DispatchIceChange, StateInv
    <2>. QED  BY <2>1 DEF StateInv, ConnectionState
<1>. QED
    BY <1>1, <1>2, <1>3, <1>4
    DEF EventNext, PageAdds, PageRemoves, PageSetsHandler, SetOnAddStream, SetRemoteDescription,
        RunTrackListener, TrackEvent, AddStreamEvent, AddTrackEvent

LEMMA StreamStep ==
    ASSUME StreamInv, group = "stream", EventNext
    PROVE  StreamInv'
<1>1. ASSUME UNCHANGED <<seen, remote, running, arrived>>,
             polys' \in Nat, poly' \/ handler' # NoFn => polys' > 0
      PROVE  StreamInv'
    BY <1>1 DEF StreamInv, Dispatched
<1>2. CASE RunTrackListener
    <2>1. /\ remote' = remote \cup running.streams
          /\ seen' = [x \in TheirXs |-> IF x \in running.streams \ remote
                                        THEN seen[x] + 1 ELSE seen[x]]
          /\ running' = [running EXCEPT !.left = @ - 1] /\ running.left > 0
          /\ UNCHANGED <<handler, poly, polys, arrived>>
        BY <1>2 DEF RunTrackListener, StreamInv
    <2>2. ASSUME NEW x \in TheirXs PROVE seen'[x] \in {0, 1} /\ (seen'[x] = 1 <=> x \in remote')
        BY <2>1 DEF StreamInv
    <2>3. running'.streams \subseteq RStreams /\ remote' \subseteq RStreams /\ arrived' \subseteq remote'
        BY <2>1 DEF StreamInv, Dispatched
    <2>4. running'.left \in Nat
        BY <1>2, <2>1 DEF StreamInv, RunTrackListener
    <2>. QED  BY <2>1, <2>2, <2>3, <2>4 DEF StreamInv
<1>3. ASSUME NEW S \in SUBSET RStreams, TrackEvent(S) PROVE StreamInv'
    <2>1. /\ running' = [streams |-> S, left |-> polys] /\ arrived' = arrived \cup S
          /\ running.left = 0 /\ polys > 0 /\ UNCHANGED <<handler, poly, polys, remote, seen>>
        BY <1>3 DEF TrackEvent, StreamInv
    <2>2. arrived' \subseteq remote' \cup Dispatched'
        BY <2>1 DEF StreamInv, Dispatched
    <2>. QED  BY <2>1, <2>2 DEF StreamInv
<1>4. ASSUME NEW c \in Cbs \cup {NoFn}, SetOnAddStream(c) PROVE StreamInv'
    BY <1>1, <1>4 DEF SetOnAddStream, StreamInv
<1>5. CASE SetRemoteDescription
    BY <1>1, <1>5 DEF SetRemoteDescription, StreamInv
<1>. QED
    BY <1>2, <1>3, <1>4, <1>5
    DEF EventNext, PageAdds, PageRemoves, PageSetsHandler, SetDescription, ClosePc,
        DispatchIceChange, IceChanges, AddStreamEvent, AddTrackEvent

LEMMA TrackStep ==
    ASSUME TrackInv, group = "track", EventNext
    PROVE  TrackInv'
<1>1. ASSUME UNCHANGED <<seen, remote, arrived>> PROVE TrackInv'
    BY <1>1 DEF TrackInv
<1>2. ASSUME NEW s \in RStreams, NEW T \in SUBSET {t \in RTracks : StreamOf[t] = s}, AddStreamEvent(s, T)
      PROVE  TrackInv'
    <2>1. /\ s \notin remote /\ remote' = remote \cup {s} /\ arrived' = arrived \cup T
          /\ seen' = [x \in TheirXs |-> IF x \in T THEN seen[x] + 1 ELSE seen[x]]
        BY <1>2 DEF AddStreamEvent, TrackInv
    <2>2. \A t \in T : t \notin arrived /\ StreamOf[t] = s /\ t \in RTracks
        BY <2>1 DEF TrackInv
    <2>3. ASSUME NEW x \in TheirXs
          PROVE  seen'[x] \in {0, 1} /\ seen'[x] = IF x \in arrived' THEN 1 ELSE 0
        BY <2>1, <2>2 DEF TrackInv
    <2>4. arrived' \subseteq RTracks /\ \A t \in arrived' : StreamOf[t] \in remote'
        BY <2>1, <2>2 DEF TrackInv
    <2>. QED  BY <2>1, <2>3, <2>4 DEF TrackInv
<1>3. ASSUME NEW t \in RTracks, AddTrackEvent(t) PROVE TrackInv'
    <2>1. /\ StreamOf[t] \in remote /\ t \notin arrived /\ remote' = remote
          /\ arrived' = arrived \cup {t} /\ seen' = [seen EXCEPT ![t] = @ + 1] /\ t \in TheirXs
        BY <1>3 DEF AddTrackEvent, TheirXs
    <2>2. ASSUME NEW x \in TheirXs
          PROVE  seen'[x] \in {0, 1} /\ seen'[x] = IF x \in arrived' THEN 1 ELSE 0
        BY <2>1 DEF TrackInv
    <2>. QED  BY <2>1, <2>2 DEF TrackInv
<1>. QED
    BY <1>1, <1>2, <1>3
    DEF EventNext, PageAdds, PageRemoves, PageSetsHandler, SetOnAddStream, SetDescription, ClosePc,
        DispatchIceChange, IceChanges, SetRemoteDescription, RunTrackListener, TrackEvent

\* Whatever order native events come in, the page has been told the connection's
\* state once no change waits, and every stream and track that arrives is
\* announced, once.
THEOREM MadeUpEventsTell == EventSpec => []PageIsTold
<1>1. EventInit => ToldInv
    BY DEF EventInit, ToldInv, StateInv, StreamInv, TrackInv, TheirXs, Dispatched
<1>2. ToldInv => PageIsTold
    <2>1. ToldInv => StateIsReported
        BY DEF ToldInv, StateInv, StateIsReported
    <2>2. ToldInv => AnnouncedOnce
        <3>. SUFFICES ASSUME ToldInv PROVE AnnouncedOnce
            OBVIOUS
        <3>1. CASE group = "stream"
            <4>1. \A x \in DOMAIN seen : seen[x] <= 1
                BY <3>1 DEF ToldInv, StreamInv
            <4>2. running.left = 0 => \A x \in arrived : seen[x] = 1
                BY <3>1 DEF ToldInv, StreamInv, Dispatched, TheirXs
            <4>. QED  BY <3>1, <4>1, <4>2 DEF AnnouncedOnce
        <3>2. CASE group = "track"
            <4>1. \A x \in DOMAIN seen : seen[x] <= 1
                BY <3>2 DEF ToldInv, TrackInv
            <4>2. \A t \in arrived : seen[t] = 1
                BY <3>2 DEF ToldInv, TrackInv, TheirXs
            <4>. QED  BY <3>2, <4>1, <4>2 DEF AnnouncedOnce
        <3>. QED  BY <3>1, <3>2 DEF AnnouncedOnce
    <2>. QED  BY <2>1, <2>2 DEF PageIsTold
<1>3. ToldInv /\ [EventNext]_eventVars => ToldInv'
    <2>. SUFFICES ASSUME ToldInv, [EventNext]_eventVars PROVE ToldInv'
        OBVIOUS
    <2>1. CASE EventNext
        BY <2>1, GroupStays, StateStep, StreamStep, TrackStep DEF ToldInv
    <2>2. CASE UNCHANGED eventVars
        BY <2>2 DEF eventVars, stateVars, streamVars, ToldInv, StateInv, StreamInv, TrackInv, ConnectionState, Dispatched
    <2>. QED  BY <2>1, <2>2
<1>. QED  BY <1>1, <1>2, <1>3, PTL DEF EventSpec

-------------------------------------------------------------------------------
(***************************************************************************)
(* Offers and message sizes.                                               *)
(***************************************************************************)
Transceivers == Seq([kind : Kinds, direction : Directions])

\* A transceiver that createOffer may have changed sends as before, and does
\* not receive what it did not.
Kept(t, u) ==
    /\ u.kind = t.kind /\ Sends(u) = Sends(t)
    /\ Receives(u) => Receives(t)

KeptAll(ts, us) ==
    us \in Transceivers /\ Len(ts) <= Len(us) /\ \A i \in 1 .. Len(ts) : Kept(ts[i], us[i])

LEMMA AppendKeeps ==
    ASSUME NEW ts \in Transceivers, NEW k \in Kinds, NEW d \in Directions
    PROVE  KeptAll(ts, Append(ts, [kind |-> k, direction |-> d]))
<1>. DEFINE t == [kind |-> k, direction |-> d]
            us == Append(ts, t)
<1>1. t \in [kind : Kinds, direction : Directions]
    OBVIOUS
<1>. HIDE DEF t
<1>2. /\ us \in Transceivers /\ Len(us) = Len(ts) + 1 /\ Len(ts) \in Nat
      /\ \A i \in 1 .. Len(ts) : us[i] = ts[i]
    BY <1>1 DEF Transceivers
<1>. QED  BY <1>2 DEF KeptAll, Kept, t

\* One kind of one call: what it takes is the receiving of one transceiver.
LEMMA AskedForKeeps ==
    ASSUME NEW ts \in Transceivers, NEW k \in Kinds, NEW ask
    PROVE  KeptAll(ts, AskedFor(ts, k, ask))
<1>. DEFINE n == FirstOf(OfKind(ts, k))
            us == [ts EXCEPT ![n].direction = WithoutReceiving(@)]
<1>1. CASE ask = "no" /\ OfKind(ts, k) # {}
    <2>. HIDE DEF n
    <2>1. \A i \in 1 .. Len(ts) : ts[i] \in [kind : Kinds, direction : Directions] /\ Len(ts) \in Nat
        BY ElementOfSeq, LenProperties DEF Transceivers
    <2>2. ASSUME NEW i \in 1 .. Len(ts)
          PROVE  Kept(ts[i], us[i]) /\ us[i] \in [kind : Kinds, direction : Directions]
        <3>1. CASE i = n
            <4>1. us[i] = [ts[i] EXCEPT !.direction = WithoutReceiving(@)]
                BY <3>1 DEF Transceivers
            <4>2. us[i].kind = ts[i].kind /\ us[i].direction = WithoutReceiving(ts[i].direction)
                BY <2>1, <4>1
            <4>3. WithoutReceiving(ts[i].direction) \in Directions
                BY <2>1 DEF WithoutReceiving, Directions
            <4>4. us[i] \in [kind : Kinds, direction : Directions]
                BY <2>1, <4>1, <4>3
            <4>. QED  BY <2>1, <4>2, <4>4 DEF Kept, Sends, Receives, WithoutReceiving
        <3>2. CASE i # n
            <4>1. us[i] = ts[i]
                BY <3>2 DEF Transceivers
            <4>. QED  BY <2>1, <4>1 DEF Kept
        <3>. QED  BY <3>1, <3>2
    <2>3. us \in Transceivers /\ Len(us) = Len(ts)
        <3>1. us = [i \in 1 .. Len(ts) |-> us[i]]
            BY LenProperties DEF Transceivers
        <3>2. \A i \in 1 .. Len(ts) : us[i] \in [kind : Kinds, direction : Directions]
            BY <2>2
        <3>3. Len(ts) \in Nat
            BY LenProperties DEF Transceivers
        <3>. HIDE DEF us
        <3>. QED  BY <3>1, <3>2, <3>3, IsASeq, LenProperties DEF Transceivers
    <2>4. AskedFor(ts, k, ask) = us
        BY <1>1 DEF AskedFor, n
    <2>5. Len(ts) <= Len(us)
        BY <2>3, LenProperties DEF Transceivers
    <2>. HIDE DEF us
    <2>. QED  BY <2>2, <2>3, <2>4, <2>5 DEF KeptAll
<1>2. CASE ask = "yes" /\ OfKind(ts, k) = {}
    <2>1. "recvonly" \in Directions
        BY DEF Directions
    <2>. QED  BY <1>2, <2>1, AppendKeeps DEF AskedFor
<1>3. CASE AskedFor(ts, k, ask) = ts
    <2>1. Len(ts) <= Len(ts)
        BY LenProperties DEF Transceivers
    <2>. QED  BY <1>3, <2>1 DEF KeptAll, Kept
<1>. QED  BY <1>1, <1>2, <1>3 DEF AskedFor

LEMMA KeptTwice ==
    ASSUME NEW ts \in Transceivers, NEW us, NEW ws, KeptAll(ts, us), KeptAll(us, ws)
    PROVE  KeptAll(ts, ws)
<1>1. Len(ts) \in Nat /\ Len(us) \in Nat /\ Len(ws) \in Nat
    BY LenProperties DEF KeptAll, Transceivers
<1>2. Len(ts) <= Len(ws) /\ \A i \in 1 .. Len(ts) : i \in 1 .. Len(us)
    BY <1>1 DEF KeptAll
<1>. QED  BY <1>2 DEF KeptAll, Kept

LEMMA LeastNumber ==
    ASSUME NEW S, S \subseteq Nat, S # {}
    PROVE  \E n \in S : \A m \in S : n <= m
<1>1. PICK n \in S : \A m \in S : <<m, n>> \notin OpToRel(<, Nat)
    BY NatLessThanWellFounded, WFMin
<1>2. \A m \in S : ~(m < n)
    BY <1>1 DEF OpToRel
<1>3. ASSUME NEW m \in S PROVE n <= m
    <2>1. m \in Nat /\ n \in Nat /\ ~(m < n)
        BY <1>2
    <2>. QED  BY <2>1
<1>. QED  BY <1>3

\* What is asked for one kind leaves the others as they are.
Untouched(ts, us, k, ask) ==
    /\ \A i \in 1 .. Len(ts) : ts[i].kind = k /\ us[i] # ts[i] => ask = "no"
    /\ \A i \in 1 .. Len(us) : i > Len(ts) /\ us[i].kind = k => ask = "yes"
    /\ \A i \in 1 .. Len(ts) : ts[i].kind # k => us[i] = ts[i]
    /\ \A i \in 1 .. Len(us) : i > Len(ts) => us[i].kind = k

LEMMA AskedForTouches ==
    ASSUME NEW ts \in Transceivers, NEW k \in Kinds, NEW ask
    PROVE  Untouched(ts, AskedFor(ts, k, ask), k, ask)
<1>1. Len(ts) \in Nat /\ DOMAIN ts = 1 .. Len(ts)
    BY LenProperties DEF Transceivers
<1>2. CASE ask = "no" /\ OfKind(ts, k) # {}
    <2>1. PICK n : n = FirstOf(OfKind(ts, k))
        OBVIOUS
    <2>2. OfKind(ts, k) \subseteq Nat
        BY <1>1 DEF OfKind
    <2>3. n \in OfKind(ts, k)
        BY <1>2, <2>1, <2>2, LeastNumber DEF FirstOf
    <2>4. PICK us : us = [ts EXCEPT ![n].direction = WithoutReceiving(@)]
        OBVIOUS
    <2>5. Len(us) = Len(ts) /\ \A i \in 1 .. Len(ts) : i # n => us[i] = ts[i]
        BY <1>1, <2>4 DEF Transceivers
    <2>6. AskedFor(ts, k, ask) = us
        BY <1>2, <2>1, <2>4 DEF AskedFor
    <2>. QED  BY <1>1, <1>2, <2>3, <2>5, <2>6 DEF Untouched, OfKind
<1>3. CASE ask = "yes" /\ OfKind(ts, k) = {}
    <2>1. PICK t : t = [kind |-> k, direction |-> "recvonly"]
        OBVIOUS
    <2>2. t \in [kind : Kinds, direction : Directions] /\ t.kind = k
        BY <2>1 DEF Directions
    <2>3. PICK us : us = Append(ts, t)
        OBVIOUS
    <2>4. /\ Len(us) = Len(ts) + 1 /\ us[Len(ts) + 1] = t
          /\ \A i \in 1 .. Len(ts) : us[i] = ts[i]
        BY <2>2, <2>3 DEF Transceivers
    <2>5. AskedFor(ts, k, ask) = us
        BY <1>3, <2>1, <2>3 DEF AskedFor
    <2>. QED  BY <1>1, <1>3, <2>2, <2>4, <2>5 DEF Untouched
<1>4. CASE AskedFor(ts, k, ask) = ts
    BY <1>1, <1>4 DEF Untouched
<1>. QED  BY <1>2, <1>3, <1>4 DEF AskedFor

\* Two kinds, one after the other.
LEMMA TwiceAskedTouches ==
    ASSUME transceivers \in Transceivers, NEW a, NEW v, CreateOfferLegacy(a, v)
    PROVE  AskedOnly("audio", a) /\ AskedOnly("video", v)
<1>1. PICK ts, us, ws : /\ ts = transceivers /\ us = AskedFor(ts, "audio", a)
                        /\ ws = AskedFor(us, "video", v) /\ ws = transceivers'
    BY DEF CreateOfferLegacy
<1>2. "audio" \in Kinds /\ "video" \in Kinds
    BY DEF Kinds
<1>3. ts \in Transceivers /\ KeptAll(ts, us) /\ Untouched(ts, us, "audio", a)
    BY <1>1, <1>2, AskedForKeeps, AskedForTouches
<1>4. us \in Transceivers /\ KeptAll(us, ws) /\ Untouched(us, ws, "video", v) /\ ws \in Transceivers
    BY <1>1, <1>2, <1>3, AskedForKeeps, AskedForTouches DEF KeptAll
<1>5. PICK l, m, n \in Nat : l = Len(ts) /\ m = Len(us) /\ n = Len(ws)
    BY <1>3, <1>4, LenProperties DEF Transceivers
<1>6. l <= m /\ m <= n /\ DOMAIN ts = 1 .. l /\ DOMAIN ws = 1 .. n
    BY <1>3, <1>4, <1>5, LenProperties DEF Transceivers, KeptAll
<1>7. /\ \A i \in 1 .. l : us[i].kind = ts[i].kind
      /\ \A i \in 1 .. m : ws[i].kind = us[i].kind
    BY <1>3, <1>4, <1>5 DEF KeptAll, Kept
<1>8. ASSUME NEW i \in 1 .. l, ws[i] # ts[i]
      PROVE  (ts[i].kind = "audio" => a = "no") /\ (ts[i].kind = "video" => v = "no")
    <2>1. i \in 1 .. m
        BY <1>5, <1>6
    <2>. QED  BY <1>3, <1>4, <1>5, <1>7, <1>8, <2>1 DEF Untouched
<1>9. ASSUME NEW i \in 1 .. n, i > l
      PROVE  (ws[i].kind = "audio" => a = "yes") /\ (ws[i].kind = "video" => v = "yes")
    <2>1. CASE i > m
        BY <1>4, <1>5, <2>1 DEF Untouched
    <2>2. CASE ~(i > m)
        <3>1. i \in 1 .. m
            BY <1>5, <2>2
        <3>. QED  BY <1>3, <1>5, <1>7, <1>9, <3>1 DEF Untouched
    <2>. QED  BY <2>1, <2>2
<1>10. \A i \in DOMAIN ws \ DOMAIN ts : i \in 1 .. n /\ i > l
    BY <1>5, <1>6
<1>. QED  BY <1>1, <1>6, <1>8, <1>9, <1>10 DEF AskedOnly

LEMMA OfferStep ==
    ASSUME transceivers \in Transceivers, [OfferNext]_offerVars
    PROVE  KeptAll(transceivers, transceivers')
<1>1. KeptAll(transceivers, transceivers)
    BY LenProperties DEF KeptAll, Kept, Transceivers
<1>2. ASSUME NEW k \in Kinds, NEW d \in Directions \ {"inactive"}, PageAddsTransceiver(k, d)
      PROVE  KeptAll(transceivers, transceivers')
    BY <1>2, AppendKeeps DEF PageAddsTransceiver
<1>3. ASSUME NEW a, NEW v, CreateOfferLegacy(a, v)
      PROVE  KeptAll(transceivers, transceivers')
    <2>. DEFINE us == AskedFor(transceivers, "audio", a)
    <2>1. "audio" \in Kinds /\ "video" \in Kinds
        BY DEF Kinds
    <2>2. KeptAll(transceivers, us)
        BY <2>1, AskedForKeeps
    <2>. HIDE DEF us
    <2>3. KeptAll(us, AskedFor(us, "video", v))
        BY <2>1, <2>2, AskedForKeeps DEF KeptAll
    <2>4. transceivers' = AskedFor(us, "video", v)
        BY <1>3 DEF CreateOfferLegacy, us
    <2>. QED  BY <2>2, <2>3, <2>4, KeptTwice
<1>4. ASSUME UNCHANGED transceivers PROVE KeptAll(transceivers, transceivers')
    BY <1>1, <1>4
<1>. QED
    BY <1>2, <1>3, <1>4
    DEF OfferNext, AddTransceiver, ParametersSet, CallCreateOffer, OfferMade, SetRemoteSize, offerVars

\* Safari: no call of createOffer takes a transceiver's sending or touches a kind it
\* does not name, whatever the page asks for and however many transceivers there are.
THEOREM OffersKeepSending == OfferSpec => SendingIsKept
<1>. DEFINE Inv == transceivers \in Transceivers
            Keep == \A i \in DOMAIN transceivers :
                        /\ transceivers'[i].kind = transceivers[i].kind
                        /\ Sends(transceivers'[i]) = Sends(transceivers[i])
                        /\ Receives(transceivers'[i]) => Receives(transceivers[i])
            Only == \A a, v \in OfferOptions :
                        CreateOfferLegacy(a, v) => AskedOnly("audio", a) /\ AskedOnly("video", v)
<1>1. OfferInit => Inv
    BY DEF OfferInit, Transceivers
<1>2. Inv /\ [OfferNext]_offerVars => Inv'
    BY OfferStep DEF KeptAll
<1>3. Inv /\ [OfferNext]_offerVars => [Keep /\ Only]_transceivers
    <2>. SUFFICES ASSUME Inv, [OfferNext]_offerVars PROVE Keep /\ Only
        OBVIOUS
    <2>1. DOMAIN transceivers = 1 .. Len(transceivers)
        BY LenProperties DEF Transceivers
    <2>2. Keep
        BY <2>1, OfferStep DEF KeptAll, Kept
    <2>3. Only
        BY TwiceAskedTouches
    <2>. QED  BY <2>2, <2>3
<1>. QED  BY <1>1, <1>2, <1>3, PTL DEF OfferSpec, SendingIsKept

\* Of any size the peer may receive, 0 included, no more is let through; what is
\* taken for its size is never more.
LEMMA SizesFit ==
    ASSUME NEW f \in BOOLEAN, NEW z \in Nat, NEW g \in Nat, z <= g, z = 0 <=> g = 0
    PROVE  LET s == Smaller(CanSendMaxMessageSize(f), z)
           IN  /\ s \in Nat
               /\ IF g = 0 THEN 16384 <= s ELSE s # NoSctp /\ s <= g
BY DEF Smaller, CanSendMaxMessageSize, NoSctp, TwoGiB

SizeInv == accepts # NoSctp =>
    /\ sctp \in Nat /\ accepts \in Nat
    /\ IF accepts = 0 THEN 16384 <= sctp ELSE sctp # NoSctp /\ sctp <= accepts

\* No plain data longer than the peer can receive are let through, of any length.
THEOREM SizesAlwaysFit == OfferSpec => []SendFits
<1>1. OfferInit => SizeInv
    BY DEF OfferInit, SizeInv
<1>2. SizeInv /\ OfferNext => SizeInv'
    <2>. SUFFICES ASSUME SizeInv, OfferNext PROVE SizeInv'
        OBVIOUS
    <2>1. ASSUME NEW d \in BOOLEAN, NEW f \in BOOLEAN,
                 NEW z \in {0, 1000, 262144, NoSctp}, SetRemoteSize(d, f, z)
          PROVE  SizeInv'
        <3>. DEFINE announced == IF z = NoSctp THEN Default(f) ELSE z
                    received == PeerReceives(f, z)
        <3>1. announced \in Nat /\ received \in Nat /\ announced <= received /\ (announced = 0 <=> received = 0)
            BY DEF Default, PeerReceives, TwoGiB, NoSctp
        <3>2. /\ sctp' = IF d THEN Smaller(CanSendMaxMessageSize(f), announced) ELSE NoSctp
              /\ accepts' = IF d THEN received ELSE NoSctp
            BY <2>1 DEF SetRemoteSize
        <3>. HIDE DEF announced, received
        <3>. QED  BY <3>1, <3>2, SizesFit DEF SizeInv
    <2>2. ASSUME UNCHANGED <<sctp, accepts>> PROVE SizeInv'
        BY <2>2 DEF SizeInv
    <2>3. ASSUME NEW e \in Senders, AddTransceiver(e) \/ ParametersSet(e) PROVE UNCHANGED sizeVars
        BY <2>3, SMT DEF AddTransceiver, ParametersSet
    <2>4. ASSUME CallCreateOffer \/ OfferMade PROVE UNCHANGED sizeVars
        BY <2>4, SMT DEF CallCreateOffer, OfferMade
    <2>5. ASSUME NEW k, NEW d, PageAddsTransceiver(k, d) PROVE UNCHANGED sizeVars
        BY <2>5, SMT DEF PageAddsTransceiver
    <2>6. ASSUME NEW a, NEW v, CreateOfferLegacy(a, v) PROVE UNCHANGED sizeVars
        BY <2>6, SMT DEF CreateOfferLegacy
    <2>7. UNCHANGED sizeVars => SizeInv'
        BY <2>2, SMT DEF sizeVars
    <2>. QED  BY <2>1, <2>3, <2>4, <2>5, <2>6, <2>7, SMT DEF OfferNext
<1>3. SizeInv /\ UNCHANGED offerVars => SizeInv'
    BY DEF SizeInv, offerVars, sizeVars
<1>4. SizeInv => SendFits
    <2>. SUFFICES ASSUME SizeInv, accepts # NoSctp, NEW n \in Nat
                  PROVE  /\ SendPasses(Plain(n)) => Fits(Plain(n))
                         /\ accepts = 0 /\ n <= 16384 => SendPasses(Plain(n))
        BY LengthsAssumption DEF SendFits
    <2>. QED  BY DEF SizeInv, SendPasses, Plain, Fits
<1>. QED  BY <1>1, <1>2, <1>3, <1>4, PTL DEF OfferSpec

-------------------------------------------------------------------------------
(***************************************************************************)
(* Captures.  The native call was asked for the page's request in the      *)
(* browser's own syntax (Sought), and what the browser gave meets that;    *)
(* every translation keeps the demands on the members it does not rename.  *)
(***************************************************************************)
\* shimConstraints_ looks for a camera.
Turns(r) == engine = "chrome60" /\ Face(r.video) \cap {"user", "environment"} # {}

Sought(r) ==
    IF Turns(r) THEN [r EXCEPT !.video = FacingToDevice(r.video, listing)]
    ELSE IF r.form = "display" THEN DisplayAsUser(r) ELSE r

Accepted(r) ==
    /\ IsRequest(r) /\ (engine = "safari" \/ Defined(r.video))
    /\ r.form = "display" => engine = "firefox"

CaptureInv ==
    /\ engine \in Engines /\ cams \in Seq(Cameras) /\ listing \in Seq(Cameras)
    /\ phase \in {"idle", "listing", "listed", "asked", "given", "refused"}
    /\ phase # "given" => ~live
    /\ phase = "refused" => error \in Errors
    /\ phase \in {"listing", "listed", "asked", "given"} => Accepted(request)
    /\ phase \in {"listing", "listed"} => Turns(request)
    /\ phase \in {"asked", "given"} => asked = Native(Sought(request))
    /\ phase = "given" =>
        /\ media \in Captures /\ Meets(media, asked)
        /\ request.form # "callback" => media.kinds = asked.kinds

\* What a member is demanded to be, after others were replaced or taken out.
LEMMA DemandsWithout ==
    ASSUME NEW constraints, NEW member, NEW other
    PROVE  Demands(Without(constraints, member), other) = IF other = member THEN {} ELSE Demands(constraints, other)
BY DEF Demands, Without

LEMMA DemandsWith ==
    ASSUME NEW constraints, NEW member, NEW demands, NEW other
    PROVE  Demands(With(constraints, member, demands), other) = IF other = member THEN demands ELSE Demands(constraints, other)
<1>. DEFINE w == With(constraints, member, demands)
            q == <<member, demands>>
<1>0. q[1] = member /\ q[2] = demands
    OBVIOUS
<1>1. w = Without(constraints, member) \cup {q}
    BY DEF With
<1>. HIDE DEF w, q
<1>2. CASE other = member
    <2>1. {p \in w : p[1] = other} = {q}
        BY <1>0, <1>1, <1>2 DEF Without
    <2>. QED  BY <1>0, <1>2, <2>1 DEF Demands, w
<1>3. CASE other # member
    <2>1. {p \in w : p[1] = other} = {p \in constraints : p[1] = other}
        BY <1>0, <1>1, <1>3 DEF Without
    <2>. QED  BY <1>3, <2>1 DEF Demands, w
<1>. QED  BY <1>2, <1>3

LEMMA DemandsCompact ==
    ASSUME NEW constraints, NEW member
    PROVE  Demands(Compact(constraints), member) = {d \in Demands(constraints, member) : d[2] # None}
<1>. DEFINE c(p) == <<p[1], {d \in p[2] : d[2] # None}>>
<1>1. \A p : c(p)[1] = p[1] /\ c(p)[2] = {d \in p[2] : d[2] # None}
    OBVIOUS
<1>2. Compact(constraints) = {q \in {c(p) : p \in constraints} : q[2] # {}}
    BY DEF Compact
<1>. HIDE DEF c
<1>3. ASSUME NEW d, d \in Demands(Compact(constraints), member) PROVE d \in Demands(constraints, member) /\ d[2] # None
    <2>1. PICK q \in Compact(constraints) : q[1] = member /\ d \in q[2]
        BY <1>3 DEF Demands
    <2>2. PICK p \in constraints : q = c(p)
        BY <1>2, <2>1
    <2>3. p[1] = member /\ d \in p[2] /\ d[2] # None
        BY <1>1, <2>1, <2>2
    <2>. QED  BY <2>3 DEF Demands
<1>4. ASSUME NEW d, d \in Demands(constraints, member), d[2] # None PROVE d \in Demands(Compact(constraints), member)
    <2>1. PICK p \in constraints : p[1] = member /\ d \in p[2]
        BY <1>4 DEF Demands
    <2>2. c(p)[1] = member /\ d \in c(p)[2]
        BY <1>1, <1>4, <2>1
    <2>3. c(p) \in Compact(constraints)
        BY <1>2, <2>1, <2>2
    <2>. QED  BY <2>2, <2>3 DEF Demands
<1>. QED  BY <1>3, <1>4

LEMMA DemandsDefined ==
    ASSUME NEW constraints, NEW member, Defined(constraints)
    PROVE  \A d \in Demands(constraints, member) : d[2] # None
BY DEF Defined, Demands

\* The first camera in a list that looks like what is wanted.
LEMMA MatchLooks ==
    ASSUME NEW list \in Seq(Cameras), NEW f, \E k \in DOMAIN list : LooksLike(list[k], f)
    PROVE  \E cam \in Cameras : Match(list, f) = {cam} /\ LooksLike(cam, f)
<1>. DEFINE match == {k \in DOMAIN list : LooksLike(list[k], f)}
            n == CHOOSE k \in match : \A j \in match : k <= j
<1>1. match \subseteq Nat /\ match # {} /\ DOMAIN list = 1 .. Len(list)
    BY LenProperties
<1>. HIDE DEF match
<1>2. \E k \in match : \A j \in match : k <= j
    BY <1>1, LeastNumber
<1>3. n \in match
    BY <1>2
<1>. HIDE DEF n
<1>4. n \in 1 .. Len(list) /\ LooksLike(list[n], f)
    BY <1>1, <1>3 DEF match
<1>5. list[n] \in Cameras
    BY <1>4, ElementOfSeq
<1>6. Match(list, f) = {list[n]}
    BY <1>1 DEF Match, match, n
<1>. QED  BY <1>4, <1>5, <1>6

\* Chrome is asked for a camera, where one that was listed looks like it.
LEMMA FacingIsDevice ==
    ASSUME NEW video, NEW list \in Seq(Cameras), NEW d, Demands(video, "facingMode") = {d},
           \E k \in DOMAIN list : LooksLike(list[k], d[2])
    PROVE  \E cam \in Cameras :
              /\ LooksLike(cam, d[2])
              /\ Demands(FacingToDevice(video, list), "deviceId") = {<<d[1], cam>>}
<1>. DEFINE x == CHOOSE y \in Demands(video, "facingMode") : TRUE
            rest == Without(video, "facingMode")
<1>1. x = d
    OBVIOUS
<1>2. PICK cam \in Cameras : Match(list, d[2]) = {cam} /\ LooksLike(cam, d[2])
    BY MatchLooks
<1>3. FacingToDevice(video, list) =
        IF Match(list, x[2]) = {} THEN rest ELSE With(rest, "deviceId", {<<x[1], c>> : c \in Match(list, x[2])})
    BY DEF FacingToDevice
<1>. HIDE DEF x, rest
<1>4. {<<d[1], c>> : c \in Match(list, d[2])} = {<<d[1], cam>>}
    BY <1>2
<1>5. FacingToDevice(video, list) = With(rest, "deviceId", {<<d[1], cam>>})
    BY <1>1, <1>2, <1>3, <1>4
<1>6. Demands(With(rest, "deviceId", {<<d[1], cam>>}), "deviceId") = {<<d[1], cam>>}
    BY DemandsWith
<1>. QED  BY <1>2, <1>5, <1>6

\* It is asked for the same width in any case.
LEMMA FacingKeepsWidth ==
    ASSUME NEW video, NEW list
    PROVE  Demands(FacingToDevice(video, list), "width") = Demands(video, "width")
<1>. DEFINE d == CHOOSE x \in Demands(video, "facingMode") : TRUE
            rest == Without(video, "facingMode")
            to == {<<d[1], c>> : c \in Match(list, d[2])}
<1>1. FacingToDevice(video, list) \in {rest, With(rest, "deviceId", to)}
    BY DEF FacingToDevice
<1>. HIDE DEF to, rest
<1>2. Demands(rest, "width") = Demands(video, "width")
    BY DemandsWithout DEF rest
<1>3. Demands(With(rest, "deviceId", to), "width") = Demands(rest, "width")
    BY DemandsWith
<1>. QED  BY <1>1, <1>2, <1>3

\* The older name stands for the demands on the newer one.
LEMMA RemapRenames ==
    ASSUME NEW audio, Demands(audio, "nativeAgc") = {}
    PROVE  Demands(Remap(audio), "nativeAgc") = Demands(audio, "agc")
<1>1. CASE Demands(audio, "agc") # {}
    BY <1>1, DemandsWith DEF Remap
<1>2. CASE Demands(audio, "agc") = {}
    BY <1>2 DEF Remap
<1>. QED  BY <1>1, <1>2

\* What Sought and Native do to a request.
LEMMA SoughtIs ==
    ASSUME NEW r, IsRequest(r)
    PROVE  /\ Sought(r).kinds = r.kinds /\ Sought(r).audio = r.audio
           /\ Sought(r).video = IF Turns(r) THEN FacingToDevice(r.video, listing)
                                ELSE IF r.form = "display"
                                THEN With(r.video, "mediaSource", {<<"exact", "screen">>}) ELSE r.video
           /\ Sought(r) = [form |-> r.form, kinds |-> r.kinds, audio |-> r.audio, video |-> Sought(r).video]
<1>1. r = [form |-> r.form, kinds |-> r.kinds, audio |-> r.audio, video |-> r.video]
    BY DEF IsRequest
<1>. QED  BY <1>1 DEF Sought, DisplayAsUser

LEMMA NativeIs ==
    ASSUME NEW r, IsRequest(r), engine \in Engines
    PROVE  LET n == Native(Sought(r)) IN
           /\ n.kinds = r.kinds
           /\ n.audio = IF engine \in {"chrome60", "firefox"} THEN Remap(r.audio) ELSE r.audio
           /\ n.video = IF engine = "safari" THEN Compact(Sought(r).video) ELSE Sought(r).video
<1>. DEFINE s == Sought(r)
<1>1. s = [form |-> r.form, kinds |-> r.kinds, audio |-> r.audio, video |-> s.video]
    BY SoughtIs
<1>. HIDE DEF s
<1>2. /\ WithOlderNames(s).kinds = r.kinds /\ WithOlderNames(s).audio = Remap(r.audio)
      /\ WithOlderNames(s).video = s.video
    BY <1>1 DEF WithOlderNames
<1>3. /\ WithoutUndefined(s).kinds = r.kinds /\ WithoutUndefined(s).audio = r.audio
      /\ WithoutUndefined(s).video = Compact(s.video)
    BY <1>1 DEF WithoutUndefined
<1>4. s.kinds = r.kinds /\ s.audio = r.audio
    BY <1>1
<1>. QED  BY <1>2, <1>3, <1>4 DEF Native, s

-------------------------------------------------------------------------------
\* Chrome before 61 binds only what is mandatory.
LEMMA MandatoryIs ==
    ASSUME NEW constraints
    PROVE  /\ \A d \in Demands(constraints, "width") :
                 /\ d[1] \in {"min", "exact"} => <<"minWidth", d[2]>> \in Mandatory(constraints)
                 /\ d[1] \in {"max", "exact"} => <<"maxWidth", d[2]>> \in Mandatory(constraints)
           /\ \A d \in Demands(constraints, "deviceId") : d[1] = "exact" => <<"sourceId", d[2]>> \in Mandatory(constraints)
           /\ \A d \in Demands(constraints, "nativeAgc") : d[1] = "exact" => <<"nativeAgc", d[2]>> \in Mandatory(constraints)
BY DEF Mandatory

LEMMA MeetsMandatory ==
    ASSUME engine = "chrome60", NEW m, NEW c, Meets(m, c)
    PROVE  /\ \A d \in Demands(c.video, "width") :
                 /\ d[1] \in {"min", "exact"} => m.width >= d[2]
                 /\ d[1] \in {"max", "exact"} => m.width <= d[2]
           /\ \A d \in Demands(c.video, "deviceId") : d[1] = "exact" => m.camera = d[2]
           /\ "audio" \in m.kinds => \A d \in Demands(c.audio, "nativeAgc") : d[1] = "exact" => m.agc = d[2]
<1>1. /\ \A d \in Mandatory(c.video) :
            /\ d[1] = "minWidth" => m.width >= d[2]
            /\ d[1] = "maxWidth" => m.width <= d[2]
            /\ d[1] = "sourceId" => m.camera = d[2]
      /\ "audio" \in m.kinds => \A d \in Mandatory(c.audio) : d[1] = "nativeAgc" => m.agc = d[2]
    BY DEF Meets
<1>2. ASSUME NEW d \in Demands(c.video, "width")
      PROVE  /\ d[1] \in {"min", "exact"} => m.width >= d[2]
             /\ d[1] \in {"max", "exact"} => m.width <= d[2]
    <2>1. ASSUME d[1] \in {"min", "exact"} PROVE m.width >= d[2]
        <3>1. <<"minWidth", d[2]>> \in Mandatory(c.video)
            BY <2>1, MandatoryIs
        <3>. QED  BY <1>1, <3>1
    <2>2. ASSUME d[1] \in {"max", "exact"} PROVE m.width <= d[2]
        <3>1. <<"maxWidth", d[2]>> \in Mandatory(c.video)
            BY <2>2, MandatoryIs
        <3>. QED  BY <1>1, <3>1
    <2>. QED  BY <2>1, <2>2
<1>3. ASSUME NEW d \in Demands(c.video, "deviceId"), d[1] = "exact" PROVE m.camera = d[2]
    <2>1. <<"sourceId", d[2]>> \in Mandatory(c.video)
        BY <1>3, MandatoryIs
    <2>. QED  BY <1>1, <2>1
<1>4. ASSUME "audio" \in m.kinds, NEW d \in Demands(c.audio, "nativeAgc"), d[1] = "exact" PROVE m.agc = d[2]
    <2>1. <<"nativeAgc", d[2]>> \in Mandatory(c.audio)
        BY <1>4, MandatoryIs
    <2>. QED  BY <1>1, <1>4, <2>1
<1>. QED  BY <1>2, <1>3, <1>4

\* A stream that meets what was asked for is what the page demanded: its width,
LEMMA WidthMeets ==
    ASSUME Accepted(request), engine \in Engines, media \in Captures, Meets(media, Native(Sought(request))),
           NEW d \in Demands(Compact(request.video), "width")
    PROVE  /\ d[1] = "exact" => media.width = d[2]
           /\ d[1] = "min" => media.width >= d[2]
           /\ d[1] = "max" => media.width <= d[2]
<1>. DEFINE c == Native(Sought(request))
<1>1. IsRequest(request) /\ d \in Demands(request.video, "width") /\ d[2] # None /\ d[2] \in Nat /\ media.width \in Nat
    BY DemandsCompact DEF Accepted, IsRequest, Captures, Widths
<1>2. Demands(Sought(request).video, "width") = Demands(request.video, "width")
    <2>1. Demands(With(request.video, "mediaSource", {<<"exact", "screen">>}), "width") = Demands(request.video, "width")
        BY DemandsWith
    <2>. QED  BY <1>1, <2>1, FacingKeepsWidth, SoughtIs
<1>3. c.video = IF engine = "safari" THEN Compact(Sought(request).video) ELSE Sought(request).video
    BY <1>1, NativeIs
<1>4. d \in Demands(c.video, "width")
    BY <1>1, <1>2, <1>3, DemandsCompact
<1>. HIDE DEF c
<1>5. Meets(media, c)
    BY DEF c
<1>6. /\ d[1] \in {"min", "exact"} => media.width >= d[2]
      /\ d[1] \in {"max", "exact"} => media.width <= d[2]
    <2>1. CASE engine = "chrome60"
        BY <1>4, <1>5, <2>1, MeetsMandatory
    <2>2. CASE engine # "chrome60"
        BY <1>4, <1>5, <2>2 DEF Meets
    <2>. QED  BY <2>1, <2>2
<1>. QED  BY <1>1, <1>6

\* its camera, if it was named,
LEMMA CameraMeets ==
    ASSUME Accepted(request), engine \in Engines, Meets(media, Native(Sought(request))),
           Face(Compact(request.video)) = {},
           NEW cam \in Binding(Demands(Compact(request.video), "deviceId"))
    PROVE  media.camera = cam
<1>. DEFINE c == Native(Sought(request))
<1>1. IsRequest(request)
    BY DEF Accepted
<1>2. PICK d \in Demands(request.video, "deviceId") : d[1] = "exact" /\ d[2] = cam /\ d[2] # None
    BY DemandsCompact DEF Binding
<1>3. ~Turns(request)
    <2>1. engine = "chrome60" => Defined(request.video)
        BY DEF Accepted
    <2>2. ASSUME engine = "chrome60" PROVE Face(request.video) = {}
        <3>1. \A e \in Demands(request.video, "facingMode") : e[2] # None
            BY <2>1, <2>2, DemandsDefined
        <3>2. Demands(Compact(request.video), "facingMode") = Demands(request.video, "facingMode")
            BY <3>1, DemandsCompact
        <3>. QED  BY <3>2 DEF Face
    <2>. QED  BY <2>2 DEF Turns
<1>4. Demands(Sought(request).video, "deviceId") = Demands(request.video, "deviceId")
    <2>1. Demands(With(request.video, "mediaSource", {<<"exact", "screen">>}), "deviceId")
            = Demands(request.video, "deviceId")
        BY DemandsWith
    <2>. QED  BY <1>1, <1>3, <2>1, SoughtIs
<1>5. c.video = IF engine = "safari" THEN Compact(Sought(request).video) ELSE Sought(request).video
    BY <1>1, NativeIs
<1>6. d \in Demands(c.video, "deviceId")
    BY <1>2, <1>4, <1>5, DemandsCompact
<1>. HIDE DEF c
<1>7. Meets(media, c)
    BY DEF c
<1>8. CASE engine = "chrome60"
    BY <1>2, <1>6, <1>7, <1>8, MeetsMandatory
<1>9. CASE engine # "chrome60"
    <2>1. cam \in Binding(Demands(c.video, "deviceId"))
        BY <1>2, <1>6 DEF Binding
    <2>. QED  BY <1>7, <1>9, <2>1 DEF Meets
<1>. QED  BY <1>8, <1>9

\* or which way it faces,
LEMMA FaceMeets ==
    ASSUME Accepted(request), engine \in Engines, listing \in Seq(Cameras), Meets(media, Native(Sought(request))),
           NEW f \in Binding(Demands(Compact(request.video), "facingMode")),
           engine # "chrome60" \/ \E k \in DOMAIN listing : LooksLike(listing[k], f)
    PROVE  LooksLike(media.camera, f)
<1>. DEFINE c == Native(Sought(request))
            V == request.video
<1>1. IsRequest(request)
    BY DEF Accepted
<1>2. PICK d \in Demands(V, "facingMode") : d[1] = "exact" /\ d[2] = f /\ d[2] # None
    BY DemandsCompact DEF Binding
<1>3. f \in {"user", "environment"} /\ Demands(V, "facingMode") = {d}
    BY <1>1, <1>2 DEF IsRequest
<1>4. c.video = IF engine = "safari" THEN Compact(Sought(request).video) ELSE Sought(request).video
    BY <1>1, NativeIs
<1>5. Meets(media, c)
    OBVIOUS
<1>. HIDE DEF c, V
<1>6. CASE engine = "chrome60"
    <2>1. Turns(request)
        BY <1>2, <1>3, <1>6 DEF Turns, Face, V
    <2>2. c.video = FacingToDevice(V, listing)
        BY <1>1, <1>4, <1>6, <2>1, SoughtIs DEF V
    <2>3. PICK cam \in Cameras : LooksLike(cam, d[2]) /\ Demands(c.video, "deviceId") = {<<d[1], cam>>}
        <3>1. \E k \in DOMAIN listing : LooksLike(listing[k], d[2])
            BY <1>2, <1>6
        <3>. QED  BY <1>3, <2>2, <3>1, FacingIsDevice
    <2>4. <<d[1], cam>> \in Demands(c.video, "deviceId") /\ <<d[1], cam>>[1] = "exact" /\ <<d[1], cam>>[2] = cam
        BY <1>2, <2>3
    <2>5. media.camera = cam
        <3>1. \A x \in Demands(c.video, "deviceId") : x[1] = "exact" => media.camera = x[2]
            BY <1>5, <1>6, MeetsMandatory
        <3>. QED  BY <2>4, <3>1
    <2>. QED  BY <1>2, <2>3, <2>5
<1>7. CASE engine # "chrome60"
    <2>1. Demands(Sought(request).video, "facingMode") = Demands(V, "facingMode")
        <3>1. ~Turns(request)
            BY <1>7 DEF Turns
        <3>2. Demands(With(V, "mediaSource", {<<"exact", "screen">>}), "facingMode") = Demands(V, "facingMode")
            BY DemandsWith
        <3>. QED  BY <1>1, <3>1, <3>2, SoughtIs DEF V
    <2>2. f \in Binding(Demands(c.video, "facingMode"))
        BY <1>2, <1>4, <2>1, DemandsCompact DEF Binding
    <2>. QED  BY <1>5, <1>7, <2>2 DEF Meets
<1>. QED  BY <1>6, <1>7

\* the screen,
LEMMA ScreenMeets ==
    ASSUME Accepted(request), engine \in Engines, Meets(media, Native(Sought(request))), request.form = "display"
    PROVE  media.source = "screen"
<1>. DEFINE c == Native(Sought(request))
<1>1. IsRequest(request) /\ engine = "firefox" /\ ~Turns(request)
    BY DEF Accepted, Turns
<1>2. c.video = With(request.video, "mediaSource", {<<"exact", "screen">>})
    BY <1>1, NativeIs, SoughtIs
<1>3. Demands(c.video, "mediaSource") = {<<"exact", "screen">>}
    BY <1>2, DemandsWith
<1>. HIDE DEF c
<1>4. <<"exact", "screen">>[1] = "exact" /\ <<"exact", "screen">>[2] = "screen"
    OBVIOUS
<1>5. "screen" \in Binding(Demands(c.video, "mediaSource"))
    BY <1>3, <1>4 DEF Binding
<1>6. Meets(media, c)
    BY DEF c
<1>. QED  BY <1>1, <1>5, <1>6 DEF Meets

\* and the processing of its sound.
LEMMA SoundMeets ==
    ASSUME Accepted(request), engine \in Engines, Meets(media, Native(Sought(request))),
           "audio" \in media.kinds, Demands(request.audio, "nativeAgc") = {},
           NEW on \in Binding(Demands(request.audio, "agc"))
    PROVE  media.agc = on
<1>. DEFINE c == Native(Sought(request))
<1>1. c.audio = IF engine \in {"chrome60", "firefox"} THEN Remap(request.audio) ELSE request.audio
    BY NativeIs DEF Accepted
<1>2. engine \in {"chrome60", "firefox"} => Demands(c.audio, "nativeAgc") = Demands(request.audio, "agc")
    BY <1>1, RemapRenames
<1>. HIDE DEF c
<1>3. Meets(media, c)
    BY DEF c
<1>4. PICK d \in Demands(request.audio, "agc") : d[1] = "exact" /\ d[2] = on
    BY DEF Binding
<1>5. CASE engine = "chrome60"
    BY <1>2, <1>3, <1>4, <1>5, MeetsMandatory
<1>6. CASE engine = "firefox"
    <2>1. on \in Binding(Demands(c.audio, "nativeAgc"))
        BY <1>2, <1>6
    <2>. QED  BY <1>3, <1>6, <2>1 DEF Meets
<1>7. CASE engine \in {"chrome63", "safari"}
    <2>1. on \in Binding(Demands(c.audio, "agc"))
        BY <1>1, <1>7
    <2>. QED  BY <1>3, <1>7, <2>1 DEF Meets
<1>. QED  BY <1>5, <1>6, <1>7 DEF Engines

LEMMA CaptureInvDemanded == CaptureInv => CaptureIsAsDemanded
<1>. SUFFICES ASSUME CaptureInv PROVE CaptureIsAsDemanded
    OBVIOUS
<1>. DEFINE video == Compact(request.video)
<1>1. CASE phase = "given"
    <2>1. /\ Accepted(request) /\ engine \in Engines /\ media \in Captures /\ listing \in Seq(Cameras)
          /\ asked = Native(Sought(request)) /\ Meets(media, asked)
          /\ request.form # "callback" => media.kinds = asked.kinds
        BY <1>1 DEF CaptureInv
    <2>2. request.form # "callback" => media.kinds = request.kinds
        BY <2>1, NativeIs DEF Accepted
    <2>3. \A d \in Demands(video, "width") :
                /\ d[1] = "exact" => media.width = d[2]
                /\ d[1] = "min" => media.width >= d[2]
                /\ d[1] = "max" => media.width <= d[2]
        BY <2>1, WidthMeets
    <2>4. Face(video) = {} => \A cam \in Binding(Demands(video, "deviceId")) : media.camera = cam
        BY <2>1, CameraMeets
    <2>5. \A f \in Binding(Demands(video, "facingMode")) :
                (engine # "chrome60" \/ \E k \in DOMAIN listing : LooksLike(listing[k], f)) =>
                    LooksLike(media.camera, f)
        BY <2>1, FaceMeets
    <2>6. request.form = "display" => media.source = "screen"
        BY <2>1, ScreenMeets
    <2>7. "audio" \in media.kinds =>
            \A on \in Binding(Demands(request.audio, "agc")) :
                Demands(request.audio, "nativeAgc") = {} => media.agc = on
        BY <2>1, SoundMeets
    <2>. HIDE DEF video
    <2>. QED  BY <1>1, <2>2, <2>3, <2>4, <2>5, <2>6, <2>7 DEF CaptureIsAsDemanded, video
<1>2. CASE phase # "given"
    BY <1>2 DEF CaptureInv, CaptureIsAsDemanded
<1>. QED  BY <1>1, <1>2

\* Nothing of this looks at the cameras that are plugged in.
LEMMA SameSought ==
    ASSUME UNCHANGED <<engine, label, request, listing>>
    PROVE  /\ Accepted(request)' <=> Accepted(request)
           /\ Turns(request)' <=> Turns(request)
           /\ Native(Sought(request))' = Native(Sought(request))
<1>1. (Accepted(request)' <=> Accepted(request)) /\ (Turns(request)' <=> Turns(request))
    BY DEF Accepted, Turns
<1>2. ASSUME NEW f PROVE Match(listing, f)' = Match(listing, f)
    <2>. DEFINE here == {k \in DOMAIN listing : LooksLike(listing[k], f)}
    <2>1. {k \in DOMAIN listing : LooksLike(listing[k], f)}' = here
        BY DEF LooksLike
    <2>. HIDE DEF here
    <2>. QED  BY <2>1 DEF Match, here
<1>3. FacingToDevice(request.video, listing)' = FacingToDevice(request.video, listing)
    <2>. DEFINE d == CHOOSE x \in Demands(request.video, "facingMode") : TRUE
                rest == Without(request.video, "facingMode")
                to(dev) == IF dev = {} THEN rest ELSE With(rest, "deviceId", {<<d[1], cam>> : cam \in dev})
    <2>1. d' = d /\ rest' = rest
        OBVIOUS
    <2>2. FacingToDevice(request.video, listing) = to(Match(listing, d[2]))
        BY DEF FacingToDevice
    <2>3. FacingToDevice(request.video, listing)' =
            IF Match(listing, d[2])' = {} THEN rest'
            ELSE With(rest', "deviceId", {<<d'[1], cam>> : cam \in Match(listing, d[2])'})
        BY DEF FacingToDevice
    <2>4. Match(listing, d[2])' = Match(listing, d[2])
        BY <1>2
    <2>. HIDE DEF d, rest
    <2>. QED  BY <2>1, <2>2, <2>3, <2>4
<1>4. Sought(request)' = Sought(request)
    BY <1>1, <1>3 DEF Sought
<1>5. Native(Sought(request))' = Native(Sought(request))
    <2>. DEFINE s == Sought(request)
    <2>1. Native(Sought(request))' = IF engine' \in {"chrome60", "firefox"} THEN WithOlderNames(s')
                                     ELSE IF engine' = "safari" THEN WithoutUndefined(s') ELSE s'
        BY DEF Native
    <2>2. s' = s /\ engine' = engine
        BY <1>4
    <2>. HIDE DEF s
    <2>3. Native(s) = IF engine \in {"chrome60", "firefox"} THEN WithOlderNames(s)
                     ELSE IF engine = "safari" THEN WithoutUndefined(s) ELSE s
        BY DEF Native
    <2>. QED  BY <2>1, <2>2, <2>3 DEF s
<1>. QED  BY <1>1, <1>5

LEMMA SameMeets ==
    ASSUME UNCHANGED <<engine, label, media, asked>>
    PROVE  Meets(media, asked)' <=> Meets(media, asked)
BY DEF Meets, LooksLike

LEMMA GetUserMediaInv ==
    ASSUME CaptureInv, NEW r \in Requests, GetUserMedia(r)
    PROVE  CaptureInv'
<1>1. Accepted(r)
    BY RequestsAssumption DEF GetUserMedia, Accepted
<1>2. request' = r /\ UNCHANGED <<engine, label, cams, listing, media, live>> /\ ~live
    BY DEF GetUserMedia, CaptureInv
<1>3. Accepted(request)' /\ (Turns(request)' <=> Turns(r))
    BY <1>1, <1>2 DEF Accepted, Turns
<1>4. CASE phase' = "refused" /\ error' = "NotFoundError"
    BY <1>2, <1>4 DEF CaptureInv, Errors
<1>5. CASE phase' = "listing" /\ Turns(r)
    BY <1>2, <1>3, <1>5 DEF CaptureInv
<1>6. CASE phase' = "asked" /\ ~Turns(r) /\ asked' = Native(IF r.form = "display" THEN DisplayAsUser(r) ELSE r)
    <2>1. asked' = Native(Sought(r))
        BY <1>6 DEF Sought
    <2>2. (asked = Native(Sought(request)))'
        BY <1>2, <1>3, <1>6, <2>1 DEF Sought, Native
    <2>. QED  BY <1>2, <1>3, <1>6, <2>2 DEF CaptureInv
<1>. QED  BY <1>4, <1>5, <1>6 DEF GetUserMedia, Refuse, Turns

LEMMA AskListedInv ==
    ASSUME CaptureInv, AskListed
    PROVE  CaptureInv'
<1>1. /\ Accepted(request) /\ Turns(request) /\ phase' = "asked" /\ ~live
      /\ asked' = Native(Sought(request)) /\ UNCHANGED <<engine, label, cams, request, listing, media, live, error>>
    BY DEF AskListed, CaptureInv, Sought
<1>2. Accepted(request)' /\ (asked = Native(Sought(request)))'
    BY <1>1, SameSought
<1>. QED  BY <1>1, <1>2 DEF CaptureInv

LEMMA CapturesInv ==
    ASSUME CaptureInv, Capture
    PROVE  CaptureInv'
<1>1. PICK m \in Answers(asked) : media' = m /\ Fulfil(m)
    BY DEF Capture
<1>2. m \in Captures /\ Meets(m, asked) /\ (engine \notin {"chrome60", "chrome63"} => m.kinds = asked.kinds)
    BY DEF Answers
<1>3. /\ phase = "asked" /\ Accepted(request) /\ asked = Native(Sought(request))
      /\ UNCHANGED <<engine, label, cams, request, asked, listing>>
    BY DEF Capture, CaptureInv
<1>4. Accepted(request)' /\ (asked = Native(Sought(request)))'
    BY <1>3, SameSought
<1>5. Meets(media, asked)'
    BY <1>1, <1>2, <1>3 DEF Meets, LooksLike
<1>6. CASE phase' = "refused" /\ error' = "NotFoundError" /\ live' = FALSE
    BY <1>3, <1>6 DEF CaptureInv, Errors
<1>7. CASE phase' = "given" /\ ~(engine \in {"chrome60", "chrome63"} /\ request.form = "promise" /\ m.kinds # asked.kinds)
    <2>1. request.form # "callback" => m.kinds = asked.kinds
        BY <1>2, <1>3, <1>7 DEF Accepted, IsRequest
    <2>. QED  BY <1>1, <1>2, <1>3, <1>4, <1>5, <1>7, <2>1 DEF CaptureInv
<1>. QED  BY <1>1, <1>6, <1>7 DEF Fulfil, Refuse

LEMMA ApplyConstraintsInv ==
    ASSUME CaptureInv, NEW on \in BOOLEAN, ApplyConstraints(on)
    PROVE  CaptureInv'
<1>. DEFINE audio == {<<"agc", {<<"exact", on>>}>>}
<1>1. /\ phase = "given" /\ engine = "firefox" /\ "audio" \in media.kinds
      /\ request' = [request EXCEPT !.audio = audio] /\ asked' = [asked EXCEPT !.audio = Remap(audio)]
      /\ UNCHANGED <<engine, label, cams, phase, listing, live, error>>
    BY DEF ApplyConstraints
<1>2. PICK n \in Captures : /\ \A b \in Binding(Demands(Remap(audio), "nativeAgc")) : n.agc = b
                            /\ media' = [media EXCEPT !.agc = n.agc]
    BY DEF ApplyConstraints
<1>. HIDE DEF audio
<1>3. /\ Accepted(request) /\ media \in Captures /\ asked = Native(Sought(request)) /\ Meets(media, asked)
      /\ request.form # "callback" => media.kinds = asked.kinds
    BY <1>1 DEF CaptureInv
<1>4. request = [form |-> request.form, kinds |-> request.kinds, audio |-> request.audio, video |-> request.video]
    BY <1>3 DEF Accepted, IsRequest
<1>5. request' = [form |-> request.form, kinds |-> request.kinds, audio |-> audio, video |-> request.video]
    BY <1>1, <1>4
<1>6. Accepted(request)'
    BY <1>1, <1>3, <1>5 DEF Accepted, IsRequest, Defined
<1>7. ~Turns(request) /\ ~Turns(request)'
    BY <1>1 DEF Turns
<1>8. (asked = Native(Sought(request)))'
    <2>. DEFINE v == IF request.form = "display"
                     THEN With(request.video, "mediaSource", {<<"exact", "screen">>}) ELSE request.video
    <2>1. Sought(request) = [form |-> request.form, kinds |-> request.kinds, audio |-> request.audio, video |-> v]
        BY <1>4, <1>7 DEF Sought, DisplayAsUser
    <2>2. Sought(request)' = [form |-> request.form, kinds |-> request.kinds, audio |-> audio, video |-> v]
        BY <1>5, <1>7 DEF Sought, DisplayAsUser
    <2>. HIDE DEF v
    <2>3. asked = [form |-> request.form, kinds |-> request.kinds, audio |-> Remap(request.audio), video |-> v]
        BY <1>1, <1>3, <2>1 DEF Native, WithOlderNames
    <2>4. asked' = [form |-> request.form, kinds |-> request.kinds, audio |-> Remap(audio), video |-> v]
        BY <1>1, <2>3
    <2>5. (Native(Sought(request)))' = WithOlderNames(Sought(request))'
        BY <1>1 DEF Native
    <2>6. WithOlderNames(Sought(request))' =
            [form |-> request.form, kinds |-> request.kinds, audio |-> Remap(audio), video |-> v]
        BY <2>2 DEF WithOlderNames
    <2>. QED  BY <2>4, <2>5, <2>6
<1>9. /\ asked'.video = asked.video /\ asked'.kinds = asked.kinds /\ asked'.audio = Remap(audio)
    <2>1. Sought(request) = [form |-> request.form, kinds |-> request.kinds,
                             audio |-> request.audio, video |-> Sought(request).video]
        BY <1>3, SoughtIs DEF Accepted
    <2>2. asked = [form |-> request.form, kinds |-> request.kinds,
                   audio |-> Remap(request.audio), video |-> Sought(request).video]
        BY <1>1, <1>3, <2>1 DEF Native, WithOlderNames
    <2>. QED  BY <1>1, <2>2
<1>10. /\ media' \in Captures /\ media'.agc = n.agc /\ media'.kinds = media.kinds /\ media'.camera = media.camera
       /\ media'.width = media.width /\ media'.source = media.source
    BY <1>2, <1>3 DEF Captures
<1>11. Meets(media, asked)'
    BY <1>1, <1>2, <1>3, <1>9, <1>10 DEF Meets, LooksLike
<1>. QED  BY <1>1, <1>3, <1>6, <1>7, <1>8, <1>9, <1>10, <1>11 DEF CaptureInv

\* Names of errors that are not among the older ones are left as they are.
LEMMA CaptureFailsInv ==
    ASSUME CaptureInv, CaptureFails
    PROVE  CaptureInv'
<1>1. \A name \in OldErrors \cup Errors : ShimError(name) \in Errors
    BY DEF ShimError, OldErrors, Errors
<1>2. phase' = "refused" /\ error' \in Errors /\ ~live /\ UNCHANGED <<engine, cams, listing, live>>
    BY <1>1 DEF CaptureFails, Refuse, CaptureInv
<1>. QED  BY <1>2 DEF CaptureInv

LEMMA QuietCaptureInv ==
    ASSUME CaptureInv, cams' \in Seq(Cameras),
           UNCHANGED <<engine, label, request, asked, phase, listing, media, live, error>>
    PROVE  CaptureInv'
BY SameSought, SameMeets DEF CaptureInv

LEMMA CaptureStep ==
    ASSUME CaptureInv, CaptureNext
    PROVE  CaptureInv'
<1>1. CASE DevicesListed
    <2>1. /\ Accepted(request) /\ Turns(request) /\ ~live /\ phase' = "listed" /\ listing' = cams
          /\ UNCHANGED <<engine, label, cams, request, asked, media, live, error>>
        BY <1>1 DEF DevicesListed, CaptureInv
    <2>. QED  BY <2>1 DEF CaptureInv, Accepted, Turns
<1>2. ASSUME NEW k \in DOMAIN cams, Unplug(k) PROVE CaptureInv'
    <2>1. cams \in Seq(Cameras) /\ k \in 1 .. Len(cams) /\ Len(cams) \in Nat
        BY LenProperties DEF CaptureInv
    <2>2. SubSeq(cams, 1, k - 1) \in Seq(Cameras)
        <3>1. CASE k - 1 = 0  BY <3>1, SubSeqEmpty
        <3>2. CASE k - 1 > 0  BY <2>1, <3>2, SubSeqProperties
        <3>. QED  BY <2>1, <3>1, <3>2
    <2>3. SubSeq(cams, k + 1, Len(cams)) \in Seq(Cameras)
        BY <2>1, SubSeqProperties
    <2>4. cams' \in Seq(Cameras)
        BY <1>2, <2>2, <2>3, ConcatProperties DEF Unplug
    <2>. QED  BY <1>2, <2>4, QuietCaptureInv DEF Unplug
<1>. QED
    BY <1>1, <1>2, GetUserMediaInv, AskListedInv, CapturesInv, CaptureFailsInv, ApplyConstraintsInv DEF CaptureNext

\* Whatever cameras are plugged in and whatever a page asks for, in each of the
\* four browsers it is given what it must have, or told why not.
THEOREM CapturesMeetDemands == CaptureSpec => []CaptureIsAsDemanded
<1>1. CaptureInit => CaptureInv
    BY RequestsAssumption DEF CaptureInit, CaptureInv
<1>2. CaptureInv /\ UNCHANGED captureVars => CaptureInv'
    BY QuietCaptureInv DEF captureVars, CaptureInv
<1>. QED  BY <1>1, <1>2, CaptureStep, CaptureInvDemanded, PTL DEF CaptureSpec

-------------------------------------------------------------------------------
(***************************************************************************)
(* Statistics.  The walk over the reports returns what is reachable from   *)
(* its first report (WalkReaches): it exists because the set of what can   *)
(* still be reached satisfies its equations (ReachedStep), and each call   *)
(* either shortens what is to be looked at or adds a report to the result, *)
(* of which there are finitely many.                                       *)
(***************************************************************************)
StatSpec == StatInit /\ [][StatNext]_statVars

SenderTracks == [StatSenders -> AllTracks \cup {NoTrack}]
Elems(seq) == {seq[k] : k \in 1 .. Len(seq)}
Named(f, id) == Elems(Refs(f, id))

LEMMA ImageIsFinite ==
    ASSUME NEW S, IsFiniteSet(S), NEW g
    PROVE  IsFiniteSet({g[x] : x \in S})
<1>. DEFINE T == {g[x] : x \in S}
            h == [x \in S |-> g[x]]
<1>1. h \in Surjection(S, T)
    BY DEF Surjection
<1>. HIDE DEF h, T
<1>2. IsFiniteSet(T)
    BY <1>1, FS_Surjection
<1>. QED  BY <1>2 DEF T

LEMMA FiniteReports ==
    ASSUME NEW f
    PROVE  IsFiniteSet(ReportIds(f))
<1>. DEFINE on == SendersOn(f)
<1>1. IsFiniteSet(on)
    BY StatsAssumption, FS_Subset DEF SendersOn
<1>2. IsFiniteSet({<<"track", f[s]>> : s \in on})
    <2>. DEFINE g == [x \in on |-> <<"track", f[x]>>]
    <2>1. {<<"track", f[s]>> : s \in on} = {g[s] : s \in on}
        OBVIOUS
    <2>. HIDE DEF g, on
    <2>. QED  BY <1>1, <2>1, ImageIsFinite
<1>3. ASSUME NEW S, IsFiniteSet(S), NEW type PROVE IsFiniteSet({<<type, s>> : s \in S})
    <2>. DEFINE g == [x \in S |-> <<type, x>>]
    <2>1. {<<type, s>> : s \in S} = {g[s] : s \in S}
        OBVIOUS
    <2>. HIDE DEF g
    <2>. QED  BY <1>3, <2>1, ImageIsFinite
<1>4. IsFiniteSet({<<"track", Received[r]>> : r \in StatReceivers})
    <2>. DEFINE g == [x \in StatReceivers |-> <<"track", Received[x]>>]
    <2>1. {<<"track", Received[r]>> : r \in StatReceivers} = {g[r] : r \in StatReceivers}
        OBVIOUS
    <2>. HIDE DEF g
    <2>. QED  BY StatsAssumption, <2>1, ImageIsFinite
<1>5. /\ IsFiniteSet({<<"outbound-rtp", s>> : s \in on}) /\ IsFiniteSet({<<"remote", s>> : s \in on})
      /\ IsFiniteSet({<<"inbound-rtp", r>> : r \in StatReceivers})
    BY <1>1, <1>3, StatsAssumption
<1>6. IsFiniteSet({<<"codec">>, <<"transport">>, <<"pair">>})
    <2>1. ASSUME NEW x, NEW y, NEW z PROVE IsFiniteSet({x, y, z})
        <3>1. IsFiniteSet({x} \cup {y})
            BY FS_Singleton, FS_AddElement
        <3>2. IsFiniteSet(({x} \cup {y}) \cup {z})
            BY <3>1, FS_AddElement
        <3>3. ({x} \cup {y}) \cup {z} = {x, y, z}
            OBVIOUS
        <3>. QED  BY <3>2, <3>3
    <2>. QED  BY <2>1
<1>. DEFINE a == {<<"track", f[s]>> : s \in on}
            b == {<<"track", Received[r]>> : r \in StatReceivers}
            c == {<<"outbound-rtp", s>> : s \in on}
            d == {<<"remote", s>> : s \in on}
            e == {<<"inbound-rtp", r>> : r \in StatReceivers}
            g == {<<"codec">>, <<"transport">>, <<"pair">>}
<1>7. ReportIds(f) = a \cup b \cup c \cup d \cup e \cup g
    BY DEF ReportIds
<1>. HIDE DEF a, b, c, d, e, g
<1>8. IsFiniteSet(a \cup b \cup c \cup d \cup e \cup g)
    BY <1>2, <1>4, <1>5, <1>6, FS_Union DEF a, b, c, d, e, g
<1>. QED  BY <1>7, <1>8

LEMMA TuplesAreSeqs ==
    ASSUME NEW S, NEW a \in S, NEW b \in S, NEW c \in S, NEW d \in S, NEW q,
           q \in {<<>>, <<a>>, <<a, b>>, <<a, b, c>>, <<a, b, c, d>>}
    PROVE  q \in Seq(S) /\ Len(q) \in 0 .. 4
<1>1. CASE q = <<>>  BY <1>1
<1>2. CASE q = <<a>>  BY <1>2
<1>3. CASE q = <<a, b>>  BY <1>3
<1>4. CASE q = <<a, b, c>>  BY <1>4
<1>5. CASE q = <<a, b, c, d>>  BY <1>5
<1>. QED  BY <1>1, <1>2, <1>3, <1>4, <1>5

LEMMA RefsAreReports ==
    ASSUME NEW f \in SenderTracks, NEW id \in ReportIds(f)
    PROVE  Refs(f, id) \in Seq(ReportIds(f)) /\ Len(Refs(f, id)) \in 0 .. 4
<1>. DEFINE R == ReportIds(f)
<1>. SUFFICES Refs(f, id) \in Seq(R) /\ Len(Refs(f, id)) \in 0 .. 4
    OBVIOUS
<1>1. /\ \A s \in SendersOn(f) : {<<"track", f[s]>>, <<"remote", s>>, <<"outbound-rtp", s>>} \subseteq R
      /\ \A r \in StatReceivers : <<"track", Received[r]>> \in R
      /\ <<"codec">> \in R /\ <<"transport">> \in R /\ <<"pair">> \in R
    BY DEF ReportIds
<1>2. \/ id[1] = "track"
      \/ id \in {<<"outbound-rtp", s>> : s \in SendersOn(f)} \/ id \in {<<"remote", s>> : s \in SendersOn(f)}
      \/ id \in {<<"inbound-rtp", r>> : r \in StatReceivers}
      \/ id \in {<<"codec">>, <<"transport">>, <<"pair">>}
    BY DEF ReportIds
<1>. HIDE DEF R
<1>3. CASE \E s \in SendersOn(f) : id = <<"outbound-rtp", s>>
    <2>1. PICK s \in SendersOn(f) : id = <<"outbound-rtp", s>>
        BY <1>3
    <2>2. Refs(f, id) = << <<"track", f[s]>>, <<"remote", s>>, <<"codec">>, <<"transport">> >>
        BY <2>1 DEF Refs
    <2>. DEFINE a == <<"track", f[s]>>
                b == <<"remote", s>>
                c == <<"codec">>
                d == <<"transport">>
    <2>3. a \in R /\ b \in R /\ c \in R /\ d \in R /\ Refs(f, id) \in {<<a, b, c, d>>}
        BY <1>1, <2>2
    <2>. HIDE DEF a, b, c, d
    <2>. QED  BY <2>3, TuplesAreSeqs
<1>4. CASE \E s \in SendersOn(f) : id = <<"remote", s>>
    <2>1. PICK s \in SendersOn(f) : id = <<"remote", s>>
        BY <1>4
    <2>2. Refs(f, id) = << <<"outbound-rtp", s>>, <<"codec">> >>
        BY <2>1 DEF Refs
    <2>. QED  BY <1>1, <2>2, TuplesAreSeqs
<1>5. CASE \E r \in StatReceivers : id = <<"inbound-rtp", r>>
    <2>1. PICK r \in StatReceivers : id = <<"inbound-rtp", r>>
        BY <1>5
    <2>2. Refs(f, id) = << <<"track", Received[r]>>, <<"codec">>, <<"transport">> >>
        BY <2>1 DEF Refs
    <2>. DEFINE a == <<"track", Received[r]>>
                b == <<"codec">>
                c == <<"transport">>
    <2>3. a \in R /\ b \in R /\ c \in R /\ Refs(f, id) \in {<<a, b, c>>}
        BY <1>1, <2>2
    <2>. HIDE DEF a, b, c
    <2>. QED  BY <2>3, TuplesAreSeqs
<1>6. CASE id = <<"transport">> \/ id = <<"pair">>
    <2>1. Refs(f, id) = << <<"pair">> >> \/ Refs(f, id) = << <<"transport">> >>
        BY <1>6 DEF Refs
    <2>. QED  BY <1>1, <2>1, TuplesAreSeqs
<1>7. CASE id[1] = "track" \/ id[1] = "codec"
    <2>1. Refs(f, id) = <<>>
        BY <1>7 DEF Refs
    <2>. QED  BY <1>1, <2>1, TuplesAreSeqs
<1>. QED  BY <1>2, <1>3, <1>4, <1>5, <1>6, <1>7

-------------------------------------------------------------------------------
\* What can be reached from the reports of todo without going through those of done.
Reachable(f, todo, done) ==
    {id \in ReportIds(f) :
        \A S \in SUBSET ReportIds(f) :
            done \cup todo \subseteq S /\ (\A x \in S \ done : Named(f, x) \subseteq S) => id \in S}

LEMMA ElemsOf ==
    ASSUME NEW S, NEW s \in Seq(S)
    PROVE  /\ Elems(s) \subseteq S /\ Len(s) \in Nat /\ (s = <<>> => Elems(s) = {} /\ Len(s) = 0)
           /\ s # <<>> => /\ Head(s) \in S /\ Tail(s) \in Seq(S) /\ Len(Tail(s)) = Len(s) - 1
                          /\ Elems(s) = {Head(s)} \cup Elems(Tail(s))
<1>1. Elems(s) \subseteq S /\ Len(s) \in Nat /\ (s = <<>> => Elems(s) = {} /\ Len(s) = 0)
    BY ElementOfSeq, LenProperties, EmptySeq DEF Elems
<1>2. ASSUME s # <<>>
      PROVE  /\ Head(s) \in S /\ Tail(s) \in Seq(S) /\ Len(Tail(s)) = Len(s) - 1
             /\ Elems(s) = {Head(s)} \cup Elems(Tail(s))
    <2>1. /\ Head(s) \in S /\ Tail(s) \in Seq(S) /\ Len(Tail(s)) = Len(s) - 1
          /\ \A i \in 1 .. Len(Tail(s)) : Tail(s)[i] = s[i + 1]
        BY <1>2, HeadTailProperties
    <2>2. Len(s) >= 1 /\ Head(s) = s[1]
        BY <1>1, <1>2
    <2>3. ASSUME NEW x \in Elems(s) PROVE x \in {Head(s)} \cup Elems(Tail(s))
        <3>1. PICK k \in 1 .. Len(s) : x = s[k]
            BY DEF Elems
        <3>2. CASE k = 1  BY <2>2, <3>1, <3>2
        <3>3. CASE k # 1
            <4>1. k - 1 \in 1 .. Len(Tail(s)) /\ (k - 1) + 1 = k
                BY <1>1, <2>1, <3>3
            <4>. QED  BY <2>1, <3>1, <4>1 DEF Elems
        <3>. QED  BY <3>2, <3>3
    <2>4. ASSUME NEW x \in {Head(s)} \cup Elems(Tail(s)) PROVE x \in Elems(s)
        <3>1. CASE x = Head(s)
            <4>1. 1 \in 1 .. Len(s)
                BY <1>1, <2>2
            <4>. QED  BY <2>2, <3>1, <4>1 DEF Elems
        <3>2. CASE x \in Elems(Tail(s))
            <4>1. PICK k \in 1 .. Len(Tail(s)) : x = Tail(s)[k]
                BY <3>2 DEF Elems
            <4>2. k + 1 \in 1 .. Len(s)
                BY <1>1, <2>1, <4>1
            <4>. QED  BY <2>1, <4>1, <4>2 DEF Elems
        <3>. QED  BY <3>1, <3>2
    <2>. QED  BY <2>1, <2>3, <2>4
<1>. QED  BY <1>1, <1>2

LEMMA ElemsConcat ==
    ASSUME NEW S, NEW s \in Seq(S), NEW t \in Seq(S)
    PROVE  s \o t \in Seq(S) /\ Len(s \o t) = Len(s) + Len(t) /\ Elems(s \o t) = Elems(s) \cup Elems(t)
<1>1. /\ s \o t \in Seq(S) /\ Len(s \o t) = Len(s) + Len(t)
      /\ \A i \in 1 .. Len(s) + Len(t) : (s \o t)[i] = IF i <= Len(s) THEN s[i] ELSE t[i - Len(s)]
    BY ConcatProperties
<1>2. Len(s) \in Nat /\ Len(t) \in Nat
    BY LenProperties
<1>3. ASSUME NEW x \in Elems(s \o t) PROVE x \in Elems(s) \cup Elems(t)
    <2>1. PICK k \in 1 .. Len(s) + Len(t) : x = (s \o t)[k]
        BY <1>1 DEF Elems
    <2>2. \/ k \in 1 .. Len(s) /\ x = s[k]
          \/ k - Len(s) \in 1 .. Len(t) /\ x = t[k - Len(s)]
        BY <1>1, <1>2, <2>1
    <2>. QED  BY <2>2 DEF Elems
<1>4. ASSUME NEW k \in 1 .. Len(s) PROVE s[k] \in Elems(s \o t)
    <2>1. k \in 1 .. Len(s) + Len(t) /\ k <= Len(s)
        BY <1>2
    <2>2. s[k] = (s \o t)[k]
        BY <1>1, <2>1
    <2>. QED  BY <1>1, <2>1, <2>2 DEF Elems
<1>5. ASSUME NEW k \in 1 .. Len(t) PROVE t[k] \in Elems(s \o t)
    <2>1. /\ k + Len(s) \in 1 .. Len(s) + Len(t) /\ ~(k + Len(s) <= Len(s))
          /\ (k + Len(s)) - Len(s) = k
        BY <1>2
    <2>2. t[k] = (s \o t)[k + Len(s)]
        BY <1>1, <2>1
    <2>. QED  BY <1>1, <2>1, <2>2 DEF Elems
<1>. QED  BY <1>1, <1>3, <1>4, <1>5 DEF Elems

\* The equations of the walk, which what can be reached satisfies.
LEMMA ReachedStep ==
    ASSUME NEW f \in SenderTracks, NEW todo \in Seq(ReportIds(f)), NEW done \in SUBSET ReportIds(f)
    PROVE  /\ Reachable(f, Elems(todo), done) \in SUBSET ReportIds(f)
           /\ todo = <<>> => Reachable(f, Elems(todo), done) = done
           /\ todo # <<>> =>
                /\ Head(todo) \in done =>
                        Reachable(f, Elems(todo), done) = Reachable(f, Elems(Tail(todo)), done)
                /\ Head(todo) \notin done =>
                        Reachable(f, Elems(todo), done) =
                            Reachable(f, Elems(Refs(f, Head(todo)) \o Tail(todo)), done \cup {Head(todo)})
<1>. DEFINE R == ReportIds(f)
            whole(S, from) == \A x \in S \ from : Named(f, x) \subseteq S
<1>1. ASSUME NEW a, NEW b, NEW id
      PROVE  id \in Reachable(f, a, b) <=>
                id \in R /\ \A S \in SUBSET R : b \cup a \subseteq S /\ whole(S, b) => id \in S
    BY DEF Reachable
<1>2. Reachable(f, Elems(todo), done) \in SUBSET R
    BY <1>1
<1>3. ASSUME todo = <<>> PROVE Reachable(f, Elems(todo), done) = done
    <2>1. Elems(todo) = {}
        BY <1>3, ElemsOf
    <2>2. whole(done, done)
        OBVIOUS
    <2>. HIDE DEF whole, R
    <2>. QED  BY <1>1, <2>1, <2>2 DEF R
<1>4. ASSUME todo # <<>>
      PROVE  /\ Elems(todo) = {Head(todo)} \cup Elems(Tail(todo)) /\ Head(todo) \in R /\ Tail(todo) \in Seq(R)
             /\ Elems(Refs(f, Head(todo)) \o Tail(todo)) = Named(f, Head(todo)) \cup Elems(Tail(todo))
    <2>1. Head(todo) \in R /\ Tail(todo) \in Seq(R) /\ Elems(todo) = {Head(todo)} \cup Elems(Tail(todo))
        BY <1>4, ElemsOf
    <2>2. Refs(f, Head(todo)) \in Seq(R)
        BY <2>1, RefsAreReports
    <2>3. Elems(Refs(f, Head(todo)) \o Tail(todo)) = Elems(Refs(f, Head(todo))) \cup Elems(Tail(todo))
        <3>1. ASSUME NEW a \in Seq(R), NEW b \in Seq(R) PROVE Elems(a \o b) = Elems(a) \cup Elems(b)
            BY ElemsConcat
        <3>. HIDE DEF R
        <3>. QED  BY <2>1, <2>2, <3>1
    <2>. QED  BY <2>1, <2>3 DEF Named
<1>5. ASSUME todo # <<>>, Head(todo) \in done
      PROVE  Reachable(f, Elems(todo), done) = Reachable(f, Elems(Tail(todo)), done)
    <2>1. \A S : done \cup Elems(todo) \subseteq S <=> done \cup Elems(Tail(todo)) \subseteq S
        BY <1>4, <1>5
    <2>. HIDE DEF whole, R
    <2>2. ASSUME NEW id
          PROVE  id \in Reachable(f, Elems(todo), done) <=> id \in Reachable(f, Elems(Tail(todo)), done)
        BY <1>1, <2>1
    <2>. QED  BY <1>2, <2>2 DEF Reachable
<1>6. ASSUME todo # <<>>, Head(todo) \notin done
      PROVE  Reachable(f, Elems(todo), done) =
                Reachable(f, Elems(Refs(f, Head(todo)) \o Tail(todo)), done \cup {Head(todo)})
    <2>. DEFINE h == Head(todo)
                t == Elems(Tail(todo))
                m == Elems(Refs(f, h) \o Tail(todo))
    <2>1. Elems(todo) = {h} \cup t /\ m = Named(f, h) \cup t
        BY <1>4, <1>6
    <2>2. h \notin done
        BY <1>6
    <2>. HIDE DEF h, t, m
    <2>3. ASSUME NEW S PROVE (done \cup Elems(todo) \subseteq S /\ whole(S, done)) <=>
                             ((done \cup {h}) \cup m \subseteq S /\ whole(S, done \cup {h}))
        BY <2>1, <2>2
    <2>. HIDE DEF whole, R
    <2>4. ASSUME NEW id
          PROVE  id \in Reachable(f, Elems(todo), done) <=> id \in Reachable(f, m, done \cup {h})
        <3>1. id \in Reachable(f, Elems(todo), done) <=>
                id \in R /\ \A S \in SUBSET R : done \cup Elems(todo) \subseteq S /\ whole(S, done) => id \in S
            BY <1>1
        <3>2. id \in Reachable(f, m, done \cup {h}) <=>
                id \in R /\ \A S \in SUBSET R :
                    (done \cup {h}) \cup m \subseteq S /\ whole(S, done \cup {h}) => id \in S
            BY <1>1
        <3>. QED  BY <2>3, <3>1, <3>2
    <2>5. Reachable(f, Elems(todo), done) = Reachable(f, m, done \cup {h})
        BY <2>4 DEF Reachable
    <2>. QED  BY <2>5 DEF h, m
<1>. QED  BY <1>2, <1>3, <1>5, <1>6

\* The walk exists and returns just what can be reached: otherwise there were a
\* shortest way to a call that does not, but its next call does.
LEMMA WalkReaches ==
    ASSUME NEW f \in SenderTracks, NEW base \in ReportIds(f)
    PROVE  WalkStats(f, base) = Reachable(f, {base}, {})
<1>. DEFINE R == ReportIds(f)
            D == Seq(R) \X SUBSET R
            step(w, todo, done) ==
                IF todo = <<>> THEN done
                ELSE IF Head(todo) \in done THEN w[<<Tail(todo), done>>]
                ELSE w[<<Refs(f, Head(todo)) \o Tail(todo), done \cup {Head(todo)}>>]
            is(w) == w = [p \in D |-> step(w, p[1], p[2])]
            walk == CHOOSE w : is(w)
            all == [p \in D |-> Reachable(f, Elems(p[1]), p[2])]
<1>1. WalkStats(f, base) = walk[<< <<base>>, {} >>]
    BY DEF WalkStats
<1>2. ASSUME NEW todo \in Seq(R), NEW done \in SUBSET R, todo # <<>>
      PROVE  /\ Head(todo) \in R /\ Tail(todo) \in Seq(R) /\ Refs(f, Head(todo)) \in Seq(R)
             /\ Refs(f, Head(todo)) \o Tail(todo) \in Seq(R)
             /\ Len(todo) \in Nat /\ Len(Tail(todo)) \in Nat /\ Len(Tail(todo)) = Len(todo) - 1
             /\ Len(Refs(f, Head(todo)) \o Tail(todo)) \in 0 .. Len(todo) + 3
             /\ done \cup {Head(todo)} \in SUBSET R
    <2>1. Head(todo) \in R /\ Tail(todo) \in Seq(R) /\ Len(todo) \in Nat /\ Len(Tail(todo)) = Len(todo) - 1
        BY <1>2, ElemsOf
    <2>2. Refs(f, Head(todo)) \in Seq(R) /\ Len(Refs(f, Head(todo))) \in 0 .. 4
        BY <2>1, RefsAreReports
    <2>3. ASSUME NEW a \in Seq(R), NEW b \in Seq(R) PROVE a \o b \in Seq(R) /\ Len(a \o b) = Len(a) + Len(b)
        BY ElemsConcat
    <2>. DEFINE a == Refs(f, Head(todo))
                b == Tail(todo)
                h == Head(todo)
    <2>4. h \in R /\ a \in Seq(R) /\ b \in Seq(R) /\ Len(a) \in 0 .. 4 /\ Len(b) = Len(todo) - 1
        BY <2>1, <2>2
    <2>. HIDE DEF R, a, b, h
    <2>5. a \o b \in Seq(R) /\ Len(a \o b) = Len(a) + Len(b)
        BY <2>3, <2>4
    <2>6. Len(b) \in Nat
        BY <2>4, LenProperties
    <2>7. Len(a \o b) \in 0 .. Len(todo) + 3
        <3>1. ASSUME NEW x \in 0 .. 4, NEW y \in Nat, NEW z \in Nat, y = z - 1 PROVE x + y \in 0 .. z + 3
            BY <3>1
        <3>. QED  BY <2>1, <2>4, <2>5, <2>6, <3>1
    <2>8. done \cup {h} \in SUBSET R
        BY <2>4
    <2>. QED  BY <2>1, <2>4, <2>5, <2>6, <2>7, <2>8 DEF a, b, h
<1>0. ASSUME NEW todo \in Seq(R), NEW done \in SUBSET R
      PROVE  /\ todo = <<>> => Reachable(f, Elems(todo), done) = done
             /\ todo # <<>> /\ Head(todo) \in done =>
                    Reachable(f, Elems(todo), done) = Reachable(f, Elems(Tail(todo)), done)
             /\ todo # <<>> /\ Head(todo) \notin done =>
                    Reachable(f, Elems(todo), done) =
                        Reachable(f, Elems(Refs(f, Head(todo)) \o Tail(todo)), done \cup {Head(todo)})
    BY ReachedStep
<1>. HIDE DEF R
<1>3. is(all)
    <2>0. \A a \in Seq(R), b \in SUBSET R : <<a, b>> \in D /\ all[<<a, b>>] = Reachable(f, Elems(a), b)
        OBVIOUS
    <2>1. ASSUME NEW todo \in Seq(R), NEW done \in SUBSET R
          PROVE  all[<<todo, done>>] = step(all, todo, done)
        <3>. HIDE DEF all, D
        <3>1. CASE todo = <<>>
            <4>1. step(all, todo, done) = done
                BY <3>1
            <4>2. Reachable(f, Elems(todo), done) = done
                BY <1>0, <3>1
            <4>3. all[<<todo, done>>] = Reachable(f, Elems(todo), done)
                BY <2>0
            <4>. HIDE DEF step
            <4>. QED  BY <4>1, <4>2, <4>3
        <3>2. CASE todo # <<>> /\ Head(todo) \in done
            <4>1. all[<<Tail(todo), done>>] = Reachable(f, Elems(Tail(todo)), done)
                BY <1>2, <2>0, <3>2
            <4>2. Reachable(f, Elems(todo), done) = Reachable(f, Elems(Tail(todo)), done)
                BY <1>0, <3>2
            <4>3. step(all, todo, done) = all[<<Tail(todo), done>>]
                BY <3>2
            <4>. HIDE DEF step
            <4>. QED  BY <2>0, <4>1, <4>2, <4>3
        <3>3. CASE todo # <<>> /\ Head(todo) \notin done
            <4>. DEFINE a == Refs(f, Head(todo)) \o Tail(todo)
                        b == done \cup {Head(todo)}
            <4>1. a \in Seq(R) /\ b \in SUBSET R
                BY <1>2, <3>3
            <4>2. Reachable(f, Elems(todo), done) = Reachable(f, Elems(a), b)
                BY <3>3, <1>0
            <4>3. step(all, todo, done) = all[<<a, b>>]
                BY <3>3
            <4>. HIDE DEF a, b, step
            <4>. QED  BY <2>0, <4>1, <4>2, <4>3
        <3>. QED  BY <3>1, <3>2, <3>3
    <2>2. all = [p \in D |-> all[p]]
        OBVIOUS
    <2>3. ASSUME NEW p \in D PROVE all[p] = step(all, p[1], p[2])
        <3>1. p[1] \in Seq(R) /\ p[2] \in SUBSET R /\ p = <<p[1], p[2]>>
            OBVIOUS
        <3>. HIDE DEF all, step
        <3>. QED  BY <2>1, <3>1
    <2>. HIDE DEF all, D, step
    <2>. QED  BY <2>2, <2>3
<1>4. is(walk)
    <2>. HIDE DEF all, D, step
    <2>. QED  BY <1>3
<1>. HIDE DEF walk, all
<1>5. ASSUME NEW todo \in Seq(R), NEW done \in SUBSET R
      PROVE  walk[<<todo, done>>] = step(walk, todo, done)
    <2>1. <<todo, done>> \in D /\ <<todo, done>>[1] = todo /\ <<todo, done>>[2] = done
        OBVIOUS
    <2>. HIDE DEF D, step
    <2>. QED  BY <1>4, <2>1
<1>. DEFINE left(todo, done) == 5 * Cardinality(R \ done) + Len(todo)
            bad(n) == \E todo \in Seq(R), done \in SUBSET R :
                        left(todo, done) = n /\ walk[<<todo, done>>] # Reachable(f, Elems(todo), done)
<1>6. ASSUME NEW done \in SUBSET R
      PROVE  /\ Cardinality(R \ done) \in Nat
             /\ \A h \in R \ done : Cardinality(R \ (done \cup {h})) = Cardinality(R \ done) - 1
    <2>1. IsFiniteSet(R)
        BY FiniteReports DEF R
    <2>2. IsFiniteSet(R \ done)
        BY <2>1, FS_Subset
    <2>3. ASSUME NEW h \in R \ done PROVE Cardinality(R \ (done \cup {h})) = Cardinality(R \ done) - 1
        <3>1. R \ (done \cup {h}) = (R \ done) \ {h}
            OBVIOUS
        <3>. DEFINE T == R \ done
        <3>2. IsFiniteSet(T) /\ h \in T /\ R \ (done \cup {h}) = T \ {h}
            BY <2>2, <2>3, <3>1
        <3>. HIDE DEF T
        <3>3. Cardinality(T \ {h}) = Cardinality(T) - 1
            BY <3>2, FS_RemoveElement
        <3>. QED  BY <3>2, <3>3 DEF T
    <2>. QED  BY <2>2, <2>3, FS_CardinalityType
<1>7. \A n \in Nat : ~bad(n)
    <2>. DEFINE S == {n \in Nat : bad(n)}
    <2>. SUFFICES ASSUME S # {} PROVE FALSE
        OBVIOUS
    <2>1. PICK n \in S : \A m \in S : n <= m
        BY LeastNumber
    <2>2. PICK todo \in Seq(R), done \in SUBSET R :
            left(todo, done) = n /\ walk[<<todo, done>>] # Reachable(f, Elems(todo), done)
        BY <2>1
    <2>3. walk[<<todo, done>>] = step(walk, todo, done)
        BY <1>5
    <2>. HIDE DEF bad, left
    <2>4. todo # <<>>
        BY <2>2, <2>3, <1>0
    <2>5. ASSUME NEW a \in Seq(R), NEW b \in SUBSET R, left(a, b) \in Nat, left(a, b) < n
          PROVE  walk[<<a, b>>] = Reachable(f, Elems(a), b)
        <3>1. ~bad(left(a, b))
            BY <2>1, <2>5
        <3>. QED  BY <3>1 DEF bad
    <2>. DEFINE h == Head(todo)
    <2>6. CASE h \in done
        <3>0. /\ Tail(todo) \in Seq(R) /\ Len(Tail(todo)) \in Nat /\ Len(todo) \in Nat
              /\ Len(Tail(todo)) = Len(todo) - 1 /\ Cardinality(R \ done) \in Nat
            BY <1>2, <1>6, <2>4
        <3>1. left(Tail(todo), done) < n /\ left(Tail(todo), done) \in Nat
            BY <2>2, <3>0 DEF left
        <3>2. walk[<<Tail(todo), done>>] = Reachable(f, Elems(Tail(todo)), done)
            BY <2>5, <3>0, <3>1
        <3>. QED  BY <2>2, <2>3, <2>4, <2>6, <3>2, <1>0
    <2>7. CASE h \notin done
        <3>. DEFINE a == Refs(f, h) \o Tail(todo)
                    b == done \cup {h}
        <3>1. a \in Seq(R) /\ b \in SUBSET R /\ Len(a) \in 0 .. Len(todo) + 3 /\ Len(todo) \in Nat
            BY <1>2, <2>4
        <3>2. Cardinality(R \ b) = Cardinality(R \ done) - 1 /\ Cardinality(R \ b) \in Nat
            BY <1>2, <1>6, <2>4, <2>7
        <3>. HIDE DEF a, b
        <3>3. left(a, b) \in Nat /\ left(a, b) < n
            <4>1. ASSUME NEW c \in Nat, NEW l \in Nat, NEW m \in 0 .. l + 3, c - 1 \in Nat
                  PROVE  5 * (c - 1) + m \in Nat /\ 5 * (c - 1) + m < 5 * c + l
                BY <4>1
            <4>2. Cardinality(R \ done) \in Nat
                BY <1>6
            <4>3. left(a, b) \in Nat /\ left(a, b) < left(todo, done)
                BY <3>1, <3>2, <4>1, <4>2 DEF left
            <4>. QED  BY <2>2, <4>3
        <3>4. walk[<<a, b>>] = Reachable(f, Elems(a), b)
            BY <2>5, <3>1, <3>3
        <3>5. walk[<<todo, done>>] = walk[<<a, b>>]
            BY <2>3, <2>4, <2>7 DEF a, b
        <3>6. Reachable(f, Elems(todo), done) = Reachable(f, Elems(a), b)
            BY <2>4, <2>7, <1>0 DEF a, b
        <3>. QED  BY <2>2, <3>4, <3>5, <3>6
    <2>. QED  BY <2>6, <2>7
<1>8. <<base>> \in Seq(R) /\ {} \in SUBSET R /\ Elems(<<base>>) = {base} /\ Len(<<base>>) = 1
    BY DEF R, Elems
<1>9. left(<<base>>, {}) \in Nat
    <2>1. Cardinality(R \ {}) \in Nat
        BY <1>6
    <2>. QED  BY <1>8, <2>1
<1>10. walk[<< <<base>>, {} >>] = Reachable(f, Elems(<<base>>), {})
    <2>. HIDE DEF left
    <2>. QED  BY <1>7, <1>8, <1>9
<1>. QED  BY <1>1, <1>8, <1>10

\* A stream is a report that was sent or received; each names its track first.
IsStream(id) == id[1] \in {"outbound-rtp", "inbound-rtp"}
Complete(f, S) == \A id \in S : Named(f, id) \subseteq S

\* What is reachable from a stream has everything it names, nothing that is not
\* needed, and no other stream.
LEMMA WalkOfStream ==
    ASSUME NEW f \in SenderTracks, NEW base \in ReportIds(f), IsStream(base)
    PROVE  LET W == WalkStats(f, base) IN
           /\ base \in W /\ W \subseteq ReportIds(f) /\ Complete(f, W)
           /\ \A S \in SUBSET ReportIds(f) : base \in S /\ Complete(f, S) => W \subseteq S
           /\ \A id \in W : IsStream(id) => id = base
<1>. DEFINE R == ReportIds(f)
            W == WalkStats(f, base)
<1>1. \A id : id \in W <=> id \in R /\ \A S \in SUBSET R : base \in S /\ Complete(f, S) => id \in S
    BY WalkReaches DEF Reachable, Complete
<1>2. \A id \in R : Named(f, id) \subseteq R
    <2>1. ASSUME NEW id \in R PROVE Named(f, id) \subseteq R
        BY RefsAreReports, ElemsOf DEF Named
    <2>. QED  BY <2>1
<1>. HIDE DEF R, W
<1>3. base \in W /\ W \subseteq R
    BY <1>1 DEF R
<1>4. \A S \in SUBSET R : base \in S /\ Complete(f, S) => W \subseteq S
    BY <1>1
<1>5. Complete(f, W)
    <2>1. ASSUME NEW id \in W, NEW x \in Named(f, id), NEW S \in SUBSET R, base \in S, Complete(f, S)
          PROVE  x \in S
        BY <1>4, <2>1 DEF Complete
    <2>2. ASSUME NEW id \in W, NEW x \in Named(f, id) PROVE x \in W
        <3>1. x \in R
            BY <1>2, <1>3, <2>2
        <3>. QED  BY <1>1, <2>1, <2>2, <3>1
    <2>. QED  BY <2>2 DEF Complete
<1>6. \A id \in W : IsStream(id) => id = base
    <2>. DEFINE E == {id \in R : /\ IsStream(id) => id = base
                                 /\ id[1] = "remote" => base[1] = "outbound-rtp" /\ id[2] = base[2]}
    <2>0. ASSUME NEW id \in ReportIds(f)
          PROVE  \/ id[1] = "track" \/ id = <<"codec">> \/ id = <<"transport">> \/ id = <<"pair">>
                 \/ IsStream(id) \/ (id[1] = "remote" /\ id = <<"remote", id[2]>>)
        <3>1. \/ \E t : id = <<"track", t>>
              \/ \E s : id = <<"outbound-rtp", s>> \/ id = <<"remote", s>> \/ id = <<"inbound-rtp", s>>
              \/ id = <<"codec">> \/ id = <<"transport">> \/ id = <<"pair">>
            BY DEF ReportIds
        <3>. QED  BY <3>1 DEF IsStream
    <2>1. base \in E
        <3>1. base[1] # "remote"
            BY DEF IsStream
        <3>. QED  BY <3>1 DEF R
    <2>2. ASSUME NEW id \in E PROVE Named(f, id) \subseteq E
        <3>1. \/ id[1] = "track" \/ id = <<"codec">> \/ id = <<"transport">> \/ id = <<"pair">>
              \/ id = base \/ (id = <<"remote", base[2]>> /\ base[1] = "outbound-rtp")
            <4>1. \/ id[1] = "track" \/ id = <<"codec">> \/ id = <<"transport">> \/ id = <<"pair">>
                  \/ IsStream(id) \/ (id[1] = "remote" /\ id = <<"remote", id[2]>>)
                BY <2>0 DEF R
            <4>2. (IsStream(id) => id = base) /\ (id[1] = "remote" => base[1] = "outbound-rtp" /\ id[2] = base[2])
                OBVIOUS
            <4>. QED  BY <4>1, <4>2
        <3>2. ASSUME NEW x \in R,
                     \/ \E t : x = <<"track", t>>
                     \/ x = <<"codec">> \/ x = <<"transport">> \/ x = <<"pair">>
                     \/ base[1] = "outbound-rtp" /\ x = <<"remote", base[2]>>
              PROVE  x \in E
            <4>1. ~IsStream(x)
                BY <3>2 DEF IsStream
            <4>2. x[1] = "remote" => base[1] = "outbound-rtp" /\ x[2] = base[2]
                BY <3>2
            <4>. QED  BY <4>1, <4>2
        <3>3. \/ base[1] = "outbound-rtp" /\ base = <<"outbound-rtp", base[2]>>
              \/ base[1] = "inbound-rtp" /\ base = <<"inbound-rtp", base[2]>>
            BY DEF ReportIds, IsStream
        <3>. HIDE DEF E
        <3>8. Named(f, id) \subseteq R
            BY <1>2 DEF E
        <3>4. CASE id[1] = "track" \/ id = <<"codec">>
            <4>1. Refs(f, id) = <<>>
                BY <3>4 DEF Refs
            <4>. QED  BY <4>1 DEF Named, Elems
        <3>5. CASE id = <<"transport">> \/ id = <<"pair">>
            <4>1. \A x \in Named(f, id) : x = <<"pair">> \/ x = <<"transport">>
                BY <3>5 DEF Refs, Named, Elems
            <4>. QED  BY <3>2, <3>8, <4>1
        <3>6. CASE base[1] = "outbound-rtp" /\ (id = base \/ id = <<"remote", base[2]>>)
            <4>1. \A x \in Named(f, id) : \/ x = <<"track", f[base[2]]>> \/ x = <<"remote", base[2]>> \/ x = base
                                          \/ x = <<"codec">> \/ x = <<"transport">>
                <5>1. CASE id = base
                    <6>1. Refs(f, id) = << <<"track", f[base[2]]>>, <<"remote", base[2]>>, <<"codec">>, <<"transport">> >>
                        BY <3>3, <3>6, <5>1 DEF Refs
                    <6>. QED  BY <6>1 DEF Named, Elems
                <5>2. CASE id = <<"remote", base[2]>>
                    <6>1. Refs(f, id) = << <<"outbound-rtp", base[2]>>, <<"codec">> >>
                        BY <5>2 DEF Refs
                    <6>. QED  BY <3>3, <3>6, <6>1 DEF Named, Elems
                <5>. QED  BY <3>6, <5>1, <5>2
            <4>. QED  BY <2>1, <3>2, <3>6, <3>8, <4>1
        <3>7. CASE base[1] = "inbound-rtp" /\ id = base
            <4>1. \A x \in Named(f, id) : x = <<"track", Received[base[2]]>> \/ x = <<"codec">> \/ x = <<"transport">>
                <5>1. Refs(f, id) = << <<"track", Received[base[2]]>>, <<"codec">>, <<"transport">> >>
                    BY <3>3, <3>7 DEF Refs
                <5>. QED  BY <5>1 DEF Named, Elems
            <4>. QED  BY <3>2, <3>8, <4>1
        <3>. QED  BY <3>1, <3>3, <3>4, <3>5, <3>6, <3>7
    <2>. HIDE DEF E
    <2>3. Complete(f, E) /\ E \in SUBSET R
        BY <2>2 DEF Complete, E
    <2>4. W \subseteq E
        BY <1>4, <2>1, <2>3
    <2>. QED  BY <2>4 DEF E
<1>. QED  BY <1>3, <1>4, <1>5, <1>6 DEF R, W

\* What a page may be given: the walks from streams of one track.
Given(f, track, S) ==
    \E bases \in SUBSET {id \in ReportIds(f) : IsStream(id) /\ Refs(f, id)[1] = <<"track", track>>} :
        S = UNION {WalkStats(f, id) : id \in bases}

LEMMA GivenIs ==
    ASSUME NEW f \in SenderTracks, NEW track, NEW S, Given(f, track, S)
    PROVE  LET flows == {id \in S : IsStream(id)} IN
           /\ S \subseteq ReportIds(f) /\ Complete(f, S)
           /\ \A T \in SUBSET ReportIds(f) : flows \subseteq T /\ Complete(f, T) => S \subseteq T
           /\ \A id \in flows : Refs(f, id)[1] = <<"track", track>>
<1>1. PICK bases \in SUBSET {id \in ReportIds(f) : IsStream(id) /\ Refs(f, id)[1] = <<"track", track>>} :
            S = UNION {WalkStats(f, id) : id \in bases}
    BY DEF Given
<1>2. ASSUME NEW id \in bases
      PROVE  /\ id \in ReportIds(f) /\ IsStream(id) /\ Refs(f, id)[1] = <<"track", track>>
             /\ id \in WalkStats(f, id) /\ WalkStats(f, id) \subseteq ReportIds(f)
             /\ Complete(f, WalkStats(f, id))
             /\ \A T \in SUBSET ReportIds(f) : id \in T /\ Complete(f, T) => WalkStats(f, id) \subseteq T
             /\ \A x \in WalkStats(f, id) : IsStream(x) => x = id
    BY WalkOfStream
<1>3. \A x : x \in S <=> \E id \in bases : x \in WalkStats(f, id)
    BY <1>1
<1>4. S \subseteq ReportIds(f) /\ Complete(f, S)
    BY <1>2, <1>3 DEF Complete
<1>5. bases \subseteq {id \in S : IsStream(id)}
    BY <1>2, <1>3
<1>6. ASSUME NEW T \in SUBSET ReportIds(f), bases \subseteq T, Complete(f, T) PROVE S \subseteq T
    BY <1>2, <1>3, <1>6
<1>7. \A x \in S : IsStream(x) => x \in bases
    BY <1>2, <1>3
<1>8. \A x \in S : IsStream(x) => Refs(f, x)[1] = <<"track", track>>
    BY <1>2, <1>7
<1>. QED  BY <1>4, <1>5, <1>6, <1>8

LEMMA FilteredIsGiven ==
    ASSUME NEW f, NEW track
    PROVE  /\ Given(f, track, {})
           /\ \A out \in BOOLEAN : Given(f, track, FilterStats(f, track, out))
           /\ Given(f, track, FilterStats(f, track, TRUE) \cup FilterStats(f, track, FALSE))
<1>. DEFINE B == {id \in ReportIds(f) : IsStream(id) /\ Refs(f, id)[1] = <<"track", track>>}
            O(out) == IF track = NoTrack THEN {} ELSE Roots(f, track, IF out THEN "outbound-rtp" ELSE "inbound-rtp")
<1>1. \A out \in BOOLEAN : O(out) \in SUBSET B
    BY DEF Roots, IsStream
<1>2. \A out \in BOOLEAN : FilterStats(f, track, out) = UNION {WalkStats(f, id) : id \in O(out)}
    BY DEF FilterStats
<1>. HIDE DEF B, O
<1>3. ASSUME NEW S, NEW bases \in SUBSET B, S = UNION {WalkStats(f, id) : id \in bases} PROVE Given(f, track, S)
    BY <1>3 DEF Given, B
<1>4. {} = UNION {WalkStats(f, id) : id \in {}} /\ {} \in SUBSET B
    OBVIOUS
<1>5. /\ O(TRUE) \cup O(FALSE) \in SUBSET B
      /\ FilterStats(f, track, TRUE) \cup FilterStats(f, track, FALSE) =
            UNION {WalkStats(f, id) : id \in O(TRUE) \cup O(FALSE)}
    BY <1>1, <1>2
<1>6. Given(f, track, {})
    BY <1>3, <1>4
<1>7. \A out \in BOOLEAN : Given(f, track, FilterStats(f, track, out))
    BY <1>1, <1>2, <1>3
<1>8. Given(f, track, FilterStats(f, track, TRUE) \cup FilterStats(f, track, FALSE))
    BY <1>3, <1>5
<1>. QED  BY <1>6, <1>7, <1>8

\* A stream whose report is there and has the track is among what is filtered.
LEMMA OwnIsFiltered ==
    ASSUME NEW f \in SenderTracks, NEW x
    PROVE  /\ (x \in StatSenders /\ f[x] # NoTrack) => <<"outbound-rtp", x>> \in FilterStats(f, f[x], TRUE)
           /\ x \in StatReceivers => <<"inbound-rtp", x>> \in FilterStats(f, Received[x], FALSE)
<1>1. ASSUME NEW track, track # NoTrack, NEW out \in BOOLEAN, NEW id,
             id \in Roots(f, track, IF out THEN "outbound-rtp" ELSE "inbound-rtp")
      PROVE  id \in FilterStats(f, track, out)
    <2>1. id \in ReportIds(f) /\ IsStream(id)
        BY <1>1 DEF Roots, IsStream
    <2>2. id \in WalkStats(f, id)
        BY <2>1, WalkOfStream
    <2>. QED  BY <1>1, <2>2 DEF FilterStats
<1>2. ASSUME x \in StatSenders, f[x] # NoTrack PROVE <<"outbound-rtp", x>> \in Roots(f, f[x], "outbound-rtp")
    <2>1. <<"outbound-rtp", x>> \in ReportIds(f)
        BY <1>2 DEF ReportIds, SendersOn
    <2>2. Refs(f, <<"outbound-rtp", x>>)[1] = <<"track", f[x]>>
        BY DEF Refs
    <2>. QED  BY <2>1, <2>2 DEF Roots
<1>3. ASSUME x \in StatReceivers PROVE <<"inbound-rtp", x>> \in Roots(f, Received[x], "inbound-rtp")
    <2>1. <<"inbound-rtp", x>> \in ReportIds(f)
        BY <1>3 DEF ReportIds
    <2>2. Refs(f, <<"inbound-rtp", x>>)[1] = <<"track", Received[x]>>
        BY DEF Refs
    <2>. QED  BY <2>1, <2>2 DEF Roots
<1>4. x \in StatReceivers => Received[x] # NoTrack
    BY StatsAssumption
<1>. QED  BY <1>1, <1>2, <1>3, <1>4
-------------------------------------------------------------------------------
\* The inductive invariant: who was asked about, and the reports that were given.
Queries == [step : {"asked", "taken", "given"}, of : StatSenders \cup StatReceivers, track : AllTracks \cup {NoTrack},
            now : AllTracks \cup {NoTrack}, form : {"promise", "callback"}]

OwnOf(q) == <<IF q.of \in StatSenders THEN "outbound-rtp" ELSE "inbound-rtp", q.of>>

GivenRight(q, f, given, named) ==
    /\ Given(f, q.now, given)
    /\ (q.of \in StatSenders => q.now \in {f[q.of]} \ {NoTrack}) => OwnOf(q) \in given
    /\ q.form = "promise" /\ given # {} => named = "modern"

StatInv ==
    /\ kind \in StatBrowsers
    /\ sends \in SenderTracks /\ snap \in SenderTracks
    /\ query.step \in {"asked", "taken", "given"} =>
            query \in Queries /\ (query.of \notin StatSenders => query.track = Received[query.of])
    /\ query.step = "given" => GivenRight(query, snap, reports, names)

LEMMA StatInvIsRight == StatInv => StatsAreOfTrack
<1>. SUFFICES ASSUME StatInv, query.step = "given" PROVE StatsAreOfTrack
    BY DEF StatsAreOfTrack
<1>1. snap \in SenderTracks /\ Given(snap, query.now, reports)
    BY DEF StatInv, GivenRight
<1>2. /\ reports \subseteq ReportIds(snap) /\ Complete(snap, reports)
      /\ \A T \in SUBSET ReportIds(snap) :
            {id \in reports : IsStream(id)} \subseteq T /\ Complete(snap, T) => reports \subseteq T
      /\ \A id \in {x \in reports : IsStream(x)} : Refs(snap, id)[1] = <<"track", query.now>>
    BY <1>1, GivenIs
<1>3. ASSUME NEW S \in SUBSET ReportIds(snap) PROVE ClosedUnderRefs(S) <=> Complete(snap, S)
    <2>1. \A id \in S : DOMAIN Refs(snap, id) = 1 .. Len(Refs(snap, id))
        BY <1>1, RefsAreReports, LenProperties
    <2>. QED  BY <2>1 DEF ClosedUnderRefs, Complete, Named, Elems
<1>4. {id \in reports : id[1] \in {"outbound-rtp", "inbound-rtp"}} = {id \in reports : IsStream(id)}
    BY DEF IsStream
<1>5. ClosedUnderRefs(reports)
    BY <1>2, <1>3
<1>6. \A S \in SUBSET ReportIds(snap) :
        {id \in reports : id[1] \in {"outbound-rtp", "inbound-rtp"}} \subseteq S /\ ClosedUnderRefs(S) =>
            reports \subseteq S
    BY <1>2, <1>3, <1>4
<1>7. \A id \in {x \in reports : x[1] \in {"outbound-rtp", "inbound-rtp"}} : Refs(snap, id)[1] = <<"track", query.now>>
    BY <1>2, <1>4
<1>8. /\ (query.of \in StatSenders => query.now \in {snap[query.of]} \ {NoTrack}) =>
            <<IF query.of \in StatSenders THEN "outbound-rtp" ELSE "inbound-rtp", query.of>> \in reports
      /\ query.form = "promise" /\ reports # {} => names = "modern"
    BY DEF StatInv, GivenRight, OwnOf
<1>. HIDE DEF ClosedUnderRefs, Refs, ReportIds
<1>. QED  BY <1>5, <1>6, <1>7, <1>8 DEF StatsAreOfTrack

\* A query that starts: of a sender or a receiver, with the track it has.
LEMMA AsksInv ==
    ASSUME StatInv, NEW step \in {"asked", "given"}, NEW x \in StatSenders \cup StatReceivers,
           NEW track \in AllTracks \cup {NoTrack}, NEW form \in {"promise", "callback"},
           Asks(step, x, track, form),
           x \notin StatSenders => track = Received[x], step = "given" => track = NoTrack,
           UNCHANGED <<kind, sends, snap, names>>
    PROVE  StatInv'
<1>1. /\ query' \in Queries /\ query'.step = step /\ query'.of = x /\ query'.track = track /\ query'.now = track
      /\ reports' = {}
    BY DEF Asks, Queries
<1>2. StatReceivers # {} => \A r \in StatReceivers : Received[r] # NoTrack
    BY StatsAssumption
<1>3. step = "given" => x \in StatSenders
    BY <1>2
<1>4. step = "given" => GivenRight(query', snap', reports', names')
    BY <1>1, <1>3, FilteredIsGiven DEF GivenRight
<1>. QED  BY <1>1, <1>4 DEF StatInv

LEMMA StatsReplyInv ==
    ASSUME StatInv, StatsReply
    PROVE  StatInv'
<1>. DEFINE x == query.of
            out == x \in StatSenders
            track == IF kind # "chrome" THEN query.track ELSE IF out THEN sends[x] ELSE Received[x]
<1>1. /\ query \in Queries /\ query.step = "taken" /\ (~out => query.track = Received[x])
      /\ x \in StatSenders \cup StatReceivers /\ kind \in StatBrowsers
      /\ sends \in SenderTracks /\ snap \in SenderTracks /\ UNCHANGED <<kind, sends, snap>>
      /\ names' = TypeNames(query.form)
    BY DEF StatsReply, StatInv, Queries
<1>2. track \in AllTracks \cup {NoTrack} /\ (~out => track = Received[x])
    BY <1>1 DEF Queries, SenderTracks, AllTracks
<1>3. \/ query' = [step |-> "refused", of |-> track]
      \/ /\ query' = [query EXCEPT !.step = "given", !.now = track]
         /\ reports' = IF kind = "chrome" THEN FilterStats(snap, track, out)
                       ELSE FilterStats(snap, track, TRUE) \cup FilterStats(snap, track, FALSE)
    BY DEF StatsReply
<1>. HIDE DEF track
<1>4. CASE query' = [step |-> "refused", of |-> track]
    BY <1>1, <1>4 DEF StatInv
<1>5. CASE /\ query' = [query EXCEPT !.step = "given", !.now = track]
           /\ reports' = IF kind = "chrome" THEN FilterStats(snap, track, out)
                         ELSE FilterStats(snap, track, TRUE) \cup FilterStats(snap, track, FALSE)
    <2>1. /\ query' \in Queries /\ query'.step = "given" /\ query'.of = x /\ query'.now = track
          /\ query'.track = query.track /\ query'.form = query.form
        BY <1>1, <1>2, <1>5 DEF Queries
    <2>2. \/ reports' = FilterStats(snap, track, TRUE) /\ out
          \/ reports' = FilterStats(snap, track, FALSE) /\ ~out
          \/ reports' = FilterStats(snap, track, TRUE) \cup FilterStats(snap, track, FALSE)
        <3>1. out \in BOOLEAN /\ (out => out = TRUE) /\ (~out => out = FALSE)
            OBVIOUS
        <3>. HIDE DEF out
        <3>. QED  BY <1>5, <3>1
    <2>3. Given(snap, track, reports')
        <3>1. TRUE \in BOOLEAN /\ FALSE \in BOOLEAN
            OBVIOUS
        <3>. HIDE DEF out
        <3>. QED  BY <2>2, <3>1, FilteredIsGiven
    <2>4. ASSUME out => track = snap[x] /\ track # NoTrack
          PROVE  <<IF out THEN "outbound-rtp" ELSE "inbound-rtp", x>> \in reports'
        <3>1. CASE out
            <4>1. <<"outbound-rtp", x>> \in FilterStats(snap, track, TRUE)
                BY <1>1, <2>4, <3>1, OwnIsFiltered
            <4>. QED  BY <2>2, <3>1, <4>1
        <3>2. CASE ~out
            <4>1. <<"inbound-rtp", x>> \in FilterStats(snap, track, FALSE)
                BY <1>1, <1>2, <3>2, OwnIsFiltered
            <4>. QED  BY <2>2, <3>2, <4>1
        <3>. QED  BY <3>1, <3>2
    <2>5. query.form = "promise" => names' = "modern"
        BY <1>1 DEF TypeNames
    <2>6. GivenRight(query', snap', reports', names')
        BY <1>1, <2>1, <2>3, <2>4, <2>5 DEF GivenRight, OwnOf
    <2>. QED  BY <1>1, <2>1, <2>6 DEF StatInv
<1>. QED  BY <1>3, <1>4, <1>5

LEMMA StatStep ==
    ASSUME StatInv, StatNext
    PROVE  StatInv'
<1>1. ASSUME NEW s \in StatSenders, NEW t \in AllTracks \cup {NoTrack}, AddTrackBound(s, t) \/ ReplaceTrack(s, t)
      PROVE  StatInv'
    <2>1. sends' \in SenderTracks /\ UNCHANGED <<kind, query, snap, reports, names>>
        BY <1>1 DEF AddTrackBound, ReplaceTrack, StatInv, SenderTracks
    <2>. QED  BY <2>1 DEF StatInv
<1>2. ASSUME NEW some, Bind(some) PROVE StatInv'
    BY <1>2 DEF Bind, StatInv
<1>3. ASSUME NEW x \in StatSenders \cup StatReceivers, GetStatsOf(x) PROVE StatInv'
    <2>. DEFINE track == IF x \in StatSenders THEN sends[x] ELSE Received[x]
    <2>1. track \in AllTracks \cup {NoTrack}
        BY DEF StatInv, SenderTracks, AllTracks
    <2>2. PICK step \in {"asked", "given"} :
            Asks(step, x, track, "promise") /\ (step = "given" => track = NoTrack)
        BY <1>3 DEF GetStatsOf
    <2>3. UNCHANGED <<kind, sends, snap, names>> /\ (x \notin StatSenders => track = Received[x])
        BY <1>3 DEF GetStatsOf
    <2>. HIDE DEF track
    <2>. QED  BY <2>1, <2>2, <2>3, AsksInv
<1>4. ASSUME NEW t \in AllTracks, NEW form \in {"promise", "callback"}, NEW x \in Having(t), Asks("asked", x, t, form),
             UNCHANGED <<kind, sends, snap, names>>
      PROVE  StatInv'
    <2>1. x \in StatSenders \cup StatReceivers /\ (x \notin StatSenders => t = Received[x])
        BY <1>4 DEF Having
    <2>. QED  BY <1>4, <2>1, AsksInv
<1>5. ASSUME NEW t \in AllTracks, GetStatsOfTrack(t) PROVE StatInv'
    <2>1. CASE \E x \in Having(t) : Asks("asked", x, t, "promise")
        BY <1>4, <1>5, <2>1 DEF GetStatsOfTrack
    <2>2. CASE query' = [step |-> "refused", of |-> t]
        BY <1>5, <2>2 DEF GetStatsOfTrack, StatInv
    <2>. QED  BY <1>5, <2>1, <2>2 DEF GetStatsOfTrack
<1>6. ASSUME NEW t \in AllTracks, NEW form \in {"promise", "callback"}, SelectStats(t, form) PROVE StatInv'
    BY <1>4, <1>6 DEF SelectStats
<1>7. CASE TakeStats
    <2>1. /\ query \in Queries /\ (query.of \notin StatSenders => query.track = Received[query.of])
          /\ query' = [query EXCEPT !.step = "taken"]
        BY <1>7 DEF TakeStats, StatInv
    <2>2. /\ query' \in Queries /\ query'.step = "taken" /\ query'.of = query.of /\ query'.track = query.track
        BY <2>1 DEF Queries
    <2>. QED  BY <1>7, <2>1, <2>2 DEF TakeStats, StatInv
<1>. QED
    BY <1>1, <1>2, <1>3, <1>5, <1>6, <1>7, StatsReplyInv DEF StatNext, AllTracks

\* Whatever tracks are sent, received and replaced, and whenever it asks, a page
\* is given the complete statistics of the sender or receiver it asked about and
\* no more than those, in Chrome before 67 and Firefox before 53.
THEOREM StatsAreRight == StatSpec => []StatsAreOfTrack
<1>1. StatInit => StatInv
    BY DEF StatInit, StatInv, NoQuery, SenderTracks
<1>2. StatInv /\ UNCHANGED statVars => StatInv'
    BY DEF statVars, StatInv
<1>. QED  BY <1>1, <1>2, StatStep, StatInvIsRight, PTL DEF StatSpec

-------------------------------------------------------------------------------
(***************************************************************************)
(* Descriptions.  A candidate is one line of any number of tokens: nine    *)
(* fields, then extensions in pairs of a name and a value, of which the    *)
(* reader takes the last of each name.  The writer lays down at most four  *)
(* pairs; PairExtends says what each does to the values that are read, so  *)
(* that the written line says what the first one said.  The lines of a     *)
(* media section are taken one at a time (LinesSurvive): how they are      *)
(* selected and joined is left to TLC.                                     *)
(***************************************************************************)
SdpSpec == SdpInit /\ [][SdpNext]_sdpVars

\* What a candidate line says of one of its extensions, or Undefined.
NamesOf(line) == {k \in 10..Len(line) : k % 2 = 0}
PlacesOf(line, w) == {k \in NamesOf(line) : line[k] = w}
ValueOf(line, w) ==
  IF PlacesOf(line, w) = {} THEN Undefined
  ELSE Token(line, (CHOOSE k \in PlacesOf(line, w) : \A j \in PlacesOf(line, w) : j <= k) + 1)

LEMMA ParsedCandidate ==
  ASSUME NEW line
  PROVE  /\ ParseCandidate(line).foundation = line[2]
         /\ ParseCandidate(line).component =
              CASE line[3] = "1" -> "rtp" [] line[3] = "2" -> "rtcp" [] OTHER -> line[3]
         /\ ParseCandidate(line).protocol = Lower(line[4])
         /\ ParseCandidate(line).priority = line[5]
         /\ ParseCandidate(line).address = line[6] /\ ParseCandidate(line).port = line[7]
         /\ ParseCandidate(line).type = line[9]
         /\ ParseCandidate(line).relatedAddress = ValueOf(line, "raddr")
         /\ ParseCandidate(line).relatedPort = ValueOf(line, "rport")
         /\ ParseCandidate(line).tcpType = ValueOf(line, "tcptype")
         /\ ParseCandidate(line).ufrag = ValueOf(line, "ufrag")
BY DEF ParseCandidate, ValueOf, PlacesOf, NamesOf

LEMMA GreatestNumber ==
  ASSUME NEW m \in Nat, NEW S, S \subseteq 1..m, S # {}
  PROVE  \E n \in S : \A k \in S : k <= n
<1>. DEFINE down == {m - k : k \in S}
<1>1. down # {} /\ down \subseteq Nat
  <2>1. ASSUME NEW k \in S PROVE m - k \in Nat
    BY <2>1
  <2>. QED  BY <2>1
<1>2. PICK d \in down : \A e \in down : d <= e
  BY <1>1, LeastNumber
<1>3. PICK n \in S : d = m - n
  BY <1>2
<1>4. ASSUME NEW k \in S PROVE k <= n
  <2>1. m - n <= m - k
    BY <1>2, <1>3, <1>4
  <2>. QED  BY <1>3, <1>4, <2>1
<1>. QED  BY <1>4

LEMMA Parity ==
  ASSUME NEW m \in Nat, m % 2 = 1
  PROVE  (m + 1) % 2 = 0 /\ (m + 2) % 2 = 1
OBVIOUS

\* A line that may be followed by extensions, and begins as s0 does.
Extends(S, s, s0) ==
  /\ s \in Seq(S) /\ Len(s) >= 9 /\ Len(s) % 2 = 1
  /\ \A k \in 1..9 : s[k] = s0[k]
Pair(s, n, v) == s \o <<n, v>>

\* A name and its value after a line: the value of that name, whatever came before.
LEMMA PairExtends ==
  ASSUME NEW S, NEW s0, NEW s, Extends(S, s, s0), NEW n \in S, NEW v \in S, NEW t, t = Pair(s, n, v)
  PROVE  /\ Extends(S, t, s0)
         /\ \A w : ValueOf(t, w) = IF w = n THEN v ELSE ValueOf(s, w)
<1>0. /\ s \in Seq(S) /\ Len(s) >= 9 /\ Len(s) % 2 = 1 /\ \A k \in 1..9 : s[k] = s0[k]
  BY DEF Extends
<1>t. s \in Seq(S) /\ t = s \o <<n, v>>
  BY DEF Extends, Pair
<1>1. /\ Len(s) \in Nat /\ <<n, v>> \in Seq(S) /\ Len(<<n, v>>) = 2
      /\ <<n, v>>[1] = n /\ <<n, v>>[2] = v
  BY <1>0, LenProperties
<1>2. /\ t \in Seq(S) /\ Len(t) = Len(s) + 2
      /\ \A k \in 1..Len(s) + 2 : t[k] = IF k <= Len(s) THEN s[k] ELSE <<n, v>>[k - Len(s)]
  BY <1>t, <1>1, ConcatProperties
<1>3. PICK m : m = Len(s)
  OBVIOUS
<1>4. /\ m \in Nat /\ m >= 9 /\ m % 2 = 1 /\ (m + 1) % 2 = 0 /\ (m + 2) % 2 = 1
      /\ Len(t) = m + 2 /\ t[m + 1] = n /\ t[m + 2] = v
      /\ \A k \in 1..m : t[k] = s[k]
  <2>1. m \in Nat /\ m >= 9 /\ m % 2 = 1 /\ (m + 1) % 2 = 0 /\ (m + 2) % 2 = 1
    <3>1. m \in Nat /\ m >= 9 /\ m % 2 = 1
      BY <1>0, <1>1, <1>3
    <3>. QED  BY <3>1, Parity
  <2>2. m + 1 \in 1..Len(s) + 2 /\ m + 2 \in 1..Len(s) + 2 /\ (m + 1) - Len(s) = 1 /\ (m + 2) - Len(s) = 2
        /\ ~(m + 1 <= Len(s)) /\ ~(m + 2 <= Len(s))
    BY <1>1, <1>3
  <2>3. t[m + 1] = n /\ t[m + 2] = v
    BY <1>1, <1>2, <2>2
  <2>. QED  BY <1>1, <1>2, <1>3, <2>1, <2>3
<1>n. m \in Nat /\ m >= 9
  BY <1>4
<1>5. \A k : k \in NamesOf(t) <=> k \in NamesOf(s) \/ k = m + 1
  <2>1. NamesOf(t) = {k \in 10..m + 2 : k % 2 = 0} /\ NamesOf(s) = {k \in 10..m : k % 2 = 0}
    BY <1>3, <1>4 DEF NamesOf
  <2>2. \A k \in 10..m + 2 : k \in 10..m \/ k = m + 1 \/ k = m + 2
    BY <1>4
  <2>3. (m + 2) % 2 # 0 /\ m + 1 \in 10..m + 2 /\ \A k \in 10..m : k \in 10..m + 2
    BY <1>4
  <2>. QED  BY <2>1, <2>2, <2>3, <1>4
<1>6. \A k \in NamesOf(s) : k \in Nat /\ k >= 10 /\ k + 1 <= m /\ t[k] = s[k] /\ t[k + 1] = s[k + 1]
  <2>. SUFFICES ASSUME NEW k \in NamesOf(s)
                PROVE  k \in Nat /\ k >= 10 /\ k + 1 <= m /\ t[k] = s[k] /\ t[k + 1] = s[k + 1]
    OBVIOUS
  <2>1. k \in 10..m /\ k % 2 = 0
    BY <1>3 DEF NamesOf
  <2>2. k \in Nat /\ k >= 10 /\ k <= m /\ k # m
    <3>1. k \in Nat /\ k >= 10 /\ k <= m
      BY <2>1, <1>n
    <3>2. k # m
      BY <2>1, <1>4
    <3>. QED  BY <3>1, <3>2
  <2>3. k \in 1..m /\ k + 1 \in 1..m /\ k + 1 <= m /\ t[k] = s[k] /\ t[k + 1] = s[k + 1]
    <3>1. k \in 1..m /\ k + 1 \in 1..m /\ k + 1 <= m
      BY <2>2, <1>n
    <3>2. \A j \in 1..m : t[j] = s[j]
      BY <1>4
    <3>. QED  BY <3>1, <3>2
  <2>. QED  BY <2>2, <2>3
<1>7. ASSUME NEW w, w # n PROVE ValueOf(t, w) = ValueOf(s, w)
  <2>1. PlacesOf(t, w) = PlacesOf(s, w)
    BY <1>4, <1>5, <1>6, <1>7 DEF PlacesOf
  <2>2. CASE PlacesOf(s, w) = {}
    BY <2>1, <2>2 DEF ValueOf
  <2>3. CASE PlacesOf(s, w) # {}
    <3>. DEFINE z == CHOOSE k \in PlacesOf(s, w) : \A j \in PlacesOf(s, w) : j <= k
    <3>1. z \in PlacesOf(s, w)
      <4>1. PlacesOf(s, w) \subseteq 1..m
        BY <1>6, <1>4 DEF PlacesOf
      <4>. QED  BY <2>3, <4>1, <1>4, GreatestNumber
    <3>. HIDE DEF z
    <3>2. Token(t, z + 1) = Token(s, z + 1)
      BY <1>3, <1>4, <1>6, <3>1 DEF Token, PlacesOf
    <3>. QED  BY <2>1, <2>3, <3>2 DEF ValueOf, z
  <2>. QED  BY <2>2, <2>3
<1>8. ValueOf(t, n) = v
  <2>0. \A k \in PlacesOf(t, n) : k \in NamesOf(s) \/ k = m + 1
    BY <1>5 DEF PlacesOf
  <2>1. m + 1 \in PlacesOf(t, n)
    BY <1>4, <1>5 DEF PlacesOf
  <2>2. \A k \in PlacesOf(t, n) : k \in Nat /\ k <= m + 1
    <3>. SUFFICES ASSUME NEW k \in PlacesOf(t, n) PROVE k \in Nat /\ k <= m + 1
      OBVIOUS
    <3>1. CASE k \in NamesOf(s)
      <4>1. k \in Nat /\ k + 1 <= m
        BY <3>1, <1>6
      <4>. QED  BY <4>1, <1>n
    <3>2. CASE k = m + 1
      BY <3>2, <1>n
    <3>. QED  BY <2>0, <3>1, <3>2
  <2>3. (CHOOSE k \in PlacesOf(t, n) : \A j \in PlacesOf(t, n) : j <= k) = m + 1
    <3>1. \A k \in PlacesOf(t, n) : (\A j \in PlacesOf(t, n) : j <= k) => k = m + 1
      <4>. SUFFICES ASSUME NEW k \in PlacesOf(t, n), \A j \in PlacesOf(t, n) : j <= k PROVE k = m + 1
        OBVIOUS
      <4>1. k \in Nat /\ k <= m + 1 /\ m + 1 <= k
        BY <2>1, <2>2
      <4>. QED  BY <4>1, <1>n
    <3>. QED  BY <2>1, <2>2, <3>1
  <2>4. Token(t, m + 2) = v
    BY <1>4 DEF Token
  <2>5. (m + 1) + 1 = m + 2
    BY <1>4
  <2>. QED  BY <2>1, <2>3, <2>4, <2>5 DEF ValueOf
<1>9. Len(t) >= 9 /\ Len(t) % 2 = 1 /\ \A k \in 1..9 : t[k] = s[k]
  <2>1. \A k \in 1..9 : k \in 1..m
    BY <1>n
  <2>2. \A k \in 1..m : t[k] = s[k]
    BY <1>4
  <2>3. Len(t) = m + 2 /\ (m + 2) % 2 = 1 /\ m + 2 >= 9
    BY <1>4
  <2>. QED  BY <2>1, <2>2, <2>3
<1>. QED  BY <1>0, <1>2, <1>7, <1>8, <1>9 DEF Extends

\* The first nine tokens have no extensions.
LEMMA NoExtensions ==
  ASSUME NEW s, Len(s) = 9
  PROVE  \A w : ValueOf(s, w) = Undefined
<1>1. NamesOf(s) = {}
  BY DEF NamesOf
<1>. QED  BY <1>1 DEF ValueOf, PlacesOf

LEMMA CaseWords ==
  ASSUME NEW w
  PROVE  Lower(Upper(Lower(w))) = Lower(w)
<1>1. /\ \A p, q \in Cases : p[1] = q[1] \/ p[2] = q[2] => p = q
      /\ \A p, q \in Cases : p[1] # q[2]
  BY DEF Cases
<1>2. CASE \E p \in Cases : p[2] = w
  <2>1. PICK p \in Cases : p[2] = w
    BY <1>2
  <2>2. Lower(w) = p[1]
    BY <1>1, <2>1 DEF Lower
  <2>3. Upper(p[1]) = p[2]
    BY <1>1, <2>1 DEF Upper
  <2>. QED  BY <2>1, <2>2, <2>3
<1>3. CASE ~ \E p \in Cases : p[2] = w
  <2>1. Lower(w) = w
    BY <1>3 DEF Lower
  <2>2. CASE \E p \in Cases : p[1] = w
    <3>1. PICK p \in Cases : p[1] = w
      BY <2>2
    <3>2. Upper(w) = p[2]
      BY <1>1, <3>1 DEF Upper
    <3>3. Lower(p[2]) = p[1]
      BY <1>1, <3>1 DEF Lower
    <3>. QED  BY <2>1, <3>1, <3>2, <3>3
  <2>3. CASE ~ \E p \in Cases : p[1] = w
    BY <2>1, <2>3 DEF Upper
  <2>. QED  BY <2>2, <2>3
<1>. QED  BY <1>2, <1>3

Pairs(s, a, b, c, d) == s \o <<a, b, c, d>>

LEMMA TwoPairs ==
  ASSUME NEW S, NEW s \in Seq(S), NEW a \in S, NEW b \in S, NEW c \in S, NEW d \in S
  PROVE  Pairs(s, a, b, c, d) = Pair(Pair(s, a, b), c, d)
<1>1. <<a, b>> \in Seq(S) /\ <<c, d>> \in Seq(S) /\ <<a, b, c, d>> = <<a, b>> \o <<c, d>>
  OBVIOUS
<1>2. s \o (<<a, b>> \o <<c, d>>) = (s \o <<a, b>>) \o <<c, d>>
  BY <1>1, ConcatAssociative
<1>. QED  BY <1>1, <1>2 DEF Pair, Pairs

LEMMA NothingMore == ASSUME NEW S, NEW s0, NEW s, Extends(S, s, s0) PROVE s \o <<>> = s
BY DEF Extends

\* What is written of a candidate, token by token and extension by extension.
LEMMA WrittenCandidate ==
  ASSUME NEW c
  PROVE  \E t :
    /\ t = WriteCandidate(c) /\ (\E S : t \in Seq(S)) /\ Len(t) >= 9
    /\ t[1] = "candidate" /\ t[2] = c.foundation
    /\ t[3] = (CASE c.component = "rtp" -> "1" [] c.component = "rtcp" -> "2" [] OTHER -> c.component)
    /\ t[4] = Upper(c.protocol) /\ t[5] = c.priority /\ t[6] = c.address /\ t[7] = c.port
    /\ t[9] = c.type
    /\ LET based == c.type # "host" /\ c.relatedAddress # Undefined /\ Truthy(c.relatedPort)
       IN /\ ValueOf(t, "raddr") = IF based THEN c.relatedAddress ELSE Undefined
          /\ ValueOf(t, "rport") = IF based THEN c.relatedPort ELSE Undefined
    /\ ValueOf(t, "tcptype") = IF c.protocol = "tcp" THEN c.tcpType ELSE Undefined
    /\ ValueOf(t, "ufrag") = c.ufrag
<1>1. PICK comp : comp = CASE c.component = "rtp" -> "1" [] c.component = "rtcp" -> "2" [] OTHER -> c.component
  OBVIOUS
<1>2. PICK based \in BOOLEAN : based = (c.type # "host" /\ c.relatedAddress # Undefined /\ Truthy(c.relatedPort))
  OBVIOUS
<1>3. PICK s : s = <<"candidate", c.foundation, comp, Upper(c.protocol), c.priority, c.address,
                     c.port, "typ", c.type>>
  OBVIOUS
<1>4. PICK S : S = {"candidate", c.foundation, comp, Upper(c.protocol), c.priority, c.address,
                    c.port, "typ", c.type, "raddr", c.relatedAddress, "rport", c.relatedPort,
                    "tcptype", c.tcpType, "ufrag", c.ufrag}
  OBVIOUS
<1>5. /\ "raddr" \in S /\ c.relatedAddress \in S /\ "rport" \in S /\ c.relatedPort \in S
      /\ "tcptype" \in S /\ c.tcpType \in S /\ "ufrag" \in S /\ c.ufrag \in S
  BY <1>4
<1>6. /\ s[1] = "candidate" /\ s[2] = c.foundation /\ s[3] = comp /\ s[4] = Upper(c.protocol)
      /\ s[5] = c.priority /\ s[6] = c.address /\ s[7] = c.port /\ s[9] = c.type
  BY <1>3
<1>7. Extends(S, s, s) /\ \A w : ValueOf(s, w) = Undefined
  <2>1. s \in Seq(S) /\ Len(s) = 9
    BY <1>3, <1>4
  <2>. QED  BY <2>1, NoExtensions DEF Extends
<1>8. PICK t1 : t1 = s \o (IF based THEN <<"raddr", c.relatedAddress, "rport", c.relatedPort>> ELSE <<>>)
  OBVIOUS
<1>9. PICK t2 : t2 = t1 \o (IF c.tcpType # Undefined /\ c.protocol = "tcp" THEN <<"tcptype", c.tcpType>> ELSE <<>>)
  OBVIOUS
<1>10. PICK t3 : t3 = t2 \o (IF c.ufrag # Undefined THEN <<"ufrag", c.ufrag>> ELSE <<>>)
  OBVIOUS
<1>11. t3 = WriteCandidate(c)
  BY <1>1, <1>2, <1>3, <1>8, <1>9, <1>10 DEF WriteCandidate
<1>12. /\ Extends(S, t1, s)
       /\ \A w : ValueOf(t1, w) = IF based /\ w = "raddr" THEN c.relatedAddress
                                  ELSE IF based /\ w = "rport" THEN c.relatedPort ELSE Undefined
  <2>1. CASE ~based
    <3>1. t1 = s
      BY <1>7, <1>8, <2>1, NothingMore
    <3>. QED  BY <1>7, <2>1, <3>1
  <2>2. CASE based
    <3>1. PICK u : u = Pair(s, "raddr", c.relatedAddress)
      OBVIOUS
    <3>2. t1 = Pair(u, "rport", c.relatedPort)
      <4>1. s \in Seq(S) /\ t1 = Pairs(s, "raddr", c.relatedAddress, "rport", c.relatedPort)
        BY <1>7, <1>8, <2>2 DEF Extends, Pairs
      <4>2. "raddr" \in S /\ c.relatedAddress \in S /\ "rport" \in S /\ c.relatedPort \in S
        BY <1>5
      <4>. QED  BY <4>1, <4>2, <3>1, TwoPairs
    <3>3. Extends(S, u, s) /\ \A w : ValueOf(u, w) = IF w = "raddr" THEN c.relatedAddress ELSE ValueOf(s, w)
      <4>1. Extends(S, s, s)
        BY <1>7
      <4>2. "raddr" \in S /\ c.relatedAddress \in S
        BY <1>5
      <4>3. Extends(S, u, s)
        BY <4>1, <4>2, <3>1, PairExtends
      <4>4. \A w : ValueOf(u, w) = IF w = "raddr" THEN c.relatedAddress ELSE ValueOf(s, w)
        BY <4>1, <4>2, <3>1, PairExtends
      <4>. QED  BY <4>3, <4>4
    <3>4. Extends(S, t1, s) /\ \A w : ValueOf(t1, w) = IF w = "rport" THEN c.relatedPort ELSE ValueOf(u, w)
      <4>1. Extends(S, u, s)
        BY <3>3
      <4>2. "rport" \in S /\ c.relatedPort \in S
        BY <1>5
      <4>3. Extends(S, t1, s)
        BY <4>1, <4>2, <3>2, PairExtends
      <4>4. \A w : ValueOf(t1, w) = IF w = "rport" THEN c.relatedPort ELSE ValueOf(u, w)
        BY <4>1, <4>2, <3>2, PairExtends
      <4>. QED  BY <4>3, <4>4
    <3>. QED  BY <1>7, <2>2, <3>3, <3>4
  <2>. QED  BY <2>1, <2>2
<1>13. /\ Extends(S, t2, s)
       /\ \A w : ValueOf(t2, w) = IF w = "tcptype" /\ c.protocol = "tcp" /\ c.tcpType # Undefined
                                  THEN c.tcpType ELSE ValueOf(t1, w)
  <2>1. CASE ~(c.tcpType # Undefined /\ c.protocol = "tcp")
    <3>1. t2 = t1
      BY <1>9, <1>12, <2>1, NothingMore
    <3>. QED  BY <1>12, <2>1, <3>1
  <2>2. CASE c.tcpType # Undefined /\ c.protocol = "tcp"
    <3>1. t2 = Pair(t1, "tcptype", c.tcpType)
      BY <1>9, <2>2 DEF Pair
    <3>2. Extends(S, t2, s) /\ \A w : ValueOf(t2, w) = IF w = "tcptype" THEN c.tcpType ELSE ValueOf(t1, w)
      <4>1. Extends(S, t1, s)
        BY <1>12
      <4>2. "tcptype" \in S /\ c.tcpType \in S
        BY <1>5
      <4>3. Extends(S, t2, s)
        BY <4>1, <4>2, <3>1, PairExtends
      <4>4. \A w : ValueOf(t2, w) = IF w = "tcptype" THEN c.tcpType ELSE ValueOf(t1, w)
        BY <4>1, <4>2, <3>1, PairExtends
      <4>. QED  BY <4>3, <4>4
    <3>. QED  BY <2>2, <3>2
  <2>. QED  BY <2>1, <2>2
<1>14. /\ Extends(S, t3, s)
       /\ \A w : ValueOf(t3, w) = IF w = "ufrag" /\ c.ufrag # Undefined THEN c.ufrag ELSE ValueOf(t2, w)
  <2>1. CASE c.ufrag = Undefined
    <3>1. t3 = t2
      BY <1>10, <1>13, <2>1, NothingMore
    <3>. QED  BY <1>13, <2>1, <3>1
  <2>2. CASE c.ufrag # Undefined
    <3>1. t3 = Pair(t2, "ufrag", c.ufrag)
      BY <1>10, <2>2 DEF Pair
    <3>2. Extends(S, t3, s) /\ \A w : ValueOf(t3, w) = IF w = "ufrag" THEN c.ufrag ELSE ValueOf(t2, w)
      <4>1. Extends(S, t2, s)
        BY <1>13
      <4>2. "ufrag" \in S /\ c.ufrag \in S
        BY <1>5
      <4>3. Extends(S, t3, s)
        BY <4>1, <4>2, <3>1, PairExtends
      <4>4. \A w : ValueOf(t3, w) = IF w = "ufrag" THEN c.ufrag ELSE ValueOf(t2, w)
        BY <4>1, <4>2, <3>1, PairExtends
      <4>. QED  BY <4>3, <4>4
    <3>. QED  BY <2>2, <3>2
  <2>. QED  BY <2>1, <2>2
<1>15. /\ ValueOf(t3, "raddr") = IF based THEN c.relatedAddress ELSE Undefined
       /\ ValueOf(t3, "rport") = IF based THEN c.relatedPort ELSE Undefined
       /\ ValueOf(t3, "tcptype") = IF c.protocol = "tcp" THEN c.tcpType ELSE Undefined
       /\ ValueOf(t3, "ufrag") = c.ufrag
  BY <1>12, <1>13, <1>14
<1>16. /\ t3[1] = "candidate" /\ t3[2] = c.foundation /\ t3[3] = comp /\ t3[4] = Upper(c.protocol)
       /\ t3[5] = c.priority /\ t3[6] = c.address /\ t3[7] = c.port /\ t3[9] = c.type
  <2>1. \A k \in 1..9 : t3[k] = s[k]
    BY <1>14 DEF Extends
  <2>. QED  BY <1>6, <2>1
<1>17. (\E T : t3 \in Seq(T)) /\ Len(t3) >= 9
  BY <1>14 DEF Extends
<1>. QED  BY <1>1, <1>2, <1>11, <1>15, <1>16, <1>17

CandidateLine(line) == (\E S : line \in Seq(S)) /\ Len(line) >= 9 /\ line[1] = "candidate"

\* Candidates that differ in what is overwritten.
LEMMA Overwritten ==
  ASSUME NEW c, NEW d, DOMAIN c = DOMAIN d, NEW o, NEW ra, NEW rp, NEW tt,
         \A k \in DOMAIN c : k \in {"others", "relatedAddress", "relatedPort", "tcpType"} \/ c[k] = d[k]
  PROVE  [c EXCEPT !.others = o, !.relatedAddress = ra, !.relatedPort = rp, !.tcpType = tt]
           = [d EXCEPT !.others = o, !.relatedAddress = ra, !.relatedPort = rp, !.tcpType = tt]
BY Zenon

\* A candidate that is read and written says what it said.
LEMMA CandidateRewritten ==
  ASSUME NEW line, CandidateLine(line)
  PROVE  /\ CandidateLine(WriteCandidate(ParseCandidate(line)))
         /\ CandidateSays(WriteCandidate(ParseCandidate(line))) = CandidateSays(line)
<1>1. PICK c : c = ParseCandidate(line)
  OBVIOUS
<1>2. PICK t :
    /\ t = WriteCandidate(c) /\ (\E S : t \in Seq(S)) /\ Len(t) >= 9
    /\ t[1] = "candidate" /\ t[2] = c.foundation
    /\ t[3] = (CASE c.component = "rtp" -> "1" [] c.component = "rtcp" -> "2" [] OTHER -> c.component)
    /\ t[4] = Upper(c.protocol) /\ t[5] = c.priority /\ t[6] = c.address /\ t[7] = c.port
    /\ t[9] = c.type
    /\ LET based == c.type # "host" /\ c.relatedAddress # Undefined /\ Truthy(c.relatedPort)
       IN /\ ValueOf(t, "raddr") = IF based THEN c.relatedAddress ELSE Undefined
          /\ ValueOf(t, "rport") = IF based THEN c.relatedPort ELSE Undefined
    /\ ValueOf(t, "tcptype") = IF c.protocol = "tcp" THEN c.tcpType ELSE Undefined
    /\ ValueOf(t, "ufrag") = c.ufrag
  BY WrittenCandidate
<1>3. PICK d : d = ParseCandidate(t)
  OBVIOUS
<1>4. /\ d.foundation = c.foundation /\ d.component = c.component /\ d.protocol = c.protocol
      /\ d.priority = c.priority /\ d.address = c.address /\ d.port = c.port /\ d.type = c.type
      /\ d.ufrag = c.ufrag
  <2>1. d.component = c.component
    BY <1>1, <1>2, <1>3, ParsedCandidate
  <2>2. d.protocol = c.protocol
    BY <1>1, <1>2, <1>3, ParsedCandidate, CaseWords
  <2>. QED  BY <2>1, <2>2, <1>2, <1>3, ParsedCandidate
<1>5. /\ d.relatedAddress = ValueOf(t, "raddr") /\ d.relatedPort = ValueOf(t, "rport")
      /\ d.tcpType = ValueOf(t, "tcptype")
  BY <1>3, ParsedCandidate
<1>6. PICK based \in BOOLEAN : based = (c.type # "host" /\ Truthy(c.relatedPort) /\ c.relatedAddress # Undefined)
  OBVIOUS
<1>7. PICK ra, rp, tt :
        /\ ra = IF based THEN c.relatedAddress ELSE Undefined
        /\ rp = IF based THEN c.relatedPort ELSE Undefined
        /\ tt = IF c.protocol = "tcp" THEN c.tcpType ELSE Undefined
  OBVIOUS
<1>8. CandidateSays(line) = [c EXCEPT !.others = {}, !.relatedAddress = ra, !.relatedPort = rp, !.tcpType = tt]
  BY <1>1, <1>6, <1>7, Zenon DEF CandidateSays
<1>9. d.relatedAddress = ra /\ d.relatedPort = rp /\ d.tcpType = tt
  BY <1>2, <1>5, <1>6, <1>7
<1>10. CandidateSays(t) = [d EXCEPT !.others = {}, !.relatedAddress = ra, !.relatedPort = rp, !.tcpType = tt]
  <2>. DEFINE b2 == d.type # "host" /\ Truthy(d.relatedPort) /\ d.relatedAddress # Undefined
  <2>1. /\ ra = IF b2 THEN d.relatedAddress ELSE Undefined
        /\ rp = IF b2 THEN d.relatedPort ELSE Undefined
    <3>1. CASE based
      BY <1>4, <1>6, <1>7, <1>9, <3>1
    <3>2. CASE ~based
      BY <1>7, <1>9, <3>2 DEF Truthy
    <3>. QED  BY <3>1, <3>2
  <2>2. tt = IF d.protocol = "tcp" THEN d.tcpType ELSE Undefined
    BY <1>4, <1>7, <1>9
  <2>. QED  BY <1>3, <2>1, <2>2, Zenon DEF CandidateSays
<1>11. CandidateSays(t) = CandidateSays(line)
  <2>1. PICK keys : keys = {"foundation", "component", "protocol", "priority", "address", "port",
                             "type", "relatedAddress", "relatedPort", "tcpType", "ufrag", "others"}
    OBVIOUS
  <2>2. DOMAIN c = keys /\ DOMAIN d = keys
    BY <1>1, <1>3, <2>1 DEF ParseCandidate
  <2>3. \A k \in DOMAIN c : k \in {"others", "relatedAddress", "relatedPort", "tcpType"} \/ c[k] = d[k]
    BY <1>4, <2>1, <2>2
  <2>4. [c EXCEPT !.others = {}, !.relatedAddress = ra, !.relatedPort = rp, !.tcpType = tt]
          = [d EXCEPT !.others = {}, !.relatedAddress = ra, !.relatedPort = rp, !.tcpType = tt]
    <3>1. DOMAIN c = DOMAIN d
      BY <2>2
    <3>. QED  BY <3>1, <2>3, Overwritten, Zenon
  <2>. QED  BY <1>8, <1>10, <2>4
<1>. QED  BY <1>1, <1>2, <1>11 DEF CandidateLine

\* DescriptionsSurvive, of candidates: whatever the candidate lines a browser writes
\* (of any fields, with any extensions in any order), a page that reads one and writes
\* it, however often, hands on what the line said.
THEOREM CandidatesSurvive ==
  ASSUME \A d \in Descriptions : IsCandidate(d) => \E line : d = <<line>> /\ CandidateLine(line)
  PROVE  SdpSpec => [](IsCandidate(origin) => DescriptionsSurvive)
<1>. DEFINE Inv == IsCandidate(origin) =>
              \E line, first : /\ text = <<line>> /\ origin = <<first>>
                               /\ CandidateLine(line) /\ CandidateSays(line) = CandidateSays(first)
<1>1. SdpInit => Inv
  BY DEF SdpInit
<1>2. Inv /\ [SdpNext]_sdpVars => Inv'
  <2>1. ASSUME Inv, SdpNext, IsCandidate(origin) PROVE Inv'
    <3>1. PICK line, first : /\ text = <<line>> /\ origin = <<first>>
                             /\ CandidateLine(line) /\ CandidateSays(line) = CandidateSays(first)
      BY <2>1
    <3>2. IsCandidate(text)
      BY <3>1 DEF IsCandidate, CandidateLine
    <3>3. origin' = origin /\ text' = <<WriteCandidate(ParseCandidate(line))>>
      BY <2>1, <3>1, <3>2 DEF SdpNext, Rewrite
    <3>. QED  BY <3>1, <3>3, CandidateRewritten
  <2>2. ASSUME Inv, SdpNext, ~IsCandidate(origin) PROVE Inv'
    <3>1. origin' = origin
      BY <2>2 DEF SdpNext, Rewrite
    <3>. QED  BY <2>2, <3>1 DEF IsCandidate
  <2>3. ASSUME Inv, UNCHANGED sdpVars PROVE Inv'
    BY <2>3 DEF sdpVars, IsCandidate
  <2>. QED  BY <2>1, <2>2, <2>3
<1>3. Inv => (IsCandidate(origin) => DescriptionsSurvive)
  <2>. SUFFICES ASSUME Inv, IsCandidate(origin) PROVE DescriptionsSurvive
    OBVIOUS
  <2>1. PICK line, first : /\ text = <<line>> /\ origin = <<first>>
                           /\ CandidateLine(line) /\ CandidateSays(line) = CandidateSays(first)
    OBVIOUS
  <2>2. IsCandidate(text)
    BY <2>1 DEF IsCandidate, CandidateLine
  <2>3. Says(text) = CandidateSays(line) /\ Says(origin) = CandidateSays(first)
    BY <2>1, <2>2 DEF Says
  <2>. QED  BY <2>1, <2>2, <2>3 DEF DescriptionsSurvive
<1>. QED  BY <1>1, <1>2, <1>3, PTL DEF SdpSpec

\* What was written after the tokens of p is what is read after them.
LEMMA RestIsKept ==
  ASSUME NEW S, NEW p \in Seq(S), NEW s \in Seq(S)
  PROVE  Rest(p \o s, Len(p) + 1) = s /\ \A k \in 1..Len(p) : (p \o s)[k] = p[k]
<1>. PICK t : t = p \o s
  OBVIOUS
<1>1. PICK n \in Nat, m \in Nat : n = Len(p) /\ m = Len(s)
  BY LenProperties
<1>2. /\ t \in Seq(S) /\ Len(t) = n + m
      /\ \A k \in 1..n + m : t[k] = IF k <= n THEN p[k] ELSE s[k - n]
  BY <1>1, ConcatProperties
<1>3. \A k \in 1..n : t[k] = p[k]
  <2>. SUFFICES ASSUME NEW k \in 1..n PROVE t[k] = p[k]
    OBVIOUS
  <2>1. k \in 1..n + m /\ k <= n
    BY <1>1
  <2>. QED  BY <1>2, <2>1
<1>4. \A k \in 1..m : t[(n + 1) + k - 1] = s[k]
  <2>. SUFFICES ASSUME NEW k \in 1..m PROVE t[(n + 1) + k - 1] = s[k]
    OBVIOUS
  <2>1. (n + 1) + k - 1 \in 1..n + m /\ ~((n + 1) + k - 1 <= n) /\ ((n + 1) + k - 1) - n = k
    BY <1>1
  <2>. QED  BY <1>2, <2>1
<1>5. PICK a \in Int : a = n + 1
  OBVIOUS
<1>6. PICK z \in Int : z = Len(t)
  BY <1>2
<1>7. PICK r : r = Rest(t, a)
  OBVIOUS
<1>8. r \in Seq(S) /\ Len(r) = m /\ \A k \in 1..m : r[k] = t[a + k - 1]
  <2>1. \A i \in a..z : t[i] \in S
    <3>1. \A i \in 1..z : t[i] \in S
      BY <1>2, <1>6, ElementOfSeq
    <3>2. \A i \in a..z : i \in 1..z
      BY <1>1, <1>5
    <3>. QED  BY <3>1, <3>2
  <2>2. r = SubSeq(t, a, z)
    BY <1>7, <1>6 DEF Rest
  <2>3. r \in Seq(S)
    BY <1>5, <1>6, <2>1, <2>2, SubSeqProperties
  <2>4. Len(r) = IF a <= z THEN z - a + 1 ELSE 0
    BY <1>5, <1>6, <2>1, <2>2, SubSeqProperties
  <2>5. \A i \in 1..z - a + 1 : r[i] = t[a + i - 1]
    BY <1>5, <1>6, <2>1, <2>2, SubSeqProperties
  <2>6. z - a + 1 = m /\ (a <= z \/ m = 0)
    BY <1>2, <1>5, <1>6
  <2>. QED  BY <2>3, <2>4, <2>5, <2>6
<1>9. r = s
  <2>1. \A k \in 1..m : r[k] = s[k]
    BY <1>4, <1>5, <1>8
  <2>. QED  BY <1>1, <1>8, <2>1, SeqEqual
<1>. QED  BY <1>1, <1>2, <1>3, <1>5, <1>7, <1>9

LEMMA RestTyped ==
  ASSUME NEW S, NEW t \in Seq(S), NEW k \in Nat, k >= 1
  PROVE  Rest(t, k) \in Seq(S)
<1>1. Len(t) \in Int /\ \A i \in k..Len(t) : t[i] \in S
  BY ElementOfSeq, LenProperties
<1>. QED  BY <1>1, SubSeqProperties DEF Rest

LEMMA OneMoreToken ==
  ASSUME NEW S, NEW p \in Seq(S), NEW e \in S
  PROVE  /\ p \o <<e>> \in Seq(S) /\ Len(p \o <<e>>) = Len(p) + 1 /\ (p \o <<e>>)[Len(p) + 1] = e
         /\ \A k \in 1..Len(p) : (p \o <<e>>)[k] = p[k]
<1>. PICK t : t = p \o <<e>>
  OBVIOUS
<1>1. Append(p, e) = t
  BY AppendIsConcat
<1>. QED  BY <1>1, AppendProperties

\* A sequence of n tokens or more.
IsLine(line, n) == (\E S : line \in Seq(S)) /\ Len(line) >= n

\* Codecs: a number of channels is handed on, unless it is one that JavaScript takes for none.
LEMMA RtpMapSurvives ==
  ASSUME NEW line, IsLine(line, 4), Len(line) = 5 => Truthy(line[5])
  PROVE  ParseRtpMap(WriteRtpMap(ParseRtpMap(line))) = ParseRtpMap(line)
<1>1. PICK c : c = ParseRtpMap(line)
  OBVIOUS
<1>2. /\ c = [payloadType |-> c.payloadType, name |-> c.name, clockRate |-> c.clockRate, channels |-> c.channels]
      /\ Truthy(c.channels)
  BY <1>1 DEF ParseRtpMap, Truthy, Undefined
<1>3. PICK t : t = WriteRtpMap(c)
  OBVIOUS
<1>4. PICK p, n, r, h : p = c.payloadType /\ n = c.name /\ r = c.clockRate /\ h = c.channels
  OBVIOUS
<1>5. t[2] = p /\ t[3] = n /\ t[4] = r /\ h = IF Len(t) = 5 THEN t[5] ELSE "1"
  <2>1. CASE h = "1"
    <3>1. t = <<"rtpmap", p, n, r>>
      BY <1>3, <1>4, <2>1 DEF WriteRtpMap
    <3>. QED  BY <2>1, <3>1
  <2>2. CASE h # "1"
    <3>1. t = <<"rtpmap", p, n, r>> \o <<h>>
      BY <1>2, <1>3, <1>4, <2>2 DEF WriteRtpMap
    <3>2. PICK S : S = {"rtpmap", p, n, r, h}
      OBVIOUS
    <3>3. <<"rtpmap", p, n, r>> \in Seq(S) /\ h \in S
      BY <3>2
    <3>4. PICK q \in Seq(S) : q = <<"rtpmap", p, n, r>>
      BY <3>3
    <3>5. Len(q) = 4 /\ q[2] = p /\ q[3] = n /\ q[4] = r
      BY <3>4
    <3>6. t = q \o <<h>>
      BY <3>1, <3>4
    <3>7. Len(t) = Len(q) + 1 /\ t[Len(q) + 1] = h /\ \A k \in 1..Len(q) : t[k] = q[k]
      BY <3>3, <3>6, OneMoreToken
    <3>. QED  BY <3>5, <3>7
  <2>. QED  BY <2>1, <2>2
<1>. QED  BY <1>1, <1>2, <1>3, <1>4, <1>5 DEF ParseRtpMap

LEMMA ExtmapSurvives ==
  ASSUME NEW line, IsLine(line, 3), IsLine(line[2], 1)
  PROVE  ExtensionSays(ParseExtmap(WriteExtmap(ParseExtmap(line)))) = ExtensionSays(ParseExtmap(line))
<1>1. PICK e : e = ParseExtmap(line)
  OBVIOUS
<1>2. PICK i, d, u, a : i = e.id /\ d = e.direction /\ u = e.uri /\ a = e.attributes
  OBVIOUS
<1>3. e = [id |-> i, direction |-> d, uri |-> u, attributes |-> a]
  BY <1>1, <1>2 DEF ParseExtmap
<1>4. PICK j, x : /\ j = IF Truthy(i) THEN i ELSE Undefined
                  /\ x = IF d # "sendrecv" THEN <<j, d>> ELSE <<j>>
  OBVIOUS
<1>5. PICK S : line \in Seq(S)
  BY DEF IsLine
<1>6. PICK T : T = S \cup {"extmap", x, u}
  OBVIOUS
<1>7. PICK t : t = <<"extmap", x, u>> \o a
  OBVIOUS
<1>8. t = WriteExtmap(e)
  BY <1>2, <1>4, <1>7 DEF WriteExtmap
<1>9. t[2] = x /\ t[3] = u /\ Rest(t, 4) = a
  <2>1. a \in Seq(S)
    BY <1>1, <1>2, <1>5, RestTyped DEF ParseExtmap
  <2>2. a \in Seq(T) /\ <<"extmap", x, u>> \in Seq(T)
    BY <1>6, <2>1
  <2>3. PICK p \in Seq(T) : p = <<"extmap", x, u>>
    BY <2>2
  <2>4. Len(p) = 3 /\ p[2] = x /\ p[3] = u
    BY <2>3
  <2>5. Rest(t, Len(p) + 1) = a /\ \A k \in 1..Len(p) : t[k] = p[k]
    BY <1>7, <2>2, <2>3, RestIsKept
  <2>6. Rest(t, 4) = a /\ t[2] = p[2] /\ t[3] = p[3]
    BY <2>4, <2>5
  <2>. QED  BY <2>4, <2>6
<1>10. x[1] = j /\ d = IF Len(x) > 1 THEN x[2] ELSE "sendrecv"
  BY <1>4
<1>11. ParseExtmap(t) = [id |-> j, direction |-> d, uri |-> u, attributes |-> a]
  BY <1>9, <1>10 DEF ParseExtmap
<1>12. ExtensionSays(e) = [id |-> j, direction |-> d, uri |-> u, attributes |-> a]
  BY <1>3, <1>4 DEF ExtensionSays
<1>13. ExtensionSays(ParseExtmap(t)) = [id |-> j, direction |-> d, uri |-> u, attributes |-> a]
  BY <1>4, <1>11 DEF ExtensionSays, Truthy
<1>. QED  BY <1>1, <1>8, <1>12, <1>13

\* Feedback: of the payload type of its codec, whichever its line was of.
LEMMA RtcpFbSurvives ==
  ASSUME NEW line, IsLine(line, 3), NEW codec, NEW k \in DOMAIN codec.rtcpFeedback,
         codec.rtcpFeedback[k] = ParseRtcpFb(line)
  PROVE  ParseRtcpFb(WriteRtcpFb(codec)[k]) = ParseRtcpFb(line)
<1>. PICK pt : pt = codec.payloadType
  OBVIOUS
<1>. PICK t : t = WriteRtcpFb(codec)[k]
  OBVIOUS
<1>1. t = <<"rtcp-fb", pt, ParseRtcpFb(line).type>> \o ParseRtcpFb(line).parameter
  BY DEF WriteRtcpFb, Each
<1>2. PICK S : line \in Seq(S)
  BY DEF IsLine
<1>3. PICK y, p : y = ParseRtcpFb(line).type /\ p = ParseRtcpFb(line).parameter
  OBVIOUS
<1>4. PICK T : T = S \cup {"rtcp-fb", pt, y}
  OBVIOUS
<1>5. p = Rest(line, 4) /\ y = line[3]
  BY <1>3 DEF ParseRtcpFb
<1>6. p \in Seq(T) /\ <<"rtcp-fb", pt, y>> \in Seq(T)
  <2>1. p \in Seq(S)
    BY <1>2, <1>5, RestTyped
  <2>. QED  BY <1>4, <2>1
<1>7. t[3] = y /\ Rest(t, 4) = p
  <2>1. PICK q \in Seq(T) : q = <<"rtcp-fb", pt, y>>
    BY <1>6
  <2>2. Len(q) = 3 /\ q[3] = y
    BY <2>1
  <2>3. t = q \o p
    BY <1>1, <1>3, <2>1
  <2>4. Rest(q \o p, Len(q) + 1) = p /\ \A j \in 1..Len(q) : (q \o p)[j] = q[j]
    BY <1>6, RestIsKept
  <2>5. Rest(t, Len(q) + 1) = p /\ \A j \in 1..Len(q) : t[j] = q[j]
    BY <2>3, <2>4, Zenon
  <2>. QED  BY <2>2, <2>5
<1>. QED  BY <1>5, <1>7 DEF ParseRtcpFb

LEMMA LowerTwice ==
  ASSUME NEW w
  PROVE  Lower(Lower(w)) = Lower(w)
<1>1. /\ \A p, q \in Cases : p[1] = q[1] \/ p[2] = q[2] => p = q
      /\ \A p, q \in Cases : p[1] # q[2]
  BY DEF Cases
<1>2. CASE \E p \in Cases : p[2] = w
  <2>1. PICK p \in Cases : p[2] = w
    BY <1>2
  <2>2. Lower(w) = p[1]
    BY <1>1, <2>1 DEF Lower
  <2>3. Lower(p[1]) = p[1]
    BY <1>1, <2>1 DEF Lower
  <2>. QED  BY <2>2, <2>3
<1>3. CASE ~ \E p \in Cases : p[2] = w
  BY <1>3 DEF Lower
<1>. QED  BY <1>2, <1>3

LEMMA UpperTwice ==
  ASSUME NEW w
  PROVE  Upper(Upper(w)) = Upper(w)
<1>1. /\ \A p, q \in Cases : p[1] = q[1] \/ p[2] = q[2] => p = q
      /\ \A p, q \in Cases : p[1] # q[2]
  BY DEF Cases
<1>2. CASE \E p \in Cases : p[1] = w
  <2>1. PICK p \in Cases : p[1] = w
    BY <1>2
  <2>2. Upper(w) = p[2]
    BY <1>1, <2>1 DEF Upper
  <2>3. Upper(p[2]) = p[2]
    BY <1>1, <2>1 DEF Upper
  <2>. QED  BY <2>2, <2>3
<1>3. CASE ~ \E p \in Cases : p[1] = w
  BY <1>3 DEF Upper
<1>. QED  BY <1>2, <1>3

LEMMA FingerprintSurvives ==
  ASSUME NEW line, NEW S, NEW fps \in Seq(S), NEW setup, NEW k \in 1..Len(fps), fps[k] = ParseFingerprint(line)
  PROVE  ParseFingerprint(WriteDtlsParameters(fps, setup)[k + 1]) = ParseFingerprint(line)
<1>1. PICK a, v : a = ParseFingerprint(line).algorithm /\ v = ParseFingerprint(line).value
  OBVIOUS
<1>2. a = Lower(line[2]) /\ v = Upper(line[3])
  BY <1>1 DEF ParseFingerprint
<1>3. Lower(a) = a /\ Upper(v) = v
  BY <1>2, LowerTwice, UpperTwice
<1>4. PICK w : w = [j \in DOMAIN fps |-> <<"fingerprint", fps[j].algorithm, fps[j].value>>]
  OBVIOUS
<1>5. PICK h : h = <<"setup", setup>>
  OBVIOUS
<1>6. PICK n \in Nat : n = Len(fps)
  OBVIOUS
<1>7. DOMAIN w = 1..n /\ w[k] = <<"fingerprint", a, v>>
  BY <1>1, <1>4, <1>6
<1>8. PICK T : T = {h} \cup {w[j] : j \in 1..n}
  OBVIOUS
<1>9. w \in [1..n -> T]
  BY <1>4, <1>6, <1>7, <1>8
<1>10. w \in Seq(T) /\ Len(w) = n
  BY <1>6, <1>9
<1>11. <<h>> \in Seq(T) /\ Len(<<h>>) = 1
  BY <1>8
<1>12. PICK t : t = WriteDtlsParameters(fps, setup)
  OBVIOUS
<1>13. t = <<h>> \o w
  BY <1>4, <1>5, <1>12 DEF WriteDtlsParameters, Each
<1>14. t[k + 1] = w[k]
  <2>1. \A i \in 1..1 + n : t[i] = IF i <= 1 THEN <<h>>[i] ELSE w[i - 1]
    BY <1>10, <1>11, <1>13, ConcatProperties
  <2>2. k + 1 \in 1..1 + n /\ ~(k + 1 <= 1) /\ (k + 1) - 1 = k
    BY <1>6
  <2>. QED  BY <2>1, <2>2
<1>. QED  BY <1>1, <1>2, <1>3, <1>7, <1>12, <1>14 DEF ParseFingerprint

\* Keys: a lifetime or an index of the master key is none of the words for nothing.
KeyLine(line) ==
    /\ IsLine(line, 4) /\ IsLine(line[4], 1)
    /\ \A k \in {2, 3} : k <= Len(line[4]) => line[4][k] # Undefined

LEMMA CryptoSurvives ==
  ASSUME NEW line, KeyLine(line)
  PROVE  ParseCryptoLine(WriteCryptoLine(ParseCryptoLine(line))) = ParseCryptoLine(line)
<1>1. PICK c : c = ParseCryptoLine(line)
  OBVIOUS
<1>2. PICK g, u, s, k, l, m : /\ g = c.tag /\ u = c.cryptoSuite /\ s = c.sessionParams
                              /\ k = c.keySalt /\ l = c.lifeTime /\ m = c.mki
  OBVIOUS
<1>3. /\ c = [tag |-> g, cryptoSuite |-> u, sessionParams |-> s, keySalt |-> k, lifeTime |-> l, mki |-> m]
      /\ s = Rest(line, 5) /\ l = Token(line[4], 2) /\ m = Token(line[4], 3)
  BY <1>1, <1>2 DEF ParseCryptoLine
<1>4. l = Undefined => m = Undefined
  <2>1. PICK S : line[4] \in Seq(S)
    BY DEF KeyLine, IsLine
  <2>2. PICK n \in Nat : n = Len(line[4])
    BY <2>1
  <2>3. l = IF 2 <= n THEN line[4][2] ELSE Undefined
    BY <1>3, <2>2 DEF Token
  <2>4. m = IF 3 <= n THEN line[4][3] ELSE Undefined
    BY <1>3, <2>2 DEF Token
  <2>5. 2 <= n => line[4][2] # Undefined
    BY <2>2 DEF KeyLine
  <2>. QED  BY <2>3, <2>4, <2>5
<1>5. PICK x : x = <<k>> \o (IF l # Undefined THEN <<l>> ELSE <<>>) \o (IF m # Undefined THEN <<m>> ELSE <<>>)
  OBVIOUS
<1>6. x[1] = k /\ Token(x, 2) = l /\ Token(x, 3) = m
  <2>1. PICK S : S = {k, l, m}
    OBVIOUS
  <2>2. PICK q \in Seq(S) : q = <<k>>
    <3>1. <<k>> \in Seq(S)
      BY <2>1
    <3>. QED  BY <3>1
  <2>3. Len(q) = 1 /\ q[1] = k
    BY <2>2
  <2>4. CASE l = Undefined
    <3>1. x = <<k>>
      BY <1>4, <1>5, <2>4
    <3>. QED  BY <1>4, <2>4, <3>1 DEF Token
  <2>5. CASE l # Undefined
    <3>1. PICK y : y = q \o <<l>>
      OBVIOUS
    <3>2. l \in S /\ m \in S
      BY <2>1
    <3>3. y \in Seq(S) /\ Len(y) = Len(q) + 1 /\ y[Len(q) + 1] = l /\ \A j \in 1..Len(q) : y[j] = q[j]
      BY <3>1, <3>2, OneMoreToken
    <3>4. Len(y) = 2 /\ y[1] = k /\ y[2] = l
      BY <2>3, <3>3
    <3>5. CASE m = Undefined
      <4>1. x = y \o <<>>
        BY <1>5, <2>2, <2>5, <3>1, <3>5
      <4>2. x = y
        BY <3>1, <3>3, <4>1, ConcatEmptySeq
      <4>3. Len(x) = 2 /\ x[1] = k /\ x[2] = l
        BY <3>4, <4>2
      <4>. QED  BY <3>5, <4>3 DEF Token
    <3>6. CASE m # Undefined
      <4>1. x = y \o <<m>>
        BY <1>5, <2>2, <2>5, <3>1, <3>6
      <4>2. Len(x) = Len(y) + 1 /\ x[Len(y) + 1] = m /\ \A j \in 1..Len(y) : x[j] = y[j]
        BY <3>2, <3>3, <4>1, OneMoreToken
      <4>. QED  BY <3>4, <4>2 DEF Token
    <3>. QED  BY <3>5, <3>6
  <2>. QED  BY <2>4, <2>5
<1>7. PICK t : t = <<"crypto", g, u, x>> \o s
  OBVIOUS
<1>8. t = WriteCryptoLine(c)
  BY <1>2, <1>5, <1>7 DEF WriteCryptoLine
<1>9. t[2] = g /\ t[3] = u /\ t[4] = x /\ Rest(t, 5) = s
  <2>1. PICK S : line \in Seq(S)
    BY DEF KeyLine, IsLine
  <2>2. s \in Seq(S)
    BY <1>3, <2>1, RestTyped
  <2>3. PICK T : T = S \cup {"crypto", g, u, x}
    OBVIOUS
  <2>4. s \in Seq(T) /\ <<"crypto", g, u, x>> \in Seq(T)
    BY <2>2, <2>3
  <2>5. PICK q \in Seq(T) : q = <<"crypto", g, u, x>>
    BY <2>4
  <2>6. Len(q) = 4 /\ q[2] = g /\ q[3] = u /\ q[4] = x
    BY <2>5
  <2>7. t = q \o s
    BY <1>7, <2>5
  <2>8. Rest(t, Len(q) + 1) = s /\ \A j \in 1..Len(q) : t[j] = q[j]
    BY <2>4, <2>7, RestIsKept
  <2>. QED  BY <2>6, <2>8
<1>. QED  BY <1>1, <1>3, <1>6, <1>8, <1>9 DEF ParseCryptoLine

\* What a line of a codec, a header extension, a feedback, a fingerprint or a key says is
\* read again from the line that is written for it, whatever the line; of a header
\* extension with the number 0 all but the number.  (A number of channels that
\* JavaScript takes for none is not written.)
THEOREM LinesSurvive ==
  /\ \A line : IsLine(line, 4) /\ (Len(line) = 5 => Truthy(line[5])) =>
        ParseRtpMap(WriteRtpMap(ParseRtpMap(line))) = ParseRtpMap(line)
  /\ \A line : IsLine(line, 3) /\ IsLine(line[2], 1) =>
        ExtensionSays(ParseExtmap(WriteExtmap(ParseExtmap(line)))) = ExtensionSays(ParseExtmap(line))
  /\ \A line, codec : \A k \in DOMAIN codec.rtcpFeedback :
        IsLine(line, 3) /\ codec.rtcpFeedback[k] = ParseRtcpFb(line) =>
            ParseRtcpFb(WriteRtcpFb(codec)[k]) = ParseRtcpFb(line)
  /\ \A line, S, setup : \A fps \in Seq(S) : \A k \in 1..Len(fps) : fps[k] = ParseFingerprint(line) =>
        ParseFingerprint(WriteDtlsParameters(fps, setup)[k + 1]) = ParseFingerprint(line)
  /\ \A line : KeyLine(line) =>
        ParseCryptoLine(WriteCryptoLine(ParseCryptoLine(line))) = ParseCryptoLine(line)
<1>1. ASSUME NEW line, IsLine(line, 4), Len(line) = 5 => Truthy(line[5])
      PROVE  ParseRtpMap(WriteRtpMap(ParseRtpMap(line))) = ParseRtpMap(line)
  BY <1>1, RtpMapSurvives
<1>2. ASSUME NEW line, IsLine(line, 3), IsLine(line[2], 1)
      PROVE  ExtensionSays(ParseExtmap(WriteExtmap(ParseExtmap(line)))) = ExtensionSays(ParseExtmap(line))
  BY <1>2, ExtmapSurvives
<1>3. ASSUME NEW line, NEW codec, NEW k \in DOMAIN codec.rtcpFeedback,
             IsLine(line, 3), codec.rtcpFeedback[k] = ParseRtcpFb(line)
      PROVE  ParseRtcpFb(WriteRtcpFb(codec)[k]) = ParseRtcpFb(line)
  BY <1>3, RtcpFbSurvives
<1>4. ASSUME NEW line, NEW S, NEW setup, NEW fps \in Seq(S), NEW k \in 1..Len(fps),
             fps[k] = ParseFingerprint(line)
      PROVE  ParseFingerprint(WriteDtlsParameters(fps, setup)[k + 1]) = ParseFingerprint(line)
  BY <1>4, FingerprintSurvives
<1>5. ASSUME NEW line, KeyLine(line)
      PROVE  ParseCryptoLine(WriteCryptoLine(ParseCryptoLine(line))) = ParseCryptoLine(line)
  BY <1>5, CryptoSurvives
<1>. QED  BY <1>1, <1>2, <1>3, <1>4, <1>5, Zenon
===============================================================================
