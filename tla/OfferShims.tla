------------------------------ MODULE OfferShims ------------------------------
(***************************************************************************)
(* Offers, answers and data channels under adapter.js                      *)
(* (src/screen_share/static/js).  A behaviour follows one of the library's *)
(* shims, named by "shim":                                                 *)
(*                                                                         *)
(*   encodings   Firefox: addTransceiver applies the sendEncodings the     *)
(*               browser ignored, createOffer waits until that is done     *)
(*   legacy      Safari: createOffer({offerToReceiveAudio, ...Video})      *)
(*   sizes       the largest message a data channel may send               *)
(*                                                                         *)
(* The native calls are the environment.                                   *)
(***************************************************************************)
EXTENDS Naturals, Sequences

CONSTANTS
    Senders,            \* encodings: transceivers the page may add, in any order
    MaxTransceivers,    \* legacy: bound on the transceivers of the connection
    Lengths             \* sizes: lengths of the data a page sends

ASSUME LengthsAssumption == Lengths \subseteq Nat

VARIABLES
    shim,
    encoding,       \* encodings: sender -> how its setParameters stands
    promises,       \* encodings: setParametersPromises
    offer,          \* encodings: the createOffer call and the promises it awaits
    transceivers,   \* legacy: getTransceivers()
    version,        \* sizes: this browser, by what it can send
    sctp,           \* sizes: _sctp.maxMessageSize, or NoSctp
    accepts         \* sizes: what the description set last says the peer can receive

encodingVars == <<encoding, promises, offer>>
sizeVars == <<version, sctp, accepts>>
offerVars == <<shim, encodingVars, transceivers, sizeVars>>

TwoGiB == 2147483637
NoSctp == TwoGiB + 1
\* Firefox before 57, 57, 58 and 59, 60 and later; every other browser.
Locals == {"firefox56", "firefox57", "firefox58", "firefox60", "other"}

OfferInit ==
    /\ shim \in {"encodings", "legacy", "sizes"}
    /\ encoding = [s \in Senders |-> "absent"]
    /\ promises = {}
    /\ offer = [state |-> "idle", awaits |-> {}]
    /\ transceivers = <<>>
    /\ version \in IF shim = "sizes" THEN Locals ELSE {"other"}
    /\ sctp = NoSctp /\ accepts = NoSctp

-------------------------------------------------------------------------------
(***************************************************************************)
(* Firefox: encodings                                                      *)
(***************************************************************************)
\* addTransceiver forgets the promises of earlier ones; encodings the browser
\* did not take are set by a call that is answered later.
AddTransceiver(s) ==
    /\ shim = "encodings"
    /\ encoding[s] = "absent"
    /\ \E e \in {"none", "pending"} :
        /\ encoding' = [encoding EXCEPT ![s] = e]
        /\ promises' = IF e = "pending" THEN {s} ELSE {}
    /\ UNCHANGED <<shim, offer, transceivers, sizeVars>>

\* sender.setParameters(params) is answered.
ParametersSet(s) ==
    /\ encoding[s] = "pending"
    /\ \E e \in {"applied", "refused"} : encoding' = [encoding EXCEPT ![s] = e]
    /\ UNCHANGED <<shim, promises, offer, transceivers, sizeVars>>

\* Mutant: the promise without its catch.
FulfilledNoCatch(s) == encoding[s] = "applied"

\* The promise that is kept has a catch: a refusal settles it as well.
Fulfilled(s) == encoding[s] \in {"applied", "refused"}

\* createOffer; createAnswer waits in the same way.
CallCreateOffer ==
    /\ shim = "encodings"
    /\ offer.state # "waiting"
    /\ offer' = [state |-> IF promises = {} THEN "made" ELSE "waiting", awaits |-> promises]
    /\ UNCHANGED <<shim, encoding, promises, transceivers, sizeVars>>

\* Promise.all(...).then(...).finally(...): all promises go, later ones too.
OfferMade ==
    /\ offer.state = "waiting"
    /\ \A s \in offer.awaits : Fulfilled(s)
    /\ offer' = [state |-> "made", awaits |-> {}]
    /\ promises' = {}
    /\ UNCHANGED <<shim, encoding, transceivers, sizeVars>>

-------------------------------------------------------------------------------
(***************************************************************************)
(* Safari: offerToReceiveAudio and offerToReceiveVideo                     *)
(***************************************************************************)
Kinds == {"audio", "video"}
OfferOptions == {"undefined", "yes", "no"}
Directions == {"sendrecv", "sendonly", "recvonly", "inactive"}
Sends(t) == t.direction \in {"sendrecv", "sendonly"}
Receives(t) == t.direction \in {"sendrecv", "recvonly"}

\* The page adds a transceiver (or a track, which makes one).
PageAddsTransceiver(k, d) ==
    /\ shim = "legacy"
    /\ Len(transceivers) < MaxTransceivers
    /\ transceivers' = Append(transceivers, [kind |-> k, direction |-> d])
    /\ UNCHANGED <<shim, encodingVars, sizeVars>>

OfKind(ts, k) == {i \in DOMAIN ts : ts[i].kind = k}
FirstOf(I) == CHOOSE i \in I : \A j \in I : i <= j

\* Mutant: the transceiver is stopped altogether.
WithoutReceivingInactive(d) == IF d \in {"sendrecv", "recvonly"} THEN "inactive" ELSE d

WithoutReceiving(d) ==
    IF d = "sendrecv" THEN "sendonly" ELSE IF d = "recvonly" THEN "inactive" ELSE d

\* One kind: "no" takes receiving from the first transceiver of the kind, "yes"
\* adds one if there is none.
AskedFor(ts, k, ask) ==
    IF ask = "no" /\ OfKind(ts, k) # {}
    THEN [ts EXCEPT ![FirstOf(OfKind(ts, k))].direction = WithoutReceiving(@)]
    ELSE IF ask = "yes" /\ OfKind(ts, k) = {}
    THEN Append(ts, [kind |-> k, direction |-> "recvonly"])
    ELSE ts

CreateOfferLegacy(audio, video) ==
    /\ shim = "legacy"
    /\ transceivers' = AskedFor(AskedFor(transceivers, "audio", audio), "video", video)
    /\ UNCHANGED <<shim, encodingVars, sizeVars>>

-------------------------------------------------------------------------------
(***************************************************************************)
(* shimMaxMessageSize and shimSendThrowTypeError                           *)
(***************************************************************************)
CanSendMaxMessageSize(peerIsFirefox) ==
    IF version = "firefox56" THEN IF peerIsFirefox THEN TwoGiB ELSE 16384
    ELSE IF version = "firefox57" THEN 65535
    ELSE IF version = "firefox60" THEN TwoGiB
    ELSE 65536

\* a=max-message-size of a description, which may have none.
Default(peerIsFirefox) ==
    IF version # "other" /\ peerIsFirefox THEN TwoGiB
    ELSE IF version = "firefox57" THEN 65535 ELSE 65536

\* Mutant: 0 taken for a size.
SmallerPlain(a, b) == IF a < b THEN a ELSE b

\* 0 stands for "any size".
Smaller(a, b) ==
    IF a = 0 \/ b = 0 THEN IF a < b THEN b ELSE a ELSE IF a < b THEN a ELSE b

\* What the peer can receive, by its description (0: anything), as the comments of
\* getMaxMessageSize have it for one without a=max-message-size.
PeerReceives(peerIsFirefox, size) ==
    IF size # NoSctp THEN size
    ELSE IF version # "other" /\ peerIsFirefox THEN TwoGiB ELSE 65536

\* setRemoteDescription keeps the size at once, before the browser takes or refuses
\* the description.  One without a data section has no limit.
SetRemoteSize(data, peerIsFirefox, size) ==
    /\ shim = "sizes"
    /\ LET announced == IF size = NoSctp THEN Default(peerIsFirefox) ELSE size
       IN sctp' = IF data THEN Smaller(CanSendMaxMessageSize(peerIsFirefox), announced)
                  ELSE NoSctp
    /\ accepts' = IF data THEN PeerReceives(peerIsFirefox, size) ELSE NoSctp
    /\ UNCHANGED <<shim, encodingVars, transceivers, version>>

\* send(): the limit is in bytes, but compared with data.length, the UTF-16 units
\* of a text and the elements of a typed array.
SendPasses(data) == sctp = NoSctp \/ data.length <= sctp

OfferNext ==
    \/ \E s \in Senders : AddTransceiver(s) \/ ParametersSet(s)
    \/ CallCreateOffer \/ OfferMade
    \/ \E k \in Kinds, d \in Directions \ {"inactive"} : PageAddsTransceiver(k, d)
    \/ \E a, v \in OfferOptions : CreateOfferLegacy(a, v)
    \/ \E d, f \in BOOLEAN, z \in {0, 1000, 262144, NoSctp} : SetRemoteSize(d, f, z)

\* setParameters is answered and a promise that is settled runs its callbacks.
OfferFairness ==
    /\ \A s \in Senders : WF_offerVars(ParametersSet(s))
    /\ WF_offerVars(OfferMade)

-------------------------------------------------------------------------------
\* createOffer and createAnswer of Firefox come back whatever becomes of the
\* encodings they wait for, and however many transceivers are added meanwhile.
OfferIsMade == offer.state = "waiting" ~> offer.state = "made"

\* One kind of a call: only "no" changes transceivers of the kind, and only "yes"
\* adds one.
AskedOnly(k, ask) ==
    /\ \A i \in DOMAIN transceivers :
        transceivers[i].kind = k /\ transceivers'[i] # transceivers[i] => ask = "no"
    /\ \A i \in DOMAIN transceivers' \ DOMAIN transceivers :
        transceivers'[i].kind = k => ask = "yes"

\* Safari: asking not to receive stops no transceiver from sending and lets none
\* receive that did not, and what is asked for one kind changes none of the other.
SendingIsKept ==
    [][/\ \A i \in DOMAIN transceivers :
            /\ transceivers'[i].kind = transceivers[i].kind
            /\ Sends(transceivers'[i]) = Sends(transceivers[i])
            /\ Receives(transceivers'[i]) => Receives(transceivers[i])
       /\ \A a, v \in OfferOptions :
            CreateOfferLegacy(a, v) => AskedOnly("audio", a) /\ AskedOnly("video", v)]_transceivers

\* Data whose length is its size in bytes: binary data, and text in ASCII.
Plain(n) == [length |-> n, bytes |-> n]
Fits(data) == accepts = 0 \/ data.bytes <= accepts

\* send() lets no plain data through that is longer than the peer can receive, by the
\* description set last (in force already or not), and lets up to 16 KiB through
\* where the peer takes any size.  (Other text and wider arrays may be longer.)
SendFits ==
    accepts # NoSctp => \A n \in Lengths :
        /\ SendPasses(Plain(n)) => Fits(Plain(n))
        /\ accepts = 0 /\ n <= 16384 => SendPasses(Plain(n))
===============================================================================
