--------------------------- MODULE PeerTransport ---------------------------
(***************************************************************************)
(* The secured transports of one peer connection, as TransportController   *)
(* wires them: for each media section (mid) an ICE channel, a              *)
(* DtlsTransport over it and a DtlsSrtpTransport over that, with IceAgent  *)
(* and TransportController folding the per-mid states into one ICE state   *)
(* and one connection state.  Everything runs on one RtcWorker thread and  *)
(* talks through synchronous signals, so an event of the loop, with all    *)
(* the slots it triggers, is one step; what can go wrong is the order of   *)
(* the slots and of the events.                                            *)
(*                                                                         *)
(* The ICE channel appears through the states its own module (IceChannel)  *)
(* lets it report.  The TLS engine is external: what it may answer is a    *)
(* nondeterministic choice.                                                *)
(***************************************************************************)
EXTENDS Naturals, FiniteSets

CONSTANTS
  Mids,        \* the media sections that own a transport
  Prints,      \* certificate fingerprints an answer may carry
  BadPrints,   \* those of them with a digest of the wrong length
  NoPrint,     \* no answer has brought one yet, or this one brings none
  MaxSetups    \* bound on the TLS engines created per mid

ASSUME PrintsAssumption == BadPrints \subseteq Prints /\ NoPrint \notin Prints
ASSUME MidsAssumption   == Mids # {}
ASSUME SetupsAssumption == MaxSetups \in Nat \ {0}

VARIABLES
  ice,         \* IceTransportChannel::_state
  been,        \* _has_been_connection: the channel was writable once
  answered,    \* set_remote_ice_params was called: checks may be answered
  agentState,  \* IceAgent::_ice_state
  dtls,        \* DtlsTransport::_dtls_state
  writable,    \* DtlsTransport::_writable
  setups,      \* how many TLS engines were created; _dtls # nullptr iff > 0
  print,       \* _remote_fingerprint_value
  hello,       \* _cached_client_hello is not empty
  suite,       \* the last handshake agreed on an SRTP crypto suite
  srtp,        \* the engine the SRTP sessions hold keys of; 0: no sessions
  pcState      \* TransportController::_pc_state

dtlsVars == <<dtls, writable, setups, print, hello, suite, srtp>>
vars == <<ice, been, answered, agentState, dtlsVars, pcState>>

IceStates  == {"new", "checking", "connected", "disconnected", "failed"}
DtlsStates == {"new", "connecting", "connected", "closed", "failed"}
PcStates   == {"new", "connecting", "connected", "disconnected", "failed"}

TypeOK ==
  /\ ice \in [Mids -> IceStates]
  /\ been \in [Mids -> BOOLEAN]
  /\ answered \in BOOLEAN
  /\ agentState \in IceStates
  /\ dtls \in [Mids -> DtlsStates]
  /\ writable \in [Mids -> BOOLEAN]
  /\ setups \in [Mids -> 0 .. MaxSetups]
  /\ print \in [Mids -> Prints \cup {NoPrint}]
  /\ hello \in [Mids -> BOOLEAN]
  /\ suite \in [Mids -> BOOLEAN]
  /\ srtp \in [Mids -> 0 .. MaxSetups]
  /\ pcState \in PcStates

-----------------------------------------------------------------------------
(* The aggregates *)

\* An agent that does not count the disconnected channels.
AgentIgnoresDisconnected(i) ==
  IF \E m \in Mids : i[m] = "failed" THEN "failed"
  ELSE IF \A m \in Mids : i[m] = "new" THEN "new"
  ELSE IF \E m \in Mids : i[m] \in {"new", "checking"} THEN "checking"
  ELSE "connected"

\* IceAgent::_update_state.  A channel never reports completed or closed.
AgentState(i) ==
  IF \E m \in Mids : i[m] = "failed" THEN "failed"
  ELSE IF \E m \in Mids : i[m] = "disconnected" THEN "disconnected"
  ELSE IF \A m \in Mids : i[m] = "new" THEN "new"
  ELSE IF \E m \in Mids : i[m] \in {"new", "checking"} THEN "checking"
  ELSE "connected"

\* TransportController::_update_state
PcState(i, d) ==
  IF \E m \in Mids : i[m] = "failed" \/ d[m] = "failed" THEN "failed"
  ELSE IF \E m \in Mids : i[m] = "disconnected" THEN "disconnected"
  ELSE IF \A m \in Mids : i[m] = "new" /\ d[m] \in {"new", "closed"} THEN "new"
  ELSE IF \E m \in Mids : i[m] \in {"new", "checking"} \/ d[m] \in {"new", "connecting"}
    THEN "connecting"
  ELSE "connected"

\* The controller recomputes when one of its slots is called.
Signalled(yes, i, d, old) == IF yes THEN PcState(i, d) ELSE old

IceWritable(i, m) == i[m] = "connected"

-----------------------------------------------------------------------------
(* DtlsTransport and DtlsSrtpTransport.  A transport is the record of what *)
(* one mid's dtlsVars hold; the helpers say what a call makes of it.       *)

Transport(m) ==
  [dtls |-> dtls[m], writable |-> writable[m], setups |-> setups[m],
   print |-> print[m], hello |-> hello[m], suite |-> suite[m], srtp |-> srtp[m]]

\* Sessions that outlive the handshake their keys come from.
OnDtlsStateKeepsKeys(t) ==
  IF t.dtls = "connected" /\ t.srtp = 0 /\ t.writable /\ t.suite
    THEN [t EXCEPT !.srtp = t.setups]
    ELSE t

\* DtlsSrtpTransport::_on_dtls_state: any state but connected drops the
\* sessions; connected installs keys if there are none and DTLS is writable.
OnDtlsState(t) ==
  IF t.dtls # "connected" THEN [t EXCEPT !.srtp = 0]
  ELSE IF t.srtp = 0 /\ t.writable /\ t.suite THEN [t EXCEPT !.srtp = t.setups]
  ELSE t

\* _set_dtls_state, with the slots it calls
SetState(t, s) == IF t.dtls = s THEN t ELSE OnDtlsState([t EXCEPT !.dtls = s])

\* _maybe_start_dtls, given that the channel is writable (w): StartSSL may
\* fail, and so may the cached ClientHello, which is consumed if it is fed.
MaybeStart(t, w) ==
  IF t.setups = 0 \/ ~w THEN {t}
  ELSE {SetState(t, "failed")}
       \cup {[SetState(t, "connecting") EXCEPT !.hello = FALSE]}
       \cup IF t.hello
              THEN {[SetState(SetState(t, "connecting"), "failed") EXCEPT !.hello = FALSE]}
              ELSE {}

\* A setup that leaves the start to the next change of writability.
SetupWithoutStart(t, w) ==
  LET n == [t EXCEPT !.setups = t.setups + 1] IN
    IF n.print \in BadPrints THEN {SetState(n, "failed")} ELSE {n}

\* _setup_dtls: a new engine takes the fingerprint, if there is one, and is
\* started.  A digest of the wrong length is refused; the only caller that
\* can meet it then fails the transport.
Setup(t, w) ==
  LET n == [t EXCEPT !.setups = t.setups + 1] IN
    IF n.print \in BadPrints THEN {SetState(n, "failed")} ELSE MaybeStart(n, w)

\* The engine is thrown away: state new, then not writable.
Reset(t) == [SetState(t, "new") EXCEPT !.writable = FALSE]

\* set_remote_fingerprint: none, or an identical one, is ignored; the first one
\* is given to the engine a ClientHello created before, which refuses it if it
\* has a certificate by then and that is another; a changed one restarts.
SetFingerprint(t, p, w) ==
  IF p \in {t.print, NoPrint} THEN {t}
  ELSE IF t.print = NoPrint /\ t.setups > 0
    THEN LET n == [t EXCEPT !.print = p] IN
         (IF p \in BadPrints THEN {} ELSE {n})
         \cup IF p \in BadPrints \/ t.dtls # "new" THEN {SetState(n, "failed")} ELSE {}
  ELSE IF t.setups > 0 THEN Setup(Reset([t EXCEPT !.print = p]), w)
  ELSE Setup([t EXCEPT !.print = p], w)

\* _on_writable_state: the channel's writable flag became w
OnIceWritable(t, w) ==
  CASE t.dtls = "new"       -> MaybeStart(t, w)
    [] t.dtls = "connected" -> {[t EXCEPT !.writable = w]}
    [] OTHER                -> {t}

\* SE_OPEN: writable first, then the state, whose slot needs it writable.
\* s: the handshake agreed on an SRTP suite.
Opened(t, s) == SetState([t EXCEPT !.writable = TRUE, !.suite = s], "connected")

\* SE_CLOSE, or a read that meets the end or an error of the stream
Closed(t, s) == SetState([t EXCEPT !.writable = FALSE], s)

-----------------------------------------------------------------------------
(* Steps *)

\* Every mid's transport becomes what f holds for it.
Become(f) ==
  /\ dtls'     = [m \in Mids |-> f[m].dtls]
  /\ writable' = [m \in Mids |-> f[m].writable]
  /\ setups'   = [m \in Mids |-> f[m].setups]
  /\ print'    = [m \in Mids |-> f[m].print]
  /\ hello'    = [m \in Mids |-> f[m].hello]
  /\ suite'    = [m \in Mids |-> f[m].suite]
  /\ srtp'     = [m \in Mids |-> f[m].srtp]

BecomeOne(m, t) == Become([k \in Mids |-> IF k = m THEN t ELSE Transport(k)])

Init ==
  /\ ice = [m \in Mids |-> "new"]
  /\ been = [m \in Mids |-> FALSE]
  /\ answered = FALSE
  /\ agentState = "new"
  /\ dtls = [m \in Mids |-> "new"]
  /\ writable = [m \in Mids |-> FALSE]
  /\ setups = [m \in Mids |-> 0]
  /\ print = [m \in Mids |-> NoPrint]
  /\ hello = [m \in Mids |-> FALSE]
  /\ suite = [m \in Mids |-> FALSE]
  /\ srtp = [m \in Mids |-> 0]
  /\ pcState = "new"

\* What a channel may report next.  Connectivity checks are answered only
\* once the remote password is known; a response may come after the failure.
IceNext(m) ==
  CASE ice[m] = "new"          -> {"checking"}
    [] ice[m] = "checking"     -> {"failed"} \cup IF answered THEN {"connected"} ELSE {}
    [] ice[m] = "connected"    -> {"disconnected", "failed"}
    [] ice[m] = "disconnected" -> {"connected", "failed"}
    [] ice[m] = "failed"       -> {IF been[m] THEN "disconnected" ELSE "checking"}
                                  \cup IF answered THEN {"connected"} ELSE {}

\* IceTransportChannel::_update_state: the writable signal comes first and
\* finds the old state, then the receiving signal (recv), which only makes
\* the controller recompute, then the state signal, which reaches the
\* controller only if the agent's aggregate changes.
IceChanges(m) ==
  \E s \in IceNext(m) :
    LET new == [ice EXCEPT ![m] = s] IN
      /\ \E t \in IF IceWritable(new, m) = IceWritable(ice, m)
                    THEN {Transport(m)}
                    ELSE OnIceWritable(Transport(m), IceWritable(new, m)) :
           /\ BecomeOne(m, t)
           /\ \E recv \in BOOLEAN :
                pcState' =
                  Signalled(AgentState(new) # agentState, new, dtls',
                            Signalled(dtls' # dtls \/ recv, ice, dtls', pcState))
      /\ ice' = new
      /\ been' = [been EXCEPT ![m] = @ \/ s = "connected"]
      /\ agentState' = AgentState(new)
      /\ UNCHANGED answered

\* TransportController::set_remote_description: per mid the ICE parameters,
\* then the fingerprint, if its section has one.  p gives that of each mid.
Answer ==
  \E p \in [Mids -> Prints \cup {NoPrint}] :
    /\ \A m \in Mids : p[m] \in {print[m], NoPrint} \/ setups[m] < MaxSetups
    /\ \E f \in [Mids -> UNION {SetFingerprint(Transport(m), p[m], IceWritable(ice, m)) :
                                m \in Mids}] :
         /\ \A m \in Mids : f[m] \in SetFingerprint(Transport(m), p[m], IceWritable(ice, m))
         /\ Become(f)
    /\ answered' = TRUE
    /\ pcState' = Signalled(dtls' # dtls, ice, dtls', pcState)
    /\ UNCHANGED <<ice, been, agentState>>

\* _on_read_packet with a ClientHello before DTLS started
ClientHello(m) ==
  /\ ice[m] # "new"
  /\ dtls[m] = "new"
  /\ LET cached == [Transport(m) EXCEPT !.hello = TRUE] IN
       \E t \in IF setups[m] = 0 THEN Setup(cached, IceWritable(ice, m)) ELSE {cached} :
         BecomeOne(m, t)
  /\ pcState' = Signalled(dtls' # dtls, ice, dtls', pcState)
  /\ UNCHANGED <<ice, been, answered, agentState>>

\* _on_dtls_event with SE_OPEN: the engine holds it back without a digest
HandshakeDone(m) ==
  /\ dtls[m] = "connecting"
  /\ print[m] # NoPrint
  /\ \E s \in BOOLEAN : BecomeOne(m, Opened(Transport(m), s))
  /\ pcState' = Signalled(dtls' # dtls, ice, dtls', pcState)
  /\ UNCHANGED <<ice, been, answered, agentState>>

\* _on_dtls_event with SE_CLOSE, or SE_READ that meets the end or an error:
\* a handshake can only fail, a session can be closed too.
DtlsEnds(m) ==
  /\ \E s \in CASE dtls[m] = "connecting" -> {"failed"}
                [] dtls[m] = "connected"  -> {"closed", "failed"}
                [] OTHER                  -> {} :
       BecomeOne(m, Closed(Transport(m), s))
  /\ pcState' = Signalled(dtls' # dtls, ice, dtls', pcState)
  /\ UNCHANGED <<ice, been, answered, agentState>>

Next ==
  \/ Answer
  \/ \E m \in Mids :
       IceChanges(m) \/ ClientHello(m) \/ HandshakeDone(m) \/ DtlsEnds(m)

Spec == Init /\ [][Next]_vars

-----------------------------------------------------------------------------
(* Properties *)

\* The connection state the stream was told last is the one the ICE and DTLS
\* states of now give, although the controller hears of an ICE channel only
\* through a change of the agent's aggregate (IceAgent::_update_state,
\* TransportController::_update_state).
PcStateIsCurrent == pcState = PcState(ice, dtls)

\* SRTP never protects with the keys of an older handshake: sessions exist
\* only while DTLS is connected and hold the keys of the current engine
\* (DtlsSrtpTransport::_on_dtls_state, _setup_dtls_srtp).
KeysAreCurrent ==
  \A m \in Mids : srtp[m] # 0 => dtls[m] = "connected" /\ srtp[m] = setups[m]

\* A handshake that agreed on a suite leaves the media transport usable; the
\* only attempt to install keys is made inside the state signal, which finds
\* the transport writable (DtlsTransport::_on_dtls_event).
ConnectedHasKeys ==
  \A m \in Mids : dtls[m] = "connected" /\ suite[m] => srtp[m] # 0

\* SRTP follows DTLS: its keys are those of the handshake in force, and they are
\* there whenever that agreed on a suite (DtlsSrtpTransport::_on_dtls_state).
SrtpFollowsDtls == KeysAreCurrent /\ ConnectedHasKeys

\* Whatever comes last of ClientHello, answer and ICE connectivity starts the
\* handshake: none is left waiting for a trigger that has been
\* (DtlsTransport::_maybe_start_dtls and its callers).
HandshakeIsStarted ==
  \A m \in Mids : setups[m] > 0 /\ IceWritable(ice, m) => dtls[m] # "new"

\* A handshake may run before there is a fingerprint, when the ClientHello comes
\* before the answer or the answer brings none; it never runs on with a refused
\* one, and no peer is connected to whose certificate was not checked against the
\* one in force (DtlsTransport::_on_read_packet, set_remote_fingerprint).
PeerIsAuthenticated ==
  \A m \in Mids : /\ dtls[m] = "connecting" => print[m] \notin BadPrints
                  /\ dtls[m] = "connected" => print[m] \in Prints \ BadPrints

\* In whatever order its triggers come a handshake runs when it can, and ends
\* well only with a usable fingerprint (DtlsTransport::_maybe_start_dtls,
\* set_remote_fingerprint).
HandshakeIsDue == HandshakeIsStarted /\ PeerIsAuthenticated

\* A ClientHello kept for later is fed to the handshake it belongs to and to
\* no other (DtlsTransport::_maybe_start_dtls).
HelloIsConsumed ==
  \A m \in Mids : dtls[m] \in {"connecting", "connected"} => ~ hello[m]

\* The transport accepts data to send only while it is connected: a restart,
\* an error and a close all withdraw the flag (DtlsTransport::_set_writable_state).
WritableMeansConnected ==
  \A m \in Mids : writable[m] => dtls[m] = "connected"

=============================================================================
