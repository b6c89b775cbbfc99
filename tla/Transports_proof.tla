-------------------------- MODULE Transports_proof --------------------------
(* The transports of a PeerConnection, and the library their sessions share. *)
EXTENDS PeerTransport, SrtpLibrary, FiniteSetTheorems, TLAPS

-----------------------------------------------------------------------------
(***************************************************************************)
(* Proofs about PeerTransport, for every set of media sections and every   *)
(* set of fingerprints.                                                    *)
(*                                                                         *)
(* The safety properties of one mid are facts about its transport record   *)
(* and the writability of its channel, so the invariant is stated on the   *)
(* record (Good) and each helper of DtlsTransport gets a lemma saying that *)
(* it maps good records to good ones.  The invariant of the whole adds     *)
(* that the aggregates of the agent and of the controller are those of the *)
(* current states.                                                         *)
(***************************************************************************)

Records ==
  [dtls : DtlsStates, writable : BOOLEAN, setups : 0 .. MaxSetups,
   print : Prints \cup {NoPrint}, hello : BOOLEAN, suite : BOOLEAN,
   srtp : 0 .. MaxSetups]

\* What holds of a transport between two calls, w: its channel is writable.
\* The conjuncts after the first seven are the strengthening: an engine exists
\* in every state but new, and a waiting one has no refused fingerprint.
Good(t, w) ==
  /\ t.srtp # 0 => t.dtls = "connected" /\ t.srtp = t.setups
  /\ t.dtls = "connected" /\ t.suite => t.srtp # 0
  /\ t.setups > 0 /\ w => t.dtls # "new"
  /\ t.dtls = "connecting" => t.print \notin BadPrints
  /\ t.dtls = "connected" => t.print \in Prints \ BadPrints
  /\ t.dtls \in {"connecting", "connected"} => ~ t.hello
  /\ t.writable => t.dtls = "connected"
  /\ t.dtls # "new" => t.setups > 0
  /\ t.dtls = "new" => t.print \notin BadPrints
  /\ t.setups = 0 => t.print = NoPrint

\* A transport in state new about to be started
Startable(t) ==
  /\ t.dtls = "new" /\ t.srtp = 0 /\ ~ t.writable
  /\ t.print \notin BadPrints
  /\ t.setups = 0 => t.print = NoPrint

-----------------------------------------------------------------------------
(* The helpers *)

\* t after its state left for s, not connected: without keys
Down(t, s) == [t EXCEPT !.dtls = s, !.srtp = 0]

\* Leaving for any state but connected drops the keys and changes nothing else.
LEMMA SetStateDown ==
  ASSUME NEW t \in Records, NEW s \in DtlsStates \ {"connected"}, t.dtls # s
  PROVE  SetState(t, s) = Down(t, s)
BY DEF SetState, OnDtlsState, Records, Down

\* What such a record is, field by field.
LEMMA DownFields ==
  ASSUME NEW t \in Records, NEW s \in DtlsStates
  PROVE  /\ Down(t, s) \in Records
         /\ Down(t, s).dtls = s /\ Down(t, s).srtp = 0
         /\ Down(t, s).writable = t.writable /\ Down(t, s).setups = t.setups
         /\ Down(t, s).print = t.print
         /\ Down(t, s).hello = t.hello /\ Down(t, s).suite = t.suite
<1>. DEFINE u == [t EXCEPT !.dtls = s, !.srtp = 0]
<1>1. u \in Records
  BY SetupsAssumption, 0 \in 0 .. MaxSetups DEF Records
<1>2. u.dtls = s /\ u.srtp = 0
  BY DEF Records
<1>3. u.writable = t.writable /\ u.setups = t.setups /\ u.print = t.print
  BY DEF Records
<1>4. u.hello = t.hello /\ u.suite = t.suite
  BY DEF Records
<1>. QED  BY <1>1, <1>2, <1>3, <1>4 DEF Down

\* Starting a startable transport leaves a good one.
LEMMA MaybeStartGood ==
  ASSUME NEW t \in Records, NEW w \in BOOLEAN, Startable(t),
         NEW u \in MaybeStart(t, w)
  PROVE  u \in Records /\ Good(u, w) /\ u.print = t.print
<1>1. SetState(t, "failed") = Down(t, "failed")
  BY SetStateDown DEF Startable, DtlsStates
<1>2. SetState(t, "connecting") = Down(t, "connecting")
  BY SetStateDown DEF Startable, DtlsStates
<1>3. SetState(SetState(t, "connecting"), "failed")
        = Down(t, "failed")
  BY <1>2 DEF SetState, OnDtlsState, Records, DtlsStates, Startable, Down
<1>5. CASE t.setups = 0 \/ ~ w
  BY <1>5, PrintsAssumption DEF MaybeStart, Startable, Good, Records
<1>6. CASE t.setups > 0 /\ w
  <2>. DEFINE c == Down(t, "connecting")
              f == Down(t, "failed")
  <2>1. /\ c \in Records /\ c.dtls = "connecting" /\ c.srtp = 0 /\ c.writable = t.writable
        /\ c.setups = t.setups /\ c.print = t.print
    BY DownFields DEF DtlsStates
  <2>2. /\ f \in Records /\ f.dtls = "failed" /\ f.srtp = 0 /\ f.writable = t.writable
        /\ f.setups = t.setups /\ f.print = t.print
    BY DownFields DEF DtlsStates
  <2>. HIDE DEF c, f
  <2>3. u \in {f, [c EXCEPT !.hello = FALSE], [f EXCEPT !.hello = FALSE]}
    BY <1>1, <1>2, <1>3, <1>6 DEF MaybeStart, Records, c, f
  <2>4. CASE u = f
    BY <1>6, <2>2, <2>4 DEF Startable, Good
  <2>5. CASE u = [c EXCEPT !.hello = FALSE]
    <3>1. /\ u \in Records /\ u.dtls = "connecting" /\ u.srtp = 0 /\ u.writable = c.writable
          /\ u.setups = c.setups /\ u.print = c.print /\ ~ u.hello
      BY <2>1, <2>5 DEF Records
    <3>. QED  BY <1>6, <2>1, <3>1 DEF Startable, Good
  <2>6. CASE u = [f EXCEPT !.hello = FALSE]
    <3>1. /\ u \in Records /\ u.dtls = "failed" /\ u.srtp = 0 /\ u.writable = f.writable
          /\ u.setups = f.setups /\ u.print = f.print
      BY <2>2, <2>6 DEF Records
    <3>. QED  BY <1>6, <2>2, <3>1 DEF Startable, Good
  <2>. QED  BY <2>3, <2>4, <2>5, <2>6
<1>. QED  BY <1>5, <1>6 DEF Records

\* A new engine for a startable transport, or a refused digest, leaves a good one.
LEMMA SetupGood ==
  ASSUME NEW t \in Records, NEW w \in BOOLEAN, t.setups < MaxSetups,
         t.dtls = "new", t.srtp = 0, ~ t.writable,
         NEW u \in Setup(t, w)
  PROVE  u \in Records /\ Good(u, w) /\ u.print = t.print
<1>. DEFINE n == [t EXCEPT !.setups = t.setups + 1]
<1>1. n \in Records
  BY SetupsAssumption DEF Records
<1>2. /\ n.dtls = "new" /\ n.srtp = 0 /\ ~ n.writable /\ n.print = t.print
      /\ n.setups = t.setups + 1
  BY DEF Records
<1>3. CASE n.print \in BadPrints
  <2>1. SetState(n, "failed") = Down(n, "failed")
    BY <1>1, <1>2, SetStateDown DEF DtlsStates
  <2>2. u = Down(n, "failed")
    BY <1>3, <2>1 DEF Setup
  <2>3. n.setups > 0
    BY <1>2 DEF Records
  <2>4. /\ u \in Records /\ u.dtls = "failed" /\ u.srtp = 0 /\ u.writable = n.writable
        /\ u.setups = n.setups /\ u.print = n.print
    BY <1>1, <2>2, DownFields DEF DtlsStates
  <2>. QED  BY <1>2, <2>3, <2>4 DEF Good
<1>4. CASE n.print \notin BadPrints
  <2>1. u \in MaybeStart(n, w)
    BY <1>4 DEF Setup
  <2>2. n.setups # 0
    BY <1>2 DEF Records
  <2>3. Startable(n)
    BY <1>2, <1>4, <2>2 DEF Startable
  <2>. QED  BY <1>1, <1>2, <2>1, <2>3, MaybeStartGood
<1>. QED  BY <1>3, <1>4

\* Throwing the engine away leaves a transport that can be set up again.
LEMMA ResetClean ==
  ASSUME NEW t \in Records, NEW w \in BOOLEAN, t.srtp # 0 => t.dtls = "connected"
  PROVE  /\ Reset(t) \in Records
         /\ Reset(t).dtls = "new" /\ Reset(t).srtp = 0 /\ ~ Reset(t).writable
         /\ Reset(t).print = t.print /\ Reset(t).setups = t.setups
<1>1. CASE t.dtls = "new"
  BY <1>1 DEF Reset, SetState, Records
<1>2. CASE t.dtls # "new"
  <2>1. SetState(t, "new") = Down(t, "new")
    BY <1>2, SetStateDown DEF DtlsStates
  <2>2. /\ SetState(t, "new") \in Records /\ SetState(t, "new").dtls = "new"
        /\ SetState(t, "new").srtp = 0 /\ SetState(t, "new").setups = t.setups
        /\ SetState(t, "new").print = t.print
    BY <2>1, DownFields DEF DtlsStates
  <2>. QED  BY <2>2 DEF Reset, Records
<1>. QED  BY <1>1, <1>2

\* An answer's fingerprint, or none, leaves a good transport.
LEMMA SetFingerprintGood ==
  ASSUME NEW t \in Records, NEW w \in BOOLEAN, Good(t, w),
         NEW p \in Prints \cup {NoPrint},
         p \in {t.print, NoPrint} \/ t.setups < MaxSetups,
         NEW u \in SetFingerprint(t, p, w)
  PROVE  u \in Records /\ Good(u, w)
<1>. DEFINE q == [t EXCEPT !.print = p]
<1>q. /\ q \in Records /\ q.print = p /\ q.dtls = t.dtls /\ q.setups = t.setups
      /\ q.srtp = t.srtp /\ q.writable = t.writable /\ q.hello = t.hello
      /\ q.suite = t.suite
  BY DEF Records
<1>1. CASE p \in {t.print, NoPrint}
  BY <1>1 DEF SetFingerprint
<1>2. CASE p \notin {t.print, NoPrint} /\ t.print = NoPrint /\ t.setups > 0
  <2>1. t.dtls # "connected" /\ t.srtp = 0 /\ ~ t.writable /\ p \in Prints
    BY <1>2, PrintsAssumption DEF Good
  <2>2. (u = q /\ p \notin BadPrints) \/ u = SetState(q, "failed")
    BY <1>2, <2>1 DEF SetFingerprint
  <2>3. CASE u = q /\ p \notin BadPrints
    BY <1>2, <1>q, <2>1, <2>3 DEF Good
  <2>4. CASE u = SetState(q, "failed") /\ t.dtls = "failed"
    BY <1>2, <1>q, <2>1, <2>4 DEF SetState, Good
  <2>5. CASE u = SetState(q, "failed") /\ t.dtls # "failed"
    <3>1. u = Down(q, "failed")
      BY <1>q, <2>5, SetStateDown DEF DtlsStates
    <3>2. /\ u \in Records /\ u.dtls = "failed" /\ u.srtp = 0
          /\ u.writable = q.writable /\ u.setups = q.setups /\ u.print = q.print
      BY <1>q, <3>1, DownFields DEF DtlsStates
    <3>. QED  BY <1>2, <1>q, <2>1, <3>2 DEF Good
  <2>. QED  BY <2>2, <2>3, <2>4, <2>5
<1>3. CASE p \notin {t.print, NoPrint} /\ t.setups > 0 /\ t.print # NoPrint
  <2>1. u \in Setup(Reset(q), w)
    BY <1>3 DEF SetFingerprint
  <2>2. q.srtp # 0 => q.dtls = "connected"
    BY <1>q DEF Good
  <2>3. /\ Reset(q) \in Records
        /\ Reset(q).dtls = "new" /\ Reset(q).srtp = 0 /\ ~ Reset(q).writable
        /\ Reset(q).print = p /\ Reset(q).setups = t.setups
    BY <1>q, <2>2, ResetClean
  <2>4. Reset(q).setups < MaxSetups
    BY <1>3, <2>3
  <2>. QED  BY <2>1, <2>3, <2>4, SetupGood
<1>4. CASE p \notin {t.print, NoPrint} /\ ~ (t.setups > 0)
  <2>1. u \in Setup(q, w)
    BY <1>4 DEF SetFingerprint
  <2>2. t.setups = 0
    BY <1>4 DEF Records
  <2>3. t.dtls = "new" /\ t.srtp = 0 /\ ~ t.writable
    BY <2>2 DEF Good, Records
  <2>4. q.setups < MaxSetups
    BY <1>q, <1>4
  <2>. QED  BY <1>q, <2>1, <2>3, <2>4, SetupGood
<1>. QED  BY <1>1, <1>2, <1>3, <1>4

\* A change of the channel's writability to w leaves a good transport.
LEMMA OnIceWritableGood ==
  ASSUME NEW t \in Records, NEW v \in BOOLEAN, Good(t, v),
         NEW w \in BOOLEAN,
         NEW u \in OnIceWritable(t, w)
  PROVE  u \in Records /\ Good(u, w) /\ u.print = t.print
<1>1. CASE t.dtls = "new"
  <2>1. u \in MaybeStart(t, w)
    BY <1>1 DEF OnIceWritable
  <2>2. Startable(t)
    BY <1>1 DEF Startable, Good
  <2>. QED  BY <2>1, <2>2, MaybeStartGood
<1>2. CASE t.dtls = "connected"
  <2>1. u = [t EXCEPT !.writable = w]
    BY <1>2 DEF OnIceWritable
  <2>. QED  BY <1>2, <2>1 DEF Good, Records
<1>3. CASE t.dtls \notin {"new", "connected"}
  <2>1. u = t
    BY <1>3 DEF OnIceWritable
  <2>. QED  BY <1>3, <2>1 DEF Good
<1>. QED  BY <1>1, <1>2, <1>3

\* The end of a handshake installs the keys of its engine.
LEMMA OpenedGood ==
  ASSUME NEW t \in Records, NEW w \in BOOLEAN, Good(t, w), NEW s \in BOOLEAN,
         t.dtls = "connecting", t.print # NoPrint
  PROVE  Opened(t, s) \in Records /\ Good(Opened(t, s), w) /\ Opened(t, s).print = t.print
<1>. DEFINE o == [t EXCEPT !.writable = TRUE, !.suite = s]
            c == [o EXCEPT !.dtls = "connected"]
<1>1. c \in Records /\ c.dtls = "connected" /\ c.writable /\ c.suite = s /\ c.srtp = 0
      /\ c.setups = t.setups /\ c.print = t.print /\ c.hello = t.hello
  BY DEF Records, DtlsStates, Good
<1>2. Opened(t, s) = OnDtlsState(c)
  BY DEF Opened, SetState, Records
<1>3. t.setups # 0 /\ t.setups \in 0 .. MaxSetups /\ t.setups > 0
  BY DEF Good, Records
<1>4. CASE s
  <2>1. Opened(t, s) = [c EXCEPT !.srtp = c.setups]
    BY <1>1, <1>2, <1>4 DEF OnDtlsState
  <2>. HIDE DEF c
  <2>. DEFINE u == [c EXCEPT !.srtp = c.setups]
  <2>2. u \in Records
    BY <1>1, <1>3 DEF Records
  <2>3. u.dtls = c.dtls /\ u.srtp = c.setups /\ u.setups = c.setups /\ u.print = c.print
    BY <1>1 DEF Records
  <2>4. /\ u.writable = c.writable
        /\ u.suite = c.suite
        /\ u.hello = c.hello
    BY <1>1, Zenon DEF Records
  <2>5. Opened(t, s) = u
    BY <2>1
  <2>. HIDE DEF u
  <2>6. u.dtls = "connected" /\ u.srtp = u.setups /\ u.srtp # 0 /\ u.setups > 0
    BY <1>1, <1>3, <2>3
  <2>7. u.print \in Prints \ BadPrints /\ ~ u.hello
    BY <1>1, <2>3, <2>4 DEF Good, Records
  <2>8. Good(u, w)
    BY <2>6, <2>7 DEF Good
  <2>9. u.print = t.print
    BY <1>1, <2>3
  <2>. QED  BY <2>2, <2>5, <2>8, <2>9
<1>5. CASE ~ s
  <2>1. Opened(t, s) = c
    BY <1>1, <1>2, <1>5 DEF OnDtlsState
  <2>2. c.print \in Prints \ BadPrints /\ c.setups # 0 /\ c.setups > 0 /\ ~ c.hello
    BY <1>1, <1>3 DEF Good, Records
  <2>. HIDE DEF c
  <2>. QED  BY <1>1, <1>5, <2>1, <2>2 DEF Good
<1>. QED  BY <1>4, <1>5

\* A close or an error withdraws keys and writability.
LEMMA ClosedGood ==
  ASSUME NEW t \in Records, NEW w \in BOOLEAN, Good(t, w),
         t.dtls \in {"connecting", "connected"}, NEW s \in {"closed", "failed"}
  PROVE  Closed(t, s) \in Records /\ Good(Closed(t, s), w) /\ Closed(t, s).print = t.print
<1>. DEFINE n == [t EXCEPT !.writable = FALSE]
<1>1. n \in Records /\ n.dtls = t.dtls
  BY DEF Records
<1>2. Closed(t, s) = Down(n, s)
  BY <1>1, SetStateDown DEF Closed, DtlsStates
<1>3. s \in DtlsStates
  BY DEF DtlsStates
<1>4. ~ n.writable /\ n.setups = t.setups /\ n.print = t.print
  BY DEF Records
<1>. HIDE DEF n
<1>5. /\ Closed(t, s) \in Records /\ Closed(t, s).dtls = s /\ Closed(t, s).srtp = 0
      /\ Closed(t, s).writable = n.writable /\ Closed(t, s).setups = n.setups
      /\ Closed(t, s).print = n.print
  BY <1>1, <1>2, <1>3, DownFields
<1>. QED  BY <1>4, <1>5 DEF Good

-----------------------------------------------------------------------------
(* The aggregates *)

\* What each value of the agent's aggregate says of the channels
LEMMA AgentStateSays ==
  ASSUME NEW i \in [Mids -> IceStates]
  PROVE  /\ AgentState(i) \in IceStates
         /\ AgentState(i) = "failed" <=> \E m \in Mids : i[m] = "failed"
         /\ AgentState(i) = "disconnected" <=>
              (\E m \in Mids : i[m] = "disconnected") /\ \A m \in Mids : i[m] # "failed"
         /\ AgentState(i) = "new" <=> \A m \in Mids : i[m] = "new"
         /\ AgentState(i) = "connected" <=> \A m \in Mids : i[m] = "connected"
<1>1. CASE \E m \in Mids : i[m] = "failed"
  BY <1>1 DEF AgentState, IceStates
<1>2. CASE (\A m \in Mids : i[m] # "failed") /\ \E m \in Mids : i[m] = "disconnected"
  BY <1>2 DEF AgentState, IceStates
<1>3. CASE \A m \in Mids : i[m] = "new"
  BY <1>3, MidsAssumption DEF AgentState, IceStates
<1>4. CASE (\A m \in Mids : i[m] \notin {"failed", "disconnected"}) /\ \E m \in Mids : i[m] # "new"
  BY <1>4, MidsAssumption DEF AgentState, IceStates
<1>. QED  BY <1>1, <1>2, <1>3, <1>4

\* The agent's aggregate says everything the controller's uses of the ICE
\* states, so a change it hides from the controller is one the controller
\* need not hear of.
LEMMA AgentDeterminesPc ==
  ASSUME NEW i \in [Mids -> IceStates], NEW j \in [Mids -> IceStates],
         NEW d \in [Mids -> DtlsStates], AgentState(i) = AgentState(j)
  PROVE  PcState(i, d) = PcState(j, d)
<1>1. CASE \E m \in Mids : i[m] = "failed"
  <2>1. \E m \in Mids : j[m] = "failed"
    BY <1>1, AgentStateSays
  <2>. QED  BY <1>1, <2>1 DEF PcState
<1>2. CASE (\A m \in Mids : i[m] # "failed") /\ \E m \in Mids : i[m] = "disconnected"
  <2>1. (\A m \in Mids : j[m] # "failed") /\ \E m \in Mids : j[m] = "disconnected"
    BY <1>2, AgentStateSays
  <2>. QED  BY <1>2, <2>1 DEF PcState
<1>3. CASE \A m \in Mids : i[m] \notin {"failed", "disconnected"}
  <2>1. \A m \in Mids : j[m] \notin {"failed", "disconnected"}
    BY <1>3, AgentStateSays
  <2>2. (\A m \in Mids : i[m] = "new") <=> (\A m \in Mids : j[m] = "new")
    BY AgentStateSays
  <2>3. (\A m \in Mids : i[m] = "connected") <=> (\A m \in Mids : j[m] = "connected")
    BY AgentStateSays
  <2>4. (\E m \in Mids : i[m] \in {"new", "checking"})
          <=> (\E m \in Mids : j[m] \in {"new", "checking"})
    BY <1>3, <2>1, <2>3 DEF IceStates
  <2>. QED  BY <1>3, <2>1, <2>2, <2>4 DEF PcState
<1>. QED  BY <1>1, <1>2, <1>3

\* The controller computes a connection state.
LEMMA PcStateType ==
  ASSUME NEW i, NEW d
  PROVE  PcState(i, d) \in PcStates
BY DEF PcState, PcStates

-----------------------------------------------------------------------------
(* The invariant *)

TransportTypes ==
  /\ dtls \in [Mids -> DtlsStates]
  /\ writable \in [Mids -> BOOLEAN]
  /\ setups \in [Mids -> 0 .. MaxSetups]
  /\ print \in [Mids -> Prints \cup {NoPrint}]
  /\ hello \in [Mids -> BOOLEAN]
  /\ suite \in [Mids -> BOOLEAN]
  /\ srtp \in [Mids -> 0 .. MaxSetups]

IInv ==
  /\ TypeOK
  /\ agentState = AgentState(ice)
  /\ PcStateIsCurrent
  /\ \A m \in Mids : Good(Transport(m), IceWritable(ice, m))

\* Variables of the right types make records.
LEMMA TransportIsRecord ==
  ASSUME TransportTypes, NEW m \in Mids
  PROVE  Transport(m) \in Records
BY DEF TransportTypes, Transport, Records

\* After Become(f) every mid's transport is the one f gives it.
LEMMA Becomes ==
  ASSUME NEW f \in [Mids -> Records], Become(f)
  PROVE  TransportTypes' /\ \A m \in Mids : Transport(m)' = f[m]
<1>1. TransportTypes'
  BY DEF Become, TransportTypes, Records
<1>2. ASSUME NEW m \in Mids PROVE Transport(m)' = f[m]
  <2>1. f[m] \in Records
    OBVIOUS
  <2>2. Transport(m)' =
          [dtls |-> f[m].dtls, writable |-> f[m].writable, setups |-> f[m].setups,
           print |-> f[m].print, hello |-> f[m].hello, suite |-> f[m].suite,
           srtp |-> f[m].srtp]
    BY DEF Become, Transport
  <2>. QED  BY <2>1, <2>2 DEF Records
<1>. QED  BY <1>1, <1>2

LEMMA OneBecomes ==
  ASSUME TransportTypes, NEW m \in Mids, NEW t \in Records, BecomeOne(m, t)
  PROVE  /\ TransportTypes'
         /\ Transport(m)' = t
         /\ \A k \in Mids \ {m} : Transport(k)' = Transport(k)
<1>. DEFINE f == [k \in Mids |-> IF k = m THEN t ELSE Transport(k)]
<1>1. f \in [Mids -> Records]
  BY TransportIsRecord
<1>2. Become(f)
  BY DEF BecomeOne
<1>3. \A k \in Mids : f[k] = IF k = m THEN t ELSE Transport(k)
  OBVIOUS
<1>. HIDE DEF f
<1>4. TransportTypes' /\ \A k \in Mids : Transport(k)' = f[k]
  BY <1>1, <1>2, Becomes
<1>. QED  BY <1>3, <1>4

\* A step of one mid's transport alone.
LEMMA OneStep ==
  ASSUME IInv, NEW m \in Mids, NEW t \in Records,
         Good(t, IceWritable(ice, m)), BecomeOne(m, t),
         pcState' = Signalled(dtls' # dtls, ice, dtls', pcState),
         UNCHANGED <<ice, been, answered, agentState>>
  PROVE  IInv'
<1>0. TransportTypes
  BY DEF IInv, TypeOK, TransportTypes
<1>1. /\ TransportTypes'
      /\ Transport(m)' = t
      /\ \A k \in Mids \ {m} : Transport(k)' = Transport(k)
  BY <1>0, OneBecomes
<1>2. PcStateIsCurrent'
  BY DEF IInv, PcStateIsCurrent, Signalled
<1>3. pcState' \in PcStates
  BY <1>2, PcStateType DEF PcStateIsCurrent
<1>4. TypeOK'
  BY <1>1, <1>3 DEF IInv, TypeOK, TransportTypes
<1>5. \A k \in Mids : Good(Transport(k), IceWritable(ice, k))'
  BY <1>1 DEF IInv, IceWritable, Good
<1>. QED  BY <1>2, <1>4, <1>5 DEF IInv

LEMMA InitIInv == Init => IInv
<1>. SUFFICES ASSUME Init PROVE IInv
  OBVIOUS
<1>1. TypeOK
  BY SetupsAssumption, 0 \in 0 .. MaxSetups
     DEF Init, TypeOK, IceStates, DtlsStates, PcStates
<1>2. agentState = AgentState(ice)
  BY MidsAssumption DEF Init, AgentState
<1>3. PcStateIsCurrent
  BY DEF Init, PcStateIsCurrent, PcState
<1>4. ASSUME NEW m \in Mids PROVE Good(Transport(m), IceWritable(ice, m))
  <2>1. Transport(m) = [dtls |-> "new", writable |-> FALSE, setups |-> 0,
                        print |-> NoPrint, hello |-> FALSE, suite |-> FALSE, srtp |-> 0]
    BY DEF Init, Transport
  <2>. QED  BY <2>1, PrintsAssumption DEF Init, Good, IceWritable
<1>. QED  BY <1>1, <1>2, <1>3, <1>4 DEF IInv

LEMMA IceChangesIInv ==
  ASSUME IInv, NEW m \in Mids, IceChanges(m)
  PROVE  IInv'
<1>1. PICK s \in IceNext(m) : 
        LET new == [ice EXCEPT ![m] = s] IN
          /\ \E t \in IF IceWritable(new, m) = IceWritable(ice, m)
                        THEN {Transport(m)}
                        ELSE OnIceWritable(Transport(m), IceWritable(new, m)) :
               /\ BecomeOne(m, t)
               /\ \E recv \in BOOLEAN :
                    pcState' =
                      Signalled(AgentState(new) # agentState, new, dtls',
                                Signalled(dtls' # dtls \/ recv, ice, dtls', pcState))
          /\ ice' = new
          /\ been' = [been EXCEPT ![m] = @ \/ s = "connected"]
          /\ agentState' = AgentState(new)
          /\ UNCHANGED answered
  BY DEF IceChanges
<1>. DEFINE v == IceWritable(ice, m)
            w == IceWritable(ice', m)
<1>2. ice' = [ice EXCEPT ![m] = s]
  BY <1>1
<1>3. PICK t \in IF w = v THEN {Transport(m)} ELSE OnIceWritable(Transport(m), w) :
        /\ BecomeOne(m, t)
        /\ \E recv \in BOOLEAN :
             pcState' =
               Signalled(AgentState(ice') # agentState, ice', dtls',
                         Signalled(dtls' # dtls \/ recv, ice, dtls', pcState))
  BY <1>1, <1>2
<1>4. TransportTypes /\ Transport(m) \in Records /\ Good(Transport(m), v)
  BY TransportIsRecord DEF IInv, TypeOK, TransportTypes
<1>5. s \in IceStates /\ ice' \in [Mids -> IceStates] /\ ice'[m] = s
  BY <1>2 DEF IceNext, IceStates, IInv, TypeOK
<1>7. v \in BOOLEAN /\ w \in BOOLEAN
  BY DEF IceWritable
<1>8. t \in Records /\ Good(t, w)
  <2>1. CASE w = v
    BY <1>3, <1>4, <2>1
  <2>2. CASE w # v
    <3>1. t \in OnIceWritable(Transport(m), w)
      BY <1>3, <2>2
    <3>. HIDE DEF v, w
    <3>. QED  BY <1>4, <1>7, <3>1, OnIceWritableGood
  <2>. QED  BY <2>1, <2>2
<1>9. /\ TransportTypes'
      /\ Transport(m)' = t
      /\ \A k \in Mids \ {m} : Transport(k)' = Transport(k)
  BY <1>3, <1>4, <1>8, OneBecomes
<1>10. agentState' = AgentState(ice')
  BY <1>1, <1>2
<1>11. PcStateIsCurrent'
  <2>1. PICK recv \in BOOLEAN :
          pcState' = Signalled(AgentState(ice') # agentState, ice', dtls',
                               Signalled(dtls' # dtls \/ recv, ice, dtls', pcState))
    BY <1>3
  <2>2. Signalled(dtls' # dtls \/ recv, ice, dtls', pcState) = PcState(ice, dtls')
    BY DEF Signalled, IInv, PcStateIsCurrent
  <2>3. AgentState(ice') = AgentState(ice) => PcState(ice', dtls') = PcState(ice, dtls')
    BY <1>5, <1>9, AgentDeterminesPc DEF IInv, TypeOK, TransportTypes
  <2>. QED  BY <2>1, <2>2, <2>3 DEF Signalled, IInv, PcStateIsCurrent
<1>12. pcState' \in PcStates
  BY <1>11, PcStateType DEF PcStateIsCurrent
<1>13. been' = [been EXCEPT ![m] = @ \/ s = "connected"] /\ answered' = answered
  BY <1>1
<1>14. TypeOK'
  <2>1. agentState' \in IceStates
    BY <1>5, <1>10, AgentStateSays
  <2>. QED  BY <1>5, <1>9, <1>12, <1>13, <2>1 DEF IInv, TypeOK, TransportTypes
<1>15. \A k \in Mids : Good(Transport(k), IceWritable(ice, k))'
  <2>1. ASSUME NEW k \in Mids \ {m} PROVE Good(Transport(k), IceWritable(ice, k))'
    <3>1. ice'[k] = ice[k]
      BY <1>2 DEF IInv, TypeOK
    <3>2. Good(Transport(k), IceWritable(ice, k))
      BY DEF IInv
    <3>. QED  BY <1>9, <3>1, <3>2 DEF IceWritable, Good
  <2>2. Good(Transport(m), IceWritable(ice, m))'
    BY <1>8, <1>9 DEF Good
  <2>. QED  BY <2>1, <2>2
<1>. QED  BY <1>10, <1>11, <1>14, <1>15 DEF IInv

LEMMA AnswerIInv ==
  ASSUME IInv, Answer
  PROVE  IInv'
<1>1. PICK p \in [Mids -> Prints \cup {NoPrint}] :
        /\ \A m \in Mids : p[m] \in {print[m], NoPrint} \/ setups[m] < MaxSetups
        /\ \E f \in [Mids -> UNION {SetFingerprint(Transport(m), p[m], IceWritable(ice, m)) :
                                    m \in Mids}] :
             /\ \A m \in Mids : f[m] \in SetFingerprint(Transport(m), p[m], IceWritable(ice, m))
             /\ Become(f)
  BY DEF Answer
<1>2. PICK f \in [Mids -> UNION {SetFingerprint(Transport(m), p[m], IceWritable(ice, m)) :
                                 m \in Mids}] :
        /\ \A m \in Mids : f[m] \in SetFingerprint(Transport(m), p[m], IceWritable(ice, m))
        /\ Become(f)
  BY <1>1
<1>3. /\ answered' = TRUE
      /\ pcState' = Signalled(dtls' # dtls, ice, dtls', pcState)
      /\ UNCHANGED <<ice, been, agentState>>
  BY DEF Answer
<1>4. ASSUME NEW m \in Mids
      PROVE  f[m] \in Records /\ Good(f[m], IceWritable(ice, m))
  <2>1. Transport(m) \in Records /\ Good(Transport(m), IceWritable(ice, m))
    BY TransportIsRecord DEF IInv, TypeOK, TransportTypes
  <2>2. p[m] \in {Transport(m).print, NoPrint} \/ Transport(m).setups < MaxSetups
    BY <1>1 DEF Transport
  <2>3. IceWritable(ice, m) \in BOOLEAN /\ p[m] \in Prints \cup {NoPrint}
    BY DEF IceWritable
  <2>. QED  BY <1>2, <2>1, <2>2, <2>3, SetFingerprintGood
<1>5. f \in [Mids -> Records]
  BY <1>4
<1>6. TransportTypes' /\ \A m \in Mids : Transport(m)' = f[m]
  BY <1>2, <1>5, Becomes
<1>7. PcStateIsCurrent'
  BY <1>3 DEF IInv, PcStateIsCurrent, Signalled
<1>8. pcState' \in PcStates
  BY <1>7, PcStateType DEF PcStateIsCurrent
<1>9. TypeOK'
  BY <1>3, <1>6, <1>8 DEF IInv, TypeOK, TransportTypes
<1>10. \A m \in Mids : Good(Transport(m), IceWritable(ice, m))'
  BY <1>3, <1>4, <1>6 DEF IceWritable, Good
<1>. QED  BY <1>3, <1>7, <1>9, <1>10 DEF IInv

LEMMA ClientHelloIInv ==
  ASSUME IInv, NEW m \in Mids, ClientHello(m)
  PROVE  IInv'
<1>. DEFINE c == [Transport(m) EXCEPT !.hello = TRUE]
            w == IceWritable(ice, m)
<1>1. PICK t \in IF setups[m] = 0 THEN Setup(c, w) ELSE {c} : BecomeOne(m, t)
  BY DEF ClientHello
<1>2. Transport(m) \in Records /\ Good(Transport(m), w) /\ Transport(m).dtls = "new"
      /\ Transport(m).setups = setups[m] /\ Transport(m).print = print[m]
  BY TransportIsRecord DEF IInv, TypeOK, TransportTypes, ClientHello, Transport
<1>3. /\ c \in Records /\ c.dtls = "new" /\ c.setups = setups[m] /\ c.print = print[m]
      /\ c.srtp = 0 /\ ~ c.writable
  BY <1>2 DEF Records, Good
<1>4. w \in BOOLEAN
  BY DEF IceWritable
<1>. HIDE DEF c
<1>5. t \in Records /\ Good(t, w)
  <2>1. CASE setups[m] = 0
    <3>1. t \in Setup(c, w) /\ c.setups < MaxSetups
      BY <1>1, <1>3, <2>1, SetupsAssumption
    <3>. HIDE DEF w
    <3>. QED  BY <1>3, <1>4, <3>1, SetupGood
  <2>2. CASE setups[m] # 0
    <3>1. t = c
      BY <1>1, <2>2
    <3>. QED  BY <1>2, <1>3, <1>4, <2>2, <3>1 DEF Good
  <2>. QED  BY <2>1, <2>2
<1>6. /\ pcState' = Signalled(dtls' # dtls, ice, dtls', pcState)
      /\ UNCHANGED <<ice, been, answered, agentState>>
  BY DEF ClientHello
<1>. QED  BY <1>1, <1>5, <1>6, OneStep

LEMMA HandshakeDoneIInv ==
  ASSUME IInv, NEW m \in Mids, HandshakeDone(m)
  PROVE  IInv'
<1>1. PICK s \in BOOLEAN : BecomeOne(m, Opened(Transport(m), s))
  BY DEF HandshakeDone
<1>2. /\ Transport(m) \in Records /\ Good(Transport(m), IceWritable(ice, m))
      /\ Transport(m).dtls = "connecting" /\ Transport(m).print # NoPrint
  BY TransportIsRecord DEF IInv, TypeOK, TransportTypes, HandshakeDone, Transport
<1>3. IceWritable(ice, m) \in BOOLEAN
  BY DEF IceWritable
<1>4. /\ Opened(Transport(m), s) \in Records
      /\ Good(Opened(Transport(m), s), IceWritable(ice, m))
  BY <1>2, <1>3, OpenedGood
<1>5. /\ pcState' = Signalled(dtls' # dtls, ice, dtls', pcState)
      /\ UNCHANGED <<ice, been, answered, agentState>>
  BY DEF HandshakeDone
<1>. QED  BY <1>1, <1>4, <1>5, OneStep

LEMMA DtlsEndsIInv ==
  ASSUME IInv, NEW m \in Mids, DtlsEnds(m)
  PROVE  IInv'
<1>1. PICK s \in CASE dtls[m] = "connecting" -> {"failed"}
                   [] dtls[m] = "connected"  -> {"closed", "failed"}
                   [] OTHER                  -> {} :
        BecomeOne(m, Closed(Transport(m), s))
  BY DEF DtlsEnds
<1>2. /\ Transport(m) \in Records /\ Good(Transport(m), IceWritable(ice, m))
      /\ Transport(m).dtls = dtls[m]
  BY TransportIsRecord DEF IInv, TypeOK, TransportTypes, Transport
<1>3. dtls[m] \in {"connecting", "connected"} /\ s \in {"closed", "failed"}
  BY <1>1
<1>4. IceWritable(ice, m) \in BOOLEAN
  BY DEF IceWritable
<1>5. /\ Closed(Transport(m), s) \in Records
      /\ Good(Closed(Transport(m), s), IceWritable(ice, m))
  BY <1>2, <1>3, <1>4, ClosedGood
<1>6. /\ pcState' = Signalled(dtls' # dtls, ice, dtls', pcState)
      /\ UNCHANGED <<ice, been, answered, agentState>>
  BY DEF DtlsEnds
<1>. QED  BY <1>1, <1>5, <1>6, OneStep

LEMMA NextIInv == IInv /\ [Next]_vars => IInv'
<1>. SUFFICES ASSUME IInv, [Next]_vars PROVE IInv'
  OBVIOUS
<1>1. CASE Answer
  BY <1>1, AnswerIInv
<1>2. CASE \E m \in Mids : IceChanges(m) \/ ClientHello(m) \/ HandshakeDone(m) \/ DtlsEnds(m)
  BY <1>2, IceChangesIInv, ClientHelloIInv, HandshakeDoneIInv, DtlsEndsIInv
<1>3. CASE UNCHANGED vars
  <2>1. \A m \in Mids : Transport(m)' = Transport(m)
    BY <1>3 DEF vars, dtlsVars, Transport
  <2>2. \A m \in Mids : Good(Transport(m), IceWritable(ice, m))'
    BY <1>3, <2>1 DEF IInv, vars, IceWritable, Good
  <2>3. TypeOK' /\ PcStateIsCurrent' /\ agentState' = AgentState(ice')
    BY <1>3 DEF IInv, vars, dtlsVars, TypeOK, PcStateIsCurrent
  <2>. QED  BY <2>2, <2>3 DEF IInv
<1>. QED  BY <1>1, <1>2, <1>3 DEF Next

-----------------------------------------------------------------------------
(* The theorems *)

\* The invariant holds in every reachable state.
THEOREM IInvHolds == Spec => []IInv
BY InitIInv, NextIInv, PTL DEF Spec

\* Every variable keeps its type (the members of IceAgent, DtlsTransport,
\* DtlsSrtpTransport and TransportController).
THEOREM TypeCorrect == Spec => []TypeOK
<1>1. IInv => TypeOK
  BY DEF IInv
<1>. QED  BY <1>1, IInvHolds, PTL

\* The stream is told the connection state that the transports are in, with
\* any number of them (TransportController::_update_state).
THEOREM PcStateStaysCurrent == Spec => []PcStateIsCurrent
<1>1. IInv => PcStateIsCurrent
  BY DEF IInv
<1>. QED  BY <1>1, IInvHolds, PTL

\* SRTP keys belong to the current handshake and are there after it
\* (DtlsSrtpTransport::_on_dtls_state).
THEOREM MediaIsKeyed == Spec => []SrtpFollowsDtls
<1>1. IInv => SrtpFollowsDtls
  BY DEF IInv, Good, Transport, SrtpFollowsDtls, KeysAreCurrent, ConnectedHasKeys
<1>. QED  BY <1>1, IInvHolds, PTL

\* In whatever order the triggers come, the handshake is started, and a peer is
\* connected only with a usable fingerprint to check it against, which the answer
\* may bring late or not at all (DtlsTransport::_maybe_start_dtls,
\* set_remote_fingerprint).
THEOREM HandshakeIsSound == Spec => []HandshakeIsDue
<1>1. IInv => HandshakeIsDue
  BY DEF IInv, Good, Transport, HandshakeIsDue, HandshakeIsStarted, PeerIsAuthenticated
<1>. QED  BY <1>1, IInvHolds, PTL

\* Only a connected transport takes data, and a kept ClientHello is gone by
\* then (DtlsTransport::_set_writable_state, _maybe_start_dtls).
THEOREM TransportIsConsistent == Spec => [](WritableMeansConnected /\ HelloIsConsumed)
<1>1. IInv => WritableMeansConnected /\ HelloIsConsumed
  BY DEF IInv, Good, Transport, WritableMeansConnected, HelloIsConsumed
<1>. QED  BY <1>1, IInvHolds, PTL

-----------------------------------------------------------------------------
(***************************************************************************)
(* The library outlives every session that uses it, for any number of      *)
(* sessions and threads.  Counting is exact (UsesAreCounted) because only  *)
(* the holder of the mutex changes the count, together with its own flag;  *)
(* so a thread that finds one use left knows that no other session has the *)
(* library, and none can get it before the mutex is released.              *)
(***************************************************************************)

\* Who is inside the mutex
Inside == {"init", "install", "count", "shutdown"}

\* What the threads' places say of the flags, the mutex and the library
Places ==
  /\ \A s \in Sessions : pc[s] \in Inside <=> lock = s
  /\ \A s \in Sessions : pc[s] \in {"key", "leave"} => inited[s]
  /\ \A s \in Sessions : session[s] => pc[s] = "keyed" /\ inited[s]
  /\ \A s \in Sessions : pc[s] \notin {"key", "keyed", "leave"} => ~ inited[s]
  /\ \A s \in Sessions : pc[s] \in {"init", "install", "shutdown"} => \A r \in Sessions : ~ inited[r]
  /\ \A s \in Sessions : pc[s] \in {"install", "count"} => up
  /\ (\E s \in Sessions : inited[s]) => up

SrtpIInv == SrtpTypeOK /\ UsesAreCounted /\ Places

\* The uses are a finite set, empty only if nobody has one.
LEMMA UsersFinite ==
  /\ IsFiniteSet(Users)
  /\ Cardinality(Users) \in Nat
  /\ Cardinality(Users) = 0 <=> \A s \in Sessions : ~ inited[s]
<1>1. IsFiniteSet(Users)
  BY SessionsAssumption, FS_Subset DEF Users
<1>. QED  BY <1>1, FS_CardinalityType, FS_EmptySet DEF Users

LEMMA SrtpInitIInv == SrtpInit => SrtpIInv
<1>. SUFFICES ASSUME SrtpInit PROVE SrtpIInv
  OBVIOUS
<1>1. SrtpTypeOK
  BY DEF SrtpInit, SrtpTypeOK, PCs
<1>2. Users = {}
  BY DEF SrtpInit, Users
<1>3. UsesAreCounted
  BY <1>2, FS_EmptySet DEF SrtpInit, UsesAreCounted
<1>4. Places
  BY SessionsAssumption DEF SrtpInit, Places, Inside
<1>. QED  BY <1>1, <1>3, <1>4 DEF SrtpIInv

\* Steps that touch neither the count nor a flag
LEMMA CountKept ==
  ASSUME SrtpIInv, count' = count, inited' = inited
  PROVE  UsesAreCounted'
BY DEF SrtpIInv, UsesAreCounted, Users

LEMMA CountIInv ==
  ASSUME SrtpIInv, NEW s \in Sessions, Count(s)
  PROVE  SrtpIInv'
<1>1. ~ inited[s] /\ up
  BY DEF SrtpIInv, Places, Count
<1>2. SrtpTypeOK'
  BY DEF SrtpIInv, SrtpTypeOK, PCs, Count, Go
<1>3. UsesAreCounted'
  <2>1. Users' = Users \cup {s} /\ s \notin Users
    BY <1>1 DEF Users, Count, SrtpIInv, SrtpTypeOK
  <2>2. Cardinality(Users') = Cardinality(Users) + 1
    BY <2>1, UsersFinite, FS_AddElement
  <2>. QED  BY <2>2 DEF SrtpIInv, UsesAreCounted, Count
<1>4. Places'
  BY <1>1, SessionsAssumption DEF SrtpIInv, SrtpTypeOK, Places, Inside, Count, Go
<1>. QED  BY <1>2, <1>3, <1>4 DEF SrtpIInv

LEMMA DecrementIInv ==
  ASSUME SrtpIInv, NEW s \in Sessions, Decrement(s)
  PROVE  SrtpIInv'
<1>1. inited[s] /\ up /\ pc[s] = "leave" /\ lock = Nobody
  BY DEF SrtpIInv, Places, Decrement
<1>2. Users' = Users \ {s} /\ s \in Users
  BY <1>1 DEF Users, Decrement, SrtpIInv, SrtpTypeOK
<1>3. /\ IsFiniteSet(Users)
      /\ Cardinality(Users') = Cardinality(Users) - 1
  BY <1>2, UsersFinite, FS_RemoveElement
<1>4. IsFiniteSet(Users') /\ Cardinality(Users') \in Nat
  BY <1>2, <1>3, FS_RemoveElement, FS_CardinalityType
<1>5. UsesAreCounted' /\ count' \in Nat
  BY <1>3, <1>4 DEF SrtpIInv, UsesAreCounted, Decrement
<1>6. SrtpTypeOK'
  BY <1>5 DEF SrtpIInv, SrtpTypeOK, PCs, Decrement, Go
<1>7. count = 1 => \A r \in Sessions : ~ inited'[r]
  <2>1. ASSUME count = 1 PROVE Users' = {}
    BY <1>3, <1>4, <2>1, FS_EmptySet DEF SrtpIInv, UsesAreCounted
  <2>. QED  BY <2>1 DEF Users
<1>8. Places'
  <2>1. CASE count = 1
    BY <1>1, <1>7, <2>1, SessionsAssumption
       DEF SrtpIInv, SrtpTypeOK, Places, Inside, Decrement, Go
  <2>2. CASE count # 1
    BY <1>1, <2>2, SessionsAssumption DEF SrtpIInv, SrtpTypeOK, Places, Inside, Decrement, Go
  <2>. QED  BY <2>1, <2>2
<1>. QED  BY <1>5, <1>6, <1>8 DEF SrtpIInv

LEMMA EnterIncrementIInv ==
  ASSUME SrtpIInv, NEW s \in Sessions, EnterIncrement(s)
  PROVE  SrtpIInv'
<1>1. UsesAreCounted'
  BY CountKept DEF EnterIncrement
<1>2. SrtpTypeOK'
  BY DEF SrtpIInv, SrtpTypeOK, PCs, EnterIncrement, Go
<1>3. count = 0 <=> \A r \in Sessions : ~ inited[r]
  BY UsersFinite DEF SrtpIInv, UsesAreCounted
<1>4. Places'
  BY <1>3, SessionsAssumption DEF SrtpIInv, SrtpTypeOK, Places, Inside, EnterIncrement, Go
<1>. QED  BY <1>1, <1>2, <1>4 DEF SrtpIInv

LEMMA SrtpNextIInv == SrtpIInv /\ [SrtpNext]_srtpVars => SrtpIInv'
<1>. SUFFICES ASSUME SrtpIInv, [SrtpNext]_srtpVars PROVE SrtpIInv'
  OBVIOUS
<1>1. ASSUME NEW s \in Sessions, Construct(s) PROVE SrtpIInv'
  BY <1>1, CountKept, SessionsAssumption DEF SrtpIInv, SrtpTypeOK, PCs, Places, Inside, Construct, Go
<1>2. ASSUME NEW s \in Sessions, SetKey(s) PROVE SrtpIInv'
  BY <1>2, CountKept, SessionsAssumption DEF SrtpIInv, SrtpTypeOK, PCs, Places, Inside, SetKey, Go
<1>3. ASSUME NEW s \in Sessions, InitLibrary(s) PROVE SrtpIInv'
  BY <1>3, CountKept, SessionsAssumption
     DEF SrtpIInv, SrtpTypeOK, PCs, Places, Inside, InitLibrary, GiveUp, Go
<1>4. ASSUME NEW s \in Sessions, Install(s) PROVE SrtpIInv'
  BY <1>4, CountKept, SessionsAssumption
     DEF SrtpIInv, SrtpTypeOK, PCs, Places, Inside, Install, GiveUp, Go
<1>5. ASSUME NEW s \in Sessions, CreateSession(s) PROVE SrtpIInv'
  BY <1>5, CountKept, SessionsAssumption
     DEF SrtpIInv, SrtpTypeOK, PCs, Places, Inside, CreateSession, Go
<1>6. ASSUME NEW s \in Sessions, Destroy(s) PROVE SrtpIInv'
  BY <1>6, CountKept, SessionsAssumption DEF SrtpIInv, SrtpTypeOK, PCs, Places, Inside, Destroy, Go
<1>7. ASSUME NEW s \in Sessions, Shutdown(s) PROVE SrtpIInv'
  BY <1>7, CountKept, SessionsAssumption DEF SrtpIInv, SrtpTypeOK, PCs, Places, Inside, Shutdown, Go
<1>8. CASE UNCHANGED srtpVars
  BY <1>8, CountKept DEF srtpVars, SrtpIInv, SrtpTypeOK, Places
<1>. QED
  BY <1>1, <1>2, <1>3, <1>4, <1>5, <1>6, <1>7, <1>8,
     CountIInv, DecrementIInv, EnterIncrementIInv DEF SrtpNext

-----------------------------------------------------------------------------
(* The theorems *)

\* The invariant holds in every reachable state.
THEOREM SrtpIInvHolds == SrtpSpec => []SrtpIInv
BY SrtpInitIInv, SrtpNextIInv, PTL DEF SrtpSpec

\* The usage count never goes below zero and every variable keeps its type
\* (g_libsrtp_usage_count).
THEOREM SrtpTypeCorrect == SrtpSpec => []SrtpTypeOK
<1>1. SrtpIInv => SrtpTypeOK
  BY DEF SrtpIInv
<1>. QED  BY <1>1, SrtpIInvHolds, PTL

\* The usage count is the number of sessions that hold a use
\* (_increment_libsrtp_usage_count_and_maybe_init and its counterpart).
THEOREM CountIsExact == SrtpSpec => []UsesAreCounted
<1>1. SrtpIInv => UsesAreCounted
  BY DEF SrtpIInv
<1>. QED  BY <1>1, SrtpIInvHolds, PTL

\* Nobody shuts libsrtp down under a session of another thread
\* (~SrtpSession, _decrement_libsrtp_usage_count_and_maybe_deinit).
THEOREM LibraryIsThere == SrtpSpec => []LibraryOutlivesSessions
<1>1. SrtpIInv => LibraryOutlivesSessions
  BY DEF SrtpIInv, Places, LibraryOutlivesSessions
<1>. QED  BY <1>1, SrtpIInvHolds, PTL

=============================================================================
