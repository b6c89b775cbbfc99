----------------------------- MODULE IceChannel -----------------------------
(***************************************************************************)
(* ice/: one IceTransportChannel with its IceController and the            *)
(* IceConnections its port creates, one for each remote address that       *)
(* sends a binding request.                                                *)
(*                                                                         *)
(* Everything runs on the worker's event-loop thread, so an action is a    *)
(* whole callback.  A callback makes several calls that each re-sort and   *)
(* re-select, so the handlers are written as operators from a state to the *)
(* state after the call and composed in the order of the code; a state is  *)
(* a record of the two variables, [ch |-> channel, cn |-> connections].    *)
(*                                                                         *)
(* Clock readings are abstracted: an action chooses which timeouts have    *)
(* passed, consistently with the pings and responses so far.               *)
(***************************************************************************)
EXTENDS Naturals, Sequences, FiniteSets, Functions

CONSTANTS Conn,           \* remote addresses, and the connection made for each
          None,
          Priority,       \* Priority[c]: the candidate pair's priority
          Rtt,            \* round-trip times (averaged) of answered pings
          InitialRtt,     \* _rtt before the first response (3000)
          MinImprovement, \* k_min_improvement
          ConnectFails,   \* CONNECTION_WRITE_CONNECT_FAILS: pings unanswered before
                          \* a connection may be unreliable, where the count saturates
          PeerRejects     \* whether the peer may answer a ping with a fatal error

ASSUME RttAssumption ==
  /\ Rtt \subseteq Nat /\ InitialRtt \in Nat \ Rtt
  /\ MinImprovement \in Nat /\ ConnectFails \in Nat \ {0}
  /\ Priority \in [Conn -> Nat] /\ PeerRejects \in BOOLEAN
ASSUME NoneAssumption == None \notin Conn

\* IceConnection::WriteState, in the order the code compares.
Writable == 0
Unreliable == 1
WriteInit == 2
WriteTimeout == 3

VARIABLES channel,  \* IceTransportChannel and IceController
          conns     \* the IceConnections

vars == <<channel, conns>>

\* No connection yet; a connection in IceController::_connections; one destroyed
\* but still in UDPPort::_connections, as IceConnections are never deleted.
ConnStatus == {"none", "live", "destroyed"}

\* IceConnection: unanswered counts _pings_since_last_response up to
\* ConnectFails; open, up to 2 for "two or more", the requests whose response
\* would be accepted; password says whether the remote password is known, will be
\* with the answer, or never (the user name is not the one the answer brings).
Connection == [status : ConnStatus, write : 0..3, receiving : BOOLEAN,
               rtt : Rtt \cup {InitialRtt}, unanswered : 0..ConnectFails, open : 0..2,
               password : {"known", "awaited", "never"}]
NoConnection == [status |-> "none", write |-> WriteInit, receiving |-> FALSE,
                 rtt |-> InitialRtt, unanswered |-> 0, open |-> 0,
                 password |-> "awaited"]

IceState == {"new", "checking", "connected", "failed", "disconnected"}

\* sorted is _connections; selected the channel's _selected_connection,
\* preferred the controller's; answer whether the remote parameters are set.
Channel == [sorted : Seq(Conn), selected : Conn \cup {None},
            preferred : Conn \cup {None}, unpinged : SUBSET Conn,
            pinged : SUBSET Conn, writable : BOOLEAN, receiving : BOOLEAN,
            state : IceState, had : BOOLEAN, hasBeen : BOOLEAN,
            pinging : BOOLEAN, answer : BOOLEAN]

TypeOK ==
  /\ channel \in Channel
  /\ conns \in [Conn -> Connection]

Init ==
  /\ channel = [sorted |-> <<>>, selected |-> None, preferred |-> None,
                unpinged |-> {}, pinged |-> {}, writable |-> FALSE,
                receiving |-> FALSE, state |-> "new", had |-> FALSE,
                hasBeen |-> FALSE, pinging |-> FALSE, answer |-> FALSE]
  /\ conns = [c \in Conn |-> NoConnection]

now == [ch |-> channel, cn |-> conns]
Becomes(st) == channel' = st.ch /\ conns' = st.cn

----------------------------------------------------------------------------
(* IceController: choosing a connection *)

ReadyToSend(st, c) == c # None /\ st.cn[c].write \in {Writable, Unreliable}

\* _compare_connections, then the smaller round-trip time.
Better(st, a, b) ==
  LET x == st.cn[a]
      y == st.cn[b]
  IN IF x.write # y.write THEN x.write < y.write
     ELSE IF x.receiving # y.receiving THEN x.receiving
     ELSE IF Priority[a] # Priority[b] THEN Priority[a] > Priority[b]
     ELSE x.rtt < y.rtt

\* absl::c_stable_sort: each connection comes after those that are before it.
Before(st, i, j) ==
  LET s == st.ch.sorted
  IN \/ Better(st, s[i], s[j])
     \/ ~Better(st, s[j], s[i]) /\ i < j
AheadOf(st, i) == {j \in DOMAIN st.ch.sorted : Before(st, j, i)}

Sorted(st) ==
  LET s == st.ch.sorted
  IN [k \in DOMAIN s |-> s[CHOOSE i \in DOMAIN s : Cardinality(AheadOf(st, i)) = k - 1]]

\* sort_and_switch_connection once the list is sorted: the connection to switch
\* to, or None.
Switch(st) ==
  LET top == IF st.ch.sorted = <<>> THEN None ELSE Head(st.ch.sorted)
  IN IF ~ReadyToSend(st, top) \/ st.ch.preferred = top THEN None
     ELSE IF st.ch.preferred = None THEN top
     ELSE IF st.cn[top].rtt + MinImprovement <= st.cn[st.ch.preferred].rtt THEN top
     ELSE None

Weak(st) == LET c == st.ch.preferred
            IN c = None \/ st.cn[c].write # Writable \/ ~st.cn[c].receiving

----------------------------------------------------------------------------
(* IceTransportChannel: its state *)

Live(st) == Range(st.ch.sorted)

\* _compute_ice_transport_state, when the channel's writable flag is w.
ComputedState(st, w) ==
  LET active == \E c \in Live(st) : st.cn[c].write # WriteTimeout
  IN IF st.ch.had /\ ~active THEN "failed"
     ELSE IF st.ch.hasBeen /\ ~w THEN "disconnected"
     ELSE IF ~st.ch.had /\ ~active THEN "new"
     ELSE IF active /\ ~w THEN "checking"
     ELSE "connected"

ActualWritable(st) ==
  st.ch.selected # None /\ st.cn[st.ch.selected].write = Writable
ActualReceiving(st) == \E c \in Live(st) : st.cn[c].receiving

\* _update_state
Updated(st) ==
  LET w == ActualWritable(st)
      st2 == [st EXCEPT !.ch.writable = w, !.ch.hasBeen = @ \/ w,
                        !.ch.receiving = ActualReceiving(st)]
  IN [st2 EXCEPT !.ch.state = ComputedState(st2, w)]

\* _sort_connections_and_update_state: sort, switch if the controller says so,
\* update, and start the ping timer once a connection can be pinged.  Until the
\* first ping nothing is selected, so that only the password counts.
Resorted(st) ==
  LET sorted == [st EXCEPT !.ch.sorted = Sorted(st)]
      top == Switch(sorted)
      switched == IF top = None THEN sorted
                  ELSE [sorted EXCEPT !.ch.selected = top, !.ch.preferred = top]
      updated == Updated(switched)
  IN [updated EXCEPT !.ch.pinging =
        @ \/ \E c \in Live(updated) : updated.cn[c].password = "known" /\ Weak(updated)]

----------------------------------------------------------------------------
(* IceConnection: each change of state signals the channel *)

SetWriteState(st, c, w) ==
  IF st.cn[c].write = w THEN st ELSE Resorted([st EXCEPT !.cn[c].write = w])

SetReceiving(st, c, r) ==
  IF st.cn[c].receiving = r THEN st ELSE Resorted([st EXCEPT !.cn[c].receiving = r])

\* IceController::on_connection_destroyed erases the connection from its lists, and
\* leaves its own selected connection as it is.
Erased(s, c) ==
  IF c \notin Range(s) THEN s
  ELSE LET k == CHOOSE i \in DOMAIN s : s[i] = c /\ \A j \in DOMAIN s : j < i => s[j] # c
       IN SubSeq(s, 1, k - 1) \o SubSeq(s, k + 1, Len(s))

\* A mutant: a destroyed connection leaves without the channel's state updated.
DestroyedSilently(st, c) ==
  LET ch == [st.ch EXCEPT !.sorted = Erased(@, c),
                          !.pinged = @ \ {c}, !.unpinged = @ \ {c}]
      st2 == [ch |-> ch, cn |-> [st.cn EXCEPT ![c].status = "destroyed"]]
  IN IF ch.selected = c THEN Resorted([st2 EXCEPT !.ch.selected = None]) ELSE st2

\* A mutant: the channel keeps the connection selected.
DestroyedStaysSelected(st, c) ==
  LET ch == [st.ch EXCEPT !.sorted = Erased(@, c),
                          !.pinged = @ \ {c}, !.unpinged = @ \ {c}]
  IN Updated([ch |-> ch, cn |-> [st.cn EXCEPT ![c].status = "destroyed"]])

\* destroy() and _on_connection_destroyed
Destroyed(st, c) ==
  LET ch == [st.ch EXCEPT !.sorted = Erased(@, c),
                          !.pinged = @ \ {c}, !.unpinged = @ \ {c}]
      st2 == [ch |-> ch, cn |-> [st.cn EXCEPT ![c].status = "destroyed"]]
  IN IF ch.selected = c THEN Resorted([st2 EXCEPT !.ch.selected = None])
     ELSE Updated(st2)

\* update_state at a time when elapsed says which timeouts of the connection's
\* oldest unanswered ping have passed (1: unreliable, 2: write timeout) and
\* lapsed whether the last response is too old.
Aged(st, c, elapsed, lapsed) ==
  LET st1 == IF /\ st.cn[c].write = Writable
                /\ st.cn[c].unanswered >= ConnectFails /\ elapsed >= 1
               THEN SetWriteState(st, c, Unreliable) ELSE st
      st2 == IF /\ st1.cn[c].write \in {Unreliable, WriteInit}
                /\ st1.cn[c].unanswered > 0 /\ elapsed = 2
               THEN SetWriteState(st1, c, WriteTimeout) ELSE st1
      heard == st2.cn[c].rtt # InitialRtt
  IN SetReceiving(st2, c, heard /\ \/ st2.cn[c].unanswered = 0
                                   \/ st2.cn[c].receiving /\ ~lapsed)

\* _update_connection_states over the list as it was when the timer fired.
AllAged(st, list, elapsed, lapsed) ==
  LET after[n \in 0..Len(list)] ==
        IF n = 0 THEN st
        ELSE Aged(after[n - 1], list[n], elapsed[list[n]], lapsed[list[n]])
  IN after[Len(list)]

\* ping(), then IceController::mark_connection_pinged
Pinged(st, c) ==
  LET sent == [st EXCEPT !.cn[c].unanswered = IF @ < ConnectFails THEN @ + 1 ELSE @,
                         !.cn[c].open = IF @ < 2 THEN @ + 1 ELSE @]
  IN IF c \in sent.ch.pinged THEN sent
     ELSE [sent EXCEPT !.ch.pinged = @ \cup {c}, !.ch.unpinged = @ \ {c}]

\* _find_next_pingable_connection starts a new round when nobody is left.
Refilled(st, due) ==
  IF \E c \in st.ch.unpinged : st.cn[c].password = "known" /\ (Weak(st) \/ c \in due) THEN st
  ELSE [st EXCEPT !.ch.unpinged = @ \cup st.ch.pinged, !.ch.pinged = {}]

----------------------------------------------------------------------------
(* The callbacks *)

\* A binding request from an address the port has no connection for.  (From a
\* known address it is answered and changes nothing.)
OnUnknownAddress(c) ==
  /\ conns[c].status = "none"
  /\ \E p \in IF channel.answer THEN {"known"} ELSE {"awaited", "never"} :
       Becomes(Resorted(
         [ch |-> [channel EXCEPT !.sorted = Append(@, c), !.had = TRUE,
                                 !.unpinged = @ \cup {c}],
          cn |-> [conns EXCEPT ![c].status = "live", ![c].password = p]]))

\* set_remote_ice_params, when the answer comes.
SetRemoteIceParams ==
  /\ ~channel.answer
  /\ Becomes(Resorted(
       [ch |-> [channel EXCEPT !.answer = TRUE],
        cn |-> [c \in Conn |->
                  IF c \in Live(now) /\ conns[c].password = "awaited"
                    THEN [conns[c] EXCEPT !.password = "known"] ELSE conns[c]]]))

\* The timeouts that can have passed and would change something.
Elapses(c) ==
  CASE conns[c].write = Writable /\ conns[c].unanswered >= ConnectFails -> 0..2
    [] conns[c].write \in {Unreliable, WriteInit} /\ conns[c].unanswered > 0 -> {0, 2}
    [] OTHER -> {0}
Lapses(c) == {FALSE, conns[c].receiving /\ conns[c].unanswered > 0}

AgedStates ==
  {AllAged(now, channel.sorted, elapsed, lapsed) :
     elapsed \in {e \in [Live(now) -> 0..2] : \A c \in Live(now) : e[c] \in Elapses(c)},
     lapsed \in {l \in [Live(now) -> BOOLEAN] : \A c \in Live(now) : l[c] \in Lapses(c)}}

\* select_connection_to_ping once the interval has passed, when the connections
\* in due are past theirs: the selected one, else one pingable in this round.
AfterPing(st, due) ==
  LET best == st.ch.preferred
      round == Refilled(st, due)
      next == {c \in round.ch.unpinged :
                 round.cn[c].password = "known" /\ (Weak(round) \/ c \in due)}
  IN IF best # None /\ st.cn[best].write = Writable /\ best \in due
       THEN {Pinged(st, best)}
     ELSE IF next = {} THEN {round}
     ELSE {Pinged(round, c) : c \in next}

\* The ping timer: age the connections and ping at most one.
OnCheckAndPing ==
  /\ channel.pinging
  /\ \E st \in AgedStates :
       \E end \in {st} \cup UNION {AfterPing(st, due) : due \in SUBSET Conn} :
         Becomes(end)

\* The request a response belongs to is forgotten with it.
Closed(st, c) == {[st EXCEPT !.cn[c].open = n] :
                    n \in IF st.cn[c].open = 2 THEN {1, 2} ELSE {0}}

\* received_ping_response, of a destroyed connection too.
OnPingResponse(c) ==
  /\ conns[c].open > 0
  /\ \E rtt \in Rtt, st \in Closed(now, c) :
       LET heard == [st EXCEPT !.cn[c].rtt = rtt, !.cn[c].unanswered = 0]
       IN \E end \in {SetWriteState(SetReceiving(heard, c, TRUE), c, Writable)} :
            Becomes(end)

\* on_connection_request_error_response with a code it does not tolerate
OnFatalError(c) ==
  /\ PeerRejects
  /\ conns[c].open > 0
  /\ \E st \in Closed(now, c) : Becomes(Destroyed(st, c))

\* The same with one it does: another ping may succeed.
OnTolerableError(c) ==
  /\ conns[c].open > 0
  /\ \E st \in Closed(now, c) : Becomes(st)

Next ==
  \/ SetRemoteIceParams
  \/ OnCheckAndPing
  \/ \E c \in Conn : \/ OnUnknownAddress(c)
                     \/ OnPingResponse(c)
                     \/ OnFatalError(c)
                     \/ OnTolerableError(c)

Spec == Init /\ [][Next]_vars

----------------------------------------------------------------------------
(* Properties *)

\* What the channel has told its agent is what its connections are: no change of
\* a connection, of the list or of the selection leaves the cached writable,
\* receiving and state behind.
StateIsCurrent ==
  /\ channel.writable = ActualWritable(now)
  /\ channel.receiving = ActualReceiving(now)
  /\ channel.state = ComputedState(now, channel.writable)

\* The channel and its controller agree on the selected connection, which is
\* never a destroyed one; only when the channel has lost its own may the
\* controller still have an old one.
SelectionAgrees ==
  channel.selected # None =>
    channel.preferred = channel.selected /\ conns[channel.selected].status = "live"

\* Every connection of the channel is in exactly one of the two sets of the ping
\* scheduler, so each gets its turn in a round.
PingSetsPartition ==
  \A c \in Live(now) : (c \in channel.pinged) # (c \in channel.unpinged)

\* Binding requests and the answer come in either order; once both are there the
\* ping timer runs.
PingingHasStarted ==
  (\E c \in Live(now) : conns[c].password = "known") => channel.pinging

\* Until the controller has chosen once, no connection is ready to send: the
\* first that becomes ready is selected.
FirstReadyIsSelected ==
  channel.preferred = None => \A c \in Live(now) : ~ReadyToSend(now, c)

\* The controller serves every connection of the channel: each has its turn to
\* be pinged once that can begin, and the first that is ready is selected and
\* stays so until it is destroyed or another takes its place.
ControllerIsSound ==
  TypeOK /\ SelectionAgrees /\ PingSetsPartition /\ PingingHasStarted /\ FirstReadyIsSelected
=============================================================================
