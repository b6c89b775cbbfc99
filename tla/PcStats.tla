------------------------------- MODULE PcStats --------------------------------
(***************************************************************************)
(* getStats() of one track, sender or receiver under                       *)
(* src/screen_share/static/js/adapter.js.  Chrome before 67 has only the   *)
(* connection's statistics: the library takes the reports of a track out   *)
(* of them, following the ids in a report.  Firefox before 53 takes a      *)
(* track as selector and gives the reports older type names.               *)
(*                                                                         *)
(* The reports of a connection: one of every track that is sent or         *)
(* received, one of every stream sent with what the other side says of it, *)
(* one of every stream received, and the codec, the transport and its pair *)
(* of candidates, which all of them share.                                 *)
(***************************************************************************)
EXTENDS Naturals, Sequences, FiniteSets

CONSTANTS
    StatSenders, StatReceivers,
    StatTracks,         \* the page's tracks
    Received,           \* receiver -> its track
    NoTrack

ASSUME StatsAssumption ==
    /\ IsFiniteSet(StatSenders) /\ IsFiniteSet(StatReceivers)
    /\ NoTrack \notin StatTracks \cup {Received[r] : r \in StatReceivers}

StatBrowsers == {"chrome", "firefox"}

VARIABLES
    kind,       \* the browser
    sends,      \* sender -> its track
    bound,      \* senders and receivers whose _pc is set
    query,      \* the page's call
    snap,       \* sends when the browser took the connection's statistics
    reports,    \* what the page was given
    names       \* how the types in it are named: "old", "modern"

statVars == <<kind, sends, bound, query, snap, reports, names>>

AllTracks == StatTracks \cup {Received[r] : r \in StatReceivers}
NoQuery == [step |-> "none"]

-------------------------------------------------------------------------------
(***************************************************************************)
(* The browser's reports when the senders have the tracks of f             *)
(***************************************************************************)
SendersOn(f) == {s \in StatSenders : f[s] # NoTrack}

ReportIds(f) ==
    {<<"track", f[s]>> : s \in SendersOn(f)} \cup {<<"track", Received[r]>> : r \in StatReceivers}
    \cup {<<"outbound-rtp", s>> : s \in SendersOn(f)} \cup {<<"remote", s>> : s \in SendersOn(f)}
    \cup {<<"inbound-rtp", r>> : r \in StatReceivers}
    \cup {<<"codec">>, <<"transport">>, <<"pair">>}

\* The ids in a report's fields, in their order.
Refs(f, id) ==
    CASE id[1] = "outbound-rtp" -> << <<"track", f[id[2]]>>, <<"remote", id[2]>>, <<"codec">>, <<"transport">> >>
      [] id[1] = "inbound-rtp" -> << <<"track", Received[id[2]]>>, <<"codec">>, <<"transport">> >>
      [] id[1] = "remote" -> << <<"outbound-rtp", id[2]>>, <<"codec">> >>
      [] id[1] = "transport" -> << <<"pair">> >>
      [] id[1] = "pair" -> << <<"transport">> >>
      [] OTHER -> <<>>

\* Depth first: what is still to look at, and the result so far.  Every id that
\* a report names is that of a report.
WalkStats(f, base) ==
    LET walk[p \in Seq(ReportIds(f)) \X SUBSET ReportIds(f)] ==
            LET todo == p[1]
                resultSet == p[2]
            IN IF todo = <<>> THEN resultSet
               ELSE IF Head(todo) \in resultSet THEN walk[<<Tail(todo), resultSet>>]
               ELSE walk[<<Refs(f, Head(todo)) \o Tail(todo), resultSet \cup {Head(todo)}>>]
    IN walk[<< <<base>>, {} >>]

\* Mutant: the reports of every stream of that direction.
RootsAll(f, track, type) == {id \in ReportIds(f) : id[1] = type}

\* The streams of a track: their trackId names the report of the track.
Roots(f, track, type) ==
    {id \in ReportIds(f) : id[1] = type /\ Refs(f, id)[1] = <<"track", track>>}

FilterStats(f, track, outbound) ==
    IF track = NoTrack THEN {}
    ELSE UNION {WalkStats(f, id) :
                    id \in Roots(f, track, IF outbound THEN "outbound-rtp" ELSE "inbound-rtp")}

-------------------------------------------------------------------------------
StatInit ==
    /\ kind \in StatBrowsers
    /\ sends = [s \in StatSenders |-> NoTrack]
    /\ bound = {}
    /\ query = NoQuery
    /\ snap = sends
    /\ reports = {}
    /\ names = "modern"

AddTrackBound(s, t) ==
    /\ sends[s] = NoTrack /\ \A x \in StatSenders : sends[x] # t
    /\ sends' = [sends EXCEPT ![s] = t]
    /\ bound' = bound \cup {s}
    /\ UNCHANGED <<kind, query, snap, reports, names>>

\* A track may get a second sender, and a track that is received may be sent.
ReplaceTrack(s, t) ==
    /\ sends[s] # t
    /\ sends' = [sends EXCEPT ![s] = t]
    /\ UNCHANGED <<kind, bound, query, snap, reports, names>>

\* getSenders() and getReceivers() set _pc, the track event does for its receiver.
Bind(some) ==
    /\ some # {} /\ ~(some \subseteq bound)
    /\ bound' = bound \cup some
    /\ UNCHANGED <<kind, sends, query, snap, reports, names>>

\* sender.getStats() and receiver.getStats(): Chrome asks for everything,
\* Firefox with the track the sender has now.
Asks(step, x, track, form) ==
    /\ query' = [step |-> step, of |-> x, track |-> track, now |-> track, form |-> form]
    /\ reports' = {}

Idle == query.step \notin {"asked", "taken"}

GetStatsOf(x) ==
    /\ Idle /\ x \in bound
    /\ LET track == IF x \in StatSenders THEN sends[x] ELSE Received[x] IN
        IF kind = "firefox" /\ track = NoTrack
        THEN Asks("given", x, track, "promise")
        ELSE Asks("asked", x, track, "promise")
    /\ UNCHANGED <<kind, sends, bound, snap, names>>

Having(t) == {s \in StatSenders : sends[s] = t} \cup {r \in StatReceivers : Received[r] = t}

\* pc.getStats(track) in Chrome: the one sender or receiver that has the track.
GetStatsOfTrack(t) ==
    /\ kind = "chrome" /\ Idle
    /\ bound' = StatSenders \cup StatReceivers
    /\ IF Cardinality(Having(t)) = 1
       THEN \E x \in Having(t) : Asks("asked", x, t, "promise")
       ELSE query' = [step |-> "refused", of |-> t] /\ reports' = {}
    /\ UNCHANGED <<kind, sends, snap, names>>

\* pc.getStats(track) in Firefox, by promise or with callbacks.
SelectStats(t, form) ==
    /\ kind = "firefox" /\ Idle
    /\ Cardinality(Having(t)) = 1
    /\ \E x \in Having(t) : Asks("asked", x, t, form)
    /\ UNCHANGED <<kind, sends, bound, snap, names>>

TakeStats ==
    /\ query.step = "asked"
    /\ query' = [query EXCEPT !.step = "taken"]
    /\ snap' = sends
    /\ UNCHANGED <<kind, sends, bound, reports, names>>

\* A page that is called back may know no others than the older type names.
TypeNames(form) == IF kind = "firefox" /\ form = "callback" THEN "old" ELSE "modern"

\* Chrome filters when the promise is fulfilled, by the track of that moment;
\* Firefox was asked for a track, and refuses one that not exactly one has.
StatsReply ==
    LET x == query.of
        out == x \in StatSenders
        track == IF kind # "chrome" THEN query.track ELSE IF out THEN sends[x] ELSE Received[x]
        many == Cardinality({s \in StatSenders : snap[s] = track}
                            \cup {r \in StatReceivers : Received[r] = track})
    IN
    /\ query.step = "taken"
    /\ names' = TypeNames(query.form)
    /\ IF kind # "chrome" /\ many # 1
       THEN query' = [step |-> "refused", of |-> track] /\ reports' = {}
       ELSE /\ query' = [query EXCEPT !.step = "given", !.now = track]
            /\ reports' = IF kind = "chrome" THEN FilterStats(snap, track, out)
                          ELSE FilterStats(snap, track, TRUE) \cup FilterStats(snap, track, FALSE)
    /\ UNCHANGED <<kind, sends, bound, snap>>

StatNext ==
    \/ \E s \in StatSenders, t \in StatTracks : AddTrackBound(s, t)
    \/ \E s \in StatSenders, t \in AllTracks \cup {NoTrack} : ReplaceTrack(s, t)
    \/ Bind(StatSenders) \/ Bind(StatReceivers) \/ \E r \in StatReceivers : Bind({r})
    \/ \E x \in StatSenders \cup StatReceivers : GetStatsOf(x)
    \/ \E t \in AllTracks : GetStatsOfTrack(t)
    \/ \E t \in AllTracks, form \in {"promise", "callback"} : SelectStats(t, form)
    \/ TakeStats \/ StatsReply

-------------------------------------------------------------------------------
ClosedUnderRefs(S) ==
    \A id \in S : \A k \in DOMAIN Refs(snap, id) : Refs(snap, id)[k] \in S

\* The reports a page is given of a sender or a receiver are complete (every
\* report one of them names is there), not more than the streams of that one
\* need, and of no stream with another track; the stream's own is among them
\* unless its track was replaced meanwhile; and a promise gives today's names.
StatsAreOfTrack ==
    query.step = "given" =>
        LET own == <<IF query.of \in StatSenders THEN "outbound-rtp" ELSE "inbound-rtp", query.of>>
            streams == {id \in reports : id[1] \in {"outbound-rtp", "inbound-rtp"}}
        IN /\ ClosedUnderRefs(reports)
           /\ \A S \in SUBSET ReportIds(snap) : streams \subseteq S /\ ClosedUnderRefs(S) => reports \subseteq S
           /\ \A id \in streams : Refs(snap, id)[1] = <<"track", query.now>>
           /\ (query.of \in StatSenders => query.now \in {snap[query.of]} \ {NoTrack}) =>
                own \in reports
           /\ query.form = "promise" /\ reports # {} => names = "modern"
===============================================================================
