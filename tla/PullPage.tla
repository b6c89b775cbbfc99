------------------------------- MODULE PullPage -------------------------------
(***************************************************************************)
(* The page that shows a remote desktop and pulls its stream               *)
(* (src/signaling/fronted/src/views/desktops/cloud-desktop.vue), in        *)
(* several tabs at once.  Each tab asks once, when it is mounted.  All     *)
(* tabs of a user have the same uid (the login token) and stream name, so  *)
(* for the server they are one viewer: a new request replaces the pull of  *)
(* the tab before, and an answer is applied to the pull there is.  The     *)
(* page's stop request has no uid (line 332) and stops nothing: what ends  *)
(* a pull is the server's own watch over the connection.                   *)
(***************************************************************************)
EXTENDS FiniteSets

CONSTANTS
    Tabs,
    NoTab

VARIABLES
    tab,        \* "unopened", "open", "left" (within the tab), "closed"
    closing,    \* disconnect's timer, which closes the tab, runs
    requests,   \* tabs whose pull request is under way to the server
    replies,    \* tabs whose offer is under way to the page
    rtc,        \* pc and where its negotiation stands; "none": null
    answers,    \* tabs whose answer is under way to the server
    late,       \* tabs whose offer came after the page was left
    pull        \* the server's pull: the tab whose offer it made, whose answer it has

pullVars == <<tab, closing, requests, replies, rtc, answers, late, pull>>

NoPull == [of |-> NoTab, answer |-> NoTab]

PullInit ==
    /\ tab = [t \in Tabs |-> "unopened"]
    /\ closing = {} /\ requests = {} /\ replies = {} /\ answers = {} /\ late = {}
    /\ rtc = [t \in Tabs |-> "none"]
    /\ pull = NoPull

-------------------------------------------------------------------------------
\* onMounted: startPull.
StartPull(t) ==
    /\ tab[t] = "unopened"
    /\ tab' = [tab EXCEPT ![t] = "open"]
    /\ requests' = requests \cup {t}
    /\ UNCHANGED <<closing, replies, rtc, answers, late, pull>>

\* The offer: a new connection, also if the page has stopped pulling meanwhile.
PullReply(t) ==
    /\ t \in replies
    /\ replies' = replies \ {t}
    /\ IF tab[t] = "closed" THEN UNCHANGED <<rtc, late>>
       ELSE /\ rtc' = [rtc EXCEPT ![t] = "remote"]
            /\ late' = IF tab[t] = "left" THEN late \cup {t} ELSE late
    /\ UNCHANGED <<tab, closing, requests, answers, pull>>

Goes(t, from, to) == rtc[t] = from /\ rtc' = [rtc EXCEPT ![t] = to]

\* setRemoteDescription(offer), then createAnswer().
RemoteSet(t) ==
    /\ Goes(t, "remote", "answer")
    /\ UNCHANGED <<tab, closing, requests, replies, answers, late, pull>>

\* createAnswer(), then setLocalDescription(answer).
CreateAnswer(t) ==
    /\ Goes(t, "answer", "setting")
    /\ UNCHANGED <<tab, closing, requests, replies, answers, late, pull>>

\* setLocalDescription(answer), then sendAnswer.
LocalSet(t) ==
    /\ Goes(t, "setting", "local")
    /\ answers' = answers \cup {t}
    /\ UNCHANGED <<tab, closing, requests, replies, late, pull>>

\* Any of the three fails; nobody catches it.
PullRefused(t) ==
    /\ rtc[t] \in {"remote", "answer", "setting"}
    /\ rtc' = [rtc EXCEPT ![t] = "stuck"]
    /\ UNCHANGED <<tab, closing, requests, replies, answers, late, pull>>

\* Mutant: the connection is dropped without being closed.
StopPullOpen(t) == UNCHANGED rtc

\* stopPull: the connection is closed, the server told nothing it understands.
StopPull(t) == rtc' = [rtc EXCEPT ![t] = "none"]

\* The button; a second later the tab closes.
Disconnect(t) ==
    /\ tab[t] = "open"
    /\ StopPull(t)
    /\ closing' = closing \cup {t}
    /\ UNCHANGED <<tab, requests, replies, answers, late, pull>>

\* Another view takes the page's place in the tab.
PullUnmount(t) ==
    /\ tab[t] = "open"
    /\ StopPull(t)
    /\ tab' = [tab EXCEPT ![t] = "left"]
    /\ UNCHANGED <<closing, requests, replies, answers, late, pull>>

\* The tab is closed, by the timer or by the user: the browser drops it all.
CloseTab(t) ==
    /\ tab[t] \in {"open", "left"}
    /\ tab' = [tab EXCEPT ![t] = "closed"]
    /\ closing' = closing \ {t}
    /\ rtc' = [rtc EXCEPT ![t] = "none"]
    /\ UNCHANGED <<requests, replies, answers, late, pull>>

-------------------------------------------------------------------------------
(***************************************************************************)
(* The server, as src/cpp/xrtcserver treats one uid and stream name        *)
(***************************************************************************)
ServerPull(t) ==
    /\ t \in requests
    /\ requests' = requests \ {t}
    /\ replies' = replies \cup {t}
    /\ pull' = [of |-> t, answer |-> NoTab]
    /\ UNCHANGED <<tab, closing, rtc, answers, late>>

ServerAnswer(t) ==
    /\ t \in answers
    /\ answers' = answers \ {t}
    /\ pull' = IF pull = NoPull THEN pull ELSE [pull EXCEPT !.answer = t]
    /\ UNCHANGED <<tab, closing, requests, replies, rtc, late>>

PullConnected == pull # NoPull /\ pull.answer = pull.of /\ rtc[pull.of] = "local"

\* A connection that does not come about, or is lost, ends the pull in time.
ServerDrops ==
    /\ pull # NoPull /\ ~PullConnected
    /\ pull' = NoPull
    /\ UNCHANGED <<tab, closing, requests, replies, rtc, answers, late>>

PullNext ==
    \/ \E t \in Tabs :
        \/ StartPull(t) \/ PullReply(t) \/ RemoteSet(t) \/ CreateAnswer(t) \/ LocalSet(t)
        \/ PullRefused(t) \/ Disconnect(t) \/ PullUnmount(t) \/ CloseTab(t)
        \/ ServerPull(t) \/ ServerAnswer(t)
    \/ ServerDrops

\* The server's timers run; a tab that counts down closes.
PullFairness ==
    /\ WF_pullVars(ServerDrops)
    /\ \A t \in Tabs : WF_pullVars(t \in closing /\ CloseTab(t))

-------------------------------------------------------------------------------
\* The pull of a page that was left, closed or disconnected ends though
\* stopPull never reaches the server, unless the offer came only after the page
\* was left and the tab is still open.
Abandoned(t) == tab[t] \in {"left", "closed"} \/ t \in closing

AbandonedPullEnds ==
    \A t \in Tabs :
        Abandoned(t) ~> (pull.of # t \/ (t \in late /\ tab[t] = "left"))
===============================================================================
