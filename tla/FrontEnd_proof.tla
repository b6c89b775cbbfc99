---------------------------- MODULE FrontEnd_proof ----------------------------
(***************************************************************************)
(* Proofs about five of the pages, for any number of navigations and       *)
(* clicks (Console), of desktops, visits and timers (DesktopList), of      *)
(* buttons, keys and positions (RemoteInput), of pages and tabs            *)
(* (RouteTabs), and of presses and candidates (ScreenShare).               *)
(***************************************************************************)
EXTENDS Console, DesktopList, RemoteInput, RouteTabs, ScreenShare, SequenceTheorems, TLAPS

ConsoleSpec == ConsoleInit /\ [][ConsoleNext]_consoleVars
ListSpec == ListInit /\ [][ListNext]_listVars
InputSpec == InputInit /\ [][InputNext]_inputVars
TabSpec == TabInit /\ [][TabNext]_tabVars
ShareSpec == ShareInit /\ [][ShareNext]_shareVars

-------------------------------------------------------------------------------
(***************************************************************************)
(* The session.  The role in the user store comes from the server's record *)
(* of the last login, not from the token, and it is asked for only when    *)
(* the store has none.  It is right as long as record and token come from  *)
(* one login and no role outlives its token (Matched), and a login reply   *)
(* finds no session (LoginIsAlone); a login over a session breaks both.    *)
(***************************************************************************)
Matched ==
    /\ token \in Users \cup {Nobody}
    /\ token = Nobody => role = Nobody
    /\ token # Nobody => userRole = token /\ role \in {Nobody, token}

LoginIsAlone == logins # {} => token = Nobody /\ \E u \in Users : logins = {u}

SessionInv == mixed \/ (Matched /\ LoginIsAlone)

\* A step that keeps the session and answers no login.
LEMMA QuietSessionInv ==
    ASSUME SessionInv, UNCHANGED sessionVars, mixed => mixed', logins' \in {logins, {}}
    PROVE  SessionInv'
BY DEF SessionInv, Matched, LoginIsAlone, sessionVars

\* logoutCallBack, whoever calls it.
LEMMA LogoutSessionInv ==
    ASSUME SessionInv, LogoutCallBack, UNCHANGED <<logins, mixed>>
    PROVE  SessionInv'
BY DEF SessionInv, Matched, LoginIsAlone, LogoutCallBack

\* The page is loaded with no token, or with the one it had.
LEMMA LoadsSessionInv ==
    ASSUME SessionInv, NEW to, Loads(to), UNCHANGED <<userRole, mixed>>, token' \in {token, Nobody}
    PROVE  SessionInv'
BY DEF SessionInv, Matched, LoginIsAlone, Loads

LEMMA GuardSessionInv ==
    ASSUME SessionInv, NEW s \in Slots, GuardSteps(s)
    PROVE  SessionInv'
<1>1. CASE LoginGuard(s)
    BY <1>1, QuietSessionInv DEF LoginGuard, formVars
<1>2. CASE InfoReply(s)
    BY <1>2 DEF InfoReply, SessionInv, Matched, LoginIsAlone, formVars
<1>3. CASE GuardLogoutReply(s)
    BY <1>3, LogoutSessionInv DEF GuardLogoutReply, formVars
<1>4. CASE PermissionGuard(s)
    BY <1>4, QuietSessionInv DEF PermissionGuard, formVars
<1>5. CASE MenuReply(s)
    BY <1>5, QuietSessionInv DEF MenuReply, formVars
<1>6. CASE Confirm(s)
    BY <1>6, QuietSessionInv DEF Confirm
<1>. QED  BY <1>1, <1>2, <1>3, <1>4, <1>5, <1>6 DEF GuardSteps

LEMMA SubmitLoginSessionInv ==
    ASSUME SessionInv, NEW u \in Users, SubmitLogin(u)
    PROVE  SessionInv'
<1>1. UNCHANGED sessionVars /\ logins' = logins \cup {u}
      /\ mixed' = (mixed \/ token # Nobody \/ logins # {})
    BY DEF SubmitLogin
<1>. QED  BY <1>1 DEF SessionInv, Matched, LoginIsAlone, sessionVars

\* A reply to the only login request there is: the role is still unknown.
LEMMA LoginReplySessionInv ==
    ASSUME SessionInv, NEW u \in Users, LoginReply(u)
    PROVE  SessionInv'
<1>1. /\ u \in logins /\ logins' = logins \ {u} /\ UNCHANGED <<role, mixed>>
      /\ \/ userRole' = u /\ token' = u
         \/ token' = Nobody /\ userRole' = userRole
    BY DEF LoginReply
<1>2. u # Nobody
    BY DEF Users, Nobody
<1>. QED  BY <1>1, <1>2 DEF SessionInv, Matched, LoginIsAlone

LEMMA NextSessionInv == SessionInv /\ [ConsoleNext]_consoleVars => SessionInv'
<1>. SUFFICES ASSUME SessionInv, [ConsoleNext]_consoleVars PROVE SessionInv'
    OBVIOUS
<1>1. ASSUME NEW to \in Routes, Open(to) PROVE SessionInv'
    BY <1>1, LoadsSessionInv DEF Open
<1>2. ASSUME NEW to \in Routes, Navigate(to) PROVE SessionInv'
    BY <1>2, QuietSessionInv DEF Navigate, formVars
<1>3. CASE HandleLogout
    BY <1>3, QuietSessionInv DEF HandleLogout
<1>4. CASE LogoutReply
    BY <1>4, LogoutSessionInv DEF LogoutReply
<1>5. CASE SwitchRoles
    BY <1>5 DEF SwitchRoles, SessionInv
<1>6. CASE IllegalToken
    BY <1>6, QuietSessionInv DEF IllegalToken
<1>7. CASE ReLogin
    BY <1>7, QuietSessionInv DEF ReLogin
<1>8. CASE ReLoginReply
    <2>1. CASE token' = Nobody /\ Loads(page) /\ UNCHANGED <<userRole, mixed>>
        BY <2>1, LoadsSessionInv
    <2>2. CASE LogoutCallBack /\ UNCHANGED <<logins, mixed>>
        BY <2>2, LogoutSessionInv
    <2>. QED  BY <1>8, <2>1, <2>2 DEF ReLoginReply
<1>9. CASE Reload
    BY <1>9, LoadsSessionInv DEF Reload
<1>10. CASE SwitchMenu
    BY <1>10, QuietSessionInv DEF SwitchMenu, formVars
<1>11. CASE MenuFetched
    BY <1>11, QuietSessionInv DEF MenuFetched, formVars
<1>12. CASE UNCHANGED consoleVars
    BY <1>12, QuietSessionInv DEF consoleVars, formVars
<1>. QED  BY <1>1, <1>2, <1>3, <1>4, <1>5, <1>6, <1>7, <1>8, <1>9, <1>10, <1>11, <1>12,
             GuardSessionInv, SubmitLoginSessionInv, LoginReplySessionInv DEF ConsoleNext

\* However many navigations, logins, logouts and reloads are under way and in
\* whatever order they are answered, the console works with its token's role,
\* unless the user logged in over a session or switched the role
\* (store/modules/user, guard/userLoginInfo.ts).
THEOREM RoleFollowsToken == ConsoleSpec => []RoleIsOfToken
<1>1. ConsoleInit => SessionInv
    BY DEF ConsoleInit, SessionInv, Matched, LoginIsAlone
<1>2. SessionInv => RoleIsOfToken
    BY DEF SessionInv, Matched, RoleIsOfToken
<1>. QED  BY <1>1, <1>2, NextSessionInv, PTL DEF ConsoleSpec

-------------------------------------------------------------------------------
(***************************************************************************)
(* The list of desktops.  A tab that is owed is a timer, and there is one  *)
(* just while the button spins; starting and shutting down have timers of  *)
(* their own.  A row is written by its own press and timers only.          *)
(***************************************************************************)
ListTypeOK ==
    /\ connecting \in [DesktopRows -> BOOLEAN]
    /\ connBoots \in [DesktopRows -> Nat] /\ opens \in [DesktopRows -> Nat]
    /\ tabs \in [DesktopRows -> [opened : Nat, pressed : Nat]]

ListInv == ListTypeOK /\ EachPressOpensOneTab

\* What a row has to do with the tabs it owes.
RowIsSound(r) ==
    /\ tabs[r].pressed - tabs[r].opened = connBoots[r] + opens[r]
    /\ connBoots[r] + opens[r] = IF connecting[r] THEN 1 ELSE 0

\* A step that leaves buttons, timers to connect and tabs alone.
LEMMA QuietListInv ==
    ASSUME ListInv, UNCHANGED <<connecting, connBoots, opens, tabs>>
    PROVE  ListInv'
BY DEF ListInv, ListTypeOK, EachPressOpensOneTab

\* One press on a button that does not spin makes one timer.
LEMMA ConnectListInv ==
    ASSUME ListInv, NEW r \in DesktopRows, ConnectDesktop(r)
    PROVE  ListInv'
<1>1. ListTypeOK'
    <2>1. tabs' \in [DesktopRows -> [opened : Nat, pressed : Nat]]
        BY DEF ConnectDesktop, ListInv, ListTypeOK
    <2>2. connecting' \in [DesktopRows -> BOOLEAN]
        BY DEF ConnectDesktop, ListInv, ListTypeOK
    <2>3. connBoots' \in [DesktopRows -> Nat] /\ opens' \in [DesktopRows -> Nat]
        BY DEF ConnectDesktop, SetTimer, ListInv, ListTypeOK
    <2>. QED  BY <2>1, <2>2, <2>3 DEF ListTypeOK
<1>2. ASSUME NEW q \in DesktopRows PROVE RowIsSound(q)'
    <2>1. CASE q # r
        BY <2>1 DEF ConnectDesktop, SetTimer, ListInv, ListTypeOK, EachPressOpensOneTab, RowIsSound
    <2>2. CASE q = r
        <3>1. connecting[r] = FALSE /\ connecting'[r] = TRUE
            BY DEF ConnectDesktop, ListInv, ListTypeOK
        <3>2. tabs'[r].pressed = tabs[r].pressed + 1 /\ tabs'[r].opened = tabs[r].opened
            BY DEF ConnectDesktop, ListInv, ListTypeOK
        <3>3. connBoots'[r] + opens'[r] = connBoots[r] + opens[r] + 1
            BY DEF ConnectDesktop, SetTimer, ListInv, ListTypeOK
        <3>4. /\ tabs[r] \in [opened : Nat, pressed : Nat]
              /\ connBoots[r] \in Nat /\ opens[r] \in Nat
              /\ tabs[r].pressed - tabs[r].opened = connBoots[r] + opens[r]
              /\ connBoots[r] + opens[r] = IF connecting[r] THEN 1 ELSE 0
            BY DEF ListInv, ListTypeOK, EachPressOpensOneTab
        <3>. QED  BY <2>2, <3>1, <3>2, <3>3, <3>4 DEF RowIsSound
    <2>. QED  BY <2>1, <2>2
<1>. QED  BY <1>1, <1>2 DEF ListInv, EachPressOpensOneTab, RowIsSound

\* The timer of the start becomes the one that opens the tab.
LEMMA BootedListInv ==
    ASSUME ListInv, NEW r \in DesktopRows, BootedToConnect(r)
    PROVE  ListInv'
<1>1. ListTypeOK'
    BY DEF BootedToConnect, SetTimer, RunTimer, ListInv, ListTypeOK
<1>2. ASSUME NEW q \in DesktopRows PROVE RowIsSound(q)'
    <2>1. connBoots'[q] + opens'[q] = connBoots[q] + opens[q]
        BY DEF BootedToConnect, SetTimer, RunTimer, ListInv, ListTypeOK
    <2>. QED  BY <2>1 DEF BootedToConnect, ListInv, EachPressOpensOneTab, RowIsSound
<1>. QED  BY <1>1, <1>2 DEF ListInv, EachPressOpensOneTab, RowIsSound

\* The tab opens, its timer goes and the button rests: it was the only one.
LEMMA OpenListInv ==
    ASSUME ListInv, NEW r \in DesktopRows, OpenDesktop(r)
    PROVE  ListInv'
<1>1. ListTypeOK'
    BY DEF OpenDesktop, RunTimer, ListInv, ListTypeOK
<1>2. ASSUME NEW q \in DesktopRows PROVE RowIsSound(q)'
    <2>1. CASE q # r
        BY <2>1 DEF OpenDesktop, RunTimer, ListInv, ListTypeOK, EachPressOpensOneTab, RowIsSound
    <2>2. CASE q = r
        <3>1. /\ connecting'[r] = FALSE /\ connBoots'[r] = connBoots[r]
              /\ opens[r] > 0 /\ opens'[r] = opens[r] - 1
            BY DEF OpenDesktop, RunTimer, ListInv, ListTypeOK
        <3>2. tabs'[r].pressed = tabs[r].pressed /\ tabs'[r].opened = tabs[r].opened + 1
            BY DEF OpenDesktop, ListInv, ListTypeOK
        <3>3. /\ tabs[r] \in [opened : Nat, pressed : Nat]
              /\ connBoots[r] \in Nat /\ opens[r] \in Nat
              /\ tabs[r].pressed - tabs[r].opened = connBoots[r] + opens[r]
              /\ connBoots[r] + opens[r] = IF connecting[r] THEN 1 ELSE 0
            BY DEF ListInv, ListTypeOK, EachPressOpensOneTab
        <3>. QED  BY <2>2, <3>1, <3>2, <3>3 DEF RowIsSound
    <2>. QED  BY <2>1, <2>2
<1>. QED  BY <1>1, <1>2 DEF ListInv, EachPressOpensOneTab, RowIsSound

LEMMA ListNextInv == ListInv /\ [ListNext]_listVars => ListInv'
<1>. SUFFICES ASSUME ListInv, [ListNext]_listVars PROVE ListInv'
    OBVIOUS
<1>1. CASE LeaveList \/ ShowList
    BY <1>1, QuietListInv DEF LeaveList, ShowList
<1>2. ASSUME NEW r \in DesktopRows,
             StartDesktop(r) \/ Booted(r) \/ ShutdownDesktop(r) \/ ShutDown(r)
      PROVE  ListInv'
    BY <1>2, QuietListInv DEF StartDesktop, Booted, ShutdownDesktop, ShutDown
<1>3. CASE UNCHANGED listVars
    BY <1>3, QuietListInv DEF listVars
<1>. QED  BY <1>1, <1>2, <1>3, ConnectListInv, BootedListInv, OpenListInv DEF ListNext

\* For any number of desktops, of timers per row and of visits to the list,
\* each press of Connect that is taken opens one tab, and while the button
\* spins one is owed (views/desktops/index.vue, connectDesktop).
THEOREM PressesOpenTabs == ListSpec => []EachPressOpensOneTab
<1>1. ListInit => ListInv
    BY DEF ListInit, ListInv, ListTypeOK, EachPressOpensOneTab
<1>2. ListInv => EachPressOpensOneTab
    BY DEF ListInv
<1>. QED  BY <1>1, <1>2, ListNextInv, PTL DEF ListSpec

-------------------------------------------------------------------------------
(***************************************************************************)
(* The input.  Until the channel opens nothing is told and nothing seen,   *)
(* so that what is down then was pressed unseen; while it is open input    *)
(* counts (isActive), and every change of either side goes with one of the *)
(* other or is unseen.                                                     *)
(***************************************************************************)
Unopened == channel \in {"none", "connecting"}

InputInv ==
    /\ Unopened => /\ remoteHeld = {} /\ held \subseteq unseen
                   /\ lastMousePosition = <<-1, -1>> /\ ~isActive
    /\ channel = "open" => isActive
    /\ RemoteIsAsSeen

\* A step of the channel, of the throttle or of the pointer tells nothing.
LEMMA QuietInputInv ==
    ASSUME InputInv,
           CreateDataChannel \/ DataChannelOpen \/ ChannelLost \/ DataChannelClose
             \/ UpdateVideoRect \/ ThrottleEnds \/ CrossEdge \/ Blur \/ UNCHANGED inputVars
    PROVE  InputInv'
<1>. USE DEF InputInv, Unopened, RemoteIsAsSeen, remoteVars
<1>1. CASE CreateDataChannel \/ DataChannelOpen
    BY <1>1 DEF CreateDataChannel, DataChannelOpen
<1>2. CASE ChannelLost \/ DataChannelClose
    BY <1>2 DEF ChannelLost, DataChannelClose
<1>3. CASE UpdateVideoRect \/ ThrottleEnds \/ CrossEdge \/ Blur
    BY <1>3 DEF UpdateVideoRect, ThrottleEnds, CrossEdge, Blur, channelVars
<1>4. CASE UNCHANGED inputVars
    BY <1>4 DEF inputVars, channelVars
<1>. QED  BY <1>1, <1>2, <1>3, <1>4

\* A button or key that the video sees is told with the channel open, and is
\* unseen without it.
LEMMA ChangeInputInv ==
    ASSUME InputInv, NEW x, NEW now, UNCHANGED channelVars,
           \/ x \notin held /\ Changes(held \cup {x}, x, TRUE) /\ now = remoteHeld \cup {x}
           \/ x \in held /\ Changes(held \ {x}, x, TRUE) /\ now = remoteHeld \ {x},
           remoteHeld' = IF Told THEN now ELSE remoteHeld,
           \/ UNCHANGED <<lastMousePosition, remotePointer>>
           \/ Told /\ remotePointer' = lastMousePosition'
           \/ ~Told /\ UNCHANGED remotePointer /\ (~isActive => UNCHANGED lastMousePosition)
    PROVE  InputInv'
<1>1. CASE channel = "open"
    <2>1. Told
        BY <1>1 DEF InputInv, Told
    <2>. QED  BY <1>1, <2>1 DEF InputInv, Unopened, RemoteIsAsSeen, Changes, channelVars
<1>2. CASE channel # "open"
    <2>1. ~Told
        BY <1>2 DEF Told
    <2>. QED  BY <1>2, <2>1 DEF InputInv, Unopened, RemoteIsAsSeen, Changes, channelVars
<1>. QED  BY <1>1, <1>2

LEMMA ButtonInputInv ==
    ASSUME InputInv, NEW b \in Buttons, HandleMouseDown(b) \/ HandleMouseUp(b)
    PROVE  InputInv'
<1>1. ASSUME NEW now, TellsButton(now)
      PROVE  /\ remoteHeld' = IF Told THEN now ELSE remoteHeld
             /\ \/ Told /\ remotePointer' = lastMousePosition'
                \/ ~Told /\ UNCHANGED remotePointer /\ (~isActive => UNCHANGED lastMousePosition)
    BY <1>1 DEF TellsButton, Told, remoteVars
<1>2. CASE HandleMouseDown(b)
    BY <1>1, <1>2, ChangeInputInv DEF HandleMouseDown
<1>3. CASE HandleMouseUp(b)
    BY <1>1, <1>3, ChangeInputInv DEF HandleMouseUp
<1>. QED  BY <1>2, <1>3

LEMMA KeyInputInv ==
    ASSUME InputInv, NEW k \in Keys, HandleKeyDown(k) \/ HandleKeyUp(k)
    PROVE  InputInv'
<1>1. CASE HandleKeyDown(k)
    BY <1>1, ChangeInputInv DEF HandleKeyDown, TellsKey
<1>2. CASE HandleKeyUp(k)
    BY <1>2, ChangeInputInv DEF HandleKeyUp, TellsKey
<1>. QED  BY <1>1, <1>2

LEMMA InputNextInv == InputInv /\ [InputNext]_inputVars => InputInv'
<1>. SUFFICES ASSUME InputInv, [InputNext]_inputVars PROVE InputInv'
    OBVIOUS
<1>1. ASSUME NEW x, Elsewhere(x) PROVE InputInv'
    BY <1>1 DEF Elsewhere, Changes, InputInv, Unopened, RemoteIsAsSeen, channelVars, remoteVars
<1>2. ASSUME NEW p \in Grid, HandleMouseMove(p) PROVE InputInv'
    BY <1>2 DEF HandleMouseMove, Told, InputInv, Unopened, RemoteIsAsSeen, channelVars
<1>. QED  BY <1>1, <1>2, QuietInputInv, ButtonInputInv, KeyInputInv DEF InputNext

\* For any buttons, keys and positions, in whatever order events, throttling and
\* the channel's opening and loss come: what is down on the remote side is what
\* the video saw go down and not up, and the page knows the position the remote
\* side has (views/desktops/cloud-desktop.vue).
THEOREM RemoteFollowsSeen == InputSpec => []RemoteIsAsSeen
<1>1. InputInit => InputInv
    BY DEF InputInit, InputInv, Unopened, RemoteIsAsSeen
<1>2. InputInv => RemoteIsAsSeen
    BY DEF InputInv
<1>. QED  BY <1>1, <1>2, InputNextInv, PTL DEF InputSpec

-------------------------------------------------------------------------------
(***************************************************************************)
(* The tabs.  The route that was announced last is where the page is going *)
(* or, when it is going nowhere, where it is; and the bar, while it        *)
(* listens, has a tab for it.                                              *)
(***************************************************************************)
LatestIsAhead == latestRoute = IF going = NoPath THEN at ELSE going
LatestHasTab == listens /\ latestRoute \in Paths => latestRoute \in ToSet(tagList)
TabInv == tagList \in Seq(Paths) /\ (astray \/ (LatestIsAhead /\ LatestHasTab))

\* Every tab of a sequence is in it.
LEMMA TabsOf == ASSUME NEW s \in Seq(Paths) PROVE ToSet(s) = {s[k] : k \in 1 .. Len(s)}
BY DEF ToSet

\* A tab put at the end is there, and so are the others.
LEMMA TabsOfAppend ==
    ASSUME NEW s \in Seq(Paths), NEW p \in Paths
    PROVE  Append(s, p) \in Seq(Paths) /\ p \in ToSet(Append(s, p)) /\ ToSet(s) \subseteq ToSet(Append(s, p))
<1>1. /\ Append(s, p) \in Seq(Paths) /\ Len(Append(s, p)) = Len(s) + 1
      /\ Append(s, p)[Len(s) + 1] = p
      /\ \A k \in 1 .. Len(s) : Append(s, p)[k] = s[k]
    OBVIOUS
<1>2. Len(s) \in Nat /\ \A k \in 1 .. Len(s) : k \in 1 .. Len(s) + 1
    BY LenProperties
<1>3. p \in ToSet(Append(s, p))
    <2>1. Len(s) + 1 \in 1 .. Len(Append(s, p))
        BY <1>1, <1>2
    <2>2. ToSet(Append(s, p)) = {Append(s, p)[m] : m \in 1 .. Len(Append(s, p))}
        BY <1>1, TabsOf
    <2>. QED  BY <1>1, <2>1, <2>2
<1>4. \A k \in 1 .. Len(s) : s[k] \in ToSet(Append(s, p))
    <2>. TAKE k \in 1 .. Len(s)
    <2>1. k \in 1 .. Len(Append(s, p)) /\ Append(s, p)[k] = s[k]
        BY <1>1, <1>2
    <2>2. ToSet(Append(s, p)) = {Append(s, p)[m] : m \in 1 .. Len(Append(s, p))}
        BY <1>1, TabsOf
    <2>. QED  BY <2>1, <2>2
<1>. QED  BY <1>1, <1>3, <1>4, TabsOf

\* Closing one tab leaves every page that has another.
LEMMA TabsOfRemoveAt ==
    ASSUME NEW s \in Seq(Paths), NEW i \in 1 .. Len(s)
    PROVE  RemoveAt(s, i) \in Seq(Paths) /\ ToSet(s) \ {s[i]} \subseteq ToSet(RemoveAt(s, i))
<1>. DEFINE l == SubSeq(s, 1, i - 1)
            r == SubSeq(s, i + 1, Len(s))
<1>. Len(s) \in Nat  BY LenProperties
<1>1. l \in Seq(Paths) /\ Len(l) = i - 1 /\ \A k \in 1 .. i - 1 : l[k] = s[k]
    <2>1. CASE i - 1 = 0  BY <2>1, SubSeqEmpty
    <2>2. CASE i - 1 > 0  BY <2>2, SubSeqProperties, LenProperties
    <2>. QED  BY <2>1, <2>2
<1>2. r \in Seq(Paths) /\ Len(r) = Len(s) - i /\ \A k \in 1 .. Len(s) - i : r[k] = s[k + i]
    BY SubSeqProperties, LenProperties
<1>. DEFINE t == l \o r
<1>3. /\ t \in Seq(Paths) /\ Len(t) = Len(s) - 1
      /\ \A k \in 1 .. i - 1 : t[k] = s[k]
      /\ \A k \in i .. Len(s) - 1 : t[k] = s[k + 1]
    <2>. HIDE DEF l, r
    <2>1. /\ t \in Seq(Paths) /\ Len(t) = Len(l) + Len(r)
          /\ \A k \in 1 .. Len(l) + Len(r) : t[k] = IF k <= Len(l) THEN l[k] ELSE r[k - Len(l)]
        BY <1>1, <1>2, ConcatProperties
    <2>. DEFINE n == Len(s)
    <2>2. n \in Nat /\ i \in 1 .. n /\ Len(l) = i - 1 /\ Len(r) = n - i
        BY <1>1, <1>2, LenProperties
    <2>. HIDE DEF n, t
    <2>3. ASSUME NEW k \in 1 .. i - 1 PROVE t[k] = s[k]
        <3>1. k \in 1 .. Len(l) + Len(r) /\ k <= Len(l)
            BY <2>2
        <3>. QED  BY <1>1, <2>1, <3>1
    <2>4. ASSUME NEW k \in i .. n - 1 PROVE t[k] = s[k + 1]
        <3>. DEFINE m == k - Len(l)
        <3>1. k \in 1 .. Len(l) + Len(r) /\ ~(k <= Len(l)) /\ m \in 1 .. n - i /\ m + i = k + 1
            BY <2>2
        <3>2. t[k] = r[m]
            BY <2>1, <3>1
        <3>. HIDE DEF m
        <3>3. r[m] = s[m + i]
            BY <1>2, <3>1 DEF n
        <3>. QED  BY <3>1, <3>2, <3>3
    <2>. QED  BY <1>1, <1>2, <2>1, <2>3, <2>4 DEF n
<1>. HIDE DEF t
<1>4. ASSUME NEW k \in 1 .. Len(s), s[k] # s[i] PROVE s[k] \in {t[m] : m \in 1 .. Len(t)}
    <2>1. CASE k < i
        <3>1. k \in 1 .. i - 1 /\ k \in 1 .. Len(t)
            BY <1>3, <2>1
        <3>. QED  BY <1>3, <3>1
    <2>2. CASE k > i
        <3>1. k - 1 \in i .. Len(s) - 1 /\ k - 1 \in 1 .. Len(t) /\ (k - 1) + 1 = k
            BY <1>3, <2>2
        <3>2. t[k - 1] = s[(k - 1) + 1]  BY <1>3, <3>1
        <3>. QED  BY <1>3, <3>1, <3>2
    <2>3. k # i
        BY <1>4
    <2>. QED  BY <2>1, <2>2, <2>3
<1>5. RemoveAt(s, i) = t
    BY DEF RemoveAt, t
<1>6. ToSet(s) = {s[k] : k \in 1 .. Len(s)} /\ ToSet(t) = {t[m] : m \in 1 .. Len(t)}
    BY <1>3, TabsOf
<1>. QED  BY <1>3, <1>4, <1>5, <1>6

\* A push leaves an announced route that has its tab, or goes astray.
LEMMA PushTabInv ==
    ASSUME TabInv, NEW tags \in Seq(Paths), NEW cache, NEW p \in Paths, PushWith(tags, cache, p),
           UNCHANGED <<at, listens>>
    PROVE  TabInv'
<1>1. CASE p = at
    <2>1. /\ going' = NoPath /\ tagList' = tags /\ UNCHANGED latestRoute
          /\ astray' \/ (~astray /\ going = NoPath /\ at \in ToSet(tags))
        BY <1>1 DEF PushWith
    <2>2. CASE ~astray'
        BY <2>1, <2>2 DEF TabInv, LatestIsAhead, LatestHasTab, ToSet
    <2>. QED  BY <2>1, <2>2 DEF TabInv
<1>2. CASE p # at
    <2>1. going' = p /\ latestRoute' = p /\ p # NoPath
          /\ tagList' = IF listens /\ p \notin ToSet(tags) THEN Append(tags, p) ELSE tags
        BY <1>2, RoutesAssumption DEF PushWith, Listened
    <2>2. tagList' \in Seq(Paths) /\ (listens => p \in ToSet(tagList'))
        BY <2>1, TabsOfAppend
    <2>3. LatestIsAhead'
        BY <2>1 DEF LatestIsAhead
    <2>4. LatestHasTab'
        BY <2>1, <2>2, Zenon DEF LatestHasTab, ToSet
    <2>. QED  BY <2>2, <2>3, <2>4 DEF TabInv
<1>. QED  BY <1>1, <1>2

\* Without one, the page that is shown has to keep its tab.
LEMMA NoPushTabInv ==
    ASSUME TabInv, NEW tags \in Seq(Paths), NEW cache, NoPush(tags, cache),
           UNCHANGED <<at, listens>>,
           at \in ToSet(tagList) => at \in ToSet(tags)
    PROVE  TabInv'
<1>1. CASE astray
    BY <1>1 DEF TabInv, NoPush
<1>2. CASE going = NoPath
    BY <1>2 DEF TabInv, LatestIsAhead, LatestHasTab, NoPush, ToSet
<1>3. CASE going # NoPath
    BY <1>3 DEF TabInv, LatestIsAhead, LatestHasTab, NoPush, ToSet
<1>. QED  BY <1>1, <1>2, <1>3

\* freshTabList keeps the tab of the current page, unless it pushes.
LEMMA FreshTabInv ==
    ASSUME TabInv, NEW tags \in Seq(Paths), NEW i \in DOMAIN tagList, NEW goes \in BOOLEAN,
           FreshTabList(tags, i, goes), UNCHANGED <<at, listens>>,
           ~goes /\ at \in ToSet(tagList) => at \in ToSet(tags)
    PROVE  TabInv'
<1>1. CASE goes
    <2>1. PathOf[NameOf[tagList[i]]] \in Paths
        BY RoutesAssumption, ElementOfSeq DEF TabInv
    <2>. QED  BY <1>1, <2>1, PushTabInv DEF FreshTabList
<1>2. CASE ~goes
    BY <1>2, NoPushTabInv DEF FreshTabList
<1>. QED  BY <1>1, <1>2

\* findCurrentRouteIndex finds a tab of the current page.
LEMMA CurrentTabIsThere ==
    ASSUME TabInv, at \in ToSet(tagList)
    PROVE  CurrentTab \in 1 .. Len(tagList) /\ tagList[CurrentTab] = at
<1>1. \E k \in DOMAIN tagList : tagList[k] = at
    BY DEF ToSet
<1>. QED  BY <1>1 DEF CurrentTab, TabInv

LEMMA TagCloseInv ==
    ASSUME TabInv, NEW i \in DOMAIN tagList, TagClose(i)
    PROVE  TabInv'
<1>. DEFINE tags == RemoveAt(tagList, i)
            cache == cacheTabList \ {NameOf[tagList[i]]}
<1>1. i \in 2 .. Len(tagList) /\ UNCHANGED <<at, listens>> /\ tagList \in Seq(Paths)
    BY DEF TagClose, TabInv
<1>2. tags \in Seq(Paths) /\ ToSet(tagList) \ {tagList[i]} \subseteq ToSet(tags)
    BY <1>1, TabsOfRemoveAt
<1>3. CASE tagList[i] = at
    <2>1. i - 1 \in 1 .. Len(tagList)
        BY <1>1, LenProperties
    <2>2. tagList[i - 1] \in Paths
        BY <1>1, <2>1, ElementOfSeq
    <2>. QED  BY <1>1, <1>2, <1>3, <2>2, RoutesAssumption, PushTabInv DEF TagClose
<1>4. CASE tagList[i] # at
    BY <1>1, <1>2, <1>4, NoPushTabInv DEF TagClose
<1>. QED  BY <1>3, <1>4

LEMMA CloseLeftInv ==
    ASSUME TabInv, NEW i \in DOMAIN tagList, CloseLeft(i)
    PROVE  TabInv'
<1>. DEFINE n == Len(tagList)
            r == SubSeq(tagList, i, n)
            tags == <<tagList[1]>> \o r
<1>1. i \in 3 .. n /\ UNCHANGED <<at, listens>> /\ tagList \in Seq(Paths) /\ n \in Nat
    BY LenProperties DEF CloseLeft, TabInv
<1>2. r \in Seq(Paths) /\ Len(r) = n - i + 1 /\ \A k \in 1 .. n - i + 1 : r[k] = tagList[i + k - 1]
    BY <1>1, SubSeqProperties
<1>3. tags \in Seq(Paths) /\ Len(tags) = n - i + 2 /\ \A k \in 1 .. n - i + 1 : tags[k + 1] = r[k]
    BY <1>1, <1>2, ConcatProperties, ElementOfSeq
<1>4. ASSUME ~(CurrentTab < i), at \in ToSet(tagList) PROVE at \in ToSet(tags)
    <2>1. CurrentTab \in i .. n /\ tagList[CurrentTab] = at
        BY <1>1, <1>4, CurrentTabIsThere
    <2>. DEFINE k == CurrentTab - i + 1
    <2>. HIDE DEF tags, r, n
    <2>2. k \in 1 .. n - i + 1 /\ k + 1 \in 1 .. Len(tags) /\ i + k - 1 = CurrentTab
        BY <1>1, <1>3, <2>1
    <2>3. tags[k + 1] = at
        BY <1>2, <1>3, <2>1, <2>2
    <2>. QED  BY <1>3, <2>2, <2>3, TabsOf
<1>5. (CurrentTab < i) \in BOOLEAN /\ FreshTabList(tags, i, CurrentTab < i)
    BY DEF CloseLeft
<1>. HIDE DEF tags
<1>. QED  BY <1>1, <1>3, <1>4, <1>5, FreshTabInv

LEMMA CloseRightInv ==
    ASSUME TabInv, NEW i \in DOMAIN tagList, CloseRight(i)
    PROVE  TabInv'
<1>. DEFINE n == Len(tagList)
            tags == SubSeq(tagList, 1, i)
<1>1. i \in 1 .. n /\ UNCHANGED <<at, listens>> /\ tagList \in Seq(Paths) /\ n \in Nat
    BY LenProperties DEF CloseRight, TabInv
<1>2. tags \in Seq(Paths) /\ Len(tags) = i /\ \A k \in 1 .. i : tags[k] = tagList[k]
    BY <1>1, SubSeqProperties
<1>3. (CurrentTab > i) \in BOOLEAN /\ FreshTabList(tags, i, CurrentTab > i)
    BY DEF CloseRight
<1>4. ASSUME ~(CurrentTab > i), at \in ToSet(tagList) PROVE at \in ToSet(tags)
    <2>. HIDE DEF tags, n
    <2>1. CurrentTab \in 1 .. i /\ tagList[CurrentTab] = at
        BY <1>1, <1>4, CurrentTabIsThere DEF n
    <2>. QED  BY <1>2, <2>1, TabsOf
<1>. HIDE DEF tags
<1>. QED  BY <1>1, <1>2, <1>3, <1>4, FreshTabInv

LEMMA CloseOthersInv ==
    ASSUME TabInv, NEW i \in DOMAIN tagList, CloseOthers(i)
    PROVE  TabInv'
<1>. DEFINE tags == IF i = 1 THEN <<tagList[1]>> ELSE <<tagList[1], tagList[i]>>
<1>1. UNCHANGED <<at, listens>> /\ tagList \in Seq(Paths) /\ i \in 1 .. Len(tagList)
    BY DEF CloseOthers, TabInv
<1>2. 1 \in 1 .. Len(tagList)
    BY <1>1, LenProperties
<1>3. tagList[1] \in Paths /\ tagList[i] \in Paths
    BY <1>1, <1>2, ElementOfSeq
<1>4. tags \in Seq(Paths)
    BY <1>3
<1>. QED  BY <1>1, <1>4, FreshTabInv DEF CloseOthers

LEMMA ToggleTabBarInv ==
    ASSUME TabInv, ToggleTabBar
    PROVE  TabInv'
<1>1. CASE ~tabBar /\ latestRoute \in Paths \ ToSet(tagList)
    <2>1. tagList' = Append(tagList, latestRoute) /\ UNCHANGED <<at, going, latestRoute, astray>>
        BY <1>1 DEF ToggleTabBar
    <2>2. tagList' \in Seq(Paths) /\ latestRoute \in ToSet(tagList')
        BY <1>1, <2>1, TabsOfAppend DEF TabInv
    <2>. QED  BY <2>1, <2>2 DEF TabInv, LatestIsAhead, LatestHasTab, ToSet
<1>2. CASE tabBar \/ latestRoute \notin Paths \ ToSet(tagList)
    BY <1>2 DEF ToggleTabBar, TabInv, LatestIsAhead, LatestHasTab, ToSet
<1>. QED  BY <1>1, <1>2

LEMMA TabStep ==
    ASSUME TabInv, TabNext
    PROVE  TabInv'
<1>1. ASSUME NEW p \in Paths, TabNavigate(p) \/ Replace(p) PROVE TabInv'
    BY <1>1, PushTabInv DEF TabNavigate, Replace, TabInv
<1>2. CASE TabConfirm
    BY <1>2 DEF TabConfirm, TabInv, LatestIsAhead, LatestHasTab, ToSet
<1>3. CASE CloseAll
    <2>1. <<DefaultPath>> \in Seq(Paths) /\ DefaultPath \in Paths
        BY RoutesAssumption DEF DefaultPath
    <2>. QED  BY <1>3, <2>1, PushTabInv DEF CloseAll
<1>4. ASSUME NEW i \in DOMAIN tagList, ReloadTab(i) PROVE TabInv'
    <2>1. at \in Paths
        BY <1>4, ElementOfSeq DEF ReloadTab, TabInv
    <2>. QED  BY <1>4, <2>1, RoutesAssumption DEF ReloadTab, TabInv, LatestIsAhead, LatestHasTab, ToSet
<1>5. ASSUME NEW n \in reloading, AddCache(n) PROVE TabInv'
    BY <1>5 DEF AddCache, TabInv, LatestIsAhead, LatestHasTab, ToSet
<1>6. CASE RemoveRouteListener
    BY <1>6 DEF RemoveRouteListener, TabInv, LatestIsAhead, LatestHasTab, ToSet
<1>. QED  BY <1>1, <1>2, <1>3, <1>4, <1>5, <1>6, TagCloseInv, CloseLeftInv, CloseRightInv, CloseOthersInv,
             ToggleTabBarInv DEF TabNext

\* For any pages, tabs and navigations, a page that has come to be shown has its
\* tab while the bar listens, but for a page whose tab was closed before it came
\* and one pushed again while it was shown, up to the next push to another page
\* (components/tab-bar, utils/route-listener.ts).
THEOREM ShownPagesHaveTabs == TabSpec => []CurrentHasTab
<1>1. TabInit => TabInv
    BY RoutesAssumption DEF TabInit, TabInv, LatestIsAhead, LatestHasTab, DefaultPath
<1>2. TabInv => CurrentHasTab
    BY DEF TabInv, LatestIsAhead, LatestHasTab, CurrentHasTab
<1>3. TabInv /\ UNCHANGED tabVars => TabInv'
    BY DEF TabInv, LatestIsAhead, LatestHasTab, ToSet, tabVars
<1>. QED  BY <1>1, <1>2, <1>3, TabStep, PTL DEF TabSpec

-------------------------------------------------------------------------------
(***************************************************************************)
(* The demo page.  Offers and answers reach both queues in the same        *)
(* callback, so that the last description still queued at a connection, or *)
(* the state it is in when there is none, is the same on both sides.       *)
(***************************************************************************)
Operations == {"create", "candidate", "local", "remote"}
States == {"stable", "offered"}
Means(i, op) == IF Offers(i, op) THEN "offered" ELSE "stable"
Descriptions(q) == {k \in 1 .. Len(q) : q[k] \in {"local", "remote"}}

\* A connection in state s with the operations q ends in state v.
EndsIn(i, q, s, v) ==
    \/ Descriptions(q) = {} /\ v = s
    \/ \E k \in Descriptions(q) : (\A m \in Descriptions(q) : m <= k) /\ v = Means(i, q[k])

ShareTypeOK ==
    /\ queue \in [Pc -> Seq(Operations)] /\ alive \in [Pc -> BOOLEAN]
    /\ signaling \in [Pc -> States] /\ broken \in BOOLEAN

Agree(q, s) == \E v \in States : EndsIn(1, q[1], s[1], v) /\ EndsIn(2, q[2], s[2], v)

ShareInv == ShareTypeOK /\ (alive[1] /\ alive[2] /\ ~broken => Agree(queue, signaling))

\* What is not a description changes nothing; a description is what it ends in.
LEMMA AppendEnds ==
    ASSUME NEW i \in Pc, NEW q \in Seq(Operations), NEW s, NEW v, NEW op \in Operations
    PROVE  /\ Append(q, op) \in Seq(Operations)
           /\ op \notin {"local", "remote"} /\ EndsIn(i, q, s, v) => EndsIn(i, Append(q, op), s, v)
           /\ op \in {"local", "remote"} => EndsIn(i, Append(q, op), s, Means(i, op))
<1>. DEFINE a == Append(q, op)
            n == Len(q)
<1>1. /\ a \in Seq(Operations) /\ Len(a) = n + 1 /\ a[n + 1] = op /\ n \in Nat
      /\ \A k \in 1 .. n : a[k] = q[k]
    OBVIOUS
<1>. HIDE DEF a, n
<1>2. CASE op \notin {"local", "remote"}
    <2>1. Descriptions(a) = Descriptions(q)
        BY <1>1, <1>2 DEF Descriptions, n
    <2>2. \A k \in Descriptions(q) : a[k] = q[k]
        BY <1>1 DEF Descriptions, n
    <2>. QED  BY <1>1, <1>2, <2>1, <2>2 DEF EndsIn, a
<1>3. CASE op \in {"local", "remote"}
    <2>1. n + 1 \in Descriptions(a) /\ \A m \in Descriptions(a) : m <= n + 1
        BY <1>1, <1>3 DEF Descriptions
    <2>. QED  BY <1>1, <1>3, <2>1 DEF EndsIn, a
<1>. QED  BY <1>2, <1>3

\* The first operation is done: nothing, or the state it means.
LEMMA TailEnds ==
    ASSUME NEW i \in Pc, NEW q \in Seq(Operations), q # <<>>, NEW s, NEW v, EndsIn(i, q, s, v)
    PROVE  /\ Head(q) \in Operations /\ Tail(q) \in Seq(Operations)
           /\ Head(q) \notin {"local", "remote"} => EndsIn(i, Tail(q), s, v)
           /\ Head(q) \in {"local", "remote"} => EndsIn(i, Tail(q), Means(i, Head(q)), v)
<1>. DEFINE t == Tail(q)
            n == Len(q)
<1>1. /\ t \in Seq(Operations) /\ Len(t) = n - 1 /\ n \in Nat \ {0} /\ Head(q) = q[1]
      /\ q[1] \in Operations
      /\ \A k \in 1 .. n - 1 : t[k] = q[k + 1]
    OBVIOUS
<1>. HIDE DEF t, n
<1>2. \A k \in 1 .. n - 1 : k \in Descriptions(t) <=> k + 1 \in Descriptions(q)
    BY <1>1 DEF Descriptions, n
<1>3. \A k \in Descriptions(q) : k # 1 => k - 1 \in Descriptions(t) /\ t[k - 1] = q[k]
    BY <1>1, <1>2 DEF Descriptions, n
<1>4. \A k \in Descriptions(t) : k \in 1 .. n - 1 /\ k + 1 \in Descriptions(q)
    BY <1>1, <1>2 DEF Descriptions
<1>5. ASSUME NEW k \in Descriptions(q), \A m \in Descriptions(q) : m <= k, v = Means(i, q[k]), k # 1,
             NEW u
      PROVE  EndsIn(i, t, u, v)
    <2>1. k - 1 \in Descriptions(t) /\ t[k - 1] = q[k]
        BY <1>3, <1>5
    <2>2. ASSUME NEW m \in Descriptions(t) PROVE m <= k - 1
        <3>1. m + 1 <= k /\ m \in Int /\ k \in Int
            BY <1>1, <1>4, <1>5, <2>2 DEF Descriptions
        <3>. QED  BY <3>1
    <2>. QED  BY <1>5, <2>1, <2>2 DEF EndsIn
<1>6. CASE Descriptions(q) = {}
    <2>1. Descriptions(t) = {} /\ v = s
        BY <1>4, <1>6 DEF EndsIn
    <2>2. q[1] \notin {"local", "remote"}
        BY <1>1, <1>6 DEF Descriptions, n
    <2>. QED  BY <1>1, <2>1, <2>2 DEF EndsIn, t
<1>7. CASE Descriptions(q) # {}
    <2>1. PICK k \in Descriptions(q) : (\A m \in Descriptions(q) : m <= k) /\ v = Means(i, q[k])
        BY <1>7 DEF EndsIn
    <2>2. CASE k # 1
        BY <1>1, <1>5, <2>1, <2>2 DEF t
    <2>3. CASE k = 1
        <3>1. Descriptions(t) = {}
            <4>1. \A m \in Descriptions(t) : m + 1 <= 1 /\ m >= 1
                BY <1>1, <1>4, <2>1, <2>3
            <4>. QED  BY <1>4, <4>1
        <3>2. q[1] \in {"local", "remote"}
            BY <2>3 DEF Descriptions
        <3>. QED  BY <1>1, <2>1, <2>3, <3>1, <3>2 DEF EndsIn, t
    <2>. QED  BY <2>2, <2>3
<1>. QED  BY <1>6, <1>7

\* A call of a connection: both sides still agree after anything but a
\* description, and after a description that both are given.
LEMMA CalledType ==
    ASSUME NEW q \in [Pc -> Seq(Operations)], NEW i \in Pc, NEW op \in Operations
    PROVE  /\ Called(q, i, op) \in [Pc -> Seq(Operations)]
           /\ Called(q, i, op)[i] = Append(q[i], op)
           /\ \A j \in Pc : j # i => Called(q, i, op)[j] = q[j]
BY AppendEnds DEF Called

LEMMA CalledAgrees ==
    ASSUME NEW q \in [Pc -> Seq(Operations)], NEW s, NEW i \in Pc, NEW op \in {"create", "candidate"},
           Agree(q, s)
    PROVE  Agree(Called(q, i, op), s)
<1>1. PICK v \in States : EndsIn(1, q[1], s[1], v) /\ EndsIn(2, q[2], s[2], v)
    BY DEF Agree
<1>2. op \in Operations /\ op \notin {"local", "remote"} /\ 1 \in Pc /\ 2 \in Pc
    BY DEF Operations, Pc
<1>. DEFINE c == Called(q, i, op)
<1>4. c[i] = Append(q[i], op) /\ \A j \in Pc : j # i => c[j] = q[j]
    BY <1>2, CalledType
<1>3. ASSUME NEW j \in Pc, EndsIn(j, q[j], s[j], v) PROVE EndsIn(j, c[j], s[j], v)
    <2>. HIDE DEF c
    <2>1. CASE j = i
        <3>1. q[i] \in Seq(Operations)
            OBVIOUS
        <3>2. EndsIn(i, Append(q[i], op), s[i], v)
            BY <1>2, <1>3, <2>1, <3>1, AppendEnds
        <3>. QED  BY <1>4, <2>1, <3>2
    <2>2. CASE j # i
        BY <1>3, <1>4, <2>2
    <2>. QED  BY <2>1, <2>2
<1>. QED  BY <1>1, <1>2, <1>3 DEF Agree

LEMMA ExchangeAgrees ==
    ASSUME NEW q \in [Pc -> Seq(Operations)], NEW s, NEW i \in Pc
    PROVE  /\ Exchange(i, q) \in [Pc -> Seq(Operations)]
           /\ alive[GetOther(i)] => Agree(Exchange(i, q), s)
<1>. DEFINE j == GetOther(i)
            c == Called(q, i, "local")
            e == Called(c, j, "remote")
<1>1. j \in Pc /\ j # i /\ Pc = {i, j} /\ 1 \in Pc /\ 2 \in Pc
    BY DEF Pc, GetOther
<1>2. "local" \in Operations /\ "remote" \in Operations
    BY DEF Operations
<1>3. c \in [Pc -> Seq(Operations)] /\ c[i] = Append(q[i], "local") /\ c[j] = q[j]
    BY <1>1, <1>2, CalledType
<1>4. e \in [Pc -> Seq(Operations)] /\ e[i] = c[i] /\ e[j] = Append(c[j], "remote")
    BY <1>1, <1>2, <1>3, CalledType, ZenonT(30)
<1>5. Means(i, "local") = Means(j, "remote") /\ Means(i, "local") \in States
    BY DEF Means, Offers, Pc, GetOther, States
<1>6. EndsIn(i, e[i], s[i], Means(i, "local"))
    BY <1>2, <1>3, <1>4, AppendEnds
<1>7. EndsIn(j, e[j], s[j], Means(j, "remote"))
    BY <1>1, <1>2, <1>3, <1>4, AppendEnds
<1>8. Agree(e, s)
    <2>. DEFINE v == Means(i, "local")
    <2>1. EndsIn(1, e[1], s[1], v) /\ EndsIn(2, e[2], s[2], v)
        BY <1>1, <1>5, <1>6, <1>7
    <2>. HIDE DEF v, e
    <2>. QED  BY <1>5, <2>1 DEF Agree, v
<1>. QED  BY <1>3, <1>4, <1>8 DEF Exchange

\* The operation i has at the front is done, and its state is what it means.
LEMMA DoneAgrees ==
    ASSUME NEW q \in [Pc -> Seq(Operations)], NEW s \in [Pc -> States], NEW i \in Pc, q[i] # <<>>,
           NEW r, r = [q EXCEPT ![i] = Tail(@)]
    PROVE  /\ r \in [Pc -> Seq(Operations)] /\ Head(q[i]) \in Operations
           /\ Head(q[i]) \in {"create", "candidate"} /\ Agree(q, s) => Agree(r, s)
           /\ Head(q[i]) \in {"local", "remote"} /\ Agree(q, s)
                => Agree(r, [s EXCEPT ![i] = Means(i, Head(q[i]))])
<1>. DEFINE op == Head(q[i])
            z == [s EXCEPT ![i] = Means(i, op)]
<1>1. q[i] \in Seq(Operations) /\ 1 \in Pc /\ 2 \in Pc
    BY DEF Pc
<1>2. Tail(q[i]) \in Seq(Operations) /\ op \in Operations
    BY <1>1
<1>3. r \in [Pc -> Seq(Operations)] /\ r[i] = Tail(q[i]) /\ \A j \in Pc : j # i => r[j] = q[j]
    BY <1>2
<1>4. z[i] = Means(i, op) /\ \A j \in Pc : j # i => z[j] = s[j]
    OBVIOUS
<1>. HIDE DEF op, z
<1>5. ASSUME NEW v \in States, NEW j \in Pc, EndsIn(j, q[j], s[j], v)
      PROVE  /\ op \in {"create", "candidate"} => EndsIn(j, r[j], s[j], v)
             /\ op \in {"local", "remote"} => EndsIn(j, r[j], z[j], v)
    <2>1. CASE j = i
        <3>1. op \in {"create", "candidate"} => op \notin {"local", "remote"}
            OBVIOUS
        <3>2. /\ op \notin {"local", "remote"} => EndsIn(i, Tail(q[i]), s[i], v)
              /\ op \in {"local", "remote"} => EndsIn(i, Tail(q[i]), Means(i, op), v)
            BY <1>1, <1>5, <2>1, TailEnds DEF op
        <3>. QED  BY <1>3, <1>4, <2>1, <3>1, <3>2
    <2>2. CASE j # i
        BY <1>3, <1>4, <1>5, <2>2
    <2>. QED  BY <2>1, <2>2
<1>6. ASSUME op \in {"create", "candidate"}, Agree(q, s) PROVE Agree(r, s)
    BY <1>1, <1>5, <1>6 DEF Agree
<1>7. ASSUME op \in {"local", "remote"}, Agree(q, s) PROVE Agree(r, z)
    BY <1>1, <1>5, <1>7 DEF Agree
<1>. QED  BY <1>2, <1>3, <1>6, <1>7 DEF op, z

\* A callback calls an operation, or finds its connection gone.
LEMMA CallInv ==
    ASSUME ShareInv, NEW i \in Pc, NEW op \in {"create", "candidate"},
           \/ queue' = Called(queue, i, op) /\ UNCHANGED broken
           \/ broken' = TRUE /\ UNCHANGED queue,
           UNCHANGED <<alive, signaling>>
    PROVE  ShareInv'
<1>1. op \in Operations
    BY DEF Operations
<1>2. ShareTypeOK'
    <2>1. queue \in [Pc -> Seq(Operations)] /\ Called(queue, i, op) \in [Pc -> Seq(Operations)]
        BY <1>1, CalledType DEF ShareInv, ShareTypeOK
    <2>. HIDE DEF Called
    <2>2. queue' \in [Pc -> Seq(Operations)] /\ broken' \in BOOLEAN
        BY <2>1 DEF ShareInv, ShareTypeOK
    <2>. QED  BY <2>2 DEF ShareInv, ShareTypeOK
<1>3. ASSUME alive[1], alive[2], ~broken' PROVE Agree(queue', signaling')
    BY <1>3, CalledAgrees DEF ShareInv, ShareTypeOK
<1>. QED  BY <1>2, <1>3 DEF ShareInv

LEMMA StopInv ==
    ASSUME ShareInv, NEW i \in Pc, StopPc(i)
    PROVE  ShareInv'
<1>1. ~alive'[1] \/ ~alive'[2]
    BY DEF StopPc, Pc, ShareInv, ShareTypeOK
<1>2. ShareTypeOK'
    BY DEF ShareInv, ShareTypeOK, StopPc
<1>. QED  BY <1>1, <1>2 DEF ShareInv

LEMMA OperationInv ==
    ASSUME ShareInv, NEW i \in Pc, OperationDone(i)
    PROVE  ShareInv'
<1>. DEFINE op == Head(queue[i])
            rest == [queue EXCEPT ![i] = Tail(@)]
<1>1. /\ queue \in [Pc -> Seq(Operations)] /\ signaling \in [Pc -> States] /\ queue[i] # <<>>
      /\ alive \in [Pc -> BOOLEAN] /\ broken \in BOOLEAN /\ UNCHANGED alive
    BY DEF ShareInv, ShareTypeOK, OperationDone
<1>2. /\ rest \in [Pc -> Seq(Operations)] /\ op \in Operations
      /\ op \in {"create", "candidate"} /\ Agree(queue, signaling) => Agree(rest, signaling)
      /\ op \in {"local", "remote"} /\ Agree(queue, signaling)
           => Agree(rest, [signaling EXCEPT ![i] = Means(i, op)])
    BY <1>1, DoneAgrees
<1>3. \/ /\ op = "create" /\ CreateDone(i, rest)
         /\ UNCHANGED <<signaling, described, remoteStream>>
      \/ /\ op = "candidate" /\ queue' = rest
         /\ UNCHANGED <<signaling, described, remoteStream, broken>>
      \/ op \in {"local", "remote"} /\ DescriptionDone(i, op) /\ queue' = rest
    <2>1. op # "local+"
        BY <1>2 DEF Operations
    <2>. QED  BY <2>1 DEF OperationDone
<1>4. alive[1] /\ alive[2] /\ ~broken => Agree(queue, signaling)
    BY DEF ShareInv
<1>. HIDE DEF op, rest
<1>5. CASE op = "create" /\ CreateDone(i, rest) /\ UNCHANGED signaling
    <2>1. CASE queue' = rest /\ UNCHANGED broken
        BY <1>1, <1>2, <1>4, <1>5, <2>1 DEF ShareInv, ShareTypeOK
    <2>2. CASE queue' = Exchange(i, rest) /\ broken' = (broken \/ ~alive[GetOther(i)])
        <3>1. Exchange(i, rest) \in [Pc -> Seq(Operations)]
            BY <1>2, ExchangeAgrees
        <3>2. ShareTypeOK'
            BY <1>1, <1>5, <2>2, <3>1 DEF ShareTypeOK
        <3>3. ASSUME ~broken' PROVE Agree(queue', signaling')
            BY <1>1, <1>2, <1>5, <2>2, <3>3, ExchangeAgrees
        <3>. QED  BY <3>2, <3>3 DEF ShareInv
    <2>. QED  BY <1>5, <2>1, <2>2 DEF CreateDone
<1>6. CASE op = "candidate" /\ queue' = rest /\ UNCHANGED <<signaling, broken>>
    BY <1>1, <1>2, <1>4, <1>6 DEF ShareInv, ShareTypeOK
<1>7. CASE op \in {"local", "remote"} /\ DescriptionDone(i, op) /\ queue' = rest
    <2>1. CASE broken' = TRUE /\ UNCHANGED signaling
        BY <1>1, <1>2, <1>7, <2>1 DEF ShareInv, ShareTypeOK
    <2>2. CASE signaling' = [signaling EXCEPT ![i] = Means(i, op)] /\ UNCHANGED broken
        <3>1. Means(i, op) \in States
            BY DEF Means, States
        <3>. QED  BY <1>1, <1>2, <1>4, <1>7, <2>2, <3>1 DEF ShareInv, ShareTypeOK
    <2>3. CASE ~Offers(i, op) /\ signaling[i] = "stable" /\ UNCHANGED <<signaling, broken>>
        <3>1. [signaling EXCEPT ![i] = Means(i, op)] = signaling
            BY <1>1, <2>3 DEF Means
        <3>. QED  BY <1>1, <1>2, <1>4, <1>7, <2>3, <3>1 DEF ShareInv, ShareTypeOK
    <2>. QED  BY <1>7, <2>1, <2>2, <2>3 DEF DescriptionDone, Means
<1>. QED  BY <1>3, <1>5, <1>6, <1>7

LEMMA ShareStep ==
    ASSUME ShareInv, ShareNext
    PROVE  ShareInv'
<1>1. 1 \in Pc /\ 2 \in Pc
    BY DEF Pc
<1>2. CASE PressPush \/ DialogAnswered
    BY <1>2 DEF PressPush, DialogAnswered, rtcVars, ShareInv, ShareTypeOK
<1>3. CASE Captured
    BY <1>1, <1>3, CallInv DEF Captured
<1>4. CASE PressPull
    BY <1>1, <1>4, CallInv DEF PressPull
<1>5. ASSUME NEW i \in Pc, OnIceCandidate(i) PROVE ShareInv'
    <2>1. GetOther(i) \in Pc
        BY DEF GetOther, Pc
    <2>. QED  BY <1>5, <2>1, CallInv DEF OnIceCandidate
<1>. QED  BY <1>2, <1>3, <1>4, <1>5, StopInv, OperationInv DEF ShareNext

\* The two ends of the demo agree, for any number of presses and candidates.
THEOREM DemoAgrees == ShareSpec => []BothSidesAgree
<1>1. ShareInit => ShareInv
    <2>. SUFFICES ASSUME ShareInit PROVE ShareInv
        OBVIOUS
    <2>1. ShareTypeOK
        <3>1. <<>> \in Seq(Operations)
            OBVIOUS
        <3>. QED  BY <3>1 DEF ShareInit, ShareTypeOK, States
    <2>2. \A i \in Pc : Descriptions(queue[i]) = {} /\ signaling[i] = "stable"
        BY DEF ShareInit, Descriptions
    <2>3. Agree(queue, signaling)
        BY <2>2 DEF Agree, EndsIn, States, Pc
    <2>. QED  BY <2>1, <2>3 DEF ShareInv
<1>2. ShareInv => BothSidesAgree
    <2>. SUFFICES ASSUME ShareInv, \A i \in Pc : alive[i] /\ queue[i] = <<>>, ~broken
                  PROVE  signaling[1] = signaling[2]
        BY DEF BothSidesAgree
    <2>1. Agree(queue, signaling)
        BY DEF ShareInv, Pc
    <2>2. Descriptions(queue[1]) = {} /\ Descriptions(queue[2]) = {}
        BY DEF Descriptions, Pc
    <2>. QED  BY <2>1, <2>2 DEF Agree, EndsIn
<1>3. ShareInv /\ UNCHANGED shareVars => ShareInv'
    BY DEF ShareInv, ShareTypeOK, shareVars, rtcVars
<1>. QED  BY <1>1, <1>2, <1>3, ShareStep, PTL DEF ShareSpec
===============================================================================
