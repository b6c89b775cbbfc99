-------------------------------- MODULE Console --------------------------------
(***************************************************************************)
(* The session of the management console (src/signaling/fronted/src): the  *)
(* token in the browser's storage, the role in the user store, and the     *)
(* route guards, which every navigation passes and which wait for the      *)
(* server.  A newer navigation supersedes one that is under way; what the  *)
(* old one's guards have asked for is still answered.  The server is the   *)
(* mock of mock/user.ts, except that a request may also fail.              *)
(***************************************************************************)
EXTENDS Naturals

CONSTANTS
    MaxNavs,        \* bound on navigations under way at once
    MaxClicks       \* bound on what the user does

Users == {"admin", "user"}
Nobody == ""

\* The routes, with the roles their meta names; "*" is everyone.  As every
\* layout is open to every role, the layout's watcher of the role never pushes.
Layouts == {"Workplace", "desktops-main"}
RolesOf == [r \in Layouts |-> {"*"}]
WHITE_LIST == {"notFound", "login"}
Routes == Layouts \cup WHITE_LIST
Default == "Workplace"

Slots == 1 .. MaxNavs

VARIABLES
    token,          \* whose token is stored
    userRole,       \* the mock's record of the last login
    role,           \* in the user store
    page,           \* the route that is shown; "none" while the page loads
    back,           \* its redirect query
    nav,            \* navigations under way
    latest,         \* the one that may end in a page; 0: none
    formBusy,       \* the login form's loading
    logins,         \* login requests, unanswered
    logouts,        \* logout requests of the navbar, unanswered
    modal,          \* the logged-out dialog: "none", "shown", "logout"
    fromServer,     \* menuFromServer
    fetching,       \* the settings fetch the menu
    serverMenu,
    clicks,         \* what the user has done so far
    mixed,          \* a login over a session, or a role switched by hand
    stranded        \* since the last navigation to another page: a request that ends
                    \* the session failed, or the page that is shown was asked for again

sessionVars == <<token, userRole, role>>
navVars == <<page, back, nav, latest>>
formVars == <<formBusy, logins, logouts, modal>>
menuVars == <<fromServer, fetching, serverMenu>>
consoleVars == <<sessionVars, navVars, formVars, menuVars, clicks, mixed, stranded>>

Idle == [to |-> "login", back |-> "", stage |-> "idle"]
Navigation(to, b) == [to |-> to, back |-> b, stage |-> "login"]

ConsoleInit ==
    /\ token = Nobody /\ userRole = "admin" /\ role = Nobody
    /\ page = "none" /\ back = ""
    /\ nav = [s \in Slots |-> Idle] /\ latest = 0
    /\ formBusy = FALSE /\ logins = {} /\ logouts = 0 /\ modal = "none"
    /\ fromServer = FALSE /\ fetching = FALSE /\ serverMenu = {}
    /\ clicks = 0 /\ mixed = FALSE /\ stranded = FALSE

Click == clicks < MaxClicks /\ clicks' = clicks + 1

-------------------------------------------------------------------------------
(***************************************************************************)
(* Navigations                                                             *)
(***************************************************************************)
\* router.push; to where the page is already, it only supersedes.
Push(to, b) ==
    IF to = page /\ b = back THEN latest' = 0 /\ UNCHANGED nav
    ELSE \E s \in Slots :
            /\ nav[s] = Idle
            /\ nav' = [nav EXCEPT ![s] = Navigation(to, b)]
            /\ latest' = s

\* A menu item or the browser's buttons, which know no redirect query.  The
\* menu pushes desktops-main also when it is shown.
Navigate(to) ==
    /\ page # "none" /\ Click
    /\ to # page \/ to = "desktops-main"
    /\ Push(to, "")
    /\ stranded' = (to = page)
    /\ UNCHANGED <<sessionVars, page, back, formVars, menuVars, mixed>>

At(s, stage) == nav[s].stage = stage
Stage(s, stage) == [nav EXCEPT ![s].stage = stage]

\* next(location): a navigation of its own, which becomes the latest.
Redirect(s, to, b) == nav' = [nav EXCEPT ![s] = Navigation(to, b)] /\ latest' = s

\* To the login page, which shall lead back; a query that says so goes first.
ToLogin(s) == Redirect(s, "login", IF nav[s].back = "" THEN nav[s].to ELSE nav[s].back)

\* setupUserLoginInfoGuard
LoginGuard(s) ==
    /\ At(s, "login")
    /\ \/ /\ token # Nobody
          /\ nav' = Stage(s, IF role # Nobody THEN "permission" ELSE "info")
          /\ UNCHANGED latest
       \/ /\ token = Nobody /\ nav[s].to = "login"
          /\ nav' = Stage(s, "permission") /\ UNCHANGED latest
       \/ token = Nobody /\ nav[s].to # "login" /\ ToLogin(s)
    /\ UNCHANGED <<sessionVars, page, back, formVars, menuVars, clicks, mixed, stranded>>

\* userStore.info() in the guard; without it the session ends.
InfoReply(s) ==
    /\ At(s, "info")
    /\ \/ /\ token # Nobody
          /\ role' = userRole
          /\ nav' = Stage(s, "permission")
       \/ nav' = Stage(s, "logout") /\ UNCHANGED role
    /\ UNCHANGED <<token, userRole, page, back, latest, formVars, menuVars, clicks, mixed, stranded>>

\* Mutant: the role stays.
LogoutCallBackRole ==
    /\ token' = Nobody /\ serverMenu' = {}
    /\ UNCHANGED <<userRole, role>>

\* logoutCallBack, whether the request succeeded or not.
LogoutCallBack ==
    /\ token' = Nobody /\ role' = Nobody /\ serverMenu' = {}
    /\ UNCHANGED userRole

\* userStore.logout() in the guard; if it fails next is never called.
GuardLogoutReply(s) ==
    /\ At(s, "logout")
    /\ LogoutCallBack
    /\ \/ ToLogin(s) /\ stranded' = FALSE
       \/ /\ nav' = [nav EXCEPT ![s] = Idle] /\ UNCHANGED latest
          /\ stranded' = (stranded \/ token # Nobody \/ s = latest)
    /\ UNCHANGED <<page, back, formVars, fromServer, fetching, clicks, mixed>>

AccessRouter(to) == to \in Layouts => RolesOf[to] \cap {"*", role} # {}

\* The permission guard's verdict with this menu.
Decide(s, menu) ==
    IF AccessRouter(nav[s].to) /\ (fromServer => nav[s].to \in menu \cup WHITE_LIST)
    THEN nav' = Stage(s, "load") /\ UNCHANGED latest
    ELSE Redirect(s, "notFound", "")

\* setupPermissionGuard
PermissionGuard(s) ==
    /\ At(s, "permission")
    /\ IF fromServer /\ serverMenu = {} /\ nav[s].to \notin WHITE_LIST
       THEN nav' = Stage(s, "menu") /\ UNCHANGED latest
       ELSE Decide(s, serverMenu)
    /\ UNCHANGED <<sessionVars, page, back, formVars, menuVars, clicks, mixed, stranded>>

\* fetchServerMenuConfig: a failure leaves the menu as it was.
FetchServerMenu == serverMenu' \in {serverMenu, {"Workplace"}}

MenuReply(s) ==
    /\ At(s, "menu")
    /\ FetchServerMenu
    /\ Decide(s, serverMenu')
    /\ UNCHANGED <<sessionVars, page, back, formVars, fromServer, fetching, clicks, mixed, stranded>>

\* The view is loaded: the latest navigation shows it, any other ends here.
Confirm(s) ==
    /\ At(s, "load")
    /\ nav' = [nav EXCEPT ![s] = Idle]
    /\ IF s = latest
       THEN /\ page' = nav[s].to /\ back' = nav[s].back /\ latest' = 0
            /\ formBusy' = (formBusy /\ page = "login")
       ELSE UNCHANGED <<page, back, latest, formBusy>>
    /\ UNCHANGED <<sessionVars, logins, logouts, modal, menuVars, clicks, mixed, stranded>>

-------------------------------------------------------------------------------
(***************************************************************************)
(* Login and logout                                                        *)
(***************************************************************************)
\* handleSubmit
SubmitLogin(u) ==
    /\ page = "login" /\ ~formBusy /\ u \notin logins
    /\ Click
    /\ formBusy' = TRUE /\ logins' = logins \cup {u}
    /\ mixed' = (mixed \/ token # Nobody \/ logins # {})
    /\ UNCHANGED <<sessionVars, navVars, logouts, modal, menuVars, stranded>>

\* On to where the login page's query says, without waiting for the guards; or
\* the token, whichever it is, is cleared.
LoginReply(u) ==
    /\ u \in logins
    /\ logins' = logins \ {u} /\ formBusy' = FALSE
    /\ \/ /\ userRole' = u /\ token' = u
          /\ Push(IF back = "" THEN Default ELSE back, "")
          /\ stranded' = FALSE
       \/ /\ token' = Nobody
          /\ stranded' = (stranded \/ token # Nobody)
          /\ UNCHANGED <<userRole, nav, latest>>
    /\ UNCHANGED <<role, page, back, logouts, modal, menuVars, clicks, mixed>>

\* The navbar's logout.
HandleLogout ==
    /\ page \in Layouts /\ Click
    /\ logouts' = logouts + 1
    /\ UNCHANGED <<sessionVars, navVars, formBusy, logins, modal, menuVars, mixed, stranded>>

\* Mutant: the way to the login page is left to the next navigation.
LogoutReplyStays ==
    /\ logouts > 0 /\ logouts' = logouts - 1
    /\ LogoutCallBack
    /\ \/ stranded' = FALSE
       \/ stranded' = (stranded \/ token # Nobody)
    /\ UNCHANGED <<page, back, nav, latest, formBusy, logins, modal, fromServer, fetching, clicks, mixed>>

\* useUser.logout; if the request fails the page stays.
LogoutReply ==
    /\ logouts > 0 /\ logouts' = logouts - 1
    /\ LogoutCallBack
    /\ \/ Push("login", page) /\ stranded' = FALSE
       \/ stranded' = (stranded \/ token # Nobody) /\ UNCHANGED <<nav, latest>>
    /\ UNCHANGED <<page, back, formBusy, logins, modal, fromServer, fetching, clicks, mixed>>

SwitchRoles ==
    /\ page \in Layouts /\ Click
    /\ role' = IF role = "user" THEN "admin" ELSE "user"
    /\ mixed' = TRUE
    /\ UNCHANGED <<token, userRole, navVars, formVars, menuVars, stranded>>

-------------------------------------------------------------------------------
(***************************************************************************)
(* The logged-out dialog, the settings, a reload                           *)
(***************************************************************************)
\* A request of a page is answered 50008, 50012 or 50014.
IllegalToken ==
    /\ page \in Layouts /\ modal = "none" /\ Click
    /\ modal' = "shown"
    /\ UNCHANGED <<sessionVars, navVars, formBusy, logins, logouts, menuVars, mixed, stranded>>

ReLogin ==
    /\ modal = "shown" /\ modal' = "logout"
    /\ UNCHANGED <<sessionVars, navVars, formBusy, logins, logouts, menuVars, clicks, mixed, stranded>>

\* The page is loaded again: all that is left is what is in storage.
Loads(to) ==
    /\ page' = "none" /\ back' = ""
    /\ nav' = [s \in Slots |-> IF s = 1 THEN Navigation(to, "") ELSE Idle]
    /\ latest' = 1 /\ role' = Nobody
    /\ formBusy' = FALSE /\ logins' = {} /\ logouts' = 0 /\ modal' = "none"
    /\ fromServer' = FALSE /\ fetching' = FALSE /\ serverMenu' = {}
    /\ stranded' = FALSE

\* onOk: out and in again; if the logout fails the dialog stays, and the page.
ReLoginReply ==
    /\ modal = "logout"
    /\ \/ /\ token' = Nobody /\ Loads(page)
          /\ UNCHANGED userRole
       \/ /\ LogoutCallBack
          /\ modal' = "shown" /\ stranded' = (stranded \/ token # Nobody)
          /\ UNCHANGED <<navVars, formBusy, logins, logouts, fromServer, fetching>>
    /\ UNCHANGED <<clicks, mixed>>

\* The console is opened, or opened again after nothing came of it.
Open(to) ==
    /\ page = "none" /\ \A s \in Slots : nav[s] = Idle
    /\ Loads(to)
    /\ UNCHANGED <<token, userRole, clicks, mixed>>

Reload ==
    /\ page # "none" /\ Click
    /\ Loads(page)
    /\ UNCHANGED <<token, userRole, mixed>>

\* The settings' switch: the menu is fetched before it counts.
SwitchMenu ==
    /\ page \in Layouts /\ ~fetching /\ Click
    /\ IF fromServer THEN fromServer' = FALSE /\ UNCHANGED fetching
                     ELSE fetching' = TRUE /\ UNCHANGED fromServer
    /\ UNCHANGED <<sessionVars, navVars, formVars, serverMenu, mixed, stranded>>

MenuFetched ==
    /\ fetching /\ fetching' = FALSE
    /\ FetchServerMenu
    /\ fromServer' = TRUE
    /\ UNCHANGED <<sessionVars, navVars, formVars, clicks, mixed, stranded>>

GuardSteps(s) ==
    \/ LoginGuard(s) \/ InfoReply(s) \/ GuardLogoutReply(s)
    \/ PermissionGuard(s) \/ MenuReply(s) \/ Confirm(s)

ConsoleNext ==
    \/ \E s \in Slots : GuardSteps(s)
    \/ \E to \in Routes : Open(to) \/ Navigate(to)
    \/ \E u \in Users : SubmitLogin(u) \/ LoginReply(u)
    \/ HandleLogout \/ LogoutReply \/ SwitchRoles
    \/ IllegalToken \/ ReLogin \/ ReLoginReply \/ Reload
    \/ SwitchMenu \/ MenuFetched

\* Requests are answered, guards go on, views load.
ConsoleFairness ==
    /\ \A s \in Slots : WF_consoleVars(GuardSteps(s))
    /\ \A u \in Users : WF_consoleVars(LoginReply(u))
    /\ WF_consoleVars(LogoutReply) /\ WF_consoleVars(ReLoginReply)

-------------------------------------------------------------------------------
\* The role the console works with is that of the token it sends, through
\* logouts, reloads and late replies, unless the user logged in over a session
\* or switched the role by hand.
RoleIsOfToken == role = Nobody \/ token = Nobody \/ mixed \/ role = token

\* Without a session, whether a page is shown or loads, the console ends at the
\* login page: requests and navigations that were under way, and several logouts
\* at once, do not keep it from there.  Excepted is a page that stays because
\* the request that ended the session failed (the token is cleared, the push to
\* the login page left out) or because it was asked for again, which supersedes
\* the way there: from these the next navigation or reload leads to the login
\* page.
LoggedOutLeaves ==
    (token = Nobody /\ page # "login" /\ (page = "none" => latest # 0))
        ~> (token # Nobody \/ page = "login" \/ stranded)
===============================================================================
