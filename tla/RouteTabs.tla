------------------------------- MODULE RouteTabs -------------------------------
(***************************************************************************)
(* The tab bar of the management console (src/signaling/fronted/src,       *)
(* store/modules/tab-bar, components/tab-bar) and the route listener that  *)
(* feeds it: a tab is added when a navigation starts, before any guard has *)
(* let it pass, and tabs are closed while navigations are under way.  One  *)
(* navigation counts at a time; a newer one supersedes it, also one to     *)
(* where the page already is.                                              *)
(***************************************************************************)
EXTENDS SequencesExt

CONSTANTS
    Paths,          \* full paths of pages, queries included
    NameOf,         \* path -> name of its route
    PathOf,         \* name -> the path without a query
    RedirectTo,     \* path -> that of the redirect view on its way there
    NoPath

\* Every page has a path without a query; the redirect view is not a page.
ASSUME RoutesAssumption ==
    /\ NoPath \notin Paths /\ PathOf["Workplace"] \in Paths
    /\ \A p \in Paths : PathOf[NameOf[p]] \in Paths /\ RedirectTo[p] \notin Paths \cup {NoPath}

DefaultPath == PathOf["Workplace"]

VARIABLES
    tagList,        \* the tabs, by full path
    cacheTabList,   \* names of the pages that are kept alive
    at,             \* the page that is shown
    going,          \* the navigation that counts, or NoPath
    latestRoute,    \* the last one that was announced
    tabBar,         \* the tab bar is shown
    listens,        \* its listener is there
    reloading,      \* tabs' names whose reload waits for the redirect
    astray          \* since the last push to another page: the tab of the page to come
                    \* was closed, or a push to the page that is shown ended a
                    \* navigation or came after the page's own tab was closed

tabVars == <<tagList, cacheTabList, at, going, latestRoute, tabBar, listens, reloading, astray>>

TabInit ==
    /\ at \in Paths /\ going = NoPath /\ latestRoute = at
    /\ tagList = <<DefaultPath>> /\ cacheTabList = {"Workplace"}
    /\ tabBar = FALSE /\ listens = FALSE /\ reloading = {} /\ astray = FALSE

Names(tags) == {NameOf[p] : p \in ToSet(tags)}

-------------------------------------------------------------------------------
\* The tab bar's listener and updateTabList.
Listened(tags, cache, p) ==
    LET adds == listens /\ p \notin ToSet(tags) IN
    /\ tagList' = IF adds THEN Append(tags, p) ELSE tags
    /\ cacheTabList' = IF adds THEN cache \cup {NameOf[p]} ELSE cache

\* router.push with the tabs as an action has left them: the first guard
\* announces the route.
PushWith(tags, cache, p) ==
    /\ going' = IF p = at THEN NoPath ELSE p
    /\ IF p = at THEN tagList' = tags /\ cacheTabList' = cache /\ UNCHANGED latestRoute
                 ELSE latestRoute' = p /\ Listened(tags, cache, p)
    /\ astray' = (p = at /\ (astray \/ going # NoPath \/ at \notin ToSet(tags)))

NoPush(tags, cache) ==
    /\ tagList' = tags /\ cacheTabList' = cache
    /\ astray' = (astray \/ (listens /\ going \in Paths \ ToSet(tags)))
    /\ UNCHANGED <<going, latestRoute>>

TabNavigate(p) ==
    /\ PushWith(tagList, cacheTabList, p)
    /\ UNCHANGED <<at, tabBar, listens, reloading>>

\* The page of the navigation that counts is shown.
TabConfirm ==
    /\ going # NoPath
    /\ at' = going /\ going' = NoPath
    /\ UNCHANGED <<tagList, cacheTabList, latestRoute, tabBar, listens, reloading, astray>>

\* The redirect view replaces itself.
Replace(p) ==
    /\ at = RedirectTo[p] /\ going = NoPath
    /\ PushWith(tagList, cacheTabList, p)
    /\ UNCHANGED <<at, tabBar, listens, reloading>>

-------------------------------------------------------------------------------
\* tagClose: deleteTag, and from the current tab to the one before it.
TagClose(i) ==
    /\ tabBar /\ i \in 2 .. Len(tagList)
    /\ LET tags == RemoveAt(tagList, i)
           cache == cacheTabList \ {NameOf[tagList[i]]}
       IN IF tagList[i] = at THEN PushWith(tags, cache, PathOf[NameOf[tagList[i - 1]]])
                             ELSE NoPush(tags, cache)
    /\ UNCHANGED <<at, tabBar, listens, reloading>>

\* findCurrentRouteIndex; 0 if the current page has no tab.
CurrentTab == IF at \in ToSet(tagList) THEN CHOOSE i \in DOMAIN tagList : tagList[i] = at ELSE 0

\* freshTabList, and to the tab the menu was opened on if the current one may
\* be gone.
FreshTabList(tags, i, goes) ==
    IF goes THEN PushWith(tags, Names(tags), PathOf[NameOf[tagList[i]]])
            ELSE NoPush(tags, Names(tags))

CloseLeft(i) ==
    /\ tabBar /\ i \in 3 .. Len(tagList)
    /\ FreshTabList(<<tagList[1]>> \o SubSeq(tagList, i, Len(tagList)), i, CurrentTab < i)
    /\ UNCHANGED <<at, tabBar, listens, reloading>>

\* Mutant: the current page is not left when its tab is closed.
CloseRightStays(i) ==
    /\ tabBar /\ i \in 1 .. Len(tagList) - 1
    /\ FreshTabList(SubSeq(tagList, 1, i), i, FALSE)
    /\ UNCHANGED <<at, tabBar, listens, reloading>>

CloseRight(i) ==
    /\ tabBar /\ i \in 1 .. Len(tagList) - 1
    /\ FreshTabList(SubSeq(tagList, 1, i), i, CurrentTab > i)
    /\ UNCHANGED <<at, tabBar, listens, reloading>>

CloseOthers(i) ==
    /\ tabBar /\ i \in DOMAIN tagList
    /\ FreshTabList(IF i = 1 THEN <<tagList[1]>> ELSE <<tagList[1], tagList[i]>>, i, TRUE)
    /\ UNCHANGED <<at, tabBar, listens, reloading>>

\* resetTabList
CloseAll ==
    /\ tabBar
    /\ PushWith(<<DefaultPath>>, {"Workplace"}, DefaultPath)
    /\ UNCHANGED <<at, tabBar, listens, reloading>>

\* Reload, of the current tab: its page is dropped from the cache, and through
\* the redirect view made anew.
ReloadTab(i) ==
    /\ tabBar /\ i \in DOMAIN tagList /\ tagList[i] = at
    /\ cacheTabList' = cacheTabList \ {NameOf[at]}
    /\ going' = RedirectTo[at] /\ latestRoute' = RedirectTo[at]
    /\ reloading' = reloading \cup {NameOf[at]}
    /\ astray' = FALSE
    /\ UNCHANGED <<tagList, at, tabBar, listens>>

\* The push to the redirect view has ended, there or superseded.
AddCache(n) ==
    /\ n \in reloading /\ going \notin {RedirectTo[p] : p \in Paths}
    /\ reloading' = reloading \ {n}
    /\ cacheTabList' = cacheTabList \cup {n}
    /\ UNCHANGED <<tagList, at, going, latestRoute, tabBar, listens, astray>>

\* The settings, or the layout around it, hide the tab bar, which removes every
\* listener, or show it: it takes up the latest route that was announced.
ToggleTabBar ==
    /\ tabBar' = ~tabBar /\ listens' = ~tabBar
    /\ IF ~tabBar /\ latestRoute \in Paths \ ToSet(tagList)
       THEN /\ tagList' = Append(tagList, latestRoute)
            /\ cacheTabList' = cacheTabList \cup {NameOf[latestRoute]}
       ELSE UNCHANGED <<tagList, cacheTabList>>
    /\ UNCHANGED <<at, going, latestRoute, reloading, astray>>

\* Logging out removes every listener, though the bar may still be shown.
RemoveRouteListener ==
    /\ listens /\ listens' = FALSE
    /\ UNCHANGED <<tagList, cacheTabList, at, going, latestRoute, tabBar, reloading, astray>>

TabNext ==
    \/ \E p \in Paths : TabNavigate(p) \/ Replace(p)
    \/ TabConfirm \/ CloseAll \/ ToggleTabBar \/ RemoveRouteListener
    \/ \E i \in DOMAIN tagList :
        TagClose(i) \/ CloseLeft(i) \/ CloseRight(i) \/ CloseOthers(i) \/ ReloadTab(i)
    \/ \E n \in reloading : AddCache(n)

-------------------------------------------------------------------------------
\* While the bar listens, a page that has come to be shown has its tab, whatever
\* was closed, reloaded, hidden or superseded on the way.  Excepted is the page
\* whose tab was closed while it was still to come, and the one that was pushed
\* again while it was shown, in place of a navigation under way or after its own
\* tab was closed: nothing announces these, and they are without a tab until
\* another page is gone to.
CurrentHasTab ==
    listens /\ going = NoPath /\ at \in Paths /\ ~astray => at \in ToSet(tagList)
===============================================================================
