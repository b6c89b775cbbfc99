SPECIFICATION Spec
CONSTANTS
    MaxPcs = 3
    MaxFlows = 2
    Tabs = {t1, t2}
    NoTab = NoTab
    Buttons = {left}
    Keys = {key}
    Grid <- MCGrid
    Desktops = {d1}
    MaxVisits = 2
    MaxTimers = 2
    MaxPushes = 2
    MaxPulls = 2
    MaxCandidates = 1
    MaxNavs = 2
    MaxClicks = 3
    Paths <- MCPaths
    NameOf <- MCNameOf
    PathOf <- MCPathOf
    RedirectTo <- MCRedirectTo
    NoPath = NoPath
INVARIANTS
    EachPressOpensOneTab
    BothSidesAgree
    RemoteIsAsSeen
    RoleIsOfToken
    CurrentHasTab
PROPERTIES
    ConnectionIsAnswered
    AbandonedPullEnds
    LoggedOutLeaves
CHECK_DEADLOCK FALSE
