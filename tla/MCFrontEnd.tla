------------------------------ MODULE MCFrontEnd ------------------------------
(* What a user's browser tab shows: the push page, the page of a remote       *)
(* desktop (its stream, its input), the list of desktops, the demo page, or   *)
(* the console's frame (its session, its tabs).  A behaviour exercises one    *)
(* of them; they share no state of the browser.                               *)
EXTENDS PushPage, PullPage, RemoteInput, DesktopList, ScreenShare, Console, RouteTabs

MCGrid == {0, 1} \X {0, 1}
MCPaths == {"/w", "/d", "/d?q"}
MCNameOf == [p \in MCPaths |-> IF p = "/w" THEN "Workplace" ELSE "desktops-main"]
MCPathOf == [n \in {"Workplace", "desktops-main"} |-> IF n = "Workplace" THEN "/w" ELSE "/d"]
MCRedirectTo == [p \in MCPaths |-> "/redirect" \o p]

VARIABLE part

Init ==
    /\ part \in {"push", "pull", "input", "list", "demo", "session", "tabs"}
    /\ PushInit /\ PullInit /\ InputInit /\ ListInit /\ ShareInit /\ ConsoleInit /\ TabInit
    /\ part # "input" => pointer = Corner
    /\ part # "list" => status = [r \in DesktopRows |-> "online"]
    /\ part # "tabs" => at = DefaultPath

PushPart == part = "push" /\ PushNext /\ UNCHANGED
    <<part, pullVars, inputVars, listVars, shareVars, consoleVars, tabVars>>
PullPart == part = "pull" /\ PullNext /\ UNCHANGED
    <<part, pushVars, inputVars, listVars, shareVars, consoleVars, tabVars>>
InputPart == part = "input" /\ InputNext /\ UNCHANGED
    <<part, pushVars, pullVars, listVars, shareVars, consoleVars, tabVars>>
ListPart == part = "list" /\ ListNext /\ UNCHANGED
    <<part, pushVars, pullVars, inputVars, shareVars, consoleVars, tabVars>>
SharePart == part = "demo" /\ ShareNext /\ UNCHANGED
    <<part, pushVars, pullVars, inputVars, listVars, consoleVars, tabVars>>
ConsolePart == part = "session" /\ ConsoleNext /\ UNCHANGED
    <<part, pushVars, pullVars, inputVars, listVars, shareVars, tabVars>>
TabsPart == part = "tabs" /\ TabNext /\ UNCHANGED
    <<part, pushVars, pullVars, inputVars, listVars, shareVars, consoleVars>>

Next == PushPart \/ PullPart \/ InputPart \/ ListPart \/ SharePart \/ ConsolePart \/ TabsPart

vars == <<part, pushVars, pullVars, inputVars, listVars, shareVars, consoleVars, tabVars>>

Spec == Init /\ [][Next]_vars /\ PushFairness /\ PullFairness /\ ConsoleFairness
===============================================================================
