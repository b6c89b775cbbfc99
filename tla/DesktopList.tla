------------------------------ MODULE DesktopList ------------------------------
(***************************************************************************)
(* The list of desktops (src/signaling/fronted/src/views/desktops/         *)
(* index.vue).  Connecting, starting and shutting down are timers that     *)
(* change the row when they run.  The user may press any button meanwhile, *)
(* and leave the list and come back, which gives it new rows while the     *)
(* timers of the old rows go on.  Timers have no clock here: one that is   *)
(* set runs at any time, so every order of their deadlines is included.    *)
(***************************************************************************)
EXTENDS Naturals

CONSTANTS
    Desktops,
    MaxVisits,      \* bound on how often the list is mounted
    MaxTimers       \* bound on the timers of one kind a row may have

DesktopRows == (1 .. MaxVisits) \X Desktops

VARIABLES
    visit,      \* how often the list was mounted
    shown,      \* it is
    status,     \* row -> "online" or "offline"
    connecting, \* row -> its Connect button spins
    boots,      \* row -> timers that end a start of the desktop
    shuts,      \* row -> timers that end a shutdown
    connBoots,  \* row -> timers that end a start made to connect
    opens,      \* row -> timers that open the remote desktop
    tabs        \* row -> remote desktops it opened, and presses it took for that

listVars == <<visit, shown, status, connecting, boots, shuts, connBoots, opens, tabs>>

ListInit ==
    /\ visit = 1 /\ shown = TRUE
    /\ status \in {[r \in DesktopRows |-> s[r[2]]] : s \in [Desktops -> {"online", "offline"}]}
    /\ connecting = [r \in DesktopRows |-> FALSE]
    /\ boots = [r \in DesktopRows |-> 0] /\ shuts = [r \in DesktopRows |-> 0]
    /\ connBoots = [r \in DesktopRows |-> 0] /\ opens = [r \in DesktopRows |-> 0]
    /\ tabs = [r \in DesktopRows |-> [opened |-> 0, pressed |-> 0]]

SetTimer(timers, r) == timers[r] < MaxTimers /\ timers' = [timers EXCEPT ![r] = @ + 1]
RunTimer(timers, r) == timers[r] > 0 /\ timers' = [timers EXCEPT ![r] = @ - 1]
OnScreen(r) == shown /\ r[1] = visit

-------------------------------------------------------------------------------
\* Mutant: a second press is not turned away.
ConnectDesktopAgain(r) ==
    /\ OnScreen(r)
    /\ tabs[r].pressed < MaxTimers
    /\ connecting' = [connecting EXCEPT ![r] = TRUE]
    /\ tabs' = [tabs EXCEPT ![r].pressed = @ + 1]
    /\ IF status[r] = "offline" THEN SetTimer(connBoots, r) /\ UNCHANGED opens
                                ELSE SetTimer(opens, r) /\ UNCHANGED connBoots
    /\ UNCHANGED <<visit, shown, status, boots, shuts>>

\* connectDesktop: a desktop that is off is started first.
ConnectDesktop(r) ==
    /\ OnScreen(r) /\ ~connecting[r]
    /\ tabs[r].pressed < MaxTimers
    /\ connecting' = [connecting EXCEPT ![r] = TRUE]
    /\ tabs' = [tabs EXCEPT ![r].pressed = @ + 1]
    /\ IF status[r] = "offline" THEN SetTimer(connBoots, r) /\ UNCHANGED opens
                                ELSE SetTimer(opens, r) /\ UNCHANGED connBoots
    /\ UNCHANGED <<visit, shown, status, boots, shuts>>

\* It has started: now connect to it.
BootedToConnect(r) ==
    /\ RunTimer(connBoots, r)
    /\ status' = [status EXCEPT ![r] = "online"]
    /\ SetTimer(opens, r)
    /\ UNCHANGED <<visit, shown, connecting, boots, shuts, tabs>>

\* A tab opens, whatever became of the desktop and of the list.
OpenDesktop(r) ==
    /\ RunTimer(opens, r)
    /\ connecting' = [connecting EXCEPT ![r] = FALSE]
    /\ tabs' = [tabs EXCEPT ![r].opened = @ + 1]
    /\ UNCHANGED <<visit, shown, status, boots, shuts, connBoots>>

StartDesktop(r) ==
    /\ OnScreen(r) /\ status[r] = "offline"
    /\ SetTimer(boots, r)
    /\ UNCHANGED <<visit, shown, status, connecting, shuts, connBoots, opens, tabs>>

Booted(r) ==
    /\ RunTimer(boots, r)
    /\ status' = [status EXCEPT ![r] = "online"]
    /\ UNCHANGED <<visit, shown, connecting, shuts, connBoots, opens, tabs>>

ShutdownDesktop(r) ==
    /\ OnScreen(r) /\ status[r] = "online"
    /\ SetTimer(shuts, r)
    /\ UNCHANGED <<visit, shown, status, connecting, boots, connBoots, opens, tabs>>

ShutDown(r) ==
    /\ RunTimer(shuts, r)
    /\ status' = [status EXCEPT ![r] = "offline"]
    /\ UNCHANGED <<visit, shown, connecting, boots, connBoots, opens, tabs>>

\* Another view, and back: the rows are made anew.
LeaveList ==
    /\ shown /\ shown' = FALSE
    /\ UNCHANGED <<visit, status, connecting, boots, shuts, connBoots, opens, tabs>>

ShowList ==
    /\ ~shown /\ visit < MaxVisits
    /\ shown' = TRUE /\ visit' = visit + 1
    /\ UNCHANGED <<status, connecting, boots, shuts, connBoots, opens, tabs>>

ListNext ==
    \/ LeaveList \/ ShowList
    \/ \E r \in DesktopRows :
        \/ ConnectDesktop(r) \/ BootedToConnect(r) \/ OpenDesktop(r)
        \/ StartDesktop(r) \/ Booted(r) \/ ShutdownDesktop(r) \/ ShutDown(r)

-------------------------------------------------------------------------------
\* Each press of Connect that is taken opens one tab, also when the desktop is
\* started or shut down meanwhile or the list is left: while the button spins
\* one tab is owed, and none otherwise.
EachPressOpensOneTab ==
    \A r \in DesktopRows :
        /\ tabs[r].pressed - tabs[r].opened = connBoots[r] + opens[r]
        /\ connBoots[r] + opens[r] = IF connecting[r] THEN 1 ELSE 0
===============================================================================
