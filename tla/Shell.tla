------------------------------- MODULE Shell -------------------------------
(***************************************************************************)
(* What surrounds every page: layouts/MainLayout.tsx with its drawer, and  *)
(* layouts/ui/Sidebar.tsx with its menus, CommandPalette.tsx and           *)
(* NotificationCenter.tsx.                                                 *)
(*                                                                         *)
(* The palette stays mounted when it is hidden, so the text, the timer and *)
(* the flag of a search outlive its window.  A click in the sidebar is     *)
(* possible whatever is open: its items can be reached with the keyboard.  *)
(* The buttons on a notification, and "Mark all as read", do nothing.      *)
(***************************************************************************)
EXTENDS Naturals, Sequences

CONSTANTS Links,            \* paths with an item of their own in the sidebar
          NavGroups,        \* menu |-> paths of its items
          DefaultCommands,  \* the paths of defaultCommands
          FilterPath,       \* where "Filter Alerts" leads
          Texts,            \* what may be typed
          GetIds            \* slots for GET /notifications: the bound on concurrent ones

VARIABLES
    location,
    sidebarOpen,
    expandedMenus,
    showSearch,
    searchText,     \* query
    activeIndex,
    isQuerying,
    searchTimer,    \* the 600 ms timer runs
    showNotifs,
    notifications,  \* "initial", "empty", "some", or "err": the item of a failure
    notifsLoading,
    notifGets       \* GET /notifications under way

layoutVars == <<location, sidebarOpen, expandedMenus>>
paletteVars == <<showSearch, searchText, activeIndex, isQuerying, searchTimer>>
notifVars == <<showNotifs, notifications, notifsLoading, notifGets>>
shellVars == <<layoutVars, paletteVars, notifVars>>

Here == "here"  \* the target of a command that only closes the palette

\* Two results for any text.
SearchResults == <<Here, FilterPath>>

DisplayedItems == IF searchText # "" THEN SearchResults ELSE DefaultCommands

Paths == Links \cup UNION {NavGroups[m] : m \in DOMAIN NavGroups}
    \cup {DefaultCommands[i] : i \in DOMAIN DefaultCommands} \cup {FilterPath}

ShellTypeOK ==
    /\ location \in Paths
    /\ sidebarOpen \in BOOLEAN /\ expandedMenus \subseteq DOMAIN NavGroups
    /\ showSearch \in BOOLEAN /\ isQuerying \in BOOLEAN /\ searchTimer \in BOOLEAN
    /\ searchText \in Texts \cup {""}
    /\ activeIndex \in Nat
    /\ showNotifs \in BOOLEAN /\ notifsLoading \in BOOLEAN
    /\ notifications \in {"initial", "empty", "some", "err"}
    /\ notifGets \subseteq GetIds

ShellInit ==
    /\ location = "/"
    /\ sidebarOpen = FALSE /\ expandedMenus = {}
    /\ showSearch = FALSE /\ searchText = "" /\ activeIndex = 0
    /\ isQuerying = FALSE /\ searchTimer = FALSE
    /\ showNotifs = FALSE /\ notifications = "initial" /\ notifsLoading = FALSE
    /\ notifGets = {}

-----------------------------------------------------------------------------
(* The drawer and the menus.                                               *)
SetSidebarOpen(open) ==
    /\ sidebarOpen' = open
    /\ UNCHANGED <<location, expandedMenus, paletteVars, notifVars>>

ToggleMenu(m) ==
    /\ expandedMenus' = IF m \in expandedMenus THEN expandedMenus \ {m}
                        ELSE expandedMenus \cup {m}
    /\ UNCHANGED <<location, sidebarOpen, paletteVars, notifVars>>

\* The items of a menu are there while it is expanded.
NavItems == Links \cup UNION {NavGroups[m] : m \in expandedMenus}

NavToPath(p) ==
    /\ p \in NavItems
    /\ location' = p
    /\ sidebarOpen' = FALSE
    /\ UNCHANGED <<expandedMenus, paletteVars, notifVars>>

-----------------------------------------------------------------------------
(* The command palette.                                                    *)

\* Mutant: the timer is only started when none was running.
QueryEffectOnce(q) ==
    /\ searchText' = q
    /\ activeIndex' = 0
    /\ searchTimer' = (q # "" /\ ~isQuerying)
    /\ isQuerying' = (isQuerying \/ q # "")

\* setQuery and the effect that follows a change: the timer of the old text is
\* cleared, and one is started for a text that is not empty.
QueryEffect(q) ==
    /\ searchText' = q
    /\ activeIndex' = 0
    /\ searchTimer' = (q # "")
    /\ isQuerying' = (isQuerying \/ q # "")

SetQuery(q) ==
    /\ showSearch /\ q # searchText
    /\ QueryEffect(q)
    /\ UNCHANGED <<showSearch, layoutVars, notifVars>>

SearchTimerFires ==
    /\ searchTimer
    /\ searchTimer' = FALSE
    /\ isQuerying' = FALSE
    /\ UNCHANGED <<showSearch, searchText, activeIndex, layoutVars, notifVars>>

\* The effect on isOpen: an empty field and the first command.
OpenEffect ==
    IF searchText = "" THEN activeIndex' = 0 /\ UNCHANGED <<searchText, searchTimer, isQuerying>>
    ELSE QueryEffect("")

\* Ctrl-K, or the item in the sidebar.
ToggleSearch ==
    /\ showSearch' = ~showSearch
    /\ IF showSearch THEN UNCHANGED <<searchText, activeIndex, searchTimer, isQuerying>>
       ELSE OpenEffect
    /\ UNCHANGED <<layoutVars, notifVars>>

\* Escape closes the palette and the notifications.
PressEscape ==
    /\ showSearch' = FALSE
    /\ showNotifs' = FALSE
    /\ UNCHANGED <<searchText, activeIndex, isQuerying, searchTimer, layoutVars,
                   notifications, notifsLoading, notifGets>>

Highlight(i) ==
    /\ showSearch
    /\ activeIndex' = i
    /\ UNCHANGED <<showSearch, searchText, isQuerying, searchTimer, layoutVars, notifVars>>

ArrowDown == Highlight((activeIndex + 1) % Len(DisplayedItems))
ArrowUp == Highlight((activeIndex + Len(DisplayedItems) - 1) % Len(DisplayedItems))

\* action() of a command: navigate, unless it stays, and onClose.
RunCommand(i) ==
    /\ showSearch
    /\ location' = IF DisplayedItems[i + 1] = Here THEN location ELSE DisplayedItems[i + 1]
    /\ showSearch' = FALSE
    /\ UNCHANGED <<sidebarOpen, expandedMenus, searchText, activeIndex, isQuerying,
                   searchTimer, notifVars>>

\* Enter, also while the spinner hides the commands.
PressEnter == activeIndex < Len(DisplayedItems) /\ RunCommand(activeIndex)

\* The pointer reaches a command only when the spinner is gone.
MouseEnter(i) == ~isQuerying /\ i < Len(DisplayedItems) /\ Highlight(i)
ClickCommand(i) == ~isQuerying /\ i < Len(DisplayedItems) /\ RunCommand(i)

-----------------------------------------------------------------------------
(* The notifications.                                                      *)

\* Mutant: the window opens before the request is shown as under way.
OpenWithoutSpinner(g) ==
    /\ ~showNotifs /\ g \notin notifGets
    /\ showNotifs' = TRUE
    /\ notifGets' = notifGets \cup {g}
    /\ UNCHANGED <<notifications, notifsLoading, layoutVars, paletteVars>>

\* openNotifications up to its await, when the window was closed.
OpenNotifications(g) ==
    /\ ~showNotifs /\ g \notin notifGets
    /\ showNotifs' = TRUE
    /\ notifsLoading' = TRUE
    /\ notifGets' = notifGets \cup {g}
    /\ UNCHANGED <<notifications, layoutVars, paletteVars>>

\* The item in the sidebar when the window is open, or its own button.
CloseNotifications ==
    /\ showNotifs
    /\ showNotifs' = FALSE
    /\ UNCHANGED <<notifications, notifsLoading, notifGets, layoutVars, paletteVars>>

\* The answer or the failure of one request ends the spinner of all.
NotificationsArrive(g, list) ==
    /\ g \in notifGets
    /\ notifGets' = notifGets \ {g}
    /\ notifications' = list
    /\ notifsLoading' = FALSE
    /\ UNCHANGED <<showNotifs, layoutVars, paletteVars>>

GetEnds(g) == \E list \in {"empty", "some", "err"} : NotificationsArrive(g, list)

\* NotificationCenter: what the window shows.
NotificationView ==
    IF ~showNotifs THEN "hidden"
    ELSE IF notifsLoading THEN "Syncing Streams..."
    ELSE IF notifications \in {"initial", "empty"} THEN "All caught up!"
    ELSE "list"

ShellNext ==
    \/ \E open \in BOOLEAN : SetSidebarOpen(open)
    \/ \E m \in DOMAIN NavGroups : ToggleMenu(m)
    \/ \E p \in Paths : NavToPath(p)
    \/ \E q \in Texts \cup {""} : SetQuery(q)
    \/ SearchTimerFires \/ ToggleSearch
    \/ PressEscape \/ ArrowDown \/ ArrowUp \/ PressEnter
    \/ \E i \in 0..(Len(DisplayedItems) - 1) : MouseEnter(i) \/ ClickCommand(i)
    \/ CloseNotifications
    \/ \E g \in GetIds : OpenNotifications(g) \/ GetEnds(g)

ShellSpec == ShellInit /\ [][ShellNext]_shellVars

-----------------------------------------------------------------------------
\* "All caught up!" is the hub's word: the window does not say it before the
\* first answer, nor after a failure, however often it is closed and opened
\* with requests under way.
CaughtUpIsAnswered == NotificationView = "All caught up!" => notifications = "empty"

\* A text that stays in the field gets its results: the spinner over them
\* ends.  (With the field empty it may stay: see the README.)
SearchAnswered ==
    \A q \in Texts :
        isQuerying /\ searchText = q ~> ~isQuerying \/ searchText # q
=============================================================================
