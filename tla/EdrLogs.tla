------------------------------- MODULE EdrLogs -------------------------------
(***************************************************************************)
(* pages/endpoints/EdrLogsPage.tsx: the logs of the chosen hosts, fetched  *)
(* when the choice changes and, with Live Tail on, at every tick.  The     *)
(* data stands for the hosts it was asked for.  The filters on type and    *)
(* keyword and the window with the process tree work on what is shown.     *)
(***************************************************************************)
EXTENDS AsyncState, FiniteSets

CONSTANTS HostChoices  \* the values of filter.hosts, "all" for none

VARIABLES
    filterHosts,  \* filter.hosts
    isLiveTail,
    logsPage,     \* the useAsyncState record
    askedFor,     \* the hosts in the URL of every call
    savedHunts    \* the hosts of the saved filters, kept in the browser's storage

edrVars == <<filterHosts, isLiveTail, logsPage, askedFor, savedHunts>>

EdrTypeOK ==
    /\ filterHosts \in HostChoices
    /\ isLiveTail \in BOOLEAN
    /\ logsPage \in HookType(HostChoices)
    /\ askedFor \in [FetchIds -> HostChoices]
    /\ savedHunts \subseteq HostChoices

\* Mutant: the fetch keeps the hosts of one rendering.
FirstHosts(h) == CHOOSE x \in HostChoices : TRUE

\* fetchFnRef.current is the function of the last rendering.
HostsParam(h) == h

\* execute() when the hosts are h.
Fetch(h) ==
    /\ CanExecute(logsPage)
    /\ logsPage' = Execute(logsPage)
    /\ askedFor' = [f \in FetchIds |->
          IF f \in Free(logsPage) \ Free(logsPage') THEN HostsParam(h) ELSE askedFor[f]]

EdrInit ==
    /\ filterHosts \in HostChoices
    /\ isLiveTail = FALSE
    /\ logsPage = Execute(Mounted)
    /\ askedFor = [f \in FetchIds |-> filterHosts]
    /\ savedHunts = {}

\* The array is a new one even if it names the same hosts, so the effect fetches.
SetHosts(h) ==
    /\ filterHosts' = h
    /\ Fetch(h)
    /\ UNCHANGED <<isLiveTail, savedHunts>>

\* A host in a row of the table, which stays there while the page is fetching.
ClickHost(h) == logsPage.data \in {"all", h} /\ h # "all" /\ SetHosts(h)

\* The array of a saved hunt may be the one in use: then the effect does not run.
RunHunt(h) ==
    /\ h \in savedHunts
    /\ filterHosts' = h
    /\ Fetch(h) \/ (h = filterHosts /\ UNCHANGED <<logsPage, askedFor>>)
    /\ UNCHANGED <<isLiveTail, savedHunts>>

HandleSaveHunt ==
    /\ savedHunts' = savedHunts \cup {filterHosts}
    /\ UNCHANGED <<filterHosts, isLiveTail, logsPage, askedFor>>

ToggleLiveTail ==
    /\ isLiveTail' = ~isLiveTail
    /\ UNCHANGED <<filterHosts, logsPage, askedFor, savedHunts>>

TailTick ==
    /\ isLiveTail
    /\ Fetch(filterHosts)
    /\ UNCHANGED <<filterHosts, isLiveTail, savedHunts>>

\* GET /endpoints/logs?hosts=...
HubListsLogs(f) ==
    /\ logsPage.calls[f].st = "sent"
    /\ logsPage' = Served(logsPage, f, askedFor[f])
    /\ UNCHANGED <<filterHosts, isLiveTail, askedFor, savedHunts>>

FetchResolves(f) ==
    /\ f \in Answered(logsPage)
    /\ logsPage' = Resolve(logsPage, f)
    /\ UNCHANGED <<filterHosts, isLiveTail, askedFor, savedHunts>>

FetchFails(f) ==
    /\ f \in InFlight(logsPage)
    /\ logsPage' = Reject(logsPage, f)
    /\ UNCHANGED <<filterHosts, isLiveTail, askedFor, savedHunts>>

EdrNext ==
    \/ \E h \in HostChoices : SetHosts(h) \/ ClickHost(h) \/ RunHunt(h)
    \/ HandleSaveHunt \/ ToggleLiveTail \/ TailTick
    \/ \E f \in FetchIds : HubListsLogs(f) \/ FetchResolves(f) \/ FetchFails(f)

-----------------------------------------------------------------------------
\* While Live Tail stays on and the hosts stay chosen, the table comes to show
\* the logs of these hosts and goes on doing so: late answers for other hosts
\* give way, since every tick asks for the hosts chosen by then.
TailCatchesUp ==
    \A h \in HostChoices :
        <>[](isLiveTail /\ filterHosts = h) => <>[](logsPage.data = h)
=============================================================================
