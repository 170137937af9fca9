----------------------------- MODULE MCStreams -----------------------------
(***************************************************************************)
(* The parts of the console that are fed by a stream, by polling or by     *)
(* repeated fetching, the layout around every page, and signing in.  They  *)
(* share no state, so a behaviour is a behaviour of the one that is        *)
(* mounted.                                                                *)
(***************************************************************************)
EXTENDS AgentChat, TriageFeed, PlaybookSandbox, CommandCenter, InvestigationGraph, EdrLogs,
        ThreatFeeds, Session, Shell

VARIABLE mounted

MCSeverity == [a1 |-> 1, a2 |-> 2]

\* More default commands than search results.
MCDefaultCommands == <<"/playbooks", "/incidents/active", "/settings">>

MCNavGroups == [Utilities |-> {"/settings"}]

vars == <<mounted, chatVars, feedVars, sandboxVars, ccVars, graphVars, edrVars,
          feedPageVars, sessionVars, shellVars>>

\* One initial state stands for each part that is not mounted.
Init ==
    /\ mounted \in {"chat", "triage", "sandbox", "center", "graph", "edr", "threat",
                    "session", "layout"}
    /\ ChatInit /\ TriageInit /\ SandboxInit /\ CenterInit
    /\ GraphInit /\ EdrInit /\ ThreatInit /\ SessionInit /\ ShellInit
    /\ mounted # "sandbox" => selectedPlaybook = CHOOSE p \in Playbooks : TRUE
    /\ mounted # "center" => hubAlerts = {}
    /\ mounted # "graph" => hubGraph = Nothing
    /\ mounted # "edr" => filterHosts = CHOOSE h \in HostChoices : TRUE
    /\ mounted # "session" => path = "/" /\ cookie = "none"

Next ==
    /\ UNCHANGED mounted
    /\ \/ /\ mounted = "chat" /\ ChatNext
          /\ UNCHANGED <<feedVars, sandboxVars, ccVars, graphVars, edrVars, feedPageVars,
                         sessionVars, shellVars>>
       \/ /\ mounted = "triage" /\ TriageNext
          /\ UNCHANGED <<chatVars, sandboxVars, ccVars, graphVars, edrVars, feedPageVars,
                         sessionVars, shellVars>>
       \/ /\ mounted = "sandbox" /\ SandboxNext
          /\ UNCHANGED <<chatVars, feedVars, ccVars, graphVars, edrVars, feedPageVars,
                         sessionVars, shellVars>>
       \/ /\ mounted = "center" /\ CenterNext
          /\ UNCHANGED <<chatVars, feedVars, sandboxVars, graphVars, edrVars, feedPageVars,
                         sessionVars, shellVars>>
       \/ /\ mounted = "graph" /\ GraphNext
          /\ UNCHANGED <<chatVars, feedVars, sandboxVars, ccVars, edrVars, feedPageVars,
                         sessionVars, shellVars>>
       \/ /\ mounted = "edr" /\ EdrNext
          /\ UNCHANGED <<chatVars, feedVars, sandboxVars, ccVars, graphVars, feedPageVars,
                         sessionVars, shellVars>>
       \/ /\ mounted = "threat" /\ ThreatNext
          /\ UNCHANGED <<chatVars, feedVars, sandboxVars, ccVars, graphVars, edrVars,
                         sessionVars, shellVars>>
       \/ /\ mounted = "session" /\ SessionNext
          /\ UNCHANGED <<chatVars, feedVars, sandboxVars, ccVars, graphVars, edrVars,
                         feedPageVars, shellVars>>
       \/ /\ mounted = "layout" /\ ShellNext
          /\ UNCHANGED <<chatVars, feedVars, sandboxVars, ccVars, graphVars, edrVars,
                         feedPageVars, sessionVars>>

(***************************************************************************)
(* Fairness.  Only the part that is mounted runs.  The hub's loops run,    *)
(* open connections deliver, timers and intervals run out and every        *)
(* request ends; a hub that is asked often enough answers a request (the   *)
(* two SF of the EDR logs).  No fairness is assumed of the analyst.        *)
(***************************************************************************)
FeedFairness == WF_feedVars(mounted = "triage" /\ FeedTick)

SandboxFairness == \A r \in Runs : WF_sandboxVars(mounted = "sandbox" /\ Stream(r))

EdrFairness ==
    /\ WF_edrVars(mounted = "edr" /\ TailTick)
    /\ \A f \in FetchIds :
          /\ WF_edrVars(mounted = "edr"
                     /\ (HubListsLogs(f) \/ FetchResolves(f) \/ FetchFails(f)))
          /\ SF_edrVars(mounted = "edr" /\ HubListsLogs(f))
          /\ SF_edrVars(mounted = "edr" /\ FetchResolves(f))

SessionFairness ==
    /\ WF_sessionVars(mounted = "session" /\ PageAsks)
    /\ WF_sessionVars(mounted = "session" /\ HubDecides)
    /\ WF_sessionVars(mounted = "session" /\ Answers)

LayoutFairness == WF_shellVars(mounted = "layout" /\ SearchTimerFires)

Spec ==
    /\ Init /\ [][Next]_vars
    /\ FeedFairness /\ SandboxFairness /\ EdrFairness /\ SessionFairness /\ LayoutFairness

TypeOK ==
    /\ ChatTypeOK /\ TriageTypeOK /\ SandboxTypeOK /\ CenterTypeOK
    /\ GraphTypeOK /\ EdrTypeOK /\ ThreatTypeOK /\ SessionTypeOK /\ ShellTypeOK

\* Sign-in: without a cookie the console comes to rest on the login page.
ComesToRest == mounted = "session" => RestsOnLogin
=============================================================================
