------------------------------ MODULE MCPages ------------------------------
(***************************************************************************)
(* The pages of the console with requests, answers and dialogs. App.tsx    *)
(* mounts the page of one route at a time and the pages share no state, so *)
(* a behaviour is a behaviour of the page whose route was chosen. The      *)
(* enrolment dialog shares no state with the table of hosts behind it and  *)
(* is a route of its own here.                                             *)
(***************************************************************************)
EXTENDS InvestigationDashboard, AlertRules, HostManagement, EnrollModal, NetworkMap,
        OverviewPage, IocSearch

VARIABLE route

MCSeverity == [a1 |-> 2, a2 |-> 3]

\* The whole table, and one that both the tab and the search term narrow.
MCViews == {[filter |-> "all", term |-> ""],
            [filter |-> "out-of-compliance", term |-> "term"]}

\* Graphs over the nodes with self-loops, double edges and cycles.
EdgeList == << <<"n3", "n2">>, <<"n1", "n2">>, <<"n2", "n1">>, <<"n4", "n3">>,
               <<"n2", "n2">>, <<"n4", "n1">> >>
MCTopologies == {SelectSeq(EdgeList, LAMBDA e : e \in S) : S \in SUBSET Range(EdgeList)}

\* Two findings of one node with an action to take, and two without.
MCFindings == {[id |-> i, node |-> "n1", status |-> "open", action |-> "isolate_host"] : i \in {1, 2}}
    \cup {[id |-> 3, node |-> "n2", status |-> "open", action |-> "none"],
          [id |-> 4, node |-> "n2", status |-> "actioned", action |-> "isolate_host"]}

\* One action on two hosts, and the same action in two investigations.
MCProposed == [i1 |-> {<<"isolate", "h1">>, <<"isolate", "h2">>}, i2 |-> {<<"isolate", "h1">>}]

pageVars == <<route, ruleVars, hostVars, enrollVars, mapVars, overviewVars, iocVars,
              dashboardVars>>

\* One initial state stands for each page that is not mounted.
PageInit ==
    /\ route \in {"/detection/rules", "/endpoints/hosts", "/endpoints/hosts, dialog",
                  "/assets/network-map", "/dashboard/overview", "/detection/ioc",
                  "/investigations/:id"}
    /\ RulesInit /\ HostsInit /\ EnrollInit /\ MapInit /\ OverviewInit /\ IocInit
    /\ Init
    /\ route # "/assets/network-map" => topology = <<>>
    /\ route # "/investigations/:id" => investigationId = "i1"

PageNext ==
    /\ UNCHANGED route
    /\ \/ /\ route = "/detection/rules" /\ RulesNext
          /\ UNCHANGED <<hostVars, enrollVars, mapVars, overviewVars, iocVars, dashboardVars>>
       \/ /\ route = "/endpoints/hosts" /\ HostsNext
          /\ UNCHANGED <<ruleVars, enrollVars, mapVars, overviewVars, iocVars, dashboardVars>>
       \/ /\ route = "/endpoints/hosts, dialog" /\ EnrollNext
          /\ UNCHANGED <<ruleVars, hostVars, mapVars, overviewVars, iocVars, dashboardVars>>
       \/ /\ route = "/assets/network-map" /\ MapNext
          /\ UNCHANGED <<ruleVars, hostVars, enrollVars, overviewVars, iocVars, dashboardVars>>
       \/ /\ route = "/dashboard/overview" /\ OverviewNext
          /\ UNCHANGED <<ruleVars, hostVars, enrollVars, mapVars, iocVars, dashboardVars>>
       \/ /\ route = "/detection/ioc" /\ IocNext
          /\ UNCHANGED <<ruleVars, hostVars, enrollVars, mapVars, overviewVars, dashboardVars>>
       \/ /\ route = "/investigations/:id" /\ Next
          /\ UNCHANGED <<ruleVars, hostVars, enrollVars, mapVars, overviewVars, iocVars>>

PageSpec == PageInit /\ [][PageNext]_pageVars

PageTypeOK ==
    /\ RulesTypeOK /\ HostsTypeOK /\ EnrollTypeOK /\ MapTypeOK /\ OverviewTypeOK
    /\ IocTypeOK /\ TypeOK
=============================================================================
