---------------------------- MODULE PagesProofs ----------------------------
(***************************************************************************)
(* Proofs about pages of the console, for any values of the constants: the *)
(* investigation page, the table of hosts and its enrolment dialog, each   *)
(* from its own actions.                                                   *)
(*                                                                         *)
(* The answer on the investigation page is an investigation because an     *)
(* answered call carries one (AnswersKnown). Its intelligence panel        *)
(* catches up because the last of its timers is always for the address of  *)
(* the page (LastTimer).                                                   *)
(***************************************************************************)
EXTENDS InvestigationDashboard, HostManagement, EnrollModal, Integers, TLAPS

\* The provers a leaf is given when it names none, with time for a busy machine.
USE SMTT(30), ZenonT(30)

-----------------------------------------------------------------------------
(* InvestigationDashboard.                                                   *)
Spec == Init /\ [][Next]_dashboardVars

Constants == NoData \notin Investigations /\ FetchIds # {}

AnswersKnown == \A f \in Answered(dashboard) : dashboard.calls[f].v \in Investigations

LastTimer ==
    Panels(dashboard) =>
        IF intel.timers = <<>>
        THEN intel.about = dashboard.data /\ ~intel.loading
        ELSE intel.timers[Len(intel.timers)] = dashboard.data

Typed ==
    /\ TypeOK
    /\ intel \in [about : Investigations \cup {NoData}, loading : BOOLEAN,
                  timers : Seq(Investigations)]
    /\ AnswersKnown

IInv == Typed /\ PanelsAgree /\ MissingWasApproved /\ LastTimer

-----------------------------------------------------------------------------
(* useAsyncState.                                                            *)

\* execute marks one free call as sent and shows the skeleton; the data stay.
LEMMA ExecuteFacts ==
    ASSUME NEW V, NEW h \in HookType(V), CanExecute(h)
    PROVE  /\ Execute(h) \in HookType(V)
           /\ Execute(h).data = h.data /\ Execute(h).loading = TRUE
           /\ \A f \in Answered(Execute(h)) :
                  f \in Answered(h) /\ Execute(h).calls[f] = h.calls[f]
<1>. DEFINE c == CHOOSE f \in Free(h) : TRUE
<1>1. c \in Free(h) /\ c \in FetchIds
  BY DEF CanExecute, Free
<1>. HIDE DEF c
<1>2. Execute(h) = [h EXCEPT !.loading = TRUE, !.error = FALSE, !.calls[c] = Sent]
  BY DEF Execute, c
<1>3. Sent \in [st : {"idle", "sent", "answered"}, v : V \cup {NoData}]
      /\ Sent.st = "sent"
  BY DEF Sent
<1>. HIDE DEF Sent
<1>4. /\ Execute(h) \in HookType(V)
      /\ Execute(h).data = h.data /\ Execute(h).loading = TRUE
  <2>1. Execute(h) = [data |-> h.data, loading |-> TRUE, error |-> FALSE,
                      calls |-> [h.calls EXCEPT ![c] = Sent]]
    BY <1>1, <1>2, ZenonT(30) DEF HookType
  <2>2. [h.calls EXCEPT ![c] = Sent] \in
          [FetchIds -> [st : {"idle", "sent", "answered"}, v : V \cup {NoData}]]
    BY <1>1, <1>3 DEF HookType
  <2>. QED
    BY <2>1, <2>2 DEF HookType
<1>5. \A f \in FetchIds : Execute(h).calls[f] = IF f = c THEN Sent ELSE h.calls[f]
  BY <1>1, <1>2 DEF HookType
<1>6. ASSUME NEW f \in Answered(Execute(h))
      PROVE  f \in Answered(h) /\ Execute(h).calls[f] = h.calls[f]
  <2>1. f \in FetchIds /\ Execute(h).calls[f].st = "answered"
    BY DEF Answered
  <2>2. f # c
    BY <2>1, <1>3, <1>5
  <2>. QED
    BY <2>1, <2>2, <1>5 DEF Answered
<1>. QED
  BY <1>4, <1>6

\* The hub's answer touches one call.
LEMMA ServedFacts ==
    ASSUME NEW V, NEW h \in HookType(V), NEW f \in FetchIds, NEW v \in V
    PROVE  /\ Served(h, f, v) \in HookType(V)
           /\ Served(h, f, v).data = h.data /\ Served(h, f, v).loading = h.loading
           /\ \A g \in FetchIds : Served(h, f, v).calls[g] =
                  IF g = f THEN [st |-> "answered", v |-> v] ELSE h.calls[g]
BY DEF Served, HookType

\* The end of execute, with an answer and without.
LEMMA SettledFacts ==
    ASSUME NEW V, NEW h \in HookType(V), NEW f \in FetchIds
    PROVE  /\ Resolve(h, f) \in HookType(V)
           /\ Resolve(h, f).data = h.calls[f].v /\ Resolve(h, f).loading = FALSE
           /\ Reject(h, f) \in HookType(V)
           /\ Reject(h, f).data = h.data
           /\ \A g \in FetchIds :
                  /\ Resolve(h, f).calls[g] = IF g = f THEN Idle ELSE h.calls[g]
                  /\ Reject(h, f).calls[g] = IF g = f THEN Idle ELSE h.calls[g]
BY ZenonT(30) DEF Resolve, Reject, HookType, Idle

-----------------------------------------------------------------------------
(* ThreatIntelPanel.                                                         *)

\* Whatever the hook of the page becomes, the panel's effect leaves it with
\* the address of the page shown or asked for last.
LEMMA IntelEffectFacts ==
    ASSUME Constants, Typed, LastTimer, dashboard' \in HookType(Investigations),
           IntelEffect(dashboard')
    PROVE  /\ intel' \in [about : Investigations \cup {NoData}, loading : BOOLEAN,
                          timers : Seq(Investigations)]
           /\ LastTimer'
<1>. DEFINE d == dashboard'.data
<1>0. Panels(dashboard') => d \in Investigations
  BY DEF Panels, HookType
<1>1. CASE ~Panels(dashboard')
  <2>1. intel' = [about |-> NoData, loading |-> TRUE, timers |-> <<>>]
    BY <1>1 DEF IntelEffect, Fresh
  <2>2. <<>> \in Seq(Investigations)
    OBVIOUS
  <2>. QED
    BY <1>1, <2>1, <2>2 DEF LastTimer
<1>2. CASE Panels(dashboard') /\ ~Panels(dashboard)
  <2>1. intel' = [about |-> NoData, loading |-> TRUE, timers |-> <<d>>]
    BY <1>2 DEF IntelEffect, Fresh
  <2>2. <<d>> \in Seq(Investigations) /\ <<d>> # <<>> /\ Len(<<d>>) = 1 /\ <<d>>[1] = d
    BY <1>0, <1>2
  <2>. QED
    BY <2>1, <2>2 DEF LastTimer
<1>3. CASE Panels(dashboard') /\ Panels(dashboard) /\ d # dashboard.data
  <2>. DEFINE q == intel.timers
  <2>1. intel' = [about |-> intel.about, loading |-> TRUE, timers |-> Append(q, d)]
    BY <1>3, ZenonT(30) DEF IntelEffect, Typed
  <2>2. q \in Seq(Investigations)
    BY DEF Typed
  <2>3. /\ Append(q, d) \in Seq(Investigations) /\ Append(q, d) # <<>>
        /\ Append(q, d)[Len(Append(q, d))] = d
    BY <1>0, <1>3, <2>2
  <2>. QED
    BY <2>1, <2>3 DEF LastTimer, Typed
<1>4. CASE Panels(dashboard') /\ Panels(dashboard) /\ d = dashboard.data
  BY <1>4 DEF IntelEffect, Typed, LastTimer
<1>. QED
  BY <1>1, <1>2, <1>3, <1>4

-----------------------------------------------------------------------------
(* Steps of the page.                                                        *)

LEMMA InitIInv ==
    ASSUME Constants, Init
    PROVE  IInv
<1>1. /\ Mounted \in HookType(Investigations) /\ CanExecute(Mounted)
      /\ Mounted.data = NoData /\ Answered(Mounted) = {}
  BY DEF Mounted, HookType, Idle, CanExecute, Free, Answered, Constants
<1>2. /\ dashboard \in HookType(Investigations) /\ dashboard.data = NoData
      /\ Answered(dashboard) = {}
  BY <1>1, ExecuteFacts, ZenonT(30) DEF Init
<1>3. <<>> \in Seq(Investigations)
  OBVIOUS
<1>4. intel = [about |-> NoData, loading |-> TRUE, timers |-> <<>>]
  BY DEF Init, Fresh
<1>5. Typed
  BY <1>2, <1>3, <1>4 DEF Init, Typed, TypeOK, AnswersKnown
<1>6. PanelsAgree /\ MissingWasApproved
  BY <1>2 DEF Init, PanelsAgree, MissingWasApproved
<1>7. LastTimer
  BY <1>2 DEF LastTimer, Panels
<1>. QED
  BY <1>5, <1>6, <1>7 DEF IInv

\* A step that applies no answer to the hook and changes neither log nor
\* actions keeps what the page shows.
LEMMA SamePanels ==
    ASSUME PanelsAgree, MissingWasApproved, dashboard'.data = dashboard.data,
           agentLog'.from = agentLog.from, UNCHANGED <<proposals, approvedNames>>
    PROVE  PanelsAgree' /\ MissingWasApproved'
BY DEF PanelsAgree, MissingWasApproved

\* execute, from the effect on id and from Retry.
LEMMA FetchFacts ==
    ASSUME Constants, IInv, NEW i \in Investigations, Fetch(i)
    PROVE  /\ dashboard' \in HookType(Investigations) /\ dashboard'.data = dashboard.data
           /\ urls' \in [FetchIds -> Investigations]
           /\ AnswersKnown' /\ LastTimer'
           /\ intel' \in [about : Investigations \cup {NoData}, loading : BOOLEAN,
                           timers : Seq(Investigations)]
<1>1. dashboard \in HookType(Investigations) /\ CanExecute(dashboard)
      /\ dashboard' = Execute(dashboard)
  BY DEF IInv, Typed, TypeOK, Fetch
<1>2. /\ dashboard' \in HookType(Investigations) /\ dashboard'.data = dashboard.data
      /\ \A f \in Answered(dashboard') :
             f \in Answered(dashboard) /\ dashboard'.calls[f] = dashboard.calls[f]
  BY <1>1, ExecuteFacts, ZenonT(30)
<1>3. AnswersKnown'
  BY <1>2 DEF AnswersKnown, IInv, Typed
<1>4. urls' \in [FetchIds -> Investigations]
  BY DEF Fetch, IInv, Typed, TypeOK
<1>. QED
  BY <1>2, <1>3, <1>4, IntelEffectFacts DEF Fetch, IInv

\* The answer of a call: log, actions and data are replaced together.
LEMMA LoadedIInv ==
    ASSUME Constants, IInv, NEW f \in FetchIds, Loaded(f)
    PROVE  IInv'
<1>. DEFINE v == dashboard.calls[f].v
<1>1. dashboard \in HookType(Investigations) /\ dashboard' = Resolve(dashboard, f)
      /\ v \in Investigations
  BY DEF IInv, Typed, TypeOK, AnswersKnown, Loaded
<1>2. /\ dashboard' \in HookType(Investigations) /\ dashboard'.data = v
      /\ \A g \in FetchIds :
             dashboard'.calls[g] = IF g = f THEN Idle ELSE dashboard.calls[g]
  <2>1. LET r == Resolve(dashboard, f) IN
        /\ r \in HookType(Investigations) /\ r.data = v
        /\ \A g \in FetchIds : r.calls[g] = IF g = f THEN Idle ELSE dashboard.calls[g]
    BY <1>1, SettledFacts, ZenonT(30)
  <2>. QED
    BY <1>1, <2>1
<1>3. AnswersKnown'
  <2>1. Idle.st # "answered"
    BY DEF Idle
  <2>. QED
    BY <1>2, <2>1 DEF AnswersKnown, Answered, IInv, Typed
<1>4. proposals' = Proposed[v] /\ proposals' \subseteq Actions
  BY <1>1 DEF Loaded, Actions
<1>5. agentLog' = [from |-> v, streams |-> {}]
  BY DEF Loaded
<1>6. Typed' /\ LastTimer'
  <2>1. IntelEffect(dashboard') /\ Typed /\ LastTimer
    BY DEF IInv, Loaded
  <2>2. /\ intel' \in [about : Investigations \cup {NoData}, loading : BOOLEAN,
                      timers : Seq(Investigations)]
        /\ LastTimer'
    BY <1>2, <2>1, IntelEffectFacts
  <2>3. agentLog' \in [from : Investigations \cup {NoData}, streams : SUBSET Investigations]
    BY <1>1, <1>5
  <2>4. TypeOK'
    BY <1>2, <1>4, <2>1, <2>2, <2>3 DEF Typed, TypeOK, Loaded
  <2>. QED
    BY <1>3, <2>2, <2>4 DEF Typed
<1>7. PanelsAgree' /\ MissingWasApproved'
  BY <1>1, <1>2, <1>4, <1>5 DEF PanelsAgree, MissingWasApproved, Constants
<1>. QED
  BY <1>6, <1>7 DEF IInv

\* The end of an approval the hub accepted: what goes from the list has the
\* accepted name.
LEMMA ApprovedIInv ==
    ASSUME Constants, IInv, NEW p \in ApprovalIds, Approved(p)
    PROVE  IInv'
<1>1. approvals[p] \in Actions
  BY DEF IInv, Typed, TypeOK, Approved
<1>2. UNCHANGED <<dashboard, agentLog, intel>> /\ proposals' \subseteq proposals
  BY DEF Approved
<1>3. Typed'
  BY <1>1, <1>2 DEF IInv, Typed, TypeOK, AnswersKnown, Approved
<1>4. PanelsAgree' /\ LastTimer'
  BY <1>2 DEF IInv, PanelsAgree, LastTimer
<1>5. MissingWasApproved'
  BY <1>2 DEF IInv, MissingWasApproved, Approved
<1>. QED
  BY <1>3, <1>4, <1>5 DEF IInv

\* A timer of the intelligence panel ends: the others wait behind it.
LEMMA IntelArrivesIInv ==
    ASSUME Constants, IInv, IntelArrives
    PROVE  IInv'
<1>. DEFINE q == intel.timers
<1>1. q \in Seq(Investigations) /\ q # <<>>
  BY DEF IInv, Typed, IntelArrives
<1>2. intel' = [about |-> Head(q), loading |-> FALSE, timers |-> Tail(q)]
  BY DEF IntelArrives
<1>3. /\ Head(q) \in Investigations /\ Head(q) = q[1]
      /\ Tail(q) \in Seq(Investigations) /\ Len(Tail(q)) = Len(q) - 1
      /\ \A k \in 1 .. Len(q) - 1 : Tail(q)[k] = q[k + 1]
      /\ Len(q) \in Nat \ {0}
  BY <1>1
<1>4. Typed'
  BY <1>2, <1>3 DEF IInv, Typed, TypeOK, AnswersKnown, IntelArrives
<1>5. PanelsAgree' /\ MissingWasApproved'
  BY SamePanels DEF IInv, IntelArrives
<1>6. LastTimer'
  <2>1. UNCHANGED dashboard
    BY DEF IntelArrives
  <2>2. CASE Len(q) = 1
    <3>0. Tail(q) \in Seq(Investigations) /\ Len(Tail(q)) = 0
      BY <1>3, <2>2
    <3>1. \A t \in Seq(Investigations) : Len(t) = 0 => t = <<>>
      OBVIOUS
    <3>. QED
      BY <1>1, <1>2, <1>3, <2>1, <2>2, <3>0, <3>1 DEF IInv, LastTimer
  <2>3. CASE Len(q) > 1
    <3>1. Tail(q) # <<>> /\ Tail(q)[Len(Tail(q))] = q[Len(q)]
      BY <1>3, <2>3
    <3>. QED
      BY <1>1, <1>2, <2>1, <3>1 DEF IInv, LastTimer
  <2>4. Len(q) = 1 \/ Len(q) > 1
    <3>1. Len(q) \in Nat /\ Len(q) # 0
      BY <1>3
    <3>2. \A n \in Nat : n # 0 => n = 1 \/ n > 1
      OBVIOUS
    <3>. QED
      BY <3>1, <3>2, ZenonT(30)
  <2>. QED
    BY <2>2, <2>3, <2>4
<1>. QED
  BY <1>4, <1>5, <1>6 DEF IInv

\* Every step of the page keeps the invariant.
LEMMA NextIInv ==
    ASSUME Constants, IInv, [Next]_dashboardVars
    PROVE  IInv'
<1>1. ASSUME NEW i \in Investigations, GoTo(i) PROVE IInv'
  <2>1. Fetch(i)
    BY <1>1 DEF GoTo
  <2>2. Typed'
    BY <1>1, <2>1, FetchFacts DEF GoTo, IInv, Typed, TypeOK
  <2>3. PanelsAgree' /\ MissingWasApproved'
    BY <1>1, <2>1, FetchFacts, SamePanels DEF GoTo, IInv
  <2>. QED
    BY <2>1, <2>2, <2>3, FetchFacts DEF IInv
<1>2. ASSUME NEW i \in Investigations, OnLog(i) PROVE IInv'
  <2>1. agentLog' \in [from : Investigations \cup {NoData}, streams : SUBSET Investigations]
        /\ agentLog'.from = agentLog.from
    BY <1>2 DEF OnLog, IInv, Typed, TypeOK
  <2>2. Typed' /\ LastTimer'
    BY <1>2, <2>1 DEF OnLog, IInv, Typed, TypeOK, AnswersKnown, LastTimer
  <2>3. PanelsAgree' /\ MissingWasApproved'
    BY <1>2, <2>1, SamePanels DEF OnLog, IInv
  <2>. QED
    BY <2>2, <2>3 DEF IInv
<1>3. CASE Retry
  <2>1. investigationId \in Investigations /\ Fetch(investigationId)
    BY <1>3 DEF Retry, IInv, Typed, TypeOK
  <2>2. Typed'
    BY <1>3, <2>1, FetchFacts DEF Retry, IInv, Typed, TypeOK
  <2>3. PanelsAgree' /\ MissingWasApproved'
    BY <1>3, <2>1, FetchFacts, SamePanels DEF Retry, IInv
  <2>. QED
    BY <2>1, <2>2, <2>3, FetchFacts DEF IInv
<1>4. ASSUME NEW f \in FetchIds, HubAnswers(f) PROVE IInv'
  <2>1. dashboard \in HookType(Investigations) /\ urls[f] \in Investigations
        /\ dashboard' = Served(dashboard, f, urls[f])
    BY <1>4 DEF HubAnswers, IInv, Typed, TypeOK
  <2>2. /\ dashboard' \in HookType(Investigations) /\ dashboard'.data = dashboard.data
        /\ dashboard'.loading = dashboard.loading
        /\ \A g \in FetchIds : dashboard'.calls[g] =
               IF g = f THEN [st |-> "answered", v |-> urls[f]] ELSE dashboard.calls[g]
    BY <2>1, ServedFacts
  <2>3. AnswersKnown'
    BY <2>1, <2>2 DEF IInv, Typed, AnswersKnown, Answered
  <2>4. Typed'
    BY <1>4, <2>2, <2>3 DEF HubAnswers, IInv, Typed, TypeOK
  <2>5. PanelsAgree' /\ MissingWasApproved'
    BY <1>4, <2>2, SamePanels DEF HubAnswers, IInv
  <2>6. LastTimer'
    BY <1>4, <2>2 DEF HubAnswers, IInv, LastTimer, Panels
  <2>. QED
    BY <2>4, <2>5, <2>6 DEF IInv
<1>5. ASSUME NEW f \in FetchIds, NotLoaded(f) PROVE IInv'
  <2>1. dashboard \in HookType(Investigations) /\ dashboard' = Reject(dashboard, f)
    BY <1>5 DEF NotLoaded, IInv, Typed, TypeOK
  <2>2. /\ dashboard' \in HookType(Investigations) /\ dashboard'.data = dashboard.data
        /\ \A g \in FetchIds :
               dashboard'.calls[g] = IF g = f THEN Idle ELSE dashboard.calls[g]
    BY <2>1, SettledFacts, ZenonT(30)
  <2>3. AnswersKnown'
    <3>1. Idle.st # "answered"
      BY DEF Idle
    <3>. QED
      BY <2>2, <3>1 DEF IInv, Typed, AnswersKnown, Answered
  <2>4. Typed' /\ LastTimer'
    BY <1>5, <2>2, <2>3, IntelEffectFacts DEF NotLoaded, IInv, Typed, TypeOK
  <2>5. PanelsAgree' /\ MissingWasApproved'
    BY <1>5, <2>2, SamePanels DEF NotLoaded, IInv
  <2>. QED
    BY <2>4, <2>5 DEF IInv
<1>6. ASSUME NEW p \in ApprovalIds, NEW a \in Actions, HandleActionApprove(a, p)
      PROVE  IInv'
  <2>1. Typed' /\ LastTimer'
    BY <1>6 DEF HandleActionApprove, IInv, Typed, TypeOK, AnswersKnown, LastTimer
  <2>2. PanelsAgree' /\ MissingWasApproved'
    BY <1>6, SamePanels DEF HandleActionApprove, IInv
  <2>. QED
    BY <2>1, <2>2 DEF IInv
<1>7. ASSUME NEW p \in ApprovalIds, NotApproved(p) PROVE IInv'
  <2>1. Typed' /\ LastTimer'
    BY <1>7 DEF NotApproved, IInv, Typed, TypeOK, AnswersKnown, LastTimer
  <2>2. PanelsAgree' /\ MissingWasApproved'
    BY <1>7, SamePanels DEF NotApproved, IInv
  <2>. QED
    BY <2>1, <2>2 DEF IInv
<1>8. CASE UNCHANGED dashboardVars
  BY <1>8 DEF dashboardVars, IInv, Typed, TypeOK, AnswersKnown, LastTimer, PanelsAgree,
              MissingWasApproved
<1>. QED
  BY <1>1, <1>2, <1>3, <1>4, <1>5, <1>6, <1>7, <1>8, LoadedIInv, ApprovedIInv,
     IntelArrivesIInv
  DEF Next

-----------------------------------------------------------------------------
\* The log, the actions and the data of the dashboard come from one answer, in
\* whatever order fetchFn's answers for several investigations arrive.
THEOREM DashboardPanelsAgree == ASSUME Constants PROVE Spec => []PanelsAgree
<1>1. Init => IInv
  BY InitIInv
<1>2. IInv /\ [Next]_dashboardVars => IInv'
  BY NextIInv
<1>3. IInv => PanelsAgree
  BY DEF IInv
<1>. QED
  BY <1>1, <1>2, <1>3, PTL DEF Spec

\* handleActionApprove takes an action off the list only when the hub accepted
\* an action of that name, with any number of approvals under way.
THEOREM DashboardMissingApproved == ASSUME Constants PROVE Spec => []MissingWasApproved
<1>1. Init => IInv
  BY InitIInv
<1>2. IInv /\ [Next]_dashboardVars => IInv'
  BY NextIInv
<1>3. IInv => MissingWasApproved
  BY DEF IInv
<1>. QED
  BY <1>1, <1>2, <1>3, PTL DEF Spec

\* The intelligence panel whose timers have ended is about the address of the
\* page, however often the address changed under it.
THEOREM DashboardIntelOfPage == ASSUME Constants PROVE Spec => []IntelOfPage
<1>1. Init => IInv
  BY InitIInv
<1>2. IInv /\ [Next]_dashboardVars => IInv'
  BY NextIInv
<1>3. IInv => IntelOfPage
  BY DEF IInv, LastTimer, IntelOfPage
<1>. QED
  BY <1>1, <1>2, <1>3, PTL DEF Spec

-----------------------------------------------------------------------------
(* The enrolment dialog of HostManagementPage.                               *)

\* Beside a token, in the dialog or in an answer on its way, are the fields
\* that the hub stored for it.
IssuedFor(r) == r.token \in 1 .. Len(issued) /\ issued[r.token] = r.form

TokenInv ==
    /\ \E S : issued \in Seq(S)
    /\ \A r \in tokenRequests :
          r = [token |-> r.token, form |-> r.form] /\ (r.token # 0 => IssuedFor(r))
    /\ tokenDetails # NoDetails => IssuedFor(tokenDetails)

LEMMA InitTokenInv == EnrollInit => TokenInv
<1> SUFFICES ASSUME EnrollInit PROVE TokenInv
  OBVIOUS
<1>1. issued = <<>> /\ tokenRequests = {} /\ tokenDetails = NoDetails
  BY DEF EnrollInit
<1>2. issued \in Seq({})
  BY <1>1
<1> QED
  BY <1>1, <1>2 DEF TokenInv

LEMMA CreateTokenInv ==
    ASSUME TokenInv, NEW r \in tokenRequests, CreateEnrollmentToken(r)
    PROVE  TokenInv'
<1> DEFINE n == Len(issued) + 1
           a == [token |-> n, form |-> r.form]
<1>1. /\ issued' = Append(issued, r.form) /\ tokenDetails' = tokenDetails
      /\ tokenRequests' = (tokenRequests \ {r}) \cup {[r EXCEPT !.token = n]}
  BY DEF CreateEnrollmentToken
<1>2. PICK S : issued \in Seq(S)
  BY DEF TokenInv
<1>3. /\ issued \in Seq(S \cup {r.form}) /\ r.form \in S \cup {r.form}
      /\ Len(issued) \in Nat
  BY <1>2
<1>4. /\ issued' \in Seq(S \cup {r.form}) /\ n \in 1 .. Len(issued') /\ issued'[n] = r.form
      /\ \A k \in 1 .. Len(issued) : k \in 1 .. Len(issued') /\ issued'[k] = issued[k]
  BY <1>1, <1>3
<1>5. [r EXCEPT !.token = n] = a
  <2>1. r = [token |-> r.token, form |-> r.form]
    BY DEF TokenInv
  <2> QED
    BY <2>1
<1> HIDE DEF n
<1>6. a.token = n /\ a.form = r.form
  OBVIOUS
<1> HIDE DEF a
<1>7. \A x : IssuedFor(x) => IssuedFor(x)'
  BY <1>4 DEF IssuedFor
<1>8. ASSUME NEW x \in tokenRequests'
      PROVE  x = [token |-> x.token, form |-> x.form] /\ (x.token # 0 => IssuedFor(x)')
  <2>1. CASE x \in tokenRequests
    BY <1>7, <2>1 DEF TokenInv
  <2>2. CASE x = a
    BY <1>4, <1>6, <2>2 DEF IssuedFor, a
  <2> QED
    BY <1>1, <1>5, <2>1, <2>2
<1>9. tokenDetails' # NoDetails => IssuedFor(tokenDetails)'
  BY <1>1, <1>4 DEF TokenInv, IssuedFor
<1> QED
  BY <1>4, <1>8, <1>9 DEF TokenInv, IssuedFor

LEMMA NextTokenInv == TokenInv /\ (EnrollNext \/ UNCHANGED enrollVars) => TokenInv'
<1> SUFFICES ASSUME TokenInv, EnrollNext \/ UNCHANGED enrollVars PROVE TokenInv'
  OBVIOUS
<1>1. CASE HandleGenerateEnrollmentToken
  <2>1. tokenRequests' = tokenRequests \cup {[token |-> 0, form |-> form]}
        /\ UNCHANGED <<issued, tokenDetails>>
    BY <1>1 DEF HandleGenerateEnrollmentToken
  <2> QED
    BY <2>1 DEF TokenInv, IssuedFor
<1>2. ASSUME NEW r \in tokenRequests, CreateEnrollmentToken(r) PROVE TokenInv'
  BY <1>2, CreateTokenInv
<1>3. ASSUME NEW r \in tokenRequests, TokenArrives(r) PROVE TokenInv'
  <2>1. /\ tokenRequests' = tokenRequests \ {r} /\ UNCHANGED issued
        /\ r.token # 0 /\ tokenDetails' = [token |-> r.token, form |-> r.form]
    BY <1>3 DEF TokenArrives, Details
  <2> QED
    BY <2>1 DEF TokenInv, IssuedFor
<1>4. ASSUME tokenRequests' \subseteq tokenRequests, UNCHANGED issued,
             tokenDetails' \in {tokenDetails, NoDetails}
      PROVE  TokenInv'
  BY <1>4 DEF TokenInv, IssuedFor
<1>5. \/ tokenRequests' \subseteq tokenRequests /\ UNCHANGED issued
         /\ tokenDetails' \in {tokenDetails, NoDetails}
      \/ HandleGenerateEnrollmentToken
      \/ \E r \in tokenRequests : CreateEnrollmentToken(r) \/ TokenArrives(r)
  BY DEF EnrollNext, Open, Close, SetTenant, SetChoice,
         RequestEnds, RequestFails, HandleCopyCommand,
         GenerateAnother, enrollVars
<1> QED
  BY <1>1, <1>2, <1>3, <1>4, <1>5

\* For any tenants and any number of tokens and of requests under way, the
\* fields shown beside a token are the ones the hub issued it for: the details
\* are built from the closure of handleGenerateEnrollmentToken, whatever was
\* edited, closed or reopened during its await.
THEOREM EnrollDetails == EnrollSpec => []TokenDetailsMatch
<1>1. TokenInv /\ [EnrollNext]_enrollVars => TokenInv'
  BY NextTokenInv
<1>2. TokenInv => TokenDetailsMatch
  BY DEF TokenInv, TokenDetailsMatch, IssuedFor
<1> QED
  BY InitTokenInv, <1>1, <1>2, PTL DEF EnrollSpec

-----------------------------------------------------------------------------
(* The table of HostManagementPage.                                          *)

\* A list claims the latest version only for hosts that have it or were chosen.
Claims(d, fl, ch) == \A h \in Hosts : d[h] = "latest" => fl[h] = "latest" \/ h \in ch

\* The list that is shown and the answers on their way.
PageOK(p, fl, ch) ==
    /\ p \in HookType(Fleets)
    /\ p.data = NoData => p.loading \/ p.error
    /\ p.data # NoData => Claims(p.data, fl, ch)
    /\ \A f \in Answered(p) : p.calls[f].v \in Fleets /\ Claims(p.calls[f].v, fl, ch)

\* The list a bulk action writes back, and what it still has to do.
LoopOK(l, fl, ch) ==
    /\ l = [action |-> l.action, ids |-> l.ids, todo |-> l.todo, view |-> l.view,
            completed |-> l.completed, failed |-> l.failed]
    /\ l.view \in Fleets /\ Claims(l.view, fl, ch)
    /\ l.todo \subseteq ch

ClaimsInv ==
    /\ fleet \in Fleets
    /\ PageOK(page, fleet, chosen)
    /\ \A l \in loops : LoopOK(l, fleet, chosen)

LEMMA HookFlags ==
    ASSUME NEW V, NEW h \in HookType(V), NEW f \in FetchIds
    PROVE  Reject(h, f).loading = FALSE /\ Reject(h, f).error = TRUE
  BY DEF Reject, HookType

LEMMA SetDataFacts ==
    ASSUME NEW V, NEW h \in HookType(V), NEW v \in V
    PROVE  /\ SetData(h, v) \in HookType(V)
           /\ SetData(h, v).data = v /\ SetData(h, v).calls = h.calls
           /\ SetData(h, v).loading = h.loading
  BY DEF SetData, HookType

\* What was claimed stays justified: no host loses the latest version, and
\* chosen only grows.
LEMMA ClaimsKept ==
    ASSUME NEW fl, NEW gl, NEW ch, NEW dh, ch \subseteq dh,
           \A h \in Hosts : fl[h] = "latest" => gl[h] = "latest"
    PROVE  /\ \A d : Claims(d, fl, ch) => Claims(d, gl, dh)
           /\ \A p : PageOK(p, fl, ch) => PageOK(p, gl, dh)
           /\ \A l : LoopOK(l, fl, ch) => LoopOK(l, gl, dh)
<1>1. \A d : Claims(d, fl, ch) => Claims(d, gl, dh)
  BY DEF Claims
<1> QED
  BY <1>1 DEF PageOK, LoopOK

LEMMA MountedHook ==
    ASSUME NEW V
    PROVE  /\ Mounted \in HookType(V) /\ CanExecute(Mounted) /\ Answered(Mounted) = {}
           /\ InFlight(Mounted) = {} /\ Mounted.data = NoData
<1>1. Mounted \in HookType(V) /\ Mounted.data = NoData
  BY DEF Mounted, HookType, Idle
<1>2. \A f \in FetchIds : Mounted.calls[f].st = "idle"
  BY DEF Mounted, Idle
<1> QED
  BY <1>1, <1>2, HostsAssumption DEF CanExecute, Free, Answered, InFlight

\* execute, of any page whose calls have a free slot.
LEMMA ExecuteOK ==
    ASSUME NEW p, NEW fl, NEW ch, PageOK(p, fl, ch), CanExecute(p)
    PROVE  PageOK(Execute(p), fl, ch)
<1> DEFINE e == Execute(p)
<1>1. /\ e \in HookType(Fleets) /\ e.data = p.data /\ e.loading = TRUE
      /\ \A f \in Answered(e) : f \in Answered(p) /\ e.calls[f] = p.calls[f]
  BY ExecuteFacts, ZenonT(30) DEF PageOK
<1> HIDE DEF e
<1>2. PageOK(e, fl, ch)
  BY <1>1 DEF PageOK
<1> QED
  BY <1>2 DEF e

LEMMA InitClaimsInv == HostsInit => ClaimsInv
<1> SUFFICES ASSUME HostsInit PROVE ClaimsInv
  OBVIOUS
<1>1. /\ fleet = [h \in Hosts |-> IF h \in Enrolled THEN "old" ELSE "absent"]
      /\ page = Execute(Mounted) /\ loops = {}
  BY ZenonT(30) DEF HostsInit
<1>2. fleet \in Fleets
  BY <1>1 DEF Fleets
<1>3. /\ page \in HookType(Fleets) /\ page.data = NoData /\ page.loading = TRUE
      /\ Answered(page) = {}
  BY <1>1, MountedHook, ExecuteFacts, ZenonT(30)
<1> QED
  BY <1>1, <1>2, <1>3 DEF ClaimsInv, PageOK


\* What a step of the page does to its hook.
LEMMA FleetPageSteps ==
    ASSUME HostsNext \/ UNCHANGED hostVars
    PROVE  \/ UNCHANGED page
           \/ \E f \in FetchIds : page' = Served(page, f, fleet)
           \/ \E f \in Answered(page) : page' = Resolve(page, f)
           \/ \E f \in FetchIds : page' = Reject(page, f)
           \/ CanExecute(page) /\ page' = Execute(page)
           \/ \E l \in loops : \E h \in l.todo :
                  page' = SetData(page, BulkView(l, h))
<1>1. ASSUME NEW f \in FetchIds, HubListsHosts(f)
      PROVE  page' = Served(page, f, fleet)
  BY <1>1 DEF HubListsHosts
<1>2. ASSUME NEW f \in FetchIds, FetchResolves(f)
      PROVE  f \in Answered(page) /\ page' = Resolve(page, f)
  BY <1>2 DEF FetchResolves
<1>3. ASSUME NEW f \in FetchIds, FetchFails(f) PROVE page' = Reject(page, f)
  BY <1>3 DEF FetchFails
<1>4. CASE AgentConnected \/ RetryHosts
  BY <1>4 DEF AgentConnected, RetryHosts
<1>5. ASSUME NEW h \in Hosts, RotateAnswered(h)
      PROVE  UNCHANGED page \/ (CanExecute(page) /\ page' = Execute(page))
  BY <1>5 DEF RotateAnswered
<1>6. ASSUME NEW l \in loops, NEW h \in Hosts, BulkStep(l, h)
      PROVE  h \in l.todo /\ (UNCHANGED page \/ page' = SetData(page, BulkView(l, h)))
  BY <1>6 DEF BulkStep
<1>7. \/ UNCHANGED page
      \/ \E f \in FetchIds :
            HubListsHosts(f) \/ FetchResolves(f) \/ FetchFails(f)
      \/ AgentConnected \/ RetryHosts
      \/ \E h \in Hosts : RotateAnswered(h) \/ \E l \in loops : BulkStep(l, h)
  BY DEF HostsNext, hostVars, tableVars, bulkVars, rotateVars, HostEnrolls, NoticeLost, SetView,
         ToggleSelect, ToggleSelectAll, ClearSelection,
         HandleBulkAction, BulkEnd, AskRotate, CancelRotate,
         HandleRotateCredential
<1> QED
  BY <1>1, <1>2, <1>3, <1>4, <1>5, <1>6, <1>7, ZenonT(30)

\* What a step does to the inventory, to the bulk actions and to the hosts chosen.
LEMMA FleetOtherSteps ==
    ASSUME HostsNext \/ UNCHANGED hostVars
    PROVE  /\ \/ UNCHANGED fleet
              \/ \E h \in Hosts :
                    fleet[h] = "absent" /\ fleet' = [fleet EXCEPT ![h] = "old"]
           /\ \/ loops' \subseteq loops /\ UNCHANGED chosen
              \/ HandleBulkAction("restart") \/ HandleBulkAction("update")
              \/ \E l \in loops, h \in Hosts : BulkStep(l, h)
<1>1. \/ UNCHANGED fleet
      \/ \E h \in Hosts : fleet[h] = "absent" /\ fleet' = [fleet EXCEPT ![h] = "old"]
  BY ZenonT(30) DEF HostsNext, hostVars, tableVars, bulkVars, rotateVars, HubListsHosts, FetchResolves, FetchFails,
         AgentConnected, RetryHosts, RotateAnswered, BulkStep,
         HostEnrolls, NoticeLost, SetView, ToggleSelect,
         ToggleSelectAll, ClearSelection, HandleBulkAction, BulkEnd,
         AskRotate, CancelRotate, HandleRotateCredential
<1>2. \/ UNCHANGED <<loops, chosen>>
      \/ \E l \in loops : BulkEnd(l)
      \/ HandleBulkAction("restart") \/ HandleBulkAction("update")
      \/ \E l \in loops, h \in Hosts : BulkStep(l, h)
  BY ZenonT(30) DEF HostsNext, hostVars, tableVars, bulkVars, rotateVars,
         HubListsHosts, FetchResolves, FetchFails, AgentConnected,
         RetryHosts, RotateAnswered, HostEnrolls, NoticeLost, SetView,
         ToggleSelect, ToggleSelectAll, ClearSelection, AskRotate,
         CancelRotate, HandleRotateCredential
<1>3. ASSUME NEW l \in loops, BulkEnd(l) PROVE loops' \subseteq loops /\ UNCHANGED chosen
  BY <1>3, ZenonT(30) DEF BulkEnd
<1> QED
  BY <1>1, <1>2, <1>3

\* The list a step of handleBulkAction writes back marks a host that was chosen.
LEMMA BulkViewOK ==
    ASSUME ClaimsInv, NEW l \in loops, NEW h \in l.todo
    PROVE  /\ BulkView(l, h) \in Fleets
           /\ Claims(BulkView(l, h), fleet, chosen)
<1>1. l.view \in Fleets /\ Claims(l.view, fleet, chosen) /\ h \in chosen
  BY DEF ClaimsInv, LoopOK
<1> QED
  BY <1>1 DEF BulkView, Fleets, Claims

LEMMA PageStepOK ==
    ASSUME ClaimsInv, HostsNext \/ UNCHANGED hostVars
    PROVE  PageOK(page', fleet, chosen)
<1> DEFINE OK(p) == PageOK(p, fleet, chosen)
<1>1. /\ OK(page) /\ page \in HookType(Fleets) /\ fleet \in Fleets
  BY DEF ClaimsInv, PageOK
<1>2. ASSUME NEW f \in FetchIds PROVE OK(Served(page, f, fleet))
  <2> DEFINE s == Served(page, f, fleet)
  <2>1. /\ s \in HookType(Fleets) /\ s.data = page.data /\ s.loading = page.loading
        /\ \A g \in FetchIds : s.calls[g] =
               IF g = f THEN [st |-> "answered", v |-> fleet] ELSE page.calls[g]
    BY <1>1, ServedFacts
  <2>2. s.error = page.error
    BY <1>1 DEF Served, HookType
  <2> HIDE DEF s
  <2>3. Claims(fleet, fleet, chosen)
    BY DEF Claims
  <2>4. ASSUME NEW g \in Answered(s)
        PROVE  s.calls[g].v \in Fleets /\ Claims(s.calls[g].v, fleet, chosen)
    BY <1>1, <2>1, <2>3, <2>4 DEF PageOK, Answered
  <2>5. OK(s)
    BY <1>1, <2>1, <2>2, <2>4 DEF PageOK
  <2> QED
    BY <2>5 DEF s
<1>3. ASSUME NEW f \in FetchIds
      PROVE  OK(Reject(page, f)) /\ (f \in Answered(page) => OK(Resolve(page, f)))
  <2> DEFINE j == Reject(page, f)
             r == Resolve(page, f)
  <2>1. /\ j \in HookType(Fleets) /\ j.data = page.data
        /\ r \in HookType(Fleets) /\ r.data = page.calls[f].v
        /\ \A g \in FetchIds :
               /\ j.calls[g] = IF g = f THEN Idle ELSE page.calls[g]
               /\ r.calls[g] = IF g = f THEN Idle ELSE page.calls[g]
    BY <1>1, SettledFacts, ZenonT(30)
  <2>2. j.error = TRUE
    BY <1>1, HookFlags, ZenonT(30)
  <2> HIDE DEF j, r
  <2>3. Idle.st # "answered"
    BY DEF Idle
  <2>4. /\ \A g \in Answered(j) : g \in Answered(page) /\ j.calls[g] = page.calls[g]
        /\ \A g \in Answered(r) : g \in Answered(page) /\ r.calls[g] = page.calls[g]
    BY <2>1, <2>3 DEF Answered
  <2>5. OK(j)
    BY <1>1, <2>1, <2>2, <2>4 DEF PageOK
  <2>6. f \in Answered(page) => OK(r)
    BY <1>1, <2>1, <2>4, HostsAssumption DEF PageOK
  <2> QED
    BY <2>5, <2>6 DEF j, r
<1>4. ASSUME NEW v \in Fleets, Claims(v, fleet, chosen) PROVE OK(SetData(page, v))
  <2> DEFINE s == SetData(page, v)
  <2>1. s \in HookType(Fleets) /\ s.data = v /\ s.calls = page.calls
    BY <1>1, SetDataFacts
  <2> HIDE DEF s
  <2>2. OK(s)
    BY <1>1, <1>4, <2>1, HostsAssumption DEF PageOK, Answered
  <2> QED
    BY <2>2 DEF s
<1>5. CanExecute(page) => OK(Execute(page))
  BY <1>1, ExecuteOK
<1>6. \A f \in Answered(page) : f \in FetchIds
  BY DEF Answered
<1> HIDE DEF OK
<1>7. OK(page')
  <2>1. \A l \in loops : \A h \in l.todo : OK(SetData(page, BulkView(l, h)))
    BY <1>4, BulkViewOK
  <2> QED
    BY <1>1, <1>2, <1>3, <1>5, <1>6, <2>1, FleetPageSteps, ZenonT(30)
<1> QED
  BY <1>7 DEF OK

\* A bulk action starts with the hosts it makes chosen, and a step of it takes
\* one of them.
LEMMA LoopStepOK ==
    ASSUME ClaimsInv, HostsNext \/ UNCHANGED hostVars
    PROVE  chosen \subseteq chosen' /\ \A l \in loops' : LoopOK(l, fleet, chosen')
<1>1. CASE loops' \subseteq loops /\ UNCHANGED chosen
  BY <1>1 DEF ClaimsInv
<1>2. ASSUME NEW a, HandleBulkAction(a)
      PROVE  chosen \subseteq chosen' /\ \A l \in loops' : LoopOK(l, fleet, chosen')
  <2> DEFINE n == [action |-> a, ids |-> selectedIds, todo |-> selectedIds,
                   view |-> page.data, completed |-> 0, failed |-> 0]
  <2>1. loops' = loops \cup {n} /\ chosen' = chosen \cup selectedIds
        /\ ~page.loading /\ ~(page.error /\ page.data = NoData)
    BY <1>2 DEF HandleBulkAction, BulkButtons, Interactive
  <2>2. page.data # NoData /\ page.data \in Fleets /\ Claims(page.data, fleet, chosen)
    <3>1. page.data # NoData
      BY <2>1 DEF ClaimsInv, PageOK
    <3> QED
      BY <3>1 DEF ClaimsInv, PageOK, HookType
  <2>3. /\ n.action = a /\ n.ids = selectedIds /\ n.todo = selectedIds /\ n.view = page.data
        /\ n.completed = 0 /\ n.failed = 0
    OBVIOUS
  <2>4. n = [action |-> n.action, ids |-> n.ids, todo |-> n.todo, view |-> n.view,
             completed |-> n.completed, failed |-> n.failed]
    OBVIOUS
  <2> HIDE DEF n
  <2>5. Claims(n.view, fleet, chosen') /\ \A l \in loops : LoopOK(l, fleet, chosen')
    BY <2>1, <2>2, <2>3, ClaimsKept DEF ClaimsInv
  <2>6. LoopOK(n, fleet, chosen')
    BY <2>1, <2>2, <2>3, <2>4, <2>5 DEF LoopOK
  <2> QED
    BY <2>1, <2>5, <2>6, ZenonT(30)
<1>3. ASSUME NEW l \in loops, NEW h \in Hosts, BulkStep(l, h)
      PROVE  chosen \subseteq chosen' /\ \A x \in loops' : LoopOK(x, fleet, chosen')
  <2>1. PICK n \in {[l EXCEPT !.todo = @ \ {h}, !.completed = @ + 1],
                    [l EXCEPT !.todo = @ \ {h}, !.failed = @ + 1]} :
            loops' = (loops \ {l}) \cup {n}
    BY <1>3 DEF BulkStep
  <2>2. chosen' = chosen
    BY <1>3 DEF BulkStep
  <2>3. /\ l = [action |-> l.action, ids |-> l.ids, todo |-> l.todo, view |-> l.view,
                completed |-> l.completed, failed |-> l.failed]
        /\ l.view \in Fleets /\ Claims(l.view, fleet, chosen) /\ l.todo \subseteq chosen
    BY DEF ClaimsInv, LoopOK
  <2>4. \E c, f : n = [action |-> l.action, ids |-> l.ids, todo |-> l.todo \ {h},
                       view |-> l.view, completed |-> c, failed |-> f]
    <3>1. CASE n = [l EXCEPT !.todo = @ \ {h}, !.completed = @ + 1]
      <4>1. n = [action |-> l.action, ids |-> l.ids, todo |-> l.todo \ {h}, view |-> l.view,
                 completed |-> l.completed + 1, failed |-> l.failed]
        BY <2>3, <3>1, ZenonT(30)
      <4> QED
        BY <4>1, ZenonT(30)
    <3>2. CASE n = [l EXCEPT !.todo = @ \ {h}, !.failed = @ + 1]
      <4>1. n = [action |-> l.action, ids |-> l.ids, todo |-> l.todo \ {h}, view |-> l.view,
                 completed |-> l.completed, failed |-> l.failed + 1]
        BY <2>3, <3>2, ZenonT(30)
      <4> QED
        BY <4>1, ZenonT(30)
    <3> QED
      BY <2>1, <3>1, <3>2
  <2>5. /\ n = [action |-> n.action, ids |-> n.ids, todo |-> n.todo, view |-> n.view,
                completed |-> n.completed, failed |-> n.failed]
        /\ n.view = l.view /\ n.todo \subseteq l.todo
    BY <2>4
  <2>6. LoopOK(n, fleet, chosen)
    BY <2>3, <2>5 DEF LoopOK
  <2> QED
    BY <2>1, <2>2, <2>6 DEF ClaimsInv
<1> QED
  BY <1>1, <1>2, <1>3, FleetOtherSteps

LEMMA NextClaimsInv == ClaimsInv /\ (HostsNext \/ UNCHANGED hostVars) => ClaimsInv'
<1> SUFFICES ASSUME ClaimsInv, HostsNext \/ UNCHANGED hostVars PROVE ClaimsInv'
  OBVIOUS
<1>1. /\ fleet' \in Fleets
      /\ \A h \in Hosts : fleet[h] = "latest" => fleet'[h] = "latest"
  <2>1. fleet \in Fleets
    BY DEF ClaimsInv
  <2>2. ASSUME NEW h \in Hosts, fleet[h] = "absent", fleet' = [fleet EXCEPT ![h] = "old"]
        PROVE  /\ fleet' \in Fleets
               /\ \A x \in Hosts : fleet[x] = "latest" => fleet'[x] = "latest"
    BY <2>1, <2>2 DEF Fleets
  <2> QED
    BY <2>1, <2>2, FleetOtherSteps
<1>2. PageOK(page', fleet, chosen)
  BY PageStepOK
<1>3. chosen \subseteq chosen' /\ \A l \in loops' : LoopOK(l, fleet, chosen')
  BY LoopStepOK
<1>4. PageOK(page', fleet', chosen')
  BY <1>1, <1>2, <1>3, ClaimsKept
<1>5. \A l \in loops' : LoopOK(l, fleet', chosen')
  BY <1>1, <1>3, ClaimsKept
<1> QED
  BY <1>1, <1>4, <1>5 DEF ClaimsInv

\* For any hosts, views and numbers of fetches, enrolments and bulk actions that
\* overlap, the table shows the latest version only for a host that has it or
\* that some bulk action was started for.  Each step of handleBulkAction writes
\* back the list it captured: that this marks nobody else needs every answer on
\* its way and every captured list to claim no more.
THEOREM HostClaims == HostsSpec => []ClaimsOnlyChosen
<1>1. ClaimsInv /\ [HostsNext]_hostVars => ClaimsInv'
  BY NextClaimsInv
<1>2. ClaimsInv => ClaimsOnlyChosen
  BY DEF ClaimsInv, PageOK, Claims, ClaimsOnlyChosen, Listed
<1> QED
  BY InitClaimsInv, <1>1, <1>2, PTL DEF HostsSpec
=============================================================================
