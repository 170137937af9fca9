---------------------------- MODULE ThreatFeeds ----------------------------
(***************************************************************************)
(* pages/detection/ThreatFeedsPage.tsx: the list of feeds, the forced sync *)
(* of a feed and the form that adds one.  syncingId remembers one feed     *)
(* only, whichever was clicked last.  The hub answers both requests        *)
(* without storing anything, so the list it serves does not change.        *)
(* The windows on overlaps and on alerts share no state with this.         *)
(***************************************************************************)
EXTENDS AsyncState, Naturals

CONSTANTS Feeds,
          SyncIds,  \* slots for syncs under way: the bound on concurrent ones
          AddIds    \* the same for the requests of the form

VARIABLES
    feedsPage,      \* useAsyncState; the list is the same at every answer
    syncingId,
    syncs,          \* POST .../sync under way
    showAddModal,
    newFeed,        \* the form: "" or filled
    addError,
    adds            \* POST /detection/feeds under way

syncVars == <<syncingId, syncs>>
addVars == <<showAddModal, newFeed, addError, adds>>
feedPageVars == <<feedsPage, syncVars, addVars>>

ThreatTypeOK ==
    /\ feedsPage \in HookType({"list"})
    /\ syncingId \in Feeds \cup {"none"}
    /\ syncs \in [SyncIds -> Feeds \cup {"none"}]
    /\ showAddModal \in BOOLEAN /\ addError \in BOOLEAN
    /\ newFeed \in {"", "filled"}
    /\ adds \in [AddIds -> BOOLEAN]

ThreatInit ==
    /\ feedsPage = Execute(Mounted)
    /\ syncingId = "none"
    /\ syncs = [s \in SyncIds |-> "none"]
    /\ showAddModal = FALSE /\ newFeed = "" /\ addError = FALSE
    /\ adds = [a \in AddIds |-> FALSE]

\* GET /detection/feeds.
HubListsFeeds(f) ==
    /\ feedsPage.calls[f].st = "sent"
    /\ feedsPage' = Served(feedsPage, f, "list")
    /\ UNCHANGED <<syncVars, addVars>>

FetchEnds(f) ==
    /\ \/ f \in Answered(feedsPage) /\ feedsPage' = Resolve(feedsPage, f)
       \/ f \in InFlight(feedsPage) /\ feedsPage' = Reject(feedsPage, f)
    /\ UNCHANGED <<syncVars, addVars>>

Retry ==
    /\ ~feedsPage.loading /\ feedsPage.error /\ feedsPage.data = NoData
    /\ feedsPage' = Execute(feedsPage)
    /\ UNCHANGED <<syncVars, addVars>>

\* The skeleton hides the table and the form while the list is fetched.
Shown == ~feedsPage.loading /\ ~(feedsPage.error /\ feedsPage.data = NoData)

-----------------------------------------------------------------------------
(* Force Sync.                                                             *)

\* A row of the table has a button, disabled while syncingId is its feed.
SyncButton(feed) == Shown /\ feedsPage.data # NoData /\ syncingId # feed

HandleSync(feed, s) ==
    /\ SyncButton(feed)
    /\ syncs[s] = "none"
    /\ syncs' = [syncs EXCEPT ![s] = feed]
    /\ syncingId' = feed
    /\ UNCHANGED <<feedsPage, addVars>>

SyncSucceeds(s) ==
    /\ syncs[s] # "none" /\ CanExecute(feedsPage)
    /\ feedsPage' = Execute(feedsPage)
    /\ syncs' = [syncs EXCEPT ![s] = "none"]
    /\ syncingId' = "none"
    /\ UNCHANGED addVars

\* Mutant: only a successful sync clears syncingId.
SyncFailsSyncing(s) ==
    /\ syncs[s] # "none"
    /\ syncs' = [syncs EXCEPT ![s] = "none"]
    /\ UNCHANGED <<feedsPage, syncingId, addVars>>

\* finally clears syncingId, also when it is another feed's by now.
SyncFails(s) ==
    /\ syncs[s] # "none"
    /\ syncs' = [syncs EXCEPT ![s] = "none"]
    /\ syncingId' = "none"
    /\ UNCHANGED <<feedsPage, addVars>>

-----------------------------------------------------------------------------
(* Add New Feed.                                                           *)
OpenForm ==
    /\ Shown
    /\ showAddModal' = TRUE
    /\ UNCHANGED <<feedsPage, syncVars, newFeed, addError, adds>>

CancelForm ==
    /\ Shown /\ showAddModal
    /\ showAddModal' = FALSE
    /\ UNCHANGED <<feedsPage, syncVars, newFeed, addError, adds>>

SetNewFeed(text) ==
    /\ Shown /\ showAddModal
    /\ newFeed' = text
    /\ UNCHANGED <<feedsPage, syncVars, showAddModal, addError, adds>>

\* Every field is required.
HandleAddFeed(a) ==
    /\ Shown /\ showAddModal /\ newFeed = "filled" /\ ~adds[a]
    /\ addError' = FALSE
    /\ adds' = [adds EXCEPT ![a] = TRUE]
    /\ UNCHANGED <<feedsPage, syncVars, showAddModal, newFeed>>

AddSucceeds(a) ==
    /\ adds[a] /\ CanExecute(feedsPage)
    /\ showAddModal' = FALSE
    /\ newFeed' = ""
    /\ feedsPage' = Execute(feedsPage)
    /\ adds' = [adds EXCEPT ![a] = FALSE]
    /\ UNCHANGED <<syncVars, addError>>

AddFails(a) ==
    /\ adds[a]
    /\ addError' = TRUE
    /\ adds' = [adds EXCEPT ![a] = FALSE]
    /\ UNCHANGED <<feedsPage, syncVars, showAddModal, newFeed>>

ThreatNext ==
    \/ \E f \in FetchIds : HubListsFeeds(f) \/ FetchEnds(f)
    \/ Retry
    \/ \E s \in SyncIds : \/ \E feed \in Feeds : HandleSync(feed, s)
                          \/ SyncSucceeds(s) \/ SyncFails(s)
    \/ OpenForm \/ CancelForm \/ SetNewFeed("filled") \/ SetNewFeed("")
    \/ \E a \in AddIds : HandleAddFeed(a) \/ AddSucceeds(a) \/ AddFails(a)

ThreatSpec == ThreatInit /\ [][ThreatNext]_feedPageVars

-----------------------------------------------------------------------------
\* A feed whose button says "Syncing..." and is disabled has a sync under
\* way, however the syncs of several feeds overlap and end.
SyncingIsUnderWay == syncingId # "none" => \E s \in SyncIds : syncs[s] = syncingId
=============================================================================
