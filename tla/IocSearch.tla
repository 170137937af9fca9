------------------------------ MODULE IocSearch ------------------------------
(***************************************************************************)
(* pages/detection/IocSearchPage.tsx: searches, which the page answers     *)
(* itself after a fixed delay, the list of recent searches, kept in the    *)
(* browser's storage, and the watch button of a result.                    *)
(*                                                                         *)
(* A result stands for the search it answers and whether it is watched.    *)
(* The timers of the searches all have the same delay, so they end in the  *)
(* order of the searches.                                                  *)
(***************************************************************************)
EXTENDS Naturals, Sequences

CONSTANTS Queries,
          RecentCap,   \* recent searches kept
          MaxSearches, \* bound on the searches under way
          WatchIds     \* slots for POST /detection/watchlist

NoQuery == ""

\* handleSearch returns when the trimmed text is empty.
ASSUME IocAssumption == NoQuery \notin Queries /\ RecentCap \in Nat \ {0}

VARIABLES
    query,           \* the text field
    results,
    searching,       \* loading
    searches,        \* searches whose timer runs
    recentSearches,
    storedSearches,  \* localStorage
    watches,         \* requests under way, each with the results of its closure
    overwritten      \* history: a watch answer put older results back

iocVars == <<query, results, searching, searches, recentSearches, storedSearches,
             watches, overwritten>>

NoResult == [q |-> NoQuery, watched |-> FALSE]
Result == [q : Queries, watched : BOOLEAN]

IocTypeOK ==
    /\ query \in Queries \cup {NoQuery}
    /\ results \in Result \cup {NoResult}
    /\ searching \in BOOLEAN
    /\ searches \in Seq(Queries) /\ Len(searches) <= MaxSearches
    /\ recentSearches \in Seq(Queries) /\ storedSearches \in Seq(Queries)
    /\ watches \in [WatchIds -> Result \cup {NoResult}]
    /\ overwritten \in BOOLEAN

\* The page as it is mounted, with the recent searches of an earlier visit.
Mount(stored) ==
    /\ query' = NoQuery
    /\ results' = NoResult
    /\ searching' = FALSE
    /\ searches' = <<>>
    /\ recentSearches' = stored
    /\ watches' = [w \in WatchIds |-> NoResult]
    /\ overwritten' = FALSE

IocInit ==
    /\ query = NoQuery /\ results = NoResult /\ searching = FALSE /\ searches = <<>>
    /\ recentSearches = <<>> /\ storedSearches = <<>>
    /\ watches = [w \in WatchIds |-> NoResult]
    /\ overwritten = FALSE

Reopen == Mount(storedSearches) /\ UNCHANGED storedSearches

SetQuery(q) ==
    /\ query' = q
    /\ UNCHANGED <<results, searching, searches, recentSearches, storedSearches,
                   watches, overwritten>>

\* recentSearches.filter(q => q !== searchQuery)
Others(q, recents) ==
    LET others[i \in 0 .. Len(recents)] ==
            IF i = 0 THEN <<>>
            ELSE IF recents[i] # q THEN Append(others[i - 1], recents[i]) ELSE others[i - 1]
    IN  others[Len(recents)]

\* [q, ...the others].slice(0, 10)
NewRecents(q) ==
    LET all == <<q>> \o Others(q, recentSearches)
    IN  SubSeq(all, 1, IF Len(all) < RecentCap THEN Len(all) ELSE RecentCap)

\* handleSearch up to its await.
HandleSearch(q) ==
    /\ q # NoQuery /\ Len(searches) < MaxSearches
    /\ query' = q
    /\ searching' = TRUE
    /\ searches' = Append(searches, q)
    /\ recentSearches' = NewRecents(q)
    /\ storedSearches' = NewRecents(q)
    /\ UNCHANGED <<results, watches, overwritten>>

HuntIocs == ~searching /\ HandleSearch(query)

\* The buttons of the recent searches are never disabled.
RepeatSearch(i) == i \in DOMAIN recentSearches /\ HandleSearch(recentSearches[i])

\* Mutant: the last search is answered first.
LatestDue == Len(searches)

Due == 1

SearchEnds ==
    /\ searches # <<>>
    /\ results' = [q |-> searches[Due], watched |-> FALSE]
    /\ searches' = SubSeq(searches, 1, Due - 1) \o SubSeq(searches, Due + 1, Len(searches))
    /\ searching' = FALSE
    /\ overwritten' = FALSE
    /\ UNCHANGED <<query, recentSearches, storedSearches, watches>>

\* A spinner, an empty panel, or the table with the button of every result.
WatchButton == ~searching /\ results # NoResult

\* toggleWatchlist up to its await.
ToggleWatchlist(w) ==
    /\ WatchButton /\ watches[w] = NoResult
    /\ watches' = [watches EXCEPT ![w] = results]
    /\ UNCHANGED <<query, results, searching, searches, recentSearches,
                   storedSearches, overwritten>>

\* The results of the moment of the click come back, with the star changed.
WatchSucceeds(w) ==
    /\ watches[w] # NoResult
    /\ results' = [watches[w] EXCEPT !.watched = ~@]
    /\ overwritten' = (overwritten \/ watches[w].q # results.q)
    /\ watches' = [watches EXCEPT ![w] = NoResult]
    /\ UNCHANGED <<query, searching, searches, recentSearches, storedSearches>>

WatchFails(w) ==
    /\ watches[w] # NoResult
    /\ watches' = [watches EXCEPT ![w] = NoResult]
    /\ UNCHANGED <<query, results, searching, searches, recentSearches,
                   storedSearches, overwritten>>

IocNext ==
    \/ Reopen
    \/ \E q \in Queries \cup {NoQuery} : SetQuery(q)
    \/ HuntIocs
    \/ \E i \in 1..RecentCap : RepeatSearch(i)
    \/ SearchEnds
    \/ \E w \in WatchIds : ToggleWatchlist(w) \/ WatchSucceeds(w) \/ WatchFails(w)

IocSpec == IocInit /\ [][IocNext]_iocVars

-----------------------------------------------------------------------------
\* With no search under way, the table answers the search that heads the list
\* of recent ones, even if several were started at once, unless the answer to
\* a watch request has put older results back.
LatestSearchShown ==
    searches = <<>> /\ results # NoResult /\ ~overwritten
        => results.q = recentSearches[1]
=============================================================================
