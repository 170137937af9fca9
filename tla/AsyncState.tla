----------------------------- MODULE AsyncState -----------------------------
(***************************************************************************)
(* shared/hooks/useAsyncState.ts, the data hook of the console's pages.    *)
(*                                                                         *)
(* A page keeps one hook record h: what it shows (data), the two flags of  *)
(* the hook, and the calls of fetchFn that are on their way.  The hook     *)
(* neither numbers nor cancels its calls, so answers are applied in the    *)
(* order they arrive, which need not be the order of the calls.            *)
(***************************************************************************)

CONSTANTS FetchIds, \* slots for calls on their way: the bound on concurrent calls
          NoData    \* data before the first answer (null)

Idle == [st |-> "idle", v |-> NoData]
Sent == [st |-> "sent", v |-> NoData]

\* The state of a page that has just been mounted.
Mounted == [data |-> NoData, loading |-> TRUE, error |-> FALSE,
            calls |-> [f \in FetchIds |-> Idle]]

Free(h)     == {f \in FetchIds : h.calls[f].st = "idle"}
InFlight(h) == {f \in FetchIds : h.calls[f].st # "idle"}
Answered(h) == {f \in FetchIds : h.calls[f].st = "answered"}

\* execute up to its await; the bound on concurrent calls is CanExecute.
CanExecute(h) == Free(h) # {}
Execute(h) ==
    [h EXCEPT !.loading = TRUE, !.error = FALSE,
              !.calls[CHOOSE f \in Free(h) : TRUE] = Sent]

\* The hub reads its state for call f; the answer v is on its way back.
Served(h, f, v) == [h EXCEPT !.calls[f] = [st |-> "answered", v |-> v]]

\* execute after its await: the answer is shown as it is.
Resolve(h, f) ==
    [h EXCEPT !.data = h.calls[f].v, !.loading = FALSE, !.calls[f] = Idle]

\* execute after its await when the call failed: data is kept.
Reject(h, f) ==
    [h EXCEPT !.error = TRUE, !.loading = FALSE, !.calls[f] = Idle]

SetData(h, v) == [h EXCEPT !.data = v]

HookType(V) ==
    [data : V \cup {NoData}, loading : BOOLEAN, error : BOOLEAN,
     calls : [FetchIds -> [st : {"idle", "sent", "answered"},
                           v : V \cup {NoData}]]]
=============================================================================
