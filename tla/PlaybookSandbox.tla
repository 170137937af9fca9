--------------------------- MODULE PlaybookSandbox ---------------------------
(***************************************************************************)
(* features/playbooks/ui/PlaybookSandbox.tsx: every run of a playbook has  *)
(* a socket of its own, over which the hub sends lines of output, END with *)
(* the exit code, and closes.  One execution per playbook is remembered;   *)
(* activeWsRef is meant to be the socket of the current run.               *)
(***************************************************************************)
EXTENDS Naturals, FiniteSets

CONSTANTS Playbooks,
          Runs,        \* 1..n: bound on the runs started
          Outputs      \* lines of output of a run

VARIABLES
    selectedPlaybook,
    executionCache,    \* status, runs whose lines are shown, run of the exit code
    runs,              \* the sockets: playbook, state, frames received
    activeWs           \* activeWsRef: a run, 0 for null

sandboxVars == <<selectedPlaybook, executionCache, runs, activeWs>>

NoRun == [pb |-> "none", st |-> "none", got |-> 0]
Live(r) == runs[r].st \in {"connecting", "open"}
Ended(r) == runs[r].got > Outputs

SandboxTypeOK ==
    /\ selectedPlaybook \in Playbooks
    /\ executionCache \in [Playbooks ->
          [status : {"idle", "queued", "running", "success", "failed"},
           lines : SUBSET Runs, exit : Runs \cup {0}]]
    /\ \A r \in Runs :
          /\ runs[r].pb \in Playbooks \cup {"none"}
          /\ runs[r].st \in {"none", "connecting", "open", "closing", "closed"}
          /\ runs[r].got \in 0..(Outputs + 1)
    /\ activeWs \in Runs \cup {0}

SandboxInit ==
    /\ selectedPlaybook \in Playbooks
    /\ executionCache = [p \in Playbooks |-> [status |-> "idle", lines |-> {}, exit |-> 0]]
    /\ runs = [r \in Runs |-> NoRun]
    /\ activeWs = 0

SetSelectedPlaybook(p) ==
    /\ p # selectedPlaybook
    /\ selectedPlaybook' = p
    /\ UNCHANGED <<executionCache, runs, activeWs>>

\* close() on the socket of activeWsRef; its onclose comes later.
CloseActive == [r \in Runs |->
    IF r = activeWs /\ Live(r) THEN [runs[r] EXCEPT !.st = "closing"] ELSE runs[r]]

\* currentExec: its output, its exit code, and the choice of the button, which
\* is Run unless the playbook is shown as running.
CurrentExec == executionCache[selectedPlaybook]

RunPlaybook(r) ==
    LET p == selectedPlaybook IN
    /\ CurrentExec.status # "running"
    /\ runs[r] = NoRun /\ \A q \in Runs : q < r => runs[q] # NoRun
    /\ executionCache' = [executionCache EXCEPT ![p] =
          [status |-> "queued", lines |-> {}, exit |-> 0]]
    /\ runs' = [CloseActive EXCEPT ![r] = [pb |-> p, st |-> "connecting", got |-> 0]]
    /\ activeWs' = r
    /\ UNCHANGED selectedPlaybook

StopExecution ==
    LET p == selectedPlaybook IN
    /\ CurrentExec.status = "running"
    /\ activeWs # 0
    /\ runs' = CloseActive
    /\ executionCache' = [executionCache EXCEPT ![p].status = "failed"]
    /\ UNCHANGED <<selectedPlaybook, activeWs>>

-----------------------------------------------------------------------------
(* The handlers of a socket.                                               *)

\* The playbook the handlers of a socket write to.
Target(r) == runs[r].pb

OnOpen(r) ==
    /\ runs[r].st = "connecting"
    /\ runs' = [runs EXCEPT ![r].st = "open"]
    /\ executionCache' = [executionCache EXCEPT ![Target(r)].status = "running"]
    /\ UNCHANGED <<selectedPlaybook, activeWs>>

OnOutput(r) ==
    /\ runs[r].st = "open" /\ runs[r].got < Outputs
    /\ runs' = [runs EXCEPT ![r].got = @ + 1]
    /\ executionCache' = [executionCache EXCEPT ![Target(r)].lines = @ \cup {r}]
    /\ UNCHANGED <<selectedPlaybook, activeWs>>

\* Mutant: END is shown as one more line.
EndIsOutput(r) ==
    /\ runs[r].st = "open" /\ runs[r].got = Outputs
    /\ runs' = [runs EXCEPT ![r].got = @ + 1]
    /\ executionCache' = [executionCache EXCEPT ![Target(r)].lines = @ \cup {r}]
    /\ UNCHANGED <<selectedPlaybook, activeWs>>

OnEnd(r) ==
    /\ runs[r].st = "open" /\ runs[r].got = Outputs
    /\ runs' = [runs EXCEPT ![r].got = @ + 1]
    /\ \E status \in {"success", "failed"} :
          executionCache' = [executionCache EXCEPT
              ![Target(r)].status = status, ![Target(r)].exit = r]
    /\ UNCHANGED <<selectedPlaybook, activeWs>>

\* The hub closes after END.
HubCloses(r) ==
    /\ runs[r].st = "open" /\ Ended(r)
    /\ runs' = [runs EXCEPT ![r].st = "closing"]
    /\ UNCHANGED <<selectedPlaybook, executionCache, activeWs>>

RunBreaks(r) ==
    /\ Live(r)
    /\ runs' = [runs EXCEPT ![r].st = "closing"]
    /\ UNCHANGED <<selectedPlaybook, executionCache, activeWs>>

\* Whichever socket closes, activeWsRef is cleared.
RunOnClose(r) ==
    /\ runs[r].st = "closing"
    /\ runs' = [runs EXCEPT ![r].st = "closed"]
    /\ activeWs' = 0
    /\ UNCHANGED <<selectedPlaybook, executionCache>>

Stream(r) == OnOpen(r) \/ OnOutput(r) \/ OnEnd(r) \/ HubCloses(r)

SandboxNext ==
    \/ \E p \in Playbooks : SetSelectedPlaybook(p)
    \/ StopExecution
    \/ \E r \in Runs : \/ RunPlaybook(r) \/ Stream(r)
                       \/ RunBreaks(r) \/ RunOnClose(r)

-----------------------------------------------------------------------------
\* A run that was started reaches END and gives its playbook a final status,
\* unless its connection was cut before: by the network, by Stop, or by the
\* run that replaced it.
RunEnds ==
    \A r \in Runs, p \in Playbooks :
        runs[r].pb = p /\ runs[r].st = "connecting" ~>
            \/ executionCache[p].status \in {"success", "failed"}
            \/ runs[r].st \in {"closing", "closed"} /\ ~Ended(r)
=============================================================================
