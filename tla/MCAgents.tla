------------------------------ MODULE MCAgents ------------------------------
(***************************************************************************)
(* The programs that run on an endpoint: the start of the agent            *)
(* (AgentBootstrap), its tasks and the connector programs.  They share no  *)
(* state, so a behaviour is a behaviour of one of them.                    *)
(***************************************************************************)
EXTENDS AgentBootstrap, AgentTasks, Connectors

VARIABLE part

partVars == <<part, vars, taskVars, connVars>>

\* One initial state stands for each program that does not run; for the agent
\* it is one without a token.
PartInit ==
    /\ part \in {"bootstrap", "tasks", "connector"}
    /\ Init /\ TasksInit /\ ConnInit
    /\ part # "bootstrap" => preset = None /\ ~hasToken
    /\ part # "connector" => prog = HostPython

\* Every task has its result and nothing is left to crash.
TasksDone == ~ENABLED TasksNext /\ UNCHANGED taskVars

PartNext ==
    /\ UNCHANGED part
    /\ \/ part = "bootstrap" /\ Next /\ UNCHANGED <<taskVars, connVars>>
       \/ part = "tasks" /\ (TasksNext \/ TasksDone) /\ UNCHANGED <<vars, connVars>>
       \/ part = "connector" /\ ConnNext /\ UNCHANGED <<vars, taskVars>>

\* A stopped agent is started again by its operator or container runtime, and
\* the process runs.
BootFairness == WF_vars(part = "bootstrap" /\ Agent)

\* The loop of main() goes round for ever and a dead agent is restarted.  The
\* network may fail any number of times, but a call that is tried again and
\* again gets through in the end.
TaskFairness ==
    /\ WF_taskVars(part = "tasks" /\ PollSend)
    /\ WF_taskVars(part = "tasks" /\ \E s \in Results : PollExecute(s))
    /\ WF_taskVars(part = "tasks" /\ submit_result)
    /\ WF_taskVars(part = "tasks" /\ Restart)
    /\ SF_taskVars(part = "tasks" /\ get_agent_tasks)
    /\ \A t \in Tasks :
          SF_taskVars(part = "tasks" /\ \E m \in posts : m.task = t /\ submit_task_result(m))

\* The program is started over and over, its requests are answered, and a
\* spent token is replaced between two runs, as the page's requirement asks
\* of its users.
ConnFairness ==
    /\ WF_connVars(part = "connector" /\ Run)
    /\ SF_connVars(part = "connector" /\ NewToken)

PartSpec == PartInit /\ [][PartNext]_partVars /\ BootFairness /\ TaskFairness /\ ConnFairness

PartTypeOK == TypeOK /\ TasksTypeOK /\ ConnTypeOK

\* Connectors: every program that can drop its file streams again after faults.
Recovers == part = "connector" => StreamsAgain
=============================================================================
