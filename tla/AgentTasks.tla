----------------------------- MODULE AgentTasks -----------------------------
(***************************************************************************)
(* Tasks of one endpoint: the agent_tasks table, the hub's handlers        *)
(* assign_agent_task, get_agent_tasks and submit_task_result               *)
(* (soc-backend/interfaces/agent_routes.py), and the agent's polling loop  *)
(* and webhook thread (hybrid-siem-agent/agent_poller.py).                 *)
(*                                                                         *)
(* A task is pending until a result is written.  Two paths run it: the     *)
(* polling loop, which fetches a batch of pending tasks and posts each     *)
(* result, and the webhook, which the hub calls from assign_agent_task and *)
(* whose answer the hub itself writes.  Neither path claims the task, every*)
(* call can fail on either side, and the agent can die at any point.       *)
(***************************************************************************)
EXTENDS Naturals, Sequences, Functions, FiniteSets

CONSTANTS
    Tasks,       \* task ids the hub can mint
    MaxTasks,    \* max_tasks: LIMIT of one fetch (10 in the code)
    MaxTaskCrashes   \* bound: crashes of the agent process

ASSUME TasksAssumption ==
    /\ IsFiniteSet(Tasks)
    /\ MaxTasks \in Nat \ {0}
    /\ MaxTaskCrashes \in Nat

VARIABLES
    agent_tasks, \* task -> status column
    requested,   \* the task ids inserted so far, by requested_at
    assign,      \* task -> where assign_agent_task is
    webhook,     \* task -> the call of /agent/execute and its answer
    poll,        \* the polling loop: where it is, the batch, the result in hand
    posts,       \* result posts on their way to or inside submit_task_result
    endpoint,    \* what the endpoint's secret is worth to the agent
    up,          \* the agent process runs
    taskCrashes,     \* crashes so far
    outcomes,    \* history: task -> results its executions have produced
    late         \* history: task -> executions begun after a result was written

taskVars == <<agent_tasks, requested, assign, webhook, poll, posts, endpoint,
          up, taskCrashes, outcomes, late>>
taskHub == <<agent_tasks, requested, assign>>
history == <<outcomes, late>>

-----------------------------------------------------------------------------
Results == {"success", "failed"}

\* late is counted up to one more than LateRunsBounded allows.
LateCap == 3

Sleeping == [at |-> "sleep", batch |-> <<>>, result |-> "none"]

TasksTypeOK ==
    /\ agent_tasks \in [Tasks -> {"absent", "pending"} \cup Results]
    /\ requested \in Seq(Tasks)
    /\ assign \in [Tasks -> {"idle", "posting", "returned"}]
    /\ webhook \in [Tasks -> {"none", "sent"} \cup Results]
    /\ poll \in [at : {"sleep", "requested", "batch", "submit"},
                 batch : Seq(Tasks), result : {"none"} \cup Results]
    /\ posts \subseteq [task : Tasks, status : Results]
    /\ endpoint \in {"active", "revoked", "abandoned"}
    /\ up \in BOOLEAN /\ taskCrashes \in 0 .. MaxTaskCrashes
    /\ outcomes \in [Tasks -> SUBSET Results] /\ late \in [Tasks -> 0 .. LateCap]

TasksInit ==
    /\ agent_tasks = [t \in Tasks |-> "absent"]
    /\ requested = <<>>
    /\ assign = [t \in Tasks |-> "idle"]
    /\ webhook = [t \in Tasks |-> "none"]
    /\ poll = Sleeping
    /\ posts = {}
    /\ endpoint = "active"
    /\ up = TRUE /\ taskCrashes = 0
    /\ outcomes = [t \in Tasks |-> {}] /\ late = [t \in Tasks |-> 0]

-----------------------------------------------------------------------------
(* assign_agent_task: insert, push if the endpoint has a tunnel url, write   *)
(* the answer.  A timeout, an error status or a dead worker leaves the row   *)
(* to the polling loop.                                                      *)

AssignInsert(t, cf_tunnel_url) ==
    /\ assign[t] = "idle"
    /\ agent_tasks' = [agent_tasks EXCEPT ![t] = "pending"]
    /\ requested' = Append(requested, t)
    /\ assign' = [assign EXCEPT ![t] = IF cf_tunnel_url THEN "posting" ELSE "returned"]
    /\ webhook' = [webhook EXCEPT ![t] = IF cf_tunnel_url THEN "sent" ELSE "none"]
    /\ UNCHANGED <<poll, posts, endpoint, up, taskCrashes, history>>

\* Mutant: a call without an answer counts as a success.
AssignUpdateDefault(t) ==
    /\ assign[t] = "posting"
    /\ agent_tasks' = [agent_tasks EXCEPT ![t] =
            IF webhook[t] \in Results THEN webhook[t] ELSE "success"]
    /\ assign' = [assign EXCEPT ![t] = "returned"]
    /\ webhook' = [webhook EXCEPT ![t] = "none"]
    /\ UNCHANGED <<requested, poll, posts, endpoint, up, taskCrashes, history>>

AssignUpdate(t) ==
    /\ assign[t] = "posting"
    /\ webhook[t] \in Results
    /\ agent_tasks' = [agent_tasks EXCEPT ![t] = webhook[t]]
    /\ assign' = [assign EXCEPT ![t] = "returned"]
    /\ webhook' = [webhook EXCEPT ![t] = "none"]
    /\ UNCHANGED <<requested, poll, posts, endpoint, up, taskCrashes, history>>

\* The call may still reach the agent, or be executing, when the hub gives up.
AssignFallback(t) ==
    /\ assign[t] = "posting"
    /\ assign' = [assign EXCEPT ![t] = "returned"]
    /\ UNCHANGED <<agent_tasks, requested, webhook, poll, posts, endpoint, up,
                   taskCrashes, history>>

WebhookLost(t) ==
    /\ webhook[t] # "none"
    /\ webhook' = [webhook EXCEPT ![t] = "none"]
    /\ UNCHANGED <<taskHub, poll, posts, endpoint, up, taskCrashes, history>>

-----------------------------------------------------------------------------
(* execute_task always returns success or failed.                            *)

execute_task(t, s) ==
    /\ outcomes' = [outcomes EXCEPT ![t] = @ \cup {s}]
    /\ late' = [late EXCEPT ![t] =
            IF agent_tasks[t] \in Results /\ @ < LateCap THEN @ + 1 ELSE @]

\* handle_webhook_execute, in the thread of the webhook server.
WebhookExecute(t, s) ==
    /\ up /\ webhook[t] = "sent"
    /\ execute_task(t, s)
    /\ webhook' = [webhook EXCEPT ![t] = s]
    /\ UNCHANGED <<taskHub, poll, posts, endpoint, up, taskCrashes>>

-----------------------------------------------------------------------------
(* poll_for_tasks and the two handlers it calls.  verify_endpoint_secret and *)
(* the statement that follows it are one step: the window between them only  *)
(* lets a call through that a rotation has just overtaken.                   *)

PollSend ==
    /\ up /\ poll.at = "sleep"
    /\ poll' = [poll EXCEPT !.at = "requested"]
    /\ UNCHANGED <<taskHub, webhook, posts, endpoint, up, taskCrashes, history>>

\* Mutant: the WHERE clause forgets the status.
PendingIgnoresStatus == Range(requested)

\* WHERE status = 'pending'.
Pending == {t \in Range(requested) : agent_tasks[t] = "pending"}

\* The order of requested_at.
Older(t, u) ==
    \E i, j \in DOMAIN requested : i < j /\ requested[i] = t /\ requested[j] = u

\* ORDER BY requested_at LIMIT max_tasks: the oldest pending tasks, oldest first.
\* Exactly one sequence is an answer.
IsAnswer(ts) ==
    /\ \A i, j \in DOMAIN ts : i < j => Older(ts[i], ts[j])
    /\ \A t \in Pending \ Range(ts) :
          Len(ts) = MaxTasks /\ \A i \in DOMAIN ts : Older(ts[i], t)

Rows == {ts \in UNION {[1 .. n -> Pending] : n \in 0 .. MaxTasks} : IsAnswer(ts)}

Batch(ts) ==
    IF ts = <<>> THEN Sleeping ELSE [at |-> "batch", batch |-> ts, result |-> "none"]

\* Mutant: fetched tasks are marked dispatched.
GetTasksDispatches ==
    /\ poll.at = "requested" /\ endpoint = "active"
    /\ \E ts \in Rows :
          /\ poll' = Batch(ts)
          /\ requested' = SelectSeq(requested, LAMBDA t : t \notin Range(ts))
    /\ UNCHANGED <<agent_tasks, assign, webhook, posts, endpoint, up, taskCrashes, history>>

\* get_agent_tasks leaves the tasks pending.
get_agent_tasks ==
    /\ poll.at = "requested" /\ endpoint = "active"
    /\ \E ts \in Rows : poll' = Batch(ts)
    /\ UNCHANGED <<taskHub, webhook, posts, endpoint, up, taskCrashes, history>>

\* A 401 or a connection error before the batch arrives ends the round.
PollFails ==
    /\ poll.at = "requested"
    /\ poll' = Sleeping
    /\ UNCHANGED <<taskHub, webhook, posts, endpoint, up, taskCrashes, history>>

PollExecute(s) ==
    /\ up /\ poll.at = "batch"
    /\ execute_task(Head(poll.batch), s)
    /\ poll' = [poll EXCEPT !.at = "submit", !.result = s]
    /\ UNCHANGED <<taskHub, webhook, posts, endpoint, up, taskCrashes>>

\* submit_result returns on an answer and on an error alike; on an error the
\* post may still be on its way.
submit_result ==
    /\ up /\ poll.at = "submit"
    /\ posts' = posts \cup {[task |-> Head(poll.batch), status |-> poll.result]}
    /\ poll' = Batch(Tail(poll.batch))
    /\ UNCHANGED <<taskHub, webhook, endpoint, up, taskCrashes, history>>

\* Lost, or answered with a 401.
PostLost(m) ==
    /\ posts' = posts \ {m}
    /\ UNCHANGED <<taskHub, webhook, poll, endpoint, up, taskCrashes, history>>

\* UPDATE .. WHERE task_id AND endpoint_id, whatever the status is.
submit_task_result(m) ==
    /\ endpoint = "active"
    /\ agent_tasks' = [agent_tasks EXCEPT ![m.task] = m.status]
    /\ posts' = posts \ {m}
    /\ UNCHANGED <<requested, assign, webhook, poll, endpoint, up, taskCrashes, history>>

-----------------------------------------------------------------------------
(* The environment.                                                          *)

\* rotate_endpoint_credential: the agent never learns the new secret.
EndpointRotated ==
    /\ endpoint = "active"
    /\ endpoint' = "revoked"
    /\ UNCHANGED <<taskHub, webhook, poll, posts, up, taskCrashes, history>>

PollerCrash ==
    /\ up /\ taskCrashes < MaxTaskCrashes
    /\ up' = FALSE /\ taskCrashes' = taskCrashes + 1
    /\ poll' = Sleeping
    /\ UNCHANGED <<taskHub, webhook, posts, endpoint, history>>

\* The restarted agent registers with its stored secret, or, when that fails,
\* enrols as another endpoint (module AgentBootstrap) and this one is
\* abandoned.
Restart ==
    /\ ~up
    /\ \/ endpoint = "active" /\ up' = TRUE /\ UNCHANGED endpoint
       \/ endpoint # "abandoned" /\ endpoint' = "abandoned" /\ UNCHANGED up
    /\ UNCHANGED <<taskHub, webhook, poll, posts, taskCrashes, history>>

TasksNext ==
    \/ \E t \in Tasks :
         \/ \E url \in BOOLEAN : AssignInsert(t, url)
         \/ AssignUpdate(t) \/ AssignFallback(t) \/ WebhookLost(t)
         \/ \E s \in Results : WebhookExecute(t, s)
    \/ PollSend \/ get_agent_tasks \/ PollFails
    \/ \E s \in Results : PollExecute(s)
    \/ submit_result
    \/ \E m \in posts : PostLost(m) \/ submit_task_result(m)
    \/ EndpointRotated \/ PollerCrash \/ Restart

TasksSpec == TasksInit /\ [][TasksNext]_taskVars

-----------------------------------------------------------------------------
(* Properties.                                                               *)

\* A result in agent_tasks was produced by an execution of that task, whichever
\* path wrote it and however many executions there were.
ResultFromExecution ==
    \A t \in Tasks : agent_tasks[t] \in Results => agent_tasks[t] \in outcomes[t]

\* Once a result is written at most two more executions begin: one from a batch
\* the polling loop had already fetched and one from the webhook call.
LateRunsBounded == \A t \in Tasks : late[t] <= 2

\* Every task gets a result, as long as the endpoint keeps its identity: a lost
\* fetch, a lost post, a failed webhook or a crash only delays it.
TaskCompletes ==
    \A t \in Tasks :
        agent_tasks[t] = "pending" ~> (agent_tasks[t] \in Results \/ endpoint # "active")
=============================================================================
