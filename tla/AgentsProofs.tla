---------------------------- MODULE AgentsProofs ----------------------------
(***************************************************************************)
(* Proofs about the programs on an endpoint, for any values of their       *)
(* constants.                                                              *)
(*                                                                         *)
(* AgentBootstrap: PollingIdentityActive is strengthened by Held (the      *)
(* process has an identity wherever it uses one), and                      *)
(* ExtraEnrollmentsExplained by Credit (the one enrolment that no fault    *)
(* explains is the one whose credential is about to be saved, or is on     *)
(* disk and good).                                                         *)
(*                                                                         *)
(* AgentTasks: a result in the table came from an execution of that task   *)
(* (ResultFromExecution), and once it is there at most two more executions *)
(* begin (LateRunsBounded).                                                *)
(***************************************************************************)
EXTENDS AgentBootstrap, AgentTasks, FiniteSetTheorems, TLAPS

\* The provers a leaf is given when it names none, with time for a busy machine.
USE SMTT(30), ZenonT(30)

-----------------------------------------------------------------------------
(* AgentBootstrap.                                                           *)
BootSpec == Init /\ [][Next]_vars

Held ==
    /\ at \in {"register_stored", "save", "register_new", "polling"} => mem \in Endpoints
    /\ at = "polling" => mem \in rotated \/ rows[mem] = "active"

Saveable ==
    \/ at = "save" /\ Valid(mem)
    \/ at \notin {"token", "enroll", "save"} /\ disk # None /\ Valid(disk)

Credit ==
    preset = None =>
        /\ at = "register_stored" => mem = disk
        /\ \/ Cardinality(Enrolled) <= faults
           \/ Cardinality(Enrolled) <= faults + 1 /\ Saveable

\* The hub rotates only what it has enrolled.
RotatedKnown == \A e \in rotated : rows[e] # "absent"

IInv == TypeOK /\ Held /\ RotatedKnown

-----------------------------------------------------------------------------
\* Enrolled is a finite set, so that its size is a number.
LEMMA EnrolledFinite ==
    IsFiniteSet(Enrolled) /\ Cardinality(Enrolled) \in Nat
<1>1. Enrolled \subseteq Endpoints
  BY DEF Enrolled
<1>2. IsFiniteSet(Endpoints)
  BY BootstrapAssumption
<1>3. IsFiniteSet(Enrolled)
  BY <1>1, <1>2, FS_Subset
<1>. QED
  BY <1>3, FS_CardinalityType

LEMMA InitIInv ==
    ASSUME Init
    PROVE  IInv
BY BootstrapAssumption DEF Init, IInv, TypeOK, Held, RotatedKnown

\* Every step of the agent, of the hub and of the administrator keeps the types,
\* an identity in the process that uses one, and the hub's record of what it
\* has rotated.
LEMMA NextIInv ==
    ASSUME IInv, [Next]_vars
    PROVE  IInv'
<1>. USE BootstrapAssumption DEF IInv, TypeOK, Held, RotatedKnown
<1>1. CASE Start
  BY <1>1 DEF Start, config, hub
<1>2. CASE Load
  BY <1>2 DEF Load, Stored, config, hub
<1>3. CASE RegisterOk
  BY <1>3 DEF RegisterOk, Registering, Valid, config
<1>4. CASE RegisterRejected
  BY <1>4 DEF RegisterRejected, AfterFailure, Registering, config, hub
<1>5. CASE RegisterFails
  BY <1>5 DEF RegisterFails, Fault, AfterFailure, Registering, Valid, config
<1>6. CASE Token
  BY <1>6 DEF Token, config
<1>7. CASE EnrollRejected
  BY <1>7 DEF EnrollRejected, config, hub
<1>8. CASE EnrollFails
  BY <1>8 DEF EnrollFails, Fault, config
<1>9. CASE Save
  BY <1>9 DEF Save, Fault, config, hub
<1>10. ASSUME NEW e \in Endpoints, EnrollOk(e) PROVE IInv'
  BY <1>10 DEF EnrollOk, config
<1>11. CASE Poll \/ UNCHANGED vars
  BY <1>11 DEF Poll, vars, config
<1>12. CASE Crash
  BY <1>12 DEF Crash, Fault, config, hub
<1>13. ASSUME NEW e \in Endpoints, Rotate(e) PROVE IInv'
  BY <1>13 DEF Rotate, Valid, Fault, config
<1>. HIDE DEF IInv
<1>. QED
  BY <1>1, <1>2, <1>3, <1>4, <1>5, <1>6, <1>7, <1>8, <1>9, <1>10, <1>11, <1>12, <1>13
  DEF Next, Agent

-----------------------------------------------------------------------------
(* The enrolments that no fault explains.                                    *)

LEMMA InitCredit ==
    ASSUME Init
    PROVE  Credit
<1>1. preset = None => Enrolled = {}
  BY BootstrapAssumption DEF Init, Enrolled
<1>. QED
  BY <1>1, FS_EmptySet DEF Init, Credit

\* A step that enrols no endpoint leaves Enrolled as it is.
LEMMA EnrolledSame ==
    ASSUME rows \in [Endpoints -> {"absent", "pending_register", "active"}],
           UNCHANGED preset,
           \A e \in Endpoints : rows'[e] = "absent" <=> rows[e] = "absent"
    PROVE  Enrolled' = Enrolled
BY DEF Enrolled

\* An enrolment adds one endpoint.
LEMMA EnrolledOneMore ==
    ASSUME TypeOK, UNCHANGED preset,
           NEW e \in Endpoints, rows[e] = "absent",
           rows' = [rows EXCEPT ![e] = "pending_register"]
    PROVE  Cardinality(Enrolled') <= Cardinality(Enrolled) + 1
<1>1. CASE e = preset
  <2>1. Enrolled' = Enrolled
    BY <1>1 DEF Enrolled, TypeOK
  <2>. QED
    BY <2>1, EnrolledFinite
<1>2. CASE e # preset
  <2>1. Enrolled' = Enrolled \cup {e} /\ e \notin Enrolled
    BY <1>2 DEF Enrolled, TypeOK
  <2>2. Cardinality(Enrolled \cup {e}) = Cardinality(Enrolled) + 1
    BY <2>1, EnrolledFinite, FS_AddElement
  <2>. QED
    BY <2>1, <2>2, EnrolledFinite
<1>. QED
  BY <1>1, <1>2

\* Every step keeps Credit: an enrolment uses it up, and what takes a good
\* credential from the agent (a rotation, a lost answer, a failed write, a death
\* before the write) is a fault, which gives it back.
LEMMA NextCredit ==
    ASSUME IInv, Credit, [Next]_vars
    PROVE  Credit'
<1>. DEFINE C == Cardinality(Enrolled)
<1>0. C \in Nat /\ faults \in Nat
  BY EnrolledFinite, BootstrapAssumption DEF IInv, TypeOK
<1>. HIDE DEF C
<1>1. ASSUME Enrolled' = Enrolled, UNCHANGED preset, faults' = faults + 1,
             preset = None /\ at' = "register_stored" => mem' = disk'
      PROVE  Credit'
  <2>1. C' = C
    BY <1>1 DEF C
  <2>2. preset = None => C' <= faults'
    BY <2>1, <1>0, <1>1 DEF Credit, C
  <2>. QED
    BY <2>2, <1>1 DEF Credit, C
<1>2. ASSUME Enrolled' = Enrolled, UNCHANGED <<preset, faults>>,
             preset = None => /\ at' = "register_stored" => mem' = disk'
                              /\ Saveable => Saveable' \/ C <= faults
      PROVE  Credit'
  <2>1. C' = C
    BY <1>2 DEF C
  <2>. QED
    BY <2>1, <1>0, <1>2 DEF Credit, C
<1>. USE BootstrapAssumption DEF IInv, TypeOK
<1>3. CASE Start
  <2>1. Enrolled' = Enrolled
    BY <1>3, EnrolledSame DEF Start, config, hub
  <2>. QED
    BY <1>3, <2>1, <1>2 DEF Start, Saveable, Valid, config, hub
<1>4. CASE Load
  <2>1. Enrolled' = Enrolled
    BY <1>4, EnrolledSame DEF Load, config, hub
  <2>. QED
    BY <1>4, <2>1, <1>2 DEF Load, Stored, Saveable, Valid, config, hub
<1>5. CASE RegisterOk
  <2>1. Enrolled' = Enrolled
    BY <1>5, EnrolledSame DEF RegisterOk, Held, Registering, Valid, config
  <2>. QED
    BY <1>5, <2>1, <1>2 DEF RegisterOk, Registering, Held, Saveable, Valid, config
<1>6. CASE RegisterRejected
  <2>1. Enrolled' = Enrolled
    BY <1>6, EnrolledSame DEF RegisterRejected, config, hub
  <2>2. preset = None /\ at = "register_stored" => ~Saveable
    BY <1>6 DEF RegisterRejected, Credit, Saveable
  <2>. QED
    BY <1>6, <2>1, <2>2, <1>2
    DEF RegisterRejected, Registering, AfterFailure, Saveable, Valid, config, hub
<1>7. CASE RegisterFails
  <2>1. Enrolled' = Enrolled
    BY <1>7, EnrolledSame DEF RegisterFails, Held, Registering, Valid, config
  <2>. QED
    BY <1>7, <2>1, <1>1 DEF RegisterFails, AfterFailure, Fault, config
<1>8. CASE Token
  <2>1. Enrolled' = Enrolled
    BY <1>8, EnrolledSame DEF Token, config
  <2>. QED
    BY <1>8, <2>1, <1>2 DEF Token, Saveable, config
<1>9. CASE EnrollRejected
  <2>1. Enrolled' = Enrolled
    BY <1>9, EnrolledSame DEF EnrollRejected, config, hub
  <2>. QED
    BY <1>9, <2>1, <1>2 DEF EnrollRejected, Saveable, config, hub
<1>10. ASSUME at = "enroll", preset = None PROVE C <= faults
  BY <1>10, <1>0 DEF Credit, Saveable, C
<1>11. CASE EnrollFails
  <2>1. CASE \E e \in Endpoints : rows[e] = "absent" /\
                  rows' = [rows EXCEPT ![e] = "pending_register"]
    <3>1. Cardinality(Enrolled') <= C + 1
      BY <1>11, <2>1, EnrolledOneMore, ZenonT(30) DEF EnrollFails, config, C
    <3>2. Cardinality(Enrolled') \in Nat
      BY <1>11, <2>1, EnrolledFinite, FS_Subset, FS_CardinalityType DEF Enrolled
    <3>. QED
      BY <1>11, <3>1, <3>2, <1>0, <1>10 DEF EnrollFails, Fault, Credit, config, C
  <2>2. CASE UNCHANGED rows
    <3>1. Enrolled' = Enrolled
      BY <1>11, <2>2, EnrolledSame DEF EnrollFails, config
    <3>. QED
      BY <1>11, <3>1, <1>1 DEF EnrollFails, Fault, config
  <2>. QED
    BY <1>11, <2>1, <2>2 DEF EnrollFails
<1>12. CASE Save
  <2>1. Enrolled' = Enrolled
    BY <1>12, EnrolledSame DEF Save, config, hub
  <2>2. CASE disk' = mem /\ UNCHANGED faults
    BY <1>12, <2>1, <2>2, <1>2 DEF Save, Held, Saveable, Valid, config, hub
  <2>3. CASE Fault
    BY <1>12, <2>1, <2>3, <1>1 DEF Save, Fault, config, hub
  <2>. QED
    BY <1>12, <2>2, <2>3 DEF Save
<1>13. ASSUME NEW e \in Endpoints, EnrollOk(e) PROVE Credit'
  <2>1. Cardinality(Enrolled') <= C + 1
    BY <1>13, EnrolledOneMore, ZenonT(30) DEF EnrollOk, config, C
  <2>2. Cardinality(Enrolled') \in Nat
    BY EnrolledFinite, FS_Subset, FS_CardinalityType DEF Enrolled
  <2>3. Saveable'
    BY <1>13 DEF EnrollOk, Saveable, Valid, RotatedKnown
  <2>. QED
    BY <1>13, <2>1, <2>2, <2>3, <1>0, <1>10 DEF EnrollOk, Credit, config, C
<1>14. CASE Poll \/ UNCHANGED vars
  <2>1. Enrolled' = Enrolled
    BY <1>14, EnrolledSame DEF Poll, vars, config
  <2>. QED
    BY <1>14, <2>1, <1>2 DEF Poll, Credit, Saveable, Valid, vars, config
<1>15. CASE Crash
  <2>1. Enrolled' = Enrolled
    BY <1>15, EnrolledSame DEF Crash, config, hub
  <2>2. CASE at = "save"
    BY <1>15, <2>1, <2>2, <1>1 DEF Crash, Fault, config, hub
  <2>3. CASE at # "save"
    BY <1>15, <2>1, <2>3, <1>2 DEF Crash, Saveable, Valid, config, hub
  <2>. QED
    BY <2>2, <2>3
<1>16. ASSUME NEW e \in Endpoints, Rotate(e) PROVE Credit'
  <2>1. Enrolled' = Enrolled
    BY <1>16, EnrolledSame DEF Rotate, Valid, config
  <2>. QED
    BY <1>16, <2>1, <1>1 DEF Rotate, Fault, Credit, config
<1>. QED
  BY <1>3, <1>4, <1>5, <1>6, <1>7, <1>8, <1>9, <1>11, <1>12, <1>13, <1>14, <1>15, <1>16
  DEF Next, Agent

-----------------------------------------------------------------------------
\* The agent's bootstrap keeps its types; in particular a token is never used
\* more often than max_use allows.
THEOREM BootstrapTypeOK == BootSpec => []TypeOK
<1>1. Init => IInv
  BY InitIInv
<1>2. IInv /\ [Next]_vars => IInv'
  BY NextIInv
<1>3. IInv => TypeOK
  BY DEF IInv
<1>. QED
  BY <1>1, <1>2, <1>3, PTL DEF BootSpec

\* A polling agent holds an identity the hub has made active, unless it was
\* rotated since, whatever calls fail and whenever the process dies.
THEOREM BootstrapPollsActive == BootSpec => []PollingIdentityActive
<1>1. Init => IInv
  BY InitIInv
<1>2. IInv /\ [Next]_vars => IInv'
  BY NextIInv
<1>3. IInv => PollingIdentityActive
  BY BootstrapAssumption DEF IInv, Held, PollingIdentityActive
<1>. QED
  BY <1>1, <1>2, <1>3, PTL DEF BootSpec

\* An agent without a configured credential enrols once, and once more for each
\* lost answer, lost write or rotation at most: a reboot alone costs nothing.
THEOREM BootstrapEnrollments == BootSpec => []ExtraEnrollmentsExplained
<1>. DEFINE Inv == IInv /\ Credit
<1>1. Init => Inv
  BY InitIInv, InitCredit
<1>2. Inv /\ [Next]_vars => Inv'
  BY NextIInv, NextCredit
<1>3. Inv => ExtraEnrollmentsExplained
  BY EnrolledFinite, BootstrapAssumption
  DEF IInv, TypeOK, Credit, ExtraEnrollmentsExplained
<1>. QED
  BY <1>1, <1>2, <1>3, PTL DEF BootSpec

-----------------------------------------------------------------------------
(* AgentTasks: the inductive invariant.                                      *)

\* The polling loop p still has to execute t.
ToRun(p, t) ==
    \E i \in DOMAIN p.batch : p.batch[i] = t /\ (p.at = "submit" => i # 1)

\* The loop has a batch in hand while it works, and no task twice.
BatchOK ==
    /\ poll.at \in {"batch", "submit"} => poll.batch # <<>>
    /\ poll.at = "submit" => poll.result \in Results
    /\ \A i, j \in DOMAIN poll.batch : poll.batch[i] = poll.batch[j] => i = j

\* A task has one row, and nothing has heard of a task that was not inserted.
InsertedOnce ==
    /\ \A i, j \in DOMAIN requested : requested[i] = requested[j] => i = j
    /\ \A t \in Tasks : assign[t] = "idle" =>
         /\ agent_tasks[t] = "absent" /\ webhook[t] = "none" /\ outcomes[t] = {}
         /\ t \notin Range(requested) /\ ~ToRun(poll, t)

\* Every result on its way to the table was produced by an execution: the
\* webhook's answer, a post, and the result the polling loop is about to post.
Produced ==
    /\ \A t \in Tasks : webhook[t] \in Results => webhook[t] \in outcomes[t]
    /\ \A m \in posts : m.status \in outcomes[m.task]
    /\ poll.at = "submit" => poll.result \in outcomes[Head(poll.batch)]

\* The late executions there have been and those still to come: one of the
\* webhook call, one of the batch.
Budget ==
    \A t \in Tasks :
        /\ agent_tasks[t] \notin Results => late[t] = 0
        /\ late[t] <= 2
        /\ webhook[t] = "sent" \/ ToRun(poll, t) => late[t] <= 1
        /\ webhook[t] = "sent" /\ ToRun(poll, t) => late[t] = 0

RunsInv ==
    TasksTypeOK /\ BatchOK /\ InsertedOnce /\ Produced /\ ResultFromExecution /\ Budget

-----------------------------------------------------------------------------
(* What the answer of a fetch is.                                            *)

\* The rows get_agent_tasks returns are pending tasks, none of them twice.
LEMMA RowsFacts ==
    ASSUME TasksTypeOK, InsertedOnce, NEW ts \in Rows
    PROVE  /\ ts \in Seq(Tasks)
           /\ \A i \in DOMAIN ts : agent_tasks[ts[i]] = "pending"
           /\ \A i, j \in DOMAIN ts : ts[i] = ts[j] => i = j
<1>1. PICK n \in 0 .. MaxTasks : ts \in [1 .. n -> Pending]
  BY DEF Rows
<1>2. Pending \subseteq Tasks /\ \A t \in Pending : agent_tasks[t] = "pending"
  BY DEF Pending, TasksTypeOK, Range
<1>3. n \in Nat
  BY <1>1, TasksAssumption
<1>4. ts \in Seq(Tasks)
  BY <1>1, <1>2, <1>3
<1>5. ASSUME NEW i \in DOMAIN ts, NEW j \in DOMAIN ts, i < j, ts[i] = ts[j]
      PROVE  FALSE
  <2>1. Older(ts[i], ts[j])
    BY <1>5 DEF Rows, IsAnswer
  <2>2. PICK k, l \in DOMAIN requested :
            k < l /\ requested[k] = ts[i] /\ requested[l] = ts[j]
    BY <2>1 DEF Older
  <2>3. k = l
    BY <2>2, <1>5 DEF InsertedOnce
  <2> QED
    BY <2>2, <2>3 DEF TasksTypeOK
<1>6. ASSUME NEW i \in DOMAIN ts, NEW j \in DOMAIN ts, ts[i] = ts[j]
      PROVE  i = j
  <2>1. i \in Nat /\ j \in Nat
    BY <1>1, <1>3
  <2>2. ~(i < j) /\ ~(j < i)
    BY <1>5, <1>6
  <2> QED
    BY <2>1, <2>2
<1> QED
  BY <1>1, <1>2, <1>4, <1>6

\* A loop that sleeps has nothing to run, and so has one with an empty batch.
LEMMA BatchFacts ==
    ASSUME NEW ts \in Seq(Tasks)
    PROVE  /\ Batch(ts).batch = ts
           /\ Batch(ts).at = IF ts = <<>> THEN "sleep" ELSE "batch"
           /\ Batch(ts).result = "none"
           /\ Batch(ts) \in [at : {"sleep", "requested", "batch", "submit"},
                             batch : Seq(Tasks), result : {"none"} \cup Results]
  BY DEF Batch, Sleeping

LEMMA SleepingFacts ==
    /\ Sleeping.batch = <<>> /\ Sleeping.at = "sleep" /\ Sleeping.result = "none"
    /\ Sleeping \in [at : {"sleep", "requested", "batch", "submit"},
                     batch : Seq(Tasks), result : {"none"} \cup Results]
    /\ \A t : ~ToRun(Sleeping, t)
  BY DEF Sleeping, ToRun

-----------------------------------------------------------------------------
(* The hub's assign_agent_task and the webhook.                              *)

LEMMA AssignInsertInv ==
    ASSUME RunsInv, NEW t \in Tasks, NEW url \in BOOLEAN, AssignInsert(t, url)
    PROVE  RunsInv'
<1> USE DEF RunsInv
<1>1. TasksTypeOK'
  BY DEF AssignInsert, TasksTypeOK, history
<1>2. BatchOK'
  BY DEF AssignInsert, BatchOK
<1>3. InsertedOnce'
  <2>1. /\ t \notin Range(requested)
        /\ requested \in Seq(Tasks) /\ requested' = Append(requested, t)
    BY DEF AssignInsert, InsertedOnce, TasksTypeOK
  <2>2. \A i, j \in DOMAIN requested' : requested'[i] = requested'[j] => i = j
    BY <2>1 DEF InsertedOnce, Range
  <2>3. Range(requested') = Range(requested) \cup {t}
    BY <2>1 DEF Range
  <2>4. ASSUME NEW u \in Tasks, assign'[u] = "idle"
        PROVE  u # t /\ assign[u] = "idle"
    BY <2>4 DEF AssignInsert, TasksTypeOK
  <2>5. ASSUME NEW u \in Tasks, assign'[u] = "idle"
        PROVE  /\ agent_tasks'[u] = "absent" /\ webhook'[u] = "none" /\ outcomes'[u] = {}
               /\ ~ToRun(poll', u)
    BY <2>4, <2>5 DEF AssignInsert, TasksTypeOK, InsertedOnce, history
  <2>6. ASSUME NEW u \in Tasks, assign'[u] = "idle"
        PROVE  u \notin Range(requested')
    BY <2>3, <2>4, <2>6 DEF InsertedOnce
  <2> QED
    BY <2>2, <2>5, <2>6 DEF InsertedOnce
<1>4. Produced'
  BY DEF AssignInsert, Produced, TasksTypeOK, history, Results
<1>5. ResultFromExecution'
  BY DEF AssignInsert, ResultFromExecution, TasksTypeOK, history, Results
<1>6. Budget'
  <2>1. late[t] = 0 /\ late' = late /\ poll' = poll
    BY DEF AssignInsert, Budget, InsertedOnce, history, Results
  <2> QED
    BY <2>1 DEF AssignInsert, Budget, TasksTypeOK
<1> QED
  BY <1>1, <1>2, <1>3, <1>4, <1>5, <1>6

LEMMA AssignUpdateInv ==
    ASSUME RunsInv, NEW t \in Tasks, AssignUpdate(t)
    PROVE  RunsInv'
<1> USE DEF RunsInv
<1>1. TasksTypeOK'
  BY DEF AssignUpdate, TasksTypeOK, history
<1>2. BatchOK'
  BY DEF AssignUpdate, BatchOK
<1>3. InsertedOnce'
  BY DEF AssignUpdate, InsertedOnce, TasksTypeOK, history
<1>4. Produced'
  BY DEF AssignUpdate, Produced, TasksTypeOK, history, Results
<1>5. ResultFromExecution'
  BY DEF AssignUpdate, ResultFromExecution, Produced, TasksTypeOK, history
<1>6. Budget'
  BY DEF AssignUpdate, Budget, TasksTypeOK, history
<1> QED
  BY <1>1, <1>2, <1>3, <1>4, <1>5, <1>6

LEMMA AssignFallbackInv ==
    ASSUME RunsInv, NEW t \in Tasks, AssignFallback(t)
    PROVE  RunsInv'
<1> USE DEF RunsInv
<1>1. TasksTypeOK'
  BY DEF AssignFallback, TasksTypeOK, history
<1>2. BatchOK'
  BY DEF AssignFallback, BatchOK
<1>3. InsertedOnce'
  BY DEF AssignFallback, InsertedOnce, TasksTypeOK, history
<1>4. Produced' /\ ResultFromExecution' /\ Budget'
  BY DEF AssignFallback, Produced, ResultFromExecution, Budget, history
<1> QED
  BY <1>1, <1>2, <1>3, <1>4

LEMMA WebhookLostInv ==
    ASSUME RunsInv, NEW t \in Tasks, WebhookLost(t)
    PROVE  RunsInv'
<1> USE DEF RunsInv
<1>1. TasksTypeOK'
  BY DEF WebhookLost, TasksTypeOK, taskHub, history
<1>2. BatchOK' /\ ResultFromExecution'
  BY DEF WebhookLost, BatchOK, ResultFromExecution, taskHub, history
<1>3. InsertedOnce'
  BY DEF WebhookLost, InsertedOnce, TasksTypeOK, taskHub, history
<1>4. Produced'
  BY DEF WebhookLost, Produced, TasksTypeOK, history, Results
<1>5. Budget'
  BY DEF WebhookLost, Budget, TasksTypeOK, taskHub, history
<1> QED
  BY <1>1, <1>2, <1>3, <1>4, <1>5

-----------------------------------------------------------------------------
(* Executions.                                                               *)

\* An execution adds its result, and is late only if a result was there.
LEMMA ExecuteFacts ==
    ASSUME TasksTypeOK, NEW t \in Tasks, NEW s \in Results, execute_task(t, s)
    PROVE  /\ outcomes' \in [Tasks -> SUBSET Results] /\ late' \in [Tasks -> 0 .. LateCap]
           /\ s \in outcomes'[t]
           /\ \A u \in Tasks : outcomes[u] \subseteq outcomes'[u]
           /\ \A u \in Tasks \ {t} : outcomes'[u] = outcomes[u] /\ late'[u] = late[u]
           /\ late'[t] <= late[t] + 1
           /\ agent_tasks[t] \notin Results => late'[t] = late[t]
<1>1. outcomes \in [Tasks -> SUBSET Results] /\ late \in [Tasks -> 0 .. 3]
  BY DEF TasksTypeOK, LateCap
<1>2. outcomes' = [outcomes EXCEPT ![t] = @ \cup {s}]
  BY DEF execute_task
<1>3. late' = [late EXCEPT ![t] =
          IF agent_tasks[t] \in Results /\ late[t] < 3 THEN late[t] + 1 ELSE late[t]]
  BY DEF execute_task, LateCap
<1>4. late' \in [Tasks -> 0 .. LateCap]
  BY <1>1, <1>3 DEF LateCap
<1>5. late'[t] <= late[t] + 1 /\ (agent_tasks[t] \notin Results => late'[t] = late[t])
  BY <1>1, <1>3
<1>6. \A u \in Tasks \ {t} : late'[u] = late[u]
  BY <1>1, <1>3
<1> QED
  BY <1>1, <1>2, <1>4, <1>5, <1>6, ZenonT(30)

LEMMA WebhookExecuteInv ==
    ASSUME RunsInv, NEW t \in Tasks, NEW s \in Results, WebhookExecute(t, s)
    PROVE  RunsInv'
<1> USE DEF RunsInv
<1>0. execute_task(t, s)
  BY DEF WebhookExecute
<1>1. TasksTypeOK'
  BY <1>0, ExecuteFacts DEF WebhookExecute, TasksTypeOK, taskHub
<1>2. BatchOK'
  BY DEF WebhookExecute, BatchOK
<1>3. InsertedOnce'
  BY <1>0, ExecuteFacts DEF WebhookExecute, InsertedOnce, TasksTypeOK, taskHub
<1>4. Produced'
  <2>1. poll' = poll /\ posts' = posts /\ posts \subseteq [task : Tasks, status : Results]
    BY DEF WebhookExecute, TasksTypeOK
  <2>2. \A m \in posts' : m.status \in outcomes'[m.task]
    BY <1>0, <2>1, ExecuteFacts DEF Produced
  <2>3. ASSUME poll.at = "submit" PROVE poll.result \in outcomes'[Head(poll.batch)]
    <3>1. Head(poll.batch) \in Tasks
      BY <2>3 DEF BatchOK, TasksTypeOK
    <3> QED
      BY <1>0, <2>3, <3>1, ExecuteFacts DEF Produced
  <2>4. \A u \in Tasks : webhook'[u] \in Results => webhook'[u] \in outcomes'[u]
    BY <1>0, ExecuteFacts DEF WebhookExecute, Produced, TasksTypeOK
  <2> QED
    BY <2>1, <2>2, <2>3, <2>4 DEF Produced
<1>5. ResultFromExecution'
  BY <1>0, ExecuteFacts DEF WebhookExecute, ResultFromExecution, taskHub
<1>6. Budget'
  <2>1. /\ poll' = poll /\ agent_tasks' = agent_tasks
        /\ webhook[t] = "sent" /\ webhook'[t] # "sent"
        /\ \A u \in Tasks \ {t} : webhook'[u] = webhook[u]
    BY DEF WebhookExecute, TasksTypeOK, taskHub, Results
  <2>2. late \in [Tasks -> 0 .. 3] /\ late' \in [Tasks -> 0 .. 3]
    BY <1>1 DEF TasksTypeOK, LateCap
  <2> QED
    BY <1>0, <2>1, <2>2, ExecuteFacts DEF Budget
<1> QED
  BY <1>1, <1>2, <1>3, <1>4, <1>5, <1>6
-----------------------------------------------------------------------------
(* The polling loop.                                                         *)

\* The loop goes to another batch, or to sleep, without touching anything else.
\* What it has to run afterwards it had to run before, or it is pending.
LEMMA LoopMoves ==
    ASSUME RunsInv, UNCHANGED <<taskHub, webhook, endpoint, history>>, TasksTypeOK', BatchOK',
           \A m \in posts' : m.status \in outcomes[m.task],
           poll'.at = "submit" => poll'.result \in outcomes[Head(poll'.batch)],
           \A t \in Tasks : ToRun(poll', t) => ToRun(poll, t) \/ agent_tasks[t] = "pending"
    PROVE  RunsInv'
<1> USE DEF RunsInv
<1>1. InsertedOnce'
  BY DEF InsertedOnce, taskHub, history
<1>2. Produced' /\ ResultFromExecution'
  BY DEF Produced, ResultFromExecution, taskHub, history
<1>3. Budget'
  <2>1. late \in [Tasks -> 0 .. 3] /\ late' = late
    BY DEF TasksTypeOK, LateCap, history
  <2> QED
    BY <2>1 DEF Budget, taskHub, Results
<1> QED
  BY <1>1, <1>2, <1>3

LEMMA PollSendInv ==
    ASSUME RunsInv, PollSend
    PROVE  RunsInv'
<1> USE DEF RunsInv
<1>1. /\ poll'.batch = poll.batch /\ poll'.at = "requested" /\ poll.at = "sleep"
      /\ poll'.result = poll.result
    BY DEF PollSend, TasksTypeOK
<1>2. TasksTypeOK'
  BY ZenonT(30) DEF PollSend, TasksTypeOK, taskHub, history
<1>3. BatchOK'
  BY <1>1 DEF BatchOK
<1>4. \A t \in Tasks : ToRun(poll', t) => ToRun(poll, t)
  BY <1>1 DEF ToRun
<1> QED
  BY <1>1, <1>2, <1>3, <1>4, LoopMoves DEF PollSend, Produced

LEMMA GetTasksInv ==
    ASSUME RunsInv, get_agent_tasks
    PROVE  RunsInv'
<1> USE DEF RunsInv
<1>1. PICK ts \in Rows : poll' = Batch(ts)
  BY DEF get_agent_tasks
<1>2. /\ ts \in Seq(Tasks)
      /\ \A i \in DOMAIN ts : agent_tasks[ts[i]] = "pending"
      /\ \A i, j \in DOMAIN ts : ts[i] = ts[j] => i = j
  BY RowsFacts
<1>3. /\ poll'.batch = ts /\ poll'.at = (IF ts = <<>> THEN "sleep" ELSE "batch")
      /\ poll' \in [at : {"sleep", "requested", "batch", "submit"},
                    batch : Seq(Tasks), result : {"none"} \cup Results]
  BY <1>1, <1>2, BatchFacts
<1>4. TasksTypeOK'
  BY <1>3 DEF get_agent_tasks, TasksTypeOK, taskHub, history
<1>5. BatchOK'
  BY <1>2, <1>3 DEF BatchOK
<1>6. \A t \in Tasks : ToRun(poll', t) => agent_tasks[t] = "pending"
  BY <1>2, <1>3 DEF ToRun
<1>7. posts' = posts /\ UNCHANGED <<taskHub, webhook, endpoint, history>>
  BY DEF get_agent_tasks
<1> QED
  BY <1>3, <1>4, <1>5, <1>6, <1>7, LoopMoves DEF Produced

LEMMA PollFailsInv ==
    ASSUME RunsInv, PollFails
    PROVE  RunsInv'
<1> USE DEF RunsInv
<1>1. poll' = Sleeping /\ posts' = posts /\ UNCHANGED <<taskHub, webhook, endpoint, history>>
  BY DEF PollFails
<1>2. TasksTypeOK'
  BY <1>1, SleepingFacts DEF PollFails, TasksTypeOK, taskHub, history
<1>3. BatchOK'
  BY <1>1, SleepingFacts DEF BatchOK
<1> QED
  BY <1>1, <1>2, <1>3, SleepingFacts, LoopMoves DEF Produced

LEMMA SubmitResultInv ==
    ASSUME RunsInv, submit_result
    PROVE  RunsInv'
<1> USE DEF RunsInv
<1> DEFINE h == Head(poll.batch)
<1>1. /\ poll.at = "submit" /\ poll.batch # <<>> /\ poll.batch \in Seq(Tasks)
      /\ poll.result \in Results /\ poll.result \in outcomes[h]
  BY DEF submit_result, BatchOK, Produced, TasksTypeOK
<1>2. h \in Tasks /\ Tail(poll.batch) \in Seq(Tasks)
  BY <1>1
<1>3. /\ poll'.batch = Tail(poll.batch)
      /\ poll'.at = (IF Tail(poll.batch) = <<>> THEN "sleep" ELSE "batch")
      /\ poll' \in [at : {"sleep", "requested", "batch", "submit"},
                    batch : Seq(Tasks), result : {"none"} \cup Results]
  BY <1>2, BatchFacts, ZenonT(30) DEF submit_result
<1>4. posts' = posts \cup {[task |-> h, status |-> poll.result]}
  BY DEF submit_result
<1>5. TasksTypeOK'
  <2>1. posts' \subseteq [task : Tasks, status : Results]
    BY <1>1, <1>2, <1>4 DEF TasksTypeOK
  <2> QED
    BY <1>3, <2>1 DEF submit_result, TasksTypeOK, taskHub, history
<1>6. \A i \in DOMAIN Tail(poll.batch) :
          /\ i + 1 \in DOMAIN poll.batch /\ i \in Nat /\ i + 1 # 1
          /\ Tail(poll.batch)[i] = poll.batch[i + 1]
  BY <1>1
<1>7. BatchOK'
  <2>1. ASSUME NEW i \in DOMAIN Tail(poll.batch), NEW j \in DOMAIN Tail(poll.batch),
               Tail(poll.batch)[i] = Tail(poll.batch)[j]
        PROVE  i = j
    <3>1. i + 1 = j + 1
      BY <1>6, <2>1 DEF BatchOK
    <3> QED
      BY <1>6, <3>1
  <2> QED
    BY <1>3, <2>1 DEF BatchOK
<1>8. \A t \in Tasks : ToRun(poll', t) => ToRun(poll, t)
  BY <1>3, <1>6 DEF ToRun
<1>9. \A m \in posts' : m.status \in outcomes[m.task]
  BY <1>1, <1>4 DEF Produced
<1>10. UNCHANGED <<taskHub, webhook, endpoint, history>>
  BY DEF submit_result
<1> QED
  BY <1>3, <1>5, <1>7, <1>8, <1>9, <1>10, LoopMoves, Zenon

LEMMA PollExecuteInv ==
    ASSUME RunsInv, NEW s \in Results, PollExecute(s)
    PROVE  RunsInv'
<1> USE DEF RunsInv
<1> DEFINE h == Head(poll.batch)
<1>0. /\ poll.at = "batch" /\ poll.batch # <<>> /\ poll.batch \in Seq(Tasks)
      /\ h \in Tasks /\ execute_task(h, s) /\ 1 \in DOMAIN poll.batch /\ h = poll.batch[1]
  <2>1. poll.at = "batch" /\ poll.batch # <<>> /\ poll.batch \in Seq(Tasks)
    BY DEF PollExecute, BatchOK, TasksTypeOK
  <2> QED
    BY <2>1 DEF PollExecute
<1>1. poll'.batch = poll.batch /\ poll'.at = "submit" /\ poll'.result = s
  BY DEF PollExecute, TasksTypeOK
<1>2. TasksTypeOK'
  BY <1>0, ExecuteFacts, ZenonT(30) DEF PollExecute, TasksTypeOK, taskHub
<1>3. BatchOK'
  BY <1>0, <1>1 DEF BatchOK
<1>4. \A t \in Tasks : ToRun(poll', t) => ToRun(poll, t) /\ t # h
  BY <1>0, <1>1 DEF ToRun, BatchOK
<1>5. ToRun(poll, h)
  BY <1>0 DEF ToRun
<1>6. UNCHANGED <<agent_tasks, requested, assign, webhook, posts>>
  BY DEF PollExecute, taskHub
<1>7. InsertedOnce'
  <2>1. assign[h] # "idle"
    BY <1>0, <1>5 DEF InsertedOnce
  <2>2. \A u \in Tasks \ {h} : outcomes'[u] = outcomes[u]
    BY <1>0, ExecuteFacts
  <2> QED
    BY <1>4, <1>6, <2>1, <2>2 DEF InsertedOnce
<1>8. Produced'
  <2>1. posts \subseteq [task : Tasks, status : Results]
    BY DEF TasksTypeOK
  <2>2. s \in outcomes'[h] /\ \A u \in Tasks : outcomes[u] \subseteq outcomes'[u]
    BY <1>0, ExecuteFacts
  <2> QED
    BY <1>1, <1>6, <2>1, <2>2 DEF Produced
<1>9. ResultFromExecution'
  BY <1>0, <1>6, ExecuteFacts DEF ResultFromExecution
<1>10. Budget'
  <2>1. late \in [Tasks -> 0 .. 3] /\ late' \in [Tasks -> 0 .. 3]
    BY <1>2 DEF TasksTypeOK, LateCap
  <2>2. /\ \A u \in Tasks \ {h} : late'[u] = late[u]
        /\ late'[h] <= late[h] + 1
        /\ agent_tasks[h] \notin Results => late'[h] = late[h]
    BY <1>0, ExecuteFacts
  <2>3. ~ToRun(poll', h)
    BY <1>0, <1>4
  <2>4. ASSUME NEW t \in Tasks
        PROVE  /\ agent_tasks[t] \notin Results => late'[t] = 0
               /\ late'[t] <= 2
               /\ webhook[t] = "sent" \/ ToRun(poll', t) => late'[t] <= 1
               /\ webhook[t] = "sent" /\ ToRun(poll', t) => late'[t] = 0
    <3>1. /\ agent_tasks[t] \notin Results => late[t] = 0
          /\ late[t] <= 2
          /\ webhook[t] = "sent" \/ ToRun(poll, t) => late[t] <= 1
          /\ webhook[t] = "sent" /\ ToRun(poll, t) => late[t] = 0
      BY Zenon DEF Budget
    <3>2. late[t] \in 0 .. 3 /\ late'[t] \in 0 .. 3
      BY <2>1
    <3>3. CASE t = h
      BY <1>5, <2>2, <2>3, <3>1, <3>2, <3>3
    <3>4. CASE t # h
      <4>1. late'[t] = late[t]
        BY <2>2, <3>4
      <4>2. ToRun(poll', t) => ToRun(poll, t)
        BY <1>4
      <4> QED
        BY <3>1, <4>1, <4>2
    <3> QED
      BY <3>3, <3>4
  <2> QED
    BY <1>6, <2>4, Zenon DEF Budget
<1> QED
  BY <1>2, <1>3, <1>7, <1>8, <1>9, <1>10
-----------------------------------------------------------------------------
(* The posts, the rotation and the life of the agent process.                *)

LEMMA PostLostInv ==
    ASSUME RunsInv, NEW m \in posts, PostLost(m)
    PROVE  RunsInv'
<1> USE DEF RunsInv
<1>1. TasksTypeOK'
  BY DEF PostLost, TasksTypeOK, taskHub, history
<1>2. BatchOK'
  BY DEF PostLost, BatchOK
<1>3. poll' = poll /\ posts' \subseteq posts /\ UNCHANGED <<taskHub, webhook, endpoint, history>>
  BY DEF PostLost
<1> QED
  BY <1>1, <1>2, <1>3, LoopMoves, Zenon DEF Produced

LEMMA SubmitTaskResultInv ==
    ASSUME RunsInv, NEW m \in posts, submit_task_result(m)
    PROVE  RunsInv'
<1> USE DEF RunsInv
<1>0. m.task \in Tasks /\ m.status \in Results /\ m.status \in outcomes[m.task]
  BY DEF TasksTypeOK, Produced
<1>1. TasksTypeOK'
  BY <1>0 DEF submit_task_result, TasksTypeOK, history
<1>2. BatchOK' /\ Produced'
  BY DEF submit_task_result, BatchOK, Produced, history
<1>3. InsertedOnce'
  <2>1. assign[m.task] # "idle"
    BY <1>0 DEF InsertedOnce
  <2> QED
    BY <1>0, <2>1 DEF submit_task_result, InsertedOnce, TasksTypeOK, history
<1>4. ResultFromExecution'
  BY <1>0 DEF submit_task_result, ResultFromExecution, TasksTypeOK, history
<1>5. Budget'
  BY <1>0 DEF submit_task_result, Budget, TasksTypeOK, history
<1> QED
  BY <1>1, <1>2, <1>3, <1>4, <1>5

\* A rotation and a restart touch the endpoint and the process only.
LEMMA EnvironmentInv ==
    ASSUME RunsInv, EndpointRotated \/ Restart
    PROVE  RunsInv'
<1> USE DEF RunsInv
<1>1. UNCHANGED <<taskHub, webhook, poll, posts, history>>
  BY DEF EndpointRotated, Restart
<1>2. TasksTypeOK'
  BY ZenonT(30) DEF EndpointRotated, Restart, TasksTypeOK, taskHub, history
<1>3. BatchOK' /\ InsertedOnce' /\ Produced' /\ ResultFromExecution' /\ Budget'
  BY <1>1 DEF BatchOK, InsertedOnce, Produced, ResultFromExecution, Budget, taskHub, history
<1> QED
  BY <1>2, <1>3

LEMMA CrashInv ==
    ASSUME RunsInv, PollerCrash
    PROVE  RunsInv'
<1> USE DEF RunsInv
<1>1. poll' = Sleeping /\ posts' = posts /\ UNCHANGED <<taskHub, webhook, endpoint, history>>
  BY DEF PollerCrash
<1>2. TasksTypeOK'
  <2>1. taskCrashes \in 0 .. MaxTaskCrashes /\ taskCrashes < MaxTaskCrashes /\ taskCrashes' = taskCrashes + 1
    BY ZenonT(30) DEF PollerCrash, TasksTypeOK
  <2>2. taskCrashes' \in 0 .. MaxTaskCrashes
    BY <2>1, TasksAssumption
  <2>3. up' \in BOOLEAN
    BY ZenonT(30) DEF PollerCrash
  <2> QED
    BY <1>1, <2>2, <2>3, SleepingFacts DEF TasksTypeOK, taskHub, history, PollerCrash
<1>3. BatchOK'
  BY <1>1, SleepingFacts DEF BatchOK
<1> QED
  BY <1>1, <1>2, <1>3, SleepingFacts, LoopMoves DEF Produced

-----------------------------------------------------------------------------
(* The theorems.                                                             *)

LEMMA InitRunsInv == TasksInit => RunsInv
<1> SUFFICES ASSUME TasksInit PROVE RunsInv
  OBVIOUS
<1>1. TasksTypeOK
  BY SleepingFacts, TasksAssumption DEF TasksInit, TasksTypeOK, LateCap
<1>2. BatchOK
  BY SleepingFacts DEF TasksInit, BatchOK
<1>3. InsertedOnce
  BY SleepingFacts DEF TasksInit, InsertedOnce, Range
<1>4. Produced /\ ResultFromExecution
  BY SleepingFacts DEF TasksInit, Produced, ResultFromExecution, Results
<1>5. Budget
  BY SleepingFacts DEF TasksInit, Budget
<1> QED
  BY <1>1, <1>2, <1>3, <1>4, <1>5 DEF RunsInv

LEMMA NextRunsInv == RunsInv /\ [TasksNext]_taskVars => RunsInv'
<1> SUFFICES ASSUME RunsInv, [TasksNext]_taskVars PROVE RunsInv'
  OBVIOUS
<1>1. CASE \E t \in Tasks :
              \/ \E url \in BOOLEAN : AssignInsert(t, url)
              \/ AssignUpdate(t) \/ AssignFallback(t) \/ WebhookLost(t)
              \/ \E s \in Results : WebhookExecute(t, s)
  BY <1>1, AssignInsertInv, AssignUpdateInv, AssignFallbackInv, WebhookLostInv,
     WebhookExecuteInv
<1>2. CASE PollSend \/ get_agent_tasks \/ PollFails \/ submit_result
  BY <1>2, PollSendInv, GetTasksInv, PollFailsInv, SubmitResultInv
<1>3. CASE \E s \in Results : PollExecute(s)
  BY <1>3, PollExecuteInv
<1>4. CASE \E m \in posts : PostLost(m) \/ submit_task_result(m)
  BY <1>4, PostLostInv, SubmitTaskResultInv
<1>5. CASE EndpointRotated \/ PollerCrash \/ Restart
  BY <1>5, EnvironmentInv, CrashInv
<1>6. CASE UNCHANGED taskVars
  BY <1>6, Zenon DEF RunsInv, TasksTypeOK, BatchOK, InsertedOnce, Produced, ResultFromExecution,
              Budget, taskVars
<1> QED
  BY <1>1, <1>2, <1>3, <1>4, <1>5, <1>6 DEF TasksNext

\* The inductive invariant: where a result may be found, and which executions
\* may still come.
THEOREM RunsInvariant == TasksSpec => []RunsInv
<1> QED
  BY InitRunsInv, NextRunsInv, PTL DEF TasksSpec

\* Whatever the hub, the webhook and the polling loop do in whatever order, a
\* result in agent_tasks was produced by an execution of that very task:
\* neither UPDATE, of assign_agent_task or of submit_task_result, writes a
\* result of another task or one that nothing produced.
THEOREM TaskResultsExecuted == TasksSpec => []ResultFromExecution
<1>1. RunsInv => ResultFromExecution
  BY DEF RunsInv
<1> QED
  BY <1>1, RunsInvariant, PTL

\* Although no path claims a task, a task with a result is executed at most
\* twice more: get_agent_tasks hands out pending tasks only, so only a batch
\* fetched before and a webhook call sent before can still run it.
THEOREM TaskLateRuns == TasksSpec => []LateRunsBounded
<1>1. RunsInv => LateRunsBounded
  BY DEF RunsInv, Budget, LateRunsBounded
<1> QED
  BY <1>1, RunsInvariant, PTL
=============================================================================
