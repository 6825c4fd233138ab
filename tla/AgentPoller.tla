----------------------------- MODULE AgentPoller -----------------------------
(***************************************************************************)
(* A workflow whose tasks are executed by agents that poll the database    *)
(* (orchestrator/agent_poller.go, ClaimReadyTasks of workflow_repo.go,     *)
(* runAgentDBPoll of cmd/akili/agent.go): the engine submits the workflow  *)
(* with its root task and starts no scheduler (ExternalAgents).  Every     *)
(* agent selects ready tasks, claims them with a conditional update and    *)
(* runs one goroutine for each; a planner's goroutine creates sub-tasks,   *)
(* and every goroutine ends by asking whether the workflow is over.        *)
(*                                                                         *)
(* Every statement is a step of its own, and rows are written as a whole   *)
(* (Save), from a copy that was read before.  The id of a task is its path *)
(* in the tree of planners, the root's being <<>>.                         *)
(***************************************************************************)
EXTENDS Naturals, Sequences, FiniteSets, FiniteSetsExt

CONSTANTS
  Agents,     \* agent processes
  RolesOf,    \* the roles each agent takes tasks of, {} for all of them
  Plans,      \* the plans of planners that ValidateDAG accepts, and <<>> for the others
  Slots,      \* MaxConcurrentTasks of an agent
  MaxTasks,   \* Workflow.MaxTasks
  MaxDepth,   \* Workflow.MaxDepth
  MaxFaults   \* bound: failed statements and stopped agents

VARIABLES
  wf,      \* the workflow row: its status and task_count
  tasks,   \* the task rows by id
  picked,  \* the ids an agent's poll has found ready and not claimed yet
  jobs,    \* the goroutines: <<agent, task>> -> where it is and what it holds
  up,      \* the agents that run
  raced,   \* a goroutine saw no work left while a planner was creating tasks
  faults   \* what has gone wrong so far

vars == <<wf, tasks, picked, jobs, up, raced, faults>>

Final == {"completed", "failed"}

\* runs counts the executions of the task.
NewTask(role, deps) == [role |-> role, status |-> "pending", deps |-> deps, runs |-> 0]

WithStatus(s) == {t \in DOMAIN tasks : tasks[t].status = s}

\* Engine.Submit with ExternalAgents returns once the rows are there.
Init ==
  /\ wf = [status |-> "running", taskCount |-> 1]
  /\ tasks = [t \in {<<>>} |-> NewTask("planner", {})]
  /\ picked = [a \in Agents |-> {}]
  /\ jobs = [j \in {} |-> 0]
  /\ up = Agents
  /\ raced = FALSE
  /\ faults = 0

\* A statement succeeds, or fails, which is one fault.
Statement(ok) == IF ok THEN UNCHANGED faults ELSE faults < MaxFaults /\ faults' = faults + 1

-----------------------------------------------------------------------------
(* Run and ClaimReadyTasks *)

JobsOf(a) == {j \in DOMAIN jobs : j[1] = a}
Available(a) == Slots - Cardinality(JobsOf(a))

Ready == {t \in WithStatus("pending") : tasks[t].deps \subseteq WithStatus("completed")}

\* Those of a role the agent takes.
ReadyFor(a) == {t \in Ready : RolesOf[a] = {} \/ tasks[t].role \in RolesOf[a]}

\* The poll: ready tasks of a running workflow, as many as there are slots.
SelectReady(a) ==
  /\ a \in up /\ picked[a] = {} /\ Available(a) > 0
  /\ wf.status = "running" /\ ReadyFor(a) # {}
  /\ \E ids \in kSubset(Min({Cardinality(ReadyFor(a)), Available(a)}), ReadyFor(a)) :
       picked' = [picked EXCEPT ![a] = ids]
  /\ UNCHANGED <<wf, tasks, jobs, up, raced, faults>>

Put(f, keys, value) == [k \in DOMAIN f \cup keys |-> IF k \in keys THEN value ELSE f[k]]

\* copy is the row a goroutine will write back, left what it has still to create.
NoCopy == [status |-> "none", taskCount |-> 0]
NewJob == [stage |-> "begin", copy |-> NoCopy, left |-> <<>>, cost |-> FALSE]

\* Mutant: the update does not ask for the status again.
ClaimUnconditionally(a, ok, loaded) ==
  /\ a \in up /\ picked[a] # {} /\ ok /\ loaded
  /\ picked' = [picked EXCEPT ![a] = {}]
  /\ tasks' = [t \in DOMAIN tasks |->
       IF t \in picked[a] THEN [tasks[t] EXCEPT !.status = "running"] ELSE tasks[t]]
  /\ jobs' = Put(jobs, {a} \X picked[a], NewJob)
  /\ UNCHANGED <<wf, up, raced, faults>>

\* The conditional update, and the query that reads back what it claimed.  When
\* that query fails the poll forgets the tasks, which stay claimed.
Claim(a, ok, loaded) ==
  /\ a \in up /\ picked[a] # {}
  /\ picked' = [picked EXCEPT ![a] = {}]
  /\ LET won == picked[a] \cap WithStatus("pending") IN
       /\ tasks' = [t \in DOMAIN tasks |->
            IF ok /\ t \in won THEN [tasks[t] EXCEPT !.status = "running"] ELSE tasks[t]]
       /\ jobs' = IF ok /\ loaded THEN Put(jobs, {a} \X won, NewJob) ELSE jobs
  /\ Statement(ok /\ loaded)
  /\ UNCHANGED <<wf, up, raced>>

\* The process stops, or its context ends: then every later statement of its
\* goroutines fails, which leaves the same rows.
Stop(a) ==
  /\ a \in up /\ up' = up \ {a}
  /\ picked' = [picked EXCEPT ![a] = {}]
  /\ jobs' = [j \in DOMAIN jobs \ JobsOf(a) |-> jobs[j]]
  /\ Statement(FALSE)
  /\ UNCHANGED <<wf, tasks, raced>>

Restart(a) ==
  /\ a \notin up /\ up' = up \cup {a}
  /\ UNCHANGED <<wf, tasks, picked, jobs, raced, faults>>

-----------------------------------------------------------------------------
(* executeTask of the poller, and the taskExecutor it calls *)

At(j, stage) == [jobs[j] EXCEPT !.stage = stage, !.copy = NoCopy, !.left = <<>>, !.cost = FALSE]
Goto(j, stage) == jobs' = [jobs EXCEPT ![j] = At(j, stage)]
End(j) == jobs' = [k \in DOMAIN jobs \ {j} |-> jobs[k]]
SetTask(t, s) == [tasks EXCEPT ![t].status = s]

\* GetWorkflow, then the task is marked as running once more.  Without a workflow
\* the goroutine ends; without the mark it goes on to maybeFinishWorkflow.
Begin(j, loaded, marked) ==
  /\ jobs[j].stage = "begin"
  /\ CASE ~loaded -> marked /\ End(j) /\ UNCHANGED tasks
       [] loaded /\ ~marked -> Goto(j, "latest") /\ UNCHANGED tasks
       [] OTHER -> /\ jobs' = [jobs EXCEPT ![j].stage = "running", ![j].copy = wf]
                   /\ tasks' = [tasks EXCEPT ![j[2]].status = "running", ![j[2]].runs = @ + 1]
  /\ Statement(loaded /\ marked)
  /\ UNCHANGED <<wf, picked, up, raced>>

\* The limits are asked of the copy read at the beginning.
PlanFits(j, plan) ==
  /\ tasks[j[2]].role = "planner" /\ plan # <<>>
  /\ jobs[j].copy.taskCount + Len(plan) <= MaxTasks
  /\ Len(j[2]) + 1 < MaxDepth

\* Only an answer that cost something is charged to the workflow.
AfterOutput(cost) == IF cost THEN "cost" ELSE "latest"

\* The agent answers and the task is completed; a planner's answer comes next.
AgentSucceeds(j, cost, plan, ok) ==
  /\ jobs[j].stage = "running"
  /\ tasks[j[2]].role # "planner" => plan = <<>>
  /\ tasks' = IF ok THEN SetTask(j[2], "completed") ELSE tasks
  /\ jobs' = [jobs EXCEPT ![j] =
       CASE ok /\ PlanFits(j, plan) ->
              [@ EXCEPT !.stage = "creating", !.left = plan, !.cost = cost,
                        !.copy.taskCount = @ + Len(plan)]
         [] OTHER -> At(j, IF ok THEN AfterOutput(cost) ELSE "latest")]
  /\ Statement(ok)
  /\ UNCHANGED <<wf, picked, up, raced>>

\* failTask: an error of the update is logged.
AgentFails(j, ok) ==
  /\ jobs[j].stage = "running"
  /\ tasks' = IF ok THEN SetTask(j[2], "failed") ELSE tasks
  /\ Goto(j, "latest")
  /\ Statement(ok)
  /\ UNCHANGED <<wf, picked, up, raced>>

\* failTask after TaskTimeout: the update is made with the expired context.
AgentTimesOut(j) ==
  /\ jobs[j].stage = "running"
  /\ Goto(j, "latest")
  /\ UNCHANGED <<wf, tasks, picked, up, raced, faults>>

Children(t) == {u \in DOMAIN tasks : Len(u) = Len(t) + 1 /\ SubSeq(u, 1, Len(t)) = t}

\* handlePlannerOutput: one sub-task, until one cannot be created or has a role
\* that does not exist.
CreateTask(j, ok) ==
  /\ jobs[j].stage = "creating" /\ jobs[j].left # <<>>
  /\ LET spec == Head(jobs[j].left)
         parent == j[2]
         id == Append(parent, Cardinality(Children(parent)) + 1) IN
       IF ok /\ spec.role # "unknown"
         THEN /\ tasks' = Put(tasks, {id},
                   NewTask(spec.role, {Append(parent, d) : d \in spec.deps}))
              /\ jobs' = [jobs EXCEPT ![j].left = Tail(@)]
         ELSE Goto(j, AfterOutput(jobs[j].cost)) /\ UNCHANGED tasks
  /\ Statement(ok)
  /\ UNCHANGED <<wf, picked, up, raced>>

\* Its last statement writes the workflow as it was when the task began.
SaveCount(j, ok) ==
  /\ jobs[j].stage = "creating" /\ jobs[j].left = <<>>
  /\ wf' = IF ok THEN jobs[j].copy ELSE wf
  /\ Goto(j, AfterOutput(jobs[j].cost))
  /\ Statement(ok)
  /\ UNCHANGED <<tasks, picked, up, raced>>

\* updateWorkflowCost: read the row, add the cost, write the row.  The sum is left
\* out, the status the row carries is not.
ReadCost(j, ok) ==
  /\ jobs[j].stage = "cost"
  /\ IF ok THEN jobs' = [jobs EXCEPT ![j].stage = "charge", ![j].copy = wf] ELSE Goto(j, "latest")
  /\ Statement(ok)
  /\ UNCHANGED <<wf, tasks, picked, up, raced>>

WriteCost(j, ok) ==
  /\ jobs[j].stage = "charge"
  /\ wf' = IF ok THEN jobs[j].copy ELSE wf
  /\ Goto(j, "latest")
  /\ Statement(ok)
  /\ UNCHANGED <<tasks, picked, up, raced>>

-----------------------------------------------------------------------------
(* maybeFinishWorkflow *)

LoadLatest(j, ok) ==
  /\ jobs[j].stage = "latest"
  /\ IF ok THEN jobs' = [jobs EXCEPT ![j].stage = "list", ![j].copy = wf] ELSE End(j)
  /\ Statement(ok)
  /\ UNCHANGED <<wf, tasks, picked, up, raced>>

\* Mutant: only running tasks count as work that is left.
InProgressRunning == WithStatus("running")

InProgress == WithStatus("pending") \cup WithStatus("running")

Outcome == IF WithStatus("failed") = {} THEN "completed" ELSE "failed"

Creating == {j \in DOMAIN jobs : jobs[j].stage = "creating"}

\* Mutant: a workflow with failed tasks is left as it is.
ListUnlessFailed(j, ok) ==
  /\ jobs[j].stage = "list" /\ ok
  /\ IF InProgress \cup WithStatus("failed") = {}
       THEN /\ jobs' = [jobs EXCEPT ![j].stage = "save", ![j].copy.status = Outcome]
            /\ raced' = (raced \/ Creating # {})
       ELSE End(j) /\ UNCHANGED raced
  /\ UNCHANGED <<wf, tasks, picked, up, faults>>

ListTasks(j, ok) ==
  /\ jobs[j].stage = "list"
  /\ IF ok /\ InProgress = {}
       THEN /\ jobs' = [jobs EXCEPT ![j].stage = "save", ![j].copy.status = Outcome]
            /\ raced' = (raced \/ Creating # {})
       ELSE End(j) /\ UNCHANGED raced
  /\ Statement(ok)
  /\ UNCHANGED <<wf, tasks, picked, up>>

finishWorkflow(j, ok) ==
  /\ jobs[j].stage = "save"
  /\ wf' = IF ok THEN jobs[j].copy ELSE wf
  /\ End(j)
  /\ Statement(ok)
  /\ UNCHANGED <<tasks, picked, up, raced>>

-----------------------------------------------------------------------------

Poll(a) == SelectReady(a) \/ \E ok, loaded \in BOOLEAN : Claim(a, ok, loaded)

Job(j) ==
  \/ \E loaded, marked \in BOOLEAN : Begin(j, loaded, marked)
  \/ \E cost \in BOOLEAN, plan \in Plans, ok \in BOOLEAN : AgentSucceeds(j, cost, plan, ok)
  \/ AgentTimesOut(j)
  \/ \E ok \in BOOLEAN :
       \/ AgentFails(j, ok) \/ CreateTask(j, ok) \/ SaveCount(j, ok)
       \/ ReadCost(j, ok) \/ WriteCost(j, ok)
       \/ LoadLatest(j, ok) \/ ListTasks(j, ok) \/ finishWorkflow(j, ok)

Next ==
  \/ \E a \in Agents : Poll(a) \/ Stop(a) \/ Restart(a)
  \/ \E j \in DOMAIN jobs : Job(j)

Spec == Init /\ [][Next]_vars

Progress(a) == Poll(a) \/ \E j \in JobsOf(a) : Job(j)

\* Tickers fire, statements return and every invocation ends by its timeout.  A
\* stopped agent need not be started again.
Fairness == \A a \in Agents : WF_vars(Progress(a))

FairSpec == Spec /\ Fairness

-----------------------------------------------------------------------------

\* The conditional update decides between agents that found the same task: no
\* task is executed twice, even when agents stop and come back.
ExecutedOnce == \A t \in DOMAIN tasks : tasks[t].runs <= 1

\* A workflow is ended with work left over only when an agent looked at its tasks
\* while a planner was creating them, or a statement failed.
EndedIsDone == wf.status \in Final /\ WithStatus("pending") # {} => raced \/ faults > 0

\* Nobody will ever execute t: something it waits for failed or was not created.
Blocked(t) == \E d \in tasks[t].deps : d \notin DOMAIN tasks \ WithStatus("failed")

\* A timeout is not recorded: the row stays running without a goroutine.
Abandoned(t) == tasks[t].status = "running" /\ \A j \in DOMAIN jobs : j[2] # t

\* No agent takes tasks of its role.
Unserved(t) == \A a \in Agents : RolesOf[a] # {} /\ tasks[t].role \notin RolesOf[a]

\* The workflow is over, or there is what keeps it from ending.
Ended ==
  \/ wf.status \in Final \/ faults > 0
  \/ \E t \in WithStatus("pending") : Unserved(t)
  \/ \E t \in WithStatus("pending") : Blocked(t)
  \/ \E t \in DOMAIN tasks : Abandoned(t)

\* The agents end a workflow between them, whichever writes last: unless a task
\* is blocked or abandoned, or of a role none of them takes, it does not stay running.
WorkflowEnds == <>[]Ended

Stale == wf.status = "running" /\ up # {} /\ \E t \in DOMAIN tasks : Abandoned(t)

\* "stale tasks are automatically reassigned": a task whose agent is gone does not
\* stay with it.
StaleReassigned == Stale ~> ~Stale

=============================================================================
