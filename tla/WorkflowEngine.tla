--------------------------- MODULE WorkflowEngine ---------------------------
(***************************************************************************)
(* The inline workflow engine of internal/orchestrator: Engine.Submit and  *)
(* Engine.Cancel, the scheduling loop (scheduler.run) of one workflow, the *)
(* goroutines that execute the tasks of a batch (taskExecutor), the        *)
(* planner that adds sub-tasks, and the recovery of failed tasks through a *)
(* diagnostician.                                                          *)
(*                                                                         *)
(* wf and tasks are the rows of the WorkflowStore; lwf is the *Workflow    *)
(* the scheduler holds in memory.  A task id is its position in tasks, in  *)
(* creation order.  Agents, and what they answer, are the environment.     *)
(***************************************************************************)
EXTENDS Naturals, Sequences, FiniteSets, FiniteSetsExt

CONSTANTS
  Plans,               \* what a planner may answer, <<>> being "not a plan"
  Costs,               \* what one agent invocation may cost
  MaxTasks,            \* Workflow.MaxTasks
  MaxDepth,            \* Workflow.MaxDepth
  BudgetLimit,         \* Workflow.BudgetLimitUSD
  Concurrency,         \* EngineConfig.MaxConcurrentTasks
  RecoveryEnabled,     \* EngineConfig.Recovery.Enabled
  AllowRetry,          \* EngineConfig.Recovery.AllowRetry
  MaxRetries,          \* EngineConfig.Recovery.MaxRetries
  RecoveryBudget,      \* BudgetLimit * EngineConfig.Recovery.RecoveryBudgetPct
  DiagnosticianFails,  \* may the agent of a diagnostician task return an error?
  Postgres,            \* TRUE: WorkflowRepository; FALSE: InMemoryStore
  MaxFaults            \* bound on the transient errors of the database

TaskSpec == [role : STRING, deps : SUBSET Nat, prio : Nat]

ASSUME EngineAssumption ==
  /\ Costs \subseteq Nat
  /\ \A plan \in Plans : plan \in Seq(TaskSpec)
  /\ MaxTasks \in Nat \ {0}
  /\ MaxDepth \in Nat \ {0}
  /\ BudgetLimit \in Nat \ {0}
  /\ Concurrency \in Nat \ {0}
  /\ MaxRetries \in Nat \ {0}
  /\ RecoveryBudget \in Nat \ {0}
  /\ MaxFaults \in Nat
  /\ {RecoveryEnabled, AllowRetry, DiagnosticianFails, Postgres} \subseteq BOOLEAN

VARIABLES
  wf,         \* the stored workflow row
  tasks,      \* the stored task rows
  lwf,        \* the scheduler's copy of the workflow
  pc,         \* where Submit, then the scheduling loop, has got to
  exec,       \* the goroutines of the current batch: task id -> stage
  todo,       \* failed tasks the recovery pass has still to look at
  cur,        \* the task being moved to recovery, or 0
  attempted,  \* recoveryAttempted
  ctxDone,    \* is the workflow's context cancelled?
  faults      \* transient database errors that may still happen

vars == <<wf, tasks, lwf, pc, exec, todo, cur, attempted, ctxDone, faults>>
recoveryVars == <<todo, cur, attempted>>

-----------------------------------------------------------------------------
(* Types *)

\* researcher, compliance and orchestrator tasks run as executor tasks do.
Roles == {"planner", "executor", "diagnostician"}

TaskStatus == {"pending", "running", "completed", "failed", "recovering", "skipped"}

Task == [role : Roles, status : TaskStatus, deps : SUBSET Nat, depth : Nat,
         prio : Nat, retry : Nat, orig : Nat, cost : Nat]

Terminal == {"completed", "failed", "cancelled"}

Workflow == [status : {"none", "pending", "running"} \cup Terminal,
             taskCount : Nat, spent : Nat]

NoWorkflow == [status |-> "none", taskCount |-> 0, spent |-> 0]

\* The scheduler goroutine exists, and Engine.cancels holds its cancel function.
Active == {"top", "recover", "diag", "collect", "overbudget"}

-----------------------------------------------------------------------------
(* The store and its queries *)

WithStatus(s) == {t \in DOMAIN tasks : tasks[t].status = s}

\* Mutant: a dependency may have failed.
ReadyAfterFailure ==
  {t \in WithStatus("pending") :
     \A d \in tasks[t].deps : d \in WithStatus("completed") \cup WithStatus("failed")}

\* GetReadyTasks: pending, every dependency completed.
Ready ==
  {t \in WithStatus("pending") :
     \A d \in tasks[t].deps : d \in WithStatus("completed")}

\* A store call with the workflow's context: InMemoryStore ignores the context
\* and never fails, the database fails once it is cancelled and may fail before.
\* One fault is an outage: it may last for the calls that follow in a handler.
Call(ok) ==
  IF ok THEN ~(Postgres /\ ctxDone) /\ UNCHANGED faults
        ELSE /\ Postgres
             /\ \/ ctxDone /\ UNCHANGED faults
                \/ ~ctxDone /\ faults > 0 /\ faults' = faults - 1

NewTask(role, deps, depth, prio, orig) ==
  [role |-> role, status |-> "pending", deps |-> deps, depth |-> depth,
   prio |-> prio, retry |-> 0, orig |-> orig, cost |-> 0]

SetStatus(t, s) == [tasks EXCEPT ![t].status = s]

-----------------------------------------------------------------------------
(* Engine.Submit and Engine.Cancel *)

Init ==
  /\ wf = NoWorkflow
  /\ tasks = <<>>
  /\ lwf = NoWorkflow
  /\ pc = "none"
  /\ exec = <<>>
  /\ todo = {} /\ cur = 0 /\ attempted = FALSE
  /\ ctxDone = FALSE
  /\ faults = MaxFaults

CreateWorkflow ==
  /\ pc = "none"
  /\ lwf' = [lwf EXCEPT !.status = "pending"]
  /\ \E ok \in BOOLEAN :
       /\ Call(ok)
       /\ wf' = IF ok THEN lwf' ELSE wf
       /\ pc' = IF ok THEN "created" ELSE "refused"
  /\ UNCHANGED <<tasks, exec, recoveryVars, ctxDone>>

CreateRootTask ==
  /\ pc = "created"
  /\ \E ok \in BOOLEAN :
       /\ Call(ok)
       /\ tasks' = IF ok THEN <<NewTask("planner", {}, 0, 0, 0)>> ELSE tasks
       /\ pc' = IF ok THEN "rooted" ELSE "refused"
  /\ UNCHANGED <<wf, lwf, exec, recoveryVars, ctxDone>>

\* The row becomes running and the scheduling goroutine starts.
StartWorkflow ==
  /\ pc = "rooted"
  /\ lwf' = [lwf EXCEPT !.status = "running", !.taskCount = 1]
  /\ \E ok \in BOOLEAN :
       /\ Call(ok)
       /\ wf' = IF ok THEN lwf' ELSE wf
       /\ pc' = IF ok THEN "top" ELSE "refused"
  /\ UNCHANGED <<tasks, exec, recoveryVars, ctxDone>>

Cancel ==
  /\ pc \in Active
  /\ ~ctxDone
  /\ ctxDone' = TRUE
  /\ UNCHANGED <<wf, tasks, lwf, pc, exec, recoveryVars, faults>>

\* The context Submit was called with, the parent of the workflow's, ends.
CallerDone ==
  /\ pc \in {"created", "rooted"} \cup Active
  /\ ~ctxDone
  /\ ctxDone' = TRUE
  /\ UNCHANGED <<wf, tasks, lwf, pc, exec, recoveryVars, faults>>

-----------------------------------------------------------------------------
(* scheduler.run: the top of the loop *)

\* Mutant: failures are not looked at.
FinishCompleted(status) ==
  /\ lwf' = [lwf EXCEPT !.status = "completed"]
  /\ \E ok \in BOOLEAN : Call(ok) /\ wf' = IF ok THEN lwf' ELSE wf
  /\ pc' = "returned"

finishWorkflow(status) ==
  /\ lwf' = [lwf EXCEPT !.status = status]
  /\ \E ok \in BOOLEAN : Call(ok) /\ wf' = IF ok THEN lwf' ELSE wf
  /\ pc' = "returned"

\* Every write of cancelWorkflow uses the cancelled context.
CancelWorkflow ==
  /\ pc = "top" /\ ctxDone
  /\ lwf' = [lwf EXCEPT !.status = "cancelled"]
  /\ IF Postgres
       THEN UNCHANGED <<wf, tasks>>
       ELSE /\ tasks' = [t \in DOMAIN tasks |->
                           IF tasks[t].status = "pending"
                             THEN [tasks[t] EXCEPT !.status = "skipped"]
                             ELSE tasks[t]]
            /\ wf' = lwf'
  /\ pc' = "returned"
  /\ UNCHANGED <<exec, recoveryVars, ctxDone, faults>>

\* GetReadyTasks or ListTasksByWorkflow fails: run returns, nothing is written.
\* (The context may have ended since the loop looked at it.)
SchedulerError ==
  /\ pc = "top"
  /\ Call(FALSE)
  /\ pc' = "returned"
  /\ UNCHANGED <<wf, tasks, lwf, exec, recoveryVars, ctxDone>>

\* Mutant: running tasks are not waited for.
IdleIgnoresRunning == Ready = {} /\ WithStatus("recovering") = {}

Idle ==
  /\ Ready = {}
  /\ WithStatus("running") = {}
  /\ WithStatus("recovering") = {}

\* With neither a ready task nor Idle, the loop sleeps and looks again: no step.
FinishIdle ==
  /\ pc = "top" /\ ~ctxDone
  /\ Idle
  /\ WithStatus("failed") = {} \/ ~RecoveryEnabled
  /\ finishWorkflow(IF WithStatus("failed") = {} THEN "completed" ELSE "failed")
  /\ UNCHANGED <<tasks, exec, recoveryVars, ctxDone>>

\* Lower prio first; the database returns the ready tasks in no order.
Dispatch ==
  /\ pc = "top" /\ ~ctxDone
  /\ \E batch \in SUBSET Ready :
       /\ batch # {}
       /\ Cardinality(batch) =
            Min({Cardinality(Ready), Concurrency - Cardinality(WithStatus("running"))})
       /\ ~Postgres => \A b \in batch, r \in Ready \ batch : tasks[b].prio <= tasks[r].prio
       /\ exec' = [t \in batch |-> "start"]
  /\ pc' = "collect"
  /\ UNCHANGED <<wf, tasks, lwf, recoveryVars, ctxDone, faults>>

-----------------------------------------------------------------------------
(* taskExecutor: one goroutine per task of the batch *)

Stage(t, s) == exec' = [exec EXCEPT ![t] = s]

MarkRunning(t) ==
  /\ exec[t] = "start"
  /\ \E ok \in BOOLEAN :
       /\ Call(ok)
       /\ tasks' = IF ok THEN SetStatus(t, "running") ELSE tasks
       /\ Stage(t, IF ok THEN "running" ELSE "err")
  /\ UNCHANGED <<wf, lwf, pc, recoveryVars, ctxDone>>

AgentSucceeds(t) ==
  /\ exec[t] = "running"
  /\ \E cost \in Costs, ok \in BOOLEAN :
       /\ Call(ok)
       /\ tasks' = IF ok THEN [tasks EXCEPT ![t].status = "completed", ![t].cost = cost]
                         ELSE tasks
       /\ Stage(t, IF ok THEN "ok" ELSE "err")
  /\ UNCHANGED <<wf, lwf, pc, recoveryVars, ctxDone>>

\* failTask, after an error of the agent.
AgentFails(t) ==
  /\ exec[t] = "running"
  /\ tasks[t].role = "diagnostician" => DiagnosticianFails
  /\ \E ok \in BOOLEAN :
       /\ Call(ok)
       /\ tasks' = IF ok THEN SetStatus(t, "failed") ELSE tasks
  /\ Stage(t, "err")
  /\ UNCHANGED <<wf, lwf, pc, recoveryVars, ctxDone>>

\* failTask, after the task's own timeout: its context is the expired one.
AgentTimesOut(t) ==
  /\ exec[t] = "running"
  /\ tasks[t].role = "diagnostician" => DiagnosticianFails
  /\ tasks' = IF Postgres THEN tasks ELSE SetStatus(t, "failed")
  /\ Stage(t, "err")
  /\ UNCHANGED <<wf, lwf, pc, recoveryVars, ctxDone, faults>>

-----------------------------------------------------------------------------
(* scheduler.run: collecting the results of the batch *)

Collected(t) == exec' = [u \in DOMAIN exec \ {t} |-> exec[u]]

CollectError(t) ==
  /\ exec[t] = "err"
  /\ Collected(t)
  /\ UNCHANGED <<wf, tasks, lwf, pc, recoveryVars, ctxDone, faults>>

CollectResult(t) ==
  /\ exec[t] = "ok" /\ tasks[t].role = "executor"
  /\ Collected(t)
  /\ lwf' = [lwf EXCEPT !.spent = @ + tasks[t].cost]
  /\ UNCHANGED <<wf, tasks, pc, recoveryVars, ctxDone, faults>>

\* In range, no self-dependency, no cycle: every set of tasks has a first one.
ValidateDAG(plan) ==
  /\ \A i \in DOMAIN plan : plan[i].deps \subseteq DOMAIN plan \ {i}
  /\ \A S \in SUBSET DOMAIN plan :
       S # {} => \E i \in S : plan[i].deps \cap S = {}

\* The id of sub-task d when the first created ones exist: 0 stands for the id
\* of a sub-task that was never created.
IdOf(d, created) == IF d <= created THEN Len(tasks) + d ELSE 0

ResolveDependencies(deps, created) == {IdOf(d, created) : d \in deps}

SubTask(plan, i, parent, created) ==
  NewTask(plan[i].role, ResolveDependencies(plan[i].deps, created),
          tasks[parent].depth + 1, plan[i].prio, 0)

\* How many sub-tasks may be created, in order: none with an unknown role.
Creatable(plan) ==
  {n \in 0 .. Len(plan) : \A i \in 1 .. n : plan[i].role \in Roles}

\* Mutant: the depth limit is off by one.
PlanFitsDeeper(t, plan) ==
  lwf.taskCount + Len(plan) <= MaxTasks /\ tasks[t].depth < MaxDepth

PlanFits(t, plan) ==
  lwf.taskCount + Len(plan) <= MaxTasks /\ tasks[t].depth + 1 < MaxDepth

\* Sub-tasks are created up to the first unknown role, or to a call that fails;
\* TaskCount grows only when all of the plan was created.
handlePlannerOutput(t, plan) ==
  IF plan # <<>> /\ ValidateDAG(plan) /\ PlanFits(t, plan)
    THEN \E created \in Creatable(plan), ok \in BOOLEAN :
           /\ Call(ok)
           /\ ok => \A n \in Creatable(plan) : n <= created
           /\ tasks' = tasks \o [i \in 1 .. created |-> SubTask(plan, i, t, created)]
           /\ LET counted == IF created = Len(plan)
                               THEN [lwf EXCEPT !.taskCount = @ + created] ELSE lwf
              IN /\ wf' = IF ok /\ created = Len(plan) THEN counted ELSE wf
                 /\ lwf' = [counted EXCEPT !.spent = @ + tasks[t].cost]
    ELSE /\ lwf' = [lwf EXCEPT !.spent = @ + tasks[t].cost]
         /\ UNCHANGED <<wf, tasks, faults>>

CollectPlan(t) ==
  /\ exec[t] = "ok" /\ tasks[t].role = "planner"
  /\ Collected(t)
  /\ \E plan \in Plans : handlePlannerOutput(t, plan)
  /\ UNCHANGED <<pc, recoveryVars, ctxDone>>

Decisions == {"retry", "escalate", "skip", "unparsable"}

\* parseRecoveryDecision: a retry the diagnostician is not sure of is escalated.
parseRecoveryDecision(action, confident) ==
  IF action = "retry" /\ ~confident THEN "escalate" ELSE action

\* Mutant: an answer that is not a decision changes nothing.
DecidedUnlessUnparsable(task, decision) ==
  CASE decision = "retry" /\ AllowRetry ->
         [task EXCEPT !.status = "pending", !.retry = @ + 1]
    [] decision = "skip" -> [task EXCEPT !.status = "skipped"]
    [] decision = "unparsable" -> task
    [] OTHER -> [task EXCEPT !.status = "failed"]

\* The original task after the decision: retryTask, escalate, skip, recoveryFailed.
Decided(task, decision) ==
  CASE decision = "retry" /\ AllowRetry ->
         [task EXCEPT !.status = "pending", !.retry = @ + 1]
    [] decision = "skip" -> [task EXCEPT !.status = "skipped"]
    [] OTHER -> [task EXCEPT !.status = "failed"]

CollectDecision(t) ==
  /\ exec[t] = "ok" /\ tasks[t].role = "diagnostician"
  /\ Collected(t)
  /\ IF tasks[t].orig = 0
       THEN UNCHANGED <<tasks, faults>>
       ELSE \E action \in Decisions, confident, ok \in BOOLEAN :
              /\ Call(ok)
              /\ tasks' = IF ok THEN [tasks EXCEPT ![tasks[t].orig] =
                                        Decided(@, parseRecoveryDecision(action, confident))]
                                ELSE tasks
  /\ lwf' = [lwf EXCEPT !.spent = @ + tasks[t].cost]
  /\ UNCHANGED <<wf, pc, recoveryVars, ctxDone>>

\* Mutant: the batch is not waited for.
RefreshEarly ==
  /\ pc = "collect"
  /\ \E ok \in BOOLEAN : Call(ok) /\ lwf' = IF ok THEN wf ELSE lwf
  /\ pc' = IF lwf'.spent > BudgetLimit THEN "overbudget" ELSE "top"
  /\ UNCHANGED <<wf, tasks, exec, recoveryVars, ctxDone>>

\* The batch is over: reload the workflow, then check the budget.
Refresh ==
  /\ pc = "collect" /\ DOMAIN exec = {}
  /\ \E ok \in BOOLEAN : Call(ok) /\ lwf' = IF ok THEN wf ELSE lwf
  /\ pc' = IF lwf'.spent > BudgetLimit THEN "overbudget" ELSE "top"
  /\ UNCHANGED <<wf, tasks, exec, recoveryVars, ctxDone>>

FinishOverBudget ==
  /\ pc = "overbudget"
  /\ finishWorkflow("failed")
  /\ UNCHANGED <<tasks, exec, recoveryVars, ctxDone>>

-----------------------------------------------------------------------------
(* Recovery of failed tasks, when nothing else is left to do *)

BeginRecovery ==
  /\ pc = "top" /\ ~ctxDone
  /\ Idle
  /\ WithStatus("failed") # {} /\ RecoveryEnabled
  /\ pc' = "recover"
  /\ todo' = WithStatus("failed")
  /\ attempted' = FALSE
  /\ UNCHANGED <<wf, tasks, lwf, exec, cur, ctxDone, faults>>

\* What the diagnosticians have cost, or nothing when the tasks cannot be listed.
recoverySpent(listed) ==
  IF listed THEN MapThenSumSet(LAMBDA t : tasks[t].cost,
                               {t \in DOMAIN tasks : tasks[t].role = "diagnostician"})
            ELSE 0

\* Mutant: one retry too many.
shouldAttemptOnceMore(t, listed) ==
  /\ tasks[t].retry <= MaxRetries
  /\ recoverySpent(listed) < RecoveryBudget
  /\ tasks[t].depth + 1 < MaxDepth
  /\ lwf.taskCount + 1 <= MaxTasks

shouldAttemptRecovery(t, listed) ==
  /\ tasks[t].retry < MaxRetries
  /\ recoverySpent(listed) < RecoveryBudget
  /\ tasks[t].depth + 1 < MaxDepth
  /\ lwf.taskCount + 1 <= MaxTasks

SkipRecovery(t) ==
  /\ pc = "recover" /\ t \in todo
  /\ \E listed \in BOOLEAN : Call(listed) /\ ~shouldAttemptRecovery(t, listed)
  /\ todo' = todo \ {t}
  /\ UNCHANGED <<wf, tasks, lwf, pc, exec, cur, attempted, ctxDone>>

\* initiateRecovery, first write: the failed task becomes recovering.
MarkRecovering(t) ==
  /\ pc = "recover" /\ t \in todo
  /\ todo' = todo \ {t}
  /\ \E listed, ok \in BOOLEAN :
       /\ shouldAttemptRecovery(t, listed)
       /\ Call(listed /\ ok) /\ (ok => ~(Postgres /\ ctxDone))
       /\ tasks' = IF ok THEN SetStatus(t, "recovering") ELSE tasks
       /\ pc' = IF ok THEN "diag" ELSE pc
       /\ cur' = IF ok THEN t ELSE cur
  /\ UNCHANGED <<wf, lwf, exec, attempted, ctxDone>>

\* initiateRecovery, the other writes.  A failed CreateTask reverts the status
\* when that write succeeds; an error of UpdateWorkflow is ignored.
CreateDiagnostician ==
  /\ pc = "diag"
  /\ \E created, saved \in BOOLEAN :
       /\ saved => created
       /\ Call(created /\ saved)
       /\ IF created
            THEN /\ tasks' = Append(tasks, NewTask("diagnostician", {},
                                                   tasks[cur].depth + 1, 0, cur))
                 /\ lwf' = [lwf EXCEPT !.taskCount = @ + 1]
                 /\ wf' = IF saved THEN lwf' ELSE wf
                 /\ attempted' = TRUE
            ELSE /\ tasks' \in {tasks} \cup (IF ctxDone THEN {} ELSE {SetStatus(cur, "failed")})
                 /\ UNCHANGED <<wf, lwf, attempted>>
  /\ pc' = "recover"
  /\ cur' = 0
  /\ UNCHANGED <<exec, todo, ctxDone>>

\* Mutant: the loop continues whether or not a recovery was initiated.
EndRecoveryLoops ==
  /\ pc = "recover" /\ todo = {}
  /\ pc' = "top"
  /\ UNCHANGED <<wf, tasks, lwf, exec, recoveryVars, ctxDone, faults>>

EndRecovery ==
  /\ pc = "recover" /\ todo = {}
  /\ IF attempted THEN pc' = "top" /\ UNCHANGED <<wf, lwf, faults>>
                  ELSE finishWorkflow("failed")
  /\ UNCHANGED <<tasks, exec, recoveryVars, ctxDone>>

-----------------------------------------------------------------------------

Submit == CreateWorkflow \/ CreateRootTask \/ StartWorkflow

Execute(t) ==
  MarkRunning(t) \/ AgentSucceeds(t) \/ AgentFails(t) \/ AgentTimesOut(t)

Collect(t) ==
  CollectError(t) \/ CollectResult(t) \/ CollectPlan(t) \/ CollectDecision(t)

Recover ==
  \/ BeginRecovery
  \/ \E t \in todo : SkipRecovery(t) \/ MarkRecovering(t)
  \/ CreateDiagnostician
  \/ EndRecovery

\* The steps of the engine's own goroutines.
Progress ==
  \/ Submit
  \/ CancelWorkflow \/ FinishIdle \/ Dispatch
  \/ \E t \in DOMAIN exec : Execute(t) \/ Collect(t)
  \/ Refresh \/ FinishOverBudget
  \/ Recover

Next == Progress \/ SchedulerError \/ Cancel \/ CallerDone

Spec == Init /\ [][Next]_vars

\* The Go scheduler runs every goroutine that can run, and an agent answers or
\* times out.
FairSpec == Spec /\ WF_vars(Progress)

-----------------------------------------------------------------------------
(* Properties *)

TypeOK ==
  /\ wf \in Workflow /\ lwf \in Workflow
  /\ tasks \in Seq(Task)
  /\ pc \in {"none", "created", "rooted", "refused", "returned"} \cup Active
  /\ DOMAIN exec \subseteq DOMAIN tasks
  /\ \A t \in DOMAIN exec : exec[t] \in {"start", "running", "ok", "err"}
  /\ todo \subseteq DOMAIN tasks
  /\ cur \in 0 .. Len(tasks)
  /\ attempted \in BOOLEAN /\ ctxDone \in BOOLEAN
  /\ faults \in 0 .. MaxFaults

\* GetReadyTasks is asked before the dispatch and the agent runs after it, while
\* planners, diagnosticians and retries rewrite other rows: a task that has been
\* started has nevertheless all its dependencies completed, now and later.
DependencyOrder ==
  \A t \in DOMAIN tasks :
    tasks[t].status \in {"running", "completed", "failed", "recovering"} =>
      tasks[t].deps \subseteq WithStatus("completed")

\* The counted tasks, the nesting of planners and diagnosticians and the retries
\* of a task stay within their limits, although each limit is checked several
\* steps before the write that must not exceed it.
LimitsRespected ==
  /\ wf.taskCount <= MaxTasks
  /\ \A t \in DOMAIN tasks : tasks[t].depth < MaxDepth /\ tasks[t].retry <= MaxRetries

\* At most MaxConcurrentTasks tasks are running, counting those whose end could
\* not be recorded, which never leave that status.
ConcurrencyBounded == Cardinality(WithStatus("running")) <= Concurrency

\* A workflow is reported completed only when each of its tasks is, unless a
\* diagnostician decided to skip one or a plan was created in part: the loop
\* takes no plan that cannot be carried out, and stops only when all is done.
CompletedMeansDone ==
  /\ wf.status = "completed"
  /\ WithStatus("skipped") = {}
  /\ \A t \in DOMAIN tasks : 0 \notin tasks[t].deps
  => WithStatus("completed") = DOMAIN tasks

\* Once finishWorkflow or cancelWorkflow has stored a terminal status, no
\* goroutine of the workflow writes its rows any more.
FinalIsFinal == [][wf.status \in Terminal => UNCHANGED <<wf, tasks>>]_vars

\* When the loop looks for work no row says running: run waits for its whole
\* batch, and every goroutine of it has recorded how its task ended (failTask).
BatchIsOver == pc = "top" => WithStatus("running") = {}

\* While the scheduler runs, a recovering task has exactly one diagnostician at
\* work (or about to be created), and a diagnostician at work has a recovering
\* task: initiateRecovery and handleDiagnosticianOutput keep the two rows in step.
AtWork(d) ==
  /\ tasks[d].role = "diagnostician"
  /\ tasks[d].status \in {"pending", "running"} \/ d \in DOMAIN exec

RecoveringIsDiagnosed ==
  pc \in Active =>
  /\ \A t \in WithStatus("recovering") :
       t # cur => \E d \in DOMAIN tasks :
         /\ AtWork(d) /\ tasks[d].orig = t
         /\ \A e \in DOMAIN tasks : AtWork(e) /\ tasks[e].orig = t => e = d
  /\ \A d \in DOMAIN tasks :
       AtWork(d) /\ tasks[d].orig # 0 => tasks[d].orig \in WithStatus("recovering")

\* The loop ends: a workflow that runs is eventually completed, failed or
\* cancelled, whatever its planners answer and its agents do.
Terminates == wf.status = "running" ~> wf.status \in Terminal

\* The engine implements the life cycle of workflows and tasks.
Lifecycle ==
  INSTANCE WorkflowLifecycle WITH
    status <- wf.status,
    board <- [t \in DOMAIN tasks |-> [status |-> tasks[t].status, deps |-> tasks[t].deps]]

LifecycleSpec == Lifecycle!Spec

-----------------------------------------------------------------------------
(* What comments and documents of the repository say, and the code does not *)

\* An escalated task is failed for good ("recovery gave up"): a task is
\* diagnosed once, and once more after each retry.
RecoveryGivesUp ==
  \A t \in DOMAIN tasks :
    Cardinality({d \in DOMAIN tasks : tasks[d].orig = t}) <= tasks[t].retry + 1

\* TaskSkipped: "Skipped due to upstream failure."  No task of a finished
\* workflow is still pending.
NoTaskLeftPending == wf.status \in Terminal => WithStatus("pending") = {}

\* The loop runs "until all tasks complete or an error occurs": a workflow that
\* is reported completed has no task that never ran.
CompletedLeavesNothing == wf.status = "completed" => WithStatus("pending") = {}

\* Workflow.MaxTasks: "Max total tasks."
TotalTasksBounded == Len(tasks) <= MaxTasks

\* "Each workflow has its own budget limit": no batch is started once the
\* completed tasks have cost more than the limit.
BudgetEnforced ==
  pc = "top" => MapThenSumSet(LAMBDA t : tasks[t].cost, DOMAIN tasks) <= BudgetLimit

=============================================================================
