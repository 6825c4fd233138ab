------------------------ MODULE WorkflowEngineSteps -------------------------
(***************************************************************************)
(* The inductive invariant of the workflow engine, and that it is kept by  *)
(* submission, by the loop of the scheduler and by the goroutines of a     *)
(* batch.  WorkflowEngineProofs has the steps of recovery, cancellation    *)
(* and planning, and the theorems.                                         *)
(***************************************************************************)
EXTENDS WorkflowEngine, TLAPS

(* The inductive invariant *)

\* The goroutines of a batch exist only while run collects their results, and a
\* terminal status is the last thing run writes.
PhaseInv ==
  /\ pc # "collect" => DOMAIN exec = {}
  /\ pc \in Active => wf.status = "running" /\ lwf.status = "running"
  /\ pc \in {"none", "created"} => tasks = <<>>
  /\ pc = "none" => wf.status = "none"
  /\ pc \in {"created", "rooted"} => wf.status = "pending"
  /\ pc = "rooted" => tasks = <<NewTask("planner", {}, 0, 0, 0)>>
  /\ wf.status \in Terminal => pc = "returned"

\* A goroutine has the only right to its task: its stage tells the stored status.
StageInv ==
  \A t \in DOMAIN exec :
    /\ exec[t] = "start" => tasks[t].status = "pending"
                            /\ tasks[t].deps \subseteq WithStatus("completed")
    /\ exec[t] = "running" => tasks[t].status = "running"
    /\ exec[t] = "ok" => tasks[t].status = "completed"

\* What shouldAttemptRecovery has checked still holds when the rows are written.
LimitsInv ==
  /\ wf.taskCount <= MaxTasks /\ lwf.taskCount <= MaxTasks
  /\ \A t \in DOMAIN tasks :
       /\ tasks[t].depth < MaxDepth /\ tasks[t].retry <= MaxRetries
       /\ tasks[t].status = "recovering" => tasks[t].retry < MaxRetries
  /\ pc = "diag" => /\ cur \in WithStatus("recovering")
                    /\ tasks[cur].depth + 1 < MaxDepth
                    /\ lwf.taskCount + 1 <= MaxTasks
  /\ pc \in {"recover", "diag"} => todo \subseteq WithStatus("failed")

\* A diagnostician of another task whose decision is not yet applied.
Open(d) ==
  tasks[d].orig # 0 /\ (tasks[d].status # "completed" \/ d \in DOMAIN exec)

\* A task under diagnosis has at most one diagnostician and is not one itself,
\* and its status is left to that diagnostician.
DiagnosisInv ==
  /\ \A d \in DOMAIN tasks :
       tasks[d].orig # 0 => tasks[d].orig \in DOMAIN tasks /\ tasks[d].role = "diagnostician"
  /\ pc \in Active =>
       /\ \A d \in DOMAIN tasks : Open(d) => tasks[tasks[d].orig].status = "recovering"
       /\ \A d, e \in DOMAIN tasks :
            Open(d) /\ Open(e) /\ tasks[d].orig = tasks[e].orig => d = e
       /\ \A t \in WithStatus("recovering") : tasks[t].orig = 0
  /\ pc \in {"recover", "diag"} => \A t \in todo : tasks[t].orig = 0
  /\ pc = "diag" => \A d \in DOMAIN tasks : Open(d) => tasks[d].orig # cur

\* Dependencies are tasks of the workflow (0: never created) and have no cycle.
GraphInv ==
  /\ \A t \in DOMAIN tasks : tasks[t].deps \subseteq DOMAIN tasks \cup {0}
  /\ \A S \in SUBSET DOMAIN tasks : S # {} => \E t \in S : tasks[t].deps \cap S = {}

EngineInv ==
  /\ TypeOK
  /\ PhaseInv
  /\ StageInv
  /\ LimitsInv
  /\ DiagnosisInv
  /\ DependencyOrder
  /\ GraphInv
  /\ CompletedMeansDone

-----------------------------------------------------------------------------
(* The rows *)

LEMMA ConstantTypes ==
  /\ MaxTasks \in Nat \ {0} /\ MaxDepth \in Nat \ {0} /\ MaxRetries \in Nat \ {0}
  /\ MaxFaults \in Nat
  /\ Costs \subseteq Nat
BY EngineAssumption DEF EngineAssumption

\* Every member of Workflow has its three fields.
LEMMA NoWorkflowType == NoWorkflow \in Workflow
BY DEF NoWorkflow, Workflow

\* Rewriting one row keeps the others, and the type of the table.
LEMMA RowUpdate ==
  ASSUME NEW rows \in Seq(Task), NEW t \in DOMAIN rows, NEW row \in Task
  PROVE  LET new == [rows EXCEPT ![t] = row]
         IN /\ new \in Seq(Task)
            /\ Len(new) = Len(rows) /\ DOMAIN new = DOMAIN rows
            /\ new[t] = row
            /\ \A u \in DOMAIN rows \ {t} : new[u] = rows[u]
OBVIOUS

LEMMA StatusUpdate ==
  ASSUME tasks \in Seq(Task), NEW t \in DOMAIN tasks, NEW s \in TaskStatus
  PROVE  /\ SetStatus(t, s) \in Seq(Task)
         /\ Len(SetStatus(t, s)) = Len(tasks) /\ DOMAIN SetStatus(t, s) = DOMAIN tasks
         /\ SetStatus(t, s)[t] = [tasks[t] EXCEPT !.status = s]
         /\ \A u \in DOMAIN tasks \ {t} : SetStatus(t, s)[u] = tasks[u]
<1>1. tasks[t] \in Task
  OBVIOUS
<1>2. [tasks[t] EXCEPT !.status = s] \in Task
  BY <1>1, Zenon DEF Task
<1> QED
  BY <1>2, RowUpdate DEF SetStatus

LEMMA RowsAdded ==
  ASSUME NEW rows \in Seq(Task), NEW more \in Seq(Task)
  PROVE  /\ rows \o more \in Seq(Task)
         /\ Len(rows \o more) = Len(rows) + Len(more)
         /\ Len(rows \o more) >= Len(rows)
         /\ DOMAIN rows \subseteq DOMAIN (rows \o more)
         /\ \A t \in DOMAIN rows : (rows \o more)[t] = rows[t]
         /\ \A t \in DOMAIN (rows \o more) \ DOMAIN rows :
              t - Len(rows) \in DOMAIN more /\ (rows \o more)[t] = more[t - Len(rows)]
OBVIOUS

\* A task created by Submit, a planner or a recovery is a row.
LEMMA NewRow ==
  ASSUME NEW role \in Roles, NEW deps \in SUBSET Nat, NEW depth \in Nat, NEW prio \in Nat,
         NEW orig \in Nat
  PROVE  NewTask(role, deps, depth, prio, orig) \in Task
BY DEF NewTask, Task, TaskStatus

LEMMA TaskFields ==
  ASSUME NEW task \in Task
  PROVE  /\ task.role \in Roles /\ task.status \in TaskStatus /\ task.deps \in SUBSET Nat
         /\ task.depth \in Nat /\ task.retry \in Nat /\ task.orig \in Nat /\ task.cost \in Nat
BY DEF Task

\* Counters of a workflow only grow.
LEMMA WorkflowCounters ==
  ASSUME NEW w \in Workflow, NEW n \in Nat
  PROVE  /\ [w EXCEPT !.spent = @ + n] \in Workflow
         /\ [w EXCEPT !.taskCount = @ + n] \in Workflow
         /\ w.taskCount \in Nat /\ w.spent \in Nat
<1>1. w.taskCount \in Nat /\ w.spent \in Nat
  BY DEF Workflow
<1>2. w.taskCount + n \in Nat /\ w.spent + n \in Nat
  BY <1>1
<1> QED
  BY <1>1, <1>2 DEF Workflow

LEMMA InitInv == Init => EngineInv
<1> SUFFICES ASSUME Init PROVE EngineInv
  OBVIOUS
<1> USE DEF Init
<1>1. TypeOK
  <2>2. attempted \in BOOLEAN /\ ctxDone \in BOOLEAN
    BY Zenon
  <2> QED
    BY <2>2, ConstantTypes, NoWorkflowType DEF TypeOK
<1>2. DOMAIN tasks = {}
  OBVIOUS
<1>3. PhaseInv /\ StageInv /\ DependencyOrder /\ CompletedMeansDone /\ GraphInv
  BY <1>2 DEF PhaseInv, StageInv, DependencyOrder, CompletedMeansDone, GraphInv, NoWorkflow,
    Active, Terminal
<1>4. LimitsInv /\ DiagnosisInv
  BY <1>2, ConstantTypes DEF LimitsInv, DiagnosisInv, NoWorkflow, Active
<1> QED
  BY <1>1, <1>3, <1>4 DEF EngineInv

-----------------------------------------------------------------------------
(* Type correctness *)

\* A store call leaves the count of outages in its range.
LEMMA CallType ==
  ASSUME NEW ok, Call(ok), faults \in 0 .. MaxFaults
  PROVE  faults' \in 0 .. MaxFaults
BY ConstantTypes DEF Call

LEMMA FinishType ==
  ASSUME TypeOK, NEW s \in Terminal, finishWorkflow(s)
  PROVE  wf' \in Workflow /\ lwf' \in Workflow /\ pc' = "returned" /\ faults' \in 0 .. MaxFaults
<1>1. lwf' \in Workflow
  BY DEF finishWorkflow, TypeOK, Workflow, Terminal
<1>2. PICK ok \in BOOLEAN : Call(ok) /\ wf' = IF ok THEN lwf' ELSE wf
  BY DEF finishWorkflow
<1> QED
  BY <1>1, <1>2, CallType DEF finishWorkflow, TypeOK

LEMMA SubTasksType ==
  ASSUME TypeOK, NEW t \in DOMAIN tasks, NEW plan \in Plans, NEW created \in Creatable(plan)
  PROVE  LET more == [i \in 1 .. created |-> SubTask(plan, i, t, created)]
         IN more \in Seq(Task) /\ Len(more) = created
<1>1. tasks[t] \in Task
  BY DEF TypeOK
<1>2. /\ plan \in Seq(TaskSpec)
      /\ created \in 0 .. Len(plan) /\ Len(plan) \in Nat
      /\ \A i \in 1 .. created : plan[i].role \in Roles
  BY EngineAssumption DEF EngineAssumption, Creatable
<1>3. ASSUME NEW i \in 1 .. created
      PROVE  SubTask(plan, i, t, created) \in Task
  <2>1. plan[i] \in TaskSpec
    BY <1>2
  <2>2. plan[i].deps \in SUBSET Nat /\ plan[i].prio \in Nat
    BY <2>1 DEF TaskSpec
  <2>3. ResolveDependencies(plan[i].deps, created) \in SUBSET Nat
    BY <2>2 DEF TypeOK, ResolveDependencies, IdOf
  <2> QED
    BY <1>1, <1>2, <2>2, <2>3, NewRow, TaskFields DEF SubTask
<1> QED
  BY <1>2, <1>3

LEMMA PlanType ==
  ASSUME TypeOK, NEW t \in DOMAIN tasks, NEW plan \in Plans, handlePlannerOutput(t, plan)
  PROVE  /\ wf' \in Workflow /\ lwf' \in Workflow /\ tasks' \in Seq(Task)
         /\ Len(tasks') >= Len(tasks) /\ faults' \in 0 .. MaxFaults
<1>1. tasks[t] \in Task
  BY DEF TypeOK
<1>2. CASE plan # <<>> /\ ValidateDAG(plan) /\ PlanFits(t, plan)
  <2>1. PICK created \in Creatable(plan), ok \in BOOLEAN :
          /\ Call(ok)
          /\ tasks' = tasks \o [i \in 1 .. created |-> SubTask(plan, i, t, created)]
          /\ LET counted == IF created = Len(plan)
                              THEN [lwf EXCEPT !.taskCount = @ + created] ELSE lwf
             IN /\ wf' = IF ok /\ created = Len(plan) THEN counted ELSE wf
                /\ lwf' = [counted EXCEPT !.spent = @ + tasks[t].cost]
    BY <1>2, Zenon DEF handlePlannerOutput
  <2>2. created \in Nat
    BY EngineAssumption DEF EngineAssumption, Creatable
  <2>4. [i \in 1 .. created |-> SubTask(plan, i, t, created)] \in Seq(Task)
    BY SubTasksType
  <2>5. wf' \in Workflow /\ lwf' \in Workflow
    <3>1. tasks[t].cost \in Nat /\ created \in Nat
      BY <1>1, <2>2, TaskFields
    <3> DEFINE counted == IF created = Len(plan)
                            THEN [lwf EXCEPT !.taskCount = @ + created] ELSE lwf
    <3>2. counted \in Workflow
      BY <3>1, WorkflowCounters, Zenon DEF TypeOK
    <3>3. wf' = (IF ok /\ created = Len(plan) THEN counted ELSE wf)
          /\ lwf' = [counted EXCEPT !.spent = @ + tasks[t].cost]
      BY <2>1
    <3> HIDE DEF counted
    <3> QED
      BY <3>1, <3>2, <3>3, WorkflowCounters, Zenon DEF TypeOK
  <2>6. tasks' \in Seq(Task) /\ Len(tasks') >= Len(tasks)
    BY <2>1, <2>4, RowsAdded, Zenon DEF TypeOK
  <2> QED
    BY <2>1, <2>5, <2>6, CallType, Zenon DEF TypeOK
<1>3. CASE ~(plan # <<>> /\ ValidateDAG(plan) /\ PlanFits(t, plan))
  <2>1. lwf' = [lwf EXCEPT !.spent = @ + tasks[t].cost] /\ UNCHANGED <<wf, tasks, faults>>
    BY <1>3 DEF handlePlannerOutput
  <2>2. lwf' \in Workflow
    BY <1>1, <2>1, TaskFields, WorkflowCounters, Zenon DEF TypeOK
  <2> QED
    BY <2>1, <2>2 DEF TypeOK
<1> QED
  BY <1>2, <1>3

LEMMA DecidedType ==
  ASSUME NEW task \in Task, NEW decision
  PROVE  Decided(task, decision) \in Task
<1>1. task.retry + 1 \in Nat
  BY TaskFields
<1>2. /\ [task EXCEPT !.status = "pending", !.retry = @ + 1] \in Task
      /\ [task EXCEPT !.status = "skipped"] \in Task
      /\ [task EXCEPT !.status = "failed"] \in Task
  BY <1>1, Zenon DEF Task, TaskStatus
<1> QED
  BY <1>2 DEF Decided

LEMMA DecisionType ==
  ASSUME TypeOK, NEW t \in DOMAIN tasks, CollectDecision(t)
  PROVE  /\ tasks' \in Seq(Task) /\ DOMAIN tasks' = DOMAIN tasks /\ Len(tasks') = Len(tasks)
         /\ faults' \in 0 .. MaxFaults
<1>1. CASE tasks[t].orig = 0
  BY <1>1 DEF CollectDecision, TypeOK
<1>2. CASE tasks[t].orig # 0
  <2>1. PICK action \in Decisions, confident \in BOOLEAN, ok \in BOOLEAN :
          /\ Call(ok)
          /\ tasks' = IF ok THEN [tasks EXCEPT ![tasks[t].orig] =
                                    Decided(@, parseRecoveryDecision(action, confident))]
                            ELSE tasks
    BY <1>2 DEF CollectDecision
  <2>2. CASE tasks[t].orig \in DOMAIN tasks
    <3>1. Decided(tasks[tasks[t].orig], parseRecoveryDecision(action, confident)) \in Task
      BY <2>2, DecidedType DEF TypeOK
    <3> QED
      BY <2>1, <2>2, <3>1, RowUpdate, CallType DEF TypeOK
  <2>3. CASE tasks[t].orig \notin DOMAIN tasks
    <3>1. tasks' = tasks
      BY <2>1, <2>3 DEF TypeOK
    <3> QED
      BY <2>1, <3>1, CallType, Zenon DEF TypeOK
  <2> QED
    BY <2>2, <2>3
<1> QED
  BY <1>1, <1>2

LEMMA DiagnosticianType ==
  ASSUME EngineInv, CreateDiagnostician
  PROVE  TypeOK'
<1> USE DEF EngineInv
<1>1. cur \in DOMAIN tasks /\ tasks[cur] \in Task
  BY DEF CreateDiagnostician, LimitsInv, WithStatus, TypeOK
<1>2. PICK created \in BOOLEAN, saved \in BOOLEAN :
        /\ Call(created /\ saved)
        /\ IF created
             THEN /\ tasks' = Append(tasks, NewTask("diagnostician", {},
                                                    tasks[cur].depth + 1, 0, cur))
                  /\ lwf' = [lwf EXCEPT !.taskCount = @ + 1]
                  /\ wf' = IF saved THEN lwf' ELSE wf
                  /\ attempted' = TRUE
             ELSE /\ tasks' \in {tasks} \cup (IF ctxDone THEN {} ELSE {SetStatus(cur, "failed")})
                  /\ UNCHANGED <<wf, lwf, attempted>>
  BY DEF CreateDiagnostician
<1>3. NewTask("diagnostician", {}, tasks[cur].depth + 1, 0, cur) \in Task
  <2>1. tasks[cur].depth + 1 \in Nat /\ cur \in Nat
    BY <1>1, TaskFields DEF TypeOK
  <2> QED
    BY <2>1, NewRow DEF Roles
<1>4. /\ tasks' \in Seq(Task) /\ Len(tasks') >= Len(tasks)
      /\ DOMAIN tasks \subseteq DOMAIN tasks'
  <2>1. CASE created
    BY <1>2, <1>3, <2>1, SMTT(30) DEF TypeOK
  <2>2. CASE ~created
    <3>1. tasks' = tasks \/ tasks' = SetStatus(cur, "failed")
      BY <1>2, <2>2
    <3>2. CASE tasks' = tasks
      BY <3>2 DEF TypeOK
    <3>3. CASE tasks' = SetStatus(cur, "failed")
      <4>1. /\ SetStatus(cur, "failed") \in Seq(Task)
            /\ Len(SetStatus(cur, "failed")) = Len(tasks)
            /\ DOMAIN SetStatus(cur, "failed") = DOMAIN tasks
        BY <1>1, StatusUpdate, Zenon DEF TypeOK, TaskStatus
      <4> QED
        BY <3>3, <4>1 DEF TypeOK
    <3> QED
      BY <3>1, <3>2, <3>3
  <2> QED
    BY <2>1, <2>2
<1>5. wf' \in Workflow /\ lwf' \in Workflow
  <2>1. [lwf EXCEPT !.taskCount = @ + 1] \in Workflow
    BY WorkflowCounters, Zenon DEF TypeOK
  <2> QED
    BY <1>2, <2>1 DEF TypeOK
<1>6. attempted' \in BOOLEAN
  BY <1>2, Zenon DEF TypeOK
<1>7. pc' \in Active /\ cur' = 0 /\ UNCHANGED <<exec, todo, ctxDone>>
  BY DEF CreateDiagnostician, Active
<1> QED
  BY <1>2, <1>4, <1>5, <1>6, <1>7, CallType DEF TypeOK

LEMMA TypeStep ==
  ASSUME EngineInv, [Next]_vars
  PROVE  TypeOK'
<1> USE DEF EngineInv
<1>1. CASE CreateWorkflow
  <2>1. lwf' \in Workflow
    BY <1>1 DEF CreateWorkflow, TypeOK, Workflow
  <2>2. PICK ok \in BOOLEAN : /\ Call(ok)
                              /\ wf' = IF ok THEN lwf' ELSE wf
                              /\ pc' = IF ok THEN "created" ELSE "refused"
    BY <1>1 DEF CreateWorkflow
  <2> QED
    BY <1>1, <2>1, <2>2, CallType DEF CreateWorkflow, TypeOK, recoveryVars
<1>2. CASE CreateRootTask
  <2>1. PICK ok \in BOOLEAN :
          /\ Call(ok)
          /\ tasks' = IF ok THEN <<NewTask("planner", {}, 0, 0, 0)>> ELSE tasks
          /\ pc' = IF ok THEN "rooted" ELSE "refused"
    BY <1>2 DEF CreateRootTask
  <2>2. NewTask("planner", {}, 0, 0, 0) \in Task
    BY NewRow DEF Roles
  <2>3. DOMAIN exec = {} /\ tasks = <<>>
    BY <1>2 DEF CreateRootTask, PhaseInv
  <2> QED
    BY <1>2, <2>1, <2>2, <2>3, CallType DEF CreateRootTask, TypeOK, recoveryVars
<1>3. CASE StartWorkflow
  <2>1. lwf' \in Workflow
    BY <1>3, Zenon DEF StartWorkflow, TypeOK, Workflow
  <2>2. PICK ok \in BOOLEAN : /\ Call(ok)
                              /\ wf' = IF ok THEN lwf' ELSE wf
                              /\ pc' = IF ok THEN "top" ELSE "refused"
    BY <1>3 DEF StartWorkflow
  <2> QED
    BY <1>3, <2>1, <2>2, CallType DEF StartWorkflow, TypeOK, recoveryVars, Active
<1>4. CASE CancelWorkflow
  <2>1. lwf' \in Workflow
    BY <1>4 DEF CancelWorkflow, TypeOK, Workflow, Terminal
  <2>2. tasks' \in Seq(Task) /\ DOMAIN tasks' = DOMAIN tasks /\ Len(tasks') = Len(tasks)
    <3>1. CASE Postgres
      BY <1>4, <3>1 DEF CancelWorkflow, TypeOK
    <3>2. CASE ~Postgres
      <4>1. \A t \in DOMAIN tasks : [tasks[t] EXCEPT !.status = "skipped"] \in Task
        <5>1. \A task \in Task : [task EXCEPT !.status = "skipped"] \in Task
          BY DEF Task, TaskStatus
        <5> QED
          BY <5>1 DEF TypeOK
      <4>2. tasks' = [t \in DOMAIN tasks |-> IF tasks[t].status = "pending"
                                               THEN [tasks[t] EXCEPT !.status = "skipped"]
                                               ELSE tasks[t]]
        BY <1>4, <3>2 DEF CancelWorkflow
      <4>3. DOMAIN tasks = 1 .. Len(tasks) /\ Len(tasks) \in Nat
        BY DEF TypeOK
      <4>4. tasks' \in [1 .. Len(tasks) -> Task]
        BY <4>1, <4>2, <4>3 DEF TypeOK
      <4> QED
        BY <4>3, <4>4
    <3> QED
      BY <3>1, <3>2
  <2> QED
    BY <1>4, <2>1, <2>2, SMTT(30) DEF CancelWorkflow, TypeOK, recoveryVars
<1>5. CASE FinishIdle
  <2>1. finishWorkflow(IF WithStatus("failed") = {} THEN "completed" ELSE "failed")
    BY <1>5 DEF FinishIdle
  <2>2. wf' \in Workflow /\ lwf' \in Workflow /\ pc' = "returned" /\ faults' \in 0 .. MaxFaults
    BY <2>1, FinishType DEF Terminal
  <2> QED
    BY <1>5, <2>2 DEF FinishIdle, TypeOK, recoveryVars
<1>6. CASE Dispatch
  BY <1>6 DEF Dispatch, TypeOK, recoveryVars, Ready, WithStatus, Active
<1>7. ASSUME NEW t \in DOMAIN exec, Execute(t)
      PROVE  TypeOK'
  <2>1. t \in DOMAIN tasks /\ tasks[t] \in Task
    BY DEF TypeOK
  <2>2. /\ DOMAIN exec' = DOMAIN exec
        /\ \A u \in DOMAIN exec : exec'[u] \in {"start", "running", "ok", "err"}
    BY <1>7 DEF TypeOK, Execute, MarkRunning, AgentSucceeds, AgentFails, AgentTimesOut, Stage
  <2>3. /\ tasks' \in Seq(Task) /\ DOMAIN tasks' = DOMAIN tasks /\ Len(tasks') = Len(tasks)
        /\ faults' \in 0 .. MaxFaults
    <3>1. CASE MarkRunning(t)
      <4>1. PICK ok \in BOOLEAN :
              Call(ok) /\ tasks' = IF ok THEN SetStatus(t, "running") ELSE tasks
        BY <3>1 DEF MarkRunning
      <4> QED
        BY <2>1, <4>1, StatusUpdate, CallType, Zenon DEF TypeOK, TaskStatus
    <3>2. CASE AgentSucceeds(t)
      <4>1. PICK cost \in Costs, ok \in BOOLEAN :
              /\ Call(ok)
              /\ tasks' = IF ok THEN [tasks EXCEPT ![t].status = "completed", ![t].cost = cost]
                                ELSE tasks
        BY <3>2 DEF AgentSucceeds
      <4>2. [tasks[t] EXCEPT !.status = "completed", !.cost = cost] \in Task
        BY <2>1, ConstantTypes, Zenon DEF Task, TaskStatus
      <4>3. tasks' = IF ok THEN [tasks EXCEPT ![t] = [tasks[t] EXCEPT !.status = "completed",
                                                                      !.cost = cost]]
                           ELSE tasks
        BY <4>1, <2>1, Zenon DEF TypeOK
      <4> QED
        BY <2>1, <4>1, <4>2, <4>3, RowUpdate, CallType DEF TypeOK
    <3>3. CASE AgentFails(t)
      <4>1. PICK ok \in BOOLEAN :
              Call(ok) /\ tasks' = IF ok THEN SetStatus(t, "failed") ELSE tasks
        BY <3>3 DEF AgentFails
      <4> QED
        BY <2>1, <4>1, StatusUpdate, CallType, Zenon DEF TypeOK, TaskStatus
    <3>4. CASE AgentTimesOut(t)
      BY <2>1, <3>4, StatusUpdate, Zenon DEF AgentTimesOut, TypeOK, TaskStatus
    <3> QED
      BY <1>7, <3>1, <3>2, <3>3, <3>4 DEF Execute
  <2>4. UNCHANGED <<wf, lwf, pc, recoveryVars, ctxDone>>
    BY <1>7 DEF Execute, MarkRunning, AgentSucceeds, AgentFails, AgentTimesOut
  <2> QED
    BY <2>2, <2>3, <2>4 DEF TypeOK, recoveryVars
<1>8. ASSUME NEW t \in DOMAIN exec, Collect(t)
      PROVE  TypeOK'
  <2>1. t \in DOMAIN tasks /\ tasks[t] \in Task
    BY DEF TypeOK
  <2>2. /\ DOMAIN exec' = DOMAIN exec \ {t}
        /\ \A u \in DOMAIN exec' : exec'[u] \in {"start", "running", "ok", "err"}
    BY <1>8 DEF TypeOK, Collect, CollectError, CollectResult, CollectPlan, CollectDecision,
      Collected
  <2>3. UNCHANGED <<pc, recoveryVars, ctxDone>>
    BY <1>8 DEF Collect, CollectError, CollectResult, CollectPlan, CollectDecision
  <2>4. CASE CollectError(t)
    BY <2>2, <2>3, <2>4 DEF CollectError, TypeOK, recoveryVars
  <2>5. CASE CollectResult(t)
    <3>1. lwf' \in Workflow
      BY <2>1, <2>5, TaskFields, WorkflowCounters, Zenon DEF CollectResult, TypeOK
    <3> QED
      BY <2>2, <2>3, <2>5, <3>1 DEF CollectResult, TypeOK, recoveryVars
  <2>6. CASE CollectPlan(t)
    <3>1. PICK plan \in Plans : handlePlannerOutput(t, plan)
      BY <2>6 DEF CollectPlan
    <3>2. /\ wf' \in Workflow /\ lwf' \in Workflow /\ tasks' \in Seq(Task)
          /\ Len(tasks') >= Len(tasks) /\ faults' \in 0 .. MaxFaults
      BY <3>1, <2>1, PlanType
    <3>3. DOMAIN tasks \subseteq DOMAIN tasks' /\ Len(tasks) \in Nat /\ Len(tasks') \in Nat
      BY <3>2 DEF TypeOK
    <3> QED
      BY <2>2, <2>3, <3>2, <3>3 DEF TypeOK, recoveryVars
  <2>7. CASE CollectDecision(t)
    <3>1. lwf' \in Workflow /\ UNCHANGED wf
      BY <2>1, <2>7, TaskFields, WorkflowCounters, Zenon DEF CollectDecision, TypeOK
    <3>2. /\ tasks' \in Seq(Task) /\ DOMAIN tasks' = DOMAIN tasks /\ Len(tasks') = Len(tasks)
          /\ faults' \in 0 .. MaxFaults
      BY <2>1, <2>7, DecisionType DEF TypeOK
    <3> QED
      BY <2>2, <2>3, <3>1, <3>2 DEF TypeOK, recoveryVars
  <2> QED
    BY <1>8, <2>4, <2>5, <2>6, <2>7 DEF Collect
<1>9. CASE Refresh
  <2>1. PICK ok \in BOOLEAN : Call(ok) /\ lwf' = IF ok THEN wf ELSE lwf
    BY <1>9 DEF Refresh
  <2> QED
    BY <1>9, <2>1, CallType DEF Refresh, TypeOK, recoveryVars, Active
<1>10. CASE FinishOverBudget
  BY <1>10, FinishType DEF FinishOverBudget, TypeOK, recoveryVars, Terminal
<1>11. CASE BeginRecovery
  <2>1. attempted' \in BOOLEAN
    BY <1>11, Zenon DEF BeginRecovery
  <2> QED
    BY <1>11, <2>1 DEF BeginRecovery, TypeOK, WithStatus, Active
<1>12. ASSUME NEW t \in todo, SkipRecovery(t) \/ MarkRecovering(t)
       PROVE  TypeOK'
  <2>1. CASE SkipRecovery(t)
    <3>1. PICK listed \in BOOLEAN : Call(listed)
      BY <2>1 DEF SkipRecovery
    <3> QED
      BY <2>1, <3>1, CallType DEF SkipRecovery, TypeOK
  <2>2. CASE MarkRecovering(t)
    <3>1. PICK listed \in BOOLEAN, ok \in BOOLEAN :
            /\ Call(listed /\ ok)
            /\ tasks' = IF ok THEN SetStatus(t, "recovering") ELSE tasks
            /\ pc' = IF ok THEN "diag" ELSE pc
            /\ cur' = IF ok THEN t ELSE cur
      BY <2>2 DEF MarkRecovering
    <3>2. t \in DOMAIN tasks
      BY DEF TypeOK
    <3>3. tasks' \in Seq(Task) /\ DOMAIN tasks' = DOMAIN tasks /\ Len(tasks') = Len(tasks)
      BY <3>1, <3>2, StatusUpdate, Zenon DEF TypeOK, TaskStatus
    <3> QED
      BY <2>2, <3>1, <3>2, <3>3, CallType DEF MarkRecovering, TypeOK, Active
  <2> QED
    BY <1>12, <2>1, <2>2
<1>13. CASE CreateDiagnostician
  BY <1>13, DiagnosticianType, Zenon DEF CreateDiagnostician
<1>14. CASE EndRecovery
  BY <1>14, FinishType DEF EndRecovery, TypeOK, recoveryVars, Terminal, Active
<1>15. CASE SchedulerError
  BY <1>15, CallType, Zenon DEF SchedulerError, TypeOK, recoveryVars
<1>16. CASE Cancel \/ CallerDone
  BY <1>16, Zenon DEF Cancel, CallerDone, TypeOK, recoveryVars
<1>17. CASE UNCHANGED vars
  BY <1>17 DEF vars, TypeOK
<1> QED
  BY <1>1, <1>2, <1>3, <1>4, <1>5, <1>6, <1>7, <1>8, <1>9, <1>10, <1>11, <1>12, <1>13, <1>14,
    <1>15, <1>16, <1>17 DEF Next, Progress, Submit, Recover
-----------------------------------------------------------------------------
(* Steps that write no task and start or end no goroutine *)

LEMMA QuietStep ==
  ASSUME EngineInv, UNCHANGED <<tasks, exec>>
  PROVE  StageInv' /\ DependencyOrder' /\ GraphInv'
<1>1. StageInv'
  BY DEF EngineInv, StageInv, WithStatus
<1>2. DependencyOrder'
  BY DEF EngineInv, DependencyOrder, WithStatus
<1>3. GraphInv'
  BY DEF EngineInv, GraphInv
<1> QED
  BY <1>1, <1>2, <1>3

\* A workflow that is not completed has nothing to show.
LEMMA NotCompleted ==
  ASSUME PhaseInv', pc' # "returned" \/ wf'.status # "completed"
  PROVE  CompletedMeansDone'
BY DEF PhaseInv, Terminal, CompletedMeansDone

\* With no batch and no recovery pass under way, the diagnosis is left alone.
LEMMA QuietDiagnosis ==
  ASSUME EngineInv, UNCHANGED <<tasks, exec>>, pc' \notin {"recover", "diag"},
         pc \in Active \/ pc' \notin Active
  PROVE  DiagnosisInv'
BY DEF EngineInv, DiagnosisInv, WithStatus, Open

LEMMA EmptyDiagnosis ==
  ASSUME UNCHANGED <<tasks, exec>>, tasks = <<>>, pc' \notin {"recover", "diag"}
  PROVE  DiagnosisInv'
BY DEF DiagnosisInv, WithStatus

LEMMA SubmitStep ==
  ASSUME EngineInv, CreateWorkflow \/ StartWorkflow, TypeOK'
  PROVE  EngineInv'
<1> USE DEF EngineInv
<1>1. UNCHANGED <<tasks, exec>>
  BY DEF CreateWorkflow, StartWorkflow
<1>2. PhaseInv'
  <2>1. CASE CreateWorkflow
    BY <2>1 DEF CreateWorkflow, PhaseInv, Active, Terminal, TypeOK, Workflow
  <2>2. CASE StartWorkflow
    BY <2>2 DEF StartWorkflow, PhaseInv, Active, Terminal, TypeOK, Workflow
  <2> QED
    BY <2>1, <2>2
<1>3. LimitsInv'
  <2>1. CASE CreateWorkflow
    BY <1>1, <2>1 DEF CreateWorkflow, LimitsInv, TypeOK, Workflow, WithStatus
  <2>2. CASE StartWorkflow
    BY <1>1, <2>2, ConstantTypes DEF StartWorkflow, LimitsInv, TypeOK, Workflow, WithStatus
  <2> QED
    BY <2>1, <2>2
<1>4. DiagnosisInv'
  <2>1. CASE CreateWorkflow
    BY <2>1, EmptyDiagnosis DEF CreateWorkflow, PhaseInv
  <2>2. CASE StartWorkflow
    <3>1. tasks' = <<NewTask("planner", {}, 0, 0, 0)>> /\ pc' \in {"top", "refused"}
      BY <2>2 DEF StartWorkflow, PhaseInv
    <3>2. \A d \in DOMAIN tasks' : tasks'[d].orig = 0 /\ tasks'[d].status = "pending"
      BY <3>1 DEF NewTask
    <3> QED
      BY <3>1, <3>2 DEF DiagnosisInv, Open, WithStatus
  <2> QED
    BY <2>1, <2>2
<1> QED
  BY <1>1, <1>2, <1>3, <1>4, QuietStep, NotCompleted DEF CreateWorkflow, StartWorkflow

LEMMA FinishStep ==
  ASSUME EngineInv, TypeOK', UNCHANGED <<tasks, exec>>, pc \in Active \ {"collect"},
         NEW s \in Terminal, finishWorkflow(s)
  PROVE  PhaseInv' /\ LimitsInv' /\ DiagnosisInv'
<1> USE DEF EngineInv
<1>1. PhaseInv'
  BY DEF finishWorkflow, PhaseInv, Active, Terminal, TypeOK, Workflow
<1>2. LimitsInv'
  BY ConstantTypes DEF finishWorkflow, LimitsInv, TypeOK, Workflow, WithStatus
<1>3. DiagnosisInv'
  BY QuietDiagnosis DEF finishWorkflow, Active
<1> QED
  BY <1>1, <1>2, <1>3

LEMMA LoopStep ==
  ASSUME EngineInv, TypeOK',
         \/ FinishIdle \/ FinishOverBudget \/ EndRecovery \/ SchedulerError
         \/ Cancel \/ CallerDone \/ Refresh \/ UNCHANGED vars
  PROVE  EngineInv'
<1> USE DEF EngineInv
<1>1. UNCHANGED <<tasks, exec>>
  BY Zenon DEF FinishIdle, FinishOverBudget, EndRecovery, SchedulerError, Cancel, CallerDone, Refresh,
    vars
<1>2. StageInv' /\ DependencyOrder' /\ GraphInv'
  BY <1>1, QuietStep
<1>3. CASE FinishIdle
  <2> DEFINE s == IF WithStatus("failed") = {} THEN "completed" ELSE "failed"
  <2>1. finishWorkflow(s) /\ s \in Terminal
    BY <1>3 DEF FinishIdle, Terminal
  <2>2. PhaseInv' /\ LimitsInv' /\ DiagnosisInv'
    BY <1>1, <1>3, <2>1, FinishStep DEF FinishIdle, Active
  <2>3. CompletedMeansDone'
    <3> SUFFICES ASSUME wf'.status = "completed", WithStatus("skipped") = {},
                        \A t \in DOMAIN tasks : 0 \notin tasks[t].deps
                 PROVE  WithStatus("completed") = DOMAIN tasks
      BY <1>1 DEF CompletedMeansDone, WithStatus
    <3>1. WithStatus("failed") = {}
      <4>1. wf.status = "running" /\ lwf.status = "running"
        BY <1>3 DEF FinishIdle, PhaseInv, Active
      <4> QED
        BY <2>1, <4>1 DEF finishWorkflow, TypeOK, Workflow
    <3>2. WithStatus("running") = {} /\ WithStatus("recovering") = {} /\ Ready = {}
      BY <1>3 DEF FinishIdle, Idle
    <3> DEFINE left == DOMAIN tasks \ WithStatus("completed")
    <3>3. \A t \in left : tasks[t].status = "pending"
      BY <3>1, <3>2, TaskFields DEF TypeOK, WithStatus, TaskStatus
    <3>4. ASSUME left # {}
          PROVE  FALSE
      <4>1. PICK t \in left : tasks[t].deps \cap left = {}
        BY <3>4, Zenon DEF GraphInv
      <4>2. tasks[t].deps \subseteq WithStatus("completed")
        BY <4>1 DEF GraphInv
      <4>3. t \in Ready
        BY <3>3, <4>1, <4>2 DEF Ready, WithStatus
      <4> QED
        BY <3>2, <4>3
    <3> QED
      BY <3>4 DEF WithStatus
  <2> QED
    BY <1>2, <2>2, <2>3
<1>4. CASE FinishOverBudget
  <2>1. PhaseInv' /\ LimitsInv' /\ DiagnosisInv'
    BY <1>1, <1>4, FinishStep DEF FinishOverBudget, Active, Terminal
  <2>2. wf'.status # "completed"
    BY <1>4 DEF FinishOverBudget, finishWorkflow, PhaseInv, Active, TypeOK, Workflow
  <2> QED
    BY <1>2, <2>1, <2>2, NotCompleted
<1>5. CASE EndRecovery
  <2>1. CASE attempted
    <3>1. pc = "recover" /\ pc' = "top" /\ UNCHANGED <<wf, lwf>>
      BY <1>5, <2>1 DEF EndRecovery
    <3>2. PhaseInv' /\ LimitsInv'
      BY <1>1, <3>1 DEF PhaseInv, LimitsInv, Active, Terminal, WithStatus
    <3>3. DiagnosisInv'
      BY <1>1, <3>1, QuietDiagnosis DEF Active
    <3> QED
      BY <1>2, <3>1, <3>2, <3>3, NotCompleted
  <2>2. CASE ~attempted
    <3>1. finishWorkflow("failed") /\ pc = "recover"
      BY <1>5, <2>2 DEF EndRecovery
    <3>2. PhaseInv' /\ LimitsInv' /\ DiagnosisInv'
      BY <1>1, <3>1, FinishStep DEF Active, Terminal
    <3>3. wf'.status # "completed"
      BY <3>1 DEF finishWorkflow, PhaseInv, Active, TypeOK, Workflow
    <3> QED
      BY <1>2, <3>2, <3>3, NotCompleted
  <2> QED
    BY <2>1, <2>2 DEF TypeOK
<1>6. CASE SchedulerError
  <2>1. pc = "top" /\ pc' = "returned" /\ UNCHANGED <<wf, lwf>>
    BY <1>6 DEF SchedulerError
  <2>2. PhaseInv' /\ LimitsInv' /\ wf'.status # "completed"
    BY <1>1, <2>1 DEF PhaseInv, LimitsInv, Active, Terminal, WithStatus
  <2>3. DiagnosisInv'
    BY <1>1, <2>1, QuietDiagnosis DEF Active
  <2> QED
    BY <1>2, <2>2, <2>3, NotCompleted
<1>7. CASE Cancel \/ CallerDone \/ UNCHANGED vars
  <2>1. UNCHANGED <<wf, tasks, lwf, pc, exec, todo, cur>>
    BY <1>7 DEF Cancel, CallerDone, recoveryVars, vars
  <2>2. PhaseInv' /\ LimitsInv'
    BY <2>1 DEF PhaseInv, LimitsInv, WithStatus
  <2>3. DiagnosisInv'
    BY <2>1 DEF DiagnosisInv, Open, WithStatus
  <2>4. CompletedMeansDone'
    BY <2>1 DEF CompletedMeansDone, WithStatus
  <2> QED
    BY <1>2, <2>2, <2>3, <2>4, SMTT(30)
<1>8. CASE Refresh
  <2>1. /\ pc = "collect" /\ DOMAIN exec = {} /\ pc' \in {"top", "overbudget"}
        /\ lwf' \in {wf, lwf} /\ UNCHANGED wf
    BY <1>8 DEF Refresh
  <2>2. PhaseInv' /\ LimitsInv'
    BY <1>1, <2>1 DEF PhaseInv, LimitsInv, Active, Terminal, WithStatus
  <2>3. DiagnosisInv'
    BY <1>1, <2>1, QuietDiagnosis DEF Active
  <2> QED
    BY <1>2, <2>1, <2>2, <2>3, NotCompleted
<1> QED
  BY <1>3, <1>4, <1>5, <1>6, <1>7, <1>8

LEMMA PassStep ==
  ASSUME EngineInv, TypeOK',
         BeginRecovery \/ \E t \in todo : SkipRecovery(t)
  PROVE  EngineInv'
<1> USE DEF EngineInv
<1>1. UNCHANGED <<wf, lwf, tasks, exec, cur>> /\ pc' = "recover"
  BY DEF BeginRecovery, SkipRecovery
<1>2. StageInv' /\ DependencyOrder' /\ GraphInv'
  BY <1>1, QuietStep
<1>3. PhaseInv'
  BY <1>1 DEF BeginRecovery, SkipRecovery, PhaseInv, Active, Terminal
<1>4. LimitsInv'
  BY <1>1 DEF BeginRecovery, SkipRecovery, LimitsInv, WithStatus
<1>5. DiagnosisInv'
  <2>1. CASE BeginRecovery
    <3>1. WithStatus("recovering") = {} /\ todo' = WithStatus("failed") /\ pc = "top"
      BY <2>1 DEF BeginRecovery, Idle
    <3>2. \A d \in DOMAIN tasks : tasks[d].orig # 0 => tasks[d].status = "completed"
      BY <3>1, SMTT(30) DEF DiagnosisInv, Open, Active, WithStatus
    <3> QED
      BY <1>1, <3>1, <3>2 DEF DiagnosisInv, Open, Active, WithStatus
  <2>2. CASE \E t \in todo : SkipRecovery(t)
    BY <1>1, <2>2 DEF SkipRecovery, DiagnosisInv, Open, Active, WithStatus
  <2> QED
    BY <2>1, <2>2
<1> QED
  BY <1>1, <1>2, <1>3, <1>4, <1>5, NotCompleted

-----------------------------------------------------------------------------
(* Steps that change the status of one task *)

\* Row t goes from one status to another; role, dependencies, depth and the task
\* a diagnostician is for never change.
Moved(t, from, to) ==
  /\ t \in DOMAIN tasks
  /\ tasks[t].status = from
  /\ DOMAIN tasks' = DOMAIN tasks
  /\ tasks'[t].status = to
  /\ \A u \in DOMAIN tasks :
       /\ tasks'[u].role = tasks[u].role /\ tasks'[u].deps = tasks[u].deps
       /\ tasks'[u].depth = tasks[u].depth /\ tasks'[u].orig = tasks[u].orig
  /\ \A u \in DOMAIN tasks \ {t} :
       tasks'[u].status = tasks[u].status /\ tasks'[u].retry = tasks[u].retry

LEMMA SetStatusMoves ==
  ASSUME TypeOK, NEW t \in DOMAIN tasks, NEW s \in TaskStatus, tasks' = SetStatus(t, s)
  PROVE  Moved(t, tasks[t].status, s) /\ tasks'[t].retry = tasks[t].retry
<1>1. tasks[t] \in Task
  BY DEF TypeOK
<1>2. /\ tasks'[t] = [tasks[t] EXCEPT !.status = s] /\ DOMAIN tasks' = DOMAIN tasks
      /\ \A u \in DOMAIN tasks \ {t} : tasks'[u] = tasks[u]
  BY StatusUpdate DEF TypeOK
<1>3. /\ tasks'[t].status = s /\ tasks'[t].role = tasks[t].role /\ tasks'[t].deps = tasks[t].deps
      /\ tasks'[t].depth = tasks[t].depth /\ tasks'[t].orig = tasks[t].orig
      /\ tasks'[t].retry = tasks[t].retry
  BY <1>1, <1>2 DEF Task
<1> QED
  BY <1>2, <1>3, Zenon DEF Moved

LEMMA MovedGraph ==
  ASSUME GraphInv, NEW t, NEW from, NEW to, Moved(t, from, to)
  PROVE  GraphInv'
BY DEF GraphInv, Moved

LEMMA MovedOrder ==
  ASSUME DependencyOrder, NEW t, NEW from, NEW to, Moved(t, from, to), from # "completed",
         to \in {"running", "completed", "failed", "recovering"} =>
           \/ from \in {"running", "completed", "failed", "recovering"}
           \/ tasks[t].deps \subseteq WithStatus("completed")
  PROVE  /\ DependencyOrder'
         /\ WithStatus("completed") \subseteq WithStatus("completed")'
<1>1. WithStatus("completed") \subseteq WithStatus("completed")'
  BY DEF Moved, WithStatus
<1>2. ASSUME NEW u \in DOMAIN tasks',
             tasks'[u].status \in {"running", "completed", "failed", "recovering"}
      PROVE  tasks'[u].deps \subseteq WithStatus("completed")'
  <2>1. tasks[u].deps \subseteq WithStatus("completed") /\ tasks'[u].deps = tasks[u].deps
    BY <1>2, SMTT(30) DEF Moved, DependencyOrder
  <2> QED
    BY <1>1, <2>1
<1> QED
  BY <1>1, <1>2 DEF DependencyOrder

\* What a goroutine of the batch does to its task and to its stage.
LEMMA ExecuteMoves ==
  ASSUME EngineInv, NEW t \in DOMAIN exec, Execute(t)
  PROVE  /\ DOMAIN exec' = DOMAIN exec
         /\ \A u \in DOMAIN exec \ {t} : exec'[u] = exec[u]
         /\ \/ UNCHANGED tasks /\ exec'[t] = "err"
            \/ /\ Moved(t, "pending", "running") /\ tasks'[t].retry = tasks[t].retry
               /\ exec'[t] = "running" /\ tasks[t].deps \subseteq WithStatus("completed")
            \/ /\ Moved(t, "running", "completed") /\ tasks'[t].retry = tasks[t].retry
               /\ exec'[t] = "ok"
            \/ /\ Moved(t, "running", "failed") /\ tasks'[t].retry = tasks[t].retry
               /\ exec'[t] = "err"
<1> USE DEF EngineInv
<1>1. t \in DOMAIN tasks /\ tasks[t] \in Task
  BY SMTT(30) DEF TypeOK
<1>2. CASE MarkRunning(t)
  <2>1. tasks[t].status = "pending" /\ tasks[t].deps \subseteq WithStatus("completed")
    BY <1>2 DEF MarkRunning, StageInv
  <2>2. PICK ok \in BOOLEAN :
          /\ tasks' = IF ok THEN SetStatus(t, "running") ELSE tasks
          /\ exec' = [exec EXCEPT ![t] = IF ok THEN "running" ELSE "err"]
    BY <1>2, Zenon DEF MarkRunning, Stage
  <2>3. CASE ok
    BY <1>1, <2>1, <2>2, <2>3, SetStatusMoves DEF TaskStatus
  <2>4. CASE ~ok
    BY <2>2, <2>4
  <2> QED
    BY <2>3, <2>4
<1>3. CASE AgentSucceeds(t)
  <2>1. tasks[t].status = "running"
    BY <1>3 DEF AgentSucceeds, StageInv
  <2>2. PICK cost \in Costs, ok \in BOOLEAN :
          /\ tasks' = IF ok THEN [tasks EXCEPT ![t].status = "completed", ![t].cost = cost]
                            ELSE tasks
          /\ exec' = [exec EXCEPT ![t] = IF ok THEN "ok" ELSE "err"]
    BY <1>3, Zenon DEF AgentSucceeds, Stage
  <2>3. CASE ok
    <3>1. tasks' = [tasks EXCEPT ![t] = [tasks[t] EXCEPT !.status = "completed", !.cost = cost]]
      BY <2>2, <2>3, <1>1, Zenon DEF TypeOK
    <3>2. /\ tasks'[t] = [tasks[t] EXCEPT !.status = "completed", !.cost = cost]
          /\ DOMAIN tasks' = DOMAIN tasks
          /\ \A u \in DOMAIN tasks \ {t} : tasks'[u] = tasks[u]
      BY <3>1, <1>1 DEF TypeOK
    <3>3. /\ tasks'[t].status = "completed" /\ tasks'[t].role = tasks[t].role
          /\ tasks'[t].deps = tasks[t].deps /\ tasks'[t].depth = tasks[t].depth
          /\ tasks'[t].orig = tasks[t].orig /\ tasks'[t].retry = tasks[t].retry
      BY <1>1, <3>2 DEF Task
    <3>4. Moved(t, "running", "completed")
      BY <1>1, <2>1, <3>2, <3>3, Zenon DEF Moved
    <3> QED
      BY <2>2, <2>3, <3>3, <3>4
  <2>4. CASE ~ok
    BY <2>2, <2>4
  <2> QED
    BY <2>3, <2>4
<1>4. CASE AgentFails(t) \/ AgentTimesOut(t)
  <2>1. tasks[t].status = "running"
    BY <1>4 DEF AgentFails, AgentTimesOut, StageInv
  <2>2. /\ tasks' = tasks \/ tasks' = SetStatus(t, "failed")
        /\ exec' = [exec EXCEPT ![t] = "err"]
    BY <1>4 DEF AgentFails, AgentTimesOut, Stage
  <2>3. CASE tasks' = tasks
    BY <2>2, <2>3
  <2>4. CASE tasks' = SetStatus(t, "failed")
    BY <1>1, <2>1, <2>2, <2>4, SetStatusMoves, SMTT(30) DEF TaskStatus
  <2> QED
    BY <2>2, <2>3, <2>4, SMTT(30)
<1> QED
  BY <1>2, <1>3, <1>4 DEF Execute

\* During a batch no task starts being diagnosed and no diagnostician is added.
LEMMA DiagnosisKept ==
  ASSUME DiagnosisInv, pc = "collect", pc' = "collect",
         DOMAIN tasks' = DOMAIN tasks,
         \A d \in DOMAIN tasks : tasks'[d].orig = tasks[d].orig /\ tasks'[d].role = tasks[d].role,
         \A d \in DOMAIN tasks : Open(d)' => Open(d),
         \A d \in DOMAIN tasks : Open(d)' => tasks'[tasks[d].orig].status = "recovering",
         \A d \in DOMAIN tasks :
           tasks'[d].status = "recovering" => tasks[d].status = "recovering"
  PROVE  DiagnosisInv'
<1>1. \A d \in DOMAIN tasks' :
        tasks'[d].orig # 0 => tasks'[d].orig \in DOMAIN tasks' /\ tasks'[d].role = "diagnostician"
  BY SMTT(30) DEF DiagnosisInv
<1>2. \A d \in DOMAIN tasks' : Open(d)' => tasks'[tasks'[d].orig].status = "recovering"
  OBVIOUS
<1>3. \A d, e \in DOMAIN tasks' :
        Open(d)' /\ Open(e)' /\ tasks'[d].orig = tasks'[e].orig => d = e
  BY DEF DiagnosisInv, Active
<1>4. \A u \in WithStatus("recovering")' : tasks'[u].orig = 0
  BY DEF DiagnosisInv, Active, WithStatus
<1> QED
  BY <1>1, <1>2, <1>3, <1>4 DEF DiagnosisInv

LEMMA ExecuteStep ==
  ASSUME EngineInv, TypeOK', NEW t \in DOMAIN exec, Execute(t)
  PROVE  EngineInv'
<1> USE DEF EngineInv
<1>1. UNCHANGED <<wf, lwf, pc, todo, cur, attempted>> /\ pc = "collect"
  BY DEF Execute, MarkRunning, AgentSucceeds, AgentFails, AgentTimesOut, recoveryVars, PhaseInv
<1>2. PhaseInv'
  BY <1>1 DEF PhaseInv, Active, Terminal
<1>3. /\ DOMAIN exec' = DOMAIN exec
      /\ \A u \in DOMAIN exec \ {t} : exec'[u] = exec[u]
  BY ExecuteMoves
<1>4. CASE UNCHANGED tasks /\ exec'[t] = "err"
  <2>1. StageInv' /\ DependencyOrder' /\ GraphInv' /\ LimitsInv'
    BY <1>1, <1>3, <1>4, SMTT(30) DEF StageInv, DependencyOrder, GraphInv, LimitsInv, WithStatus
  <2>2. DiagnosisInv'
    BY <1>1, <1>3, <1>4 DEF DiagnosisInv, Open, WithStatus
  <2> QED
    BY <1>1, <1>2, <2>1, <2>2, NotCompleted, SMTT(30)
<1>5. ASSUME NEW from \in {"pending", "running"}, NEW to \in {"running", "completed", "failed"},
             Moved(t, from, to), tasks'[t].retry = tasks[t].retry,
             exec'[t] \in {"running", "ok", "err"},
             exec'[t] = "running" => to = "running", exec'[t] = "ok" => to = "completed",
             from = "pending" => tasks[t].deps \subseteq WithStatus("completed")
      PROVE  EngineInv'
  <2>1. DependencyOrder' /\ WithStatus("completed") \subseteq WithStatus("completed")'
    BY <1>5, MovedOrder
  <2>2. GraphInv'
    BY <1>5, MovedGraph, SMTT(30)
  <2>3. StageInv'
    BY <1>3, <1>5, <2>1, SMTT(30) DEF StageInv, Moved, TypeOK
  <2>4. LimitsInv'
    BY <1>1, <1>5, Zenon DEF LimitsInv, Moved
  <2>5. \A d \in DOMAIN tasks : Open(d)' => Open(d)
    BY <1>3, <1>5 DEF Open, Moved
  <2>6. \A u \in DOMAIN tasks :
          tasks'[u].status = "recovering" <=> tasks[u].status = "recovering"
    BY <1>5, SMTT(30) DEF Moved
  <2>7. \A d \in DOMAIN tasks : Open(d)' => tasks'[tasks[d].orig].status = "recovering"
    BY <1>1, <2>5, <2>6, SMTT(30) DEF DiagnosisInv, Active, Open
  <2>8. DiagnosisInv'
    <3>1. /\ DOMAIN tasks' = DOMAIN tasks
          /\ \A d \in DOMAIN tasks :
               tasks'[d].orig = tasks[d].orig /\ tasks'[d].role = tasks[d].role
      BY <1>5 DEF Moved
    <3>2. DiagnosisInv /\ pc = "collect" /\ pc' = "collect"
      BY <1>1
    <3> HIDE DEF EngineInv
    <3> QED
      BY <2>5, <2>6, <2>7, <3>1, <3>2, DiagnosisKept, Zenon
  <2> QED
    BY <1>1, <1>2, <2>1, <2>2, <2>3, <2>4, <2>8, NotCompleted
<1> QED
  BY <1>4, <1>5, ExecuteMoves

\* While results are collected, goroutines end and sub-tasks may be added; both
\* leave what is known of the other tasks as it is.
CollectEffect ==
  /\ pc = "collect" /\ UNCHANGED <<pc, todo, cur>>
  /\ DOMAIN exec' \subseteq DOMAIN exec
  /\ \A u \in DOMAIN exec' : exec'[u] = exec[u]
  /\ DOMAIN tasks \subseteq DOMAIN tasks'
  /\ \A u \in DOMAIN tasks : tasks'[u] = tasks[u]
  /\ \A u \in DOMAIN tasks' \ DOMAIN tasks :
       /\ tasks'[u].status = "pending" /\ tasks'[u].retry = 0 /\ tasks'[u].orig = 0
       /\ tasks'[u].depth < MaxDepth
  /\ wf'.taskCount <= MaxTasks /\ lwf'.taskCount <= MaxTasks
  /\ wf'.status = "running" /\ lwf'.status = "running"

LEMMA CollectInv ==
  ASSUME EngineInv, TypeOK', CollectEffect
  PROVE  PhaseInv' /\ StageInv' /\ LimitsInv' /\ DiagnosisInv' /\ DependencyOrder'
<1>1. PhaseInv'
  BY SMTT(30) DEF CollectEffect, PhaseInv, Active, Terminal
<1>2. DOMAIN exec \subseteq DOMAIN tasks
  BY SMTT(30) DEF EngineInv, TypeOK
<1>3. ASSUME NEW u \in WithStatus("completed")
      PROVE  u \in WithStatus("completed")'
  BY <1>3 DEF CollectEffect, WithStatus
<1>4. StageInv'
  <2> SUFFICES ASSUME NEW u \in DOMAIN exec'
               PROVE  /\ exec'[u] = "start" => tasks'[u].status = "pending"
                                               /\ tasks'[u].deps \subseteq WithStatus("completed")'
                      /\ exec'[u] = "running" => tasks'[u].status = "running"
                      /\ exec'[u] = "ok" => tasks'[u].status = "completed"
    BY DEF StageInv
  <2>1. u \in DOMAIN exec /\ exec'[u] = exec[u] /\ tasks'[u] = tasks[u]
    BY <1>2 DEF CollectEffect
  <2> QED
    BY <1>3, <2>1 DEF EngineInv, StageInv
<1>5. DependencyOrder'
  <2> SUFFICES ASSUME NEW u \in DOMAIN tasks',
                      tasks'[u].status \in {"running", "completed", "failed", "recovering"}
               PROVE  tasks'[u].deps \subseteq WithStatus("completed")'
    BY DEF DependencyOrder
  <2>1. u \in DOMAIN tasks /\ tasks'[u] = tasks[u]
    BY DEF CollectEffect
  <2> QED
    BY <1>3, <2>1 DEF EngineInv, DependencyOrder
<1>6. LimitsInv'
  <2>1. ASSUME NEW u \in DOMAIN tasks'
        PROVE  /\ tasks'[u].depth < MaxDepth /\ tasks'[u].retry <= MaxRetries
               /\ tasks'[u].status = "recovering" => tasks'[u].retry < MaxRetries
    <3>1. CASE u \in DOMAIN tasks
      BY <3>1 DEF CollectEffect, EngineInv, LimitsInv
    <3>2. CASE u \notin DOMAIN tasks
      BY <3>2, ConstantTypes DEF CollectEffect
    <3> QED
      BY <3>1, <3>2
  <2> QED
    BY <2>1 DEF CollectEffect, LimitsInv
<1>7. ASSUME NEW d \in DOMAIN tasks', tasks'[d].orig # 0
      PROVE  /\ d \in DOMAIN tasks /\ tasks'[d] = tasks[d]
             /\ tasks[d].orig \in DOMAIN tasks /\ tasks[d].role = "diagnostician"
             /\ Open(d)' => Open(d)
  <2>1. d \in DOMAIN tasks /\ tasks'[d] = tasks[d]
    BY <1>7 DEF CollectEffect
  <2>2. tasks[d].orig \in DOMAIN tasks /\ tasks[d].role = "diagnostician"
    BY <1>7, <2>1 DEF EngineInv, DiagnosisInv
  <2>3. Open(d)' => Open(d)
    BY <2>1, SMTT(30) DEF CollectEffect, Open
  <2> QED
    BY <2>1, <2>2, <2>3
<1>8. DiagnosisInv'
  <2>1. \A d \in DOMAIN tasks' : Open(d)' => tasks'[d].orig # 0
    BY DEF Open
  <2>2. pc \in Active /\ pc' \in Active /\ pc' \notin {"recover", "diag"}
    BY SMTT(30) DEF CollectEffect, Active
  <2>3. ASSUME NEW d \in DOMAIN tasks', Open(d)'
        PROVE  tasks'[tasks'[d].orig].status = "recovering"
    <3>1. d \in DOMAIN tasks /\ tasks'[d] = tasks[d] /\ Open(d) /\ tasks[d].orig \in DOMAIN tasks
      BY <1>7, <2>1, <2>3
    <3>2. tasks[tasks[d].orig].status = "recovering"
      BY <2>2, <3>1 DEF EngineInv, DiagnosisInv
    <3> QED
      BY <3>1, <3>2 DEF CollectEffect
  <2>4. ASSUME NEW d \in DOMAIN tasks', NEW e \in DOMAIN tasks',
               Open(d)', Open(e)', tasks'[d].orig = tasks'[e].orig
        PROVE  d = e
    <3>1. /\ d \in DOMAIN tasks /\ tasks'[d] = tasks[d] /\ Open(d)
          /\ e \in DOMAIN tasks /\ tasks'[e] = tasks[e] /\ Open(e)
      BY <1>7, <2>1, <2>4
    <3> QED
      BY <2>2, <2>4, <3>1 DEF EngineInv, DiagnosisInv
  <2>5. ASSUME NEW u \in WithStatus("recovering")'
        PROVE  tasks'[u].orig = 0
    <3>1. u \in WithStatus("recovering") /\ tasks'[u] = tasks[u]
      BY DEF CollectEffect, WithStatus
    <3> QED
      BY <2>2, <3>1 DEF EngineInv, DiagnosisInv
  <2> QED
    BY <1>7, <2>2, <2>3, <2>4, <2>5 DEF DiagnosisInv, CollectEffect
<1> QED
  BY <1>1, <1>4, <1>5, <1>6, <1>8, SMTT(30)

LEMMA CollectTaskStep ==
  ASSUME EngineInv, TypeOK', NEW t \in DOMAIN exec, CollectError(t) \/ CollectResult(t)
  PROVE  EngineInv'
<1>1. /\ UNCHANGED <<wf, tasks, pc, todo, cur, attempted>> /\ pc = "collect"
      /\ lwf'.taskCount = lwf.taskCount /\ lwf'.status = lwf.status
  BY SMTT(30) DEF CollectError, CollectResult, recoveryVars, EngineInv, PhaseInv, TypeOK, Workflow
<1>2. DOMAIN exec' = DOMAIN exec \ {t} /\ \A u \in DOMAIN exec' : exec'[u] = exec[u]
  BY DEF CollectError, CollectResult, Collected
<1>3. CollectEffect
  BY <1>1, <1>2, SMTT(30) DEF CollectEffect, EngineInv, PhaseInv, LimitsInv, Active
<1>4. GraphInv'
  BY <1>1 DEF EngineInv, GraphInv
<1> QED
  BY <1>1, <1>3, <1>4, CollectInv, NotCompleted DEF EngineInv

=============================================================================
