---------------------- MODULE WorkflowRefinementProofs ----------------------
(***************************************************************************)
(* The engine implements WorkflowLifecycle, for every plan, limit and      *)
(* schedule and with either store: what readers of the rows may rely on.   *)
(* Every step writes the status of the workflow, moves one task, or adds   *)
(* tasks, in a way the life cycle allows, or is invisible to them.         *)
(***************************************************************************)
EXTENDS WorkflowEngineProofs

\* The tasks as readers see them.
Shown(rows) == [t \in DOMAIN rows |-> [status |-> rows[t].status, deps |-> rows[t].deps]]
Board == Shown(tasks)

\* A step of the life cycle, or none.
LifecycleStep == Lifecycle!Next \/ UNCHANGED <<wf.status, Board>>

LEMMA Invisible ==
  ASSUME UNCHANGED tasks, wf'.status = wf.status
  PROVE  LifecycleStep
BY DEF LifecycleStep, Board, Shown

LEMMA ShownRows ==
  /\ DOMAIN Board = DOMAIN tasks
  /\ \A t \in DOMAIN tasks :
       Board[t] = [status |-> tasks[t].status, deps |-> tasks[t].deps]
  /\ \A t \in DOMAIN tasks : Board[t].status = tasks[t].status /\ Board[t].deps = tasks[t].deps
BY DEF Board, Shown

LEMMA MovedIsMove ==
  ASSUME NEW t, NEW from, NEW to, Moved(t, from, to), wf.status = "running", wf'.status = wf.status
  PROVE  Lifecycle!Move(t, from, to)
<1>1. Board[t].status = from
  BY ShownRows DEF Moved
<1>2. Board' = [Board EXCEPT ![t].status = to]
  <2>1. DOMAIN Board' = DOMAIN Board /\ t \in DOMAIN Board
    BY DEF Board, Shown, Moved
  <2>2. \A u \in DOMAIN Board : Board'[u] = [Board EXCEPT ![t].status = to][u]
    BY DEF Board, Shown, Moved
  <2> QED
    BY <2>1, <2>2 DEF Board, Shown
<1> QED
  BY <1>1, <1>2 DEF Lifecycle!Move, Board, Shown

\* The status of the workflow while Submit and the loop are where they are.
LEMMA RunningWhileActive ==
  ASSUME EngineInv, pc \in Active
  PROVE  wf.status = "running" /\ lwf.status = "running"
BY DEF EngineInv, PhaseInv

-----------------------------------------------------------------------------
(* Submit *)

LEMMA SubmitRefines ==
  ASSUME EngineInv, Submit
  PROVE  LifecycleStep
<1> USE DEF EngineInv
<1>1. CASE CreateWorkflow
  <2>1. wf.status = "none" /\ UNCHANGED tasks /\ (wf' = wf \/ wf' = lwf') /\ lwf'.status = "pending"
    BY <1>1 DEF CreateWorkflow, PhaseInv, TypeOK, Workflow
  <2>2. CASE wf' = wf
    BY <2>1, <2>2, Invisible
  <2>3. CASE wf' = lwf'
    <3>1. Lifecycle!Create
      BY <2>1, <2>3 DEF Lifecycle!Create
    <3> QED
      BY <3>1 DEF LifecycleStep, Lifecycle!Next
  <2> QED
    BY <2>1, <2>2, <2>3
<1>2. CASE CreateRootTask
  <2>1. /\ wf.status = "pending" /\ UNCHANGED wf /\ tasks = <<>>
        /\ tasks' = tasks \/ tasks' = <<NewTask("planner", {}, 0, 0, 0)>>
    BY <1>2 DEF CreateRootTask, PhaseInv
  <2>2. CASE tasks' = tasks
    BY <2>1, <2>2, Invisible
  <2>3. CASE tasks' = <<NewTask("planner", {}, 0, 0, 0)>>
    <3>1. /\ Board = <<>> /\ Len(Board') = 1 /\ DOMAIN Board' = {1} /\ Len(Board) = 0
          /\ Board'[1].status = "pending"
      BY <2>1, <2>3 DEF Board, Shown, NewTask
    <3>2. Lifecycle!AddTasks
      BY <2>1, <3>1 DEF Lifecycle!AddTasks, Board, Shown
    <3> QED
      BY <3>2 DEF LifecycleStep, Lifecycle!Next
  <2> QED
    BY <2>1, <2>2, <2>3
<1>3. CASE StartWorkflow
  <2>1. /\ wf.status = "pending" /\ UNCHANGED tasks /\ (wf' = wf \/ wf' = lwf')
        /\ lwf'.status = "running" /\ tasks = <<NewTask("planner", {}, 0, 0, 0)>>
    BY <1>3 DEF StartWorkflow, PhaseInv, TypeOK, Workflow
  <2>2. CASE wf' = wf
    BY <2>1, <2>2, Invisible
  <2>3. CASE wf' = lwf'
    <3>1. Board # <<>>
      BY <2>1 DEF Board, Shown
    <3>2. Lifecycle!Begin
      BY <2>1, <2>3, <3>1 DEF Lifecycle!Begin, Board, Shown
    <3> QED
      BY <3>2 DEF LifecycleStep, Lifecycle!Next
  <2> QED
    BY <2>1, <2>2, <2>3
<1> QED
  BY <1>1, <1>2, <1>3 DEF Submit

-----------------------------------------------------------------------------
(* The end of a workflow *)

\* finishWorkflow writes the status, or nothing.
LEMMA FinishWrites ==
  ASSUME EngineInv, pc \in Active, NEW s, finishWorkflow(s), UNCHANGED tasks
  PROVE  wf.status = "running" /\ (wf'.status = s \/ wf' = wf)
<1>1. lwf'.status = s /\ (wf' = lwf' \/ wf' = wf)
  BY DEF finishWorkflow, EngineInv, TypeOK, Workflow
<1> QED
  BY <1>1, RunningWhileActive

LEMMA FailRefines ==
  ASSUME EngineInv, pc \in Active, finishWorkflow("failed"), UNCHANGED tasks
  PROVE  LifecycleStep
<1>1. wf.status = "running" /\ (wf'.status = "failed" \/ wf' = wf)
  BY FinishWrites, Zenon
<1>2. CASE wf' = wf
  BY <1>2, Invisible
<1>3. CASE wf'.status = "failed"
  <2>1. Lifecycle!Fail
    BY <1>1, <1>3 DEF Lifecycle!Fail
  <2> QED
    BY <2>1 DEF LifecycleStep, Lifecycle!Next
<1> QED
  BY <1>1, <1>2, <1>3

LEMMA FinishIdleRefines ==
  ASSUME EngineInv, FinishIdle
  PROVE  LifecycleStep
<1>1. pc \in Active /\ UNCHANGED tasks /\ Idle
  BY DEF FinishIdle, Active
<1>2. CASE WithStatus("failed") = {}
  <2>1. finishWorkflow("completed")
    BY <1>2 DEF FinishIdle
  <2>2. wf.status = "running" /\ (wf'.status = "completed" \/ wf' = wf)
    BY <1>1, <2>1, FinishWrites, Zenon
  <2>3. CASE wf' = wf
    BY <1>1, <2>3, Invisible
  <2>4. CASE wf'.status = "completed"
    <3>1. \A s \in {"running", "failed", "recovering"} :
            {t \in DOMAIN Board : Board[t].status = s} = {}
      BY <1>1, <1>2 DEF Idle, WithStatus, Board, Shown
    <3>2. Lifecycle!Complete
      BY <1>1, <2>2, <2>4, <3>1 DEF Lifecycle!Complete, Lifecycle!WithTaskStatus, Board, Shown
    <3> QED
      BY <3>2 DEF LifecycleStep, Lifecycle!Next
  <2> QED
    BY <2>2, <2>3, <2>4
<1>3. CASE WithStatus("failed") # {}
  <2>1. finishWorkflow("failed")
    BY <1>3 DEF FinishIdle
  <2> QED
    BY <1>1, <2>1, FailRefines
<1> QED
  BY <1>2, <1>3

LEMMA CancelRefines ==
  ASSUME EngineInv, CancelWorkflow
  PROVE  LifecycleStep
<1>1. wf.status = "running" /\ lwf'.status = "cancelled"
  BY RunningWhileActive DEF CancelWorkflow, Active, EngineInv, TypeOK, Workflow
<1>2. CASE Postgres
  BY <1>2, Invisible DEF CancelWorkflow
<1>3. CASE ~Postgres
  <2>1. /\ wf'.status = "cancelled"
        /\ tasks' = [t \in DOMAIN tasks |->
                       IF tasks[t].status = "pending"
                         THEN [tasks[t] EXCEPT !.status = "skipped"] ELSE tasks[t]]
    BY <1>1, <1>3 DEF CancelWorkflow
  <2>2. \A t \in DOMAIN tasks : tasks[t] \in Task
    BY DEF EngineInv, TypeOK
  <2>3. \A t \in DOMAIN tasks :
          /\ tasks'[t].deps = tasks[t].deps
          /\ tasks'[t].status = IF tasks[t].status = "pending" THEN "skipped" ELSE tasks[t].status
    BY <2>1, <2>2 DEF Task
  <2>4. DOMAIN tasks' = DOMAIN tasks
    BY <2>1
  <2>5. Board' = [t \in DOMAIN Board |->
                    IF Board[t].status = "pending"
                      THEN [Board[t] EXCEPT !.status = "skipped"] ELSE Board[t]]
    BY <2>3, <2>4 DEF Board, Shown
  <2>6. Lifecycle!Cancel
    BY <1>1, <2>1, <2>5 DEF Lifecycle!Cancel, Board, Shown
  <2> QED
    BY <2>6 DEF LifecycleStep, Lifecycle!Next
<1> QED
  BY <1>2, <1>3


-----------------------------------------------------------------------------
(* Steps that move one task *)

LEMMA MoveRefines ==
  ASSUME NEW t, NEW from, NEW to, Moved(t, from, to), wf.status = "running", wf'.status = wf.status,
         \/ /\ from = "pending" /\ to = "running"
            /\ tasks[t].deps \subseteq WithStatus("completed")
         \/ from = "running" /\ to \in {"completed", "failed"}
         \/ from = "failed" /\ to = "recovering"
         \/ from = "recovering" /\ to \in {"pending", "failed", "skipped"}
  PROVE  LifecycleStep
<1>1. Lifecycle!Move(t, from, to)
  BY MovedIsMove
<1>2. t \in DOMAIN Board
  BY DEF Moved, Board, Shown
<1>3. CASE from = "pending"
  <2>1. Board[t].deps \subseteq {u \in DOMAIN Board : Board[u].status = "completed"}
    BY <1>2, <1>3, ShownRows DEF WithStatus
  <2>2. Lifecycle!Start(t)
    BY <1>1, <1>3, <2>1 DEF Lifecycle!Start, Lifecycle!WithTaskStatus, Board, Shown
  <2> QED
    BY <1>2, <2>2 DEF LifecycleStep, Lifecycle!Next, Board, Shown
<1>4. CASE from # "pending"
  <2>1. Lifecycle!Execute(t) \/ Lifecycle!Recover(t)
    BY <1>1, <1>4, Zenon DEF Lifecycle!Execute, Lifecycle!Recover
  <2> QED
    BY <1>2, <2>1 DEF LifecycleStep, Lifecycle!Next, Board, Shown
<1> QED
  BY <1>3, <1>4

LEMMA ExecuteRefines ==
  ASSUME EngineInv, NEW t \in DOMAIN exec, Execute(t)
  PROVE  LifecycleStep
<1>1. pc = "collect" /\ UNCHANGED wf
  BY DEF Execute, MarkRunning, AgentSucceeds, AgentFails, AgentTimesOut, EngineInv, PhaseInv
<1>2. wf.status = "running"
  BY <1>1, RunningWhileActive DEF Active
<1>3. CASE UNCHANGED tasks
  BY <1>1, <1>3, Invisible
<1>4. CASE Moved(t, "pending", "running") /\ tasks[t].deps \subseteq WithStatus("completed")
  BY <1>1, <1>2, <1>4, MoveRefines
<1>5. CASE Moved(t, "running", "completed")
  BY <1>1, <1>2, <1>5, MoveRefines
<1>6. CASE Moved(t, "running", "failed")
  BY <1>1, <1>2, <1>6, MoveRefines
<1> QED
  BY <1>3, <1>4, <1>5, <1>6, ExecuteMoves

\* The task a diagnostician is for is recovering when the decision is applied.
LEMMA DecisionRefines ==
  ASSUME EngineInv, NEW t \in DOMAIN exec, CollectDecision(t)
  PROVE  LifecycleStep
<1> USE DEF EngineInv
<1>1. pc = "collect" /\ UNCHANGED wf
  BY DEF CollectDecision, PhaseInv
<1>2. wf.status = "running"
  BY <1>1, RunningWhileActive DEF Active
<1>3. CASE UNCHANGED tasks
  BY <1>1, <1>3, Invisible
<1>4. CASE tasks' # tasks
  <2> DEFINE o == tasks[t].orig
  <2>1. o # 0 /\ \E decision : tasks' = [tasks EXCEPT ![o] = Decided(@, decision)]
    BY <1>4 DEF CollectDecision
  <2>2. PICK decision : tasks' = [tasks EXCEPT ![o] = Decided(@, decision)]
    BY <2>1, Zenon
  <2>3. Open(t) /\ t \in DOMAIN tasks
    BY <2>1 DEF Open, TypeOK
  <2>4. o \in DOMAIN tasks /\ tasks[o].status = "recovering"
    BY <1>1, <2>1, <2>3 DEF DiagnosisInv, Active
  <2>5. tasks[o] \in Task
    BY <2>4 DEF TypeOK
  <2>6. /\ DOMAIN tasks' = DOMAIN tasks
        /\ tasks'[o] = Decided(tasks[o], decision)
        /\ \A u \in DOMAIN tasks \ {o} : tasks'[u] = tasks[u]
    BY <2>2, <2>4 DEF TypeOK
  <2>7. /\ tasks'[o].status \in {"pending", "failed", "skipped"}
        /\ tasks'[o].role = tasks[o].role /\ tasks'[o].deps = tasks[o].deps
        /\ tasks'[o].depth = tasks[o].depth /\ tasks'[o].orig = tasks[o].orig
    BY <2>5, <2>6 DEF Decided, Task
  <2> HIDE DEF o
  <2>8. Moved(o, "recovering", tasks'[o].status)
    BY <2>4, <2>6, <2>7 DEF Moved
  <2> QED
    BY <1>1, <1>2, <2>7, <2>8, MoveRefines
<1> QED
  BY <1>3, <1>4

LEMMA RecoveringRefines ==
  ASSUME EngineInv, NEW t \in todo, MarkRecovering(t)
  PROVE  LifecycleStep
<1>1. pc = "recover" /\ UNCHANGED wf /\ (tasks' = tasks \/ tasks' = SetStatus(t, "recovering"))
  BY DEF MarkRecovering
<1>2. wf.status = "running"
  BY <1>1, RunningWhileActive DEF Active
<1>3. t \in DOMAIN tasks /\ tasks[t].status = "failed"
  BY <1>1 DEF EngineInv, LimitsInv, WithStatus
<1>4. CASE tasks' = tasks
  BY <1>1, <1>4, Invisible
<1>5. CASE tasks' = SetStatus(t, "recovering")
  <2>1. Moved(t, "failed", "recovering")
    BY <1>3, <1>5, SetStatusMoves DEF EngineInv, TaskStatus
  <2> QED
    BY <1>1, <1>2, <2>1, MoveRefines
<1> QED
  BY <1>1, <1>4, <1>5


-----------------------------------------------------------------------------
(* Steps that add tasks *)

LEMMA ShownLength ==
  ASSUME NEW rows \in Seq(Task)
  PROVE  Len(Shown(rows)) = Len(rows)
<1>1. DOMAIN rows = 1 .. Len(rows) /\ Len(rows) \in Nat
  OBVIOUS
<1>2. Shown(rows) = [t \in 1 .. Len(rows) |-> [status |-> rows[t].status, deps |-> rows[t].deps]]
  BY <1>1 DEF Shown
<1> QED
  BY <1>1, <1>2

LEMMA AddedRefines ==
  ASSUME TypeOK, TypeOK', wf.status = "running", wf'.status = wf.status,
         Len(tasks') > Len(tasks), \A t \in DOMAIN tasks : tasks'[t] = tasks[t],
         \A t \in DOMAIN tasks' \ DOMAIN tasks : tasks'[t].status = "pending"
  PROVE  LifecycleStep
<1>1. tasks \in Seq(Task) /\ tasks' \in Seq(Task)
  BY DEF TypeOK
<1>2. DOMAIN tasks \subseteq DOMAIN tasks'
  BY <1>1
<1>3. Len(Board') > Len(Board)
  <2>1. Len(Board) = Len(tasks) /\ Len(Board') = Len(tasks')
    BY <1>1, ShownLength DEF Board
  <2> QED
    BY <2>1
<1>4. \A t \in DOMAIN Board : Board'[t] = Board[t]
  BY <1>2 DEF Board, Shown
<1>5. \A t \in DOMAIN Board' \ DOMAIN Board : Board'[t].status = "pending"
  BY DEF Board, Shown
<1>6. Lifecycle!AddTasks
  BY <1>3, <1>4, <1>5, Zenon DEF Lifecycle!AddTasks, Board, Shown
<1> QED
  BY <1>6 DEF LifecycleStep, Lifecycle!Next

LEMMA PlanRefines ==
  ASSUME EngineInv, TypeOK', NEW t \in DOMAIN exec, CollectPlan(t)
  PROVE  LifecycleStep
<1>1. pc = "collect"
  BY DEF CollectPlan, EngineInv, PhaseInv
<1>2. wf.status = "running" /\ lwf.status = "running" /\ lwf \in Workflow
  BY <1>1, RunningWhileActive DEF Active, EngineInv, TypeOK
<1>3. t \in DOMAIN tasks
  BY DEF EngineInv, TypeOK
<1>4. PICK plan \in Plans : handlePlannerOutput(t, plan)
  BY DEF CollectPlan
<1>5. CASE ~(plan # <<>> /\ ValidateDAG(plan) /\ PlanFits(t, plan))
  BY <1>4, <1>5, Invisible DEF handlePlannerOutput
<1>6. CASE plan # <<>> /\ ValidateDAG(plan) /\ PlanFits(t, plan)
  <2>1. PICK created \in Creatable(plan), ok \in BOOLEAN :
          /\ RowsOf(plan, t, created)
          /\ wf' = IF ok /\ created = Len(plan) THEN Counted(plan, created) ELSE wf
    BY <1>4, <1>6 DEF handlePlannerOutput, RowsOf, Counted
  <2>2. created \in Nat
    BY DEF Creatable
  <2>3. wf'.status = wf.status
    BY <1>2, <2>1 DEF Counted, Workflow
  <2>4. /\ DOMAIN tasks \subseteq DOMAIN tasks'
        /\ \A u \in DOMAIN tasks : tasks'[u] = tasks[u]
        /\ \A u \in DOMAIN tasks' \ DOMAIN tasks : tasks'[u].status = "pending"
    BY <1>3, <1>6, <2>1, PlanRows DEF EngineInv
  <2>5. tasks \in Seq(Task) /\ tasks' \in Seq(Task)
    BY DEF EngineInv, TypeOK
  <2>6. CASE Len(tasks') > Len(tasks)
    BY <1>2, <2>3, <2>4, <2>6, AddedRefines DEF EngineInv
  <2>7. CASE ~(Len(tasks') > Len(tasks))
    <3>1. tasks' = tasks
      BY <2>4, <2>5, <2>7
    <3> QED
      BY <2>3, <3>1, Invisible
  <2> QED
    BY <2>6, <2>7
<1> QED
  BY <1>5, <1>6

LEMMA DiagnosticianRefines ==
  ASSUME EngineInv, TypeOK', CreateDiagnostician
  PROVE  LifecycleStep
<1>1. pc = "diag"
  BY DEF CreateDiagnostician
<1>2. wf.status = "running" /\ lwf.status = "running" /\ lwf \in Workflow
  BY <1>1, RunningWhileActive DEF Active, EngineInv, TypeOK
<1>3. cur \in DOMAIN tasks /\ tasks[cur].status = "recovering"
  BY <1>1 DEF EngineInv, LimitsInv, WithStatus
<1>4. tasks \in Seq(Task) /\ tasks' \in Seq(Task)
  BY DEF EngineInv, TypeOK
<1>5. CASE /\ tasks' = Append(tasks, NewTask("diagnostician", {}, tasks[cur].depth + 1, 0, cur))
           /\ lwf' = [lwf EXCEPT !.taskCount = @ + 1]
           /\ wf' = lwf' \/ wf' = wf
  <2>1. wf'.status = wf.status
    BY <1>2, <1>5 DEF Workflow
  <2> DEFINE new == NewTask("diagnostician", {}, tasks[cur].depth + 1, 0, cur)
  <2>2. new.status = "pending"
    BY DEF NewTask
  <2> HIDE DEF new
  <2>3. tasks' = Append(tasks, new)
    BY <1>5 DEF new
  <2>4. /\ Len(tasks') = Len(tasks) + 1 /\ Len(tasks) \in Nat
        /\ \A u \in DOMAIN tasks : tasks'[u] = tasks[u]
        /\ \A u \in DOMAIN tasks' \ DOMAIN tasks : tasks'[u] = new
    BY <1>4, <2>3
  <2>5. Len(tasks') > Len(tasks)
    BY <2>4
  <2> QED
    BY <1>2, <2>1, <2>2, <2>4, <2>5, AddedRefines DEF EngineInv
<1>6. CASE tasks' = tasks /\ wf' = wf
  BY <1>6, Invisible
<1>7. CASE tasks' = SetStatus(cur, "failed") /\ wf' = wf
  <2>1. Moved(cur, "recovering", "failed")
    BY <1>3, <1>7, SetStatusMoves DEF EngineInv, TaskStatus
  <2> QED
    BY <1>2, <1>7, <2>1, MoveRefines
<1> QED
  BY <1>5, <1>6, <1>7 DEF CreateDiagnostician

-----------------------------------------------------------------------------
(* The result *)

LEMMA StepRefines ==
  ASSUME EngineInv, TypeOK', [Next]_vars
  PROVE  LifecycleStep
<1>1. ASSUME NEW t \in DOMAIN exec, Collect(t)
      PROVE  LifecycleStep
  <2>1. CASE CollectError(t) \/ CollectResult(t)
    BY <2>1, Invisible DEF CollectError, CollectResult
  <2> QED
    BY <1>1, <2>1, PlanRefines, DecisionRefines DEF Collect
<1>2. CASE EndRecovery
  <2>1. pc \in Active /\ UNCHANGED tasks
    BY <1>2 DEF EndRecovery, Active
  <2>2. CASE attempted
    BY <1>2, <2>2, Invisible DEF EndRecovery
  <2>3. CASE ~attempted
    BY <1>2, <2>1, <2>3, FailRefines DEF EndRecovery
  <2> QED
    BY <2>2, <2>3
<1>3. CASE Recover
  <2>1. ASSUME NEW t \in todo, SkipRecovery(t)
        PROVE  LifecycleStep
    BY <2>1, Invisible DEF SkipRecovery
  <2>2. CASE BeginRecovery
    BY <2>2, Invisible DEF BeginRecovery
  <2> QED
    BY <1>2, <1>3, <2>1, <2>2, RecoveringRefines, DiagnosticianRefines DEF Recover
<1>4. CASE FinishOverBudget
  BY <1>4, FailRefines DEF FinishOverBudget, Active
<1>5. CASE Dispatch \/ Refresh \/ SchedulerError \/ Cancel \/ CallerDone \/ UNCHANGED vars
  BY <1>5, Invisible DEF Dispatch, Refresh, SchedulerError, Cancel, CallerDone, vars
<1> QED
  BY <1>1, <1>3, <1>4, <1>5, SubmitRefines, CancelRefines, FinishIdleRefines, ExecuteRefines
     DEF Next, Progress

LEMMA InitRefines == Init => Lifecycle!Init
BY DEF Init, NoWorkflow, Lifecycle!Init

\* Whatever goroutines, plans, failed statements and cancellations make the engine
\* write, readers of the store see only changes that the life cycle of workflows and
\* tasks allows.
THEOREM EngineImplementsLifecycle == Spec => LifecycleSpec
<1>1. EngineInv /\ TypeOK' /\ [Next]_vars =>
        [Lifecycle!Next]_<<wf.status,
          [t \in DOMAIN tasks |-> [status |-> tasks[t].status, deps |-> tasks[t].deps]]>>
  BY StepRefines DEF LifecycleStep, Board, Shown
<1> QED
  BY <1>1, InitRefines, EngineInvariance, TypeCorrect, PTL DEF Spec, LifecycleSpec, Lifecycle!Spec

=============================================================================
