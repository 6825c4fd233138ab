------------------------ MODULE WorkflowEngineProofs ------------------------
(***************************************************************************)
(* What the workflow engine guarantees for every plan, limit and schedule, *)
(* proved from the inductive invariant of WorkflowEngineSteps.             *)
(***************************************************************************)
EXTENDS WorkflowEngineSteps

LEMMA DecisionStep ==
  ASSUME EngineInv, TypeOK', NEW t \in DOMAIN exec, CollectDecision(t)
  PROVE  EngineInv'
<1> USE DEF EngineInv
<1>1. /\ UNCHANGED <<wf, pc, todo, cur, attempted>> /\ pc = "collect"
      /\ lwf'.taskCount = lwf.taskCount /\ lwf'.status = lwf.status
  BY DEF CollectDecision, recoveryVars, PhaseInv, TypeOK, Workflow
<1>2. DOMAIN exec' = DOMAIN exec \ {t} /\ \A u \in DOMAIN exec' : exec'[u] = exec[u]
  BY DEF CollectDecision, Collected
<1>3. t \in DOMAIN tasks /\ tasks[t].status = "completed"
  BY DEF CollectDecision, StageInv, TypeOK
<1>4. PhaseInv'
  BY <1>1 DEF PhaseInv, Active, Terminal
<1>5. CASE UNCHANGED tasks
  <2>1. StageInv' /\ DependencyOrder' /\ GraphInv' /\ LimitsInv'
    BY <1>1, <1>2, <1>5, SMTT(30) DEF StageInv, DependencyOrder, GraphInv, LimitsInv, WithStatus
  <2>2. DiagnosisInv'
    BY <1>1, <1>2, <1>5, SMTT(30) DEF DiagnosisInv, Open, WithStatus
  <2> QED
    BY <1>1, <1>4, <2>1, <2>2, NotCompleted, SMTT(30)
<1>6. CASE tasks' # tasks
  <2> DEFINE o == tasks[t].orig
  <2>1. o # 0 /\ \E decision : tasks' = [tasks EXCEPT ![o] = Decided(@, decision)]
    BY <1>6 DEF CollectDecision
  <2>2. PICK decision : tasks' = [tasks EXCEPT ![o] = Decided(@, decision)]
    BY <2>1, Zenon
  <2>3. Open(t)
    BY <2>1 DEF Open
  <2>4. o \in DOMAIN tasks /\ tasks[o].status = "recovering"
    BY <1>1, <1>3, <2>1, <2>3 DEF DiagnosisInv, Active
  <2>5. tasks[o] \in Task
    BY <2>4 DEF TypeOK
  <2>6. /\ DOMAIN tasks' = DOMAIN tasks
        /\ tasks'[o] = Decided(tasks[o], decision)
        /\ \A u \in DOMAIN tasks \ {o} : tasks'[u] = tasks[u]
    BY <2>2, <2>4 DEF TypeOK
  <2>7. /\ tasks'[o].status \in {"pending", "failed", "skipped"}
        /\ tasks'[o].role = tasks[o].role /\ tasks'[o].deps = tasks[o].deps
        /\ tasks'[o].depth = tasks[o].depth /\ tasks'[o].orig = tasks[o].orig
        /\ tasks'[o].retry \in {tasks[o].retry, tasks[o].retry + 1}
    BY <2>5, <2>6 DEF Decided, Task
  <2> HIDE DEF o
  <2>8. Moved(o, "recovering", tasks'[o].status)
    BY <2>4, <2>6, <2>7 DEF Moved
  <2>9. DependencyOrder' /\ WithStatus("completed") \subseteq WithStatus("completed")'
    BY <2>7, <2>8, MovedOrder
  <2>10. GraphInv'
    BY <2>8, MovedGraph
  <2>11. StageInv'
    BY <1>2, <2>4, <2>6, <2>9, SMTT(30) DEF StageInv, TypeOK
  <2>12. LimitsInv'
    <3>1. \A u \in DOMAIN tasks : tasks[u].retry \in Nat
      BY TaskFields DEF TypeOK
    <3>2. tasks[o].retry < MaxRetries
      BY <2>4 DEF LimitsInv
    <3>3. tasks'[o].retry <= MaxRetries
      BY <2>4, <2>7, <3>1, <3>2, ConstantTypes, SMTT(30)
    <3> QED
      BY <1>1, <2>6, <2>7, <3>3, SMTT(30) DEF LimitsInv
  <2>13. \A d \in DOMAIN tasks : Open(d)' => Open(d)
    BY <1>2, <2>4, <2>6, <2>7 DEF Open
  <2>14. ~Open(t)'
    BY <1>2, <1>3, <2>4, <2>6 DEF Open
  <2>15. \A d \in DOMAIN tasks : Open(d)' => tasks'[tasks[d].orig].status = "recovering"
    <3> SUFFICES ASSUME NEW d \in DOMAIN tasks, Open(d)'
                 PROVE  tasks'[tasks[d].orig].status = "recovering"
      OBVIOUS
    <3>1. tasks[d].orig # o
      BY <1>1, <1>3, <2>3, <2>13, <2>14, SMTT(30) DEF DiagnosisInv, Active, o
    <3>2. tasks[d].orig \in DOMAIN tasks /\ tasks[tasks[d].orig].status = "recovering"
      BY <1>1, <2>13, SMTT(30) DEF DiagnosisInv, Active, Open
    <3> QED
      BY <2>6, <3>1, <3>2
  <2>16. DiagnosisInv'
    BY <1>1, <2>6, <2>7, <2>13, <2>15, DiagnosisKept
  <2> QED
    BY <1>1, <1>4, <2>9, <2>10, <2>11, <2>12, <2>16, NotCompleted
<1> QED
  BY <1>5, <1>6

LEMMA RecoveringStep ==
  ASSUME EngineInv, TypeOK', NEW t \in todo, MarkRecovering(t)
  PROVE  EngineInv'
<1> USE DEF EngineInv
<1>1. /\ UNCHANGED <<wf, lwf, exec, attempted>> /\ pc = "recover" /\ todo' = todo \ {t}
      /\ tasks[t].retry < MaxRetries
      /\ tasks[t].depth + 1 < MaxDepth /\ lwf.taskCount + 1 <= MaxTasks
  BY DEF MarkRecovering, shouldAttemptRecovery
<1>2. DOMAIN exec = {}
  BY <1>1 DEF PhaseInv
<1>3. t \in DOMAIN tasks /\ tasks[t].status = "failed" /\ tasks[t].orig = 0
  BY <1>1 DEF LimitsInv, DiagnosisInv, WithStatus
<1>4. \/ UNCHANGED <<tasks, pc, cur>>
      \/ tasks' = SetStatus(t, "recovering") /\ pc' = "diag" /\ cur' = t
  BY DEF MarkRecovering
<1>5. PhaseInv' /\ StageInv'
  BY <1>1, <1>2, <1>4 DEF PhaseInv, StageInv, Active, Terminal
<1>6. CASE UNCHANGED <<tasks, pc, cur>>
  <2>1. DependencyOrder' /\ GraphInv' /\ LimitsInv'
    BY <1>1, <1>6, SMTT(30) DEF DependencyOrder, GraphInv, LimitsInv, WithStatus
  <2>2. DiagnosisInv'
    BY <1>1, <1>6 DEF DiagnosisInv, Open, WithStatus
  <2> QED
    BY <1>1, <1>5, <1>6, <2>1, <2>2, NotCompleted, SMTT(30)
<1>7. CASE tasks' = SetStatus(t, "recovering") /\ pc' = "diag" /\ cur' = t
  <2>1. Moved(t, "failed", "recovering") /\ tasks'[t].retry = tasks[t].retry
    BY <1>3, <1>7, SetStatusMoves DEF TaskStatus
  <2>2. DependencyOrder' /\ GraphInv'
    BY <2>1, MovedOrder, MovedGraph, SMTT(30)
  <2>3. LimitsInv'
    BY <1>1, <1>3, <1>7, <2>1, SMTT(30) DEF LimitsInv, Moved, WithStatus
  <2>4. \A d \in DOMAIN tasks : Open(d)' => Open(d) /\ tasks[d].orig # t
    BY <1>1, <1>2, <1>3, <2>1, SMTT(30) DEF Open, Moved, DiagnosisInv, Active
  <2>5. \A d \in DOMAIN tasks : Open(d)' => tasks'[tasks[d].orig].status = "recovering"
    BY <1>1, <2>1, <2>4, SMTT(30) DEF DiagnosisInv, Active, Moved, Open
  <2>6. DiagnosisInv'
    <3>1. \A d \in DOMAIN tasks' :
            tasks'[d].orig # 0 => tasks'[d].orig \in DOMAIN tasks' /\ tasks'[d].role = "diagnostician"
      BY <2>1 DEF DiagnosisInv, Moved
    <3>2. \A d \in DOMAIN tasks' : Open(d)' => tasks'[tasks'[d].orig].status = "recovering"
      BY <2>1, <2>5, SMTT(30) DEF Moved
    <3>3. \A d, e \in DOMAIN tasks' :
            Open(d)' /\ Open(e)' /\ tasks'[d].orig = tasks'[e].orig => d = e
      BY <1>1, <2>1, <2>4, Zenon DEF DiagnosisInv, Active, Moved
    <3>4. \A u \in WithStatus("recovering")' : tasks'[u].orig = 0
      BY <1>1, <1>3, <2>1, SMTT(30) DEF DiagnosisInv, Active, WithStatus, Moved
    <3>5. \A u \in todo' : tasks'[u].orig = 0
      BY <1>1, <2>1, SMTT(30) DEF DiagnosisInv, LimitsInv, WithStatus, Moved
    <3>6. \A d \in DOMAIN tasks' : Open(d)' => tasks'[d].orig # cur'
      BY <1>7, <2>1, <2>4 DEF Moved
    <3> QED
      BY <3>1, <3>2, <3>3, <3>4, <3>5, <3>6, SMTT(30) DEF DiagnosisInv
  <2> QED
    BY <1>5, <1>7, <2>2, <2>3, <2>6, NotCompleted, SMTT(30)
<1> QED
  BY <1>4, <1>6, <1>7

LEMMA DispatchStep ==
  ASSUME EngineInv, TypeOK', Dispatch
  PROVE  EngineInv'
<1> USE DEF EngineInv
<1>1. UNCHANGED <<wf, tasks, lwf, todo, cur, attempted>> /\ pc = "top" /\ pc' = "collect"
  BY DEF Dispatch, recoveryVars
<1>2. DOMAIN exec' \subseteq Ready /\ \A t \in DOMAIN exec' : exec'[t] = "start"
  BY DEF Dispatch
<1>3. StageInv'
  BY <1>1, <1>2 DEF StageInv, Ready, WithStatus
<1>4. PhaseInv' /\ DependencyOrder' /\ GraphInv' /\ LimitsInv'
  BY <1>1, SMTT(30) DEF PhaseInv, DependencyOrder, GraphInv, LimitsInv, WithStatus, Active, Terminal
<1>5. \A d \in DOMAIN tasks : Open(d)' => Open(d)
  BY <1>1, <1>2, SMTT(30) DEF Open, Ready, WithStatus
<1>6. DiagnosisInv'
  BY <1>1, <1>5 DEF DiagnosisInv, Active, WithStatus
<1> QED
  BY <1>1, <1>3, <1>4, <1>6, NotCompleted

LEMMA CancelStep ==
  ASSUME EngineInv, TypeOK', CancelWorkflow
  PROVE  EngineInv'
<1> USE DEF EngineInv
<1>1. pc = "top" /\ pc' = "returned" /\ UNCHANGED exec /\ lwf'.taskCount = lwf.taskCount
  BY DEF CancelWorkflow, TypeOK, Workflow
<1>2. wf'.status # "completed" /\ wf'.taskCount <= MaxTasks
  BY <1>1, SMTT(30) DEF CancelWorkflow, PhaseInv, LimitsInv, Active, TypeOK, Workflow
<1>3. DOMAIN tasks' = DOMAIN tasks
  BY DEF CancelWorkflow
<1>4. \A t \in DOMAIN tasks :
        /\ tasks'[t].role = tasks[t].role /\ tasks'[t].deps = tasks[t].deps
        /\ tasks'[t].depth = tasks[t].depth /\ tasks'[t].orig = tasks[t].orig
        /\ tasks'[t].retry = tasks[t].retry
        /\ tasks'[t].status # tasks[t].status =>
             tasks[t].status = "pending" /\ tasks'[t].status = "skipped"
  <2> SUFFICES ASSUME NEW t \in DOMAIN tasks
               PROVE  /\ tasks'[t].role = tasks[t].role /\ tasks'[t].deps = tasks[t].deps
                      /\ tasks'[t].depth = tasks[t].depth /\ tasks'[t].orig = tasks[t].orig
                      /\ tasks'[t].retry = tasks[t].retry
                      /\ tasks'[t].status # tasks[t].status =>
                           tasks[t].status = "pending" /\ tasks'[t].status = "skipped"
    OBVIOUS
  <2>1. tasks[t] \in Task
    BY DEF TypeOK
  <2>2. \/ tasks'[t] = tasks[t]
        \/ tasks[t].status = "pending" /\ tasks'[t] = [tasks[t] EXCEPT !.status = "skipped"]
    BY DEF CancelWorkflow
  <2>3. CASE tasks'[t] = tasks[t]
    BY <2>3
  <2>4. CASE tasks[t].status = "pending" /\ tasks'[t] = [tasks[t] EXCEPT !.status = "skipped"]
    BY <2>1, <2>4 DEF Task
  <2> QED
    BY <2>2, <2>3, <2>4
<1>5. PhaseInv' /\ StageInv'
  BY <1>1, <1>3 DEF PhaseInv, StageInv, Active, Terminal
<1>6. GraphInv'
  BY <1>3, <1>4 DEF GraphInv
<1>7. DependencyOrder'
  <2>1. WithStatus("completed") \subseteq WithStatus("completed")'
    BY <1>3, <1>4 DEF WithStatus
  <2>2. \A t \in DOMAIN tasks' :
          tasks'[t].status \in {"running", "completed", "failed", "recovering"} =>
            tasks[t].status = tasks'[t].status
    BY <1>3, <1>4
  <2>3. \A t \in DOMAIN tasks' :
          tasks'[t].status \in {"running", "completed", "failed", "recovering"} =>
            tasks'[t].deps \subseteq WithStatus("completed")
    BY <1>3, <1>4, <2>2 DEF DependencyOrder
  <2> QED
    BY <2>1, <2>3 DEF DependencyOrder
<1>8. LimitsInv'
  BY <1>1, <1>2, <1>3, <1>4, SMTT(30) DEF LimitsInv
<1>9. DiagnosisInv'
  BY <1>1, <1>3, <1>4 DEF DiagnosisInv, Active
<1> QED
  BY <1>2, <1>5, <1>6, <1>7, <1>8, <1>9, NotCompleted

-----------------------------------------------------------------------------
(* Steps that add tasks *)

LEMMA RootStep ==
  ASSUME EngineInv, TypeOK', CreateRootTask
  PROVE  EngineInv'
<1> USE DEF EngineInv
<1>1. /\ pc = "created" /\ pc' \in {"rooted", "refused"} /\ UNCHANGED <<wf, lwf, exec>>
      /\ tasks = <<>> /\ DOMAIN exec = {}
      /\ \/ tasks' = <<>> /\ pc' = "refused"
         \/ tasks' = <<NewTask("planner", {}, 0, 0, 0)>> /\ pc' = "rooted"
  BY DEF CreateRootTask, PhaseInv
<1>2. PhaseInv' /\ StageInv'
  BY <1>1 DEF PhaseInv, StageInv, Active, Terminal
<1>3. \A t \in DOMAIN tasks' :
        /\ t = 1 /\ tasks'[t].deps = {} /\ tasks'[t].status = "pending" /\ tasks'[t].orig = 0
        /\ tasks'[t].depth = 0 /\ tasks'[t].retry = 0
  BY <1>1 DEF NewTask
<1>4. DependencyOrder'
  BY <1>3 DEF DependencyOrder
<1>5. GraphInv'
  BY <1>3 DEF GraphInv
<1>6. LimitsInv'
  BY <1>1, <1>3, ConstantTypes DEF LimitsInv
<1>7. DiagnosisInv'
  BY <1>1, <1>3 DEF DiagnosisInv, Active
<1> QED
  BY <1>1, <1>2, <1>4, <1>5, <1>6, <1>7, NotCompleted

LEMMA DiagnosticianStep ==
  ASSUME EngineInv, TypeOK', CreateDiagnostician
  PROVE  EngineInv'
<1> USE DEF EngineInv
<1>1. /\ UNCHANGED <<exec, todo>> /\ pc = "diag" /\ pc' = "recover" /\ cur' = 0
  BY DEF CreateDiagnostician
<1>2. /\ cur \in DOMAIN tasks /\ tasks[cur] \in Task /\ tasks[cur].status = "recovering"
      /\ tasks[cur].depth + 1 < MaxDepth /\ lwf.taskCount + 1 <= MaxTasks
      /\ todo \subseteq WithStatus("failed") /\ DOMAIN exec = {} /\ cur # 0
  BY <1>1, SMTT(30) DEF LimitsInv, WithStatus, TypeOK, PhaseInv
<1>3. StageInv'
  BY <1>1, <1>2 DEF StageInv
<1>4. CASE UNCHANGED <<wf, lwf>> /\ (tasks' = tasks \/ tasks' = SetStatus(cur, "failed"))
  <2>1. PhaseInv'
    BY <1>1, <1>2, <1>4 DEF PhaseInv, Active, Terminal
  <2>2. CASE tasks' = tasks
    <3>1. DependencyOrder' /\ GraphInv' /\ LimitsInv'
      BY <1>1, <1>4, <2>2, SMTT(30) DEF DependencyOrder, GraphInv, LimitsInv, WithStatus
    <3>2. DiagnosisInv'
      BY <1>1, <2>2 DEF DiagnosisInv, Open, WithStatus, Active
    <3> QED
      BY <1>1, <1>3, <2>1, <3>1, <3>2, NotCompleted, SMTT(30)
  <2>3. CASE tasks' = SetStatus(cur, "failed")
    <3>1. Moved(cur, "recovering", "failed") /\ tasks'[cur].retry = tasks[cur].retry
      BY <1>2, <2>3, SetStatusMoves DEF TaskStatus
    <3>2. DependencyOrder' /\ GraphInv'
      BY <3>1, MovedOrder, MovedGraph, SMTT(30)
    <3>3. LimitsInv'
      BY <1>1, <1>4, <3>1, SMTT(30) DEF LimitsInv, Moved, WithStatus
    <3>4. \A d \in DOMAIN tasks : Open(d)' => Open(d) /\ tasks[d].orig # cur
      BY <1>1, <1>2, <3>1, SMTT(30) DEF Open, Moved, DiagnosisInv
    <3>5. \A d \in DOMAIN tasks : Open(d)' => tasks'[tasks[d].orig].status = "recovering"
      BY <1>1, <3>1, <3>4, SMTT(30) DEF DiagnosisInv, Active, Moved, Open
    <3>6. DiagnosisInv'
      <4>1. ASSUME NEW d \in DOMAIN tasks', tasks'[d].orig # 0
            PROVE  tasks'[d].orig \in DOMAIN tasks' /\ tasks'[d].role = "diagnostician"
        <5>1. /\ d \in DOMAIN tasks /\ DOMAIN tasks' = DOMAIN tasks
              /\ tasks'[d].orig = tasks[d].orig /\ tasks'[d].role = tasks[d].role
          BY <3>1 DEF Moved
        <5> QED
          BY <4>1, <5>1 DEF DiagnosisInv
      <4>2. \A d \in DOMAIN tasks' : Open(d)' => tasks'[tasks'[d].orig].status = "recovering"
        BY <3>1, <3>5, SMTT(30) DEF Moved
      <4>3. \A d, e \in DOMAIN tasks' :
              Open(d)' /\ Open(e)' /\ tasks'[d].orig = tasks'[e].orig => d = e
        BY <1>1, <3>1, <3>4, SMTT(30) DEF DiagnosisInv, Active, Moved
      <4>4. \A u \in WithStatus("recovering")' : tasks'[u].orig = 0
        BY <1>1, <3>1, SMTT(30) DEF DiagnosisInv, Active, WithStatus, Moved
      <4>5. \A u \in todo' : tasks'[u].orig = 0
        BY <1>1, <1>2, <3>1 DEF DiagnosisInv, WithStatus, Moved
      <4> QED
        BY <1>1, <4>1, <4>2, <4>3, <4>4, <4>5, Zenon DEF DiagnosisInv
    <3> QED
      BY <1>1, <1>3, <2>1, <3>2, <3>3, <3>6, NotCompleted
  <2> QED
    BY <1>4, <2>2, <2>3
<1>5. CASE /\ tasks' = Append(tasks, NewTask("diagnostician", {}, tasks[cur].depth + 1, 0, cur))
           /\ lwf' = [lwf EXCEPT !.taskCount = @ + 1] /\ wf' \in {wf, lwf'}
  <2> DEFINE new == Len(tasks) + 1
  <2>1. /\ DOMAIN tasks' = DOMAIN tasks \cup {new} /\ new \notin DOMAIN tasks /\ new \in Nat
        /\ tasks'[new] = NewTask("diagnostician", {}, tasks[cur].depth + 1, 0, cur)
        /\ \A t \in DOMAIN tasks : tasks'[t] = tasks[t]
    BY <1>5, SMTT(30) DEF TypeOK
  <2>2. /\ tasks'[new].role = "diagnostician" /\ tasks'[new].status = "pending"
        /\ tasks'[new].deps = {} /\ tasks'[new].depth = tasks[cur].depth + 1
        /\ tasks'[new].retry = 0 /\ tasks'[new].orig = cur
    BY <2>1 DEF NewTask
  <2> HIDE DEF new
  <2>3. lwf'.taskCount = lwf.taskCount + 1 /\ lwf'.status = lwf.status
    BY <1>5 DEF TypeOK, Workflow
  <2>4. PhaseInv'
    BY <1>1, <1>2, <1>5, <2>3, Zenon DEF PhaseInv, Active, Terminal
  <2>5. WithStatus("completed")' = WithStatus("completed")
    BY <2>1, <2>2 DEF WithStatus
  <2>6. DependencyOrder'
    BY <2>1, <2>2, <2>5 DEF DependencyOrder
  <2>7. GraphInv'
    <3>1. \A t \in DOMAIN tasks' : tasks'[t].deps \subseteq DOMAIN tasks' \cup {0}
      BY <2>1, <2>2 DEF GraphInv
    <3>2. ASSUME NEW S \in SUBSET DOMAIN tasks', S # {}
          PROVE  \E t \in S : tasks'[t].deps \cap S = {}
      <4>1. CASE new \in S
        BY <2>2, <4>1
      <4>2. CASE new \notin S
        BY <2>1, <3>2, <4>2 DEF GraphInv
      <4> QED
        BY <4>1, <4>2
    <3> QED
      BY <3>1, <3>2 DEF GraphInv
  <2>8. LimitsInv'
    <3>1. wf'.taskCount <= MaxTasks /\ lwf'.taskCount <= MaxTasks
      BY <1>2, <1>5, <2>3, Zenon DEF LimitsInv
    <3>2. \A t \in DOMAIN tasks' :
            /\ tasks'[t].depth < MaxDepth /\ tasks'[t].retry <= MaxRetries
            /\ tasks'[t].status = "recovering" => tasks'[t].retry < MaxRetries
      BY <1>2, <2>1, <2>2, ConstantTypes DEF LimitsInv
    <3>3. todo' \subseteq WithStatus("failed")'
      BY <1>1, <1>2, <2>1, SMTT(30) DEF WithStatus
    <3> QED
      BY <1>1, <3>1, <3>2, <3>3 DEF LimitsInv
  <2>9. \A d \in DOMAIN tasks : Open(d)' => Open(d)
    BY <1>1, <2>1, SMTT(30) DEF Open
  <2>10. DiagnosisInv'
    <3>1. ASSUME NEW d \in DOMAIN tasks', tasks'[d].orig # 0
          PROVE  tasks'[d].orig \in DOMAIN tasks' /\ tasks'[d].role = "diagnostician"
      <4>1. CASE d = new
        BY <1>2, <2>1, <2>2, <4>1
      <4>2. CASE d # new
        <5>1. d \in DOMAIN tasks /\ tasks'[d] = tasks[d]
          BY <2>1, <4>2
        <5> QED
          BY <2>1, <3>1, <5>1 DEF DiagnosisInv
      <4> QED
        BY <4>1, <4>2
    <3>2. ASSUME NEW d \in DOMAIN tasks', Open(d)'
          PROVE  tasks'[tasks'[d].orig].status = "recovering"
      <4>1. CASE d = new
        BY <1>2, <2>1, <2>2, <4>1, SMTT(30)
      <4>2. CASE d # new
        <5>1. d \in DOMAIN tasks /\ tasks'[d] = tasks[d] /\ Open(d)
          BY <2>1, <2>9, <3>2, <4>2
        <5>2. tasks[d].orig \in DOMAIN tasks /\ tasks[tasks[d].orig].status = "recovering"
          BY <1>1, <5>1 DEF DiagnosisInv, Active, Open
        <5> QED
          BY <2>1, <5>1, <5>2
      <4> QED
        BY <4>1, <4>2, Zenon
    <3>3. ASSUME NEW d \in DOMAIN tasks', NEW e \in DOMAIN tasks', Open(d)', Open(e)',
                 tasks'[d].orig = tasks'[e].orig
          PROVE  d = e
      <4>1. \A f \in DOMAIN tasks : Open(f)' => tasks[f].orig # cur
        BY <1>1, <2>9, Zenon DEF DiagnosisInv
      <4>2. CASE d \in DOMAIN tasks /\ e \in DOMAIN tasks
        BY <1>1, <2>1, <2>9, <3>3, <4>2, Zenon DEF DiagnosisInv, Active
      <4>3. CASE d = new \/ e = new
        BY <2>1, <2>2, <3>3, <4>1, <4>3, SMTT(30)
      <4> QED
        BY <2>1, <4>2, <4>3
    <3>4. ASSUME NEW u \in WithStatus("recovering")'
          PROVE  tasks'[u].orig = 0
      <4>1. u \in DOMAIN tasks /\ tasks'[u] = tasks[u] /\ tasks[u].status = "recovering"
        BY <2>1, <2>2 DEF WithStatus
      <4> QED
        BY <1>1, <4>1 DEF DiagnosisInv, Active, WithStatus
    <3>5. \A u \in todo' : tasks'[u].orig = 0
      BY <1>1, <1>2, <2>1, Zenon DEF DiagnosisInv, WithStatus
    <3> QED
      BY <1>1, <3>1, <3>2, <3>3, <3>4, <3>5, Zenon DEF DiagnosisInv
  <2> QED
    BY <1>1, <1>3, <2>4, <2>6, <2>7, <2>8, <2>10, NotCompleted
<1> QED
  BY <1>4, <1>5 DEF CreateDiagnostician

LEMMA SubTaskFields ==
  ASSUME NEW plan, NEW i, NEW t, NEW created
  PROVE  LET row == SubTask(plan, i, t, created)
         IN /\ row.status = "pending" /\ row.retry = 0 /\ row.orig = 0
            /\ row.depth = tasks[t].depth + 1
            /\ row.deps = ResolveDependencies(plan[i].deps, created)
BY DEF SubTask, NewTask

LEMMA Resolved ==
  ASSUME NEW deps, NEW created, NEW x \in ResolveDependencies(deps, created)
  PROVE  \E d \in deps : x = IdOf(d, created)
BY DEF ResolveDependencies

RowsOf(plan, t, created) ==
  tasks' = tasks \o [i \in 1 .. created |-> SubTask(plan, i, t, created)]

\* The rows a planner adds: what they have, and that they close no cycle.
LEMMA PlanRows ==
  ASSUME TypeOK, NEW t \in DOMAIN tasks, NEW plan \in Plans, ValidateDAG(plan),
         NEW created \in Creatable(plan),
         RowsOf(plan, t, created)
  PROVE  /\ DOMAIN tasks \subseteq DOMAIN tasks'
         /\ \A u \in DOMAIN tasks : tasks'[u] = tasks[u]
         /\ \A u \in DOMAIN tasks' \ DOMAIN tasks :
              /\ u \in Nat /\ u > Len(tasks) /\ u - Len(tasks) \in 1 .. created
              /\ tasks'[u].status = "pending" /\ tasks'[u].retry = 0 /\ tasks'[u].orig = 0
              /\ tasks'[u].depth = tasks[t].depth + 1
         /\ GraphInv => GraphInv'
<1>1. created \in Nat /\ created <= Len(plan) /\ plan \in Seq(TaskSpec) /\ Len(plan) \in Nat
  BY EngineAssumption, SMTT(30) DEF EngineAssumption, Creatable
<1>2. /\ Len(tasks) \in Nat /\ DOMAIN tasks = 1 .. Len(tasks)
      /\ DOMAIN tasks' = 1 .. (Len(tasks) + created)
      /\ \A u \in DOMAIN tasks : tasks'[u] = tasks[u]
      /\ \A u \in (Len(tasks) + 1) .. (Len(tasks) + created) :
           tasks'[u] = SubTask(plan, u - Len(tasks), t, created)
  <2> DEFINE more == [i \in 1 .. created |-> SubTask(plan, i, t, created)]
  <2>1. more \in Seq(Task) /\ Len(more) = created
    BY SubTasksType, Zenon
  <2>2. \A i \in 1 .. created : more[i] = SubTask(plan, i, t, created)
    OBVIOUS
  <2>3. tasks' = tasks \o more
    BY DEF RowsOf
  <2> HIDE DEF more
  <2>4. tasks \in Seq(Task) /\ Len(tasks) \in Nat /\ DOMAIN tasks = 1 .. Len(tasks)
    BY DEF TypeOK
  <2>5. /\ DOMAIN tasks' = 1 .. (Len(tasks) + created)
        /\ \A u \in DOMAIN tasks : tasks'[u] = tasks[u]
        /\ \A u \in (Len(tasks) + 1) .. (Len(tasks) + created) :
             tasks'[u] = more[u - Len(tasks)] /\ u - Len(tasks) \in 1 .. created
    <3>1. Len(tasks') = Len(tasks) + created /\ DOMAIN tasks' = 1 .. Len(tasks')
      <4>1. tasks' \in Seq(Task) /\ Len(tasks') = Len(tasks) + Len(more)
        BY <2>1, <2>3, <2>4, RowsAdded, Zenon
      <4> QED
        BY <2>1, <4>1
    <3>2. \A u \in DOMAIN tasks : tasks'[u] = tasks[u]
      BY <2>1, <2>3, <2>4
    <3>3. \A u \in DOMAIN tasks' \ DOMAIN tasks : tasks'[u] = more[u - Len(tasks)]
      BY <2>1, <2>3, <2>4, RowsAdded
    <3> QED
      BY <1>1, <2>4, <3>1, <3>2, <3>3
  <2> QED
    BY <2>2, <2>4, <2>5
<1>3. \A u \in DOMAIN tasks' \ DOMAIN tasks :
        /\ u \in Nat /\ u > Len(tasks) /\ u - Len(tasks) \in 1 .. created
        /\ tasks'[u] = SubTask(plan, u - Len(tasks), t, created)
  BY <1>1, <1>2, SMTT(30)
<1>4. \A u \in DOMAIN tasks' \ DOMAIN tasks :
        /\ tasks'[u].status = "pending" /\ tasks'[u].retry = 0 /\ tasks'[u].orig = 0
        /\ tasks'[u].depth = tasks[t].depth + 1
        /\ tasks'[u].deps = ResolveDependencies(plan[u - Len(tasks)].deps, created)
  <2> SUFFICES ASSUME NEW u \in DOMAIN tasks' \ DOMAIN tasks
               PROVE  /\ tasks'[u].status = "pending" /\ tasks'[u].retry = 0
                      /\ tasks'[u].orig = 0 /\ tasks'[u].depth = tasks[t].depth + 1
                      /\ tasks'[u].deps =
                           ResolveDependencies(plan[u - Len(tasks)].deps, created)
    OBVIOUS
  <2>1. tasks'[u] = SubTask(plan, u - Len(tasks), t, created)
    BY <1>3, SMTT(30)
  <2>2. tasks'[u].status = "pending" /\ tasks'[u].retry = 0 /\ tasks'[u].orig = 0
    BY <2>1, SubTaskFields, SMTT(30)
  <2>3. tasks'[u].depth = tasks[t].depth + 1
    BY <2>1, SubTaskFields, SMTT(30)
  <2>4. tasks'[u].deps = ResolveDependencies(plan[u - Len(tasks)].deps, created)
    BY <2>1, SubTaskFields
  <2> QED
    BY <2>2, <2>3, <2>4, SMTT(30)
<1>5. \A i \in 1 .. Len(plan) : plan[i].deps \subseteq 1 .. Len(plan)
  BY <1>1, SMTT(30) DEF ValidateDAG
<1>6. ASSUME GraphInv
      PROVE  GraphInv'
  <2>1. \A u \in DOMAIN tasks' : tasks'[u].deps \subseteq DOMAIN tasks' \cup {0}
    <3>1. ASSUME NEW u \in DOMAIN tasks
          PROVE  tasks'[u].deps \subseteq DOMAIN tasks' \cup {0}
      BY <1>1, <1>2, <1>6 DEF GraphInv
    <3>2. ASSUME NEW u \in DOMAIN tasks' \ DOMAIN tasks
          PROVE  tasks'[u].deps \subseteq DOMAIN tasks' \cup {0}
      <4>1. u - Len(tasks) \in 1 .. Len(plan)
        BY <1>1, <1>3
      <4>2. plan[u - Len(tasks)].deps \subseteq 1 .. Len(plan)
        BY <1>5, <4>1
      <4>4. ASSUME NEW x \in tasks'[u].deps
            PROVE  x \in DOMAIN tasks' \cup {0}
        <5>1. PICK d \in plan[u - Len(tasks)].deps : x = IdOf(d, created)
          BY <1>4, <4>4, Resolved
        <5> QED
          BY <1>1, <1>2, <4>2, <5>1, SMTT(30) DEF IdOf
      <4> QED
        BY <4>4
    <3> QED
      BY <3>1, <3>2, SMTT(30)
  <2>2. ASSUME NEW S \in SUBSET DOMAIN tasks', S # {}
        PROVE  \E u \in S : tasks'[u].deps \cap S = {}
    <3>1. CASE S \cap DOMAIN tasks # {}
      <4>1. PICK u \in S \cap DOMAIN tasks : tasks[u].deps \cap (S \cap DOMAIN tasks) = {}
        BY <1>6, <3>1, Zenon DEF GraphInv
      <4>2. tasks[u].deps \subseteq DOMAIN tasks \cup {0}
        BY <1>6 DEF GraphInv
      <4>3. 0 \notin S
        BY <1>1, <1>2
      <4> QED
        BY <1>2, <4>1, <4>2, <4>3
    <3>2. CASE S \cap DOMAIN tasks = {}
      <4> DEFINE I == {i \in 1 .. created : Len(tasks) + i \in S}
      <4>1. I \in SUBSET DOMAIN plan
        BY <1>1
      <4>2. I # {}
        <5>1. PICK u \in S : TRUE
          BY <2>2
        <5>2. u \in DOMAIN tasks' \ DOMAIN tasks
          BY <3>2, <5>1
        <5>3. u \in Nat /\ u - Len(tasks) \in 1 .. created
          BY <1>3, <5>2
        <5>4. Len(tasks) + (u - Len(tasks)) = u
          BY <1>2, <5>3
        <5> QED
          BY <5>1, <5>3, <5>4
      <4>3. PICK i \in I : plan[i].deps \cap I = {}
        BY <4>1, <4>2, Zenon DEF ValidateDAG
      <4> DEFINE u == Len(tasks) + i
      <4>4. u \in S /\ u \in DOMAIN tasks' \ DOMAIN tasks /\ u - Len(tasks) = i
        BY <1>1, <1>2, <3>2
      <4>5. plan[i].deps \subseteq 1 .. Len(plan)
        BY <1>1, <1>5, SMTT(30)
      <4>7. ASSUME NEW x \in tasks'[u].deps, x \in S
            PROVE  FALSE
        <5>1. PICK d \in plan[i].deps : x = IdOf(d, created)
          <6>1. tasks'[u].deps = ResolveDependencies(plan[i].deps, created)
            BY <1>4, <4>4, SMTT(30)
          <6> HIDE DEF u
          <6> QED
            BY <4>7, <6>1, Resolved, SMTT(30)
        <5>2. x # 0
          BY <1>1, <1>2, <4>7
        <5>3. d \in I
          BY <1>1, <4>5, <4>7, <5>1, <5>2 DEF IdOf
        <5> QED
          BY <4>3, <5>3, SMTT(30)
      <4> QED
        BY <4>4, <4>7
    <3> QED
      BY <3>1, <3>2
  <2> QED
    BY <2>1, <2>2 DEF GraphInv
<1>7. DOMAIN tasks \subseteq DOMAIN tasks'
  BY <1>1, <1>2
<1> QED
  BY <1>2, <1>3, <1>4, <1>6, <1>7, Zenon

Counted(plan, created) ==
  IF created = Len(plan) THEN [lwf EXCEPT !.taskCount = @ + created] ELSE lwf

LEMMA PlanStep ==
  ASSUME EngineInv, TypeOK', NEW t \in DOMAIN exec, CollectPlan(t)
  PROVE  EngineInv'
<1>1. UNCHANGED <<pc, todo, cur>> /\ pc = "collect"
  BY DEF CollectPlan, recoveryVars, EngineInv, PhaseInv
<1>2. DOMAIN exec' \subseteq DOMAIN exec /\ \A u \in DOMAIN exec' : exec'[u] = exec[u]
  BY DEF CollectPlan, Collected
<1>3. t \in DOMAIN tasks /\ tasks[t] \in Task
  <2>1. DOMAIN exec \subseteq DOMAIN tasks /\ tasks \in Seq(Task)
    BY DEF EngineInv, TypeOK
  <2> QED
    BY <2>1
<1>4. PICK plan \in Plans : handlePlannerOutput(t, plan)
  BY DEF CollectPlan
<1>5. /\ wf.status = "running" /\ wf.taskCount <= MaxTasks
      /\ lwf.status = "running" /\ lwf.taskCount <= MaxTasks /\ lwf \in Workflow
      /\ tasks[t].cost \in Nat
  <2>1. wf.status = "running" /\ lwf.status = "running"
    BY <1>1 DEF EngineInv, PhaseInv, Active
  <2>2. wf.taskCount <= MaxTasks /\ lwf.taskCount <= MaxTasks /\ lwf \in Workflow
    BY DEF EngineInv, LimitsInv, TypeOK
  <2> QED
    BY <1>3, <2>1, <2>2, TaskFields
<1>6. CASE ~(plan # <<>> /\ ValidateDAG(plan) /\ PlanFits(t, plan))
  <2>1. lwf' = [lwf EXCEPT !.spent = @ + tasks[t].cost] /\ UNCHANGED <<wf, tasks>>
    BY <1>4, <1>6 DEF handlePlannerOutput
  <2>2. lwf'.taskCount = lwf.taskCount /\ lwf'.status = lwf.status
    BY <1>5, <2>1 DEF Workflow
  <2>3. CollectEffect
    BY <1>1, <1>2, <1>5, <2>1, <2>2 DEF CollectEffect
  <2>4. GraphInv'
    BY <2>1 DEF EngineInv, GraphInv
  <2> QED
    BY <1>1, <2>3, <2>4, CollectInv, NotCompleted DEF EngineInv
<1>7. CASE plan # <<>> /\ ValidateDAG(plan) /\ PlanFits(t, plan)
  <2>1. PICK created \in Creatable(plan), ok \in BOOLEAN :
          /\ RowsOf(plan, t, created)
          /\ wf' = IF ok /\ created = Len(plan) THEN Counted(plan, created) ELSE wf
          /\ lwf' = [Counted(plan, created) EXCEPT !.spent = @ + tasks[t].cost]
    BY <1>4, <1>7 DEF handlePlannerOutput, RowsOf, Counted
  <2>2. created \in Nat /\ Len(plan) \in Nat
    BY EngineAssumption DEF EngineAssumption, Creatable
  <2>3. /\ Counted(plan, created) \in Workflow /\ Counted(plan, created).status = "running"
        /\ Counted(plan, created).taskCount <= MaxTasks
    <3>1. CASE created = Len(plan)
      <4>1. lwf.taskCount + created <= MaxTasks
        BY <1>7, <3>1 DEF PlanFits
      <4>2. /\ Counted(plan, created) = [lwf EXCEPT !.taskCount = @ + created]
            /\ Counted(plan, created) \in Workflow
        BY <1>5, <2>2, <3>1, WorkflowCounters DEF Counted
      <4> QED
        BY <1>5, <4>1, <4>2 DEF Workflow
    <3>2. CASE created # Len(plan)
      BY <1>5, <3>2 DEF Counted
    <3> QED
      BY <3>1, <3>2
  <2>4. /\ wf'.status = "running" /\ wf'.taskCount <= MaxTasks
        /\ lwf'.status = "running" /\ lwf'.taskCount <= MaxTasks
    BY <1>5, <2>1, <2>3 DEF Workflow
  <2>5. /\ DOMAIN tasks \subseteq DOMAIN tasks'
        /\ \A u \in DOMAIN tasks : tasks'[u] = tasks[u]
        /\ \A u \in DOMAIN tasks' \ DOMAIN tasks :
             /\ tasks'[u].status = "pending" /\ tasks'[u].retry = 0 /\ tasks'[u].orig = 0
             /\ tasks'[u].depth = tasks[t].depth + 1
        /\ GraphInv'
    BY <1>3, <1>7, <2>1, PlanRows DEF EngineInv
  <2>6. CollectEffect
    <3>1. tasks[t].depth + 1 < MaxDepth
      BY <1>7 DEF PlanFits
    <3> QED
      BY <1>1, <1>2, <2>4, <2>5, <3>1 DEF CollectEffect
  <2> QED
    BY <1>1, <2>5, <2>6, CollectInv, NotCompleted DEF EngineInv
<1> QED
  BY <1>6, <1>7

-----------------------------------------------------------------------------
(* The results *)

LEMMA InvStep ==
  ASSUME EngineInv, [Next]_vars
  PROVE  EngineInv'
<1>1. TypeOK'
  BY TypeStep
<1>2. ASSUME NEW t \in DOMAIN exec, Execute(t) \/ Collect(t)
      PROVE  EngineInv'
  BY <1>1, <1>2, ExecuteStep, CollectTaskStep, PlanStep, DecisionStep DEF Collect
<1>3. ASSUME NEW t \in todo, SkipRecovery(t) \/ MarkRecovering(t)
      PROVE  EngineInv'
  BY <1>1, <1>3, PassStep, RecoveringStep
<1>4. CASE Submit
  BY <1>1, <1>4, SubmitStep, RootStep DEF Submit
<1>5. CASE BeginRecovery \/ CreateDiagnostician \/ EndRecovery
  BY <1>1, <1>5, PassStep, DiagnosticianStep, LoopStep
<1>6. CASE CancelWorkflow \/ FinishIdle \/ Dispatch \/ Refresh \/ FinishOverBudget
  BY <1>1, <1>6, CancelStep, DispatchStep, LoopStep
<1>7. CASE SchedulerError \/ Cancel \/ CallerDone \/ UNCHANGED vars
  BY <1>1, <1>7, LoopStep
<1> QED
  BY <1>2, <1>3, <1>4, <1>5, <1>6, <1>7 DEF Next, Progress, Recover

\* The strengthening of the properties below is an invariant of the engine.
THEOREM EngineInvariance == Spec => []EngineInv
<1>1. Init => EngineInv
  BY InitInv
<1>2. EngineInv /\ [Next]_vars => EngineInv'
  BY InvStep
<1> QED
  BY <1>1, <1>2, PTL DEF Spec

\* The store, the scheduler's copy and the goroutines keep their types.
THEOREM TypeCorrect == Spec => []TypeOK
<1>1. EngineInv => TypeOK
  BY DEF EngineInv
<1> QED
  BY <1>1, EngineInvariance, PTL

\* GetReadyTasks and the dispatch respect the dependencies of every plan.
THEOREM OrderRespected == Spec => []DependencyOrder
<1>1. EngineInv => DependencyOrder
  BY DEF EngineInv
<1> QED
  BY <1>1, EngineInvariance, PTL

\* TaskCount, depth and retries stay within their limits, whatever they are.
THEOREM LimitsHold == Spec => []LimitsRespected
<1>1. EngineInv => LimitsRespected
  BY DEF EngineInv, LimitsInv, LimitsRespected
<1> QED
  BY <1>1, EngineInvariance, PTL

\* A workflow that finishWorkflow reports completed has completed its tasks.
THEOREM CompletedCorrect == Spec => []CompletedMeansDone
<1>1. EngineInv => CompletedMeansDone
  BY DEF EngineInv
<1> QED
  BY <1>1, EngineInvariance, PTL

\* A stored terminal status is final: run has returned and has no goroutine left.
THEOREM TerminalIsFinal == Spec => FinalIsFinal
<1>1. ASSUME EngineInv, [Next]_vars, wf.status \in Terminal
      PROVE  UNCHANGED <<wf, tasks>>
  <2>1. pc = "returned" /\ DOMAIN exec = {}
    BY <1>1 DEF EngineInv, PhaseInv
  <2> QED
    BY <1>1, <2>1 DEF Next, Progress, Submit, CreateWorkflow, CreateRootTask, StartWorkflow,
      CancelWorkflow, FinishIdle, Dispatch, Refresh, FinishOverBudget, SchedulerError, Recover,
      BeginRecovery, SkipRecovery, MarkRecovering, CreateDiagnostician, EndRecovery, Cancel,
      CallerDone, vars
<1>2. EngineInv /\ [Next]_vars => [wf.status \in Terminal => UNCHANGED <<wf, tasks>>]_vars
  BY <1>1
<1> QED
  BY <1>2, EngineInvariance, PTL DEF Spec, FinalIsFinal

=============================================================================
