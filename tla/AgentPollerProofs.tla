-------------------------- MODULE AgentPollerProofs --------------------------
(***************************************************************************)
(* No task is executed twice, for any number of polling agents, slots,     *)
(* plans and failed statements, and however often agents stop and return;  *)
(* and a workflow is ended with work left over only after a fault, or when *)
(* its tasks were listed while a planner was creating more.                *)
(***************************************************************************)
EXTENDS AgentPoller, TLAPS, SequenceTheorems, FiniteSetTheorems

\* The ids are the paths of a tree: a sub-task's is the next free one below its
\* planner's, so that creating it overwrites no row.
TreeInv ==
  /\ DOMAIN tasks \subseteq Seq(Nat)
  /\ \A u \in DOMAIN tasks : u # <<>> => SubSeq(u, 1, Len(u) - 1) \in DOMAIN tasks
  /\ \A t \in DOMAIN tasks :
       /\ IsFiniteSet(Children(t))
       /\ Children(t) = {Append(t, i) : i \in 1 .. Cardinality(Children(t))}

\* A pending task has not been executed and has no goroutine.
TaskInv ==
  \A t \in DOMAIN tasks :
    /\ {"status", "runs"} \subseteq DOMAIN tasks[t]
    /\ tasks[t].runs \in {0, 1}
    /\ tasks[t].status = "pending" => tasks[t].runs = 0

\* A task has one goroutine at most, which has not executed it when it begins.
JobInv ==
  /\ DOMAIN jobs \subseteq Agents \X DOMAIN tasks
  /\ \A j, k \in DOMAIN jobs : j[2] = k[2] => j = k
  /\ \A j \in DOMAIN jobs :
       /\ {"stage", "copy", "left", "cost"} \subseteq DOMAIN jobs[j]
       /\ tasks[j[2]].status # "pending"
       /\ jobs[j].stage = "begin" => tasks[j[2]].runs = 0

PollInv == TreeInv /\ TaskInv /\ JobInv

-----------------------------------------------------------------------------
(* The tree *)

LEMMA AppendPath ==
  ASSUME NEW t \in Seq(Nat), NEW i \in Nat
  PROVE  /\ Append(t, i) \in Seq(Nat) /\ Append(t, i) # <<>>
         /\ Len(Append(t, i)) = Len(t) + 1
         /\ SubSeq(Append(t, i), 1, Len(t)) = t
         /\ Append(t, i)[Len(t) + 1] = i
<1>1. /\ Append(t, i) \in Seq(Nat) /\ Append(t, i) # <<>>
      /\ Len(Append(t, i)) = Len(t) + 1
      /\ \A k \in 1 .. Len(t) : Append(t, i)[k] = t[k]
      /\ Append(t, i)[Len(t) + 1] = i
  BY AppendProperties
<1>2. SubSeq(Append(t, i), 1, Len(t)) = t
  <2> DEFINE a == Append(t, i)
  <2> DEFINE s == SubSeq(a, 1, Len(t))
  <2>1. Len(t) \in Nat
    OBVIOUS
  <2>2. \A k \in 1 .. Len(t) : a[k] \in Nat
    BY <1>1
  <2> HIDE DEF a
  <2>3. /\ s \in Seq(Nat) /\ Len(s) = IF 1 <= Len(t) THEN Len(t) - 1 + 1 ELSE 0
        /\ \A k \in 1 .. Len(t) - 1 + 1 : s[k] = a[1 + k - 1]
    BY <2>1, <2>2, SubSeqProperties
  <2> HIDE DEF s
  <2>4. Len(s) = Len(t) /\ \A k \in 1 .. Len(t) : s[k] = t[k]
    BY <1>1, <2>1, <2>3 DEF a
  <2> QED
    BY <2>3, <2>4 DEF s, a
<1> QED
  BY <1>1, <1>2

\* A row that is not there, next to its brothers.
LEMMA NextPath ==
  ASSUME TreeInv, NEW t \in DOMAIN tasks
  PROVE  LET id == Append(t, Cardinality(Children(t)) + 1)
         IN id \in Seq(Nat) /\ id \notin DOMAIN tasks
<1> DEFINE n == Cardinality(Children(t))
<1> DEFINE id == Append(t, n + 1)
<1>1. t \in Seq(Nat) /\ n \in Nat
  BY FS_CardinalityType DEF TreeInv
<1>2. Len(id) = Len(t) + 1 /\ SubSeq(id, 1, Len(t)) = t /\ id \in Seq(Nat) /\ id[Len(t) + 1] = n + 1
  BY <1>1, AppendPath
<1>3. ASSUME id \in DOMAIN tasks PROVE FALSE
  <2>1. id \in Children(t)
    BY <1>2, <1>3 DEF Children
  <2>2. PICK i \in 1 .. n : id = Append(t, i)
    <3>1. Children(t) = {Append(t, i) : i \in 1 .. n}
      BY Zenon DEF TreeInv
    <3> QED
      BY <2>1, <3>1, Zenon
  <2>3. i \in Nat /\ id[Len(t) + 1] = i
    BY <1>1, <2>2, AppendPath
  <2> QED
    BY <1>1, <1>2, <2>3
<1> QED
  BY <1>2, <1>3

LEMMA TreeGrows ==
  ASSUME TreeInv, NEW parent \in DOMAIN tasks,
         DOMAIN tasks' = DOMAIN tasks \cup {Append(parent, Cardinality(Children(parent)) + 1)}
  PROVE  TreeInv'
<1> DEFINE n == Cardinality(Children(parent))
<1> DEFINE id == Append(parent, n + 1)
<1>1. parent \in Seq(Nat) /\ n \in Nat /\ DOMAIN tasks \subseteq Seq(Nat)
  BY FS_CardinalityType DEF TreeInv
<1>2. /\ Len(id) = Len(parent) + 1 /\ SubSeq(id, 1, Len(parent)) = parent
      /\ id \in Seq(Nat) /\ id # <<>>
  BY <1>1, AppendPath
<1>3. id \notin DOMAIN tasks
  BY NextPath
<1> HIDE DEF n, id
<1>4. DOMAIN tasks' = DOMAIN tasks \cup {id}
  BY DEF n, id
<1>5. DOMAIN tasks' \subseteq Seq(Nat)
  BY <1>1, <1>2, <1>4
<1>6. ASSUME NEW u \in DOMAIN tasks', u # <<>>
      PROVE  SubSeq(u, 1, Len(u) - 1) \in DOMAIN tasks'
  <2>1. CASE u = id
    <3>1. Len(u) - 1 = Len(parent)
      BY <1>1, <1>2, <2>1
    <3> QED
      BY <1>2, <1>4, <2>1, <3>1
  <2>2. CASE u # id
    BY <1>4, <1>6, <2>2 DEF TreeInv
  <2> QED
    BY <2>1, <2>2
<1>7. ASSUME NEW t \in DOMAIN tasks'
      PROVE  /\ IsFiniteSet(Children(t)')
             /\ Children(t)' = {Append(t, i) : i \in 1 .. Cardinality(Children(t)')}
  <2>1. CASE t = parent
    <3>1. Children(t)' = Children(t) \cup {id} /\ id \notin Children(t)
      BY <1>2, <1>3, <1>4, <2>1 DEF Children
    <3>2. /\ IsFiniteSet(Children(t)) /\ Children(t) = {Append(t, i) : i \in 1 .. n}
      BY <2>1 DEF TreeInv, n
    <3>3. IsFiniteSet(Children(t)') /\ Cardinality(Children(t)') = n + 1
      <4>1. /\ IsFiniteSet(Children(t) \cup {id})
            /\ Cardinality(Children(t) \cup {id}) = Cardinality(Children(t)) + 1
        BY <3>1, <3>2, FS_AddElement
      <4> QED
        BY <2>1, <3>1, <4>1, Zenon DEF n
    <3>4. {Append(t, i) : i \in 1 .. n + 1} = {Append(t, i) : i \in 1 .. n} \cup {Append(t, n + 1)}
      <4>1. 1 .. n + 1 = (1 .. n) \cup {n + 1}
        BY <1>1
      <4> QED
        BY <4>1, Zenon
    <3> QED
      BY <2>1, <3>1, <3>2, <3>3, <3>4 DEF id
  <2>2. CASE t = id
    <3>1. ASSUME NEW u \in Children(t)' PROVE FALSE
      <4>1. u \in DOMAIN tasks' /\ Len(u) = Len(id) + 1 /\ SubSeq(u, 1, Len(id)) = id
        BY <2>2 DEF Children
      <4>2. u \in DOMAIN tasks /\ u # <<>> /\ Len(u) - 1 = Len(id)
        BY <1>1, <1>2, <1>4, <1>5, <4>1
      <4> QED
        BY <1>3, <4>1, <4>2 DEF TreeInv
    <3>2. Children(t)' = {}
      BY <3>1
    <3>3. IsFiniteSet(Children(t)') /\ Cardinality(Children(t)') = 0
      BY <3>2, FS_EmptySet
    <3>4. {Append(t, i) : i \in 1 .. 0} = {}
      OBVIOUS
    <3> QED
      BY <3>2, <3>3, <3>4
  <2>3. CASE t # parent /\ t # id
    <3>1. t \in DOMAIN tasks
      BY <1>4, <2>3
    <3>2. id \notin Children(t)'
      <4>1. t \in Seq(Nat) /\ Len(t) \in Nat /\ Len(parent) \in Nat
        BY <1>1, <3>1
      <4>2. ASSUME id \in Children(t)' PROVE FALSE
        <5>1. Len(id) = Len(t) + 1 /\ SubSeq(id, 1, Len(t)) = t
          BY <4>2, Zenon DEF Children
        <5>2. \A a, b \in Nat : a + 1 = b + 1 => a = b
          OBVIOUS
        <5>3. Len(t) = Len(parent)
          BY <1>2, <4>1, <5>1, <5>2, Zenon
        <5> QED
          BY <1>2, <2>3, <5>1, <5>3, Zenon
      <4> QED
        BY <4>2
    <3>3. Children(t)' = Children(t)
      BY <1>4, <3>2 DEF Children
    <3> QED
      BY <3>1, <3>3 DEF TreeInv
  <2> QED
    BY <2>1, <2>2, <2>3
<1> QED
  BY <1>5, <1>6, <1>7 DEF TreeInv

LEMMA TreeKept ==
  ASSUME TreeInv, DOMAIN tasks' = DOMAIN tasks
  PROVE  TreeInv'
<1>1. \A t : Children(t)' = Children(t)
  BY DEF Children
<1> QED
  BY <1>1 DEF TreeInv

-----------------------------------------------------------------------------
(* The goroutines *)

\* The goroutine j goes on or ends; it does not begin again.
GoesOn(j) ==
  /\ DOMAIN jobs' \subseteq DOMAIN jobs
  /\ \A k \in DOMAIN jobs' \ {j} : jobs'[k] = jobs[k]
  /\ j \in DOMAIN jobs' =>
       /\ {"stage", "copy", "left", "cost"} \subseteq DOMAIN jobs'[j]
       /\ jobs'[j].stage # "begin"

\* It leaves the rows alone, or gives its own a status other than pending.
Records(j) ==
  \/ UNCHANGED tasks
  \/ \E s \in {"completed", "failed"} : tasks' = SetTask(j[2], s)

LEMMA GoesOnKeeps ==
  ASSUME PollInv, NEW j \in DOMAIN jobs, GoesOn(j), Records(j)
  PROVE  PollInv'
<1> USE DEF PollInv
<1>1. j[2] \in DOMAIN tasks
  BY DEF JobInv
<1>2. /\ DOMAIN tasks' = DOMAIN tasks
      /\ \A t \in DOMAIN tasks : /\ DOMAIN tasks'[t] = DOMAIN tasks[t]
                                 /\ tasks'[t].runs = tasks[t].runs
                                 /\ tasks'[t].status = "pending" => tasks[t].status = "pending"
  <2>1. CASE UNCHANGED tasks
    BY <2>1
  <2>2. CASE \E s \in {"completed", "failed"} : tasks' = SetTask(j[2], s)
    <3>1. PICK s \in {"completed", "failed"} : tasks' = SetTask(j[2], s)
      BY <2>2
    <3>2. /\ DOMAIN tasks' = DOMAIN tasks
          /\ tasks'[j[2]] = [tasks[j[2]] EXCEPT !.status = s]
          /\ \A t \in DOMAIN tasks \ {j[2]} : tasks'[t] = tasks[t]
      BY <1>1, <3>1, Zenon DEF SetTask
    <3>3. /\ DOMAIN tasks'[j[2]] = DOMAIN tasks[j[2]]
          /\ tasks'[j[2]].runs = tasks[j[2]].runs /\ tasks'[j[2]].status = s
      BY <1>1, <3>2 DEF TaskInv
    <3> QED
      BY <3>2, <3>3
  <2> QED
    BY <2>1, <2>2 DEF Records
<1>3. TreeInv'
  BY <1>2, TreeKept
<1>4. TaskInv'
  BY <1>2 DEF TaskInv
<1>5. JobInv'
  BY <1>2 DEF JobInv, GoesOn
<1> QED
  BY <1>3, <1>4, <1>5

LEMMA GotoGoesOn ==
  ASSUME PollInv, NEW j \in DOMAIN jobs, NEW stage, stage # "begin", Goto(j, stage)
  PROVE  GoesOn(j)
<1>1. {"stage", "copy", "left", "cost"} \subseteq DOMAIN jobs[j]
  BY DEF PollInv, JobInv
<1>2. /\ DOMAIN jobs' = DOMAIN jobs /\ jobs'[j] = At(j, stage)
      /\ \A k \in DOMAIN jobs \ {j} : jobs'[k] = jobs[k]
  BY DEF Goto
<1>3. DOMAIN At(j, stage) = DOMAIN jobs[j] /\ At(j, stage).stage = stage
  BY <1>1 DEF At
<1> QED
  BY <1>1, <1>2, <1>3 DEF GoesOn

LEMMA EndGoesOn ==
  ASSUME NEW j \in DOMAIN jobs, End(j)
  PROVE  GoesOn(j)
BY DEF End, GoesOn

LEMMA CopyGoesOn ==
  ASSUME PollInv, NEW j \in DOMAIN jobs, NEW stage, stage # "begin", NEW copy,
         jobs' = [jobs EXCEPT ![j].stage = stage, ![j].copy = copy]
  PROVE  GoesOn(j)
<1>1. {"stage", "copy", "left", "cost"} \subseteq DOMAIN jobs[j]
  BY DEF PollInv, JobInv
<1>2. /\ DOMAIN jobs' = DOMAIN jobs
      /\ jobs'[j] = [jobs[j] EXCEPT !.stage = stage, !.copy = copy]
      /\ \A k \in DOMAIN jobs \ {j} : jobs'[k] = jobs[k]
  OBVIOUS
<1>3. /\ DOMAIN [jobs[j] EXCEPT !.stage = stage, !.copy = copy] = DOMAIN jobs[j]
      /\ [jobs[j] EXCEPT !.stage = stage, !.copy = copy].stage = stage
  BY <1>1
<1> QED
  BY <1>1, <1>2, <1>3 DEF GoesOn

\* A claim starts goroutines for tasks that were pending.
LEMMA ClaimStep ==
  ASSUME PollInv, NEW a \in Agents, NEW ok \in BOOLEAN, NEW loaded \in BOOLEAN,
         Claim(a, ok, loaded)
  PROVE  PollInv'
<1> DEFINE won == picked[a] \cap WithStatus("pending")
<1> USE DEF PollInv
<1>1. won \subseteq DOMAIN tasks /\ \A t \in won : tasks[t].status = "pending"
  BY DEF WithStatus
<1>2. /\ tasks' = [t \in DOMAIN tasks |->
           IF ok /\ t \in won THEN [tasks[t] EXCEPT !.status = "running"] ELSE tasks[t]]
      /\ jobs' = IF ok /\ loaded THEN Put(jobs, {a} \X won, NewJob) ELSE jobs
  BY DEF Claim
<1> HIDE DEF won
<1>3. /\ DOMAIN tasks' = DOMAIN tasks
      /\ \A t \in DOMAIN tasks :
           /\ DOMAIN tasks'[t] = DOMAIN tasks[t]
           /\ tasks'[t].runs = tasks[t].runs
           /\ tasks'[t].status = IF ok /\ t \in won THEN "running" ELSE tasks[t].status
  BY <1>2 DEF TaskInv
<1>4. TreeInv'
  BY <1>3, TreeKept
<1>5. TaskInv'
  BY <1>3 DEF TaskInv
<1>6. JobInv'
  <2>1. CASE ~(ok /\ loaded)
    <3>1. jobs' = jobs
      BY <1>2, <2>1
    <3> QED
      BY <1>3, <3>1 DEF JobInv
  <2>2. CASE ok /\ loaded
    <3>1. /\ DOMAIN jobs' = DOMAIN jobs \cup ({a} \X won)
          /\ \A j \in {a} \X won : jobs'[j] = NewJob
          /\ \A j \in DOMAIN jobs \ ({a} \X won) : jobs'[j] = jobs[j]
      BY <1>2, <2>2 DEF Put
    <3>2. DOMAIN jobs' \subseteq Agents \X DOMAIN tasks'
      BY <1>1, <1>3, <3>1 DEF JobInv
    <3>3. \A j \in DOMAIN jobs : j[2] \notin won
      BY <1>1 DEF JobInv
    <3>4. \A j, k \in DOMAIN jobs' : j[2] = k[2] => j = k
      BY <3>1, <3>3 DEF JobInv
    <3>5. /\ {"stage", "copy", "left", "cost"} \subseteq DOMAIN NewJob
          /\ NewJob.stage = "begin"
      BY DEF NewJob
    <3>6. ASSUME NEW j \in DOMAIN jobs'
          PROVE  /\ {"stage", "copy", "left", "cost"} \subseteq DOMAIN jobs'[j]
                 /\ tasks'[j[2]].status # "pending"
                 /\ jobs'[j].stage = "begin" => tasks'[j[2]].runs = 0
      <4>1. CASE j \in {a} \X won
        <5>1. j[2] \in won /\ jobs'[j] = NewJob
          BY <3>1, <4>1
        <5>2. j[2] \in DOMAIN tasks /\ tasks[j[2]].status = "pending"
          BY <1>1, <5>1
        <5> QED
          BY <1>3, <2>2, <3>5, <5>1, <5>2 DEF TaskInv
      <4>2. CASE j \notin {a} \X won
        <5>1. j \in DOMAIN jobs /\ jobs'[j] = jobs[j]
          BY <3>1, <4>2
        <5> QED
          BY <1>3, <3>3, <5>1 DEF JobInv
      <4> QED
        BY <4>1, <4>2
    <3> QED
      BY <3>2, <3>4, <3>6 DEF JobInv
  <2> QED
    BY <2>1, <2>2
<1> QED
  BY <1>4, <1>5, <1>6

\* The execution is counted as the goroutine leaves its beginning.
LEMMA BeginStep ==
  ASSUME PollInv, NEW j \in DOMAIN jobs, NEW loaded \in BOOLEAN, NEW marked \in BOOLEAN,
         Begin(j, loaded, marked)
  PROVE  PollInv'
<1>1. CASE ~loaded
  <2>1. End(j) /\ UNCHANGED tasks
    BY <1>1 DEF Begin
  <2> QED
    BY <2>1, EndGoesOn, GoesOnKeeps DEF Records
<1>2. CASE loaded /\ ~marked
  <2>1. Goto(j, "latest") /\ UNCHANGED tasks
    BY <1>2 DEF Begin
  <2> QED
    BY <2>1, GotoGoesOn, GoesOnKeeps DEF Records
<1>3. CASE loaded /\ marked
  <2> USE DEF PollInv
  <2> DEFINE t == j[2]
  <2>1. /\ jobs' = [jobs EXCEPT ![j].stage = "running", ![j].copy = wf]
        /\ tasks' = [tasks EXCEPT ![t].status = "running", ![t].runs = @ + 1]
        /\ jobs[j].stage = "begin"
    BY <1>3 DEF Begin
  <2>2. GoesOn(j)
    BY <2>1, CopyGoesOn
  <2>3. t \in DOMAIN tasks /\ tasks[t].runs = 0
    BY <2>1 DEF JobInv
  <2>4. {"status", "runs"} \subseteq DOMAIN tasks[t]
    BY <2>3 DEF TaskInv
  <2> HIDE DEF t
  <2>5. /\ DOMAIN tasks' = DOMAIN tasks
        /\ tasks'[t] = [tasks[t] EXCEPT !.status = "running", !.runs = @ + 1]
        /\ \A u \in DOMAIN tasks \ {t} : tasks'[u] = tasks[u]
    BY <2>1, <2>3
  <2>6. /\ DOMAIN tasks'[t] = DOMAIN tasks[t]
        /\ tasks'[t].status = "running" /\ tasks'[t].runs = tasks[t].runs + 1
    BY <2>4, <2>5
  <2>7. tasks'[t].runs = 1
    BY <2>3, <2>6
  <2>8. TreeInv'
    BY <2>5, TreeKept
  <2>9. TaskInv'
    BY <2>4, <2>5, <2>6, <2>7 DEF TaskInv
  <2>10. JobInv'
    <3>1. /\ DOMAIN jobs' \subseteq Agents \X DOMAIN tasks'
          /\ \A k, l \in DOMAIN jobs' : k[2] = l[2] => k = l
      BY <2>2, <2>5 DEF JobInv, GoesOn
    <3>2. ASSUME NEW k \in DOMAIN jobs'
          PROVE  /\ {"stage", "copy", "left", "cost"} \subseteq DOMAIN jobs'[k]
                 /\ tasks'[k[2]].status # "pending"
                 /\ jobs'[k].stage = "begin" => tasks'[k[2]].runs = 0
      <4>1. CASE k = j
        BY <2>2, <2>6, <4>1 DEF GoesOn, t
      <4>2. CASE k # j
        <5>1. k \in DOMAIN jobs /\ jobs'[k] = jobs[k] /\ k[2] \in DOMAIN tasks
          BY <2>2, <4>2 DEF GoesOn, JobInv
        <5>2. tasks'[k[2]] = tasks[k[2]]
          BY <2>5, <4>2, <5>1 DEF JobInv, t
        <5> QED
          BY <5>1, <5>2 DEF JobInv
      <4> QED
        BY <4>1, <4>2
    <3> QED
      BY <3>1, <3>2 DEF JobInv
  <2> QED
    BY <2>8, <2>9, <2>10
<1> QED
  BY <1>1, <1>2, <1>3

LEMMA SucceedStep ==
  ASSUME PollInv, NEW j \in DOMAIN jobs, NEW cost \in BOOLEAN, NEW plan, NEW ok \in BOOLEAN,
         AgentSucceeds(j, cost, plan, ok)
  PROVE  PollInv'
<1>1. {"stage", "copy", "left", "cost"} \subseteq DOMAIN jobs[j]
  BY DEF PollInv, JobInv
<1>2. Records(j)
  BY DEF AgentSucceeds, Records
<1>3. CASE ok /\ PlanFits(j, plan)
  <2>1. PICK c : jobs' = [jobs EXCEPT ![j] =
          [@ EXCEPT !.stage = "creating", !.left = plan, !.cost = cost, !.copy = c]]
    BY <1>3, Zenon DEF AgentSucceeds
  <2>2. /\ DOMAIN jobs' = DOMAIN jobs
        /\ jobs'[j] = [jobs[j] EXCEPT !.stage = "creating", !.left = plan, !.cost = cost,
                                      !.copy = c]
        /\ \A k \in DOMAIN jobs \ {j} : jobs'[k] = jobs[k]
    BY <2>1, Zenon
  <2>3. /\ DOMAIN jobs'[j] = DOMAIN jobs[j] /\ jobs'[j].stage = "creating"
    BY <1>1, <2>2
  <2>4. GoesOn(j)
    BY <1>1, <2>2, <2>3 DEF GoesOn
  <2> QED
    BY <1>2, <2>4, GoesOnKeeps
<1>4. CASE ~(ok /\ PlanFits(j, plan))
  <2>1. PICK stage \in {"cost", "latest"} : Goto(j, stage)
    BY <1>4 DEF AgentSucceeds, AfterOutput, Goto
  <2>2. GoesOn(j)
    BY <2>1, GotoGoesOn
  <2> QED
    BY <1>2, <2>2, GoesOnKeeps
<1> QED
  BY <1>3, <1>4

\* A new row has a path of its own, and nobody runs it yet.
LEMMA CreateStep ==
  ASSUME PollInv, NEW j \in DOMAIN jobs, NEW ok \in BOOLEAN, CreateTask(j, ok)
  PROVE  PollInv'
<1> DEFINE spec == Head(jobs[j].left)
           parent == j[2]
           id == Append(parent, Cardinality(Children(parent)) + 1)
           row == NewTask(spec.role, {Append(parent, d) : d \in spec.deps})
<1>1. CASE ok /\ spec.role # "unknown"
  <2> USE DEF PollInv
  <2>1. /\ jobs[j].stage = "creating"
        /\ tasks' = Put(tasks, {id}, row) /\ jobs' = [jobs EXCEPT ![j].left = Tail(@)]
    BY <1>1, Zenon DEF CreateTask
  <2>2. parent \in DOMAIN tasks /\ {"stage", "copy", "left", "cost"} \subseteq DOMAIN jobs[j]
    BY DEF JobInv
  <2>3. id \notin DOMAIN tasks
    BY <2>2, NextPath
  <2>4. {"status", "runs"} \subseteq DOMAIN row /\ row.status = "pending" /\ row.runs = 0
    BY DEF NewTask
  <2>5. DOMAIN tasks' = DOMAIN tasks \cup {id}
    BY <2>1 DEF Put
  <2>6. TreeInv'
    BY <2>2, <2>5, TreeGrows
  <2> HIDE DEF id, row
  <2>7. tasks'[id] = row /\ \A t \in DOMAIN tasks : tasks'[t] = tasks[t]
    BY <2>1, <2>3 DEF Put
  <2>8. TaskInv'
    BY <2>4, <2>5, <2>7 DEF TaskInv
  <2>9. /\ DOMAIN jobs' = DOMAIN jobs
        /\ DOMAIN jobs'[j] = DOMAIN jobs[j] /\ jobs'[j].stage = "creating"
        /\ \A k \in DOMAIN jobs \ {j} : jobs'[k] = jobs[k]
    BY <2>1, <2>2
  <2>10. JobInv'
    BY <2>2, <2>5, <2>7, <2>9 DEF JobInv
  <2> QED
    BY <2>6, <2>8, <2>10
<1>2. CASE ~(ok /\ spec.role # "unknown")
  <2>1. UNCHANGED tasks /\ \E stage \in {"cost", "latest"} : Goto(j, stage)
    BY <1>2 DEF CreateTask, AfterOutput
  <2> QED
    BY <2>1, GotoGoesOn, GoesOnKeeps DEF Records
<1> QED
  BY <1>1, <1>2

\* The other steps of a goroutine write its own row at most, and never start again.
LEMMA JobStep ==
  ASSUME PollInv, NEW j \in DOMAIN jobs, Job(j)
  PROVE  PollInv'
<1>1. ASSUME NEW loaded \in BOOLEAN, NEW marked \in BOOLEAN, Begin(j, loaded, marked)
      PROVE  PollInv'
  BY <1>1, BeginStep
<1>2. ASSUME NEW cost \in BOOLEAN, NEW plan \in Plans, NEW ok \in BOOLEAN,
             AgentSucceeds(j, cost, plan, ok)
      PROVE  PollInv'
  BY <1>2, SucceedStep
<1>3. CASE AgentTimesOut(j)
  BY <1>3, GotoGoesOn, GoesOnKeeps DEF AgentTimesOut, Records
<1>4. ASSUME NEW ok \in BOOLEAN, AgentFails(j, ok) PROVE PollInv'
  <2>1. Goto(j, "latest") /\ Records(j)
    BY <1>4 DEF AgentFails, Records
  <2> QED
    BY <2>1, GotoGoesOn, GoesOnKeeps
<1>5. ASSUME NEW ok \in BOOLEAN, CreateTask(j, ok) PROVE PollInv'
  BY <1>5, CreateStep
<1>6. ASSUME NEW ok \in BOOLEAN, SaveCount(j, ok) \/ WriteCost(j, ok) PROVE PollInv'
  <2>1. UNCHANGED tasks /\ \E stage \in {"cost", "latest"} : Goto(j, stage)
    BY <1>6 DEF SaveCount, WriteCost, AfterOutput
  <2> QED
    BY <2>1, GotoGoesOn, GoesOnKeeps DEF Records
<1>7. ASSUME NEW ok \in BOOLEAN, ReadCost(j, ok) PROVE PollInv'
  <2>1. CASE ok
    <3>1. UNCHANGED tasks /\ jobs' = [jobs EXCEPT ![j].stage = "charge", ![j].copy = wf]
      BY <1>7, <2>1, Zenon DEF ReadCost
    <3>2. GoesOn(j)
      BY <3>1, CopyGoesOn
    <3> QED
      BY <3>1, <3>2, GoesOnKeeps DEF Records
  <2>2. CASE ~ok
    BY <1>7, <2>2, GotoGoesOn, GoesOnKeeps DEF ReadCost, Records
  <2> QED
    BY <2>1, <2>2
<1>8. ASSUME NEW ok \in BOOLEAN, LoadLatest(j, ok) PROVE PollInv'
  <2>1. CASE ok
    <3>1. UNCHANGED tasks /\ jobs' = [jobs EXCEPT ![j].stage = "list", ![j].copy = wf]
      BY <1>8, <2>1, Zenon DEF LoadLatest
    <3>2. GoesOn(j)
      BY <3>1, CopyGoesOn
    <3> QED
      BY <3>1, <3>2, GoesOnKeeps DEF Records
  <2>2. CASE ~ok
    BY <1>8, <2>2, EndGoesOn, GoesOnKeeps DEF LoadLatest, Records
  <2> QED
    BY <2>1, <2>2
<1>9. ASSUME NEW ok \in BOOLEAN, ListTasks(j, ok) PROVE PollInv'
  <2>1. CASE ok /\ InProgress = {}
    <3>1. UNCHANGED tasks
          /\ jobs' = [jobs EXCEPT ![j].stage = "save", ![j].copy.status = Outcome]
      BY <1>9, <2>1, Zenon DEF ListTasks
    <3>2. jobs' = [jobs EXCEPT ![j].stage = "save",
                               ![j].copy = [jobs[j].copy EXCEPT !.status = Outcome]]
      BY <3>1
    <3>3. GoesOn(j)
      BY <3>2, CopyGoesOn
    <3> QED
      BY <3>1, <3>3, GoesOnKeeps DEF Records
  <2>2. CASE ~(ok /\ InProgress = {})
    <3>1. UNCHANGED tasks /\ End(j)
      BY <1>9, <2>2, Zenon DEF ListTasks
    <3> QED
      BY <3>1, EndGoesOn, GoesOnKeeps DEF Records
  <2> QED
    BY <2>1, <2>2
<1>10. ASSUME NEW ok \in BOOLEAN, finishWorkflow(j, ok) PROVE PollInv'
  BY <1>10, EndGoesOn, GoesOnKeeps DEF finishWorkflow, Records
<1> QED
  BY <1>1, <1>2, <1>3, <1>4, <1>5, <1>6, <1>7, <1>8, <1>9, <1>10 DEF Job

\* A stopped agent takes its goroutines with it; the rows stay as they are.
LEMMA StopStep ==
  ASSUME PollInv, NEW a \in Agents, Stop(a)
  PROVE  PollInv'
<1>1. /\ UNCHANGED tasks /\ DOMAIN jobs' \subseteq DOMAIN jobs
      /\ \A j \in DOMAIN jobs' : jobs'[j] = jobs[j]
  BY DEF Stop
<1> QED
  BY <1>1, TreeKept DEF PollInv, TaskInv, JobInv

-----------------------------------------------------------------------------

LEMMA InitPoll ==
  ASSUME Init
  PROVE  PollInv
<1>1. DOMAIN tasks = {<<>>} /\ tasks[<<>>] = NewTask("planner", {}) /\ DOMAIN jobs = {}
  BY DEF Init
<1>2. Children(<<>>) = {}
  BY <1>1 DEF Children
<1>3. IsFiniteSet({}) /\ Cardinality({}) = 0 /\ {Append(<<>>, i) : i \in 1 .. 0} = {}
  BY FS_EmptySet
<1>4. TreeInv
  <2>1. DOMAIN tasks \subseteq Seq(Nat)
    BY <1>1
  <2>2. Children(<<>>) = {Append(<<>>, i) : i \in 1 .. Cardinality(Children(<<>>))}
    BY <1>2, <1>3, Zenon
  <2>3. \A t \in DOMAIN tasks : t = <<>>
    BY <1>1, Zenon
  <2> QED
    BY <1>2, <1>3, <2>1, <2>2, <2>3, Zenon DEF TreeInv
<1>5. TaskInv
  BY <1>1 DEF TaskInv, NewTask
<1>6. JobInv
  BY <1>1 DEF JobInv
<1> QED
  BY <1>4, <1>5, <1>6 DEF PollInv

\* Polls, claims and goroutines of every agent keep the rows and the goroutines in
\* step: a task has one goroutine at most, and none before it is claimed.
THEOREM PollInvariance == Spec => []PollInv
<1>1. Init => PollInv
  BY InitPoll
<1>2. PollInv /\ [Next]_vars => PollInv'
  <2> SUFFICES ASSUME PollInv, [Next]_vars
               PROVE  PollInv'
    OBVIOUS
  <2>1. ASSUME NEW a \in Agents, SelectReady(a) \/ Restart(a) PROVE PollInv'
    <3>1. UNCHANGED <<tasks, jobs>>
      BY <2>1 DEF SelectReady, Restart
    <3> QED
      BY <3>1, TreeKept DEF PollInv, TaskInv, JobInv
  <2>2. ASSUME NEW a \in Agents, NEW ok \in BOOLEAN, NEW loaded \in BOOLEAN, Claim(a, ok, loaded)
        PROVE  PollInv'
    BY <2>2, ClaimStep
  <2>3. ASSUME NEW a \in Agents, Stop(a) PROVE PollInv'
    BY <2>3, StopStep
  <2>4. ASSUME NEW j \in DOMAIN jobs, Job(j) PROVE PollInv'
    BY <2>4, JobStep
  <2>5. CASE UNCHANGED vars
    BY <2>5, TreeKept DEF PollInv, TaskInv, JobInv, vars
  <2> QED
    BY <2>1, <2>2, <2>3, <2>4, <2>5 DEF Next, Poll
<1> QED
  BY <1>1, <1>2, PTL DEF Spec

\* ClaimReadyTasks decides between any number of agents: no task is executed
\* twice, whatever fails and whoever stops and comes back.
THEOREM ExecutesOnce == Spec => []ExecutedOnce
<1>1. PollInv => ExecutedOnce
  BY DEF PollInv, TaskInv, ExecutedOnce
<1> QED
  BY <1>1, PollInvariance, PTL

-----------------------------------------------------------------------------
(* The end of the workflow *)

\* The workflow is over, or a goroutine holds a copy that says so.
Over == wf.status \in Final \/ \E j \in DOMAIN jobs : jobs[j].copy.status \in Final

CopyInv == "status" \in DOMAIN wf /\ \A j \in DOMAIN jobs : "status" \in DOMAIN jobs[j].copy

\* A goroutine that executes a task has it marked as running, and a workflow is
\* over only with nothing in progress and nobody creating tasks.
OpenInv ==
  /\ \A j \in DOMAIN jobs : jobs[j].stage \in {"begin", "running"} => tasks[j[2]].status = "running"
  /\ Over => InProgress = {} /\ Creating = {}

DoneInv ==
  /\ faults \in Nat /\ CopyInv
  /\ faults = 0 /\ ~raced => OpenInv

LEMMA StatementCounts ==
  ASSUME faults \in Nat, NEW ok \in BOOLEAN, Statement(ok)
  PROVE  faults' \in Nat /\ (faults' = 0 => faults = 0)
BY DEF Statement

\* Who executes a task or creates tasks keeps the workflow open.
LEMMA WorkKeepsOpen ==
  ASSUME PollInv, OpenInv, NEW j \in DOMAIN jobs,
         jobs[j].stage \in {"begin", "running", "creating"}
  PROVE  ~Over
<1>1. CASE jobs[j].stage = "creating"
  BY <1>1 DEF OpenInv, Creating
<1>2. CASE jobs[j].stage # "creating"
  <2>1. j[2] \in WithStatus("running")
    BY <1>2 DEF PollInv, JobInv, OpenInv, WithStatus
  <2> QED
    BY <2>1 DEF OpenInv, InProgress
<1> QED
  BY <1>1, <1>2

\* What j writes and holds says that the workflow is over only if something did
\* before, and it starts neither a task nor a plan then.
Carries(j) ==
  /\ "status" \in DOMAIN wf' /\ (wf'.status \in Final => Over)
  /\ j \in DOMAIN jobs' =>
       /\ "status" \in DOMAIN jobs'[j].copy /\ (jobs'[j].copy.status \in Final => Over)
       /\ jobs'[j].stage \notin {"begin", "running"}
       /\ jobs'[j].stage = "creating" => jobs[j].stage \in {"running", "creating"}

LEMMA CarriesKeeps ==
  ASSUME PollInv, DoneInv, NEW j \in DOMAIN jobs, NEW ok \in BOOLEAN, Statement(ok),
         GoesOn(j), Records(j), Carries(j), UNCHANGED raced
  PROVE  DoneInv'
<1>1. faults' \in Nat /\ (faults' = 0 => faults = 0)
  BY StatementCounts DEF DoneInv
<1>2. CopyInv'
  BY DEF DoneInv, CopyInv, GoesOn, Carries
<1>3. ASSUME faults' = 0, ~raced'
      PROVE  OpenInv'
  <2>1. OpenInv
    BY <1>1, <1>3 DEF DoneInv
  <2>2. j[2] \in DOMAIN tasks
    BY DEF PollInv, JobInv
  <2>3. /\ DOMAIN tasks' = DOMAIN tasks
        /\ \A t \in DOMAIN tasks \ {j[2]} : tasks'[t] = tasks[t]
        /\ tasks'[j[2]].status \in {tasks[j[2]].status, "completed", "failed"}
    <3>1. CASE UNCHANGED tasks
      BY <3>1
    <3>2. CASE \E s \in {"completed", "failed"} : tasks' = SetTask(j[2], s)
      BY <2>2, <3>2 DEF SetTask, PollInv, TaskInv
    <3> QED
      BY <3>1, <3>2 DEF Records
  <2>4. ASSUME NEW k \in DOMAIN jobs', jobs'[k].stage \in {"begin", "running"}
        PROVE  tasks'[k[2]].status = "running"
    <3>1. k # j /\ k \in DOMAIN jobs /\ jobs'[k] = jobs[k]
      BY <2>4 DEF Carries, GoesOn
    <3>2. k[2] \in DOMAIN tasks /\ k[2] # j[2]
      BY <3>1 DEF PollInv, JobInv
    <3> QED
      BY <2>1, <2>3, <2>4, <3>1, <3>2 DEF OpenInv
  <2>5. ASSUME Over' PROVE InProgress' = {} /\ Creating' = {}
    <3>1. Over
      BY <2>5 DEF Over, Carries, GoesOn
    <3>2. InProgress = {} /\ Creating = {}
      BY <2>1, <3>1 DEF OpenInv
    <3>3. \A t \in DOMAIN tasks : tasks[t].status \notin {"pending", "running"}
      BY <3>2 DEF InProgress, WithStatus
    <3>4. \A t \in DOMAIN tasks' : tasks'[t].status \notin {"pending", "running"}
      BY <2>2, <2>3, <3>3
    <3>5. InProgress' = {}
      BY <3>4 DEF InProgress, WithStatus
    <3>6. jobs[j].stage \notin {"running", "creating"}
      BY <2>1, <3>1, WorkKeepsOpen
    <3>7. Creating' = {}
      BY <3>2, <3>6 DEF Creating, Carries, GoesOn
    <3> QED
      BY <3>5, <3>7
  <2> QED
    BY <2>4, <2>5 DEF OpenInv
<1> QED
  BY <1>1, <1>2, <1>3 DEF DoneInv

LEMMA GotoDone ==
  ASSUME PollInv, DoneInv, NEW j \in DOMAIN jobs, NEW ok \in BOOLEAN, Statement(ok),
         NEW stage \in {"cost", "latest"}, Goto(j, stage), Records(j), UNCHANGED raced,
         wf' = wf \/ wf' = jobs[j].copy
  PROVE  DoneInv'
<1>1. GoesOn(j)
  BY GotoGoesOn
<1>2. {"stage", "copy", "left", "cost"} \subseteq DOMAIN jobs[j]
  BY DEF PollInv, JobInv
<1>3. jobs'[j] = At(j, stage)
  BY DEF Goto
<1>4. At(j, stage).stage = stage /\ At(j, stage).copy = NoCopy
  BY <1>2 DEF At
<1>5. "status" \in DOMAIN NoCopy /\ NoCopy.status \notin Final
  BY DEF NoCopy, Final
<1>6. "status" \in DOMAIN wf' /\ (wf'.status \in Final => Over)
  BY DEF DoneInv, CopyInv, Over
<1>7. Carries(j)
  BY <1>3, <1>4, <1>5, <1>6 DEF Carries
<1> QED
  BY <1>1, <1>7, CarriesKeeps

LEMMA EndDone ==
  ASSUME PollInv, DoneInv, NEW j \in DOMAIN jobs, NEW ok \in BOOLEAN, Statement(ok),
         End(j), UNCHANGED <<tasks, raced>>, wf' = wf \/ wf' = jobs[j].copy
  PROVE  DoneInv'
<1>1. GoesOn(j) /\ j \notin DOMAIN jobs'
  BY EndGoesOn DEF End
<1>2. Carries(j)
  BY <1>1 DEF DoneInv, CopyInv, Over, Carries
<1> QED
  BY <1>1, <1>2, CarriesKeeps DEF Records

LEMMA ReadDone ==
  ASSUME PollInv, DoneInv, NEW j \in DOMAIN jobs, NEW ok \in BOOLEAN, Statement(ok),
         NEW stage \in {"charge", "list"}, UNCHANGED <<wf, tasks, raced>>,
         jobs' = [jobs EXCEPT ![j].stage = stage, ![j].copy = wf]
  PROVE  DoneInv'
<1>1. GoesOn(j)
  BY CopyGoesOn
<1>2. {"stage", "copy", "left", "cost"} \subseteq DOMAIN jobs[j]
  BY DEF PollInv, JobInv
<1>3. jobs'[j] = [jobs[j] EXCEPT !.stage = stage, !.copy = wf]
  OBVIOUS
<1>4. jobs'[j].stage = stage /\ jobs'[j].copy = wf
  BY <1>2, <1>3
<1>5. Carries(j)
  BY <1>4 DEF DoneInv, CopyInv, Over, Carries
<1> QED
  BY <1>1, <1>5, CarriesKeeps DEF Records

LEMMA BeginDone ==
  ASSUME PollInv, DoneInv, NEW j \in DOMAIN jobs, NEW loaded \in BOOLEAN, NEW marked \in BOOLEAN,
         Begin(j, loaded, marked)
  PROVE  DoneInv'
<1> DEFINE ok == loaded /\ marked
<1>1. Statement(ok) /\ ok \in BOOLEAN /\ UNCHANGED <<wf, raced>> /\ jobs[j].stage = "begin"
  BY DEF Begin
<1>2. CASE ~loaded
  <2>1. End(j) /\ UNCHANGED tasks
    BY <1>2 DEF Begin
  <2> QED
    BY <1>1, <2>1, EndDone
<1>3. CASE loaded /\ ~marked
  <2>1. Goto(j, "latest") /\ UNCHANGED tasks
    BY <1>3 DEF Begin
  <2> QED
    BY <1>1, <2>1, GotoDone DEF Records
<1>4. CASE loaded /\ marked
  <2> DEFINE t == j[2]
  <2>1. /\ jobs' = [jobs EXCEPT ![j].stage = "running", ![j].copy = wf]
        /\ tasks' = [tasks EXCEPT ![t].status = "running", ![t].runs = @ + 1]
    BY <1>4 DEF Begin
  <2>2. GoesOn(j)
    BY <2>1, CopyGoesOn
  <2>3. {"stage", "copy", "left", "cost"} \subseteq DOMAIN jobs[j]
    BY DEF PollInv, JobInv
  <2>4. jobs'[j] = [jobs[j] EXCEPT !.stage = "running", !.copy = wf]
    BY <2>1
  <2>5. jobs'[j].stage = "running" /\ jobs'[j].copy = wf
    BY <2>3, <2>4
  <2>6. t \in DOMAIN tasks /\ {"status", "runs"} \subseteq DOMAIN tasks[t]
    BY DEF PollInv, JobInv, TaskInv
  <2>7. tasks'[t] = [tasks[t] EXCEPT !.status = "running", !.runs = @ + 1]
    BY <2>1, <2>6
  <2>8. tasks'[t].status = "running"
    BY <2>6, <2>7
  <2>9. \A u \in DOMAIN tasks \ {t} : tasks'[u] = tasks[u]
    BY <2>1
  <2>10. faults' \in Nat /\ (faults' = 0 => faults = 0)
    BY <1>1, StatementCounts DEF DoneInv
  <2>11. CopyInv'
    BY <1>1, <2>2, <2>5 DEF DoneInv, CopyInv, GoesOn
  <2>12. ASSUME faults' = 0, ~raced' PROVE OpenInv'
    <3>1. OpenInv
      BY <1>1, <2>10, <2>12 DEF DoneInv
    <3>2. ~Over
      BY <1>1, <3>1, WorkKeepsOpen
    <3>3. ~Over'
      BY <1>1, <2>2, <2>5, <3>2 DEF Over, GoesOn
    <3>4. ASSUME NEW k \in DOMAIN jobs', jobs'[k].stage \in {"begin", "running"}
          PROVE  tasks'[k[2]].status = "running"
      <4>1. CASE k = j
        BY <2>8, <4>1
      <4>2. CASE k # j
        <5>1. k \in DOMAIN jobs /\ jobs'[k] = jobs[k]
          BY <2>2, <4>2 DEF GoesOn
        <5>2. k[2] \in DOMAIN tasks /\ k[2] # j[2]
          BY <4>2, <5>1 DEF PollInv, JobInv
        <5> QED
          BY <2>9, <3>1, <3>4, <5>1, <5>2 DEF OpenInv
      <4> QED
        BY <4>1, <4>2
    <3> QED
      BY <3>3, <3>4 DEF OpenInv
  <2> QED
    BY <2>10, <2>11, <2>12 DEF DoneInv
<1> QED
  BY <1>2, <1>3, <1>4

LEMMA SucceedDone ==
  ASSUME PollInv, DoneInv, NEW j \in DOMAIN jobs, NEW cost \in BOOLEAN, NEW plan,
         NEW ok \in BOOLEAN, AgentSucceeds(j, cost, plan, ok)
  PROVE  DoneInv'
<1>1. /\ Records(j) /\ Statement(ok) /\ UNCHANGED <<wf, raced>> /\ jobs[j].stage = "running"
  BY DEF AgentSucceeds, Records
<1>2. CASE ok /\ PlanFits(j, plan)
  <2>1. {"stage", "copy", "left", "cost"} \subseteq DOMAIN jobs[j]
    BY DEF PollInv, JobInv
  <2>2. PICK n : jobs' = [jobs EXCEPT ![j] =
          [@ EXCEPT !.stage = "creating", !.left = plan, !.cost = cost, !.copy.taskCount = n]]
    BY <1>2, Zenon DEF AgentSucceeds
  <2>3. /\ DOMAIN jobs' = DOMAIN jobs
        /\ jobs'[j] = [jobs[j] EXCEPT !.stage = "creating", !.left = plan, !.cost = cost,
                                      !.copy.taskCount = n]
        /\ \A k \in DOMAIN jobs \ {j} : jobs'[k] = jobs[k]
    BY <2>2, Zenon
  <2>4. /\ DOMAIN jobs'[j] = DOMAIN jobs[j] /\ jobs'[j].stage = "creating"
        /\ jobs'[j].copy = [jobs[j].copy EXCEPT !.taskCount = n]
    BY <2>1, <2>3
  <2>5. /\ DOMAIN jobs'[j].copy = DOMAIN jobs[j].copy
        /\ jobs'[j].copy.status = jobs[j].copy.status
    BY <2>4 DEF DoneInv, CopyInv
  <2>6. GoesOn(j)
    BY <2>1, <2>3, <2>4 DEF GoesOn
  <2>7. Carries(j)
    BY <1>1, <2>4, <2>5 DEF Carries, DoneInv, CopyInv, Over
  <2> QED
    BY <1>1, <2>6, <2>7, CarriesKeeps
<1>3. CASE ~(ok /\ PlanFits(j, plan))
  <2>1. PICK stage \in {"cost", "latest"} : Goto(j, stage)
    BY <1>3 DEF AgentSucceeds, AfterOutput, Goto
  <2> QED
    BY <1>1, <2>1, GotoDone
<1> QED
  BY <1>2, <1>3

LEMMA CreateDone ==
  ASSUME PollInv, DoneInv, NEW j \in DOMAIN jobs, NEW ok \in BOOLEAN, CreateTask(j, ok)
  PROVE  DoneInv'
<1> DEFINE spec == Head(jobs[j].left)
           parent == j[2]
           id == Append(parent, Cardinality(Children(parent)) + 1)
           row == NewTask(spec.role, {Append(parent, d) : d \in spec.deps})
<1>1. Statement(ok) /\ UNCHANGED <<wf, raced>> /\ jobs[j].stage = "creating"
  BY DEF CreateTask
<1>2. CASE ok /\ spec.role # "unknown"
  <2>1. tasks' = Put(tasks, {id}, row) /\ jobs' = [jobs EXCEPT ![j].left = Tail(@)]
    BY <1>2, Zenon DEF CreateTask
  <2>2. parent \in DOMAIN tasks /\ {"stage", "copy", "left", "cost"} \subseteq DOMAIN jobs[j]
    BY DEF PollInv, JobInv
  <2>3. id \notin DOMAIN tasks
    BY <2>2, NextPath DEF PollInv
  <2> HIDE DEF id, row
  <2>4. \A t \in DOMAIN tasks : tasks'[t] = tasks[t]
    BY <2>1, <2>3 DEF Put
  <2>5. /\ DOMAIN jobs' = DOMAIN jobs
        /\ jobs'[j].stage = "creating" /\ jobs'[j].copy = jobs[j].copy
        /\ \A k \in DOMAIN jobs \ {j} : jobs'[k] = jobs[k]
    BY <1>1, <2>1, <2>2
  <2>6. faults' \in Nat /\ (faults' = 0 => faults = 0)
    BY <1>1, StatementCounts DEF DoneInv
  <2>7. CopyInv'
    BY <1>1, <2>5 DEF DoneInv, CopyInv
  <2>8. ASSUME faults' = 0, ~raced' PROVE OpenInv'
    <3>1. OpenInv
      BY <1>1, <2>6, <2>8 DEF DoneInv
    <3>2. ~Over
      BY <1>1, <3>1, WorkKeepsOpen
    <3>3. ~Over'
      BY <1>1, <2>5, <3>2 DEF Over
    <3>4. \A k \in DOMAIN jobs : k[2] \in DOMAIN tasks
      BY DEF PollInv, JobInv
    <3> QED
      BY <2>4, <2>5, <3>1, <3>3, <3>4 DEF OpenInv
  <2> QED
    BY <2>6, <2>7, <2>8 DEF DoneInv
<1>3. CASE ~(ok /\ spec.role # "unknown")
  <2>1. UNCHANGED tasks /\ \E stage \in {"cost", "latest"} : Goto(j, stage)
    BY <1>3 DEF CreateTask, AfterOutput
  <2> QED
    BY <1>1, <2>1, GotoDone DEF Records
<1> QED
  BY <1>2, <1>3

\* maybeFinishWorkflow decides on the list it has just read.
LEMMA ListDone ==
  ASSUME PollInv, DoneInv, NEW j \in DOMAIN jobs, NEW ok \in BOOLEAN, ListTasks(j, ok)
  PROVE  DoneInv'
<1>1. Statement(ok) /\ UNCHANGED <<wf, tasks>> /\ jobs[j].stage = "list"
  BY DEF ListTasks
<1>2. CASE ok /\ InProgress = {}
  <2>1. /\ jobs' = [jobs EXCEPT ![j].stage = "save", ![j].copy.status = Outcome]
        /\ raced' = (raced \/ Creating # {})
    BY <1>2, Zenon DEF ListTasks
  <2>2. {"stage", "copy", "left", "cost"} \subseteq DOMAIN jobs[j]
    BY DEF PollInv, JobInv
  <2>3. /\ DOMAIN jobs' = DOMAIN jobs
        /\ jobs'[j] = [jobs[j] EXCEPT !.stage = "save", !.copy.status = Outcome]
        /\ \A k \in DOMAIN jobs \ {j} : jobs'[k] = jobs[k]
    BY <2>1
  <2>4. jobs'[j].stage = "save" /\ jobs'[j].copy = [jobs[j].copy EXCEPT !.status = Outcome]
    BY <2>2, <2>3
  <2>5. faults' \in Nat /\ (faults' = 0 => faults = 0)
    BY <1>1, StatementCounts DEF DoneInv
  <2>6. CopyInv'
    BY <1>1, <2>3, <2>4 DEF DoneInv, CopyInv
  <2>7. ASSUME faults' = 0, ~raced' PROVE OpenInv'
    <3>1. OpenInv /\ Creating = {}
      BY <2>1, <2>5, <2>7 DEF DoneInv
    <3>2. InProgress' = {}
      BY <1>1, <1>2 DEF InProgress, WithStatus
    <3>3. Creating' = {}
      BY <2>3, <2>4, <3>1 DEF Creating
    <3>4. \A k \in DOMAIN jobs' :
            jobs'[k].stage \in {"begin", "running"} => tasks'[k[2]].status = "running"
      BY <1>1, <2>3, <2>4, <3>1 DEF OpenInv
    <3> QED
      BY <3>2, <3>3, <3>4 DEF OpenInv
  <2> QED
    BY <2>5, <2>6, <2>7 DEF DoneInv
<1>3. CASE ~(ok /\ InProgress = {})
  <2>1. End(j) /\ UNCHANGED raced
    BY <1>3, Zenon DEF ListTasks
  <2> QED
    BY <1>1, <2>1, EndDone
<1> QED
  BY <1>2, <1>3

\* A claim finds nothing once the workflow is over.
LEMMA ClaimDone ==
  ASSUME PollInv, DoneInv, NEW a \in Agents, NEW ok \in BOOLEAN, NEW loaded \in BOOLEAN,
         Claim(a, ok, loaded)
  PROVE  DoneInv'
<1> DEFINE won == picked[a] \cap WithStatus("pending")
<1>1. won \subseteq WithStatus("pending")
  OBVIOUS
<1>2. /\ tasks' = [t \in DOMAIN tasks |->
           IF ok /\ t \in won THEN [tasks[t] EXCEPT !.status = "running"] ELSE tasks[t]]
      /\ jobs' = IF ok /\ loaded THEN Put(jobs, {a} \X won, NewJob) ELSE jobs
      /\ Statement(ok /\ loaded) /\ UNCHANGED <<wf, raced>>
  BY DEF Claim
<1> HIDE DEF won
<1>3. /\ NewJob.copy = NoCopy /\ NewJob.stage = "begin"
      /\ "status" \in DOMAIN NoCopy /\ NoCopy.status \notin Final
  BY DEF NewJob, NoCopy, Final
<1>4. /\ DOMAIN jobs \subseteq DOMAIN jobs'
      /\ \A k \in DOMAIN jobs' : \/ k \in DOMAIN jobs /\ jobs'[k] = jobs[k]
                                 \/ jobs'[k] = NewJob /\ k[2] \in won /\ ok
  BY <1>2 DEF Put
<1>5. faults' \in Nat /\ (faults' = 0 => faults = 0)
  BY <1>2, StatementCounts DEF DoneInv
<1>6. CopyInv'
  BY <1>2, <1>3, <1>4 DEF DoneInv, CopyInv
<1>7. ASSUME faults' = 0, ~raced' PROVE OpenInv'
  <2>1. OpenInv
    BY <1>2, <1>5, <1>7 DEF DoneInv
  <2>2. \A t \in won : t \in DOMAIN tasks /\ {"status", "runs"} \subseteq DOMAIN tasks[t]
    BY <1>1 DEF PollInv, TaskInv, WithStatus
  <2>3. /\ DOMAIN tasks' = DOMAIN tasks
        /\ \A t \in DOMAIN tasks \ won : tasks'[t] = tasks[t]
        /\ \A t \in won : tasks'[t].status = IF ok THEN "running" ELSE tasks[t].status
    BY <1>2, <2>2
  <2>4. ASSUME NEW k \in DOMAIN jobs', jobs'[k].stage \in {"begin", "running"}
        PROVE  tasks'[k[2]].status = "running"
    <3>1. CASE k[2] \in won /\ ok
      BY <2>3, <3>1
    <3>2. CASE ~(k[2] \in won /\ ok)
      <4>1. k \in DOMAIN jobs /\ jobs'[k] = jobs[k]
        BY <1>4, <3>2
      <4>2. k[2] \in DOMAIN tasks /\ tasks[k[2]].status = "running"
        BY <2>1, <2>4, <4>1 DEF OpenInv, PollInv, JobInv
      <4> QED
        BY <2>3, <3>2, <4>2
    <3> QED
      BY <3>1, <3>2
  <2>5. ASSUME Over' PROVE InProgress' = {} /\ Creating' = {}
    <3>1. Over
      BY <1>2, <1>3, <1>4, <2>5 DEF Over
    <3>2. InProgress = {} /\ Creating = {}
      BY <2>1, <3>1 DEF OpenInv
    <3>3. won = {}
      BY <1>1, <3>2 DEF InProgress
    <3>4. \A t \in DOMAIN tasks : tasks'[t] = tasks[t]
      BY <2>3, <3>3
    <3>5. InProgress' = {}
      BY <2>3, <3>2, <3>4 DEF InProgress, WithStatus
    <3>6. Creating' = {}
      BY <1>3, <1>4, <3>2 DEF Creating
    <3> QED
      BY <3>5, <3>6
  <2> QED
    BY <2>4, <2>5 DEF OpenInv
<1> QED
  BY <1>5, <1>6, <1>7 DEF DoneInv

LEMMA JobDone ==
  ASSUME PollInv, DoneInv, NEW j \in DOMAIN jobs, Job(j)
  PROVE  DoneInv'
<1>1. ASSUME NEW loaded \in BOOLEAN, NEW marked \in BOOLEAN, Begin(j, loaded, marked)
      PROVE  DoneInv'
  BY <1>1, BeginDone
<1>2. ASSUME NEW cost \in BOOLEAN, NEW plan \in Plans, NEW ok \in BOOLEAN,
             AgentSucceeds(j, cost, plan, ok)
      PROVE  DoneInv'
  BY <1>2, SucceedDone
<1>3. CASE AgentTimesOut(j)
  <2>1. Statement(TRUE) /\ Goto(j, "latest") /\ UNCHANGED <<wf, tasks, raced>>
    BY <1>3 DEF AgentTimesOut, Statement
  <2> QED
    BY <2>1, GotoDone DEF Records
<1>4. ASSUME NEW ok \in BOOLEAN, AgentFails(j, ok) PROVE DoneInv'
  <2>1. Goto(j, "latest") /\ Records(j) /\ Statement(ok) /\ UNCHANGED <<wf, raced>>
    BY <1>4 DEF AgentFails, Records
  <2> QED
    BY <2>1, GotoDone
<1>5. ASSUME NEW ok \in BOOLEAN, CreateTask(j, ok) PROVE DoneInv'
  BY <1>5, CreateDone
<1>6. ASSUME NEW ok \in BOOLEAN, SaveCount(j, ok) \/ WriteCost(j, ok) PROVE DoneInv'
  <2>1. /\ \E stage \in {"cost", "latest"} : Goto(j, stage)
        /\ Statement(ok) /\ UNCHANGED <<tasks, raced>> /\ (wf' = wf \/ wf' = jobs[j].copy)
    BY <1>6 DEF SaveCount, WriteCost, AfterOutput
  <2> QED
    BY <2>1, GotoDone DEF Records
<1>7. ASSUME NEW ok \in BOOLEAN, ReadCost(j, ok) \/ LoadLatest(j, ok) PROVE DoneInv'
  <2>1. /\ Statement(ok) /\ UNCHANGED <<wf, tasks, raced>>
        /\ \/ Goto(j, "latest") \/ End(j)
           \/ \E stage \in {"charge", "list"} :
                jobs' = [jobs EXCEPT ![j].stage = stage, ![j].copy = wf]
    BY <1>7 DEF ReadCost, LoadLatest
  <2> QED
    BY <2>1, GotoDone, EndDone, ReadDone DEF Records
<1>8. ASSUME NEW ok \in BOOLEAN, ListTasks(j, ok) PROVE DoneInv'
  BY <1>8, ListDone
<1>9. ASSUME NEW ok \in BOOLEAN, finishWorkflow(j, ok) PROVE DoneInv'
  <2>1. End(j) /\ Statement(ok) /\ UNCHANGED <<tasks, raced>> /\ (wf' = wf \/ wf' = jobs[j].copy)
    BY <1>9 DEF finishWorkflow
  <2> QED
    BY <2>1, EndDone
<1> QED
  BY <1>1, <1>2, <1>3, <1>4, <1>5, <1>6, <1>7, <1>8, <1>9 DEF Job

\* Whichever agent lists the tasks and whichever copy of the row is written last, a
\* row says that the workflow is over only while nothing is in progress.
THEOREM DoneInvariance == Spec => []DoneInv
<1>1. Init => DoneInv
  <2> SUFFICES ASSUME Init PROVE DoneInv
    OBVIOUS
  <2>1. /\ wf = [status |-> "running", taskCount |-> 1] /\ DOMAIN jobs = {} /\ faults = 0
    BY DEF Init
  <2>2. "status" \in DOMAIN wf /\ wf.status \notin Final
    BY <2>1 DEF Final
  <2> QED
    BY <2>1, <2>2 DEF DoneInv, CopyInv, OpenInv, Over
<1>2. PollInv /\ DoneInv /\ [Next]_vars => DoneInv'
  <2> SUFFICES ASSUME PollInv, DoneInv, [Next]_vars
               PROVE  DoneInv'
    OBVIOUS
  <2>1. ASSUME UNCHANGED <<wf, tasks, jobs, raced, faults>> PROVE DoneInv'
    BY <2>1 DEF DoneInv, CopyInv, OpenInv, Over, InProgress, WithStatus, Creating
  <2>2. ASSUME NEW a \in Agents, SelectReady(a) \/ Restart(a) PROVE DoneInv'
    BY <2>1, <2>2 DEF SelectReady, Restart
  <2>3. ASSUME NEW a \in Agents, NEW ok \in BOOLEAN, NEW loaded \in BOOLEAN, Claim(a, ok, loaded)
        PROVE  DoneInv'
    BY <2>3, ClaimDone
  <2>4. ASSUME NEW a \in Agents, Stop(a) PROVE DoneInv'
    <3>1. faults' = faults + 1 /\ wf' = wf
      BY <2>4 DEF Stop, Statement
    <3>2. \A j \in DOMAIN jobs' : j \in DOMAIN jobs /\ jobs'[j] = jobs[j]
      BY <2>4 DEF Stop
    <3> QED
      BY <3>1, <3>2 DEF DoneInv, CopyInv
  <2>5. ASSUME NEW j \in DOMAIN jobs, Job(j) PROVE DoneInv'
    BY <2>5, JobDone
  <2>6. CASE UNCHANGED vars
    BY <2>1, <2>6 DEF vars
  <2> QED
    BY <2>2, <2>3, <2>4, <2>5, <2>6 DEF Next, Poll
<1> QED
  BY <1>1, <1>2, PollInvariance, PTL DEF Spec

\* maybeFinishWorkflow ends a workflow with pending tasks only when its list was
\* read while a planner was creating them, or after a failed statement.
THEOREM EndsWithNothingLeft == Spec => []EndedIsDone
<1>1. DoneInv => EndedIsDone
  <2> SUFFICES ASSUME DoneInv, wf.status \in Final, WithStatus("pending") # {}, ~raced
               PROVE  faults > 0
    BY DEF EndedIsDone
  <2>1. CASE faults = 0
    BY <2>1 DEF DoneInv, OpenInv, Over, InProgress
  <2>2. CASE faults # 0
    BY <2>2 DEF DoneInv
  <2> QED
    BY <2>1, <2>2
<1> QED
  BY <1>1, DoneInvariance, PTL

=============================================================================
