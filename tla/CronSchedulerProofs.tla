------------------------ MODULE CronSchedulerProofs ------------------------
(***************************************************************************)
(* How often a cron job is submitted, for any number of gateway instances, *)
(* jobs, crashes, failed statements and stale updates.                     *)
(***************************************************************************)
EXTENDS CronScheduler, TLAPS

IsRow(r) ==
  /\ r \in [state : {"absent", "enabled", "disabled", "deleted"}, next : Nat]
  /\ r.state = "absent" => r.next = 0

ShapeInv ==
  /\ now \in Nat /\ faults \in Nat
  /\ DOMAIN row = Jobs /\ row = [j \in Jobs |-> row[j]] /\ \A j \in Jobs : IsRow(row[j])
  /\ edit = [job |-> edit.job, row |-> edit.row] /\ IsRow(edit.row)
  /\ phase \in [Instances -> {"down", "starting", "idle", "recovering", "firing"}]
  /\ work \in [Instances -> [Jobs -> {"none", "due", "old", "submitted", "recorded"}]]
  /\ pending \in [Instances -> [Jobs -> Nat]]
  /\ broken \subseteq Instances
  /\ fired \in [Jobs -> [Slots -> Nat]]

\* A row is locked by one transaction, and is as the transaction has read it; what
\* the transaction has written for it is later.
LockInv ==
  /\ \A i, k \in Instances, j \in Jobs : work[i][j] # "none" /\ work[k][j] # "none" => i = k
  /\ \A i \in Instances, j \in Jobs :
       /\ work[i][j] # "none" => row[j].state = "enabled" /\ row[j].next <= now
       /\ work[i][j] = "recorded" => row[j].next < pending[i][j]
  /\ \A i \in Instances : phase[i] \notin {"recovering", "firing"} =>
       i \notin broken /\ \A j \in Jobs : work[i][j] = "none"

\* The time s of j is submitted, and will be past when the transaction commits.
UnderWay(j, s) ==
  /\ row[j].next = s
  /\ \E i \in Instances : i \notin broken /\ work[i][j] \in {"submitted", "recorded"}

\* A submission that is not recorded, or not going to be, has cost a fault; so has
\* one that a broken transaction still has to make.
FiredInv ==
  /\ \A j \in Jobs, s \in Slots :
       /\ fired[j][s] <= 1 + faults
       /\ fired[j][s] <= faults \/ s < row[j].next \/ UnderWay(j, s)
  /\ \A i \in broken, j \in Jobs, s \in Slots :
       work[i][j] = "due" /\ row[j].next = s => fired[j][s] < faults

CronInv == ShapeInv /\ LockInv /\ FiredInv

-----------------------------------------------------------------------------

\* computeNextRun is in the future.
LEMMA NextRunLater ==
  ASSUME Period \in Nat \ {0}, now \in Nat
  PROVE  computeNextRun \in Nat /\ now < computeNextRun
<1> DEFINE q == now \div Period
<1>1. q \in Nat /\ (now % Period) \in 0 .. (Period - 1) /\ now = (Period * q) + (now % Period)
  OBVIOUS
<1> HIDE DEF q
<1>2. q \in Nat /\ now < Period * q + Period
  BY <1>1
<1>3. (q + 1) * Period = Period * q + Period
  BY <1>2
<1> QED
  BY <1>2, <1>3 DEF q, computeNextRun

LEMMA SlotsAreInts ==
  ASSUME Period \in Nat \ {0}
  PROVE  Slots \subseteq Int
BY DEF Slots

LEMMA InitCron == Init => CronInv
<1> SUFFICES ASSUME Init PROVE CronInv
  OBVIOUS
<1>1. ShapeInv
  BY DEF Init, ShapeInv, IsRow, NoEdit, NoWork, NoRun
<1>2. LockInv
  BY DEF Init, LockInv, NoWork
<1>3. FiredInv
  BY DEF Init, FiredInv
<1> QED
  BY <1>1, <1>2, <1>3 DEF CronInv

\* Steps that leave the rows, the transactions and the submissions alone.
LEMMA QuietCron ==
  ASSUME CronInv, now' \in Nat, now <= now',
         UNCHANGED <<row, work, pending, broken, fired, faults>>,
         \A i \in Instances :
           phase'[i] \in {"recovering", "firing"} <=> phase[i] \in {"recovering", "firing"}
  PROVE  LockInv' /\ FiredInv'
<1>1. LockInv'
  <2>1. \A j \in Jobs : row[j].next \in Nat
    BY DEF CronInv, ShapeInv, IsRow
  <2>2. now \in Nat
    BY DEF CronInv, ShapeInv
  <2> QED
    BY <2>1, <2>2 DEF CronInv, LockInv
<1>2. FiredInv'
  BY DEF CronInv, FiredInv, UnderWay
<1> QED
  BY <1>1, <1>2

LEMMA ClaimStep ==
  ASSUME CronInv, NEW i \in Instances, NEW then \in {"idle", "recovering", "firing"}, NEW old,
         phase[i] \notin {"recovering", "firing"}, phase' = [phase EXCEPT ![i] = then],
         then = "idle" => DueUnlocked = {},
         Claim(i, DueUnlocked, old)
  PROVE  CronInv'
<1> USE DEF CronInv
<1>1. /\ \A j \in Jobs : work[i][j] = "none"
      /\ i \notin broken
  BY DEF LockInv
<1>2. /\ work' = [work EXCEPT ![i] =
           [j \in Jobs |->
              IF j \notin DueUnlocked THEN "none" ELSE IF j \in old THEN "old" ELSE "due"]]
      /\ UNCHANGED <<now, row, pending, broken, edit, fired, faults>>
  BY DEF Claim
<1>3. ShapeInv'
  BY <1>2 DEF ShapeInv
<1>4. /\ \A j \in Jobs : /\ work'[i][j] \in {"none", "old", "due"}
                         /\ work'[i][j] # "none" => j \in DueUnlocked
      /\ \A k \in Instances \ {i} : work'[k] = work[k]
  BY <1>2 DEF ShapeInv
<1>5. \A j \in DueUnlocked : /\ row[j].state = "enabled" /\ row[j].next <= now
                             /\ \A k \in Instances : work[k][j] = "none"
  BY DEF DueUnlocked, Due, Locked
<1>6. LockInv'
  <2>1. \A k, l \in Instances, j \in Jobs : work'[k][j] # "none" /\ work'[l][j] # "none" => k = l
    BY <1>4, <1>5 DEF LockInv
  <2>2. \A k \in Instances, j \in Jobs :
          /\ work'[k][j] # "none" => row'[j].state = "enabled" /\ row'[j].next <= now'
          /\ work'[k][j] = "recorded" => row'[j].next < pending'[k][j]
    BY <1>2, <1>4, <1>5 DEF LockInv
  <2>3. \A k \in Instances : phase'[k] \notin {"recovering", "firing"} =>
          k \notin broken' /\ \A j \in Jobs : work'[k][j] = "none"
    BY <1>1, <1>2, <1>4 DEF LockInv, ShapeInv
  <2> QED
    BY <2>1, <2>2, <2>3 DEF LockInv
<1>7. FiredInv'
  <2>1. \A j \in Jobs, s \in Slots : UnderWay(j, s) => UnderWay(j, s)'
    BY <1>1, <1>2, <1>4 DEF UnderWay
  <2> QED
    BY <1>1, <1>2, <1>4, <2>1 DEF FiredInv, ShapeInv
<1> QED
  BY <1>3, <1>6, <1>7

LEMMA FireStep ==
  ASSUME CronInv, Slots \subseteq Int, NEW i \in Instances, NEW j \in Jobs,
         NEW accepted \in BOOLEAN, fireJob(i, j, accepted)
  PROVE  CronInv'
<1> USE DEF CronInv
<1>1. /\ work[i][j] = "due" /\ work' = [work EXCEPT ![i][j] = "submitted"]
      /\ UNCHANGED <<now, row, phase, pending, broken, edit, faults>>
  BY DEF fireJob
<1>2. fired' = IF accepted THEN [fired EXCEPT ![j][row[j].next] = @ + 1] ELSE fired
  BY DEF fireJob
<1>3. /\ fired' \in [Jobs -> [Slots -> Nat]]
      /\ \A l \in Jobs, s \in Slots : fired'[l][s] \in {fired[l][s], fired[l][s] + 1}
      /\ \A l \in Jobs, s \in Slots : l # j \/ s # row[j].next => fired'[l][s] = fired[l][s]
  <2>1. CASE ~accepted
    BY <1>2, <2>1 DEF ShapeInv
  <2>2. CASE accepted
    <3> DEFINE n == row[j].next
    <3>1. fired \in [Jobs -> [Slots -> Nat]]
      BY DEF ShapeInv
    <3> HIDE DEF n
    <3>2. fired' = [fired EXCEPT ![j] = [fired[j] EXCEPT ![n] = fired[j][n] + 1]]
      BY <1>2, <2>2 DEF n
    <3>3. /\ fired'[j] = [fired[j] EXCEPT ![n] = fired[j][n] + 1]
          /\ \A l \in Jobs \ {j} : fired'[l] = fired[l]
      BY <3>1, <3>2
    <3>4. /\ fired'[j] \in [Slots -> Nat]
          /\ \A s \in Slots : fired'[j][s] = IF s = n THEN fired[j][s] + 1 ELSE fired[j][s]
      <4>1. fired[j] \in [Slots -> Nat]
        BY <3>1
      <4>2. CASE n \in Slots
        BY <3>3, <4>1, <4>2
      <4>3. CASE n \notin Slots
        <5>1. fired'[j] = fired[j]
          BY <3>3, <4>1, <4>3
        <5> QED
          BY <4>1, <4>3, <5>1
      <4> QED
        BY <4>2, <4>3
    <3> QED
      BY <3>1, <3>2, <3>3, <3>4 DEF n
  <2> QED
    BY <2>1, <2>2
<1>4. ShapeInv'
  BY <1>1, <1>3 DEF ShapeInv
<1>5. /\ work'[i][j] = "submitted"
      /\ \A k \in Instances, l \in Jobs : k # i \/ l # j => work'[k][l] = work[k][l]
  BY <1>1 DEF ShapeInv
<1>6. LockInv'
  BY <1>1, <1>5 DEF LockInv
<1>7. faults \in Nat /\ \A l \in Jobs, s \in Slots : fired[l][s] \in Nat
  BY DEF ShapeInv
<1>8. ASSUME NEW l \in Jobs, NEW s \in Slots
      PROVE  /\ fired'[l][s] <= 1 + faults
             /\ fired'[l][s] <= faults \/ s < row'[l].next \/ UnderWay(l, s)'
  <2>1. CASE l = j /\ s = row[j].next
    <3>1. ~UnderWay(l, s)
      BY <1>1, <2>1 DEF UnderWay, LockInv
    <3>2. s \in Int /\ ~(s < row[l].next)
      BY <2>1
    <3>3. fired[l][s] <= faults
      BY <3>1, <3>2 DEF FiredInv
    <3>4. CASE i \in broken
      <4>1. fired[l][s] < faults
        BY <1>1, <2>1, <3>4 DEF FiredInv
      <4>2. fired[l][s] \in Nat /\ fired'[l][s] \in {fired[l][s], fired[l][s] + 1}
        BY <1>3, <1>7
      <4>3. fired'[l][s] <= faults /\ fired'[l][s] <= 1 + faults
        BY <1>7, <4>1, <4>2
      <4> QED
        BY <4>3
    <3>5. CASE i \notin broken
      <4>1. UnderWay(l, s)'
        BY <1>1, <1>5, <2>1, <3>5 DEF UnderWay
      <4>2. fired[l][s] \in Nat /\ fired'[l][s] \in {fired[l][s], fired[l][s] + 1}
        BY <1>3, <1>7
      <4>3. fired'[l][s] <= 1 + faults
        BY <1>7, <3>3, <4>2
      <4> QED
        BY <4>1, <4>3
    <3> QED
      BY <3>4, <3>5
  <2>2. CASE ~(l = j /\ s = row[j].next)
    <3>1. fired'[l][s] = fired[l][s]
      BY <1>3, <2>2
    <3>2. UnderWay(l, s) => UnderWay(l, s)'
      BY <1>1, <1>5, <2>2 DEF UnderWay
    <3> QED
      BY <1>1, <3>1, <3>2 DEF FiredInv
  <2> QED
    BY <2>1, <2>2
<1>9. ASSUME NEW k \in broken', NEW l \in Jobs, NEW s \in Slots,
             work'[k][l] = "due", row'[l].next = s
      PROVE  fired'[l][s] < faults'
  <2>1. k \in Instances /\ k \in broken
    BY <1>1 DEF ShapeInv
  <2>2. work[k][l] = "due" /\ row[l].next = s /\ l # j
    BY <1>1, <1>5, <1>9, <2>1 DEF LockInv
  <2> QED
    BY <1>1, <1>3, <2>1, <2>2 DEF FiredInv
<1>10. FiredInv'
  BY <1>1, <1>8, <1>9 DEF FiredInv
<1> QED
  BY <1>4, <1>6, <1>10

\* A failed statement breaks the transaction, and is the fault that every job of it
\* may be submitted once more for.
LEMMA RecordStep ==
  ASSUME CronInv, Period \in Nat \ {0}, NEW i \in Instances, NEW j \in Jobs, NEW ok \in BOOLEAN,
         RecordExecution(i, j, ok)
  PROVE  CronInv'
<1> USE DEF CronInv
<1> DEFINE later == computeNextRun
<1>1. /\ work[i][j] \in {"submitted", "old"} /\ work' = [work EXCEPT ![i][j] = "recorded"]
      /\ pending' = [pending EXCEPT ![i][j] = later]
      /\ UNCHANGED <<now, row, phase, edit, fired>>
  BY DEF RecordExecution
<1>2. later \in Nat /\ now < later
  BY NextRunLater DEF ShapeInv
<1> HIDE DEF later
<1>3. \/ UNCHANGED <<broken, faults>>
      \/ broken' = broken \cup {i} /\ faults' = faults + 1
  BY DEF RecordExecution, Fault
<1>4. ShapeInv'
  BY <1>1, <1>2, <1>3 DEF ShapeInv
<1>5. /\ work'[i][j] = "recorded" /\ pending'[i][j] = later
      /\ \A k \in Instances, l \in Jobs : k # i \/ l # j =>
           work'[k][l] = work[k][l] /\ pending'[k][l] = pending[k][l]
  BY <1>1 DEF ShapeInv
<1>6. now \in Nat /\ row[j].next \in Nat /\ row[j].next <= now /\ row[j].state = "enabled"
  BY <1>1 DEF ShapeInv, LockInv, IsRow
<1>7. row[j].next < later
  BY <1>2, <1>6
<1>8. LockInv'
  <2>1. \A k, l \in Instances, m \in Jobs : work'[k][m] # "none" /\ work'[l][m] # "none" => k = l
    BY <1>1, <1>5 DEF LockInv
  <2>2. \A k \in Instances, m \in Jobs :
          /\ work'[k][m] # "none" => row'[m].state = "enabled" /\ row'[m].next <= now'
          /\ work'[k][m] = "recorded" => row'[m].next < pending'[k][m]
    BY <1>1, <1>5, <1>6, <1>7 DEF LockInv
  <2>3. \A k \in Instances : phase'[k] \notin {"recovering", "firing"} =>
          k \notin broken' /\ \A m \in Jobs : work'[k][m] = "none"
    BY <1>1, <1>3, <1>5 DEF LockInv
  <2> QED
    BY <2>1, <2>2, <2>3 DEF LockInv
<1>9. CASE UNCHANGED <<broken, faults>>
  <2>1. \A m \in Jobs, s \in Slots : UnderWay(m, s) => UnderWay(m, s)'
    BY <1>1, <1>5, <1>9 DEF UnderWay
  <2>2. \A k \in broken, m \in Jobs : work'[k][m] = "due" => work[k][m] = "due"
    BY <1>5 DEF ShapeInv
  <2>3. FiredInv'
    BY <1>1, <1>9, <2>1, <2>2 DEF FiredInv
  <2> QED
    BY <1>4, <1>8, <2>3
<1>10. CASE broken' = broken \cup {i} /\ faults' = faults + 1
  <2>1. faults \in Nat /\ \A m \in Jobs, s \in Slots : fired[m][s] \in Nat
    BY DEF ShapeInv
  <2>2. \A m \in Jobs, s \in Slots : fired[m][s] <= faults'
    BY <1>10, <2>1 DEF FiredInv
  <2>3. ASSUME NEW k \in broken', NEW m \in Jobs, NEW s \in Slots,
               work'[k][m] = "due", row'[m].next = s
        PROVE  fired'[m][s] < faults'
    <3>1. k \in Instances
      BY <1>10 DEF ShapeInv
    <3>2. work[k][m] = "due" /\ row[m].next = s
      BY <1>1, <1>5, <2>3, <3>1
    <3>3. ~UnderWay(m, s)
      BY <3>1, <3>2 DEF UnderWay, LockInv
    <3>4. row[m].next \in Nat
      BY DEF ShapeInv, IsRow
    <3>5. fired[m][s] <= faults
      BY <3>2, <3>3, <3>4 DEF FiredInv
    <3> QED
      BY <1>1, <1>10, <2>1, <3>5
  <2>4. FiredInv'
    <3>1. \A m \in Jobs, s \in Slots : fired'[m][s] <= faults' /\ fired'[m][s] <= 1 + faults'
      BY <1>1, <1>10, <2>1, <2>2
    <3> QED
      BY <2>3, <3>1 DEF FiredInv
  <2> QED
    BY <1>4, <1>8, <2>4
<1> QED
  BY <1>3, <1>9, <1>10

\* The row moves on, or the transaction was broken, which has been paid for.
LEMMA CommitStep ==
  ASSUME CronInv, Slots \subseteq Int, NEW i \in Instances, Commit(i)
  PROVE  CronInv'
<1> USE DEF CronInv
<1>1. /\ \A j \in Jobs : work[i][j] \in {"none", "recorded"}
      /\ row' = [j \in Jobs |-> IF work[i][j] = "recorded" /\ i \notin broken
                                THEN [row[j] EXCEPT !.next = pending[i][j]] ELSE row[j]]
      /\ phase' = [phase EXCEPT ![i] = "idle"]
      /\ work' = [work EXCEPT ![i] = NoWork]
      /\ pending' = [pending EXCEPT ![i] = NoRun]
      /\ broken' = broken \ {i}
      /\ UNCHANGED <<now, edit, fired, faults>>
  BY DEF Commit, LetGo
<1>2. /\ DOMAIN row' = Jobs
      /\ \A j \in Jobs :
           IF work[i][j] = "recorded" /\ i \notin broken
             THEN row'[j] = [row[j] EXCEPT !.next = pending[i][j]] ELSE row'[j] = row[j]
  BY <1>1
<1>3. \A j \in Jobs : IsRow(row[j]) /\ pending[i][j] \in Nat
  BY DEF ShapeInv
<1>4. \A j \in Jobs : work[i][j] = "recorded" => row[j].state = "enabled"
  BY DEF LockInv
<1>5. \A j \in Jobs :
        /\ IsRow(row'[j]) /\ row'[j].state = row[j].state
        /\ IF work[i][j] = "recorded" /\ i \notin broken
             THEN row'[j].next = pending[i][j] ELSE row'[j].next = row[j].next
  BY <1>2, <1>3, <1>4 DEF IsRow
<1>6. ShapeInv'
  BY <1>1, <1>2, <1>5 DEF ShapeInv, NoWork, NoRun
<1>7. /\ \A j \in Jobs : work'[i][j] = "none"
      /\ \A k \in Instances \ {i} : work'[k] = work[k] /\ pending'[k] = pending[k]
  BY <1>1 DEF ShapeInv, NoWork
<1>8. \A k \in Instances, j \in Jobs :
        work'[k][j] # "none" => k # i /\ work[k][j] = work'[k][j] /\ row'[j].next = row[j].next
  BY <1>1, <1>5, <1>7 DEF LockInv
<1>9. LockInv'
  <2>1. \A k, l \in Instances, j \in Jobs : work'[k][j] # "none" /\ work'[l][j] # "none" => k = l
    BY <1>8 DEF LockInv
  <2>2. \A k \in Instances, j \in Jobs :
          /\ work'[k][j] # "none" => row'[j].state = "enabled" /\ row'[j].next <= now'
          /\ work'[k][j] = "recorded" => row'[j].next < pending'[k][j]
    BY <1>1, <1>5, <1>7, <1>8 DEF LockInv
  <2>3. \A k \in Instances : phase'[k] \notin {"recovering", "firing"} =>
          k \notin broken' /\ \A j \in Jobs : work'[k][j] = "none"
    BY <1>1, <1>7 DEF LockInv, ShapeInv
  <2> QED
    BY <2>1, <2>2, <2>3 DEF LockInv
<1>10. ASSUME NEW j \in Jobs, NEW s \in Slots
       PROVE  fired'[j][s] <= faults' \/ s < row'[j].next \/ UnderWay(j, s)'
  <2>1. s \in Int /\ row[j].next \in Nat /\ row'[j].next \in Nat
    BY <1>3, <1>5 DEF IsRow
  <2>2. row[j].next <= row'[j].next
    BY <1>3, <1>5, <2>1 DEF LockInv
  <2>3. CASE s < row[j].next
    BY <2>1, <2>2, <2>3
  <2>4. CASE UnderWay(j, s)
    <3>1. PICK k \in Instances : k \notin broken /\ work[k][j] \in {"submitted", "recorded"}
      BY <2>4 DEF UnderWay
    <3>2. CASE k = i
      BY <1>1, <1>5, <2>1, <2>4, <3>1, <3>2 DEF UnderWay, LockInv
    <3>3. CASE k # i
      <4>1. work'[k][j] = work[k][j] /\ k \notin broken'
        BY <1>1, <1>7, <3>1, <3>3
      <4> QED
        BY <1>8, <2>4, <3>1, <4>1 DEF UnderWay
    <3> QED
      BY <3>2, <3>3
  <2> QED
    BY <1>1, <2>3, <2>4 DEF FiredInv
<1>11. ASSUME NEW k \in broken', NEW j \in Jobs, NEW s \in Slots,
              work'[k][j] = "due", row'[j].next = s
       PROVE  fired'[j][s] < faults'
  <2>1. k \in Instances /\ k \in broken /\ work[k][j] = "due" /\ row[j].next = s
    BY <1>1, <1>8, <1>11 DEF ShapeInv
  <2> QED
    BY <1>1, <2>1 DEF FiredInv
<1>12. FiredInv'
  BY <1>1, <1>10, <1>11 DEF FiredInv
<1> QED
  BY <1>6, <1>9, <1>12

LEMMA CrashStep ==
  ASSUME CronInv, NEW i \in Instances, Crash(i)
  PROVE  CronInv'
<1> USE DEF CronInv
<1>1. /\ phase' = [phase EXCEPT ![i] = "down"]
      /\ work' = [work EXCEPT ![i] = NoWork]
      /\ pending' = [pending EXCEPT ![i] = NoRun]
      /\ broken' = broken \ {i} /\ faults' = faults + 1
      /\ UNCHANGED <<now, row, edit, fired>>
  BY DEF Crash, LetGo, Fault
<1>2. ShapeInv'
  BY <1>1 DEF ShapeInv, NoWork, NoRun
<1>3. /\ \A j \in Jobs : work'[i][j] = "none"
      /\ \A k \in Instances \ {i} : work'[k] = work[k] /\ pending'[k] = pending[k]
  BY <1>1 DEF ShapeInv, NoWork
<1>4. LockInv'
  BY <1>1, <1>3 DEF LockInv, ShapeInv
<1>5. faults \in Nat /\ \A j \in Jobs, s \in Slots : fired[j][s] \in Nat
  BY DEF ShapeInv
<1>6. \A j \in Jobs, s \in Slots : fired'[j][s] <= faults' /\ fired'[j][s] <= 1 + faults'
  BY <1>1, <1>5 DEF FiredInv
<1>7. \A k \in broken', j \in Jobs, s \in Slots :
        work'[k][j] = "due" /\ row'[j].next = s => fired'[j][s] < faults'
  BY <1>1, <1>3, <1>5 DEF FiredInv, ShapeInv
<1>8. FiredInv'
  BY <1>6, <1>7 DEF FiredInv
<1> QED
  BY <1>2, <1>4, <1>8

\* A handler writes a row that no transaction holds: what was past stays past, or
\* the write is a stale one, which counts as a fault.
LEMMA WriteStep ==
  ASSUME CronInv, Slots \subseteq Int, NEW j \in Jobs, NEW r, IsRow(r), ~Locked(j),
         row' = [row EXCEPT ![j] = r],
         \/ row[j].next <= r.next /\ UNCHANGED faults
         \/ faults' = faults + 1,
         ShapeInv', UNCHANGED <<now, phase, work, pending, broken, fired>>
  PROVE  CronInv'
<1> USE DEF CronInv
<1>1. \A i \in Instances : work[i][j] = "none"
  BY DEF Locked
<1>2. row'[j] = r /\ \A l \in Jobs \ {j} : row'[l] = row[l]
  BY DEF ShapeInv
<1>3. LockInv'
  BY <1>1, <1>2 DEF LockInv
<1>4. faults \in Nat /\ \A l \in Jobs, s \in Slots : fired[l][s] \in Nat
  BY DEF ShapeInv
<1>5. ASSUME NEW l \in Jobs, NEW s \in Slots
      PROVE  /\ fired'[l][s] <= 1 + faults'
             /\ fired'[l][s] <= faults' \/ s < row'[l].next \/ UnderWay(l, s)'
  <2>1. CASE faults' = faults + 1
    BY <1>4, <2>1 DEF FiredInv
  <2>2. CASE UNCHANGED faults /\ row[j].next <= r.next
    <3>1. CASE l = j
      <4>1. ~UnderWay(l, s)
        BY <1>1, <3>1 DEF UnderWay
      <4>2. s \in Int /\ row[j].next \in Nat /\ r.next \in Nat
        BY DEF ShapeInv, IsRow
      <4>3. s < row[j].next => s < row'[j].next
        BY <1>2, <2>2, <4>2
      <4> QED
        BY <2>2, <3>1, <4>1, <4>3 DEF FiredInv
    <3>2. CASE l # j
      <4>1. UnderWay(l, s)' = UnderWay(l, s)
        BY <1>2, <3>2 DEF UnderWay
      <4> QED
        BY <1>2, <2>2, <3>2, <4>1 DEF FiredInv
    <3> QED
      BY <3>1, <3>2
  <2> QED
    BY <2>1, <2>2
<1>6. ASSUME NEW i \in broken', NEW l \in Jobs, NEW s \in Slots,
             work'[i][l] = "due", row'[l].next = s
      PROVE  fired'[l][s] < faults'
  <2>1. i \in broken /\ l # j /\ row[l].next = s
    BY <1>1, <1>2, <1>6 DEF ShapeInv
  <2>2. fired[l][s] < faults
    BY <1>6, <2>1 DEF FiredInv
  <2> QED
    BY <1>4, <2>2
<1>7. FiredInv'
  BY <1>5, <1>6 DEF FiredInv
<1> QED
  BY <1>3, <1>7

LEMMA HandlerStep ==
  ASSUME CronInv, Period \in Nat \ {0}, Slots \subseteq Int, Handlers
  PROVE  CronInv'
<1> USE DEF CronInv
<1>1. computeNextRun \in Nat
  BY NextRunLater DEF ShapeInv
<1>2. PICK j \in Jobs :
        \/ \E state \in {"enabled", "disabled"} :
             \/ Create(j, state)
             \/ \E newExpression \in BOOLEAN : UpdateGet(j, state, newExpression)
        \/ UpdateSave(j) \/ Delete(j)
  BY DEF Handlers
<1>3. IsRow(row[j]) /\ IsRow(edit.row)
  BY DEF ShapeInv
<1>4. ASSUME NEW state \in {"enabled", "disabled"}, Create(j, state) PROVE CronInv'
  <2> DEFINE r == [state |-> state, next |-> computeNextRun]
  <2>1. row[j].state = "absent" /\ row' = [row EXCEPT ![j] = r]
        /\ UNCHANGED <<now, phase, work, pending, broken, edit, fired, faults>>
    BY <1>4 DEF Create
  <2>2. IsRow(r) /\ r.next = computeNextRun
    BY <1>1 DEF IsRow
  <2> HIDE DEF r
  <2>3. ~Locked(j)
    BY <2>1 DEF Locked, LockInv
  <2>4. row[j].next <= r.next
    BY <1>1, <1>3, <2>1, <2>2 DEF IsRow
  <2>5. ShapeInv'
    BY <2>1, <2>2 DEF ShapeInv
  <2> QED
    BY <2>1, <2>2, <2>3, <2>4, <2>5, WriteStep
<1>5. ASSUME NEW state \in {"enabled", "disabled"}, NEW newExpression \in BOOLEAN,
             UpdateGet(j, state, newExpression)
      PROVE  CronInv'
  <2>1. UNCHANGED <<now, row, phase, work, pending, broken, fired, faults>>
    BY <1>5 DEF UpdateGet
  <2>2. edit' = [job |-> edit'.job, row |-> edit'.row] /\ IsRow(edit'.row)
    BY <1>1, <1>3, <1>5 DEF UpdateGet, IsRow
  <2>3. ShapeInv'
    BY <2>1, <2>2 DEF ShapeInv
  <2>4. now' \in Nat /\ now <= now'
    BY <2>1 DEF ShapeInv
  <2> QED
    BY <2>1, <2>3, <2>4, QuietCron
<1>6. CASE UpdateSave(j)
  <2>1. /\ ~Locked(j) /\ row' = [row EXCEPT ![j] = edit.row] /\ edit' = NoEdit
        /\ UNCHANGED <<now, phase, work, pending, broken, fired>>
    BY <1>6 DEF UpdateSave
  <2>2. \/ row[j].next <= edit.row.next /\ UNCHANGED faults
        \/ faults' = faults + 1
    BY <1>3, <1>6 DEF UpdateSave, Fault, IsRow
  <2>3. IsRow(NoEdit.row) /\ NoEdit = [job |-> NoEdit.job, row |-> NoEdit.row]
    BY DEF IsRow, NoEdit
  <2>4. ShapeInv'
    BY <1>3, <2>1, <2>2, <2>3 DEF ShapeInv
  <2> QED
    BY <1>3, <2>1, <2>2, <2>4, WriteStep
<1>7. CASE Delete(j)
  <2> DEFINE r == [row[j] EXCEPT !.state = "deleted"]
  <2>1. /\ ~Locked(j) /\ row' = [row EXCEPT ![j] = r]
        /\ UNCHANGED <<now, phase, work, pending, broken, edit, fired, faults>>
    BY <1>7 DEF Delete
  <2>2. IsRow(r) /\ r.next = row[j].next /\ row[j].next \in Nat
    BY <1>3 DEF IsRow
  <2> HIDE DEF r
  <2>3. ShapeInv'
    BY <2>1, <2>2 DEF ShapeInv
  <2>4. row[j].next <= r.next
    BY <2>2
  <2> QED
    BY <2>1, <2>2, <2>3, <2>4, WriteStep
<1> QED
  BY <1>2, <1>4, <1>5, <1>6, <1>7

-----------------------------------------------------------------------------

\* The transactions of all schedulers and the handlers keep locks, rows and
\* submissions in step.
THEOREM CronInvariance ==
  ASSUME Period \in Nat \ {0}
  PROVE  Spec => []CronInv
<1>1. Init => CronInv
  BY InitCron
<1>2. CronInv /\ [Next]_vars => CronInv'
  <2> SUFFICES ASSUME CronInv, [Next]_vars
               PROVE  CronInv'
    OBVIOUS
  <2>1. Slots \subseteq Int
    BY SlotsAreInts
  <2>2. ASSUME NEW i \in Instances, recoverMissedJobs(i) PROVE CronInv'
    BY <2>2, ClaimStep DEF recoverMissedJobs
  <2>3. ASSUME NEW i \in Instances, tick(i) PROVE CronInv'
    BY <2>3, ClaimStep DEF tick
  <2>4. ASSUME NEW i \in Instances, NEW j \in Jobs, NEW accepted \in BOOLEAN,
               fireJob(i, j, accepted)
        PROVE  CronInv'
    BY <2>1, <2>4, FireStep
  <2>5. ASSUME NEW i \in Instances, NEW j \in Jobs, NEW ok \in BOOLEAN, RecordExecution(i, j, ok)
        PROVE  CronInv'
    BY <2>5, RecordStep
  <2>6. ASSUME NEW i \in Instances, Commit(i) PROVE CronInv'
    BY <2>1, <2>6, CommitStep
  <2>7. ASSUME NEW i \in Instances, Crash(i) PROVE CronInv'
    BY <2>7, CrashStep
  <2>8. CASE Handlers
    BY <2>1, <2>8, HandlerStep
  <2>9. CASE \/ Clock \/ UpdateRejected \/ UNCHANGED vars
             \/ \E i \in Instances : Start(i) \/ RecoveryFails(i)
    <3>1. UNCHANGED <<row, work, pending, broken, fired, faults>>
      BY <2>9 DEF Clock, UpdateRejected, vars, Start, RecoveryFails
    <3>2. now' \in Nat /\ now <= now'
      BY <2>9 DEF Clock, UpdateRejected, vars, Start, RecoveryFails, CronInv, ShapeInv
    <3>3. IsRow(NoEdit.row) /\ NoEdit = [job |-> NoEdit.job, row |-> NoEdit.row]
      BY DEF IsRow, NoEdit
    <3>4. edit' = edit \/ edit' = NoEdit
      BY <2>9 DEF Clock, UpdateRejected, vars, Start, RecoveryFails
    <3>5. /\ phase' \in [Instances -> {"down", "starting", "idle", "recovering", "firing"}]
          /\ \A i \in Instances :
               phase'[i] \in {"recovering", "firing"} <=> phase[i] \in {"recovering", "firing"}
      BY <2>9 DEF Clock, UpdateRejected, vars, Start, RecoveryFails, CronInv, ShapeInv
    <3>6. ShapeInv'
      BY <3>1, <3>2, <3>3, <3>4, <3>5 DEF CronInv, ShapeInv
    <3> QED
      BY <3>1, <3>2, <3>5, <3>6, QuietCron DEF CronInv
  <2> QED
    BY <2>2, <2>3, <2>4, <2>5, <2>6, <2>7, <2>8, <2>9 DEF Next, Scheduler
<1> QED
  BY <1>1, <1>2, PTL DEF Spec

\* fireJob submits a job once for a time it is due, and once more for each crash,
\* failed statement or stale update, however many instances poll.
THEOREM FiresOnce ==
  ASSUME Period \in Nat \ {0}
  PROVE  Spec => []FiringsBounded
<1>1. CronInv => FiringsBounded
  BY DEF CronInv, FiredInv, FiringsBounded
<1> QED
  BY <1>1, CronInvariance, PTL

=============================================================================
