--------------------------- MODULE CronScheduler ---------------------------
(***************************************************************************)
(* Cron jobs (internal/scheduler, storage/postgres/cronjob_repo.go) and the *)
(* gateway instances that fire them.  A poll is one transaction: it locks   *)
(* the due rows that nobody has locked, submits a workflow for each,        *)
(* records the next run, and commits.  Submit has a connection of its own,  *)
(* so a transaction that is rolled back takes no workflow back.             *)
(***************************************************************************)
EXTENDS Integers, FiniteSets

CONSTANTS
  Instances,      \* gateway processes, each with a scheduler
  Jobs,
  Period,         \* the schedule of every job: the multiples of Period
  Window,         \* MissedJobWindow
  MaxConcurrent,  \* MaxConcurrent
  LastTime,       \* bound: the clock stops there
  Faults,         \* which of "crash", "statement" and "edit" may go wrong
  MaxFaults       \* bound: how many of them do

VARIABLES
  now,
  row,      \* the committed rows of cron_jobs
  phase,    \* what each scheduler is at
  work,     \* what its transaction has done about each job
  pending,  \* the next_run_at it has written
  broken,   \* the instances whose transaction can only be rolled back
  edit,     \* the row an update handler has put together and not saved
  fired,    \* workflows submitted for each job and time it was due
  faults    \* what has gone wrong so far

vars == <<now, row, phase, work, pending, broken, edit, fired, faults>>

Slots == {t \in 0..(LastTime + Period) : t % Period = 0}
NoWork == [j \in Jobs |-> "none"]
NoRun == [j \in Jobs |-> 0]
NoEdit == [job |-> "none", row |-> [state |-> "absent", next |-> 0]]

Fault(kind) == kind \in Faults /\ faults < MaxFaults /\ faults' = faults + 1

\* The cron library: the first time of the schedule after now.
computeNextRun == (now \div Period + 1) * Period

Locked(j) == \E i \in Instances : work[i][j] # "none"

Due(j) == row[j].state = "enabled" /\ row[j].next <= now


\* What FOR UPDATE SKIP LOCKED returns.
DueUnlocked == {j \in Jobs : Due(j) /\ ~Locked(j)}

Init ==
  /\ now = 0
  /\ row = [j \in Jobs |-> [state |-> "absent", next |-> 0]]
  /\ phase = [i \in Instances |-> "starting"]
  /\ work = [i \in Instances |-> NoWork]
  /\ pending = [i \in Instances |-> NoRun]
  /\ broken = {} /\ edit = NoEdit
  /\ fired = [j \in Jobs |-> [s \in Slots |-> 0]]
  /\ faults = 0

Clock ==
  /\ now < LastTime /\ now' = now + 1
  /\ UNCHANGED <<row, phase, work, pending, broken, edit, fired, faults>>

-----------------------------------------------------------------------------
(* One scheduler: Start, recoverMissedJobs, tick, fireJob. *)

Claim(i, due, old) ==
  /\ work' = [work EXCEPT ![i] =
       [j \in Jobs |-> IF j \notin due THEN "none" ELSE IF j \in old THEN "old" ELSE "due"]]
  /\ UNCHANGED <<now, row, pending, broken, edit, fired, faults>>

\* The poll of Start: what is outside the window will only be moved on.
recoverMissedJobs(i) ==
  /\ phase[i] = "starting"
  /\ phase' = [phase EXCEPT ![i] = IF DueUnlocked = {} THEN "idle" ELSE "recovering"]
  /\ Claim(i, DueUnlocked, {j \in Jobs : row[j].next < now - Window})

tick(i) ==
  /\ phase[i] = "idle" /\ DueUnlocked # {}
  /\ phase' = [phase EXCEPT ![i] = "firing"]
  /\ Claim(i, DueUnlocked, {})

\* The query of Start fails, which is only logged; that of tick is as if it had
\* not been made.
RecoveryFails(i) ==
  /\ phase[i] = "starting" /\ "statement" \in Faults
  /\ phase' = [phase EXCEPT ![i] = "idle"]
  /\ UNCHANGED <<now, row, work, pending, broken, edit, fired, faults>>

\* Recovery fires one job after another, tick as many at a time as it may.
Firing(i) == Cardinality({j \in Jobs : work[i][j] = "submitted"})
AtOnce(i) == IF phase[i] = "recovering" THEN 1 ELSE MaxConcurrent

\* fireJob, up to the answer of the engine.
fireJob(i, j, accepted) ==
  /\ work[i][j] = "due" /\ Firing(i) < AtOnce(i)
  /\ work' = [work EXCEPT ![i][j] = "submitted"]
  /\ fired' = IF accepted THEN [fired EXCEPT ![j][row[j].next] = @ + 1] ELSE fired
  /\ UNCHANGED <<now, row, phase, pending, broken, edit, faults>>

\* The rest of fireJob, or of the branch for a job outside the window.  An error
\* is logged; Postgres then refuses what follows in the transaction.
RecordExecution(i, j, ok) ==
  /\ work[i][j] \in {"submitted", "old"}
  /\ work' = [work EXCEPT ![i][j] = "recorded"]
  /\ pending' = [pending EXCEPT ![i][j] = computeNextRun]
  /\ IF ok THEN UNCHANGED <<broken, faults>>
           ELSE broken' = broken \cup {i} /\ Fault("statement")
  /\ UNCHANGED <<now, row, phase, edit, fired>>

LetGo(i, then) ==
  /\ phase' = [phase EXCEPT ![i] = then]
  /\ work' = [work EXCEPT ![i] = NoWork]
  /\ pending' = [pending EXCEPT ![i] = NoRun]
  /\ broken' = broken \ {i}

\* Mutant: a transaction with a failed statement is never ended.
CommitIntact(i) ==
  /\ phase[i] \in {"recovering", "firing"} /\ i \notin broken
  /\ \A j \in Jobs : work[i][j] \in {"none", "recorded"}
  /\ row' = [j \in Jobs |->
       IF work[i][j] = "recorded" THEN [row[j] EXCEPT !.next = pending[i][j]] ELSE row[j]]
  /\ LetGo(i, "idle")
  /\ UNCHANGED <<now, edit, fired, faults>>

\* The end of the transaction, once every job of it is through.
Commit(i) ==
  /\ phase[i] \in {"recovering", "firing"}
  /\ \A j \in Jobs : work[i][j] \in {"none", "recorded"}
  /\ row' = [j \in Jobs |->
       IF work[i][j] = "recorded" /\ i \notin broken
       THEN [row[j] EXCEPT !.next = pending[i][j]] ELSE row[j]]
  /\ LetGo(i, "idle")
  /\ UNCHANGED <<now, edit, fired, faults>>

\* The process stops, or its context is cancelled: the transaction is undone.
Crash(i) ==
  /\ phase[i] # "down" /\ Fault("crash")
  /\ LetGo(i, "down")
  /\ UNCHANGED <<now, row, edit, fired>>

Start(i) ==
  /\ phase[i] = "down"
  /\ phase' = [phase EXCEPT ![i] = "starting"]
  /\ UNCHANGED <<now, row, work, pending, broken, edit, fired, faults>>

-----------------------------------------------------------------------------
(* The job handlers of the HTTP gateway, and the create_cronjob tool. *)

Create(j, state) ==
  /\ row[j].state = "absent"
  /\ row' = [row EXCEPT ![j] = [state |-> state, next |-> computeNextRun]]
  /\ UNCHANGED <<now, phase, work, pending, broken, edit, fired, faults>>

\* handleCronJobUpdate up to the save: the row as it was read, with what the
\* request changes.  A new expression also sets a new next_run_at.
UpdateGet(j, state, newExpression) ==
  /\ edit = NoEdit /\ row[j].state \in {"enabled", "disabled"}
  /\ edit' = [job |-> j,
              row |-> [state |-> state,
                       next |-> IF newExpression THEN computeNextRun ELSE row[j].next]]
  /\ UNCHANGED <<now, row, phase, work, pending, broken, fired, faults>>

\* Save writes every column, and inserts the row again when it is gone.  It waits
\* for whoever has locked the row.
UpdateSave(j) ==
  /\ edit.job = j /\ ~Locked(j)
  /\ row' = [row EXCEPT ![j] = edit.row]
  /\ IF edit.row.next < row[j].next THEN Fault("edit") ELSE UNCHANGED faults
  /\ edit' = NoEdit
  /\ UNCHANGED <<now, phase, work, pending, broken, fired>>

\* A request that is not valid is answered before the save.
UpdateRejected ==
  /\ edit # NoEdit /\ edit' = NoEdit
  /\ UNCHANGED <<now, row, phase, work, pending, broken, fired, faults>>

Delete(j) ==
  /\ row[j].state \in {"enabled", "disabled"} /\ ~Locked(j)
  /\ row' = [row EXCEPT ![j].state = "deleted"]
  /\ UNCHANGED <<now, phase, work, pending, broken, edit, fired, faults>>

Scheduler(i) ==
  \/ recoverMissedJobs(i) \/ tick(i) \/ Commit(i) \/ Start(i)
  \/ \E j \in Jobs :
       \/ \E accepted \in BOOLEAN : fireJob(i, j, accepted)
       \/ RecordExecution(i, j, TRUE)

Handlers ==
  \E j \in Jobs :
    \/ \E state \in {"enabled", "disabled"} :
         \/ Create(j, state)
         \/ \E newExpression \in BOOLEAN : UpdateGet(j, state, newExpression)
    \/ UpdateSave(j) \/ Delete(j)

Next ==
  \/ Clock
  \/ \E i \in Instances :
       \/ Scheduler(i) \/ RecoveryFails(i) \/ Crash(i)
       \/ \E j \in Jobs : RecordExecution(i, j, FALSE)
  \/ Handlers \/ UpdateRejected

\* The ticker keeps polling, transactions end, and stopped gateways are restarted.
Fairness == \A i \in Instances : WF_vars(Scheduler(i))

Spec == Init /\ [][Next]_vars /\ Fairness

-----------------------------------------------------------------------------

TypeOK ==
  /\ now \in 0..LastTime
  /\ row \in [Jobs -> [state : {"absent", "enabled", "disabled", "deleted"}, next : Slots]]
  /\ phase \in [Instances -> {"down", "starting", "idle", "recovering", "firing"}]
  /\ work \in [Instances -> [Jobs -> {"none", "due", "old", "submitted", "recorded"}]]
  /\ pending \in [Instances -> [Jobs -> Slots]]
  /\ broken \subseteq Instances
  /\ edit.job \in Jobs \cup {"none"}
  /\ fired \in [Jobs -> [Slots -> Nat]]
  /\ faults \in 0..MaxFaults

\* However the schedulers interleave, a job is submitted once for a time it is
\* due, and once more for each crash, failed statement or stale update.
FiringsBounded == \A j \in Jobs, s \in Slots : fired[j][s] <= 1 + faults

\* A due job does not stay due: a scheduler gets to it, over restarts, locks of
\* other schedulers and transactions rolled back, or somebody takes it off.
EventuallyServed == \A j \in Jobs : Due(j) ~> ~Due(j)

=============================================================================
