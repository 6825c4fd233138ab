--------------------------- MODULE HeartbeatTasks ---------------------------
(***************************************************************************)
(* Heartbeat tasks (internal/heartbeattask, heartbeattask_repo.go): every   *)
(* gateway instance has a poller, which brings the task files into the      *)
(* table, and a runner, which executes the tasks of the table when they are *)
(* due.  A file is abstracted to its frontmatter's name (its group), its    *)
(* enabled flag and the names of its tasks; a task is a group and a name.   *)
(***************************************************************************)
EXTENDS Integers, FiniteSetsExt

CONSTANTS
  Instances,   \* gateway processes
  Contents,    \* what each file may hold, valid files only
  Period,      \* the schedule of every task: the multiples of Period
  LastTime,    \* bound: the clock stops there
  MaxChanges,  \* bound: how often files are written or removed
  MaxFaults    \* bound: crashes, failed statements and unreadable directories

Absent == [group |-> "none", enabled |-> "no", names |-> {}]
Invalid == [group |-> "invalid", enabled |-> "no", names |-> {}]

Files == DOMAIN Contents
TaskIds == UNION {{<<c.group, n>> : n \in c.names} : c \in UNION {Contents[f] : f \in Files}}
Groups == {t[1] : t \in TaskIds}

VARIABLES
  now,
  disk,     \* what each file holds
  changes,  \* how often files have changed
  row,      \* the rows of heartbeat_tasks; a deleted row stays, with deleted_at set
  known,    \* fileStates of each poller: the content a file was synced with
  scan,     \* the files a poller has still to look at, and those it has seen
  running,  \* the tasks each runner executes, and when they were due
  ran,      \* executions by each instance of each task for each time it was due
  faults    \* what has gone wrong so far

vars == <<now, disk, changes, row, known, scan, running, ran, faults>>

Slots == {t \in 0..(LastTime + Period) : t % Period = 0}
NoFiles == [f \in Files |-> Absent]
NoScan == [state |-> "waiting", todo |-> {}, seen |-> {}]

Fault == faults < MaxFaults /\ faults' = faults + 1

\* The cron library: the first time of the schedule after now.
ComputeNextRunFrom == (now \div Period + 1) * Period

Init ==
  /\ now = 0 /\ disk = NoFiles /\ changes = 0
  /\ row = [t \in TaskIds |-> [state |-> "none", enabled |-> "no", next |-> 0]]
  /\ known = [i \in Instances |-> NoFiles]
  /\ scan = [i \in Instances |-> NoScan]
  /\ running = [i \in Instances |-> {}]
  /\ ran = [i \in Instances |-> [t \in TaskIds |-> [s \in Slots |-> 0]]]
  /\ faults = 0

Clock ==
  /\ now < LastTime /\ now' = now + 1
  /\ UNCHANGED <<disk, changes, row, known, scan, running, ran, faults>>

\* The operator writes or removes a file.
WriteFile(f, content) ==
  /\ changes < MaxChanges /\ changes' = changes + 1
  /\ disk[f] # content /\ disk' = [disk EXCEPT ![f] = content]
  /\ UNCHANGED <<now, row, known, scan, running, ran, faults>>

-----------------------------------------------------------------------------
(* The poller. *)

\* syncAll reads the directory; when that fails it goes on as if it were empty.
ReadDir(i, ok) ==
  /\ scan[i].state = "waiting"
  /\ LET present == IF ok THEN {f \in Files : disk[f] # Absent} ELSE {} IN
       scan' = [scan EXCEPT ![i] = [state |-> "scanning", todo |-> present, seen |-> present]]
  /\ IF ok THEN UNCHANGED faults ELSE Fault
  /\ UNCHANGED <<now, disk, changes, row, known, running, ran>>

Parsed(i, f) == disk[f] \notin {Absent, Invalid} /\ known[i][f] # disk[f]

IdsOf(content) == {<<content.group, n>> : n \in content.names}

\* Insert, or update the columns of the row that is there; deleted_at is not one
\* of them.
Upsert(t, enabled) ==
  [state |-> IF row[t].state = "none" THEN "live" ELSE row[t].state,
   enabled |-> enabled, next |-> ComputeNextRunFrom]

\* One file of syncAll, with syncFile when it is new or has changed.  A file that
\* cannot be parsed is left as it was; a task that cannot be written is logged,
\* and the file counts as synced.
syncFile(i, f, failing) ==
  /\ f \in scan[i].todo
  /\ scan' = [scan EXCEPT ![i].todo = @ \ {f}]
  /\ IF Parsed(i, f)
     THEN /\ failing \subseteq IdsOf(disk[f])
          /\ row' = [t \in TaskIds |-> IF t \in IdsOf(disk[f]) \ failing
                                       THEN Upsert(t, disk[f].enabled) ELSE row[t]]
          /\ known' = [known EXCEPT ![i][f] = disk[f]]
          /\ IF failing = {} THEN UNCHANGED faults ELSE Fault
     ELSE failing = {} /\ UNCHANGED <<row, known, faults>>
  /\ UNCHANGED <<now, disk, changes, running, ran>>

\* The end of syncAll: the groups of the files that were not seen are deleted.  One that
\* cannot be deleted is logged, and its files are forgotten all the same.
RemoveUnseen(i, failing) ==
  /\ scan[i].state = "scanning" /\ scan[i].todo = {}
  /\ LET gone == {f \in Files \ scan[i].seen : known[i][f] # Absent}
         groups == {known[i][f].group : f \in gone} IN
       /\ failing \subseteq groups
       /\ IF failing = {} THEN UNCHANGED faults ELSE Fault
       /\ row' = [t \in TaskIds |-> IF t[1] \in groups \ failing /\ row[t].state = "live"
                                    THEN [row[t] EXCEPT !.state = "deleted"] ELSE row[t]]
       /\ known' = [known EXCEPT ![i] = [f \in Files |-> IF f \in gone THEN Absent ELSE @[f]]]
  /\ scan' = [scan EXCEPT ![i] = NoScan]
  /\ UNCHANGED <<now, disk, changes, running, ran>>

-----------------------------------------------------------------------------
(* The runner. *)

Due(t) == row[t].state = "live" /\ row[t].enabled = "yes" /\ row[t].next <= now
Idle(i) == running[i] = {}

\* tick: the transaction ends with the query, and with it the locks.
tick(i) ==
  /\ Idle(i)
  /\ \E t \in TaskIds : Due(t)
  /\ running' = [running EXCEPT ![i] = {[id |-> t, slot |-> row[t].next] : t \in {u \in TaskIds : Due(u)}}]
  /\ ran' = [ran EXCEPT ![i] =
       [t \in TaskIds |-> IF Due(t) THEN [@[t] EXCEPT ![row[t].next] = @ + 1] ELSE @[t]]]
  /\ UNCHANGED <<now, disk, changes, row, known, scan, faults>>

\* The end of executeTask: the task is moved on, unless the statement fails.
executeTask(i, e, ok) ==
  /\ e \in running[i]
  /\ running' = [running EXCEPT ![i] = @ \ {e}]
  /\ IF ok
     THEN /\ row' = IF row[e.id].state = "live"
                    THEN [row EXCEPT ![e.id].next = ComputeNextRunFrom] ELSE row
          /\ UNCHANGED faults
     ELSE UNCHANGED row /\ Fault
  /\ UNCHANGED <<now, disk, changes, known, scan, ran>>

\* The process stops and is started again: what the poller knew is gone.
Restart(i) ==
  /\ Fault
  /\ known' = [known EXCEPT ![i] = NoFiles]
  /\ scan' = [scan EXCEPT ![i] = NoScan]
  /\ running' = [running EXCEPT ![i] = {}]
  /\ UNCHANGED <<now, disk, changes, row, ran>>

Poller(i) ==
  \/ ReadDir(i, TRUE) \/ RemoveUnseen(i, {})
  \/ \E f \in Files : syncFile(i, f, {})

Runner(i) == tick(i) \/ \E e \in running[i] : executeTask(i, e, TRUE)

Failures(i) ==
  \/ ReadDir(i, FALSE) \/ Restart(i)
  \/ \E f \in Files, failing \in SUBSET TaskIds \ {{}} : syncFile(i, f, failing)
  \/ \E failing \in SUBSET Groups \ {{}} : RemoveUnseen(i, failing)
  \/ \E e \in running[i] : executeTask(i, e, FALSE)

Next ==
  \/ Clock
  \/ \E f \in Files : \E content \in Contents[f] \cup {Absent, Invalid} : WriteFile(f, content)
  \/ \E i \in Instances : Poller(i) \/ Runner(i) \/ Failures(i)

\* The poller keeps ticking.
Fairness == \A i \in Instances : WF_vars(Poller(i))

Spec == Init /\ [][Next]_vars /\ Fairness

-----------------------------------------------------------------------------

TypeOK ==
  /\ now \in 0..LastTime /\ changes \in 0..MaxChanges /\ faults \in 0..MaxFaults
  /\ \A f \in Files : disk[f] \in Contents[f] \cup {Absent, Invalid}
  /\ row \in [TaskIds -> [state : {"none", "live", "deleted"}, enabled : {"yes", "no"}, next : Slots]]
  /\ \A i \in Instances, f \in Files : known[i][f] \in Contents[f] \cup {Absent}
  /\ scan \in [Instances -> [state : {"waiting", "scanning"}, todo : SUBSET Files, seen : SUBSET Files]]
  /\ running \in [Instances -> SUBSET [id : TaskIds, slot : Slots]]
  /\ ran \in [Instances -> [TaskIds -> [Slots -> Nat]]]

\* A runner waits for its tasks before it polls again, and their rows are moved on by
\* then: it executes a task once for a time it is due, and once more for each execution
\* that was not recorded, whatever the pollers and the other runners write meanwhile.
RunnerOnce ==
  \A i \in Instances, t \in TaskIds, s \in Slots : ran[i][t][s] <= 1 + faults

\* "SELECT FOR UPDATE SKIP LOCKED prevents double-execution across gateway instances":
\* all of the runners together execute a task once for a time it is due.
DueOnce ==
  \A t \in TaskIds, s \in Slots : MapThenSumSet(LAMBDA i : ran[i][t][s], Instances) <= 1 + faults

Valid(f) == disk[f] \notin {Absent, Invalid}

\* No other file may define task t.
OnlyIn(f, t) == \A g \in Files \ {f} : \A c \in Contents[g] : t \notin IdsOf(c)

\* No file that may be of the group is there.
NoFileOf(group) == \A f \in Files : (\E c \in Contents[f] : c.group = group) => disk[f] = Absent

\* Every task of a valid file has a row, enabled as the file says if no other file may
\* define it, and no task is left of a group without files.  The row may be one that is
\* deleted, and a task that is no longer in its file keeps its row.  A statement that
\* failed is not made up for.
Synced ==
  faults = 0 =>
    /\ \A f \in Files : Valid(f) => \A t \in IdsOf(disk[f]) :
         row[t].state # "none" /\ (OnlyIn(f, t) => row[t].enabled = disk[f].enabled)
    /\ \A t \in TaskIds : NoFileOf(t[1]) => row[t].state # "live"

\* Once nobody changes the files the table has settled, over all pollers.
SyncConverges == <>[]Synced

\* "Drop files in a directory, and the poller automatically syncs them": the tasks of
\* a valid file are there to be executed.
Runnable ==
  faults = 0 => \A f \in Files : Valid(f) => \A t \in IdsOf(disk[f]) : row[t].state = "live"

\* The same of files that were removed and put back.
TasksFollowFiles == <>[]Runnable

=============================================================================
