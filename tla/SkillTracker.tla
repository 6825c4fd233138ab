---------------------------- MODULE SkillTracker ----------------------------
(***************************************************************************)
(* The record of a skill (internal/orchestrator/skill.go, skill_repo.go,    *)
(* internal/skillloader/seed.go): one row, which the trackers of several    *)
(* processes read, change and write back after every task, and which a      *)
(* skill file of the role's name creates when it is loaded.  A tracker's    *)
(* mutex keeps the tasks of its own process apart.  The row is abstracted   *)
(* to its counts and its maturity; averages and labels go with them.        *)
(***************************************************************************)
EXTENDS Naturals, Sequences, FiniteSetsExt

CONSTANTS
  Processes,  \* each has a tracker, and loads the skill file once
  Levels,     \* the completions and the reliability, in percent, each level asks for
  MaxTasks,   \* bound: tasks completed
  MaxFaults   \* bound: failed statements

VARIABLES
  row,        \* agent_skills: there or not, successes, failures, maturity
  tracker,    \* RecordCompletion of each process: the copy it has read and changed
  seeder,     \* SeedSkills of each process
  done,       \* ghost: the completions recorded, and the best level reached
  disturbed,  \* ghost: a row was written by who had not read it as it was
  faults      \* what has gone wrong so far

vars == <<row, tracker, seeder, done, disturbed, faults>>

NewSkill == [there |-> TRUE, success |-> 0, failure |-> 0, maturity |-> 0]
NoRow == [NewSkill EXCEPT !.there = FALSE]
NoTask == [busy |-> FALSE, read |-> NoRow, skill |-> NoRow]

Init ==
  /\ row = NoRow
  /\ tracker = [p \in Processes |-> NoTask]
  /\ seeder = [p \in Processes |-> "before"]
  /\ done = [success |-> 0, failure |-> 0, best |-> 0]
  /\ disturbed = FALSE /\ faults = 0

Fault == faults < MaxFaults /\ faults' = faults + 1

totalCompletions(s) == s.success + s.failure

computeMaturity(s) ==
  Max({0} \cup {l \in DOMAIN Levels : /\ totalCompletions(s) >= Levels[l].completions
                                       /\ s.success * 100 >= Levels[l].percent * totalCompletions(s)})

\* Mutant: the maturity is what the counts give now.
MaturedBothWays(s) == [s EXCEPT !.maturity = computeMaturity(s)]

\* Monotonic: can only advance.
Matured(s) == [s EXCEPT !.maturity = IF computeMaturity(s) > @ THEN computeMaturity(s) ELSE @]

Counted(s, success) == IF success THEN [s EXCEPT !.success = @ + 1] ELSE [s EXCEPT !.failure = @ + 1]

\* RecordCompletion reads the row and changes its copy.  Any error is taken for a
\* skill that has no row yet.
RecordCompletion(p, success, ok) ==
  /\ ~tracker[p].busy
  /\ totalCompletions(done) < MaxTasks
  /\ LET found == IF ok /\ row.there THEN row ELSE NewSkill IN
       tracker' = [tracker EXCEPT ![p] = [busy |-> TRUE, read |-> IF ok THEN row ELSE NoRow,
                                          skill |-> Matured(Counted(found, success))]]
  /\ done' = LET d == Counted([success |-> done.success, failure |-> done.failure], success) IN
       [success |-> d.success, failure |-> d.failure,
        best |-> Max({done.best, computeMaturity(d)})]
  /\ IF ok THEN UNCHANGED faults ELSE Fault
  /\ UNCHANGED <<row, seeder, disturbed>>

\* UpsertSkill writes every column; a failure is logged, and the task not counted.
UpsertSkill(p, ok) ==
  /\ tracker[p].busy /\ tracker' = [tracker EXCEPT ![p] = NoTask]
  /\ IF ok
     THEN /\ row' = tracker[p].skill
          /\ disturbed' = (disturbed \/ row # tracker[p].read)
          /\ UNCHANGED faults
     ELSE Fault /\ disturbed' = TRUE /\ UNCHANGED row
  /\ UNCHANGED <<seeder, done>>

\* SeedSkills skips a skill that has a row; a failed read is taken for none.
SeedSkills(p, ok) ==
  /\ seeder[p] = "before"
  /\ seeder' = [seeder EXCEPT ![p] = IF ok /\ row.there THEN "after" ELSE "seeding"]
  /\ IF ok THEN UNCHANGED faults ELSE Fault
  /\ disturbed' = (disturbed \/ (~ok /\ row.there))
  /\ UNCHANGED <<row, tracker, done>>

\* A row without counts; when it cannot be written there is none.
SeedUpsert(p, ok) ==
  /\ seeder[p] = "seeding"
  /\ seeder' = [seeder EXCEPT ![p] = "after"]
  /\ IF ok
     THEN /\ row' = NewSkill /\ UNCHANGED faults
          /\ disturbed' = (disturbed \/ row.there)
     ELSE Fault /\ UNCHANGED <<row, disturbed>>
  /\ UNCHANGED <<tracker, done>>

Next ==
  \E p \in Processes, ok \in BOOLEAN :
    \/ \E success \in BOOLEAN : RecordCompletion(p, success, ok)
    \/ UpsertSkill(p, ok) \/ SeedSkills(p, ok) \/ SeedUpsert(p, ok)

Spec == Init /\ [][Next]_vars

-----------------------------------------------------------------------------

Skill == [there : BOOLEAN, success : Nat, failure : Nat, maturity : 0..Len(Levels)]

TypeOK ==
  /\ row \in Skill
  /\ tracker \in [Processes -> [busy : BOOLEAN, read : Skill, skill : Skill]]
  /\ seeder \in [Processes -> {"before", "seeding", "after"}]
  /\ done \in [success : Nat, failure : Nat, best : 0..Len(Levels)]
  /\ disturbed \in BOOLEAN /\ faults \in 0..MaxFaults

Pending == {p \in Processes : tracker[p].busy}

\* With no task under way the row counts every task there was and has the highest
\* level they ever earned ("existing skills are skipped to preserve learned
\* metrics", "monotonic: can only advance"), unless two processes, or the tracker and
\* the seeder of one, have changed the row at once or a statement failed.
RecordIsExact ==
  ~disturbed /\ Pending = {} /\ totalCompletions(done) > 0 =>
    /\ row.there /\ row.success = done.success /\ row.failure = done.failure
    /\ row.maturity = done.best

=============================================================================
