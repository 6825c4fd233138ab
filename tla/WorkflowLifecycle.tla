------------------------- MODULE WorkflowLifecycle --------------------------
(***************************************************************************)
(* What the workflow engine promises to whoever reads the store (the HTTP  *)
(* API, the CLI): how the status of a workflow and of its tasks may change *)
(* (the WorkflowStatus and TaskStatus values of orchestrator/types.go),    *)
(* whatever goroutines, plans and failures make them change.               *)
(***************************************************************************)
EXTENDS Naturals, Sequences

VARIABLES
  status,  \* the status of the workflow
  board    \* its tasks: their status, and the tasks they depend on

WithTaskStatus(s) == {t \in DOMAIN board : board[t].status = s}

Init == status = "none" /\ board = <<>>

Create == status = "none" /\ status' = "pending" /\ UNCHANGED board

Begin ==
  /\ status = "pending" /\ board # <<>>
  /\ status' = "running"
  /\ UNCHANGED board

\* New tasks are pending; those that exist do not change.
AddTasks ==
  /\ status \in {"pending", "running"}
  /\ Len(board') > Len(board)
  /\ \A t \in DOMAIN board : board'[t] = board[t]
  /\ \A t \in DOMAIN board' \ DOMAIN board : board'[t].status = "pending"
  /\ UNCHANGED status

Move(t, from, to) ==
  /\ status = "running"
  /\ board[t].status = from
  /\ board' = [board EXCEPT ![t].status = to]
  /\ UNCHANGED status

\* A task starts when all it depends on is completed.
Start(t) ==
  /\ board[t].deps \subseteq WithTaskStatus("completed")
  /\ Move(t, "pending", "running")

Execute(t) == Move(t, "running", "completed") \/ Move(t, "running", "failed")

\* A failed task may be diagnosed, then retried, given up or skipped.
Recover(t) ==
  \/ Move(t, "failed", "recovering")
  \/ Move(t, "recovering", "pending")
  \/ Move(t, "recovering", "failed")
  \/ Move(t, "recovering", "skipped")

Complete ==
  /\ status = "running"
  /\ \A s \in {"running", "failed", "recovering"} : WithTaskStatus(s) = {}
  /\ status' = "completed"
  /\ UNCHANGED board

Fail == status = "running" /\ status' = "failed" /\ UNCHANGED board

Cancel ==
  /\ status = "running"
  /\ status' = "cancelled"
  /\ board' = [t \in DOMAIN board |->
                 IF board[t].status = "pending"
                   THEN [board[t] EXCEPT !.status = "skipped"] ELSE board[t]]

Next ==
  \/ Create \/ Begin \/ AddTasks
  \/ \E t \in DOMAIN board : Start(t) \/ Execute(t) \/ Recover(t)
  \/ Complete \/ Fail \/ Cancel

Spec == Init /\ [][Next]_<<status, board>>

=============================================================================
