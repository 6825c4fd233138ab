-------------------------- MODULE MCWorkflowEngine --------------------------
(***************************************************************************)
(* Instances of WorkflowEngine for TLC.                                    *)
(***************************************************************************)
EXTENDS WorkflowEngineProofs

SpecOf(role, deps, prio) == [role |-> role, deps |-> deps, prio |-> prio]

\* An unparsable answer, a cycle, a chain, two independent tasks of different
\* priority, and a nested planner.
SmallPlans ==
  { <<>>,
    <<SpecOf("executor", {2}, 0), SpecOf("executor", {1}, 0)>>,
    <<SpecOf("executor", {2}, 0), SpecOf("executor", {}, 0)>>,
    <<SpecOf("executor", {}, 1), SpecOf("executor", {}, 0)>>,
    <<SpecOf("planner", {}, 0), SpecOf("executor", {}, 0)>> }

\* Also plans whose second task has a role that does not exist.
BadRolePlans ==
  SmallPlans \cup { <<SpecOf("planner", {}, 0), SpecOf("unknown", {}, 0)>>,
                   <<SpecOf("executor", {2}, 0), SpecOf("unknown", {}, 0)>> }

\* A diagnostician the planner asked for has no task to diagnose.
AllPlans ==
  BadRolePlans \cup { <<SpecOf("diagnostician", {}, 0), SpecOf("executor", {1}, 0)>> }

\* When the loop looks for work nothing runs, and recovering tasks and diagnosticians
\* belong to each other.
RowsInStep == BatchIsOver /\ RecoveringIsDiagnosed

=============================================================================
