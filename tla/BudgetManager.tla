---------------------------- MODULE BudgetManager ----------------------------
(***************************************************************************)
(* The in-memory budget of one user (security/budget.go) and the tool      *)
(* calls that draw on it (executeWithAudit of agent/orchestrator.go).      *)
(* Every method of the manager holds its mutex, so each is one step; the   *)
(* steps of concurrent calls interleave.  Money is counted in integers.    *)
(***************************************************************************)
EXTENDS Integers, FiniteSets, FiniteSetsExt

CONSTANTS
  Workers,       \* what executes the user's tool calls, each one after another
  Costs,         \* what a call may be estimated to cost
  Limit          \* defaultLimitUSD

VARIABLES
  spent,     \* userBudget.spent
  reserved,  \* userBudget.reserved
  phase,     \* how far the call of each worker is
  cost       \* its estimate, which is also what it is charged

vars == <<spent, reserved, phase, cost>>

UnderWay == {w \in Workers : phase[w] = "reserved"}

Total(workers) == MapThenSumSet(LAMBDA w : cost[w], workers)

Remaining == Limit - spent - reserved

Init ==
  /\ spent = 0 /\ reserved = 0
  /\ phase = [w \in Workers |-> "idle"]
  /\ cost = [w \in Workers |-> 0]

Start(w, estimate) ==
  /\ phase' = [phase EXCEPT ![w] = "reserved"]
  /\ cost' = [cost EXCEPT ![w] = estimate]
  /\ reserved' = reserved + estimate
  /\ UNCHANGED spent

\* A call that does not fit is refused, and changes nothing.
ReserveBudget(w, estimate) ==
  phase[w] = "idle" /\ estimate <= Remaining /\ Start(w, estimate)

Recorded(w) ==
  /\ phase[w] = "reserved"
  /\ spent' = spent + cost[w]
  /\ phase' = [phase EXCEPT ![w] = "recorded"]
  /\ UNCHANGED cost

\* The tool has been executed, successfully or not.
RecordCost(w) ==
  Recorded(w) /\ reserved' = IF reserved >= cost[w] THEN reserved - cost[w] ELSE 0

\* The release function, which executeWithAudit defers: after RecordCost, or
\* because the tool panicked.  Its flag released makes a second call do nothing.
Release(w) ==
  /\ phase[w] \in {"reserved", "recorded"}
  /\ reserved' = reserved - cost[w]
  /\ phase' = [phase EXCEPT ![w] = "idle"]
  /\ cost' = [cost EXCEPT ![w] = 0]
  /\ UNCHANGED spent

Next ==
  \E w \in Workers :
    \/ \E estimate \in Costs : ReserveBudget(w, estimate)
    \/ RecordCost(w)
    \/ Release(w)

Spec == Init /\ [][Next]_vars

-----------------------------------------------------------------------------

TypeOK ==
  /\ spent \in Nat /\ reserved \in Int
  /\ phase \in [Workers -> {"idle", "reserved", "recorded"}]
  /\ cost \in [Workers -> Costs \cup {0}]

Committed == spent + Total(UnderWay)

\* "Execution is blocked when budget is exhausted": what was spent and what the
\* calls under way will cost never exceed the limit.
WithinLimit == Committed <= Limit

\* Nothing leaks: a finished or abandoned call leaves no reservation behind that
\* would block later ones.
NoReservationLeaks == reserved <= Total(UnderWay)

\* Although executeWithAudit gives a reservation back twice, RecordCost raising
\* a counter below zero bounds the damage: at most one more call per worker.
OverspendBounded == Committed <= Limit + Cardinality(Workers) * Max(Costs)

=============================================================================
