-------------------------- MODULE BudgetRepository --------------------------
(***************************************************************************)
(* The budget of one user in Postgres (storage/postgres/budget_repo.go,    *)
(* security/pg_budget.go) and the tool calls that draw on it.  A budget    *)
(* row is found or created for each day; a transaction sees the rows       *)
(* committed before it, and locks the one it uses from the sum of the      *)
(* reservations to its commit, so that part is one step.                   *)
(***************************************************************************)
EXTENDS Integers, FiniteSets, FiniteSetsExt

CONSTANTS
  Workers,  \* what executes the user's tool calls, each one after another
  Costs,    \* what a call may be estimated to cost
  Limit,    \* LimitUSD
  LastDay   \* bound: the calendar stops there

VARIABLES
  day,      \* today, the period_start of a new row
  rows,     \* the committed budget rows
  active,   \* SUM(amount_usd) of the unreleased reservations of each row
  phase,    \* how far the call of each worker is
  row,      \* the budget row of its transaction
  cost,     \* its estimate
  charged   \* what the calls reserved on each day have cost, up to Limit + 1

vars == <<day, rows, active, phase, row, cost, charged>>

Days == 1..LastDay
RowIds == [day : Days, by : Workers]

\* What row[w] is between two calls.
NoRow(w) == [day |-> 1, by |-> w]

Today == {r \in rows : r.day = day}

Init ==
  /\ day = 1 /\ rows = {}
  /\ active = [r \in RowIds |-> 0]
  /\ phase = [w \in Workers |-> "idle"]
  /\ row = [w \in Workers |-> NoRow(w)]
  /\ cost = [w \in Workers |-> 0]
  /\ charged = [d \in Days |-> 0]

Midnight ==
  /\ day < LastDay /\ day' = day + 1
  /\ UNCHANGED <<rows, active, phase, row, cost, charged>>

\* getOrCreateBudget: the first of today's rows, by a random id, or a row that
\* only this transaction sees until it commits.
getOrCreateBudget(w, estimate) ==
  /\ phase[w] = "idle" /\ phase' = [phase EXCEPT ![w] = "found"]
  /\ cost' = [cost EXCEPT ![w] = estimate]
  /\ \E r \in IF Today = {} THEN {[day |-> day, by |-> w]} ELSE Today :
       row' = [row EXCEPT ![w] = r]
  /\ UNCHANGED <<day, rows, active, charged>>

Idle(w) ==
  /\ phase' = [phase EXCEPT ![w] = "idle"]
  /\ cost' = [cost EXCEPT ![w] = 0]
  /\ row' = [row EXCEPT ![w] = NoRow(w)]

\* Rolling back takes a new row away again.
GiveUp(w) ==
  /\ Idle(w)
  /\ UNCHANGED <<day, rows, active, charged>>

Insert(w) ==
  /\ active' = [active EXCEPT ![row[w]] = @ + cost[w]]
  /\ rows' = rows \cup {row[w]}
  /\ phase' = [phase EXCEPT ![w] = "reserved"]
  /\ UNCHANGED <<day, row, cost, charged>>

\* Lock the row, sum, check, insert, commit.  spent_usd is never raised.
ReserveBudget(w) ==
  /\ phase[w] = "found"
  /\ IF cost[w] <= Limit - active[row[w]] THEN Insert(w) ELSE GiveUp(w)

\* A statement fails, or the process stops: the transaction is rolled back.
ReserveFails(w) == phase[w] = "found" /\ GiveUp(w)

Charge(w) == LET d == row[w].day IN
  charged' = [charged EXCEPT ![d] = Min({@ + cost[w], Limit + 1})]

\* Mutant: the reservations of the row are released together.
ReleaseAll(w, ok) ==
  /\ phase[w] = "reserved"
  /\ Charge(w)
  /\ active' = IF ok THEN [active EXCEPT ![row[w]] = 0] ELSE active
  /\ Idle(w)
  /\ UNCHANGED <<day, rows>>

\* The tool has run: RecordCost only logs, and the deferred release marks the
\* reservation as released, unless the statement fails or the process stops.
RecordCostAndRelease(w, ok) ==
  /\ phase[w] = "reserved"
  /\ Charge(w)
  /\ active' = IF ok THEN [active EXCEPT ![row[w]] = @ - cost[w]] ELSE active
  /\ Idle(w)
  /\ UNCHANGED <<day, rows>>

Next ==
  \/ Midnight
  \/ \E w \in Workers :
       \/ \E estimate \in Costs : getOrCreateBudget(w, estimate)
       \/ ReserveBudget(w) \/ ReserveFails(w)
       \/ \E ok \in BOOLEAN : RecordCostAndRelease(w, ok)

Spec == Init /\ [][Next]_vars

-----------------------------------------------------------------------------

TypeOK ==
  /\ day \in Days /\ rows \subseteq RowIds
  /\ active \in [RowIds -> Nat]
  /\ phase \in [Workers -> {"idle", "found", "reserved"}]
  /\ row \in [Workers -> RowIds]
  /\ cost \in [Workers -> Costs \cup {0}]
  /\ charged \in [Days -> 0..(Limit + 1)]

\* The cost of the calls under way that satisfy P.
UnderWay(P(_)) == MapThenSumSet(LAMBDA w : cost[w], {w \in Workers : phase[w] = "reserved" /\ P(w)})

\* A call under way keeps its reservation: what others release, and failed
\* releases, never make room that is still in use.
ReservationsAreKept ==
  \A r \in RowIds : UnderWay(LAMBDA w : row[w] = r) <= active[r]

\* The lock serialises the reservations of a budget row: the calls that share
\* it never hold more than the limit between them, even across midnight.
RowWithinLimit == \A r \in RowIds : UnderWay(LAMBDA w : row[w] = r) <= Limit

\* "Uses SELECT ... FOR UPDATE to serialize concurrent reservations": the calls
\* of one day never hold more than the limit between them.
DayWithinLimit == \A d \in Days : UnderWay(LAMBDA w : row[w].day = d) <= Limit

\* "Per-user cost limits": the calls of one day never cost more than the limit.
SpendingWithinLimit == \A d \in Days : charged[d] <= Limit

=============================================================================
